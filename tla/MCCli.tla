------------------------------- MODULE MCCli -------------------------------
(* Two processes that run one command after another, two directories, each *)
(* empty or seeded by a program that embeds the library, and every command *)
(* with usable and unusable arguments.                                     *)
EXTENDS Cli

CONSTANTS alice, wasm, other

MCKeyFile == [f \in {"alice.key", "broken.key"} |-> IF f = "alice.key" THEN alice ELSE None]

SeededDb ==
    contract_storage_write(
        put_account(
            put_chain_state(
                put_block_height(put_block_hash(EmptyDb, genesis_block), genesis_block),
                ChainState(genesis_block.hash, 0)),
            alice, Wallet(2, 1)),
        contract_id(alice, wasm), InitPayloadKey, "payload")

MCSeed == {EmptyDb, SeededDb}

With(type, key_file, arg) == [type |-> type, key_file |-> key_file, arg |-> arg]
Plain(type) == [type |-> type]
On(type, dir) == [type |-> type, dir |-> dir]
Ask(type, arg) == [type |-> type, arg |-> arg]

MCCommand ==
    { With("Transfer", "alice.key", alice), With("Deploy", "alice.key", wasm),
      With("Call", "alice.key", contract_id(alice, wasm)), With("Data", "alice.key", "data"),
      With("Transfer", "broken.key", alice), With("Data", "alice.key", None),
      Plain("Generate"), With("Info", "broken.key", None), Plain("GenerateBlock"),
      Ask("Block", 0), Ask("Account", alice), Ask("Account", None),
      Ask("Storage", contract_id(alice, wasm)), Ask("Contract", contract_id(alice, wasm)),
      Plain("ChainState"), On("Start", DataDir), On("Start", other), On("Embedding", DataDir) }
=============================================================================
