------------------------------ MODULE MCLedger ------------------------------
(* Small instances of Ledger.                                              *)
EXTENDS SequentialLedger

CONSTANTS alice, bob, carol, code

-----------------------------------------------------------------------------
(* alice can pay, bob's balance is one short of the maximum, carol has no  *)
(* account.                                                                *)

SeededDb ==
    put_account(
        put_account(
            put_chain_state(
                put_block_height(put_block_hash(EmptyDb, genesis_block), genesis_block),
                ChainState(genesis_block.hash, 0)),
            alice, Wallet(2, 0)),
        bob, Wallet(MaxU64 - 1, 0))

Signed(from, nonce, recipient, payload) ==
    sign(UnsignedTransaction(from, nonce, recipient, payload, 0), from)

Pay(from, nonce, to, sum) ==
    Signed(from, nonce, WalletAddress(to), TransferPayload(sum))

Deploy(from) == Signed(from, 1, WalletAddress(from), DeployPayload(code))
Call(from) == Signed(from, 1, ContractAddress(contract_id(alice, code)), CallPayload)
Note(from) == Signed(from, 1, WalletAddress(alice), DataPayload)

\* not signed, as main.rs leaves them
Unsigned == UnsignedTransaction(alice, 1, WalletAddress(bob), TransferPayload(1), 0)

\* paired with one another: two of one sender in either order, payments that
\* meet in one account, a deployment, and a sender without an account
Paired ==
    { Pay(alice, 1, bob, 1), Pay(alice, 2, bob, 1), Pay(bob, 1, carol, 1),
      Pay(carol, 1, bob, 1), Deploy(alice), Note(bob) }

\* alone: a credit past the maximum, a payment to oneself, too large a payment,
\* a call, a call of what is not a contract
Alone ==
    { Pay(alice, 1, bob, 2), Pay(alice, 1, alice, 1), Pay(bob, 1, carol, MaxU64),
      Call(bob), Signed(bob, 1, WalletAddress(alice), CallPayload),
      Signed(alice, 1, ContractAddress(contract_id(alice, code)), TransferPayload(1)) }

MCPending ==
    {<< >>, <<Unsigned>>} \cup {<<t>> : t \in Alone \cup Paired}
        \cup {<<t, u>> : t, u \in Paired}

MCSeed == {EmptyDb, SeededDb}
=============================================================================
