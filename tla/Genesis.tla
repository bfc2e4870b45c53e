------------------------------ MODULE Genesis ------------------------------
(* The genesis block and Ledger::initialize_chain of src/ledger.rs, which  *)
(* Runtime::new calls before it reads the chain state.                     *)
EXTENDS StorageApi

genesis_block == MakeBlock(0, 0, ZeroHash, << >>)

genesis_batch ==
    [k \in {Raw(genesis_block.hash), EncodedGlobalCurrent} |->
        IF k = EncodedGlobalCurrent
        THEN serialize(ChainState(genesis_block.hash, 0))
        ELSE serialize(genesis_block)]

\* fault: a chain that is there is initialised again
initialize_chain_Always(d) == apply_batch(d, genesis_batch)

initialize_chain(d) ==
    IF get_chain_state(d) # None THEN d ELSE apply_batch(d, genesis_batch)
=============================================================================
