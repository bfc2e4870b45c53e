----------------------------- MODULE MCStorage -----------------------------
(* A small storage: three blocks, two of them at the same height and one   *)
(* whose height has one digit more, two of them without transactions.      *)
EXTENDS Storage

CONSTANTS alice

MCTransaction ==
    { sign(UnsignedTransaction(alice, 1, WalletAddress(alice), DataPayload, 0), alice) }

Tx1 == CHOOSE tx \in MCTransaction : TRUE

MCBlock == { MakeBlock(9, 1, ZeroHash, << >>), MakeBlock(9, 2, ZeroHash, << >>),
             MakeBlock(10, 3, ZeroHash, <<Tx1>>), MakeBlock(11, 4, ZeroHash, << >>) }

MCAccount == {Wallet(1, 0)}
MCState == {ChainState(ZeroHash, 0)}
MCBatch == { [k \in {Encoded(alice), Raw(Tx1.hash)} |->
                IF k[1] = "raw" THEN Deleted ELSE serialize(Wallet(1, 1))] }
=============================================================================
