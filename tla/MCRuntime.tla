----------------------------- MODULE MCRuntime -----------------------------
(* Small instances of Runtime: three threads, two senders (one without a   *)
(* stored account) and transactions with a fresh, a stale and no signature. *)
EXTENDS Runtime, TLC

CONSTANTS alice, bob

Pay(from, nonce) ==
    UnsignedTransaction(from, nonce, WalletAddress(bob), TransferPayload(1), 0)

\* a fresh transfer, one with a stale nonce, one from an account that does
\* not exist, and one as main.rs builds them: nonce 0, not signed
MCTx == { sign(Pay(alice, 2), alice), sign(Pay(alice, 1), alice),
          sign(Pay(bob, 1), bob), Pay(alice, 0) }

MCStoredNonce == [k \in {alice} |-> 1]

=============================================================================
