--------------------------- MODULE MCWalletLedger ---------------------------
(* Small instances of WalletLedger for TLC.                                *)
EXTENDS WalletLedger, TLC

(* Workers, identifiers and subscribers are interchangeable.               *)
Interchangeable ==
    Permutations(Workers) \cup Permutations(Ops) \cup Permutations(Subscribers)

=============================================================================
