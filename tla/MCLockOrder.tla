----------------------------- MODULE MCLockOrder -----------------------------
(* A small instance of LockOrder for TLC: two workers run any two services *)
(* while a third assigns roles.                                            *)
EXTENDS LockOrder, TLC

CONSTANTS w1, w2, w3, x1, s1

OneService == x1 :> s1

Asked == {<<"owner">>}

=============================================================================
