------------------------------ MODULE Numbering -----------------------------
(***************************************************************************)
(* What the registry promises about numbers: each series (the account      *)
(* numbers, and the service numbers of each account) hands out its         *)
(* smallest unused number, up to a limit, and takes none back.             *)
(***************************************************************************)
EXTENDS Naturals

CONSTANTS
    Series,
    Limit(_),       \* the largest number of a series
    Openings        \* sets of <<series, number>> that may be in use at first

VARIABLE used       \* the numbers in use

Unused(k) == {n \in 1..Limit(k) : <<k, n>> \notin used}

Init == used \in Openings

Issue(k) ==
    \E n \in Unused(k) :
        /\ \A m \in Unused(k) : n <= m
        /\ used' = used \cup {<<k, n>>}

Next == \E k \in Series : Issue(k)

Spec == Init /\ [][Next]_used

=============================================================================
