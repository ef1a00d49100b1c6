------------------------------ MODULE PaidTime ------------------------------
(***************************************************************************)
(* What billing periods promise a subscriber: the time a service is paid   *)
(* for only grows, one period at a time; a period that is renewed before   *)
(* its grace ends is continued without a gap or an overlap, and a later    *)
(* renewal starts when it is made.                                         *)
(***************************************************************************)
EXTENDS Naturals

CONSTANTS Services, Terms, MaxTime, None

VARIABLES
    paid,       \* per service: None, or its last period
    clock

vars == <<paid, clock>>

Init == paid = [x \in Services |-> None] /\ clock = 0

Period(start, t) ==
    [starts |-> start, expires |-> start + t.duration,
     grace_until |-> start + t.duration + t.grace]

Start(x, now) ==
    IF paid[x] = None THEN now
    ELSE IF now < paid[x].grace_until THEN paid[x].expires ELSE now

(* A period bought at some moment may be entered a little later.           *)
Extend(x, now, t) ==
    /\ now <= clock
    /\ paid' = [paid EXCEPT ![x] = Period(Start(x, now), t)]
    /\ UNCHANGED clock

Tick == clock' > clock /\ UNCHANGED paid

Next ==
    \/ \E x \in Services, now \in 0..MaxTime, t \in Terms : Extend(x, now, t)
    \/ Tick

Spec == Init /\ [][Next]_vars

=============================================================================
