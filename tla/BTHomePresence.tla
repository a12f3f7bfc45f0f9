---------------------------- MODULE BTHomePresence ----------------------------
(***************************************************************************)
(* What the connected sensors promise, without clocks, sweeps or frames: a *)
(* device heard is shown as connected at once; one that has been silent is *)
(* shown as disconnected, no sooner than its patience allows and before    *)
(* its limit has passed, and stays so until it is heard again.             *)
(***************************************************************************)
EXTENDS Naturals

CONSTANTS
  Devices,
  Patience,  \* for each device: silence it may keep, 0 for any
  Limit      \* the silence by which it has been noticed

VARIABLES
  age,       \* how long each device has been silent, up to its limit
  connected  \* what its connected sensor shows

vars == <<age, connected>>

Overdue(d) == Patience[d] > 0 /\ age[d] > Patience[d]

Init ==
  /\ age = [d \in Devices |-> 0]
  /\ connected = [d \in Devices |-> "unknown"]

Heard(d) ==
  /\ age' = [age EXCEPT ![d] = 0]
  /\ connected' = [connected EXCEPT ![d] = "on"]

\* The limit is not reached unnoticed.
Pass ==
  /\ \A d \in Devices :
       Patience[d] > 0 /\ age[d] + 1 >= Limit[d] => connected[d] = "off"
  /\ age' = [d \in Devices |-> IF age[d] < Limit[d] THEN age[d] + 1 ELSE age[d]]
  /\ UNCHANGED connected

\* Those noticed together: all that are overdue.
Notice ==
  /\ connected' = [d \in Devices |-> IF Overdue(d) THEN "off" ELSE connected[d]]
  /\ UNCHANGED age

Next == Pass \/ Notice \/ \E d \in Devices : Heard(d)

SafeSpec == Init /\ [][Next]_vars

\* Time passes, and silence is noticed.
Spec == SafeSpec /\ WF_vars(Pass) /\ WF_vars(Notice)
=============================================================================
