---------------------------- MODULE FrameChannel ----------------------------
(***************************************************************************)
(* What the radio hub promises its listeners, without registers, flags or  *)
(* interrupts: frames that were received wait in a bounded queue, and each *)
(* is handed to the listeners at most once and in the order of arrival.  A *)
(* frame that waits is lost only together with all the frames that wait    *)
(* (the receive FIFO is flushed, never edited).  A frame that finds no     *)
(* room is not received at all.                                            *)
(***************************************************************************)
EXTENDS Naturals, Sequences

CONSTANTS Frames,    \* the frames senders put on the air
          Capacity,  \* how many received frames can wait
          NoFrame    \* value of last before the first hand-over

VARIABLES queue,     \* received frames not yet handed to the listeners
          last       \* the frame handed over most recently

vars == <<queue, last>>

Init == queue = <<>> /\ last = NoFrame

Receive(f) ==
  /\ Len(queue) < Capacity
  /\ queue' = Append(queue, f)
  /\ UNCHANGED last

HandOver ==
  /\ queue # <<>>
  /\ last' = Head(queue)
  /\ queue' = Tail(queue)

Purge ==
  /\ queue' = <<>>
  /\ UNCHANGED last

Next == HandOver \/ Purge \/ \E f \in Frames : Receive(f)

SafeSpec == Init /\ [][Next]_vars

\* Where the frames wait loses its supply, but for one that has been taken out.
Fail ==
  /\ queue # <<>>
  /\ queue' = <<Head(queue)>>
  /\ UNCHANGED last

\* The same channel over a radio that may break down.
FaultySpec == Init /\ [][Next \/ Fail]_vars

\* What waits does not wait for ever.
Spec == SafeSpec /\ WF_vars(HandOver \/ Purge)
=============================================================================
