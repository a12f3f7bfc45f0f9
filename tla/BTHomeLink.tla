------------------------------ MODULE BTHomeLink ------------------------------
(***************************************************************************)
(* A sender and the hub that listens to it, over the air.  The sender      *)
(* (external: known here by what the listener relies on) broadcasts every  *)
(* payload several times; a copy is heard, lost or damaged.  The sender or *)
(* the receiver may restart, and a Si24R1 in place of the nRF24L01+ hands  *)
(* out an earlier payload once more.                                       *)
(***************************************************************************)
EXTENDS BTHomeHub

CONSTANTS
  Copies,       \* how often a sender broadcasts each payload (3)
  Senders       \* the kinds of sender, records of
                \*   to        the device that listens to it
                \*   payloads  object sequences it broadcasts
                \*   padded    is its pipe of fixed size?
                \*   tails     how many 0xFF a MIC ends in
                \*   clone     is the receiving chip a Si24R1?
                \*   quick     may it be back before its packet id has aged out?
                \*   most      bound: payloads broadcast
                \*   restarts  bound: restarts of sender and receiver

\* A payload keeps to the number of events a device has room for, and the device
\* a sender is meant for is the first one listed under its id.
ASSUME LinkAssumption ==
  /\ Copies \in Nat /\ MinLength \in Nat
  /\ \A s \in Senders :
       /\ s.to \in Devices
       /\ \E i \in DOMAIN Listed :
            /\ Listed[i] = s.to
            /\ \A j \in 1..i - 1 : SenderOf[Listed[j]] # SenderOf[s.to]
       /\ s.tails \subseteq 0..MicBytes
       /\ \A objs \in s.payloads :
            /\ objs \in Seq({objs[k] : k \in DOMAIN objs})
            /\ Readable([objs |-> objs, intact |-> TRUE])
            /\ \A k \in DOMAIN objs :
                 objs[k].kind = "reading" => objs[k].value \in Values

VARIABLES
  sender,    \* the one that is on the air
  sent,      \* the frames broadcast so far, one for each payload
  copies,    \* copies of the last one still to come
  nextId,    \* the sender's packet id counter
  txCounter, \* its encryption counter
  missedRow, \* packet ids in a row of which no copy was heard, before the last
  restarts,
  heard,     \* history: the payloads of which a copy was heard whole
  due,       \* history: the events of the payloads to be acted on, in order
  log        \* history: the events fired

linkVars == <<hubVars, sender, sent, copies, nextId, txCounter, missedRow,
              restarts, heard, due, log>>

me      == sender.to
current == Len(sent)
IsHeard == current \in heard

LinkInit ==
  /\ HubInit
  /\ sender \in Senders
  /\ sent = <<>> /\ copies = 0 /\ nextId = 0 /\ txCounter = 1
  /\ missedRow = 0 /\ restarts = 0
  /\ heard = {} /\ due = <<>> /\ log = <<>>
-----------------------------------------------------------------------------
(* The sender *)

Sealed(objs, tail, id, counter) ==
  [sender |-> SenderOf[me], length |-> MinLength + 2 * Len(objs),
   objs |-> objs, id |-> id, intact |-> TRUE, header |-> TRUE,
   sealed |-> Encrypted[me], complete |-> TRUE, authentic |-> TRUE,
   counter |-> counter, padded |-> sender.padded, size |-> 2 * Len(objs),
   tail |-> tail]

HasId(f) == PacketId(f) # NoId

\* How many packet ids in a row nobody has heard, up to the last one.
Missed ==
  IF sent = <<>> \/ ~HasId(sent[current]) THEN missedRow
  ELSE IF IsHeard THEN 0 ELSE missedRow + 1

\* A new payload, under the next counter and, if it has one, the next packet
\* id.  A packet id returns after IdMod: fewer than that are lost in a row.
Broadcast ==
  /\ copies = 0 /\ current < sender.most
  /\ missedRow' = Missed
  /\ missedRow' < IdMod - 1
  /\ \E objs \in sender.payloads, tail \in sender.tails :
       LET f == Sealed(objs, tail, nextId, txCounter)
       IN  /\ sent' = Append(sent, f)
           /\ nextId' = IF HasId(f) THEN (nextId + 1) % IdMod ELSE nextId
  /\ copies' = Copies
  /\ txCounter' = txCounter + 1
  /\ UNCHANGED <<hubVars, sender, restarts, heard, due, log>>

\* The sender restarts: its packet ids start over, its counter does not.
SenderRestart ==
  /\ copies = 0 /\ restarts < sender.restarts
  /\ sender.quick \/ (TimeoutOf[me] > 0 /\ age[me] = AgeMax(me))
  /\ nextId' = 0
  /\ restarts' = restarts + 1
  /\ UNCHANGED <<hubVars, sender, sent, copies, txCounter, missedRow, heard, due, log>>
-----------------------------------------------------------------------------
(* The air, and the receiver *)

EventsOf(n, es) == [k \in DOMAIN es |-> [of |-> n, event |-> es[k]]]

\* The receiver is handed a frame of the n-th payload, to be acted on if isNew.
Deliver(f, n, isNew) ==
  /\ \E d \in Devices : OnFrame(d, f)
  /\ log' = log \o EventsOf(n, fired'[me])
  /\ due' = due \o EventsOf(n, IF isNew THEN Firing(f) ELSE <<>>)
  /\ heard' = IF isNew THEN heard \cup {n} ELSE heard
  /\ UNCHANGED <<sender, sent, nextId, txCounter, missedRow, restarts>>

\* A repeat is known by the packet id, or by the counter of a sealed payload;
\* without either every copy is a payload of its own.
IsNew == ~IsHeard \/ (~Encrypted[me] /\ ~HasId(sent[current]))

Hear ==
  /\ copies > 0 /\ copies' = copies - 1
  /\ Deliver(sent[current], current, IsNew)

Damaged(f, n) ==
  [f EXCEPT !.objs = SubSeq(@, 1, n), !.intact = FALSE, !.authentic = FALSE]

\* The decoder stops within a damaged copy; a sealed one does not authenticate.
HearDamaged ==
  /\ copies > 0 /\ copies' = copies - 1
  /\ \E n \in 0..Len(sent[current].objs) - 1 :
       Deliver(Damaged(sent[current], n), current, FALSE)

Lose ==
  /\ copies > 0 /\ copies' = copies - 1
  /\ UNCHANGED <<hubVars, sender, sent, nextId, txCounter, missedRow, restarts,
                 heard, due, log>>

\* A clone hands out a payload heard before once more.
Echo ==
  /\ sender.clone
  /\ \E n \in heard \ {current} : Deliver(sent[n], n, FALSE)
  /\ UNCHANGED copies

\* The receiver restarts and remembers nothing; it takes longer than the
\* copies of one payload, and flushes the FIFO: with a clone, no echo would
\* have crossed the restart.
ReceiverRestart ==
  /\ copies = 0 /\ restarts < sender.restarts /\ ~sender.clone
  /\ restarts' = restarts + 1
  /\ now' = 0 /\ lastSweep' = 0
  /\ lastContact' = [d \in Devices |-> 0] /\ everSeen' = [d \in Devices |-> FALSE]
  /\ connected' = [d \in Devices |-> "unknown"]
  /\ lastId' = [d \in Devices |-> NoId]
  /\ pending' = Blank /\ published' = Blank /\ fired' = Quiet
  /\ age' = [d \in Devices |-> 0]
  /\ lastCounter' = [d \in Devices |-> NoCounter]
  /\ warned' = [d \in Devices |-> Nothing] /\ said' = Nothing
  /\ UNCHANGED <<sender, sent, copies, nextId, txCounter, missedRow, heard, due, log>>

\* The copies of a payload follow each other within milliseconds.
Wait ==
  /\ copies = 0
  /\ Sweep \/ Tick
  /\ UNCHANGED <<sender, sent, copies, nextId, txCounter, missedRow, restarts,
                 heard, due, log>>

LinkNext ==
  \/ Broadcast \/ SenderRestart
  \/ Hear \/ HearDamaged \/ Lose \/ Echo
  \/ ReceiverRestart \/ Wait

LinkSpec == LinkInit /\ [][LinkNext]_linkVars
-----------------------------------------------------------------------------
(* Properties *)

\* What the receiver relies on: a sender is not back before its packet ids have
\* aged out, and what a clone repeats is told by its counter.
Dependable == ~sender.quick /\ (sender.clone => Encrypted[me])

(* The events of a payload fire exactly once if one of its copies is heard
   whole, whichever copies are lost or damaged and in whatever order, across
   restarts of either side and the return of packet ids, and in the order the
   payloads were sent (nrf24_bthome.cpp:537-578): a damaged copy does not use
   up the packet id, a repeat does not fire again. *)
ExactlyOnce == Dependable => log = due

(* "Replay protection replaces the packet-id dedup. Every accepted payload's
   counter is remembered, and one that does not exceed it is rejected"
   (README.md:381): for a device with a key, a payload that authenticates
   under a fresh counter is not a repeat, and its events fire. *)
FreshCounterFires ==
  [][Hear /\ Encrypted[me] /\ Accepted(me, sent[current])
       => fired'[me] = Firing(sent[current])]_linkVars

(* A repeat of an accepted payload is dropped without a warning, where the
   padding shows how long the payload is (nrf24_bthome.cpp:197-208). *)
RepeatsAreSilent ==
  [][Hear /\ IsHeard /\ Shortfall(sent[current]) = 0
       => said' = Nothing]_linkVars

(* "the sender's repeats are replays, and are dropped without a word"
   (tests/test_device_logic.py:319). *)
RepeatsWithoutAWord == [][Hear /\ IsHeard => said' = Nothing]_linkVars
=============================================================================
