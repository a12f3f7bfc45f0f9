------------------------------ MODULE BTHomeHub ------------------------------
(***************************************************************************)
(* NRF24BTHomeHub: the frames the radio hands over go to the device their  *)
(* sender id names (on_nrf24_frame), and one sweep of the main loop looks  *)
(* for devices that have gone silent (loop).                               *)
(*                                                                         *)
(* A frame carries, beyond what BTHomeDevice reads,                        *)
(*   f.length  its bytes, sender id included                               *)
(*   f.sender  the bytes of the sender id                                  *)
(***************************************************************************)
EXTENDS BTHomeDevice

CONSTANTS
  Listed,     \* devices_, in the order they were added
  SenderOf,   \* sender_id_ of each device, a sequence of bytes
  MinLength,  \* sender id, uuid and device info (7)
  Frames      \* frames the radio may hand over

\* What the decoder and the cipher make of a frame, whoever sent it.
IsFrame(f) ==
  /\ f.counter \in Nat
  /\ PacketId(f) \in (0..IdMod - 1) \cup {NoId}
  /\ \A k \in DOMAIN f.objs :
       f.objs[k].kind = "reading" => f.objs[k].value \in Values

\* Each device is added once; objects follow each other.
ASSUME HubAssumption ==
  /\ Listed \in Seq(Devices)
  /\ \A i, j \in DOMAIN Listed : Listed[i] = Listed[j] => i = j
  /\ \A f \in Frames :
       IsFrame(f) /\ Len(f.objs) \in Nat /\ DOMAIN f.objs = 1..Len(f.objs)

VARIABLES lastSweep  \* last_timeout_check_ms_

hubVars == <<deviceVars, lastSweep>>

HubInit == DeviceInit /\ lastSweep = 0
-----------------------------------------------------------------------------
\* matches(): the whole sender id.
MatchesSender(d, f) == SenderOf[d] = f.sender

\* The search does not stop at the first match.
Addressee_Last(d, f) ==
  \E i \in DOMAIN Listed :
    /\ Listed[i] = d /\ MatchesSender(d, f)
    /\ \A j \in i + 1..Len(Listed) : ~MatchesSender(Listed[j], f)

\* Is d the first device listed that the frame could be meant for?
Addressee(d, f) ==
  \E i \in DOMAIN Listed :
    /\ Listed[i] = d /\ MatchesSender(d, f)
    /\ \A j \in 1..i - 1 : ~MatchesSender(Listed[j], f)

IsTooShort(f) == f.length < MinLength

\* Too short, or from a sender nobody registered.
Ignore(f) ==
  /\ IsTooShort(f) \/ \A d \in Devices : ~Addressee(d, f)
  /\ fired' = Quiet /\ said' = Nothing
  /\ UNCHANGED <<now, contactVars, content, lastCounter, warned, lastSweep>>

OnFrame(d, f) ==
  /\ ~IsTooShort(f) /\ Addressee(d, f)
  /\ Handle(d, f)
  /\ UNCHANGED lastSweep

SweepDue == Elapsed(lastSweep) > SweepPeriod

\* The packet id outlives the connection.
AgeOut_KeepsId ==
  /\ connected' = [d \in Devices |-> IF TimedOut(d) THEN "off" ELSE connected[d]]
  /\ UNCHANGED lastId

\* check_timeout() of every device: the packet id ages out with the
\* connection, the replay counter never does.
AgeOut ==
  /\ connected' = [d \in Devices |-> IF TimedOut(d) THEN "off" ELSE connected[d]]
  /\ lastId' = [d \in Devices |-> IF TimedOut(d) THEN NoId ELSE lastId[d]]

\* loop(), about once a second.
Sweep ==
  /\ SweepDue
  /\ lastSweep' = now
  /\ AgeOut
  /\ fired' = Quiet /\ said' = Nothing
  /\ UNCHANGED <<now, lastContact, everSeen, age, pending, published,
                 lastCounter, warned>>

\* Time passes, but loop() is called often enough that a sweep is at most
\* LoopLag late.
Tick ==
  /\ Elapsed(lastSweep) <= SweepPeriod + LoopLag
  /\ now' = (now + 1) % ClockMod
  /\ age' = [d \in Devices |-> Older(d)]
  /\ fired' = Quiet /\ said' = Nothing
  /\ UNCHANGED <<lastSweep, lastContact, everSeen, connected, content,
                 lastCounter, warned>>

HubNext ==
  \/ Sweep \/ Tick
  \/ \E f \in Frames : Ignore(f) \/ \E d \in Devices : OnFrame(d, f)

\* The clock runs and ESPHome calls loop(); nobody has to send.
HubSpec == HubInit /\ [][HubNext]_hubVars /\ WF_hubVars(Tick) /\ WF_hubVars(Sweep)
-----------------------------------------------------------------------------
(* Properties *)

(* Every variable has its type: a packet id is a byte or none, an entity
   shows a value it was sent, a counter never goes below the first
   (nrf24_bthome.h:244-302). *)
HubTypeOK == DeviceTypeOK /\ lastSweep \in 0..ClockMod - 1

Presence == INSTANCE BTHomePresence
              WITH Patience <- TimeoutOf, Limit <- [d \in Devices |-> AgeMax(d)]

(* The sensors of all devices behave as BTHomePresence says, wherever in its
   range millis() is: contact shows at once, silence after the timeout and no
   later than a sweep after it (nrf24_bthome.cpp:21-29, 339-347, 723-750). *)
ImplementsPresence == Presence!Spec

(* A packet id is not remembered longer than the silence that ends the
   connection (nrf24_bthome.cpp:737-741): a sender back after that is not
   mistaken for its own repeats. *)
IdAgesOut ==
  \A d \in Devices : TimeoutOf[d] > 0 /\ age[d] = AgeMax(d) => lastId[d] = NoId

Readings(f, t) ==
  InOrder(f.objs, {k \in DOMAIN f.objs : f.objs[k].kind = "reading" /\ f.objs[k].type = t})

(* An entity changes only to the reading of its own type and place in the
   payload being handled, and only if all of that payload is sound
   (nrf24_bthome.cpp:388-405, 534-552, 642-656): what a discarded payload or
   a repeat left in the slots is never published. *)
PublishedIsReceived ==
  [][\A d \in Devices : \A s \in SlotsOf[d] :
       published'[d][s] # published[d][s] =>
         \E f \in Frames :
           /\ OnFrame(d, f) /\ f.intact
           /\ s.index <= Len(Readings(f, s.type))
           /\ published'[d][s] = Readings(f, s.type)[s.index].value]_hubVars

\* What a device remembers of its sender.
memory(d) == <<lastContact[d], everSeen[d], lastCounter[d], warned[d],
               pending[d], published[d]>>

(* Devices keep apart: what one remembers of its sender changes only by a
   frame that carries its whole sender id, and of two devices set up with the
   same id only the first ever hears anything (nrf24_bthome.cpp:62-68). *)
OwnFramesOnly ==
  [][\A d \in Devices : memory(d)' # memory(d) =>
       /\ \E f \in Frames :
            f.sender = SenderOf[d] /\ ~IsTooShort(f) /\ Handle(d, f)
       /\ \A e \in Devices \ {d} : memory(e)' = memory(e)
       /\ \A i, j \in DOMAIN Listed :
            Listed[i] = d /\ j < i => SenderOf[Listed[j]] # SenderOf[d]]_hubVars

(* A device with a key acts only under a counter higher than all it has acted
   under: nothing takes its counter back, neither silence, which takes back the
   packet id, nor a payload refused or discarded (nrf24_bthome.cpp:127-195,
   313-327, 737-741). *)
ReplaysNeverAct ==
  [][\A d \in Devices :
       /\ lastCounter'[d] >= lastCounter[d]
       /\ Encrypted[d] /\ (fired'[d] # <<>> \/ published'[d] # published[d])
            => lastCounter'[d] > lastCounter[d]]_hubVars

(* "Every valid frame counts as contact" (nrf24_bthome.cpp:339), "millis() of
   the last valid frame" (nrf24_bthome.h:254): a device comes back online by a
   payload that is not discarded. *)
ConnectedByValidFrames ==
  [][\A d \in Devices : connected[d] = "off" /\ connected'[d] = "on" =>
       \E f \in Frames : OnFrame(d, f) /\ Readable(f)]_hubVars
=============================================================================
