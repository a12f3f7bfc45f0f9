---------------------------- MODULE BTHomeDevice ----------------------------
(***************************************************************************)
(* The devices of a BTHome listener (NRF24BTHomeDevice), each on its own:  *)
(* what becomes of a frame the hub hands to device d                       *)
(* (handle_service_data, commit_) and of silence (check_timeout).          *)
(*                                                                         *)
(* A frame carries, beyond what BTHomeCrypt reads,                         *)
(*   f.header  the BTHome header is valid                                  *)
(*   f.objs    its objects, or those the decoder reads before the fault    *)
(*   f.intact  the decoder reaches the end without a fault                 *)
(*   f.id      the value of its packet id object, if it has one            *)
(***************************************************************************)
EXTENDS BTHomeCrypt, BTHomePayload

CONSTANTS
  Encrypted,    \* for each device: does it have an encryption_key?
  SlotsOf,      \* its configured entities, records [type, index]
  TimeoutOf,    \* its timeout_ms_ in ticks, 0 never ages
  Values,       \* values of readings
  IdMod,        \* packet ids are 0 .. IdMod-1 (256)
  ClockMod,     \* millis() wraps here (2^32)
  SweepPeriod,  \* the hub sweeps when more ticks than this have passed (1000 ms)
  LoopLag       \* ticks the hub's loop() may be late

\* After this many ticks of silence the hub must have noticed.
AgeMax(d) ==
  IF TimeoutOf[d] = 0 THEN 0 ELSE TimeoutOf[d] + SweepPeriod + LoopLag + 2

ASSUME DeviceAssumption ==
  /\ Encrypted \in [Devices -> BOOLEAN]
  /\ TimeoutOf \in [Devices -> Nat]
  /\ NoValue \notin Values
  /\ IdMod \in Nat \ {0}
  /\ SweepPeriod \in Nat /\ LoopLag \in Nat
  /\ ClockMod \in Nat /\ ClockMod > SweepPeriod + LoopLag + 1
  /\ \A d \in Devices : ClockMod > AgeMax(d)

VARIABLES
  now,          \* millis()
  lastContact,  \* last_contact_ms_
  everSeen,     \* ever_seen_
  connected,    \* the connected sensor: "unknown" until published
  lastId,       \* last_packet_id_
  pending,      \* has_pending and pending of the slots
  published,    \* what each slot's entity shows
  fired,        \* history: events the last step triggered, by device
  age           \* history: ticks since the last contact or boot, up to AgeMax

contactVars == <<lastContact, everSeen, connected, age>>
content     == <<lastId, pending, published>>
deviceVars  == <<now, contactVars, content, fired, cryptVars>>

\* Unsigned 32-bit subtraction.
Elapsed(t) == (now - t) % ClockMod

Quiet == [d \in Devices |-> <<>>]
Blank == [d \in Devices |-> [s \in SlotsOf[d] |-> NoValue]]

DeviceInit ==
  /\ now = 0
  /\ lastContact = [d \in Devices |-> 0] /\ everSeen = [d \in Devices |-> FALSE]
  /\ connected = [d \in Devices |-> "unknown"]
  /\ lastId = [d \in Devices |-> NoId]
  /\ pending = Blank /\ published = Blank
  /\ fired = Quiet
  /\ age = [d \in Devices |-> 0]
  /\ CryptInit
-----------------------------------------------------------------------------
(* handle_service_data(): the ways a frame can go *)

\* Refused by the decryptor, or unreadable before any object: what was decrypted
\* may have an invalid header, and has moved the counter then.
Reject(d, f) ==
  /\ IF Encrypted[d]
     THEN Refuse(d, f) \/ (~f.header /\ Accept(d, f))
     ELSE ~(f.header /\ ~f.sealed) /\ UNCHANGED cryptVars
  /\ fired' = Quiet
  /\ UNCHANGED <<now, contactVars, content>>

\* The counter of a sealed payload recorded, not compared.
Open_ReplayAccepted(d, f) ==
  /\ f.header
  /\ IF Encrypted[d]
     THEN /\ f.sealed /\ f.complete /\ f.authentic /\ Reached(f)
          /\ lastCounter' = [lastCounter EXCEPT ![d] = f.counter]
          /\ warned' = [warned EXCEPT ![d] = Nothing] /\ said' = Nothing
     ELSE ~f.sealed /\ UNCHANGED cryptVars

\* The payload is in the clear, or decrypts, and its header is valid.
Open(d, f) ==
  /\ f.header
  /\ IF Encrypted[d] THEN Accept(d, f) ELSE ~f.sealed /\ UNCHANGED cryptVars

\* Contact that does not take back an offline state once published.
Contact_StaysOffline(d) ==
  /\ lastContact' = [lastContact EXCEPT ![d] = now]
  /\ everSeen' = [everSeen EXCEPT ![d] = TRUE]
  /\ connected' = [connected EXCEPT ![d] = IF @ = "unknown" THEN "on" ELSE @]
  /\ age' = [age EXCEPT ![d] = 0]

\* Whatever could be opened is contact, before its objects are read.
Contact(d) ==
  /\ lastContact' = [lastContact EXCEPT ![d] = now]
  /\ everSeen' = [everSeen EXCEPT ![d] = TRUE]
  /\ connected' = [connected EXCEPT ![d] = "on"]
  /\ age' = [age EXCEPT ![d] = 0]

\* Slots of an earlier payload are not reset first.
Park_NoReset(d, f) ==
  pending' = [pending EXCEPT ![d] =
                [s \in SlotsOf[d] |->
                   IF Parsed(SlotsOf[d], f.objs)[s] = NoValue THEN @[s]
                   ELSE Parsed(SlotsOf[d], f.objs)[s]]]

\* The slots are reset, then the readings parked in them.
Park(d, f) == pending' = [pending EXCEPT ![d] = Parsed(SlotsOf[d], f.objs)]

\* A discarded copy remembered: the id is recorded before the fault shows.
Discard_BurnsId(d, f) ==
  /\ ~Readable(f)
  /\ lastId' = [lastId EXCEPT ![d] = IF PacketId(f) # NoId THEN PacketId(f) ELSE @]
  /\ fired' = Quiet
  /\ UNCHANGED published

\* Malformed: nothing is published, and the packet id is not recorded.
Discard(d, f) ==
  /\ ~Readable(f)
  /\ fired' = Quiet
  /\ UNCHANGED <<lastId, published>>

IsKnown(d, f) == PacketId(f) # NoId /\ PacketId(f) = lastId[d]

\* The packet id says this is a copy of the payload before.
Suppress(d, f) ==
  /\ Readable(f) /\ IsKnown(d, f)
  /\ fired' = Quiet
  /\ UNCHANGED <<lastId, published>>

\* The id expected next is remembered, without the wrap of a byte.
Remember_Next(d, f) ==
  lastId' = [lastId EXCEPT ![d] = IF PacketId(f) # NoId THEN PacketId(f) + 1 ELSE @]

Remember(d, f) ==
  lastId' = [lastId EXCEPT ![d] = IF PacketId(f) # NoId THEN PacketId(f) ELSE @]

\* What is parked is shown, the rest keeps its value.
Publish(d) ==
  published' = [published EXCEPT ![d] =
                  [s \in SlotsOf[d] |->
                     IF pending'[d][s] # NoValue THEN pending'[d][s] ELSE @[s]]]

\* commit_(): triggers fire and values are published.
Commit(d, f) ==
  /\ Readable(f) /\ ~IsKnown(d, f)
  /\ Remember(d, f)
  /\ fired' = [Quiet EXCEPT ![d] = Firing(f)]
  /\ Publish(d)

Take(d, f) ==
  /\ Open(d, f)
  /\ Contact(d)
  /\ Park(d, f)
  /\ Discard(d, f) \/ Suppress(d, f) \/ Commit(d, f)
  /\ UNCHANGED now

Handle(d, f) == Reject(d, f) \/ Take(d, f)
-----------------------------------------------------------------------------
(* Silence *)

Reference(d) == IF everSeen[d] THEN lastContact[d] ELSE 0

\* A deadline computed ahead, as if millis() did not wrap.
TimedOut_Wrapping(d) == TimeoutOf[d] # 0 /\ now > Reference(d) + TimeoutOf[d]

\* check_timeout(): boot counts as contact until the first frame.
TimedOut(d) == TimeoutOf[d] # 0 /\ Elapsed(Reference(d)) > TimeoutOf[d]

Older(d) == IF age[d] < AgeMax(d) THEN age[d] + 1 ELSE age[d]

DeviceTypeOK ==
  /\ now \in 0..ClockMod - 1
  /\ lastContact \in [Devices -> 0..ClockMod - 1]
  /\ everSeen \in [Devices -> BOOLEAN]
  /\ connected \in [Devices -> {"unknown", "on", "off"}]
  /\ lastId \in [Devices -> (0..IdMod - 1) \cup {NoId}]
  /\ \A d \in Devices : /\ pending[d] \in [SlotsOf[d] -> Values \cup {NoValue}]
                        /\ published[d] \in [SlotsOf[d] -> Values \cup {NoValue}]
                        /\ age[d] \in 0..AgeMax(d)
  /\ CryptTypeOK
=============================================================================
