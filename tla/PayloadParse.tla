----------------------------- MODULE PayloadParse -----------------------------
(***************************************************************************)
(* Reading one payload after the other in handle_service_data(), object by *)
(* object, in the memory the code sets aside for it: the table that counts *)
(* the objects of each type, the arrays of events and of objects nobody    *)
(* asked for, the slots of the entities.  BTHomeDevice takes a payload in  *)
(* one step; here is why it may.                                           *)
(*                                                                         *)
(* The decoder (external) returns objects as in BTHomePayload, each with   *)
(* its size on the wire.  Two kinds more do not reach an entity by type    *)
(* and place: "firmware", and "other" which the code only logs.            *)
(***************************************************************************)
EXTENDS BTHomePayload

CONSTANTS
  Known,      \* objects the decoder can return
  Slots,      \* configured entities, records [type, index]
  Types,      \* types of readings
  Values,     \* values of readings
  EventCodes, \* codes of events
  NameType,   \* the type of a text object (0x53)
  Room,       \* bytes a frame has for objects (25)
  MaxKinds,   \* length of seen_ids and seen_instances (12)
  IdMod       \* packet ids are 0 .. IdMod-1 (256)

\* The smallest object has an id and one byte.
MinObject == 2

ObjectKinds == EventKinds \cup {"id", "reading", "firmware", "other"}

ASSUME ParseAssumption ==
  /\ Room \in Nat /\ MaxKinds \in Nat /\ IdMod \in Nat
  /\ \A o \in Known : /\ o.kind \in ObjectKinds
                      /\ o.size \in Nat /\ o.size >= MinObject
                      /\ o.kind \in {"reading", "firmware"} => o.value \in Values
                      /\ o.kind = "reading" => o.type \in Types
                      /\ o.kind \in EventKinds => o.what \in EventCodes
                      /\ o.kind = "id" => o.id \in 0..IdMod - 1
  /\ NoValue \notin Values
  /\ \A s \in Slots : s.index \in Nat

\* The arrays are as long as the most objects a frame can hold: one more would
\* not fit.
ASSUME RoomAssumption ==
  /\ Room < MinObject * (MaxKinds + 1)
  /\ Room < MinObject * (MaxEvents + 1)

VARIABLES
  pc,          \* "idle", "reading" objects, "ended"
  left,        \* bytes the decoder has not read
  intact,      \* decode_status: the end, or the padding, was reached
  seen,        \* seen_ids and seen_instances: how often each type so far
  \* the struct Pending
  events,      \* buttons, dimmer_events, command_opcodes
  overflow,
  packetId,
  name,        \* the first text
  firmware,
  unclaimed,   \* object id and instance of those nobody asked for
  \* the device
  slots,       \* has_pending and pending of each slot
  lastId,      \* last_packet_id_
  reported,    \* reported_unclaimed_
  warnedNoId,  \* warned_no_packet_id_
  \* history
  objs,        \* the objects read so far
  named,       \* the objects the last commit_() has reported
  shown,       \* the objects reported by any
  soundId      \* the packet id of the last payload without a fault that had one

reading    == <<left, intact, seen, events, overflow, packetId, name, firmware,
                unclaimed, slots, objs>>
persistent == <<lastId, reported, warnedNoId>>
notices    == <<named, shown, soundId>>
parseVars  == <<pc, reading, persistent, notices>>

NoEvents == [kind \in EventKinds |-> <<>>]

ParseInit ==
  /\ pc = "idle" /\ left = 0 /\ intact = TRUE
  /\ seen = [t \in {} |-> 0]
  /\ events = NoEvents /\ overflow = FALSE
  /\ packetId = NoId /\ name = NoValue /\ firmware = NoValue
  /\ unclaimed = <<>>
  /\ slots = [s \in Slots |-> NoValue]
  /\ lastId = NoId /\ reported = {} /\ warnedNoId = FALSE
  /\ objs = <<>> /\ named = {} /\ shown = {} /\ soundId = NoId
-----------------------------------------------------------------------------
(* A payload begins: fresh counters, a fresh Pending, no slot filled.  It has
   no more than Room bytes; where its data ends is left to End. *)

\* Definitions named <definition>_<defect> are what a plausible mistake would
\* make of the definition that follows them; no specification uses them.
\* The Pending of the payload before, used again.
Begin_KeepsEvents ==
  /\ pc = "idle" /\ pc' = "reading"
  /\ left' = Room /\ intact' = TRUE
  /\ seen' = [t \in {} |-> 0]
  /\ overflow' = FALSE
  /\ packetId' = NoId /\ name' = NoValue /\ firmware' = NoValue
  /\ unclaimed' = <<>>
  /\ slots' = [s \in Slots |-> NoValue]
  /\ objs' = <<>> /\ named' = {}
  /\ UNCHANGED <<events, persistent, shown, soundId>>

Begin ==
  /\ pc = "idle" /\ pc' = "reading"
  /\ left' = Room /\ intact' = TRUE
  /\ seen' = [t \in {} |-> 0]
  /\ events' = NoEvents /\ overflow' = FALSE
  /\ packetId' = NoId /\ name' = NoValue /\ firmware' = NoValue
  /\ unclaimed' = <<>>
  /\ slots' = [s \in Slots |-> NoValue]
  /\ objs' = <<>> /\ named' = {}
  /\ UNCHANGED <<persistent, shown, soundId>>
-----------------------------------------------------------------------------
(* decoder.next(): one more object *)

ReadId(o) ==
  /\ o.kind = "id"
  /\ packetId' = o.id
  /\ UNCHANGED <<seen, events, overflow, name, firmware, unclaimed, slots>>

ReadEvent(o) ==
  /\ o.kind \in EventKinds
  /\ IF Len(events[o.kind]) < MaxEvents
     THEN /\ events' = [events EXCEPT ![o.kind] = Append(@, o.what)]
          /\ UNCHANGED overflow
     ELSE overflow' = TRUE /\ UNCHANGED events
  /\ UNCHANGED <<seen, packetId, name, firmware, unclaimed, slots>>

\* As it used to be, eight entries for twelve objects.
HasEntry_Eight == Cardinality(DOMAIN seen) < (2 * MaxKinds) \div 3

HasEntry == Cardinality(DOMAIN seen) < MaxKinds

\* instance_of(): the table holds a type from its first object on.
InstanceOf(t) == IF t \in DOMAIN seen THEN seen[t] + 1 ELSE 1

CountType(t) ==
  seen' = IF t \in DOMAIN seen \/ HasEntry
          THEN [u \in DOMAIN seen \cup {t} |-> IF u = t THEN InstanceOf(t) ELSE seen[u]]
          ELSE seen

TakesName(o) == o.type = NameType /\ InstanceOf(o.type) = 1

SlotsFor(o) == {s \in Slots : s.type = o.type /\ s.index = InstanceOf(o.type)}

\* A text that became the name counts as taken.
NoteUnclaimed_NameToo(o) ==
  unclaimed' = IF SlotsFor(o) # {} \/ Len(unclaimed) >= MaxEvents
               THEN unclaimed
               ELSE Append(unclaimed, <<o.type, InstanceOf(o.type)>>)

NoteUnclaimed(o) ==
  unclaimed' = IF TakesName(o) \/ SlotsFor(o) # {} \/ Len(unclaimed) >= MaxEvents
               THEN unclaimed
               ELSE Append(unclaimed, <<o.type, InstanceOf(o.type)>>)

\* A measurement, a binary state or a text.
ReadReading(o) ==
  /\ o.kind = "reading"
  /\ CountType(o.type)
  /\ name' = IF TakesName(o) THEN o.value ELSE name
  /\ slots' = [s \in Slots |-> IF s \in SlotsFor(o) THEN o.value ELSE slots[s]]
  /\ NoteUnclaimed(o)
  /\ UNCHANGED <<events, overflow, packetId, firmware>>

ReadFirmware(o) ==
  /\ o.kind = "firmware"
  /\ firmware' = o.value
  /\ UNCHANGED <<seen, events, overflow, packetId, name, unclaimed, slots>>

ReadOther(o) ==
  /\ o.kind = "other"
  /\ UNCHANGED <<seen, events, overflow, packetId, name, firmware, unclaimed, slots>>

Read(o) ==
  /\ pc = "reading" /\ o.size <= left
  /\ left' = left - o.size
  /\ objs' = Append(objs, o)
  /\ \/ ReadId(o) \/ ReadEvent(o) \/ ReadReading(o)
     \/ ReadFirmware(o) \/ ReadOther(o)
  /\ UNCHANGED <<pc, intact, persistent, notices>>

\* The data ends, its padding begins, or what follows is no object.
End ==
  /\ pc = "reading" /\ pc' = "ended"
  /\ intact' \in BOOLEAN
  /\ UNCHANGED <<left, seen, events, overflow, packetId, name, firmware,
                 unclaimed, slots, objs, persistent, notices>>
-----------------------------------------------------------------------------
(* What becomes of it *)

\* A payload may name its packet id more than once: the last one counts.
LastId ==
  LET ids == {k \in DOMAIN objs : objs[k].kind = "id"}
  IN  IF ids = {} THEN NoId
      ELSE objs[CHOOSE k \in ids : \A j \in ids : j <= k].id

\* The payload that has come in, as BTHomePayload takes it.
Payload == [objs |-> objs, intact |-> intact, id |-> LastId]

\* History: what has been reported, and which payload was last to be acted on.
Note ==
  /\ shown' = shown \cup named'
  /\ soundId' = IF Readable(Payload) /\ PacketId(Payload) # NoId
                THEN PacketId(Payload) ELSE soundId

Sound == intact /\ ~overflow

HasEvents == \E kind \in EventKinds : events[kind] # <<>>
IsRepeat  == packetId # NoId /\ packetId = lastId

\* The id expected next, without the wrap of a byte.
Remembered_Next == IF packetId # NoId THEN packetId + 1 ELSE lastId

Remembered == IF packetId # NoId THEN packetId ELSE lastId

Entries(s) == {s[k] : k \in DOMAIN s}

\* commit_(), the part about objects nobody asked for: each is named once.
ReportUnclaimed ==
  /\ named' = Entries(unclaimed) \ reported
  /\ reported' = reported \cup Entries(unclaimed)

\* Named while the payload is read, so with every repeat of it.
Finish_ReportsRepeats ==
  /\ pc = "ended" /\ pc' = "idle"
  /\ named' = Entries(unclaimed)
  /\ reported' = reported \cup Entries(unclaimed)
  /\ IF Sound
     THEN /\ warnedNoId' = (warnedNoId \/ (packetId = NoId /\ HasEvents))
          /\ lastId' = Remembered
     ELSE UNCHANGED <<lastId, warnedNoId>>
  /\ Note /\ UNCHANGED reading

\* Discarded; or, after the warning that repeats cannot be told, dropped as a
\* repeat; or committed.
Finish ==
  /\ pc = "ended" /\ pc' = "idle"
  /\ IF Sound
     THEN /\ warnedNoId' = (warnedNoId \/ (packetId = NoId /\ HasEvents))
          /\ lastId' = Remembered
          /\ IF IsRepeat THEN named' = {} /\ UNCHANGED reported
             ELSE ReportUnclaimed
     ELSE named' = {} /\ UNCHANGED persistent
  /\ Note /\ UNCHANGED reading

ParseNext == Begin \/ End \/ Finish \/ \E o \in Known : Read(o)

ParseSpec == ParseInit /\ [][ParseNext]_parseVars
-----------------------------------------------------------------------------
(* Properties *)

PendingTypeOK ==
  /\ intact \in BOOLEAN /\ overflow \in BOOLEAN
  /\ slots \in [Slots -> Values \cup {NoValue}]
  /\ {name, firmware} \subseteq Values \cup {NoValue}
  /\ {packetId, lastId} \subseteq (0..IdMod - 1) \cup {NoId}
  /\ warnedNoId \in BOOLEAN

TablesTypeOK ==
  /\ seen \in [DOMAIN seen -> Nat] /\ DOMAIN seen \subseteq Types
  /\ Cardinality(DOMAIN seen) <= MaxKinds
  /\ events \in [EventKinds -> Seq(EventCodes)]
  /\ \A kind \in EventKinds : Len(events[kind]) <= MaxEvents
  /\ unclaimed \in Seq(Types \X Nat) /\ Len(unclaimed) <= MaxEvents

(* The memory set aside is never exceeded, and every variable has its type
   (nrf24_bthome.h:179-210, nrf24_bthome.cpp:349-390). *)
ParseTypeOK ==
  /\ pc \in {"idle", "reading", "ended"}
  /\ left \in 0..Room /\ objs \in Seq(Known)
  /\ PendingTypeOK /\ TablesTypeOK

(* Each slot holds the reading of its type and place among the objects, as
   instances are defined and not as the table counted them
   (nrf24_bthome.cpp:349-378): no type is counted as new twice. *)
ReadingsAsMeant == slots = Parsed(Slots, objs)

Whats(os) == [k \in DOMAIN os |-> os[k].what]

(* All events of a payload are kept, in their order, the last packet id is the
   one that counts, and a payload is discarded for no other reason than a
   fault in it (nrf24_bthome.cpp:407-440, 534-552): what BTHomeDevice takes it
   to be. *)
EventsAsMeant ==
  /\ \A kind \in EventKinds : events[kind] = Whats(Objects(Payload, kind))
  /\ packetId = PacketId(Payload)
  /\ Sound <=> Readable(Payload)

\* The objects no entity is set up for, and which are not the device's name.
Unwanted ==
  {<<objs[k].type, Instance(objs, k)>> :
     k \in {j \in DOMAIN objs :
              /\ objs[j].kind = "reading"
              /\ ~\E s \in Slots : Matches(objs, j, s)
              /\ ~(objs[j].type = NameType /\ Instance(objs, j) = 1)}}

(* A frame cannot hold more than the code has room for, so that nothing is
   left out: no event overflows, and every object nobody asked for is noted
   (nrf24_bthome.h:173-177, nrf24_bthome.cpp:349-354, 384-390). *)
NothingLeftOut == ~overflow /\ Entries(unclaimed) = Unwanted

\* A payload that is neither at fault nor the one before once more.
IsNews ==
  Readable(Payload) /\ (PacketId(Payload) = NoId \/ PacketId(Payload) # soundId)

(* An object nobody asked for is reported with the first payload that has it
   and is acted on, once and for all: a discarded payload and a repeat report
   nothing, nor do they keep an object from being reported later, and one that
   is acted on reports all that is new in it (nrf24_bthome.cpp:534-578,
   608-629). *)
NamedOnce ==
  [][pc = "ended" /\ pc' = "idle"
       => named' = IF IsNews THEN Unwanted \ shown ELSE {}]_parseVars
=============================================================================
