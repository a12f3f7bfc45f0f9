-------------------------- MODULE PayloadParseProofs --------------------------
(***************************************************************************)
(* Proofs about PayloadParse, for every table length, frame size and set   *)
(* of slots: the tables suffice, and what they yield is what the payload   *)
(* means.                                                                  *)
(***************************************************************************)
EXTENDS PayloadParse, BTHomePayloadProofs, FiniteSetTheorems, SequenceTheorems, TLAPS

-----------------------------------------------------------------------------
(* Sequences of objects *)

\* The readings of one type, by their place among the objects.
OfType(os, t) == {j \in DOMAIN os : os[j].kind = "reading" /\ os[j].type = t}

(* What Append does to a sequence of objects. *)
LEMMA Appended ==
  ASSUME NEW os \in Seq(Known), NEW o \in Known
  PROVE  /\ Append(os, o) \in Seq(Known)
         /\ Len(Append(os, o)) = Len(os) + 1
         /\ DOMAIN os = 1..Len(os) /\ Len(os) \in Nat
         /\ DOMAIN Append(os, o) = 1..Len(os) + 1
         /\ \A k \in 1..Len(os) : Append(os, o)[k] = os[k]
         /\ Append(os, o)[Len(os) + 1] = o
  BY AppendProperties

(* A payload holds finitely many readings of a type. *)
LEMMA OfTypeFinite ==
  ASSUME NEW os \in Seq(Known), NEW t
  PROVE  IsFiniteSet(OfType(os, t)) /\ Cardinality(OfType(os, t)) \in Nat
<1>1. IsFiniteSet(1..Len(os))
  BY FS_Interval
<1>2. OfType(os, t) \in SUBSET (1..Len(os))
  BY DEF OfType
<1> QED
  BY <1>1, <1>2, FS_Subset, FS_CardinalityType

(* One more object changes the readings of its own type only. *)
LEMMA OfTypeAppended ==
  ASSUME NEW os \in Seq(Known), NEW o \in Known, NEW t
  PROVE  Cardinality(OfType(Append(os, o), t)) =
           IF o.kind = "reading" /\ o.type = t
           THEN Cardinality(OfType(os, t)) + 1 ELSE Cardinality(OfType(os, t))
<1> DEFINE n == Len(os)
           new == OfType(Append(os, o), t)
           old == OfType(os, t)
<1>1. CASE o.kind = "reading" /\ o.type = t
  <2>1. new = old \cup {n + 1}
    BY <1>1, Appended DEF OfType
  <2>2. n + 1 \notin old
    BY Appended DEF OfType
  <2>3. IsFiniteSet(old) /\ Cardinality(old) \in Nat
    BY OfTypeFinite
  <2>4. Cardinality(old \cup {n + 1}) = Cardinality(old) + 1
    BY <2>2, <2>3, FS_AddElement
  <2> QED
    BY <1>1, <2>1, <2>4
<1>2. CASE ~(o.kind = "reading" /\ o.type = t)
  <2>1. new = old
    BY <1>2, Appended DEF OfType
  <2> QED
    BY <1>2, <2>1
<1> QED
  BY <1>1, <1>2

(* One more object leaves the instances of the others alone. *)
LEMMA InstanceKept ==
  ASSUME NEW os \in Seq(Known), NEW o \in Known, NEW k \in 1..Len(os)
  PROVE  Instance(Append(os, o), k) = Instance(os, k)
<1>1. k \in Nat /\ \A j \in 1..k : j \in 1..Len(os)
  BY Appended
<1>2. {j \in 1..k : Append(os, o)[j].kind = "reading"
                      /\ Append(os, o)[j].type = Append(os, o)[k].type}
        = {j \in 1..k : os[j].kind = "reading" /\ os[j].type = os[k].type}
  BY <1>1, Appended
<1> QED
  BY <1>2 DEF Instance

(* A new reading is the next of its type. *)
LEMMA InstanceOfNew ==
  ASSUME NEW os \in Seq(Known), NEW o \in Known, o.kind = "reading"
  PROVE  Instance(Append(os, o), Len(os) + 1) = Cardinality(OfType(os, o.type)) + 1
<1>1. {j \in 1..Len(os) + 1 : Append(os, o)[j].kind = "reading"
                                /\ Append(os, o)[j].type = Append(os, o)[Len(os) + 1].type}
        = OfType(Append(os, o), o.type)
  BY Appended DEF OfType
<1> QED
  BY <1>1, OfTypeAppended DEF Instance

(* No reading is further back than the last of its type. *)
LEMMA InstanceBound ==
  ASSUME NEW os \in Seq(Known), NEW k \in 1..Len(os)
  PROVE  Instance(os, k) \in Nat /\ Instance(os, k) <= Cardinality(OfType(os, os[k].type))
<1> DEFINE S == {j \in 1..k : os[j].kind = "reading" /\ os[j].type = os[k].type}
<1>1. S \in SUBSET OfType(os, os[k].type)
  BY DEF OfType
<1>2. IsFiniteSet(S) /\ Cardinality(S) <= Cardinality(OfType(os, os[k].type))
  BY <1>1, OfTypeFinite, FS_Subset
<1>3. Instance(os, k) = Cardinality(S)
  BY DEF Instance
<1> QED
  BY <1>2, <1>3, FS_CardinalityType
-----------------------------------------------------------------------------
(* The invariant *)

\* Each object costs two bytes.
BudgetInv == MinObject * Len(objs) + left <= Room

\* No table holds more than there were objects.
TableInv ==
  /\ IsFiniteSet(DOMAIN seen) /\ Cardinality(DOMAIN seen) <= Len(objs)
  /\ \A kind \in EventKinds : Len(events[kind]) <= Len(objs)
  /\ Len(unclaimed) <= Len(objs)
  /\ ~overflow

\* The table counts the readings of every type.
CountInv ==
  /\ \A t \in DOMAIN seen : seen[t] = Cardinality(OfType(objs, t))
  /\ \A k \in DOMAIN objs : objs[k].kind = "reading" => objs[k].type \in DOMAIN seen

Inv == ParseTypeOK /\ BudgetInv /\ TableInv /\ CountInv

(* An empty payload satisfies it. *)
LEMMA EmptyTables ==
  /\ DOMAIN [t \in {} |-> 0] = {}
  /\ [t \in {} |-> 0] \in [{} -> Nat]
  /\ IsFiniteSet({}) /\ Cardinality({}) = 0
  /\ \A S : <<>> \in Seq(S)
  /\ Len(<<>>) = 0 /\ DOMAIN <<>> = {}
  /\ \A kind \in EventKinds : NoEvents[kind] = <<>>
  /\ NoEvents \in [EventKinds -> Seq(EventCodes)]
<1>1. \A S : <<>> \in Seq(S)
  BY EmptySeq
<1>2. Len(<<>>) = 0
  BY EmptySeq
<1> QED
  BY <1>1, <1>2, FS_EmptySet DEF NoEvents

LEMMA InvInit == ParseInit => Inv
<1> SUFFICES ASSUME ParseInit PROVE Inv
  OBVIOUS
<1> USE DEF ParseInit
<1>1. PendingTypeOK
  BY DEF PendingTypeOK
<1>2. TablesTypeOK
  BY EmptyTables, ParseAssumption, EventsAssumption DEF TablesTypeOK
<1>3. ParseTypeOK
  BY <1>1, <1>2, EmptyTables, ParseAssumption DEF ParseTypeOK
<1>4. BudgetInv
  BY EmptyTables, ParseAssumption DEF BudgetInv, MinObject
<1>5. TableInv
  BY EmptyTables DEF TableInv
<1>6. CountInv
  BY EmptyTables DEF CountInv
<1> QED
  BY <1>3, <1>4, <1>5, <1>6 DEF Inv

LEMMA InvBegin == Inv /\ Begin => Inv'
<1> SUFFICES ASSUME Inv, Begin PROVE Inv'
  OBVIOUS
<1> USE DEF Begin, persistent
<1>1. PendingTypeOK'
  BY DEF Inv, ParseTypeOK, PendingTypeOK
<1>2. TablesTypeOK'
  BY EmptyTables, ParseAssumption, EventsAssumption DEF TablesTypeOK
<1>3. ParseTypeOK'
  BY <1>1, <1>2, EmptyTables, ParseAssumption DEF ParseTypeOK
<1>4. BudgetInv'
  BY EmptyTables, ParseAssumption DEF BudgetInv, MinObject
<1>5. TableInv'
  BY EmptyTables DEF TableInv
<1>6. CountInv'
  BY EmptyTables DEF CountInv
<1> QED
  BY <1>3, <1>4, <1>5, <1>6 DEF Inv

(* While an object is read there is room for one more in every table. *)
LEMMA RoomForOne ==
  ASSUME Inv, NEW o \in Known, Read(o)
  PROVE  /\ Len(objs) + 1 <= MaxKinds /\ Len(objs) + 1 <= MaxEvents
         /\ Len(objs) \in Nat /\ MinObject * (Len(objs) + 1) + left' <= Room
<1>1. Len(objs) \in Nat /\ left \in 0..Room
  BY LenProperties DEF Inv, ParseTypeOK
<1>2. o.size \in Nat /\ o.size >= 2 /\ o.size <= left /\ left' = left - o.size
  BY ParseAssumption DEF Read, MinObject
<1> QED
  BY <1>1, <1>2, ParseAssumption, RoomAssumption, EventsAssumption
  DEF Inv, BudgetInv, MinObject

LEMMA HasEntryLeft ==
  ASSUME Inv, NEW o \in Known, Read(o)
  PROVE  HasEntry
  BY RoomForOne, FS_CardinalityType, ParseAssumption DEF Inv, TableInv, HasEntry

(* What the table says of a type is how often it was read. *)
LEMMA InstanceIsCount ==
  ASSUME Inv, NEW o \in Known, Read(o), o.kind = "reading"
  PROVE  InstanceOf(o.type) = Cardinality(OfType(objs, o.type)) + 1
<1>1. objs \in Seq(Known)
  BY DEF Inv, ParseTypeOK
<1>2. CASE o.type \in DOMAIN seen
  BY <1>2 DEF Inv, CountInv, InstanceOf
<1>3. CASE o.type \notin DOMAIN seen
  <2>1. OfType(objs, o.type) = {}
    BY <1>3 DEF Inv, CountInv, OfType
  <2> QED
    BY <1>3, <2>1, FS_EmptySet DEF InstanceOf
<1> QED
  BY <1>2, <1>3

(* The table of types. *)
LEMMA SeenRead ==
  ASSUME Inv, NEW o \in Known, Read(o)
  PROVE  /\ seen' \in [DOMAIN seen' -> Nat] /\ DOMAIN seen' \subseteq Types
         /\ IsFiniteSet(DOMAIN seen') /\ Cardinality(DOMAIN seen') <= Len(objs')
         /\ CountInv'
<1>1. /\ objs \in Seq(Known) /\ objs' = Append(objs, o)
      /\ Len(objs) \in Nat /\ Len(objs') = Len(objs) + 1
  BY Appended DEF Inv, ParseTypeOK, Read
<1>2. /\ seen \in [DOMAIN seen -> Nat] /\ DOMAIN seen \subseteq Types
      /\ IsFiniteSet(DOMAIN seen) /\ Cardinality(DOMAIN seen) \in Nat
      /\ Cardinality(DOMAIN seen) <= Len(objs)
  BY FS_CardinalityType DEF Inv, ParseTypeOK, TablesTypeOK, TableInv
<1>3. CASE o.kind = "reading"
  <2> DEFINE t == o.type
             c == InstanceOf(t)
  <2>1. t \in Types
    BY <1>3, ParseAssumption
  <2>2. seen' = [u \in DOMAIN seen \cup {t} |-> IF u = t THEN c ELSE seen[u]]
    BY <1>3, HasEntryLeft
    DEF Read, ReadReading, CountType, ReadId, ReadEvent, ReadFirmware, ReadOther, EventKinds
  <2>3. c = Cardinality(OfType(objs, t)) + 1 /\ c \in Nat
    BY <1>1, <1>3, InstanceIsCount, OfTypeFinite
  <2>4. DOMAIN seen' = DOMAIN seen \cup {t}
    BY <2>2
  <2>5. seen' \in [DOMAIN seen' -> Nat] /\ DOMAIN seen' \subseteq Types
    <3> HIDE DEF c
    <3> QED
      BY <1>2, <2>1, <2>2, <2>3, <2>4
  <2>6. IsFiniteSet(DOMAIN seen') /\ Cardinality(DOMAIN seen') <= Len(objs')
    <3>1. /\ IsFiniteSet(DOMAIN seen \cup {t})
          /\ Cardinality(DOMAIN seen \cup {t}) =
               IF t \in DOMAIN seen THEN Cardinality(DOMAIN seen)
               ELSE Cardinality(DOMAIN seen) + 1
      BY <1>2, FS_AddElement
    <3> QED
      BY <1>1, <1>2, <2>4, <3>1
  <2>7. ASSUME NEW u \in DOMAIN seen'
        PROVE  seen'[u] = Cardinality(OfType(objs', u))
    <3>1. CASE u = t
      BY <1>1, <1>3, <2>2, <2>3, <2>4, <3>1, OfTypeAppended
    <3>2. CASE u # t
      BY <1>1, <2>2, <2>4, <3>2, OfTypeAppended DEF Inv, CountInv
    <3> QED
      BY <3>1, <3>2
  <2>8. ASSUME NEW k \in DOMAIN objs', objs'[k].kind = "reading"
        PROVE  objs'[k].type \in DOMAIN seen'
    BY <1>1, <2>4, <2>8, Appended DEF Inv, CountInv
  <2> QED
    BY <2>5, <2>6, <2>7, <2>8 DEF CountInv
<1>4. CASE o.kind # "reading"
  <2>1. seen' = seen
    BY <1>4 DEF Read, ReadReading, ReadId, ReadEvent, ReadFirmware, ReadOther
  <2>2. CountInv'
    <3>1. ASSUME NEW u \in DOMAIN seen'
          PROVE  seen'[u] = Cardinality(OfType(objs', u))
      BY <1>1, <1>4, <2>1, OfTypeAppended DEF Inv, CountInv
    <3>2. ASSUME NEW k \in DOMAIN objs', objs'[k].kind = "reading"
          PROVE  objs'[k].type \in DOMAIN seen'
      BY <1>1, <1>4, <2>1, <3>2, Appended DEF Inv, CountInv
    <3> QED
      BY <3>1, <3>2 DEF CountInv
  <2> QED
    BY <1>1, <1>2, <2>1, <2>2
<1> QED
  BY <1>3, <1>4

(* The arrays of events. *)
LEMMA EventsRead ==
  ASSUME Inv, NEW o \in Known, Read(o)
  PROVE  /\ events' \in [EventKinds -> Seq(EventCodes)]
         /\ \A kind \in EventKinds : Len(events'[kind]) <= Len(objs')
         /\ ~overflow'
<1>1. /\ Len(objs) \in Nat /\ Len(objs') = Len(objs) + 1
  BY Appended DEF Inv, ParseTypeOK, Read
<1>2. /\ events \in [EventKinds -> Seq(EventCodes)]
      /\ \A kind \in EventKinds : Len(events[kind]) \in Nat /\ Len(events[kind]) <= Len(objs)
      /\ ~overflow
  BY LenProperties DEF Inv, ParseTypeOK, TablesTypeOK, TableInv
<1>3. CASE o.kind \in EventKinds
  <2>1. Len(events[o.kind]) < MaxEvents /\ o.what \in EventCodes
    BY <1>1, <1>2, <1>3, RoomForOne, ParseAssumption, EventsAssumption
  <2>2. /\ events' = [events EXCEPT ![o.kind] = Append(@, o.what)]
        /\ overflow' = overflow
    BY <1>3, <2>1
    DEF Read, ReadEvent, ReadReading, ReadId, ReadFirmware, ReadOther, EventKinds
  <2>3. /\ Append(events[o.kind], o.what) \in Seq(EventCodes)
        /\ Len(Append(events[o.kind], o.what)) = Len(events[o.kind]) + 1
    BY <1>2, <1>3, <2>1, AppendProperties
  <2> QED
    BY <1>1, <1>2, <1>3, <2>2, <2>3
<1>4. CASE o.kind \notin EventKinds
  <2>1. events' = events /\ overflow' = overflow
    BY <1>4 DEF Read, ReadEvent, ReadReading, ReadId, ReadFirmware, ReadOther
  <2> QED
    BY <1>1, <1>2, <2>1
<1> QED
  BY <1>3, <1>4

(* The array of objects nobody asked for. *)
LEMMA UnclaimedRead ==
  ASSUME Inv, NEW o \in Known, Read(o)
  PROVE  unclaimed' \in Seq(Types \X Nat) /\ Len(unclaimed') <= Len(objs')
<1>1. /\ Len(objs) \in Nat /\ Len(objs') = Len(objs) + 1
      /\ objs \in Seq(Known)
  BY Appended DEF Inv, ParseTypeOK, Read
<1>2. /\ unclaimed \in Seq(Types \X Nat) /\ Len(unclaimed) \in Nat
      /\ Len(unclaimed) <= Len(objs)
  BY LenProperties DEF Inv, ParseTypeOK, TablesTypeOK, TableInv
<1>3. CASE o.kind = "reading" /\ unclaimed' # unclaimed
  <2>1. unclaimed' = Append(unclaimed, <<o.type, InstanceOf(o.type)>>)
    BY <1>3 DEF Read, ReadReading, NoteUnclaimed, ReadEvent, ReadId, ReadFirmware,
                ReadOther, EventKinds
  <2>2. o.type \in Types /\ InstanceOf(o.type) \in Nat
    BY <1>1, <1>3, ParseAssumption, InstanceIsCount, OfTypeFinite
  <2>3. <<o.type, InstanceOf(o.type)>> \in Types \X Nat
    BY <2>2
  <2> QED
    BY <1>1, <1>2, <2>1, <2>3, AppendProperties
<1>4. CASE unclaimed' = unclaimed
  BY <1>1, <1>2, <1>4
<1>5. o.kind # "reading" => unclaimed' = unclaimed
  BY DEF Read, ReadReading, ReadEvent, ReadId, ReadFirmware, ReadOther
<1> QED
  BY <1>3, <1>4, <1>5

LEMMA InvRead ==
  ASSUME Inv, NEW o \in Known, Read(o)
  PROVE  Inv'
<1>1. /\ objs' \in Seq(Known) /\ Len(objs') = Len(objs) + 1 /\ Len(objs) \in Nat
  BY Appended DEF Inv, ParseTypeOK, Read
<1>2. left' \in 0..Room
  BY ParseAssumption DEF Inv, ParseTypeOK, Read
<1>3. PendingTypeOK'
  BY ParseAssumption
  DEF Inv, ParseTypeOK, PendingTypeOK, Read, ReadId, ReadEvent, ReadReading,
      ReadFirmware, ReadOther, persistent
<1>4. TableInv'
  BY SeenRead, EventsRead, UnclaimedRead DEF TableInv
<1>5. TablesTypeOK'
  <2>1. \A kind \in EventKinds : Len(events'[kind]) \in Nat
    BY EventsRead, LenProperties
  <2>2. Len(unclaimed') \in Nat /\ Cardinality(DOMAIN seen') \in Nat
    BY UnclaimedRead, SeenRead, LenProperties, FS_CardinalityType
  <2>3. /\ \A kind \in EventKinds : Len(events'[kind]) <= MaxEvents
        /\ Len(unclaimed') <= MaxEvents /\ Cardinality(DOMAIN seen') <= MaxKinds
    BY <1>1, <2>1, <2>2, RoomForOne, SeenRead, EventsRead, UnclaimedRead,
       ParseAssumption, EventsAssumption
  <2> QED
    BY <2>3, SeenRead, EventsRead, UnclaimedRead DEF TablesTypeOK
<1>6. BudgetInv'
  BY <1>1, RoomForOne DEF BudgetInv
<1>7. CountInv'
  BY SeenRead
<1>8. pc' \in {"idle", "reading", "ended"}
  BY DEF Inv, ParseTypeOK, Read
<1> QED
  BY <1>1, <1>2, <1>3, <1>4, <1>5, <1>6, <1>7, <1>8 DEF Inv, ParseTypeOK

LEMMA InvNext == Inv /\ [ParseNext]_parseVars => Inv'
<1> SUFFICES ASSUME Inv, [ParseNext]_parseVars PROVE Inv'
  OBVIOUS
<1>1. CASE Begin
  BY <1>1, InvBegin
<1>2. CASE End
  BY <1>2
  DEF End, Inv, ParseTypeOK, PendingTypeOK, TablesTypeOK, BudgetInv, TableInv, CountInv,
      OfType, persistent
<1>3. CASE Finish
  BY <1>3
  DEF Finish, Remembered, ReportUnclaimed, Inv, ParseTypeOK, PendingTypeOK, TablesTypeOK,
      BudgetInv, TableInv, CountInv, OfType, reading, persistent
<1>4. ASSUME NEW o \in Known, Read(o) PROVE Inv'
  BY <1>4, InvRead
<1>5. CASE UNCHANGED parseVars
  BY <1>5
  DEF parseVars, Inv, ParseTypeOK, PendingTypeOK, TablesTypeOK, BudgetInv, TableInv,
      CountInv, OfType, reading, persistent
<1> QED
  BY <1>1, <1>2, <1>3, <1>4, <1>5 DEF ParseNext

(* The tables and arrays never overflow, and every variable keeps its type,
   however the objects of a payload are chosen. *)
THEOREM ParseTypeCorrect == ParseSpec => []ParseTypeOK
<1>1. Inv => ParseTypeOK
  BY DEF Inv
<1> QED
  BY <1>1, InvInit, InvNext, PTL DEF ParseSpec
-----------------------------------------------------------------------------
(* What the slots hold *)

\* The places among os of the readings for slot s.
Hits(os, s) == {k \in DOMAIN os : Matches(os, k, s)}

LEMMA ParsedByHits ==
  ASSUME NEW os, NEW s \in Slots
  PROVE  Parsed(Slots, os)[s] =
           IF Hits(os, s) = {} THEN NoValue
           ELSE os[CHOOSE k \in Hits(os, s) : TRUE].value
  BY DEF Parsed, Hits

(* An object that is not for a slot adds no hit ... *)
LEMMA HitsKept ==
  ASSUME NEW os \in Seq(Known), NEW o \in Known, NEW s \in Slots,
         ~Matches(Append(os, o), Len(os) + 1, s)
  PROVE  /\ Hits(Append(os, o), s) = Hits(os, s)
         /\ Parsed(Slots, Append(os, o))[s] = Parsed(Slots, os)[s]
<1>1. \A k \in 1..Len(os) : Matches(Append(os, o), k, s) <=> Matches(os, k, s)
  BY Appended, InstanceKept DEF Matches
<1>2. Hits(Append(os, o), s) = Hits(os, s)
  BY <1>1, Appended DEF Hits
<1>3. CASE Hits(os, s) = {}
  BY <1>2, <1>3, ParsedByHits
<1>4. CASE Hits(os, s) # {}
  <2> DEFINE k == CHOOSE j \in Hits(os, s) : TRUE
  <2>1. k \in Hits(os, s)
    BY <1>4
  <2>2. k \in 1..Len(os)
    BY <2>1, Appended DEF Hits
  <2>3. Append(os, o)[k] = os[k]
    BY <2>2, Appended
  <2> QED
    BY <1>2, <1>4, <2>3, ParsedByHits
<1> QED
  BY <1>2, <1>3, <1>4

(* ... and one that is for a slot is the only one. *)
LEMMA HitsOne ==
  ASSUME NEW os \in Seq(Known), NEW o \in Known, NEW s \in Slots,
         Matches(Append(os, o), Len(os) + 1, s)
  PROVE  Parsed(Slots, Append(os, o))[s] = o.value
<1> DEFINE n == Len(os)
           new == Append(os, o)
<1>1. o.kind = "reading" /\ o.type = s.type /\ s.index = Cardinality(OfType(os, s.type)) + 1
  BY Appended, InstanceOfNew DEF Matches
<1>2. ASSUME NEW k \in 1..n, Matches(new, k, s) PROVE FALSE
  <2>1. os[k].type = s.type /\ Instance(os, k) = s.index
    BY <1>2, Appended, InstanceKept DEF Matches
  <2>2. Instance(os, k) \in Nat /\ Instance(os, k) <= Cardinality(OfType(os, s.type))
    BY <2>1, InstanceBound
  <2> QED
    BY <1>1, <2>1, <2>2, OfTypeFinite
<1>3. Hits(new, s) = {n + 1}
  BY <1>2, Appended DEF Hits
<1>4. (CHOOSE k \in Hits(new, s) : TRUE) = n + 1
  BY <1>3
<1>5. new[n + 1] = o
  BY Appended
<1>6. Hits(new, s) # {}
  BY <1>3
<1>7. Parsed(Slots, new)[s] = new[CHOOSE k \in Hits(new, s) : TRUE].value
  BY <1>6, ParsedByHits
<1> QED
  BY <1>4, <1>5, <1>7

LEMMA ReadingsRead ==
  ASSUME Inv, ReadingsAsMeant, NEW o \in Known, Read(o)
  PROVE  ReadingsAsMeant'
<1>1. objs \in Seq(Known) /\ objs' = Append(objs, o)
  BY DEF Inv, ParseTypeOK, Read
<1>2. slots = Parsed(Slots, objs)
  BY DEF ReadingsAsMeant
<1>3. CASE o.kind = "reading"
  <2>1. slots' = [s \in Slots |-> IF s \in SlotsFor(o) THEN o.value ELSE slots[s]]
    BY <1>3 DEF Read, ReadReading, ReadId, ReadEvent, ReadFirmware, ReadOther, EventKinds
  <2>2. ASSUME NEW s \in Slots
        PROVE  s \in SlotsFor(o) <=> Matches(objs', Len(objs) + 1, s)
    <3>1. objs'[Len(objs) + 1] = o
      BY <1>1, Appended
    <3>2. Instance(objs', Len(objs) + 1) = InstanceOf(o.type)
      BY <1>1, <1>3, InstanceOfNew, InstanceIsCount
    <3> QED
      BY <1>3, <3>1, <3>2 DEF SlotsFor, Matches
  <2>3. ASSUME NEW s \in Slots
        PROVE  slots'[s] = Parsed(Slots, objs')[s]
    <3>1. CASE s \in SlotsFor(o)
      BY <1>1, <2>1, <2>2, <3>1, HitsOne
    <3>2. CASE s \notin SlotsFor(o)
      BY <1>1, <1>2, <2>1, <2>2, <3>2, HitsKept
    <3> QED
      BY <3>1, <3>2
  <2>4. Parsed(Slots, objs') = [s \in Slots |-> Parsed(Slots, objs')[s]]
    BY DEF Parsed
  <2> QED
    BY <2>1, <2>3, <2>4 DEF ReadingsAsMeant
<1>4. CASE o.kind # "reading"
  <2>1. slots' = slots
    BY <1>4 DEF Read, ReadReading, ReadId, ReadEvent, ReadFirmware, ReadOther
  <2>2. ASSUME NEW s \in Slots
        PROVE  Parsed(Slots, objs')[s] = Parsed(Slots, objs)[s]
    <3>1. ~Matches(objs', Len(objs) + 1, s)
      BY <1>1, <1>4, Appended DEF Matches
    <3> QED
      BY <1>1, <3>1, HitsKept
  <2>3. /\ Parsed(Slots, objs') = [s \in Slots |-> Parsed(Slots, objs')[s]]
        /\ Parsed(Slots, objs) = [s \in Slots |-> Parsed(Slots, objs)[s]]
    BY DEF Parsed
  <2> QED
    BY <1>2, <2>1, <2>2, <2>3 DEF ReadingsAsMeant
<1> QED
  BY <1>3, <1>4

(* No payload has readings before its first object. *)
LEMMA ParsedEmpty == Parsed(Slots, <<>>) = [s \in Slots |-> NoValue]
  BY EmptyTables DEF Parsed

LEMMA ReadingsNext == Inv /\ ReadingsAsMeant /\ [ParseNext]_parseVars => ReadingsAsMeant'
<1> SUFFICES ASSUME Inv, ReadingsAsMeant, [ParseNext]_parseVars PROVE ReadingsAsMeant'
  OBVIOUS
<1>1. CASE Begin
  BY <1>1, ParsedEmpty DEF Begin, ReadingsAsMeant
<1>2. CASE End \/ Finish \/ UNCHANGED parseVars
  <2>1. objs' = objs /\ slots' = slots
    BY <1>2 DEF End, Finish, parseVars, reading
  <2> QED
    BY <2>1 DEF ReadingsAsMeant
<1>3. ASSUME NEW o \in Known, Read(o) PROVE ReadingsAsMeant'
  BY <1>3, ReadingsRead
<1> QED
  BY <1>1, <1>2, <1>3 DEF ParseNext

(* Whatever the payload, each slot holds the reading of its type and place:
   the table of twelve counts as if it had no end. *)
THEOREM ReadingsCorrect == ParseSpec => []ReadingsAsMeant
<1>1. ParseInit => ReadingsAsMeant
  BY ParsedEmpty DEF ParseInit, ReadingsAsMeant
<1> QED
  BY <1>1, InvInit, InvNext, ReadingsNext, PTL DEF ParseSpec
-----------------------------------------------------------------------------
(* What is noted of the objects nobody asked for *)

\* objs[k] is for no entity, and not the device's name.
Orphan(os, k) ==
  /\ os[k].kind = "reading"
  /\ ~\E s \in Slots : Matches(os, k, s)
  /\ ~(os[k].type = NameType /\ Instance(os, k) = 1)

LEMMA UnwantedIsOrphans ==
  Unwanted = {<<objs[k].type, Instance(objs, k)>> : k \in {j \in DOMAIN objs : Orphan(objs, j)}}
  BY DEF Unwanted, Orphan

(* One more object adds itself, or nothing. *)
LEMMA UnwantedAppended ==
  ASSUME NEW o \in Known, objs \in Seq(Known), objs' = Append(objs, o)
  PROVE  Unwanted' = IF Orphan(objs', Len(objs) + 1)
                     THEN Unwanted \cup {<<o.type, Instance(objs', Len(objs) + 1)>>}
                     ELSE Unwanted
<1> DEFINE n == Len(objs)
           Pair(os, k) == <<os[k].type, Instance(os, k)>>
           Old == {k \in 1..n : Orphan(objs, k)}
           New == {k \in 1..n + 1 : Orphan(objs', k)}
<1>1. ASSUME NEW k \in 1..n
      PROVE  (Orphan(objs', k) <=> Orphan(objs, k)) /\ Pair(objs', k) = Pair(objs, k)
  BY <1>1, Appended, InstanceKept DEF Orphan, Matches
<1>2. Unwanted = {Pair(objs, k) : k \in Old} /\ Unwanted' = {Pair(objs', k) : k \in New}
  BY Appended, UnwantedIsOrphans DEF Unwanted, Orphan
<1>3. {Pair(objs', k) : k \in Old} = {Pair(objs, k) : k \in Old}
  BY <1>1
<1>4. Pair(objs', n + 1) = <<o.type, Instance(objs', n + 1)>>
  BY Appended
<1>5. CASE Orphan(objs', n + 1)
  <2>1. New = Old \cup {n + 1}
    BY <1>1, <1>5, Appended
  <2> HIDE DEF Pair, Old, New
  <2>2. {Pair(objs', k) : k \in New} = {Pair(objs', k) : k \in Old} \cup {Pair(objs', n + 1)}
    BY <2>1
  <2> QED
    BY <1>2, <1>3, <1>4, <1>5, <2>2
<1>6. CASE ~Orphan(objs', n + 1)
  <2>1. New = Old
    BY <1>1, <1>6, Appended
  <2> HIDE DEF Pair, Old, New
  <2> QED
    BY <1>2, <1>3, <1>6, <2>1
<1> QED
  BY <1>5, <1>6

(* What Append does to the entries of a sequence. *)
LEMMA EntriesAppended ==
  ASSUME NEW S, NEW s \in Seq(S), NEW e \in S
  PROVE  Entries(Append(s, e)) = Entries(s) \cup {e}
<1>1. /\ DOMAIN s = 1..Len(s) /\ DOMAIN Append(s, e) = 1..Len(s) + 1 /\ Len(s) \in Nat
      /\ \A k \in 1..Len(s) : Append(s, e)[k] = s[k]
      /\ Append(s, e)[Len(s) + 1] = e
  BY AppendProperties
<1>2. \A k \in 1..Len(s) + 1 : k \in 1..Len(s) \/ k = Len(s) + 1
  BY <1>1
<1> QED
  BY <1>1, <1>2 DEF Entries

LEMMA UnclaimedNoted ==
  ASSUME Inv, Entries(unclaimed) = Unwanted, NEW o \in Known, Read(o)
  PROVE  Entries(unclaimed') = Unwanted'
<1> DEFINE n == Len(objs)
<1>1. objs \in Seq(Known) /\ objs' = Append(objs, o) /\ objs'[n + 1] = o
  BY Appended DEF Inv, ParseTypeOK, Read
<1>2. CASE o.kind = "reading"
  <2>1. Instance(objs', n + 1) = InstanceOf(o.type)
    BY <1>1, <1>2, InstanceOfNew, InstanceIsCount
  <2>2. Orphan(objs', n + 1) <=> ~TakesName(o) /\ SlotsFor(o) = {}
    BY <1>1, <1>2, <2>1 DEF Orphan, Matches, TakesName, SlotsFor
  <2>3. ~(Len(unclaimed) >= MaxEvents)
    <3>1. Len(unclaimed) \in Nat /\ Len(unclaimed) <= Len(objs)
      BY LenProperties DEF Inv, ParseTypeOK, TablesTypeOK, TableInv
    <3> QED
      BY <3>1, RoomForOne, EventsAssumption
  <2>4. NoteUnclaimed(o)
    BY <1>2 DEF Read, ReadReading, ReadId, ReadEvent, ReadFirmware, ReadOther, EventKinds
  <2>5. unclaimed' = IF Orphan(objs', n + 1)
                     THEN Append(unclaimed, <<o.type, InstanceOf(o.type)>>) ELSE unclaimed
    BY <2>2, <2>3, <2>4 DEF NoteUnclaimed
  <2>6. unclaimed \in Seq(Types \X Nat) /\ <<o.type, InstanceOf(o.type)>> \in Types \X Nat
    BY <1>1, <1>2, ParseAssumption, InstanceIsCount, OfTypeFinite
    DEF Inv, ParseTypeOK, TablesTypeOK
  <2>7. Entries(Append(unclaimed, <<o.type, InstanceOf(o.type)>>))
          = Entries(unclaimed) \cup {<<o.type, InstanceOf(o.type)>>}
    <3> DEFINE S == Types \X Nat
               e == <<o.type, InstanceOf(o.type)>>
    <3>1. unclaimed \in Seq(S) /\ e \in S
      BY <2>6
    <3> HIDE DEF S, e
    <3>2. Entries(Append(unclaimed, e)) = Entries(unclaimed) \cup {e}
      BY <3>1, EntriesAppended
    <3> QED
      BY <3>2 DEF e
  <2>8. Unwanted' = IF Orphan(objs', n + 1)
                    THEN Unwanted \cup {<<o.type, InstanceOf(o.type)>>} ELSE Unwanted
    BY <1>1, <2>1, UnwantedAppended
  <2> QED
    BY <2>5, <2>7, <2>8
<1>3. CASE o.kind # "reading"
  <2>1. unclaimed' = unclaimed
    BY <1>3 DEF Read, ReadReading, ReadEvent, ReadId, ReadFirmware, ReadOther
  <2>2. ~Orphan(objs', n + 1)
    BY <1>1, <1>3 DEF Orphan
  <2> QED
    BY <1>1, <2>1, <2>2, UnwantedAppended
<1> QED
  BY <1>2, <1>3

(* No event is ever dropped for want of room, and every object nobody asked
   for is noted. *)
THEOREM NothingIsLeftOut == ParseSpec => []NothingLeftOut
<1>1. ParseInit => NothingLeftOut
  BY EmptyTables DEF ParseInit, NothingLeftOut, Entries, Unwanted
<1>2. Inv /\ NothingLeftOut /\ Inv' /\ [ParseNext]_parseVars => NothingLeftOut'
  <2> SUFFICES ASSUME Inv, NothingLeftOut, Inv', [ParseNext]_parseVars
               PROVE  NothingLeftOut'
    OBVIOUS
  <2>1. ~overflow'
    BY DEF Inv, TableInv
  <2>2. CASE Begin
    BY <2>1, <2>2, EmptyTables DEF Begin, NothingLeftOut, Entries, Unwanted
  <2>3. CASE End \/ Finish \/ UNCHANGED parseVars
    <3>1. objs' = objs /\ unclaimed' = unclaimed
      BY <2>3 DEF End, Finish, parseVars, reading
    <3> QED
      BY <2>1, <3>1 DEF NothingLeftOut, Entries, Unwanted
  <2>4. ASSUME NEW o \in Known, Read(o) PROVE NothingLeftOut'
    BY <2>1, <2>4, UnclaimedNoted DEF NothingLeftOut
  <2> QED
    BY <2>2, <2>3, <2>4 DEF ParseNext
<1> QED
  BY <1>1, <1>2, InvInit, InvNext, PTL DEF ParseSpec

-----------------------------------------------------------------------------
(* Which events are kept *)

\* The places of the objects of a kind.
OfKind(os, kind) == {k \in DOMAIN os : os[k].kind = kind}

(* One more object is behind those of its kind, and not among the others. *)
LEMMA OfKindAppended ==
  ASSUME NEW os \in Seq(Known), NEW o \in Known, NEW kind
  PROVE  /\ OfKind(os, kind) \in SUBSET (1..Len(os))
         /\ o.kind = kind => OfKind(Append(os, o), kind) = OfKind(os, kind) \cup {Len(os) + 1}
         /\ o.kind # kind => OfKind(Append(os, o), kind) = OfKind(os, kind)
  BY Appended DEF OfKind

\* Of the objects with a packet id one is the last.
HasLast ==
  LET ids == OfKind(objs, "id")
  IN  ids # {} => \E k \in ids : \A j \in ids : j <= k

\* The array of a kind of event is filled like InOrder fills a sequence, and the
\* packet id is that of the last object that has one.
KeptInv ==
  /\ \A kind \in EventKinds :
       /\ Whole(OfKind(objs, kind))
       /\ events[kind] = Whats(InOrder(objs, OfKind(objs, kind)))
  /\ HasLast /\ packetId = LastId

(* The packet id of an object read is the last one; other objects leave it. *)
LEMMA LastIdAppended ==
  ASSUME NEW o \in Known, objs \in Seq(Known), objs' = Append(objs, o), HasLast
  PROVE  HasLast' /\ LastId' = IF o.kind = "id" THEN o.id ELSE LastId
<1> DEFINE n == Len(objs)
           old == OfKind(objs, "id")
           new == OfKind(objs', "id")
           Last(ids) == CHOOSE k \in ids : \A j \in ids : j <= k
<1>1. old \in SUBSET (1..n) /\ n \in Nat
  BY Appended, OfKindAppended
<1>2. /\ LastId = IF old = {} THEN NoId ELSE objs[Last(old)].id
      /\ LastId' = IF new = {} THEN NoId ELSE objs'[Last(new)].id
  BY DEF LastId, OfKind
<1>3. CASE o.kind = "id"
  <2>1. new = old \cup {n + 1}
    BY <1>3, OfKindAppended
  <2>2. n + 1 \in new /\ \A j \in new : j <= n + 1
    BY <1>1, <2>1
  <2>3. Last(new) \in new /\ \A j \in new : j <= Last(new)
    BY <2>2
  <2>4. Last(new) = n + 1
    <3> HIDE DEF new
    <3> QED
      BY <1>1, <2>1, <2>2, <2>3
  <2>5. objs'[n + 1] = o
    BY Appended
  <2> QED
    BY <1>2, <1>3, <2>2, <2>4, <2>5 DEF HasLast
<1>4. CASE o.kind # "id"
  <2>1. new = old
    BY <1>4, OfKindAppended
  <2>2. CASE old = {}
    BY <1>2, <1>4, <2>1, <2>2 DEF HasLast
  <2>3. CASE old # {}
    <3>1. Last(old) \in old
      BY <2>3 DEF HasLast
    <3>2. objs'[Last(old)] = objs[Last(old)]
      BY <1>1, <3>1, Appended
    <3>3. HasLast'
      BY <2>1 DEF HasLast
    <3>4. LastId' = objs'[Last(old)].id /\ LastId = objs[Last(old)].id
      BY <1>2, <2>1, <2>3
    <3> QED
      BY <1>4, <3>2, <3>3, <3>4
  <2> QED
    BY <2>2, <2>3
<1> QED
  BY <1>3, <1>4

(* What happens to the codes when an event comes in. *)
LEMMA WhatsAppended ==
  ASSUME NEW os \in Seq(Known), NEW o \in Known
  PROVE  Whats(Append(os, o)) = Append(Whats(os), o.what)
<1>1. PICK n \in Nat : n = Len(os) /\ DOMAIN os = 1..n
  BY Appended
<1>2. DOMAIN Append(os, o) = 1..n + 1
  BY <1>1, Appended
<1>3. Whats(os) = [k \in 1..n |-> os[k].what] /\ Len(Whats(os)) = n
  BY <1>1 DEF Whats
<1>4. Append(Whats(os), o.what) = [k \in 1..n + 1 |-> IF k = n + 1 THEN o.what ELSE os[k].what]
  BY <1>1, <1>3
<1>5. Whats(Append(os, o)) = [k \in 1..n + 1 |-> Append(os, o)[k].what]
  BY <1>2 DEF Whats
<1>6. ASSUME NEW k \in 1..n + 1
      PROVE  Append(os, o)[k].what = IF k = n + 1 THEN o.what ELSE os[k].what
  BY <1>1, Appended
<1> QED
  BY <1>4, <1>5, <1>6

LEMMA EmptyKept ==
  ASSUME NEW kind
  PROVE  OfKind(<<>>, kind) = {} /\ Whole({}) /\ Whats(InOrder(<<>>, {})) = <<>>
<1>1. OfKind(<<>>, kind) = {}
  BY EmptyTables DEF OfKind
<1>2. InOrder(<<>>, {}) = <<>>
  BY InOrderLength
<1>3. Whats(<<>>) = <<>>
  BY DEF Whats
<1> QED
  BY <1>1, <1>2, <1>3, WholeEmpty

(* An object read keeps the array of each kind right. *)
LEMMA KeptRead ==
  ASSUME Inv, KeptInv, NEW o \in Known, Read(o)
  PROVE  KeptInv'
<1>1. objs \in Seq(Known) /\ objs' = Append(objs, o) /\ Len(objs) \in Nat
  BY Appended DEF Inv, ParseTypeOK, Read
<1>2. ASSUME NEW kind \in EventKinds
      PROVE  /\ Whole(OfKind(objs', kind))
             /\ events'[kind] = Whats(InOrder(objs', OfKind(objs', kind)))
  <2>1. PICK at : at = OfKind(objs, kind)
    OBVIOUS
  <2>2. /\ at \in SUBSET (1..Len(objs)) /\ Whole(at)
        /\ events[kind] = Whats(InOrder(objs, at))
    BY <1>1, <2>1, OfKindAppended DEF KeptInv
  <2>3. /\ InOrder(objs', at) = InOrder(objs, at)
        /\ InOrder(objs', at \cup {Len(objs) + 1}) = Append(InOrder(objs, at), o)
        /\ InOrder(objs, at) \in Seq(Known)
    BY <1>1, <2>2, InOrderAppended, InOrderType
  <2>4. CASE o.kind = kind
    <3>1. OfKind(objs', kind) = at \cup {Len(objs) + 1}
      BY <1>1, <2>1, <2>4, OfKindAppended
    <3>2. events'[kind] = Append(events[kind], o.what)
      <4>1. Len(events[kind]) < MaxEvents
        <5>1. Len(events[kind]) \in Nat /\ Len(events[kind]) <= Len(objs)
          BY LenProperties DEF Inv, ParseTypeOK, TablesTypeOK, TableInv
        <5> QED
          BY <1>1, <5>1, RoomForOne, EventsAssumption
      <4>2. events' = [events EXCEPT ![kind] = Append(@, o.what)]
        BY <2>4, <4>1
        DEF Read, ReadEvent, ReadReading, ReadId, ReadFirmware, ReadOther, EventKinds
      <4> QED
        BY <4>2 DEF Inv, ParseTypeOK, TablesTypeOK
    <3>3. Whole(OfKind(objs', kind))
      BY <1>1, <2>2, <3>1, WholeAdded
    <3> QED
      BY <2>2, <2>3, <3>1, <3>2, <3>3, WhatsAppended
  <2>5. CASE o.kind # kind
    <3>1. OfKind(objs', kind) = at
      BY <1>1, <2>1, <2>5, OfKindAppended
    <3>2. events'[kind] = events[kind]
      BY <2>5
      DEF Read, ReadEvent, ReadReading, ReadId, ReadFirmware, ReadOther, Inv, ParseTypeOK,
          TablesTypeOK
    <3> QED
      BY <2>2, <2>3, <3>1, <3>2
  <2> QED
    BY <2>4, <2>5
<1>3. HasLast' /\ LastId' = IF o.kind = "id" THEN o.id ELSE LastId
  BY <1>1, LastIdAppended DEF KeptInv
<1>4. packetId' = IF o.kind = "id" THEN o.id ELSE packetId
  BY DEF Read, ReadId, ReadEvent, ReadReading, ReadFirmware, ReadOther, EventKinds
<1> QED
  BY <1>2, <1>3, <1>4 DEF KeptInv

(* No payload has a packet id before its first object. *)
LEMMA EmptyLast == objs = <<>> => HasLast /\ LastId = NoId
<1> SUFFICES ASSUME objs = <<>> PROVE HasLast /\ LastId = NoId
  OBVIOUS
<1>1. OfKind(objs, "id") = {}
  BY EmptyKept
<1> QED
  BY <1>1 DEF HasLast, LastId, OfKind

LEMMA KeptInit == ParseInit => KeptInv
  BY EmptyKept, EmptyLast, EmptyTables DEF ParseInit, KeptInv

LEMMA KeptNext == Inv /\ KeptInv /\ [ParseNext]_parseVars => KeptInv'
<1> SUFFICES ASSUME Inv, KeptInv, [ParseNext]_parseVars PROVE KeptInv'
  OBVIOUS
<1>1. CASE Begin
  <2>1. objs' = <<>> /\ events' = NoEvents /\ packetId' = NoId
    BY <1>1 DEF Begin
  <2>2. (HasLast /\ LastId = NoId)'
    <3>1. OfKind(objs', "id") = {}
      BY <2>1, EmptyKept
    <3> QED
      BY <3>1 DEF HasLast, LastId, OfKind
  <2> QED
    BY <2>1, <2>2, EmptyKept, EmptyTables DEF KeptInv
<1>2. CASE End \/ Finish \/ UNCHANGED parseVars
  <2>1. objs' = objs /\ events' = events /\ packetId' = packetId
    BY <1>2 DEF End, Finish, parseVars, reading
  <2> QED
    BY <2>1 DEF KeptInv, HasLast, LastId
<1>3. ASSUME NEW o \in Known, Read(o) PROVE KeptInv'
  BY <1>3, KeptRead
<1> QED
  BY <1>1, <1>2, <1>3 DEF ParseNext

LEMMA KeptIsMeant == Inv /\ KeptInv => EventsAsMeant
<1> SUFFICES ASSUME Inv, KeptInv PROVE EventsAsMeant
  OBVIOUS
<1>1. objs \in Seq(Known) /\ Len(objs) \in Nat
  BY Appended, LenProperties DEF Inv, ParseTypeOK
<1>2. \A kind : Objects(Payload, kind) = InOrder(objs, OfKind(objs, kind))
  BY DEF Objects, Payload, OfKind
<1>3. ASSUME NEW kind
      PROVE  /\ OfKind(objs, kind) \in SUBSET (1..Len(objs))
             /\ Objects(Payload, kind) = <<>> <=> OfKind(objs, kind) = {}
             /\ DOMAIN Objects(Payload, kind) = 1..Len(Objects(Payload, kind))
             /\ Len(Objects(Payload, kind)) \in Nat
  <2>1. OfKind(objs, kind) \in SUBSET (1..Len(objs))
    BY <1>1, LenProperties DEF OfKind
  <2>2. PICK at : at = OfKind(objs, kind)
    OBVIOUS
  <2>3. PICK os : os = InOrder(objs, at)
    OBVIOUS
  <2>4. os = <<>> <=> at = {}
    BY <1>1, <2>1, <2>2, <2>3, InOrderLength
  <2>5. DOMAIN os = 1..Len(os) /\ Len(os) \in Nat
    BY <1>1, <2>1, <2>2, <2>3, InOrderLength
  <2> QED
    BY <1>2, <2>1, <2>2, <2>3, <2>4, <2>5
<1>4. \A kind \in EventKinds : events[kind] = Whats(Objects(Payload, kind))
  BY <1>2 DEF KeptInv
<1>5. packetId = PacketId(Payload)
  <2>1. Objects(Payload, "id") = <<>> => LastId = NoId
    BY <1>3 DEF LastId, OfKind
  <2> QED
    BY <2>1 DEF PacketId, KeptInv, Payload
<1>6. ASSUME NEW kind \in EventKinds
      PROVE  Len(Objects(Payload, kind)) <= MaxEvents
  <2>1. DOMAIN Whats(Objects(Payload, kind)) = 1..Len(Objects(Payload, kind))
    BY <1>3 DEF Whats
  <2>2. Len(events[kind]) = Len(Objects(Payload, kind))
    BY <1>3, <1>4, <2>1
  <2> QED
    BY <2>2 DEF Inv, ParseTypeOK, TablesTypeOK
<1>7. Sound <=> Readable(Payload)
  BY <1>6 DEF Sound, Readable, Payload, Inv, TableInv
<1> QED
  BY <1>4, <1>5, <1>7 DEF EventsAsMeant

(* Every event of a payload is kept, in its order; the packet id found is that
   of the last object that has one; and nothing but a fault in a payload has it
   discarded. *)
THEOREM EventsCorrect == ParseSpec => []EventsAsMeant
  BY InvInit, InvNext, KeptInit, KeptNext, KeptIsMeant, PTL DEF ParseSpec
-----------------------------------------------------------------------------
(* What is reported *)

\* What the device remembers is what has happened.
NewsInv == shown = reported /\ soundId = lastId

LEMMA NewsFinish ==
  ASSUME NewsInv, EventsAsMeant, NothingLeftOut, Finish
  PROVE  NewsInv' /\ named' = IF IsNews THEN Unwanted \ shown ELSE {}
<1>1. Sound <=> Readable(Payload)
  BY DEF EventsAsMeant
<1>2. PacketId(Payload) = packetId /\ Entries(unclaimed) = Unwanted
  BY DEF EventsAsMeant, NothingLeftOut
<1>3. IsNews <=> Sound /\ ~IsRepeat
  BY <1>1, <1>2 DEF IsNews, IsRepeat, NewsInv
<1>4. /\ shown' = shown \cup named'
      /\ soundId' = IF Sound /\ packetId # NoId THEN packetId ELSE soundId
  BY <1>1, <1>2 DEF Finish, Note
<1>5. CASE ~Sound
  <2>1. named' = {} /\ reported' = reported /\ lastId' = lastId
    BY <1>5 DEF Finish, persistent
  <2> QED
    BY <1>3, <1>4, <1>5, <2>1 DEF NewsInv
<1>6. CASE Sound
  <2>1. lastId' = IF packetId # NoId THEN packetId ELSE lastId
    BY <1>6 DEF Finish, Remembered
  <2>2. IF IsRepeat THEN named' = {} /\ reported' = reported
        ELSE named' = Unwanted \ reported /\ reported' = reported \cup Unwanted
    BY <1>2, <1>6 DEF Finish, ReportUnclaimed
  <2> QED
    BY <1>3, <1>4, <1>6, <2>1, <2>2 DEF NewsInv
<1> QED
  BY <1>5, <1>6

LEMMA NewsStep ==
  ASSUME NewsInv, EventsAsMeant, NothingLeftOut, [ParseNext]_parseVars
  PROVE  /\ NewsInv'
         /\ pc = "ended" /\ pc' = "idle" =>
              named' = IF IsNews THEN Unwanted \ shown ELSE {}
<1>1. CASE Finish
  BY <1>1, NewsFinish
<1>2. CASE Begin \/ End \/ \E o \in Known : Read(o)
  <2>1. UNCHANGED <<shown, soundId, reported, lastId>>
    BY <1>2 DEF Begin, End, Read, notices, persistent
  <2>2. ~(pc = "ended" /\ pc' = "idle")
    BY <1>2 DEF Begin, End, Read
  <2> QED
    BY <2>1, <2>2 DEF NewsInv
<1>3. CASE UNCHANGED parseVars
  BY <1>3 DEF parseVars, notices, persistent, NewsInv
<1> QED
  BY <1>1, <1>2, <1>3 DEF ParseNext

(* Whatever payloads come in, discarded, repeated or new: an object nobody asked
   for is reported with the first payload that has it and is acted on, and never
   again. *)
THEOREM NamedOnlyOnce == ParseSpec => NamedOnce
<1>1. ParseInit => NewsInv
  BY DEF ParseInit, NewsInv
<1>2. NewsInv /\ EventsAsMeant /\ NothingLeftOut /\ [ParseNext]_parseVars
        => /\ NewsInv'
           /\ [pc = "ended" /\ pc' = "idle"
                 => named' = IF IsNews THEN Unwanted \ shown ELSE {}]_parseVars
  BY NewsStep
<1> QED
  BY <1>1, <1>2, EventsCorrect, NothingIsLeftOut, PTL DEF ParseSpec, NamedOnce
=============================================================================
