--------------------------- MODULE BTHomeHubProofs ---------------------------
(***************************************************************************)
(* Proofs about BTHomeHub for every set of devices, every timeout and      *)
(* every clock: what is shown of a device's presence is right, although    *)
(* millis() wraps and a sweep only compares 32-bit differences; a frame    *)
(* concerns one device, a replay none; and what is shown was received.     *)
(***************************************************************************)
EXTENDS BTHomeHub, BTHomePayloadProofs, TLAPS

-----------------------------------------------------------------------------
(* The clock *)

Ticks == 0..ClockMod - 1

(* One tick on, every difference is one larger, until it wraps itself. *)
LEMMA ElapsedTick ==
  ASSUME NEW n \in Ticks, NEW t \in Ticks, (n - t) % ClockMod < ClockMod - 1
  PROVE  /\ (n + 1) % ClockMod \in Ticks
         /\ (((n + 1) % ClockMod) - t) % ClockMod = ((n - t) % ClockMod) + 1
  BY DeviceAssumption DEF Ticks

(* Nothing has passed since now, and a difference is never negative. *)
LEMMA ElapsedRange ==
  ASSUME NEW n \in Ticks, NEW t \in Ticks
  PROVE  (n - n) % ClockMod = 0 /\ (n - t) % ClockMod \in Ticks
  BY DeviceAssumption DEF Ticks

(* The bounds the sweep is late by. *)
LEMMA AgeMaxBounds ==
  ASSUME NEW d \in Devices
  PROVE  /\ TimeoutOf[d] \in Nat /\ AgeMax(d) \in Nat /\ AgeMax(d) < ClockMod
         /\ TimeoutOf[d] > 0 => AgeMax(d) = TimeoutOf[d] + SweepPeriod + LoopLag + 2
         /\ SweepPeriod \in Nat /\ LoopLag \in Nat
         /\ ClockMod \in Nat /\ ClockMod > SweepPeriod + LoopLag + 1
  BY DeviceAssumption DEF AgeMax
-----------------------------------------------------------------------------
(* Types *)

\* EXCEPT leaves the devices it does not name alone.
Shapes == DOMAIN pending = Devices /\ DOMAIN published = Devices /\ DOMAIN age = Devices

Typed == HubTypeOK /\ Shapes

(* What a payload leaves in the slots has the type of the slots. *)
LEMMA ParsedType ==
  ASSUME NEW f, IsFrame(f), NEW d \in Devices
  PROVE  Parsed(SlotsOf[d], f.objs) \in [SlotsOf[d] -> Values \cup {NoValue}]
<1> DEFINE P == Parsed(SlotsOf[d], f.objs)
<1>1. P = [s \in SlotsOf[d] |-> P[s]]
  BY DEF Parsed
<1>2. ASSUME NEW s \in SlotsOf[d]
      PROVE  P[s] \in Values \cup {NoValue}
  <2> DEFINE hits == {k \in DOMAIN f.objs : Matches(f.objs, k, s)}
             k == CHOOSE j \in hits : TRUE
  <2>1. P[s] = IF hits = {} THEN NoValue ELSE f.objs[k].value
    BY DEF Parsed
  <2>2. hits # {} => k \in hits
    OBVIOUS
  <2>3. \A j \in hits : f.objs[j].value \in Values
    BY DEF Matches, IsFrame
  <2> HIDE DEF P, k, hits
  <2> QED
    BY <2>1, <2>2, <2>3
<1>3. \A s \in SlotsOf[d] : P[s] \in Values \cup {NoValue}
  BY <1>2
<1> QED
  BY <1>1, <1>3

LEMMA TypedInit == HubInit => Typed
  BY DeviceAssumption, AgeMaxBounds
  DEF HubInit, DeviceInit, CryptInit, Typed, HubTypeOK, DeviceTypeOK, CryptTypeOK, Shapes,
      Blank, NoId, NoCounter, Nothing

(* Refusing a payload changes a warning at most. *)
LEMMA RefuseType ==
  ASSUME CryptTypeOK, NEW d \in Devices, NEW f, Refuse(d, f)
  PROVE  CryptTypeOK'
<1>1. PICK r \in Refusals(d, f) : Report(d, r)
  BY DEF Refuse
<1>2. r.status \in Failures
  BY DEF Refusals, Failures
<1>3. warned' \in [Devices -> Failures \cup {Nothing}] /\ said' \in Failures \cup {Nothing}
  BY <1>1, <1>2 DEF Report, Warn, CryptTypeOK
<1> QED
  BY <1>3 DEF Refuse, CryptTypeOK

LEMMA AcceptType ==
  ASSUME CryptTypeOK, NEW d \in Devices, NEW f, IsFrame(f), Accept(d, f)
  PROVE  CryptTypeOK'
  BY DEF Accept, CryptTypeOK, IsFrame

LEMMA OpenType ==
  ASSUME CryptTypeOK, NEW d \in Devices, NEW f, IsFrame(f), Open(d, f)
  PROVE  CryptTypeOK'
<1>1. CASE UNCHANGED cryptVars
  BY <1>1 DEF CryptTypeOK, cryptVars
<1>2. CASE Accept(d, f)
  BY <1>2, AcceptType
<1> QED
  BY <1>1, <1>2 DEF Open

LEMMA TakeType ==
  ASSUME Typed, NEW d \in Devices, NEW f, IsFrame(f), Take(d, f)
  PROVE  DeviceTypeOK' /\ Shapes'
<1> USE DEF Typed, HubTypeOK, DeviceTypeOK, Shapes
<1>1. CryptTypeOK'
  BY OpenType DEF Take
<1>2. /\ now' \in 0..ClockMod - 1
      /\ lastContact' \in [Devices -> 0..ClockMod - 1]
      /\ everSeen' \in [Devices -> BOOLEAN]
      /\ connected' \in [Devices -> {"unknown", "on", "off"}]
  BY DEF Take, Contact
<1>3. DOMAIN age' = Devices /\ \A e \in Devices : age'[e] \in 0..AgeMax(e)
  BY AgeMaxBounds DEF Take, Contact
<1>4. /\ DOMAIN pending' = Devices
      /\ \A e \in Devices : pending'[e] \in [SlotsOf[e] -> Values \cup {NoValue}]
  BY ParsedType DEF Take, Park
<1>5. /\ DOMAIN published' = Devices
      /\ \A e \in Devices : published'[e] \in [SlotsOf[e] -> Values \cup {NoValue}]
  <2>1. CASE published' = published
    BY <2>1
  <2>2. CASE Publish(d)
    BY <2>2, <1>4 DEF Publish
  <2> QED
    BY <2>1, <2>2 DEF Take, Discard, Suppress, Commit
<1>6. lastId' \in [Devices -> (0..IdMod - 1) \cup {NoId}]
  <2>1. PacketId(f) \in (0..IdMod - 1) \cup {NoId}
    BY DEF IsFrame
  <2> QED
    BY <2>1 DEF Take, Discard, Suppress, Commit, Remember
<1> QED
  BY <1>1, <1>2, <1>3, <1>4, <1>5, <1>6

LEMMA TypedOnFrame ==
  ASSUME Typed, NEW d \in Devices, NEW f, IsFrame(f), OnFrame(d, f)
  PROVE  Typed'
<1> USE DEF Typed, HubTypeOK
<1>1. CASE Take(d, f)
  BY <1>1, TakeType DEF OnFrame
<1>2. CASE Reject(d, f)
  <2>1. Refuse(d, f) \/ Accept(d, f) => CryptTypeOK'
    BY RefuseType, AcceptType DEF DeviceTypeOK
  <2>2. UNCHANGED cryptVars => CryptTypeOK'
    BY DEF CryptTypeOK, cryptVars, DeviceTypeOK
  <2>3. CryptTypeOK'
    BY <1>2, <2>1, <2>2 DEF Reject
  <2> QED
    BY <1>2, <2>3 DEF OnFrame, Reject, DeviceTypeOK, Shapes, contactVars, content
<1> QED
  BY <1>1, <1>2 DEF OnFrame, Handle

LEMMA TypedNext == Typed /\ [HubNext]_hubVars => Typed'
<1> SUFFICES ASSUME Typed, [HubNext]_hubVars PROVE Typed'
  OBVIOUS
<1> USE DEF Typed, HubTypeOK
<1>1. CASE Sweep
  BY <1>1
  DEF Sweep, AgeOut, DeviceTypeOK, CryptTypeOK, Shapes, NoId, Nothing
<1>2. CASE Tick
  <2>1. now' \in 0..ClockMod - 1
    BY <1>2, DeviceAssumption DEF Tick, DeviceTypeOK
  <2>2. DOMAIN age' = Devices /\ \A d \in Devices : age'[d] \in 0..AgeMax(d)
    BY <1>2, AgeMaxBounds DEF Tick, Older, DeviceTypeOK
  <2> QED
    BY <1>2, <2>1, <2>2
    DEF Tick, DeviceTypeOK, CryptTypeOK, Shapes, content, Nothing
<1>3. ASSUME NEW f \in Frames, Ignore(f) PROVE Typed'
  BY <1>3
  DEF Ignore, DeviceTypeOK, CryptTypeOK, Shapes, contactVars, content, Nothing
<1>4. ASSUME NEW f \in Frames, NEW d \in Devices, OnFrame(d, f) PROVE Typed'
  BY <1>4, TypedOnFrame, HubAssumption
<1>5. CASE UNCHANGED hubVars
  BY <1>5
  DEF hubVars, deviceVars, cryptVars, contactVars, content, DeviceTypeOK, CryptTypeOK, Shapes
<1> QED
  BY <1>1, <1>2, <1>3, <1>4, <1>5 DEF HubNext

(* Every variable of a hub keeps its type, however many devices it has. *)
THEOREM HubTypeCorrect == HubSpec => []HubTypeOK
<1>1. Typed => HubTypeOK
  BY DEF Typed
<1> QED
  BY <1>1, TypedInit, TypedNext, PTL DEF HubSpec
-----------------------------------------------------------------------------
(* What the differences of millis() say about silence *)

\* A sweep is never later than the loop lets it be.
SweepInv == Elapsed(lastSweep) <= SweepPeriod + LoopLag + 1

\* Silence is measured right, until it has been noticed.
AgeInv(d) == age[d] < AgeMax(d) => Elapsed(Reference(d)) = age[d]

\* What is not shown as silence began after the last sweep but the timeout.
ShownInv(d) ==
  TimeoutOf[d] > 0 /\ connected[d] # "off" => age[d] <= TimeoutOf[d] + Elapsed(lastSweep)

\* What is shown as silence is; and the packet id is forgotten with it.
OffInv(d) ==
  connected[d] = "off" => TimeoutOf[d] > 0 /\ age[d] > TimeoutOf[d] /\ lastId[d] = NoId

SilenceInv(d) == AgeInv(d) /\ ShownInv(d) /\ OffInv(d)

Inv == Typed /\ SweepInv /\ \A d \in Devices : SilenceInv(d)

\* The part of the state the invariant is about.
clocks == <<now, lastSweep, lastContact, everSeen, connected, age, lastId>>

LEMMA TypedClocks ==
  ASSUME Typed, NEW d \in Devices
  PROVE  /\ now \in Ticks /\ lastSweep \in Ticks /\ Reference(d) \in Ticks
         /\ age[d] \in 0..AgeMax(d) /\ DOMAIN age = Devices
         /\ Elapsed(lastSweep) \in Ticks /\ Elapsed(Reference(d)) \in Ticks
<1>1. /\ now \in Ticks /\ lastSweep \in Ticks /\ Reference(d) \in Ticks
      /\ age[d] \in 0..AgeMax(d) /\ DOMAIN age = Devices
  BY DeviceAssumption DEF Typed, HubTypeOK, DeviceTypeOK, Shapes, Reference, Ticks
<1> QED
  BY <1>1, ElapsedRange DEF Elapsed

(* A device silent long enough for the abstract sensor is found so by its
   check, unless it has been already. *)
LEMMA OverdueIsTimedOut ==
  ASSUME Inv, NEW d \in Devices
  PROVE  /\ TimedOut(d) => TimeoutOf[d] > 0 /\ age[d] > TimeoutOf[d]
         /\ TimeoutOf[d] > 0 /\ age[d] > TimeoutOf[d] => TimedOut(d) \/ connected[d] = "off"
<1>1. /\ age[d] \in Nat /\ age[d] <= AgeMax(d) /\ Elapsed(Reference(d)) \in Nat
      /\ Elapsed(lastSweep) \in Nat
  BY TypedClocks, AgeMaxBounds DEF Inv, Ticks
<1>2. SweepInv /\ AgeInv(d) /\ ShownInv(d)
  BY DEF Inv, SilenceInv
<1>3. CASE age[d] < AgeMax(d)
  BY <1>1, <1>2, <1>3, AgeMaxBounds DEF AgeInv, TimedOut
<1>4. CASE age[d] = AgeMax(d)
  BY <1>1, <1>2, <1>4, AgeMaxBounds DEF SweepInv, ShownInv, TimedOut
<1> QED
  BY <1>1, <1>3, <1>4, AgeMaxBounds

LEMMA InvInit == HubInit => Inv
<1> SUFFICES ASSUME HubInit PROVE Inv
  OBVIOUS
<1>1. Typed
  BY TypedInit
<1>2. now = 0 /\ lastSweep = 0 /\ Elapsed(0) = 0
  BY ElapsedRange, DeviceAssumption DEF HubInit, DeviceInit, Elapsed, Ticks
<1>3. SweepInv
  BY <1>2, DeviceAssumption DEF SweepInv
<1>4. ASSUME NEW d \in Devices PROVE SilenceInv(d)
  BY <1>2, AgeMaxBounds
  DEF HubInit, DeviceInit, SilenceInv, AgeInv, ShownInv, OffInv, Reference
<1> QED
  BY <1>1, <1>3, <1>4 DEF Inv

LEMMA InvTick == Inv /\ Tick /\ Typed' => SweepInv' /\ \A d \in Devices : SilenceInv(d)'
<1> SUFFICES ASSUME Inv, Tick, Typed'
             PROVE  SweepInv' /\ \A d \in Devices : SilenceInv(d)'
  OBVIOUS
<1>1. /\ SweepPeriod \in Nat /\ LoopLag \in Nat /\ ClockMod \in Nat
      /\ ClockMod > SweepPeriod + LoopLag + 1
  BY DeviceAssumption
<1>2. now \in Ticks /\ lastSweep \in Ticks /\ Elapsed(lastSweep) \in Ticks
  BY DeviceAssumption, ElapsedRange
  DEF Inv, Typed, HubTypeOK, DeviceTypeOK, Ticks, Elapsed
<1>3. Elapsed(lastSweep)' = Elapsed(lastSweep) + 1
  <2>1. (now - lastSweep) % ClockMod < ClockMod - 1
    BY <1>1, <1>2 DEF Tick, Elapsed, Ticks
  <2> QED
    BY <1>2, <2>1, ElapsedTick DEF Tick, Elapsed
<1>4. SweepInv'
  BY <1>1, <1>2, <1>3 DEF Tick, SweepInv, Ticks
<1>5. ASSUME NEW d \in Devices PROVE SilenceInv(d)'
  <2>1. /\ AgeMax(d) \in Nat /\ AgeMax(d) < ClockMod /\ Reference(d) \in Ticks
        /\ age[d] \in 0..AgeMax(d) /\ TimeoutOf[d] \in Nat
    BY TypedClocks, AgeMaxBounds DEF Inv
  <2>2. age'[d] = (IF age[d] < AgeMax(d) THEN age[d] + 1 ELSE age[d])
    BY DEF Tick, Older
  <2>3. Reference(d)' = Reference(d) /\ connected'[d] = connected[d] /\ lastId'[d] = lastId[d]
    BY DEF Tick, Reference, content
  <2>4. AgeInv(d) /\ ShownInv(d) /\ OffInv(d)
    BY DEF Inv, SilenceInv
  <2>5. AgeInv(d)'
    <3> SUFFICES ASSUME age'[d] < AgeMax(d) PROVE Elapsed(Reference(d))' = age'[d]
      BY DEF AgeInv
    <3>1. age[d] + 1 < ClockMod /\ age'[d] = age[d] + 1 /\ Elapsed(Reference(d)) = age[d]
      BY <2>1, <2>2, <2>4, <1>1 DEF AgeInv
    <3> QED
      BY <1>2, <2>1, <2>3, <3>1, <1>1, ElapsedTick DEF Tick, Elapsed
  <2>6. ShownInv(d)'
    BY <1>2, <1>3, <2>1, <2>2, <2>3, <2>4 DEF ShownInv, Ticks
  <2>7. OffInv(d)'
    BY <2>1, <2>2, <2>3, <2>4 DEF OffInv
  <2> QED
    BY <2>5, <2>6, <2>7 DEF SilenceInv
<1> QED
  BY <1>4, <1>5

LEMMA InvSweep == Inv /\ Sweep => SweepInv' /\ \A d \in Devices : SilenceInv(d)'
<1> SUFFICES ASSUME Inv, Sweep
             PROVE  SweepInv' /\ \A d \in Devices : SilenceInv(d)'
  OBVIOUS
<1>1. Elapsed(lastSweep)' = 0
  BY ElapsedRange DEF Inv, Typed, HubTypeOK, DeviceTypeOK, Ticks, Sweep, Elapsed
<1>2. SweepInv'
  BY <1>1, DeviceAssumption DEF SweepInv
<1>3. ASSUME NEW d \in Devices PROVE SilenceInv(d)'
  <2>1. AgeInv(d) /\ ShownInv(d) /\ OffInv(d) /\ TimeoutOf[d] \in Nat /\ age[d] \in Nat
    BY AgeMaxBounds, TypedClocks DEF Inv, SilenceInv
  <2>2. /\ age'[d] = age[d] /\ Elapsed(Reference(d))' = Elapsed(Reference(d))
        /\ connected'[d] = (IF TimedOut(d) THEN "off" ELSE connected[d])
        /\ lastId'[d] = (IF TimedOut(d) THEN NoId ELSE lastId[d])
    BY DEF Sweep, AgeOut, Elapsed, Reference
  <2>3. AgeInv(d)' /\ OffInv(d)'
    BY <2>1, <2>2, OverdueIsTimedOut DEF AgeInv, OffInv
  <2>4. ShownInv(d)'
    BY <1>1, <2>1, <2>2, OverdueIsTimedOut DEF ShownInv
  <2> QED
    BY <2>3, <2>4 DEF SilenceInv
<1> QED
  BY <1>2, <1>3

LEMMA InvTake ==
  ASSUME Inv, NEW e \in Devices, NEW f, Take(e, f), UNCHANGED lastSweep
  PROVE  SweepInv' /\ \A d \in Devices : SilenceInv(d)'
<1>1. now' = now /\ lastSweep' = lastSweep
  BY DEF Take
<1>2. Elapsed(lastSweep)' = Elapsed(lastSweep) /\ SweepInv
  BY <1>1 DEF Elapsed, Inv
<1>3. SweepInv'
  BY <1>2 DEF SweepInv
<1>4. ASSUME NEW d \in Devices PROVE SilenceInv(d)'
  <2>1. /\ Typed /\ SilenceInv(d) /\ Elapsed(lastSweep) \in Nat
        /\ TimeoutOf[d] \in Nat /\ now \in Ticks
    BY TypedClocks, AgeMaxBounds DEF Inv, Ticks
  <2>2. CASE d = e
    <3>1. Reference(d)' = now /\ age'[d] = 0 /\ connected'[d] = "on"
      BY <2>1, <2>2 DEF Take, Contact, Reference, Typed, HubTypeOK, DeviceTypeOK, Shapes
    <3>2. Elapsed(Reference(d))' = 0
      BY <1>1, <2>1, <3>1, ElapsedRange DEF Elapsed
    <3> QED
      BY <1>2, <2>1, <3>1, <3>2 DEF SilenceInv, AgeInv, ShownInv, OffInv
  <2>3. CASE d # e
    <3>1. /\ Reference(d)' = Reference(d) /\ age'[d] = age[d]
          /\ connected'[d] = connected[d] /\ lastId'[d] = lastId[d]
      BY <2>1, <2>3
      DEF Take, Contact, Reference, Discard, Suppress, Commit, Remember,
          Typed, HubTypeOK, DeviceTypeOK, Shapes
    <3> QED
      BY <1>1, <1>2, <2>1, <3>1 DEF SilenceInv, AgeInv, ShownInv, OffInv, Elapsed
  <2> QED
    BY <2>2, <2>3
<1> QED
  BY <1>3, <1>4

(* A frame that is ignored or refused leaves all clocks alone. *)
LEMMA InvIdle == Inv /\ UNCHANGED clocks => SweepInv' /\ \A d \in Devices : SilenceInv(d)'
  BY DEF clocks, Inv, SweepInv, SilenceInv, AgeInv, ShownInv, OffInv, Elapsed, Reference

LEMMA InvOnFrame ==
  ASSUME Inv, NEW d \in Devices, NEW f, IsFrame(f), OnFrame(d, f)
  PROVE  Inv'
<1>1. Typed'
  BY TypedOnFrame DEF Inv
<1>2. CASE Take(d, f)
  BY <1>1, <1>2, InvTake DEF Inv, OnFrame
<1>3. CASE Reject(d, f)
  <2>1. UNCHANGED clocks
    BY <1>3 DEF OnFrame, Reject, clocks, contactVars, content
  <2> QED
    BY <1>1, <2>1, InvIdle DEF Inv
<1> QED
  BY <1>2, <1>3 DEF OnFrame, Handle

LEMMA InvNext == Inv /\ [HubNext]_hubVars => Inv'
<1> SUFFICES ASSUME Inv, [HubNext]_hubVars PROVE Inv'
  OBVIOUS
<1>1. Typed'
  BY TypedNext DEF Inv
<1>2. CASE Sweep
  BY <1>1, <1>2, InvSweep DEF Inv
<1>3. CASE Tick
  BY <1>1, <1>3, InvTick DEF Inv
<1>4. ASSUME NEW f \in Frames, NEW d \in Devices, OnFrame(d, f) PROVE Inv'
  BY <1>4, InvOnFrame, HubAssumption
<1>5. CASE UNCHANGED clocks
  BY <1>1, <1>5, InvIdle DEF Inv
<1>6. ASSUME NEW f \in Frames, Ignore(f) PROVE UNCHANGED clocks
  BY <1>6 DEF Ignore, clocks, contactVars, content
<1>7. UNCHANGED hubVars => UNCHANGED clocks
  BY DEF hubVars, deviceVars, contactVars, content, clocks
<1> QED
  BY <1>2, <1>3, <1>4, <1>5, <1>6, <1>7 DEF HubNext

LEMMA InvAgesOut == Inv => IdAgesOut
<1> SUFFICES ASSUME Inv, NEW d \in Devices, TimeoutOf[d] > 0, age[d] = AgeMax(d)
             PROVE  lastId[d] = NoId
  BY DEF IdAgesOut
<1>1. SweepInv /\ ShownInv(d) /\ OffInv(d) /\ Elapsed(lastSweep) \in Nat
  BY TypedClocks, AgeMaxBounds DEF Inv, SilenceInv, Ticks
<1> QED
  BY <1>1, AgeMaxBounds DEF SweepInv, ShownInv, OffInv

(* A sender back after the silence that ended its connection is not mistaken
   for its own repeats, whatever the timeout and wherever millis() wraps. *)
THEOREM IdsAgeOut == HubSpec => []IdAgesOut
  BY InvInit, InvNext, InvAgesOut, PTL DEF HubSpec
-----------------------------------------------------------------------------
(* The refinement *)

LEMMA PassStep == Inv /\ Tick => Presence!Pass
<1> SUFFICES ASSUME Inv, Tick PROVE Presence!Pass
  OBVIOUS
<1> DEFINE Limit == [d \in Devices |-> AgeMax(d)]
<1>1. ASSUME NEW d \in Devices, TimeoutOf[d] > 0, age[d] + 1 >= Limit[d]
      PROVE  connected[d] = "off"
  <2>1. /\ ShownInv(d) /\ Elapsed(lastSweep) \in Nat /\ age[d] \in Nat
        /\ Limit[d] = TimeoutOf[d] + SweepPeriod + LoopLag + 2
    BY <1>1, TypedClocks, AgeMaxBounds DEF Inv, SilenceInv, Ticks
  <2> QED
    BY <1>1, <2>1, AgeMaxBounds DEF Tick, ShownInv
<1>2. age' = [d \in Devices |-> IF age[d] < Limit[d] THEN age[d] + 1 ELSE age[d]]
  BY DEF Tick, Older
<1>3. connected' = connected
  BY DEF Tick
<1> QED
  BY <1>1, <1>2, <1>3 DEF Presence!Pass

LEMMA NoticeStep == Inv /\ Sweep => Presence!Notice
<1> SUFFICES ASSUME Inv, Sweep PROVE Presence!Notice
  OBVIOUS
<1>1. ASSUME NEW d \in Devices
      PROVE  (IF TimedOut(d) THEN "off" ELSE connected[d])
               = (IF Presence!Overdue(d) THEN "off" ELSE connected[d])
  BY OverdueIsTimedOut DEF Presence!Overdue
<1>2. age' = age
  BY DEF Sweep
<1> QED
  BY <1>1, <1>2 DEF Sweep, AgeOut, Presence!Notice

(* For every set of devices and timeouts, any clock and any delay of the loop:
   a device heard is shown as connected, one that fell silent is shown so
   within its limit and never sooner than its timeout. *)
THEOREM ImplementsSafePresence == HubSpec => Presence!SafeSpec
<1>1. HubInit => Presence!Init
  BY DEF HubInit, DeviceInit, Presence!Init
<1>2. Inv /\ [HubNext]_hubVars => [Presence!Next]_(Presence!vars)
  <2> SUFFICES ASSUME Inv, [HubNext]_hubVars PROVE [Presence!Next]_(Presence!vars)
    OBVIOUS
  <2>1. CASE Tick
    BY <2>1, PassStep DEF Presence!Next
  <2>2. CASE Sweep
    BY <2>2, NoticeStep DEF Presence!Next
  <2>3. ASSUME NEW f \in Frames, Ignore(f) PROVE UNCHANGED Presence!vars
    BY <2>3 DEF Ignore, contactVars, Presence!vars
  <2>4. ASSUME NEW f \in Frames, NEW d \in Devices, OnFrame(d, f), Take(d, f)
        PROVE  Presence!Next
    BY <2>4 DEF Take, Contact, Presence!Next, Presence!Heard
  <2>5. ASSUME NEW f \in Frames, NEW d \in Devices, OnFrame(d, f), Reject(d, f)
        PROVE  UNCHANGED Presence!vars
    BY <2>5 DEF Reject, contactVars, Presence!vars
  <2>6. UNCHANGED hubVars => UNCHANGED Presence!vars
    BY DEF hubVars, deviceVars, contactVars, Presence!vars
  <2> QED
    BY <2>1, <2>2, <2>3, <2>4, <2>5, <2>6 DEF HubNext, OnFrame, Handle
<1> QED
  BY <1>1, <1>2, InvInit, InvNext, PTL DEF HubSpec, Presence!SafeSpec
-----------------------------------------------------------------------------
(* Devices keep apart *)

\* What one device takes in is nothing to another.
LEMMA TakeOwn ==
  ASSUME NEW d \in Devices, NEW f, Handle(d, f), NEW e \in Devices \ {d},
         Typed
  PROVE  memory(e)' = memory(e)
<1> USE DEF Typed, HubTypeOK, DeviceTypeOK, CryptTypeOK, Shapes
<1>1. lastCounter'[e] = lastCounter[e] /\ warned'[e] = warned[e]
  <2>1. CASE UNCHANGED cryptVars
    BY <2>1 DEF cryptVars
  <2>2. CASE Accept(d, f)
    BY <2>2 DEF Accept
  <2>3. CASE Refuse(d, f)
    BY <2>3 DEF Refuse, Report, Warn
  <2> QED
    BY <2>1, <2>2, <2>3 DEF Handle, Take, Reject, Open
<1>2. CASE Take(d, f)
  <2>1. lastContact'[e] = lastContact[e] /\ everSeen'[e] = everSeen[e]
    BY <1>2 DEF Take, Contact
  <2>2. pending'[e] = pending[e]
    BY <1>2 DEF Take, Park
  <2>3. published'[e] = published[e]
    BY <1>2 DEF Take, Discard, Suppress, Commit, Publish
  <2> QED
    BY <1>1, <2>1, <2>2, <2>3 DEF memory
<1>3. CASE Reject(d, f)
  BY <1>1, <1>3 DEF Reject, contactVars, content, memory
<1> QED
  BY <1>2, <1>3 DEF Handle

(* Of devices set up with the same sender id the first takes every frame, and
   no device ever learns from a frame that is not its own. *)
THEOREM DevicesKeepApart == HubSpec => OwnFramesOnly
<1>1. ASSUME Typed, HubNext, NEW d \in Devices, memory(d)' # memory(d)
      PROVE  /\ \E f \in Frames :
                   f.sender = SenderOf[d] /\ ~IsTooShort(f) /\ Handle(d, f)
             /\ \A e \in Devices \ {d} : memory(e)' = memory(e)
             /\ \A i, j \in DOMAIN Listed :
                  Listed[i] = d /\ j < i => SenderOf[Listed[j]] # SenderOf[d]
  <2>1. ~Sweep
    BY <1>1 DEF Sweep, memory
  <2>2. ~Tick
    BY <1>1 DEF Tick, memory, content
  <2>3. ASSUME NEW f \in Frames, Ignore(f) PROVE FALSE
    BY <1>1, <2>3 DEF Ignore, memory, contactVars, content
  <2>4. PICK f \in Frames, e \in Devices : OnFrame(e, f)
    BY <1>1, <2>1, <2>2, <2>3 DEF HubNext
  <2>5. e = d
    BY <1>1, <2>4, TakeOwn DEF OnFrame
  <2>6. f.sender = SenderOf[d] /\ ~IsTooShort(f) /\ Handle(d, f)
    BY <2>4, <2>5 DEF OnFrame, Addressee, MatchesSender
  <2>7. \A c \in Devices \ {d} : memory(c)' = memory(c)
    BY <1>1, <2>6, TakeOwn
  <2>8. ASSUME NEW i \in DOMAIN Listed, NEW j \in DOMAIN Listed, Listed[i] = d, j < i
        PROVE  SenderOf[Listed[j]] # SenderOf[d]
    <3>1. PICK k \in DOMAIN Listed :
            Listed[k] = d /\ \A l \in 1..k - 1 : ~MatchesSender(Listed[l], f)
      BY <2>4, <2>5 DEF OnFrame, Addressee
    <3>2. k = i
      BY <2>8, <3>1, HubAssumption
    <3>3. j \in 1..i - 1
      BY <2>8, HubAssumption
    <3> QED
      BY <2>6, <3>1, <3>2, <3>3 DEF MatchesSender
  <2> QED
    BY <2>6, <2>7, <2>8
<1>2. Typed /\ HubNext =>
        \A d \in Devices : memory(d)' # memory(d) =>
          /\ \E f \in Frames :
               f.sender = SenderOf[d] /\ ~IsTooShort(f) /\ Handle(d, f)
          /\ \A e \in Devices \ {d} : memory(e)' = memory(e)
          /\ \A i, j \in DOMAIN Listed :
               Listed[i] = d /\ j < i => SenderOf[Listed[j]] # SenderOf[d]
  BY <1>1
<1> QED
  BY <1>2, TypedInit, TypedNext, PTL DEF HubSpec, OwnFramesOnly
-----------------------------------------------------------------------------
(* Replays *)

\* A payload opened by the key of a device moved its counter up.
LEMMA CounterTaken ==
  ASSUME Typed, NEW e \in Devices, NEW f, IsFrame(f), Handle(e, f), NEW d \in Devices
  PROVE  /\ lastCounter'[d] >= lastCounter[d]
         /\ Encrypted[d] /\ (fired'[d] # <<>> \/ published'[d] # published[d])
              => lastCounter'[d] > lastCounter[d]
<1>1. lastCounter \in [Devices -> Nat \cup {-1}] /\ f.counter \in Nat
  BY DEF Typed, HubTypeOK, DeviceTypeOK, CryptTypeOK, NoCounter, IsFrame
<1>2. CASE Reject(e, f)
  <2>1. \/ lastCounter' = lastCounter
        \/ /\ f.counter > lastCounter[e]
           /\ lastCounter' = [lastCounter EXCEPT ![e] = f.counter]
    BY <1>2 DEF Reject, Refuse, Accept, Accepted, Fresh, cryptVars
  <2>2. lastCounter'[d] >= lastCounter[d]
    BY <1>1, <2>1
  <2>3. fired'[d] = <<>> /\ published' = published
    BY <1>2 DEF Reject, Quiet, content
  <2> QED
    BY <2>2, <2>3
<1>3. CASE Take(e, f)
  <2>1. CASE Encrypted[e]
    <3>1. /\ f.counter > lastCounter[e]
          /\ lastCounter' = [lastCounter EXCEPT ![e] = f.counter]
      BY <1>3, <2>1 DEF Take, Open, Accept, Accepted, Fresh
    <3>2. d # e => fired'[d] = <<>> /\ published'[d] = published[d]
      BY <1>3
      DEF Take, Discard, Suppress, Commit, Publish, Quiet, Typed, HubTypeOK,
          DeviceTypeOK, Shapes
    <3> QED
      BY <1>1, <3>1, <3>2
  <2>2. CASE ~Encrypted[e]
    <3>1. lastCounter' = lastCounter
      BY <1>3, <2>2 DEF Take, Open, cryptVars
    <3>2. d # e => fired'[d] = <<>> /\ published'[d] = published[d]
      BY <1>3
      DEF Take, Discard, Suppress, Commit, Publish, Quiet, Typed, HubTypeOK,
          DeviceTypeOK, Shapes
    <3> QED
      BY <1>1, <2>2, <3>1, <3>2
  <2> QED
    BY <2>1, <2>2
<1> QED
  BY <1>2, <1>3 DEF Handle

(* Whatever is recorded and sent again, in whatever order and after whatever
   silence: no device with a key ever acts on a counter it has passed. *)
THEOREM ReplaysAreInert == HubSpec => ReplaysNeverAct
<1>1. ASSUME Typed, HubNext, NEW d \in Devices
      PROVE  /\ lastCounter'[d] >= lastCounter[d]
             /\ Encrypted[d] /\ (fired'[d] # <<>> \/ published'[d] # published[d])
                  => lastCounter'[d] > lastCounter[d]
  <2>1. lastCounter[d] \in Int
    BY <1>1 DEF Typed, HubTypeOK, DeviceTypeOK, CryptTypeOK, NoCounter
  <2>2. CASE Sweep \/ Tick \/ \E f \in Frames : Ignore(f)
    <3>1. lastCounter' = lastCounter /\ published' = published /\ fired' = Quiet
      BY <2>2 DEF Sweep, Tick, Ignore, content
    <3> QED
      BY <2>1, <3>1 DEF Quiet
  <2>3. ASSUME NEW f \in Frames, NEW e \in Devices, OnFrame(e, f)
        PROVE  /\ lastCounter'[d] >= lastCounter[d]
               /\ Encrypted[d] /\ (fired'[d] # <<>> \/ published'[d] # published[d])
                    => lastCounter'[d] > lastCounter[d]
    BY <1>1, <2>3, CounterTaken, HubAssumption DEF OnFrame
  <2> QED
    BY <1>1, <2>2, <2>3 DEF HubNext
<1>2. Typed /\ HubNext =>
        \A d \in Devices :
          /\ lastCounter'[d] >= lastCounter[d]
          /\ Encrypted[d] /\ (fired'[d] # <<>> \/ published'[d] # published[d])
               => lastCounter'[d] > lastCounter[d]
  BY <1>1
<1> QED
  BY <1>2, TypedInit, TypedNext, PTL DEF HubSpec, ReplaysNeverAct
-----------------------------------------------------------------------------
(* What is shown *)

(* What a payload parks in a slot is the reading of the slot's type and place. *)
LEMMA ParsedIsReading ==
  ASSUME NEW f \in Frames, NEW d \in Devices, NEW s \in SlotsOf[d],
         Parsed(SlotsOf[d], f.objs)[s] # NoValue
  PROVE  /\ s.index <= Len(Readings(f, s.type))
         /\ Parsed(SlotsOf[d], f.objs)[s] = Readings(f, s.type)[s.index].value
<1>1. PICK n \in Nat : DOMAIN f.objs = 1..n
  BY HubAssumption
<1>2. PICK k \in DOMAIN f.objs :
        Matches(f.objs, k, s) /\ Parsed(SlotsOf[d], f.objs)[s] = f.objs[k].value
  <2> DEFINE hits == {j \in DOMAIN f.objs : Matches(f.objs, j, s)}
  <2>1. hits # {} /\ Parsed(SlotsOf[d], f.objs)[s] = f.objs[CHOOSE j \in hits : TRUE].value
    BY DEF Parsed
  <2> QED
    BY <2>1
<1>3. PICK at : at = {j \in DOMAIN f.objs :
                       f.objs[j].kind = "reading" /\ f.objs[j].type = s.type}
  OBVIOUS
<1>4. at \in SUBSET (1..n) /\ k \in at /\ k \in 1..n
  BY <1>1, <1>2, <1>3 DEF Matches
<1>5. s.index = Rank(at, k)
  <2>1. f.objs[k].type = s.type /\ s.index = Instance(f.objs, k)
    BY <1>2 DEF Matches
  <2>2. \A j \in 1..k : j \in 1..n
    BY <1>4
  <2>3. {j \in 1..k : f.objs[j].kind = "reading" /\ f.objs[j].type = f.objs[k].type}
          = at \cap 1..k
    BY <1>1, <1>3, <2>1, <2>2
  <2> QED
    BY <2>1, <2>3 DEF Instance, Rank
<1>6. Readings(f, s.type) = InOrder(f.objs, at)
  BY <1>3 DEF Readings
<1>7. Rank(at, k) \in 1..Cardinality(at) /\ InOrder(f.objs, at)[Rank(at, k)] = f.objs[k]
  BY <1>4, InOrderAt
<1>8. Len(InOrder(f.objs, at)) = Cardinality(at)
  BY <1>4, InOrderLength
<1> QED
  BY <1>2, <1>5, <1>6, <1>7, <1>8

(* An entity changes by a payload committed to its own device. *)
LEMMA PublishedBy ==
  ASSUME Typed, NEW e \in Devices, NEW f, OnFrame(e, f),
         NEW d \in Devices, NEW s \in SlotsOf[d], published'[d][s] # published[d][s]
  PROVE  /\ e = d /\ Readable(f)
         /\ published'[d][s] = Parsed(SlotsOf[d], f.objs)[s]
         /\ published'[d][s] # NoValue
<1>1. DOMAIN published = Devices /\ DOMAIN pending = Devices
  BY DEF Typed, Shapes
<1>2. Take(e, f) /\ Commit(e, f)
  BY DEF OnFrame, Handle, Reject, Take, content, Discard, Suppress
<1>3. e = d
  BY <1>1, <1>2 DEF Commit, Publish
<1>4. pending'[d] = Parsed(SlotsOf[d], f.objs)
  BY <1>1, <1>2, <1>3 DEF Take, Park
<1>5. published'[d][s] = IF pending'[d][s] # NoValue THEN pending'[d][s] ELSE published[d][s]
  BY <1>1, <1>2, <1>3 DEF Commit, Publish
<1> QED
  BY <1>2, <1>3, <1>4, <1>5 DEF Commit

(* What an entity shows was in the payload just handled, at the entity's type
   and place: nothing parked by a payload that was discarded or dropped as a
   repeat comes out later. *)
THEOREM ShownWasReceived == HubSpec => PublishedIsReceived
<1>1. ASSUME Typed, HubNext, NEW d \in Devices, NEW s \in SlotsOf[d],
             published'[d][s] # published[d][s]
      PROVE  \E f \in Frames :
               /\ OnFrame(d, f) /\ f.intact
               /\ s.index <= Len(Readings(f, s.type))
               /\ published'[d][s] = Readings(f, s.type)[s.index].value
  <2>1. ~Sweep /\ ~Tick /\ \A f \in Frames : ~Ignore(f)
    BY <1>1 DEF Sweep, Tick, Ignore, content
  <2>2. PICK f \in Frames, e \in Devices : OnFrame(e, f)
    BY <1>1, <2>1 DEF HubNext
  <2>3. /\ e = d /\ Readable(f)
        /\ published'[d][s] = Parsed(SlotsOf[d], f.objs)[s]
        /\ published'[d][s] # NoValue
    BY <1>1, <2>2, PublishedBy
  <2>4. /\ s.index <= Len(Readings(f, s.type))
        /\ Parsed(SlotsOf[d], f.objs)[s] = Readings(f, s.type)[s.index].value
    BY <2>3, ParsedIsReading
  <2> QED
    BY <2>2, <2>3, <2>4 DEF Readable
<1>2. Typed /\ HubNext =>
        \A d \in Devices : \A s \in SlotsOf[d] :
          published'[d][s] # published[d][s] =>
            \E f \in Frames :
              /\ OnFrame(d, f) /\ f.intact
              /\ s.index <= Len(Readings(f, s.type))
              /\ published'[d][s] = Readings(f, s.type)[s.index].value
  BY <1>1
<1> QED
  BY <1>2, TypedInit, TypedNext, PTL DEF HubSpec, PublishedIsReceived
=============================================================================
