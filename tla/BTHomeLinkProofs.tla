--------------------------- MODULE BTHomeLinkProofs ---------------------------
(***************************************************************************)
(* Proofs about BTHomeLink for every number of copies and payloads, every  *)
(* range of packet ids and any restarts: what a packet id and a counter,   *)
(* both forgotten now and then, remember is enough to act on every payload *)
(* exactly once.                                                           *)
(***************************************************************************)
EXTENDS BTHomeLink, BTHomeHubProofs, SequenceTheorems

\* The frames the sender can have broadcast.
SentFrames == {Sealed(objs, tail, id, counter) :
                 objs \in sender.payloads, tail \in sender.tails,
                 id \in 0..IdMod - 1, counter \in Nat}

LinkTyped ==
  /\ sender \in Senders
  /\ sent \in Seq(SentFrames) /\ heard \subseteq 1..Len(sent)
  /\ copies \in Nat /\ missedRow \in Nat
  /\ nextId \in 0..IdMod - 1 /\ txCounter \in Nat \ {0}
  /\ copies > 0 => sent # <<>>

\* The counter of the receiver and those on the air: only a payload accepted
\* moves it, and while copies of the last payload come in it tells whether one
\* of them was.
CounterInv ==
  /\ lastCounter[me] < txCounter
  /\ sent # <<>> => sent[current].counter = txCounter - 1
  /\ sent # <<>> /\ ~IsHeard => lastCounter[me] < txCounter - 1
  /\ Encrypted[me] /\ copies > 0 /\ IsHeard => lastCounter[me] = txCounter - 1
  /\ Encrypted[me] /\ sender.clone =>
       \A n \in heard : sent[n].counter <= lastCounter[me]

\* The packet id the receiver remembers, unless it has aged out, is behind the
\* sender's by as many as nobody has heard; that they are fewer than there are
\* ids keeps a new payload from looking like an old one.
IdInv ==
  /\ Missed < IdMod
  /\ copies > 0 /\ HasId(sent[current]) => sent[current].id = (nextId - 1) % IdMod
  /\ lastId[me] # NoId => lastId[me] = (nextId - 1 - Missed) % IdMod
  /\ copies > 0 /\ HasId(sent[current]) /\ IsHeard => lastId[me] = sent[current].id

\* Without a key there is nothing to warn of.
SilentInv == ~Encrypted[me] => said = Nothing

LinkPart == LinkTyped /\ CounterInv /\ SilentInv /\ (Dependable => IdInv)

LinkInv == Inv /\ LinkPart
-----------------------------------------------------------------------------
(* Frames *)

(* What the receiver finds in a payload that arrives whole. *)
LEMMA SentFacts ==
  ASSUME sender \in Senders, NEW f \in SentFrames
  PROVE  /\ f.sender = SenderOf[me] /\ f.sealed = Encrypted[me] /\ f.header = TRUE
         /\ f.complete = TRUE /\ f.authentic = TRUE /\ f.counter \in Nat
         /\ f.id \in 0..IdMod - 1 /\ PacketId(f) \in {NoId, f.id}
         /\ IsFrame(f) /\ Readable(f) /\ Reached(f)
<1>1. PICK objs \in sender.payloads, tail \in sender.tails, id \in 0..IdMod - 1,
           counter \in Nat : f = Sealed(objs, tail, id, counter)
  BY DEF SentFrames
<1>2. /\ f.sender = SenderOf[me] /\ f.sealed = Encrypted[me] /\ f.header = TRUE
      /\ f.complete = TRUE /\ f.authentic = TRUE /\ f.counter \in Nat
      /\ f.id \in 0..IdMod - 1 /\ f.objs = objs /\ f.intact = TRUE
      /\ f.tail = tail /\ f.size = 2 * Len(objs) /\ f.padded = sender.padded
  BY <1>1 DEF Sealed
<1>3. PacketId(f) \in {NoId, f.id}
  BY DEF PacketId
<1>4. IsFrame(f)
  BY <1>2, <1>3, LinkAssumption DEF IsFrame
<1>5. Readable(f)
  <2>1. Readable([objs |-> objs, intact |-> TRUE])
    BY LinkAssumption
  <2>2. ASSUME NEW kind \in EventKinds PROVE Len(Objects(f, kind)) <= MaxEvents
    <3>1. Objects(f, kind) = Objects([objs |-> objs, intact |-> TRUE], kind)
      BY <1>2 DEF Objects
    <3> QED
      BY <2>1, <3>1 DEF Readable
  <2> QED
    BY <1>2, <2>2 DEF Readable
<1>6. Reached(f)
  <2>1. tail \in 0..MicBytes /\ objs \in Seq({objs[k] : k \in DOMAIN objs})
    BY LinkAssumption
  <2>2. Len(objs) \in Nat
    BY <2>1, LenProperties
  <2> QED
    BY <1>2, <2>1, <2>2, MicAssumption DEF Reached, Shortfall
<1> QED
  BY <1>2, <1>3, <1>4, <1>5, <1>6

(* What it finds in a damaged copy. *)
LEMMA DamagedFacts ==
  ASSUME sender \in Senders, NEW f \in SentFrames, NEW n \in 0..Len(f.objs) - 1
  PROVE  LET g == Damaged(f, n)
         IN  /\ g.sender = SenderOf[me] /\ g.sealed = Encrypted[me] /\ g.header = TRUE
             /\ g.authentic = FALSE /\ IsFrame(g) /\ ~Readable(g)
<1> DEFINE g == Damaged(f, n)
<1>1. PICK objs \in sender.payloads, tail \in sender.tails, id \in 0..IdMod - 1,
           counter \in Nat : f = Sealed(objs, tail, id, counter)
  BY DEF SentFrames
<1>2. /\ g.sender = SenderOf[me] /\ g.sealed = Encrypted[me] /\ g.header = TRUE
      /\ g.authentic = FALSE /\ g.intact = FALSE /\ g.counter \in Nat
      /\ g.id \in 0..IdMod - 1 /\ g.objs = SubSeq(objs, 1, n)
  BY <1>1 DEF Sealed, Damaged
<1>3. PacketId(g) \in {NoId, g.id}
  BY DEF PacketId
<1>4. \A k \in DOMAIN g.objs : g.objs[k].kind = "reading" => g.objs[k].value \in Values
  <2> DEFINE S == {objs[k] : k \in DOMAIN objs}
  <2>1. objs \in Seq(S) /\ f.objs = objs
    BY <1>1, LinkAssumption DEF Sealed
  <2>2. Len(objs) \in Nat /\ DOMAIN objs = 1..Len(objs) /\ \A k \in 1..Len(objs) : objs[k] \in S
    BY <2>1, LenProperties, ElementOfSeq
  <2>3. n \in Int /\ \A i \in 1..n : objs[i] \in S
    BY <2>1, <2>2
  <2> HIDE DEF S
  <2>4. /\ Len(SubSeq(objs, 1, n)) = (IF 1 <= n THEN n - 1 + 1 ELSE 0)
        /\ SubSeq(objs, 1, n) \in Seq(S)
        /\ \A i \in 1..n - 1 + 1 : SubSeq(objs, 1, n)[i] = objs[1 + i - 1]
    BY <2>3, SubSeqProperties
  <2>5. DOMAIN SubSeq(objs, 1, n) = 1..n
    BY <2>3, <2>4, LenProperties
  <2>6. \A i \in 1..n : SubSeq(objs, 1, n)[i] = objs[i] /\ i \in DOMAIN objs
    BY <2>1, <2>2, <2>3, <2>4
  <2>7. \A k \in DOMAIN objs : objs[k].kind = "reading" => objs[k].value \in Values
    BY LinkAssumption
  <2> QED
    BY <1>2, <2>5, <2>6, <2>7
<1>5. IsFrame(g)
  BY <1>2, <1>3, <1>4 DEF IsFrame
<1>6. ~Readable(g)
  BY <1>2 DEF Readable
<1> QED
  BY <1>2, <1>5, <1>6

(* Whatever the sender broadcasts goes to the device that listens to it. *)
LEMMA OnlyMe ==
  ASSUME sender \in Senders, NEW f, f.sender = SenderOf[me],
         NEW d \in Devices, OnFrame(d, f)
  PROVE  d = me /\ Handle(me, f) /\ UNCHANGED lastSweep
<1>1. PICK i \in DOMAIN Listed :
        Listed[i] = me /\ \A j \in 1..i - 1 : SenderOf[Listed[j]] # SenderOf[me]
  BY LinkAssumption DEF me
<1>2. PICK k \in DOMAIN Listed :
        /\ Listed[k] = d /\ SenderOf[d] = SenderOf[me]
        /\ \A j \in 1..k - 1 : SenderOf[Listed[j]] # SenderOf[me]
  BY DEF OnFrame, Addressee, MatchesSender
<1>3. DOMAIN Listed = 1..Len(Listed) /\ Len(Listed) \in Nat
  BY HubAssumption, LenProperties
<1>4. i = k
  BY <1>1, <1>2, <1>3
<1> QED
  BY <1>1, <1>2, <1>4 DEF OnFrame
-----------------------------------------------------------------------------
(* What a frame does to the device it is meant for *)

\* Nothing of what tells new payloads from old ones changes, and nothing fires.
Idle == fired'[me] = <<>> /\ lastId'[me] = lastId[me] /\ lastCounter'[me] = lastCounter[me]

(* A payload that repeats a counter, or passed it, is refused. *)
LEMMA StaleIsIdle ==
  ASSUME Inv, sender \in Senders, NEW f, Handle(me, f), f.sealed = Encrypted[me],
         Encrypted[me], ~Fresh(me, f) \/ f.authentic = FALSE
  PROVE  Idle /\ Refuse(me, f)
<1>1. me \in Devices
  BY LinkAssumption DEF me
<1>2. ~Accepted(me, f)
  BY DEF Accepted
<1>3. Reject(me, f) /\ Refuse(me, f)
  BY <1>2 DEF Handle, Take, Open, Accept, Reject
<1> QED
  BY <1>1, <1>3 DEF Reject, Refuse, Quiet, content, Idle

(* A damaged copy in the clear is contact, and nothing else. *)
LEMMA DamagedIsIdle ==
  ASSUME Inv, sender \in Senders, NEW f, Handle(me, f), f.sealed = Encrypted[me],
         f.header = TRUE, ~Encrypted[me], ~Readable(f)
  PROVE  Idle /\ said' = said
<1>1. me \in Devices
  BY LinkAssumption DEF me
<1>2. Take(me, f) /\ UNCHANGED cryptVars
  BY DEF Handle, Reject, Take, Open
<1>3. Discard(me, f)
  BY <1>2 DEF Take, Suppress, Commit
<1> QED
  BY <1>1, <1>2, <1>3 DEF Discard, Quiet, cryptVars, Idle

(* A payload that opens fires unless its packet id is the one remembered. *)
LEMMA OpenedFires ==
  ASSUME Inv, LinkTyped, NEW f \in SentFrames, Handle(me, f),
         ~Encrypted[me] \/ Fresh(me, f)
  PROVE  /\ fired'[me] = IF IsKnown(me, f) THEN <<>> ELSE Firing(f)
         /\ lastId'[me] = IF HasId(f) THEN f.id ELSE lastId[me]
         /\ lastCounter'[me] = IF Encrypted[me] THEN f.counter ELSE lastCounter[me]
         /\ ~Encrypted[me] => said' = said
<1>1. /\ me \in Devices /\ lastId \in [Devices -> (0..IdMod - 1) \cup {NoId}]
      /\ lastCounter \in [Devices -> Nat \cup {NoCounter}] /\ Encrypted[me] \in BOOLEAN
  BY LinkAssumption, DeviceAssumption
  DEF me, Inv, LinkTyped, Typed, HubTypeOK, DeviceTypeOK, CryptTypeOK
<1>2. /\ f.sealed = Encrypted[me] /\ f.header = TRUE /\ f.complete = TRUE
      /\ f.authentic = TRUE /\ Readable(f) /\ Reached(f)
      /\ PacketId(f) \in {NoId, f.id}
  BY SentFacts DEF LinkTyped
<1>3. Encrypted[me] => Accepted(me, f)
  BY <1>2 DEF Accepted
<1>4. Take(me, f)
  BY <1>1, <1>2, <1>3 DEF Handle, Reject, Refuse
<1>5. /\ lastCounter'[me] = IF Encrypted[me] THEN f.counter ELSE lastCounter[me]
      /\ ~Encrypted[me] => said' = said
  BY <1>1, <1>4 DEF Take, Open, Accept, cryptVars
<1>6. CASE Suppress(me, f)
  BY <1>1, <1>2, <1>5, <1>6 DEF Suppress, Quiet, IsKnown, HasId
<1>7. CASE Commit(me, f)
  BY <1>1, <1>2, <1>5, <1>7 DEF Commit, Remember, Quiet, HasId
<1> QED
  BY <1>2, <1>4, <1>6, <1>7 DEF Take, Discard
-----------------------------------------------------------------------------
(* Packet ids go round *)

(* One more id nobody heard leaves the one remembered where it was. *)
LEMMA IdsBehind ==
  ASSUME NEW M \in Nat \ {0}, NEW n \in 0..M - 1, NEW k \in Nat, k < M - 1
  PROVE  /\ (((n + 1) % M) - 1 - (k + 1)) % M = (n - 1 - k) % M
         /\ (n + 1) % M \in 0..M - 1
         /\ (((n + 1) % M) - 1) % M = n
<1>1. CASE n + 1 < M
  <2>1. (n + 1) % M = n + 1
    BY <1>1
  <2> QED
    BY <1>1, <2>1
<1>2. CASE n + 1 = M
  <2>1. (n + 1) % M = 0
    BY <1>2
  <2>2. (0 - 1 - (k + 1)) % M = M - 2 - k
    OBVIOUS
  <2>3. (n - 1 - k) % M = M - 2 - k
    BY <1>2
  <2>4. (0 - 1) % M = M - 1
    OBVIOUS
  <2> QED
    BY <1>2, <2>1, <2>2, <2>3, <2>4
<1> QED
  BY <1>1, <1>2

(* An id comes round again only after all the others. *)
LEMMA IdsDiffer ==
  ASSUME NEW M \in Nat \ {0}, NEW n \in 0..M - 1, NEW k \in 1..M - 1
  PROVE  (n - 1 - k) % M # (n - 1) % M
<1>1. (n - 1) % M = IF n = 0 THEN M - 1 ELSE n - 1
  OBVIOUS
<1>2. CASE n - 1 - k >= 0
  BY <1>1, <1>2
<1>3. CASE n - 1 - k < 0 /\ n - 1 - k >= -M
  <2>1. (n - 1 - k) % M = n - 1 - k + M
    BY <1>3
  <2> QED
    BY <1>1, <1>3, <2>1
<1> QED
  BY <1>2, <1>3
-----------------------------------------------------------------------------
(* The steps of sender, air and receiver *)

\* What the sender is and has broadcast, and the link it uses.
Silent == UNCHANGED <<sender, sent, nextId, txCounter, missedRow>>

(* The listener in terms of its parts. *)
LEMMA MeTyped ==
  ASSUME Inv, sender \in Senders
  PROVE  /\ me \in Devices /\ Encrypted[me] \in BOOLEAN
         /\ lastId[me] \in (0..IdMod - 1) \cup {NoId}
         /\ lastCounter[me] \in Nat \cup {NoCounter}
         /\ IdMod \in Nat \ {0} /\ MicBytes \in Nat
  BY LinkAssumption, DeviceAssumption, MicAssumption
  DEF me, Inv, Typed, HubTypeOK, DeviceTypeOK, CryptTypeOK

(* The last payload, and any before it. *)
LEMMA SentTyped ==
  ASSUME LinkTyped
  PROVE  /\ Len(sent) \in Nat /\ current = Len(sent)
         /\ \A n \in 1..Len(sent) : sent[n] \in SentFrames
         /\ sent # <<>> => current \in 1..Len(sent) /\ sent[current] \in SentFrames
<1>1. Len(sent) \in Nat /\ \A n \in 1..Len(sent) : sent[n] \in SentFrames
  BY LenProperties, ElementOfSeq DEF LinkTyped
<1>2. sent # <<>> => Len(sent) # 0
  BY EmptySeq DEF LinkTyped
<1> QED
  BY <1>1, <1>2 DEF current

(* A copy heard whole fires if, and only if, it is to be acted on. *)
LEMMA HearFires ==
  ASSUME LinkInv, Hear
  PROVE  Dependable => fired'[me] = IF IsNew THEN Firing(sent[current]) ELSE <<>>
<1> DEFINE f == sent[current]
<1>1. /\ Inv /\ LinkTyped /\ CounterInv /\ sender \in Senders
      /\ copies > 0 /\ sent # <<>>
  BY DEF LinkInv, LinkPart, LinkTyped, Hear
<1>2. f \in SentFrames
  BY <1>1, SentTyped
<1>3. /\ f.sender = SenderOf[me] /\ f.sealed = Encrypted[me] /\ f.counter \in Nat
      /\ f.id \in 0..IdMod - 1 /\ PacketId(f) \in {NoId, f.id}
  BY <1>1, <1>2, SentFacts
<1>4. Handle(me, f)
  BY <1>1, <1>3, OnlyMe DEF Hear, Deliver
<1>5. /\ lastId[me] \in (0..IdMod - 1) \cup {NoId} /\ IdMod \in Nat \ {0}
      /\ lastCounter[me] \in Nat \cup {NoCounter} /\ Encrypted[me] \in BOOLEAN
  BY <1>1, MeTyped
<1>6. f.counter = txCounter - 1
  BY <1>1 DEF CounterInv
<1>7. CASE Encrypted[me] /\ IsHeard
  <2>1. ~Fresh(me, f)
    BY <1>1, <1>5, <1>6, <1>7 DEF CounterInv, Fresh, NoCounter
  <2>2. Idle
    BY <1>1, <1>3, <1>4, <1>7, <2>1, StaleIsIdle
  <2> QED
    BY <1>7, <2>2 DEF Idle, IsNew
<1>8. CASE ~(Encrypted[me] /\ IsHeard)
  <2>1. ~Encrypted[me] \/ Fresh(me, f)
    BY <1>1, <1>6, <1>8 DEF CounterInv, Fresh
  <2>2. fired'[me] = IF IsKnown(me, f) THEN <<>> ELSE Firing(f)
    BY <1>1, <1>2, <1>4, <2>1, OpenedFires
  <2>3. ASSUME Dependable PROVE IsKnown(me, f) <=> ~IsNew
    <3>1. IdInv
      BY <2>3 DEF LinkInv, LinkPart
    <3>2. CASE ~HasId(f)
      BY <1>8, <3>2 DEF IsKnown, IsNew, HasId
    <3>3. CASE HasId(f) /\ IsHeard
      BY <1>1, <1>3, <1>8, <3>1, <3>3 DEF IdInv, IsKnown, IsNew, HasId
    <3>4. CASE HasId(f) /\ ~IsHeard
      <4>1. PacketId(f) = f.id /\ f.id = (nextId - 1) % IdMod /\ f.id # NoId
        BY <1>1, <1>3, <3>1, <3>4 DEF IdInv, HasId
      <4>2. Missed = missedRow + 1 /\ Missed < IdMod
        BY <1>1, <3>1, <3>4 DEF Missed, IdInv
      <4>3. missedRow \in Nat /\ nextId \in 0..IdMod - 1
        BY <1>1 DEF LinkTyped
      <4>4. (nextId - 1 - Missed) % IdMod # (nextId - 1) % IdMod
        <5>1. Missed \in 1..IdMod - 1
          BY <1>5, <4>2, <4>3
        <5> QED
          BY <1>5, <4>3, <5>1, IdsDiffer
      <4>5. lastId[me] # f.id
        BY <3>1, <4>1, <4>4 DEF IdInv
      <4> QED
        BY <3>4, <4>1, <4>5 DEF IsKnown, IsNew
    <3> QED
      BY <3>2, <3>3, <3>4
  <2> QED
    BY <2>2, <2>3
<1> QED
  BY <1>7, <1>8

(* A step that tells the receiver nothing new keeps what it knows; what has
   aged out between two payloads is not missed. *)
LEMMA IdleKeeps ==
  ASSUME LinkPart, UNCHANGED <<sender, sent, nextId, txCounter, missedRow, heard>>,
         copies' \in Nat, copies' <= copies, lastCounter'[me] = lastCounter[me],
         ~Encrypted[me] => said' \in {said, Nothing},
         Dependable => \/ lastId'[me] = lastId[me]
                       \/ lastId'[me] = NoId /\ copies' = 0
  PROVE  LinkPart'
<1>1. /\ me' = me /\ current' = current /\ (IsHeard <=> IsHeard') /\ Missed' = Missed
      /\ (Dependable <=> Dependable')
  BY DEF me, current, IsHeard, Missed, Dependable
<1>2. LinkTyped'
  BY DEF LinkPart, LinkTyped, SentFrames, Sealed, me
<1>3. copies \in Nat
  BY DEF LinkPart, LinkTyped
<1>4. CounterInv'
  BY <1>1, <1>3 DEF LinkPart, CounterInv
<1>5. SilentInv'
  BY <1>1 DEF LinkPart, SilentInv
<1>6. ASSUME Dependable PROVE IdInv'
  BY <1>1, <1>3, <1>6 DEF LinkPart, IdInv
<1> QED
  BY <1>1, <1>2, <1>4, <1>5, <1>6 DEF LinkPart

(* A copy heard whole. *)
LEMMA HearKeeps == LinkInv /\ Hear => LinkPart'
<1> SUFFICES ASSUME LinkInv, Hear PROVE LinkPart'
  OBVIOUS
<1> DEFINE f == sent[current]
<1>1. /\ Inv /\ LinkTyped /\ CounterInv /\ SilentInv /\ LinkPart /\ sender \in Senders
      /\ copies > 0 /\ copies \in Nat /\ copies' = copies - 1 /\ sent # <<>>
      /\ UNCHANGED <<sender, sent, nextId, txCounter, missedRow>>
  BY DEF LinkInv, LinkPart, LinkTyped, Hear, Deliver
<1>2. f \in SentFrames /\ current \in 1..Len(sent)
  BY <1>1, SentTyped
<1>3. /\ f.sender = SenderOf[me] /\ f.sealed = Encrypted[me] /\ f.counter \in Nat
      /\ f.id \in 0..IdMod - 1 /\ PacketId(f) \in {NoId, f.id}
  BY <1>1, <1>2, SentFacts
<1>4. Handle(me, f)
  BY <1>1, <1>3, OnlyMe DEF Hear, Deliver
<1>5. /\ lastCounter[me] \in Nat \cup {NoCounter} /\ Encrypted[me] \in BOOLEAN
      /\ IdMod \in Nat \ {0} /\ txCounter \in Nat
  BY <1>1, MeTyped DEF LinkTyped
<1>6. f.counter = txCounter - 1
  BY <1>1 DEF CounterInv
<1>7. CASE Encrypted[me] /\ IsHeard
  <2>1. ~Fresh(me, f)
    BY <1>1, <1>5, <1>6, <1>7 DEF CounterInv, Fresh, NoCounter
  <2>2. Idle /\ heard' = heard
    BY <1>1, <1>3, <1>4, <1>7, <2>1, StaleIsIdle DEF IsNew, Hear, Deliver
  <2> QED
    BY <1>1, <1>7, <2>2, IdleKeeps DEF Idle
<1>8. CASE ~(Encrypted[me] /\ IsHeard)
  <2>1. ~Encrypted[me] \/ Fresh(me, f)
    BY <1>1, <1>6, <1>8 DEF CounterInv, Fresh
  <2>2. /\ lastId'[me] = IF HasId(f) THEN f.id ELSE lastId[me]
        /\ lastCounter'[me] = IF Encrypted[me] THEN f.counter ELSE lastCounter[me]
        /\ ~Encrypted[me] => said' = said
    BY <1>1, <1>2, <1>4, <2>1, OpenedFires
  <2>3. heard' = heard \cup {current}
    BY DEF Hear, Deliver, IsNew, IsHeard
  <2>4. /\ me' = me /\ current' = current /\ IsHeard' /\ (Dependable' <=> Dependable)
        /\ Missed' = IF HasId(f) THEN 0 ELSE missedRow
    BY <1>1, <2>3 DEF me, current, IsHeard, Missed, Dependable
  <2>5. LinkTyped'
    BY <1>1, <1>2, <2>3 DEF LinkTyped, SentFrames, Sealed, me
  <2>6. CounterInv'
    <3>1. \A n \in heard : sent[n].counter \in Nat
      BY <1>1, SentTyped, SentFacts DEF LinkTyped
    <3>2. lastCounter[me] < txCounter
      BY <1>1 DEF CounterInv
    <3>3. Encrypted[me] /\ sender.clone =>
            \A n \in heard \cup {current} : sent[n].counter <= txCounter - 1
      BY <1>1, <1>5, <1>6, <3>1, <3>2 DEF CounterInv, NoCounter
    <3> QED
      BY <1>1, <1>5, <1>6, <2>2, <2>3, <2>4, <3>2, <3>3 DEF CounterInv
  <2>7. SilentInv'
    BY <1>1, <2>2, <2>4 DEF SilentInv
  <2>8. ASSUME Dependable PROVE IdInv'
    <3>1. IdInv
      BY <2>8 DEF LinkInv, LinkPart
    <3>2. CASE HasId(f)
      <4>1. f.id = (nextId - 1) % IdMod /\ nextId \in 0..IdMod - 1
        BY <1>1, <3>1, <3>2 DEF IdInv, LinkTyped
      <4>2. nextId - 1 - 0 = nextId - 1
        BY <4>1
      <4> QED
        BY <1>1, <1>5, <2>2, <2>4, <3>2, <4>1, <4>2 DEF IdInv
    <3>3. CASE ~HasId(f)
      <4>1. Missed = missedRow
        BY <3>3 DEF Missed
      <4> QED
        BY <1>1, <2>2, <2>4, <3>1, <3>3, <4>1 DEF IdInv
    <3> QED
      BY <3>2, <3>3
  <2> QED
    BY <2>4, <2>5, <2>6, <2>7, <2>8 DEF LinkPart
<1> QED
  BY <1>7, <1>8

(* A damaged copy neither fires nor is remembered. *)
LEMMA DamagedKeeps == LinkInv /\ HearDamaged => LinkPart' /\ fired'[me] = <<>>
<1> SUFFICES ASSUME LinkInv, HearDamaged PROVE LinkPart' /\ fired'[me] = <<>>
  OBVIOUS
<1>1. /\ Inv /\ LinkTyped /\ LinkPart /\ sender \in Senders /\ copies > 0
      /\ copies' \in Nat /\ copies' <= copies /\ sent # <<>>
      /\ UNCHANGED <<sender, sent, nextId, txCounter, missedRow, heard>>
  BY DEF LinkInv, LinkPart, LinkTyped, HearDamaged, Deliver
<1>2. sent[current] \in SentFrames
  BY <1>1, SentTyped
<1>3. PICK n \in 0..Len(sent[current].objs) - 1 :
        \E d \in Devices : OnFrame(d, Damaged(sent[current], n))
  BY DEF HearDamaged, Deliver
<1> DEFINE g == Damaged(sent[current], n)
<1>4. /\ g.sender = SenderOf[me] /\ g.sealed = Encrypted[me] /\ g.header = TRUE
      /\ g.authentic = FALSE /\ ~Readable(g)
  BY <1>1, <1>2, DamagedFacts
<1>5. Handle(me, g)
  BY <1>1, <1>3, <1>4, OnlyMe
<1>6. Encrypted[me] \in BOOLEAN
  BY <1>1, MeTyped
<1> HIDE DEF g
<1>7. Idle /\ (~Encrypted[me] => said' = said)
  BY <1>1, <1>4, <1>5, <1>6, StaleIsIdle, DamagedIsIdle
<1> QED
  BY <1>1, <1>7, IdleKeeps DEF Idle

(* An old payload that a clone repeats does not fire either, where its counter
   tells it. *)
LEMMA EchoKeeps ==
  LinkInv /\ Echo => LinkPart' /\ (Dependable => fired'[me] = <<>>)
<1> SUFFICES ASSUME LinkInv, Echo
             PROVE  LinkPart' /\ (Dependable => fired'[me] = <<>>)
  OBVIOUS
<1>1. /\ Inv /\ LinkTyped /\ LinkPart /\ CounterInv /\ sender \in Senders
      /\ copies' \in Nat /\ copies' <= copies /\ sender.clone
      /\ UNCHANGED <<sender, sent, nextId, txCounter, missedRow, heard>>
  BY DEF LinkInv, LinkPart, LinkTyped, Echo, Deliver
<1>2. PICK n \in heard : \E d \in Devices : OnFrame(d, sent[n])
  BY DEF Echo, Deliver
<1>3. sent[n] \in SentFrames
  BY <1>1, SentTyped DEF LinkTyped
<1>4. /\ sent[n].sender = SenderOf[me] /\ sent[n].sealed = Encrypted[me]
      /\ sent[n].counter \in Nat
  BY <1>1, <1>3, SentFacts
<1>5. Handle(me, sent[n])
  BY <1>1, <1>2, <1>4, OnlyMe
<1>6. Encrypted[me] \in BOOLEAN /\ lastCounter[me] \in Nat \cup {NoCounter}
  BY <1>1, MeTyped
<1>7. CASE Encrypted[me]
  <2>1. ~Fresh(me, sent[n])
    BY <1>1, <1>4, <1>6, <1>7 DEF CounterInv, Fresh, NoCounter
  <2>2. Idle
    BY <1>1, <1>4, <1>5, <1>7, <2>1, StaleIsIdle
  <2> QED
    BY <1>1, <1>7, <2>2, IdleKeeps DEF Idle
<1>8. CASE ~Encrypted[me]
  <2>1. lastCounter'[me] = lastCounter[me] /\ said' = said
    BY <1>1, <1>3, <1>5, <1>8, OpenedFires
  <2> QED
    BY <1>1, <1>8, <2>1, IdleKeeps DEF Dependable
<1> QED
  BY <1>7, <1>8

(* A new payload carries the next counter, and an id the receiver does not
   remember. *)
LEMMA BroadcastKeeps == LinkInv /\ Broadcast => LinkPart'
<1> SUFFICES ASSUME LinkInv, Broadcast PROVE LinkPart'
  OBVIOUS
<1>1. /\ Inv /\ LinkTyped /\ CounterInv /\ SilentInv /\ sender \in Senders
      /\ nextId \in 0..IdMod - 1 /\ txCounter \in Nat \ {0} /\ missedRow \in Nat
      /\ sent \in Seq(SentFrames) /\ heard \subseteq 1..Len(sent)
  BY DEF LinkInv, LinkPart, LinkTyped
<1>2. PICK objs \in sender.payloads, tail \in sender.tails :
        LET f == Sealed(objs, tail, nextId, txCounter)
        IN  /\ sent' = Append(sent, f)
            /\ nextId' = IF HasId(f) THEN (nextId + 1) % IdMod ELSE nextId
  BY DEF Broadcast
<1> DEFINE f == Sealed(objs, tail, nextId, txCounter)
<1>3. f \in SentFrames
  BY <1>1 DEF SentFrames
<1>4. f.id = nextId /\ f.counter = txCounter
  BY DEF Sealed
<1> HIDE DEF f
<1>5. /\ sent' = Append(sent, f)
      /\ nextId' = IF HasId(f) THEN (nextId + 1) % IdMod ELSE nextId
  BY <1>2 DEF f
<1>6. /\ Len(sent) \in Nat /\ Len(sent') = Len(sent) + 1 /\ sent' # <<>>
      /\ sent' \in Seq(SentFrames) /\ sent'[Len(sent')] = f
      /\ \A n \in 1..Len(sent) : sent'[n] = sent[n]
  BY <1>1, <1>3, <1>5, AppendProperties, LenProperties
<1>7. /\ me' = me /\ current' = Len(sent') /\ ~IsHeard' /\ sent'[current'] = f
      /\ (Dependable' <=> Dependable) /\ sender' = sender /\ heard' = heard
      /\ said' = said /\ lastId' = lastId /\ lastCounter' = lastCounter
      /\ txCounter' = txCounter + 1 /\ missedRow' = Missed /\ Missed < IdMod - 1
      /\ copies' = Copies
  BY <1>1, <1>6
  DEF Broadcast, me, current, IsHeard, Dependable, hubVars, deviceVars, cryptVars, content
<1>8. /\ lastId[me] \in (0..IdMod - 1) \cup {NoId} /\ IdMod \in Nat \ {0}
      /\ lastCounter[me] \in Nat \cup {NoCounter}
  BY <1>1, MeTyped
<1>9. Missed \in Nat
  BY <1>1 DEF Missed
<1>10. LinkTyped'
  <2>1. nextId' \in 0..IdMod - 1
    BY <1>1, <1>5, <1>8
  <2>2. heard' \subseteq 1..Len(sent')
    BY <1>1, <1>6, <1>7
  <2>3. SentFrames' = SentFrames
    BY <1>7 DEF SentFrames, Sealed
  <2> QED
    BY <1>1, <1>6, <1>7, <1>9, <2>1, <2>2, <2>3, LinkAssumption DEF LinkTyped
<1>11. CounterInv'
  <2>1. lastCounter[me] < txCounter
    BY <1>1 DEF CounterInv
  <2>2. Encrypted[me] /\ sender.clone => \A n \in heard : sent'[n].counter <= lastCounter[me]
    BY <1>1, <1>6 DEF CounterInv
  <2> QED
    BY <1>1, <1>4, <1>7, <1>8, <2>1, <2>2 DEF CounterInv, NoCounter
<1>12. SilentInv'
  BY <1>1, <1>7 DEF SilentInv
<1>13. ASSUME Dependable PROVE IdInv'
  <2>1. IdInv
    BY <1>13 DEF LinkInv, LinkPart
  <2>2. Missed' = IF HasId(f) THEN Missed + 1 ELSE Missed
    BY <1>6, <1>7 DEF Missed
  <2>3. CASE HasId(f)
    <3>1. /\ (nextId' - 1 - (Missed + 1)) % IdMod = (nextId - 1 - Missed) % IdMod
          /\ (nextId' - 1) % IdMod = nextId
      BY <1>1, <1>5, <1>7, <1>8, <1>9, <2>3, IdsBehind
    <3> QED
      BY <1>4, <1>7, <1>8, <1>9, <2>1, <2>2, <2>3, <3>1 DEF IdInv
  <2>4. CASE ~HasId(f)
    BY <1>5, <1>7, <1>8, <1>9, <2>1, <2>2, <2>4 DEF IdInv
  <2> QED
    BY <2>3, <2>4
<1> QED
  BY <1>7, <1>10, <1>11, <1>12, <1>13 DEF LinkPart

(* A sender that is back after the silence that ends a connection starts over
   with its ids, and the receiver has forgotten them. *)
LEMMA SenderRestartKeeps == LinkInv /\ SenderRestart => LinkPart'
<1> SUFFICES ASSUME LinkInv, SenderRestart PROVE LinkPart'
  OBVIOUS
<1>1. Inv /\ LinkTyped /\ CounterInv /\ SilentInv /\ copies = 0 /\ sender \in Senders
  BY DEF LinkInv, LinkPart, LinkTyped, SenderRestart
<1>2. /\ UNCHANGED <<sender, sent, copies, txCounter, missedRow, heard, lastId, said>>
      /\ UNCHANGED lastCounter /\ nextId' = 0
  BY DEF SenderRestart, hubVars, deviceVars, content, cryptVars
<1>3. /\ me' = me /\ current' = current /\ (IsHeard <=> IsHeard') /\ Missed' = Missed
      /\ (Dependable <=> Dependable')
  BY <1>2 DEF me, current, IsHeard, Missed, Dependable
<1>4. LinkTyped'
  BY <1>1, <1>2, MeTyped DEF LinkTyped, SentFrames, Sealed, me
<1>5. CounterInv' /\ SilentInv'
  BY <1>1, <1>2, <1>3 DEF CounterInv, SilentInv
<1>6. ASSUME Dependable PROVE IdInv'
  <2>1. lastId[me] = NoId
    BY <1>1, <1>6, MeTyped, InvAgesOut DEF IdAgesOut, SenderRestart, Dependable
  <2>2. IdInv
    BY <1>6 DEF LinkInv, LinkPart
  <2> QED
    BY <1>1, <1>2, <1>3, <2>1, <2>2 DEF IdInv
<1> QED
  BY <1>3, <1>4, <1>5, <1>6 DEF LinkPart

(* A receiver that restarts has forgotten everything, and no copy of what it
   had acted on is on its way. *)
LEMMA ReceiverRestartKeeps == LinkInv /\ ReceiverRestart => LinkPart'
<1> SUFFICES ASSUME LinkInv, ReceiverRestart PROVE LinkPart'
  OBVIOUS
<1>1. Inv /\ LinkTyped /\ CounterInv /\ copies = 0 /\ ~sender.clone /\ sender \in Senders
  BY DEF LinkInv, LinkPart, LinkTyped, ReceiverRestart
<1>2. /\ UNCHANGED <<sender, sent, copies, nextId, txCounter, missedRow, heard>>
      /\ lastId'[me] = NoId /\ lastCounter'[me] = NoCounter /\ said' = Nothing
  BY <1>1, MeTyped DEF ReceiverRestart
<1>3. /\ me' = me /\ current' = current /\ (IsHeard <=> IsHeard') /\ Missed' = Missed
      /\ (Dependable <=> Dependable')
  BY <1>2 DEF me, current, IsHeard, Missed, Dependable
<1>4. LinkTyped'
  BY <1>1, <1>2 DEF LinkTyped, SentFrames, Sealed, me
<1>5. CounterInv'
  <2>1. txCounter \in Nat \ {0} /\ copies' = 0 /\ ~sender'.clone
    BY <1>1, <1>2 DEF LinkTyped
  <2> QED
    BY <1>1, <1>2, <1>3, <2>1 DEF CounterInv, NoCounter
<1>6. SilentInv'
  BY <1>2 DEF SilentInv
<1>7. ASSUME Dependable PROVE IdInv'
  <2>1. IdInv
    BY <1>7 DEF LinkInv, LinkPart
  <2> QED
    BY <1>1, <1>2, <1>3, <2>1 DEF IdInv
<1> QED
  BY <1>3, <1>4, <1>5, <1>6, <1>7 DEF LinkPart

(* Between two payloads ids may age out, and nothing else. *)
LEMMA WaitKeeps == LinkInv /\ (Wait \/ Lose \/ UNCHANGED linkVars) => LinkPart'
<1> SUFFICES ASSUME LinkInv, Wait \/ Lose \/ UNCHANGED linkVars PROVE LinkPart'
  OBVIOUS
<1>1. Inv /\ LinkPart /\ sender \in Senders /\ copies \in Nat
  BY DEF LinkInv, LinkPart, LinkTyped
<1>2. CASE Wait
  <2>1. /\ UNCHANGED <<sender, sent, copies, nextId, txCounter, missedRow, heard>>
        /\ lastCounter' = lastCounter /\ said' = Nothing /\ copies = 0
    BY <1>2 DEF Wait, Sweep, Tick
  <2>2. lastId'[me] \in {lastId[me], NoId}
    BY <1>1, <1>2, MeTyped DEF Wait, Sweep, AgeOut, Tick, content
  <2> QED
    BY <1>1, <2>1, <2>2, IdleKeeps
<1>3. CASE Lose \/ UNCHANGED linkVars
  <2>1. /\ UNCHANGED <<sender, sent, nextId, txCounter, missedRow, heard>>
        /\ UNCHANGED <<lastCounter, said, lastId>>
        /\ copies' \in Nat /\ copies' <= copies
    BY <1>1, <1>3 DEF Lose, linkVars, hubVars, deviceVars, content, cryptVars
  <2> QED
    BY <1>1, <2>1, IdleKeeps
<1> QED
  BY <1>2, <1>3
-----------------------------------------------------------------------------
(* The listener's own invariant *)

LEMMA DeliverInv ==
  ASSUME Inv, sender \in Senders, NEW f, IsFrame(f), \E d \in Devices : OnFrame(d, f)
  PROVE  Inv'
  BY InvOnFrame

LEMMA ListenerInv == LinkInv /\ [LinkNext]_linkVars => Inv'
<1> SUFFICES ASSUME LinkInv, [LinkNext]_linkVars PROVE Inv'
  OBVIOUS
<1>1. Inv /\ LinkTyped /\ sender \in Senders
  BY DEF LinkInv, LinkPart, LinkTyped
<1>2. CASE UNCHANGED hubVars \/ Sweep \/ Tick
  BY <1>1, <1>2, InvNext DEF HubNext
<1>3. CASE Hear
  <2>1. sent[current] \in SentFrames
    BY <1>1, <1>3, SentTyped DEF Hear, LinkTyped
  <2> QED
    BY <1>1, <1>3, <2>1, SentFacts, DeliverInv DEF Hear, Deliver
<1>4. CASE HearDamaged
  <2>1. sent[current] \in SentFrames
    BY <1>1, <1>4, SentTyped DEF HearDamaged, LinkTyped
  <2>2. PICK n \in 0..Len(sent[current].objs) - 1 :
          \E d \in Devices : OnFrame(d, Damaged(sent[current], n))
    BY <1>4 DEF HearDamaged, Deliver
  <2>3. IsFrame(Damaged(sent[current], n))
    BY <1>1, <2>1, DamagedFacts
  <2> QED
    BY <1>1, <2>2, <2>3, DeliverInv
<1>5. CASE Echo
  <2>1. PICK n \in heard : \E d \in Devices : OnFrame(d, sent[n])
    BY <1>5 DEF Echo, Deliver
  <2>2. sent[n] \in SentFrames
    BY <1>1, SentTyped DEF LinkTyped
  <2> QED
    BY <1>1, <2>1, <2>2, SentFacts, DeliverInv
<1>6. CASE ReceiverRestart
  <2>1. HubInit'
    BY <1>6
    DEF ReceiverRestart, HubInit, DeviceInit, CryptInit, Blank, Quiet
  <2>2. HubInit' => Inv'
    BY InvInit, PTL
  <2> QED
    BY <2>1, <2>2
<1> QED
  BY <1>2, <1>3, <1>4, <1>5, <1>6
  DEF LinkNext, Broadcast, SenderRestart, Lose, Wait, linkVars
-----------------------------------------------------------------------------
(* Exactly once *)

LEMMA LinkInvInit == LinkInit => LinkInv
<1> SUFFICES ASSUME LinkInit PROVE LinkInv
  OBVIOUS
<1>1. Inv
  BY InvInit DEF LinkInit
<1>2. /\ sender \in Senders /\ sent = <<>> /\ copies = 0 /\ nextId = 0 /\ txCounter = 1
      /\ missedRow = 0 /\ heard = {} /\ me \in Devices
  BY LinkAssumption DEF LinkInit, me
<1>3. lastCounter[me] = NoCounter /\ said = Nothing /\ lastId[me] = NoId
  BY <1>2 DEF LinkInit, HubInit, DeviceInit, CryptInit
<1>4. LinkTyped
  BY <1>2, DeviceAssumption, EmptySeq DEF LinkTyped
<1>5. CounterInv /\ SilentInv
  BY <1>2, <1>3 DEF CounterInv, SilentInv, NoCounter
<1>6. IdInv
  BY <1>2, <1>3, DeviceAssumption DEF IdInv, Missed
<1> QED
  BY <1>1, <1>4, <1>5, <1>6 DEF LinkInv, LinkPart

LEMMA LinkInvNext == LinkInv /\ [LinkNext]_linkVars => LinkInv'
<1> SUFFICES ASSUME LinkInv, [LinkNext]_linkVars PROVE LinkInv'
  OBVIOUS
<1>1. LinkPart'
  BY HearKeeps, DamagedKeeps, EchoKeeps, BroadcastKeeps, SenderRestartKeeps,
     ReceiverRestartKeeps, WaitKeeps
  DEF LinkNext
<1> QED
  BY <1>1, ListenerInv DEF LinkInv

(* For every number of copies, whatever is lost, damaged or comes twice, across
   restarts and wherever the packet ids wrap: what fires is what is due. *)
THEOREM FiresExactlyOnce == LinkSpec => []ExactlyOnce
<1>1. LinkInit => ExactlyOnce
  BY DEF LinkInit, ExactlyOnce
<1>2. LinkInv /\ ExactlyOnce /\ [LinkNext]_linkVars => ExactlyOnce'
  <2> SUFFICES ASSUME LinkInv, [LinkNext]_linkVars, Dependable, log = due
               PROVE  log' = due'
    BY DEF ExactlyOnce, Dependable, LinkNext, Broadcast, SenderRestart, Hear, HearDamaged,
           Lose, Echo, ReceiverRestart, Wait, Deliver, linkVars, me
  <2>1. me' = me
    BY DEF LinkNext, Broadcast, SenderRestart, Hear, HearDamaged,
           Lose, Echo, ReceiverRestart, Wait, Deliver, linkVars, me
  <2>2. CASE Hear
    BY <2>1, <2>2, HearFires DEF Hear, Deliver
  <2>3. CASE HearDamaged
    BY <2>1, <2>3, DamagedKeeps DEF HearDamaged, Deliver
  <2>4. CASE Echo
    BY <2>1, <2>4, EchoKeeps DEF Echo, Deliver
  <2> QED
    BY <2>2, <2>3, <2>4
    DEF LinkNext, Broadcast, SenderRestart, Lose, ReceiverRestart, Wait, linkVars
<1> QED
  BY <1>1, <1>2, LinkInvInit, LinkInvNext, PTL DEF LinkSpec

(* Where the padding does not hide how long a payload is, the repeats of one
   that was accepted never raise a warning, for any device and sender. *)
THEOREM RepeatsRaiseNothing == LinkSpec => RepeatsAreSilent
<1>1. ASSUME LinkInv, Hear, IsHeard, Shortfall(sent[current]) = 0
      PROVE  said' = Nothing
  <2> DEFINE f == sent[current]
  <2>1. /\ Inv /\ LinkTyped /\ CounterInv /\ SilentInv /\ sender \in Senders
        /\ copies > 0 /\ sent # <<>> /\ txCounter \in Nat
    BY <1>1 DEF LinkInv, LinkPart, LinkTyped, Hear
  <2>2. f \in SentFrames
    BY <2>1, SentTyped
  <2>3. /\ f.sender = SenderOf[me] /\ f.sealed = Encrypted[me] /\ f.counter \in Nat
        /\ f.complete = TRUE /\ f.authentic = TRUE
    BY <2>1, <2>2, SentFacts
  <2>4. Handle(me, f)
    BY <1>1, <2>1, <2>3, OnlyMe DEF Hear, Deliver
  <2>5. Encrypted[me] \in BOOLEAN
    BY <2>1, MeTyped
  <2>6. CASE Encrypted[me]
    <3>1. f.counter = lastCounter[me]
      BY <1>1, <2>1, <2>6 DEF CounterInv
    <3>2. ~Fresh(me, f)
      BY <2>3, <3>1 DEF Fresh
    <3>3. Refuse(me, f)
      BY <2>1, <2>3, <2>4, <2>6, <3>2, StaleIsIdle
    <3>4. PICK r \in Refusals(me, f) : Report(me, r)
      BY <3>3 DEF Refuse
    <3>5. r = [status |-> "Replay", counter |-> f.counter]
      BY <1>1, <2>3, <2>6, <3>4 DEF Refusals
    <3> QED
      BY <3>1, <3>4, <3>5 DEF Report, IsRepeat
  <2>7. CASE ~Encrypted[me]
    BY <2>1, <2>2, <2>4, <2>7, OpenedFires DEF SilentInv
  <2> QED
    BY <2>5, <2>6, <2>7
<1>2. LinkInv => (Hear /\ IsHeard /\ Shortfall(sent[current]) = 0 => said' = Nothing)
  BY <1>1
<1> QED
  BY <1>2, LinkInvInit, LinkInvNext, PTL DEF LinkSpec, RepeatsAreSilent
=============================================================================
