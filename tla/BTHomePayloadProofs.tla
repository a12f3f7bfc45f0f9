------------------------- MODULE BTHomePayloadProofs -------------------------
(***************************************************************************)
(* Lemmas about the parts of a payload: what InOrder picks out of a        *)
(* sequence, and what one more object adds to it.  Places are counted from *)
(* one.                                                                    *)
(***************************************************************************)
EXTENDS BTHomePayload, FiniteSetTheorems, SequenceTheorems, TLAPS

\* The how-manieth of the places at is k?
Rank(at, k) == Cardinality(at \cap 1..k)

LEMMA RankFinite ==
  ASSUME NEW at, NEW k \in Nat
  PROVE  IsFiniteSet(at \cap 1..k) /\ Rank(at, k) \in Nat
<1>1. IsFiniteSet(1..k)
  BY FS_Interval
<1> QED
  BY <1>1, FS_Intersection, FS_CardinalityType DEF Rank

(* Of two places, the later one has the higher rank. *)
LEMMA RankGrows ==
  ASSUME NEW at \in SUBSET Nat, NEW j \in at, NEW k \in at, j < k
  PROVE  Rank(at, j) # Rank(at, k)
<1> DEFINE A == at \cap 1..j
           B == at \cap 1..k
<1>1. j \in Nat /\ k \in Nat
  OBVIOUS
<1>2. A \in SUBSET B /\ k \in B /\ k \notin A
  BY <1>1
<1>3. IsFiniteSet(B)
  BY <1>1, RankFinite
<1>4. Cardinality(B) = Cardinality(A) => B = A
  BY <1>2, <1>3, FS_Subset
<1> QED
  BY <1>2, <1>4 DEF Rank

LEMMA RankUnique ==
  ASSUME NEW at \in SUBSET Nat, NEW j \in at, NEW k \in at, Rank(at, j) = Rank(at, k)
  PROVE  j = k
<1>1. j \in Nat /\ k \in Nat
  OBVIOUS
<1>2. ~(j < k) /\ ~(k < j)
  BY RankGrows
<1> QED
  BY <1>1, <1>2

(* What has rank n is what is picked as the n-th. *)
LEMMA PickIs ==
  ASSUME NEW at \in SUBSET Nat, NEW k \in at
  PROVE  (CHOOSE j \in at : Cardinality(at \cap 1..j) = Rank(at, k)) = k
<1> DEFINE j == CHOOSE i \in at : Cardinality(at \cap 1..i) = Rank(at, k)
<1>1. j \in at /\ Rank(at, j) = Rank(at, k)
  BY DEF Rank
<1> QED
  BY <1>1, RankUnique

LEMMA RankRange ==
  ASSUME NEW n \in Nat, NEW at \in SUBSET (1..n), NEW k \in at
  PROVE  Rank(at, k) \in 1..Cardinality(at)
<1>1. k \in Nat /\ k >= 1
  OBVIOUS
<1>2. IsFiniteSet(1..n)
  BY FS_Interval
<1>3. IsFiniteSet(at)
  BY <1>2, FS_Subset
<1>4. at \cap 1..k \in SUBSET at
  OBVIOUS
<1>5. Rank(at, k) <= Cardinality(at) /\ Cardinality(at) \in Nat
  BY <1>3, <1>4, FS_Subset, FS_CardinalityType DEF Rank
<1>6. Rank(at, k) \in Nat /\ IsFiniteSet(at \cap 1..k)
  BY <1>1, RankFinite
<1>7. at \cap 1..k # {}
  BY <1>1
<1>8. Rank(at, k) # 0
  BY <1>6, <1>7, FS_EmptySet DEF Rank
<1> QED
  BY <1>5, <1>6, <1>8

(* An element stands in InOrder where its place ranks. *)
LEMMA InOrderAt ==
  ASSUME NEW s, NEW n \in Nat, NEW at \in SUBSET (1..n), NEW k \in at
  PROVE  /\ Rank(at, k) \in 1..Cardinality(at)
         /\ InOrder(s, at)[Rank(at, k)] = s[k]
<1>1. Rank(at, k) \in 1..Cardinality(at)
  BY RankRange
<1>2. at \in SUBSET Nat
  OBVIOUS
<1>3. (CHOOSE j \in at : Cardinality(at \cap 1..j) = Rank(at, k)) = k
  BY <1>2, PickIs
<1> QED
  BY <1>1, <1>3 DEF InOrder

(* InOrder has as many elements as there are places. *)
LEMMA InOrderLength ==
  ASSUME NEW s, NEW n \in Nat, NEW at \in SUBSET (1..n)
  PROVE  /\ Cardinality(at) \in Nat /\ IsFiniteSet(at)
         /\ DOMAIN InOrder(s, at) = 1..Cardinality(at)
         /\ Len(InOrder(s, at)) = Cardinality(at)
         /\ InOrder(s, at) = <<>> <=> at = {}
<1>1. IsFiniteSet(1..n)
  BY FS_Interval
<1>2. IsFiniteSet(at) /\ Cardinality(at) \in Nat
  BY <1>1, FS_Subset, FS_CardinalityType
<1>3. DOMAIN InOrder(s, at) = 1..Cardinality(at)
  BY DEF InOrder
<1>4. Len(InOrder(s, at)) = Cardinality(at)
  BY <1>2, <1>3
<1>5. Cardinality(at) = 0 <=> at = {}
  BY <1>2, FS_EmptySet
<1>6. InOrder(s, at) = <<>> <=> Cardinality(at) = 0
  BY <1>2, <1>3, <1>4 DEF InOrder
<1> QED
  BY <1>2, <1>3, <1>4, <1>5, <1>6
-----------------------------------------------------------------------------
(* One more object *)

\* Every rank is taken.
Whole(at) == \A n \in 1..Cardinality(at) : \E k \in at : Rank(at, k) = n

LEMMA WholeEmpty == Whole({})
  BY FS_EmptySet DEF Whole

(* A place behind all others takes the next rank and leaves theirs alone. *)
LEMMA RankAdded ==
  ASSUME NEW n \in Nat, NEW at \in SUBSET (1..n)
  PROVE  /\ \A k \in at : Rank(at \cup {n + 1}, k) = Rank(at, k)
         /\ Rank(at \cup {n + 1}, n + 1) = Cardinality(at) + 1
         /\ Cardinality(at \cup {n + 1}) = Cardinality(at) + 1
<1>1. \A k \in at : (at \cup {n + 1}) \cap 1..k = at \cap 1..k
  OBVIOUS
<1>2. (at \cup {n + 1}) \cap 1..(n + 1) = at \cup {n + 1}
  <2>1. at \in SUBSET (1..(n + 1)) /\ n + 1 \in 1..(n + 1)
    OBVIOUS
  <2> QED
    BY <2>1
<1>3. IsFiniteSet(at) /\ n + 1 \notin at
  <2>1. IsFiniteSet(1..n) /\ n + 1 \notin 1..n
    BY FS_Interval
  <2> QED
    BY <2>1, FS_Subset
<1>4. Cardinality(at \cup {n + 1}) = Cardinality(at) + 1
  BY <1>3, FS_AddElement
<1> QED
  BY <1>1, <1>2, <1>4 DEF Rank

LEMMA WholeAdded ==
  ASSUME NEW n \in Nat, NEW at \in SUBSET (1..n), Whole(at)
  PROVE  Whole(at \cup {n + 1})
<1> SUFFICES ASSUME NEW m \in 1..Cardinality(at \cup {n + 1})
             PROVE  \E k \in at \cup {n + 1} : Rank(at \cup {n + 1}, k) = m
  BY DEF Whole
<1>1. Cardinality(at) \in Nat /\ Cardinality(at \cup {n + 1}) = Cardinality(at) + 1
  BY InOrderLength, RankAdded
<1>2. CASE m = Cardinality(at) + 1
  BY <1>2, RankAdded
<1>3. CASE m \in 1..Cardinality(at)
  <2>1. PICK k \in at : Rank(at, k) = m
    BY <1>3 DEF Whole
  <2> QED
    BY <2>1, RankAdded
<1> QED
  BY <1>1, <1>2, <1>3

(* Where every rank is taken, InOrder is made of elements of the sequence. *)
LEMMA InOrderFrom ==
  ASSUME NEW s, NEW n \in Nat, NEW at \in SUBSET (1..n), Whole(at),
         NEW m \in 1..Cardinality(at)
  PROVE  \E k \in at : Rank(at, k) = m /\ InOrder(s, at)[m] = s[k]
<1>1. PICK k \in at : Rank(at, k) = m
  BY DEF Whole
<1> QED
  BY <1>1, InOrderAt

(* InOrder is a function of its places. *)
LEMMA InOrderIs ==
  ASSUME NEW s, NEW at, NEW c, c = Cardinality(at)
  PROVE  InOrder(s, at) = [m \in 1..c |-> InOrder(s, at)[m]]
  BY DEF InOrder

LEMMA InOrderType ==
  ASSUME NEW S, NEW s \in Seq(S), NEW at \in SUBSET (1..Len(s)), Whole(at)
  PROVE  InOrder(s, at) \in Seq(S)
<1>1. Len(s) \in Nat /\ \A k \in 1..Len(s) : s[k] \in S
  BY LenProperties
<1>2. Cardinality(at) \in Nat
  BY <1>1, InOrderLength
<1>3. ASSUME NEW m \in 1..Cardinality(at) PROVE InOrder(s, at)[m] \in S
  <2>1. PICK k \in at : InOrder(s, at)[m] = s[k]
    BY <1>1, InOrderFrom
  <2> QED
    BY <1>1, <2>1
<1>4. InOrder(s, at) \in [1..Cardinality(at) -> S]
  BY <1>3, InOrderIs
<1> QED
  BY <1>2, <1>4, SeqDef

(* One more element of the sequence is picked last, or not at all. *)
LEMMA PickedAppended ==
  ASSUME NEW S, NEW s \in Seq(S), NEW e \in S,
         NEW at \in SUBSET (1..Len(s)), Whole(at),
         NEW more, more = at \cup {Len(s) + 1}, NEW c, c = Cardinality(at)
  PROVE  /\ c \in Nat /\ Cardinality(more) = c + 1
         /\ \A m \in 1..c : /\ InOrder(Append(s, e), at)[m] = InOrder(s, at)[m]
                             /\ InOrder(Append(s, e), more)[m] = InOrder(s, at)[m]
         /\ InOrder(Append(s, e), more)[c + 1] = e
<1>1. Len(s) \in Nat
  BY LenProperties
<1>2. /\ \A k \in 1..Len(s) : Append(s, e)[k] = s[k]
      /\ Append(s, e)[Len(s) + 1] = e
  BY AppendProperties
<1>3. Len(s) + 1 \in Nat /\ more \in SUBSET (1..(Len(s) + 1)) /\ Len(s) + 1 \in more
  <2>1. at \in SUBSET (1..(Len(s) + 1)) /\ Len(s) + 1 \in 1..(Len(s) + 1)
    BY <1>1
  <2>2. more \in SUBSET (1..(Len(s) + 1)) /\ Len(s) + 1 \in more
    BY <2>1
  <2> QED
    BY <1>1, <2>2
<1>4. c \in Nat
  BY <1>1, InOrderLength
<1>5. /\ Cardinality(more) = c + 1 /\ Rank(more, Len(s) + 1) = c + 1
      /\ \A k \in at : Rank(more, k) = Rank(at, k)
  BY <1>1, RankAdded
<1>6. ASSUME NEW m \in 1..c
      PROVE  /\ InOrder(Append(s, e), at)[m] = InOrder(s, at)[m]
             /\ InOrder(Append(s, e), more)[m] = InOrder(s, at)[m]
  <2>1. PICK k \in at : Rank(at, k) = m /\ InOrder(s, at)[m] = s[k]
    BY <1>1, InOrderFrom
  <2>2. InOrder(Append(s, e), at)[m] = Append(s, e)[k]
    BY <1>1, <2>1, InOrderAt
  <2>3. k \in more /\ Rank(more, k) = m
    BY <1>5, <2>1
  <2>4. InOrder(Append(s, e), more)[m] = Append(s, e)[k]
    BY <1>3, <2>3, InOrderAt
  <2> QED
    BY <1>2, <2>1, <2>2, <2>4
<1>7. InOrder(Append(s, e), more)[c + 1] = e
  BY <1>2, <1>3, <1>5, InOrderAt
<1> QED
  BY <1>4, <1>5, <1>6, <1>7

LEMMA InOrderAppended ==
  ASSUME NEW S, NEW s \in Seq(S), NEW e \in S,
         NEW at \in SUBSET (1..Len(s)), Whole(at)
  PROVE  /\ InOrder(Append(s, e), at) = InOrder(s, at)
         /\ InOrder(Append(s, e), at \cup {Len(s) + 1}) = Append(InOrder(s, at), e)
<1>1. PICK c : c = Cardinality(at)
  OBVIOUS
<1>2. PICK more : more = at \cup {Len(s) + 1}
  OBVIOUS
<1>3. PICK old : old = InOrder(s, at)
  OBVIOUS
<1>4. PICK new : new = InOrder(Append(s, e), more)
  OBVIOUS
<1>5. /\ c \in Nat /\ Cardinality(more) = c + 1
      /\ \A m \in 1..c : InOrder(Append(s, e), at)[m] = old[m] /\ new[m] = old[m]
      /\ new[c + 1] = e
  BY <1>1, <1>2, <1>3, <1>4, PickedAppended
<1>6. /\ InOrder(Append(s, e), at) = [m \in 1..c |-> InOrder(Append(s, e), at)[m]]
      /\ old = [m \in 1..c |-> old[m]]
      /\ new = [m \in 1..c + 1 |-> new[m]]
  BY <1>1, <1>3, <1>4, <1>5, InOrderIs
<1>7. InOrder(Append(s, e), at) = old
  BY <1>5, <1>6
<1>8. old \in Seq(S) /\ Len(old) = c
  <2>1. Len(s) \in Nat
    BY LenProperties
  <2> QED
    BY <1>1, <1>3, <2>1, InOrderType, InOrderLength
<1>9. Append(old, e) = [m \in 1..c + 1 |-> IF m = c + 1 THEN e ELSE old[m]]
  <2>1. /\ Append(old, e) \in Seq(S) /\ Len(Append(old, e)) = c + 1
        /\ \A m \in 1..c : Append(old, e)[m] = old[m]
        /\ Append(old, e)[c + 1] = e
    BY <1>8, AppendProperties
  <2>2. Append(old, e) \in [1..c + 1 -> S]
    BY <2>1, LenProperties
  <2>3. \A m \in 1..c + 1 : m \in 1..c \/ m = c + 1
    BY <1>5
  <2> QED
    BY <1>5, <2>1, <2>2, <2>3
<1>10. new = Append(old, e)
  <2>1. ASSUME NEW m \in 1..c + 1
        PROVE  new[m] = IF m = c + 1 THEN e ELSE old[m]
    BY <1>5
  <2> QED
    BY <1>6, <1>9, <2>1
<1> QED
  BY <1>2, <1>3, <1>4, <1>7, <1>10
=============================================================================
