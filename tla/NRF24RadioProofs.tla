-------------------------- MODULE NRF24RadioProofs --------------------------
(***************************************************************************)
(* Theorems of NRF24Radio for every value of its constants.                *)
(***************************************************************************)
EXTENDS NRF24Radio, SequenceTheorems, TLAPS

\* Where drain_fifo_() relies on what it has read from the chip: between the
\* FIFO_STATUS that showed a payload and the command that removes it only the
\* loop could remove it, so it is still there.
RoundInv ==
  /\ pc \in {"missed", "status", "width", "take", "flush"} => fifo # <<>>
  /\ pc \in {"missed", "status", "width", "take", "flush", "dispatch"}
       => guard < GuardLimit
  /\ hand # <<>> <=> pc = "dispatch"

TypeInv == TypeOK /\ RoundInv

\* During radio_init_() the chip hears nothing and its flag is cleared.
InitInv ==
  /\ pc \in {"initReset", "initStart"} => ~ce
  /\ pc = "initStart" => ~rxDR

LineInv == LineArmed /\ InitInv

\* An interrupt raised for a payload that still waits is remembered: by the
\* flag, or by the loop() that has read it, unless that loop() wiped it.
Remembered ==
  \/ irqFlag
  \/ pc = "clearFlag" /\ afterInterrupt
  \/ /\ pc \in {"fifo", "missed", "status", "width", "take", "dispatch", "flush"}
     /\ afterInterrupt \/ overwritten

EdgeInv == \A i \in 1..Len(edged) : edged[i] => Remembered
-----------------------------------------------------------------------------
(* The operators *)

\* Bump touches one counter and keeps it within its limit.
LEMMA BumpType ==
  ASSUME NEW c \in [Counters -> 0..CounterMax], NEW name \in Counters
  PROVE  Bump(c, name) \in [Counters -> 0..CounterMax]
  BY RadioAssumption DEF Bump

\* Only the counter named is bumped.
LEMMA BumpOther ==
  ASSUME NEW c \in [Counters -> 0..CounterMax],
         NEW name \in Counters, NEW other \in Counters, other # name
  PROVE  Bump(c, name)[other] = c[other]
  BY DEF Bump

\* The empty FIFO has the type of a FIFO.
LEMMA EmptyFifo ==
  /\ <<>> \in Seq(Frames) /\ <<>> \in Seq(BOOLEAN)
  /\ Len(<<>>) = 0
  BY EmptySeq

\* The head of a FIFO that is not empty is its first element.
LEMMA HeadIsFirst ==
  ASSUME NEW S, NEW s \in Seq(S), s # <<>>
  PROVE  1 \in 1..Len(s) /\ Head(s) = s[1]
  <1>1. Len(s) \in Nat \ {0}
    BY EmptySeq
  <1>2. QED
    BY <1>1
-----------------------------------------------------------------------------
(* Types *)

\* Initially every variable has its type.
LEMMA TypeInit == Init => TypeInv
  <1> SUFFICES ASSUME Init PROVE TypeInv
    OBVIOUS
  <1> USE RadioAssumption DEF Init
  <1>1. FifoTypeOK
    BY EmptyFifo DEF FifoTypeOK
  <1>2. FlagTypeOK
    BY DEF FlagTypeOK
  <1>3. HubTypeOK
    BY DEF HubTypeOK, Counters
  <1>4. RunTypeOK
    BY DEF RunTypeOK, Steps, DrainSteps, InitSteps
  <1>5. RoundInv
    BY DEF RoundInv
  <1>6. QED
    BY <1>1, <1>2, <1>3, <1>4, <1>5 DEF TypeInv, TypeOK

\* The environment keeps the types: it only adds to the FIFO.
LEMMA TypeEnvironment == TypeInv /\ Environment => TypeInv'
  <1> SUFFICES ASSUME TypeInv, Environment PROVE TypeInv'
    OBVIOUS
  <1> USE RadioAssumption DEF TypeInv, TypeOK, FifoTypeOK, FlagTypeOK, HubTypeOK, RunTypeOK,
          RoundInv, chip, run
  <1>1. CASE SpuriousRxDR
    BY <1>1 DEF SpuriousRxDR, RaiseRxDR
  <1>2. CASE Tick
    BY <1>2 DEF Tick
  <1>3. ASSUME NEW f \in Frames, Receive(f)
        PROVE  TypeInv'
    <2>1. /\ fifo' \in Seq(Frames)
          /\ Len(fifo') = Len(fifo) + 1
          /\ fifo' # <<>>
      BY <1>3, AppendProperties DEF Receive
    <2>2. edged' \in Seq(BOOLEAN) /\ Len(edged') = Len(edged) + 1
      <3>1. (IrqPin /\ ~rxDR) \in BOOLEAN
        BY Zenon
      <3>2. QED
        BY <1>3, <3>1, AppendProperties DEF Receive
    <2>3. QED
      BY <1>3, <2>1, <2>2 DEF Receive, RaiseRxDR
  <1>4. QED
    BY <1>1, <1>2, <1>3 DEF Environment

\* So does every step of the loop.
LEMMA TypeLoop == TypeInv /\ Loop => TypeInv'
  <1> SUFFICES ASSUME TypeInv, Loop PROVE TypeInv'
    OBVIOUS
  <1> USE RadioAssumption
      DEF TypeInv, TypeOK, FifoTypeOK, FlagTypeOK, HubTypeOK, RunTypeOK,
          RoundInv, chip, hub, run, Goto,
          Steps, DrainSteps, InitSteps
  <1>1. CASE ReadFlag
    BY <1>1 DEF ReadFlag
  <1>2. CASE ClearFlag
    <2>1. (irqFlag /\ ~afterInterrupt) \in BOOLEAN
      BY Zenon
    <2>2. overwritten' \in BOOLEAN
      BY <1>2, <2>1, Zenon DEF ClearFlag
    <2>3. FifoTypeOK' /\ HubTypeOK'
      BY <1>2 DEF ClearFlag
    <2>4. FlagTypeOK'
      BY <1>2, <2>2 DEF ClearFlag
    <2>5. RunTypeOK' /\ RoundInv'
      BY <1>2 DEF ClearFlag
    <2>6. QED
      BY <2>3, <2>4, <2>5
  <1>3. CASE FindEmpty
    BY <1>3 DEF FindEmpty
  <1>4. CASE FindPayload
    <2>1. count' \in [Counters -> 0..CounterMax]
      BY <1>4, BumpType DEF FindPayload, Counters
    <2>2. QED
      BY <1>4, <2>1 DEF FindPayload
  <1>5. CASE GuardExhausted
    BY <1>5 DEF GuardExhausted
  <1>6. CASE CheckMissed
    <2>1. count' \in [Counters -> 0..CounterMax] /\ counted' \in BOOLEAN
      BY <1>6, BumpType DEF CheckMissed, Counters
    <2>2. QED
      BY <1>6, <2>1 DEF CheckMissed
  <1>7. CASE ReadPipe
    BY <1>7 DEF ReadPipe
  <1>8. CASE ReadWidth
    <2>1. count' \in [Counters -> 0..CounterMax]
      BY <1>8, BumpType DEF ReadWidth, Counters
    <2>2. QED
      BY <1>8, <2>1 DEF ReadWidth
  <1>9. CASE FlushRx
    BY <1>9, EmptyFifo DEF FlushRx
  <1>10. CASE ClearAfterFlush
    BY <1>10 DEF ClearAfterFlush
  <1>11. CASE ReadPayload
    <2>1. /\ Head(fifo) \in Frames
          /\ fifo' \in Seq(Frames) /\ Len(fifo') = Len(fifo) - 1
      BY <1>11, HeadTailProperties DEF ReadPayload
    <2>2. edged' \in Seq(BOOLEAN) /\ Len(edged') = Len(edged) - 1
      <3>1. edged # <<>>
        BY <1>11 DEF ReadPayload
      <3>2. QED
        BY <1>11, <3>1, HeadTailProperties DEF ReadPayload
    <2>3. QED
      BY <1>11, <2>1, <2>2 DEF ReadPayload
  <1>12. CASE ClearAndDispatch
    <2>1. PICK f \in Frames : hand = <<f>>
      BY <1>12 DEF ClearAndDispatch
    <2>2. last' = f
      BY <1>12, <2>1 DEF ClearAndDispatch
    <2>3. FifoTypeOK' /\ FlagTypeOK'
      BY <1>12 DEF ClearAndDispatch
    <2>4. HubTypeOK'
      BY <1>12, <2>2 DEF ClearAndDispatch
    <2>5. RunTypeOK'
      BY <1>12 DEF ClearAndDispatch
    <2>6. RoundInv'
      BY <1>12 DEF ClearAndDispatch
    <2>7. QED
      BY <2>3, <2>4, <2>5, <2>6
  <1>13. CASE ReadStatusWhenEmpty
    BY <1>13 DEF ReadStatusWhenEmpty
  <1>14. CASE ClearWhenEmpty
    BY <1>14 DEF ClearWhenEmpty
  <1>15. CASE Watchdog
    <2>1. count' \in [Counters -> 0..CounterMax]
      BY <1>15, BumpType DEF Watchdog, Counters
    <2>2. QED
      BY <1>15, <2>1 DEF Watchdog
  <1>16. CASE InitStop
    BY <1>16 DEF InitStop
  <1>17. CASE InitReset
    <2>1. FifoTypeOK'
      BY <1>17, EmptyFifo DEF InitReset
    <2>2. FlagTypeOK' /\ HubTypeOK' /\ RunTypeOK' /\ RoundInv'
      BY <1>17 DEF InitReset
    <2>3. QED
      BY <2>1, <2>2
  <1>18. CASE InitStart
    BY <1>18 DEF InitStart
  <1>19. QED
    BY <1>1, <1>2, <1>3, <1>4, <1>5, <1>6, <1>7, <1>8, <1>9, <1>10, <1>11,
       <1>12, <1>13, <1>14, <1>15, <1>16, <1>17, <1>18
    DEF Loop, Drain

\* The types, and the rounds of drain_fifo_() acting on what they have read.
LEMMA TypeInvariance == Spec => []TypeInv
  <1>1. TypeInv /\ [Next]_vars => TypeInv'
    <2>1. TypeInv /\ UNCHANGED vars => TypeInv'
      BY DEF TypeInv, TypeOK, FifoTypeOK, FlagTypeOK, HubTypeOK, RunTypeOK,
          RoundInv, vars, chip, hub, run
    <2>2. QED
      BY <2>1, TypeEnvironment, TypeLoop DEF Next
  <1>2. QED
    BY <1>1, TypeInit, PTL DEF Spec

\* Every variable keeps its type: drain_fifo_() never takes from an empty FIFO,
\* never exceeds its guard, and no counter passes its limit.
THEOREM TypeCorrect == Spec => []TypeOK
  BY TypeInvariance, PTL DEF TypeInv
-----------------------------------------------------------------------------
(* The IRQ line *)

\* The line is armed between two loops, by induction with InitInv: drain_fifo_()
\* ends by finding RX_DR clear, by clearing it, or by raising the flag itself.
LEMMA LineStep == TypeInv /\ LineInv /\ [Next]_vars => LineInv'
  <1> SUFFICES ASSUME TypeInv, LineInv, [Next]_vars PROVE LineInv'
    OBVIOUS
  <1>0. rxDR \in BOOLEAN /\ irqFlag \in BOOLEAN /\ IrqPin \in BOOLEAN
    BY RadioAssumption DEF TypeInv, TypeOK, FlagTypeOK
  <1> USE <1>0 DEF LineInv, LineArmed, InitInv, chip, hub, run, Goto
  <1>1. CASE Environment
    BY <1>1 DEF Environment, SpuriousRxDR, Tick, Receive, RaiseRxDR
  <1>2. CASE Drain
    <2>1. CASE FindEmpty \/ FindPayload \/ GuardExhausted
      BY <2>1 DEF FindEmpty, FindPayload, GuardExhausted
    <2>2. CASE CheckMissed \/ ReadPipe \/ ReadWidth
      BY <2>2 DEF CheckMissed, ReadPipe, ReadWidth
    <2>3. CASE FlushRx \/ ClearAfterFlush
      BY <2>3 DEF FlushRx, ClearAfterFlush
    <2>4. CASE ReadPayload \/ ClearAndDispatch
      BY <2>4 DEF ReadPayload, ClearAndDispatch
    <2>5. CASE ReadStatusWhenEmpty \/ ClearWhenEmpty
      BY <2>5 DEF ReadStatusWhenEmpty, ClearWhenEmpty
    <2>6. QED
      BY <1>2, <2>1, <2>2, <2>3, <2>4, <2>5 DEF Drain
  <1>3. CASE ReadFlag \/ ClearFlag
    BY <1>3 DEF ReadFlag, ClearFlag
  <1>4. CASE Watchdog
    BY <1>4 DEF Watchdog
  <1>5. CASE InitStop \/ InitReset \/ InitStart
    BY <1>5 DEF InitStop, InitReset, InitStart
  <1>6. CASE UNCHANGED vars
    BY <1>6 DEF vars
  <1>7. QED
    BY <1>1, <1>2, <1>3, <1>4, <1>5, <1>6 DEF Next, Loop

\* Between two loops RX_DR never holds the IRQ line down without irq_flag_ being
\* up: the receiver that fell silent for good cannot happen.
THEOREM LineAlwaysArmed == Spec => []LineArmed
  <1>1. Init => LineInv
    BY DEF Init, LineInv, LineArmed, InitInv
  <1>2. Spec => []LineInv
    BY <1>1, LineStep, TypeInvariance, PTL DEF Spec
  <1>3. QED
    BY <1>2, PTL DEF LineInv
-----------------------------------------------------------------------------
(* Interrupts that are missed *)

\* Steps that leave the FIFO alone keep EdgeInv if they forget no interrupt.
LEMMA EdgeKept ==
  ASSUME EdgeInv, edged' = edged, Remembered => Remembered'
  PROVE  EdgeInv'
  BY DEF EdgeInv

\* An interrupt for a payload that waits is remembered: loop() clears the flag
\* only to drain, and drains until the FIFO is empty, flushed, or the flag is
\* raised again.
LEMMA EdgeStep == TypeInv /\ EdgeInv /\ [Next]_vars => EdgeInv'
  <1> SUFFICES ASSUME TypeInv, EdgeInv, [Next]_vars PROVE EdgeInv'
    OBVIOUS
  <1> USE DEF Remembered, chip, hub, run, Goto
  <1>1. ASSUME NEW f \in Frames, Receive(f)
        PROVE  EdgeInv'
    <2>1. edged \in Seq(BOOLEAN)
      BY DEF TypeInv, TypeOK, FifoTypeOK
    <2>2. (IrqPin /\ ~rxDR) \in BOOLEAN
      BY Zenon
    <2>3. /\ edged' = Append(edged, IrqPin /\ ~rxDR)
          /\ irqFlag' = (irqFlag \/ (IrqPin /\ ~rxDR))
          /\ UNCHANGED <<pc, afterInterrupt, overwritten>>
      BY <1>1, Zenon DEF Receive, RaiseRxDR
    <2>4. SUFFICES ASSUME NEW i \in 1..Len(edged'), edged'[i]
                   PROVE  Remembered'
      BY DEF EdgeInv
    <2>5. CASE i = Len(edged) + 1
      <3>1. edged'[i] = (IrqPin /\ ~rxDR)
        BY <2>1, <2>2, <2>3, <2>5, AppendProperties
      <3>2. irqFlag'
        BY <2>3, <2>4, <3>1, Zenon
      <3>3. QED
        BY <3>2
    <2>6. CASE i \in 1..Len(edged)
      <3>1. edged'[i] = edged[i]
        BY <2>1, <2>2, <2>3, <2>6, AppendProperties
      <3>2. Remembered
        BY <2>4, <2>6, <3>1 DEF EdgeInv
      <3>3. QED
        BY <2>3, <3>2, Zenon
    <2>7. QED
      <3>1. Len(edged') = Len(edged) + 1 /\ Len(edged) \in Nat
        BY <2>1, <2>2, <2>3, AppendProperties, LenProperties
      <3>2. QED
        BY <2>4, <2>5, <2>6, <3>1
  <1>2. CASE SpuriousRxDR \/ Tick
    <2>1. UNCHANGED <<edged, pc, afterInterrupt, overwritten>>
      BY <1>2 DEF SpuriousRxDR, Tick
    <2>2. irqFlag => irqFlag'
      <3>1. irqFlag' = irqFlag \/ irqFlag' = (irqFlag \/ (IrqPin /\ ~rxDR))
        BY <1>2, Zenon DEF SpuriousRxDR, Tick, RaiseRxDR
      <3>2. QED
        BY <3>1, Zenon
    <2>3. QED
      BY <2>1, <2>2, EdgeKept
  <1>3. CASE ReadFlag
    BY <1>3, EdgeKept, Zenon DEF ReadFlag
  <1>4. CASE ClearFlag
    BY <1>4, EdgeKept, Zenon DEF ClearFlag
  <1>5. CASE FindEmpty
    <2>1. edged' = <<>>
      BY <1>5, EmptySeq DEF FindEmpty, TypeInv, TypeOK, FifoTypeOK
    <2>2. QED
      BY <2>1, EmptyFifo DEF EdgeInv
  <1>6. CASE FindPayload
    BY <1>6, EdgeKept DEF FindPayload
  <1>7. CASE GuardExhausted
    BY <1>7, EdgeKept DEF GuardExhausted
  <1>8. CASE CheckMissed
    BY <1>8, EdgeKept DEF CheckMissed
  <1>9. CASE ReadPipe \/ ReadWidth
    BY <1>9, EdgeKept DEF ReadPipe, ReadWidth
  <1>10. CASE FlushRx \/ InitReset
    BY <1>10, EmptyFifo DEF EdgeInv, FlushRx, InitReset
  <1>11. CASE ReadPayload
    <2>1. edged \in Seq(BOOLEAN) /\ edged # <<>>
      BY <1>11 DEF ReadPayload, TypeInv, TypeOK, FifoTypeOK, RoundInv
    <2>2. /\ Len(edged') = Len(edged) - 1
          /\ \A i \in 1..Len(edged') : edged'[i] = edged[i + 1]
      BY <1>11, <2>1, HeadTailProperties DEF ReadPayload
    <2>3. Len(edged) \in Nat
      BY <2>1, LenProperties
    <2>4. Remembered => Remembered'
      BY <1>11 DEF ReadPayload
    <2>5. QED
      BY <2>2, <2>3, <2>4 DEF EdgeInv
  <1>12. CASE ClearAndDispatch
    BY <1>12, EdgeKept DEF ClearAndDispatch
  <1>13. CASE ClearAfterFlush \/ ReadStatusWhenEmpty \/ ClearWhenEmpty
    BY <1>13, EdgeKept
    DEF ClearAfterFlush, ReadStatusWhenEmpty, ClearWhenEmpty
  <1>14. CASE Watchdog \/ InitStop \/ InitStart
    BY <1>14, EdgeKept DEF Watchdog, InitStop, InitStart
  <1>15. CASE UNCHANGED vars
    BY <1>15, EdgeKept DEF vars
  <1>16. QED
    BY <1>1, <1>2, <1>3, <1>4, <1>5, <1>6, <1>7, <1>8, <1>9, <1>10, <1>11,
       <1>12, <1>13, <1>14, <1>15
    DEF Next, Loop, Drain, Environment

\* Only CheckMissed counts a missed interrupt.
LEMMA MissedOnlyThere ==
  ASSUME TypeInv, [Next]_vars, count'["missed"] > count["missed"]
  PROVE  CheckMissed /\ ~afterInterrupt /\ ~irqFlag
  <1> USE DEF TypeInv, TypeOK, HubTypeOK, chip, hub, run
  <1>1. count \in [Counters -> 0..CounterMax] /\ count["missed"] \in Int
    BY RadioAssumption DEF Counters
  <1>2. ~(count["missed"] > count["missed"])
    BY <1>1
  <1>3. \A name \in Counters \ {"missed"} :
          Bump(count, name)["missed"] = count["missed"]
    BY <1>1, BumpOther DEF Counters
  <1>4. CASE FindPayload \/ ReadWidth \/ Watchdog
    BY <1>2, <1>3, <1>4 DEF FindPayload, ReadWidth, Watchdog, Counters
  <1>5. CASE CheckMissed
    BY <1>2, <1>5 DEF CheckMissed
  <1>6. CASE UNCHANGED count
    BY <1>2, <1>6
  <1>7. CASE Environment
    BY <1>6, <1>7 DEF Environment, SpuriousRxDR, Tick, Receive
  <1>8. CASE ReadFlag \/ ClearFlag \/ InitStop \/ InitReset \/ InitStart
    BY <1>6, <1>8 DEF ReadFlag, ClearFlag, InitStop, InitReset, InitStart
  <1>9. CASE FindEmpty \/ GuardExhausted \/ ReadPipe \/ FlushRx
    BY <1>6, <1>9 DEF FindEmpty, GuardExhausted, ReadPipe, FlushRx
  <1>10. CASE ClearAfterFlush \/ ReadPayload \/ ClearAndDispatch
    BY <1>6, <1>10 DEF ClearAfterFlush, ReadPayload, ClearAndDispatch
  <1>11. CASE ReadStatusWhenEmpty \/ ClearWhenEmpty
    BY <1>6, <1>11 DEF ReadStatusWhenEmpty, ClearWhenEmpty
  <1>12. QED
    BY <1>4, <1>5, <1>6, <1>7, <1>8, <1>9, <1>10, <1>11
    DEF Next, Loop, Drain, vars

\* irq_missed_count_ counts a payload whose interrupt was delivered only if the
\* loop() that finds it wiped the flag between reading and clearing it.
THEOREM MissedExplained == Spec => MissedIsExplained
  <1>1. Init => EdgeInv
    BY EmptyFifo DEF Init, EdgeInv
  <1>2. Spec => []EdgeInv
    BY <1>1, EdgeStep, TypeInvariance, PTL DEF Spec
  <1>3. TypeInv /\ EdgeInv /\ [Next]_vars
          => (count'["missed"] > count["missed"]
                => ~Head(edged) \/ overwritten)
    <2> SUFFICES ASSUME TypeInv, EdgeInv, [Next]_vars,
                        count'["missed"] > count["missed"], Head(edged)
                 PROVE  overwritten
      OBVIOUS
    <2>1. CheckMissed /\ ~afterInterrupt /\ ~irqFlag
      BY MissedOnlyThere
    <2>2. pc = "missed" /\ fifo # <<>>
      BY <2>1 DEF CheckMissed, Goto, TypeInv, RoundInv
    <2>3. edged \in Seq(BOOLEAN) /\ edged # <<>>
      BY <2>2, EmptySeq DEF TypeInv, TypeOK, FifoTypeOK
    <2>4. 1 \in 1..Len(edged) /\ Head(edged) = edged[1]
      BY <2>3, HeadIsFirst
    <2>5. edged[1]
      BY <2>4
    <2>6. Remembered
      BY <2>4, <2>5 DEF EdgeInv
    <2>7. QED
      BY <2>1, <2>2, <2>6 DEF Remembered
  <1>4. QED
    BY <1>2, <1>3, TypeInvariance, PTL DEF Spec, MissedIsExplained
-----------------------------------------------------------------------------
(* The listeners' view *)

\* A frame in front of a sequence is its head, and what follows its tail.
LEMMA ConsFacts ==
  ASSUME NEW S, NEW e \in S, NEW s \in Seq(S)
  PROVE  /\ <<e>> \o s \in Seq(S)
         /\ <<e>> \o s # <<>>
         /\ Head(<<e>> \o s) = e
         /\ Tail(<<e>> \o s) = s
  <1> DEFINE q == <<e>> \o s
  <1>1. <<e>> \in Seq(S) /\ Len(<<e>>) = 1 /\ <<e>>[1] = e
    OBVIOUS
  <1>2. /\ q \in Seq(S) /\ Len(q) = 1 + Len(s)
        /\ \A i \in 1..1 + Len(s) : q[i] = IF i <= 1 THEN e ELSE s[i - 1]
    BY <1>1, ConcatProperties
  <1>3. Len(s) \in Nat
    BY LenProperties
  <1> HIDE DEF q
  <1>4. q # <<>>
    BY <1>2, <1>3, EmptySeq
  <1>5. Head(q) = e
    BY <1>2, <1>3, <1>4, HeadIsFirst
  <1>6. /\ Tail(q) \in Seq(S) /\ Len(Tail(q)) = Len(s)
        /\ \A i \in 1..Len(s) : Tail(q)[i] = s[i]
    BY <1>2, <1>3, <1>4, HeadTailProperties
  <1>7. Tail(q) = s
    BY <1>6, SeqEqual
  <1>8. QED
    BY <1>2, <1>4, <1>5, <1>7 DEF q

\* Taking the head off and putting it in front again changes nothing.
LEMMA HeadThenTail ==
  ASSUME NEW S, NEW s \in Seq(S), s # <<>>
  PROVE  <<Head(s)>> \o Tail(s) = s
  <1>1. Len(s) \in Nat \ {0}
    BY EmptySeq
  <1>2. SubSeq(s, 1, Len(s)) = <<s[1]>> \o SubSeq(s, 2, Len(s))
    BY <1>1, SubSeqRecursiveFirst
  <1>3. /\ SubSeq(s, 1, Len(s)) = s
        /\ Tail(s) = SubSeq(s, 2, Len(s))
        /\ Head(s) = s[1]
    BY SubSeqFull, TailIsSubSeq, HeadIsFirst
  <1>4. QED
    BY <1>2, <1>3

\* Receiving appends to what waits, whether or not a payload is in hand.
LEMMA ReceiveAppends ==
  ASSUME TypeInv, NEW f \in Frames
  PROVE  /\ hand \o Append(fifo, f) = Append(hand \o fifo, f)
         /\ Len(fifo) < FifoDepth => Len(hand \o fifo) < FifoDepth + 1
  <1>1. fifo \in Seq(Frames) /\ <<f>> \in Seq(Frames)
    BY DEF TypeInv, TypeOK, FifoTypeOK
  <1>2. hand \in Seq(Frames) /\ Len(hand) \in 0..1
    <2>1. CASE hand = <<>>
      BY <2>1, EmptyFifo
    <2>2. CASE \E g \in Frames : hand = <<g>>
      BY <2>2
    <2>3. QED
      BY <2>1, <2>2 DEF TypeInv, TypeOK, RunTypeOK
  <1>3. hand \o fifo \in Seq(Frames) /\ Len(hand \o fifo) = Len(hand) + Len(fifo)
    BY <1>1, <1>2, ConcatProperties
  <1>4. /\ Append(fifo, f) = fifo \o <<f>>
        /\ Append(hand \o fifo, f) = (hand \o fifo) \o <<f>>
    BY <1>1, <1>3, AppendIsConcat
  <1>5. hand \o Append(fifo, f) = Append(hand \o fifo, f)
    BY <1>1, <1>2, <1>4, ConcatAssociative
  <1>6. FifoDepth \in Nat /\ Len(fifo) \in Nat
    BY <1>1, LenProperties, RadioAssumption
  <1>7. Len(fifo) < FifoDepth => Len(hand \o fifo) < FifoDepth + 1
    <2> DEFINE h == Len(hand)
               n == Len(fifo)
    <2>1. h \in 0..1 /\ n \in Nat /\ Len(hand \o fifo) = h + n
      BY <1>2, <1>3, <1>6
    <2> HIDE DEF h
    <2>2. QED
      BY <1>6, <2>1
  <1>8. QED
    BY <1>5, <1>7

\* Every step of the radio is a step of the channel or leaves it alone.
LEMMA ChannelStep == TypeInv /\ [Next]_vars => [Channel!Next]_(Channel!vars)
  <1> SUFFICES ASSUME TypeInv, [Next]_vars
               PROVE  [Channel!Next]_(Channel!vars)
    OBVIOUS
  <1>0. /\ fifo \in Seq(Frames)
        /\ pc # "dispatch" => hand = <<>>
    BY DEF TypeInv, TypeOK, FifoTypeOK, RoundInv
  <1> USE DEF chip, hub, run, Goto
  <1>1. CASE UNCHANGED <<fifo, hand, last>>
    BY <1>1 DEF Channel!vars
  <1>2. ASSUME NEW f \in Frames, Receive(f)
        PROVE  Channel!Next
    <2>1. Channel!Receive(f)
      BY <1>2, ReceiveAppends DEF Receive, Channel!Receive
    <2>2. QED
      BY <2>1 DEF Channel!Next
  <1>3. CASE FlushRx \/ InitReset
    <2>1. fifo' = <<>> /\ hand' = <<>> /\ last' = last
      BY <1>0, <1>3 DEF FlushRx, InitReset
    <2>2. hand' \o fifo' = <<>>
      BY <2>1, EmptyFifo, ConcatEmptySeq
    <2>3. Channel!Purge
      BY <2>1, <2>2 DEF Channel!Purge
    <2>4. QED
      BY <2>3 DEF Channel!Next
  <1>4. CASE ReadPayload
    <2>1. /\ fifo # <<>> /\ hand = <<>> /\ last' = last
          /\ hand' = <<Head(fifo)>> /\ fifo' = Tail(fifo)
      BY <1>0, <1>4 DEF ReadPayload, TypeInv, RoundInv
    <2>2. hand' \o fifo' = fifo
      BY <1>0, <2>1, HeadThenTail
    <2>3. hand \o fifo = fifo
      BY <1>0, <2>1, ConcatEmptySeq
    <2>4. QED
      BY <2>1, <2>2, <2>3 DEF Channel!vars
  <1>5. CASE ClearAndDispatch
    <2>1. PICK f \in Frames : hand = <<f>>
      BY <1>5 DEF ClearAndDispatch, TypeInv, TypeOK, RunTypeOK, RoundInv
    <2>2. last' = f /\ hand' = <<>> /\ fifo' = fifo
      BY <1>5, <2>1 DEF ClearAndDispatch
    <2>3. /\ hand \o fifo # <<>>
          /\ Head(hand \o fifo) = f
          /\ Tail(hand \o fifo) = fifo
      BY <1>0, <2>1, ConsFacts
    <2>4. hand' \o fifo' = fifo
      BY <1>0, <2>2, ConcatEmptySeq
    <2>5. Channel!HandOver
      BY <2>2, <2>3, <2>4 DEF Channel!HandOver
    <2>6. QED
      BY <2>5 DEF Channel!Next
  <1>6. CASE SpuriousRxDR \/ Tick \/ ReadFlag \/ ClearFlag
    BY <1>1, <1>6 DEF SpuriousRxDR, Tick, ReadFlag, ClearFlag
  <1>7. CASE FindEmpty \/ FindPayload \/ GuardExhausted \/ CheckMissed
    BY <1>1, <1>7 DEF FindEmpty, FindPayload, GuardExhausted, CheckMissed
  <1>8. CASE ReadPipe \/ ReadWidth \/ ClearAfterFlush
    BY <1>1, <1>8 DEF ReadPipe, ReadWidth, ClearAfterFlush
  <1>9. CASE ReadStatusWhenEmpty \/ ClearWhenEmpty
    BY <1>1, <1>9 DEF ReadStatusWhenEmpty, ClearWhenEmpty
  <1>10. CASE Watchdog \/ InitStop \/ InitStart
    BY <1>1, <1>10 DEF Watchdog, InitStop, InitStart
  <1>11. CASE UNCHANGED vars
    BY <1>1, <1>11 DEF vars
  <1>12. QED
    BY <1>2, <1>3, <1>4, <1>5, <1>6, <1>7, <1>8, <1>9, <1>10, <1>11
    DEF Next, Loop, Drain, Environment

\* The radio hands each frame to the listeners at most once and in the order of
\* arrival, and loses waiting frames only all at once (the safety part of
\* ImplementsChannel; that none waits for ever is left to TLC).
THEOREM RefinesChannel == Spec => Channel!SafeSpec
  <1>1. Init => Channel!Init
    BY EmptyFifo, ConcatEmptySeq DEF Init, Channel!Init
  <1>2. QED
    BY <1>1, ChannelStep, TypeInvariance, PTL DEF Spec, Channel!SafeSpec
-----------------------------------------------------------------------------
(* Discarded payloads *)

\* The counters that announce a discard, at the step that discards.
DiscardInv ==
  CounterMax > 0 =>
    /\ pc = "flush" => count["bad"] > 0
    /\ pc \in InitSteps => count["watchdog"] > 0 \/ (fifo = <<>> /\ ~ce)

\* A counter that was bumped is not zero unless it may not count at all, and
\* no counter ever falls.
LEMMA BumpGrows ==
  ASSUME NEW c \in [Counters -> 0..CounterMax],
         NEW name \in Counters, NEW other \in Counters
  PROVE  /\ CounterMax > 0 => Bump(c, name)[name] > 0
         /\ c[other] > 0 => Bump(c, name)[other] > 0
  BY RadioAssumption DEF Bump

\* Both discards are entered through the counter that announces them.
LEMMA DiscardStep == TypeInv /\ DiscardInv /\ [Next]_vars => DiscardInv'
  <1> SUFFICES ASSUME TypeInv, DiscardInv, [Next]_vars, CounterMax > 0
               PROVE  DiscardInv'
    BY DEF DiscardInv
  <1>0. count \in [Counters -> 0..CounterMax]
    BY DEF TypeInv, TypeOK, HubTypeOK
  <1> USE DEF DiscardInv, chip, hub, run, Goto, InitSteps
  <1>1. CASE Environment
    BY <1>1 DEF Environment, SpuriousRxDR, Tick, Receive
  <1>2. CASE ReadFlag \/ ClearFlag \/ FindEmpty \/ FindPayload \/ GuardExhausted
    BY <1>2 DEF ReadFlag, ClearFlag, FindEmpty, FindPayload, GuardExhausted
  <1>3. CASE CheckMissed \/ ReadPipe
    BY <1>3 DEF CheckMissed, ReadPipe
  <1>4. CASE ReadWidth
    BY <1>0, <1>4, BumpGrows DEF ReadWidth, Counters
  <1>5. CASE FlushRx \/ ClearAfterFlush \/ ReadPayload \/ ClearAndDispatch
    BY <1>5 DEF FlushRx, ClearAfterFlush, ReadPayload, ClearAndDispatch
  <1>6. CASE ReadStatusWhenEmpty \/ ClearWhenEmpty
    BY <1>6 DEF ReadStatusWhenEmpty, ClearWhenEmpty
  <1>7. CASE Watchdog
    BY <1>0, <1>7, BumpGrows DEF Watchdog, Counters
  <1>8. CASE InitStop \/ InitReset \/ InitStart
    BY <1>8 DEF InitStop, InitReset, InitStart
  <1>9. CASE UNCHANGED vars
    BY <1>9 DEF vars
  <1>10. QED
    BY <1>1, <1>2, <1>3, <1>4, <1>5, <1>6, <1>7, <1>8, <1>9
    DEF Next, Loop, Drain

\* Only two steps empty the FIFO without taking a payload in hand.
LEMMA DiscardOnlyThere ==
  ASSUME TypeInv, [Next]_vars, fifo # <<>>, fifo' = <<>>, hand' = hand
  PROVE  FlushRx \/ InitReset
  <1> USE DEF chip, hub, run
  <1>1. ~UNCHANGED fifo
    OBVIOUS
  <1>2. CASE Environment
    <2>1. ASSUME NEW f \in Frames, Receive(f) PROVE FALSE
      BY <2>1, AppendProperties DEF Receive, TypeInv, TypeOK, FifoTypeOK
    <2>2. QED
      BY <1>1, <1>2, <2>1 DEF Environment, SpuriousRxDR, Tick
  <1>3. CASE ReadPayload
    BY <1>3 DEF ReadPayload, Goto, TypeInv, RoundInv
  <1>4. CASE ReadFlag \/ ClearFlag \/ FindEmpty \/ FindPayload \/ GuardExhausted
    BY <1>1, <1>4 DEF ReadFlag, ClearFlag, FindEmpty, FindPayload, GuardExhausted
  <1>5. CASE CheckMissed \/ ReadPipe \/ ReadWidth \/ ClearAfterFlush
    BY <1>1, <1>5 DEF CheckMissed, ReadPipe, ReadWidth, ClearAfterFlush
  <1>6. CASE ClearAndDispatch \/ ReadStatusWhenEmpty \/ ClearWhenEmpty
    BY <1>1, <1>6 DEF ClearAndDispatch, ReadStatusWhenEmpty, ClearWhenEmpty
  <1>7. CASE Watchdog \/ InitStop \/ InitStart
    BY <1>1, <1>7 DEF Watchdog, InitStop, InitStart
  <1>8. QED
    BY <1>1, <1>2, <1>3, <1>4, <1>5, <1>6, <1>7
    DEF Next, Loop, Drain, vars

\* Received payloads are thrown away only after bad_length_count_ or
\* watchdog_count_ has moved.
THEOREM DiscardsCounted == Spec => DiscardIsCounted
  <1>1. Init => DiscardInv
    BY DEF Init, DiscardInv
  <1>2. Spec => []DiscardInv
    BY <1>1, DiscardStep, TypeInvariance, PTL DEF Spec
  <1>3. TypeInv /\ DiscardInv /\ [Next]_vars
          => (fifo # <<>> /\ fifo' = <<>> /\ hand' = hand /\ CounterMax > 0
                => count["bad"] + count["watchdog"] > 0)
    <2> SUFFICES ASSUME TypeInv, DiscardInv, [Next]_vars, CounterMax > 0,
                        fifo # <<>>, fifo' = <<>>, hand' = hand
                 PROVE  count["bad"] + count["watchdog"] > 0
      OBVIOUS
    <2>1. count["bad"] \in Nat /\ count["watchdog"] \in Nat
      BY RadioAssumption DEF TypeInv, TypeOK, HubTypeOK, Counters
    <2>2. count["bad"] > 0 \/ count["watchdog"] > 0
      BY DiscardOnlyThere DEF DiscardInv, FlushRx, InitReset, InitSteps, Goto
    <2>3. QED
      BY <2>1, <2>2
  <1>4. QED
    BY <1>2, <1>3, TypeInvariance, PTL DEF Spec, DiscardIsCounted
=============================================================================
