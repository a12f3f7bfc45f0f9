-------------------------- MODULE RadioFaultsProofs --------------------------
(***************************************************************************)
(* Proofs about RadioFaults for every FIFO, every guard, every mix of      *)
(* pipes and any number of faults: a radio that is not there does not      *)
(* flood the listeners, a chip without power holds nothing, one that holds *)
(* but part of its registers is reported, and what is handed over stays in *)
(* order.                                                                  *)
(***************************************************************************)
EXTENDS RadioFaults, NRF24RadioProofs, SequenceTheorems, TLAPS

Counted == faults \in Nat /\ returns \in Nat /\ ghosts \in Nat

\* A payload was announced that is not there, and may be read all the same.
AtRisk ==
  \/ pc \in {"missed", "status", "width"} /\ Answers /\ fifo = <<>>
  \/ pc = "take" /\ Missing

\* Each risk was bought with a fault no ghost has been charged to.
GhostInv ==
  /\ fifo \in Seq(Frames) /\ Counted
  /\ ghosts <= faults + returns
  /\ AtRisk => ghosts < faults + returns

LEMMA GhostInit == FaultInit => GhostInv
<1>1. <<>> \in Seq(Frames)
  BY EmptySeq
<1> QED
  BY <1>1 DEF FaultInit, Init, GhostInv, Counted, AtRisk

(* What a chip has received and the hub has not read is still there. *)
LEMMA Received ==
  ASSUME fifo \in Seq(Frames), NEW f \in Frames
  PROVE  Append(fifo, f) \in Seq(Frames) /\ Append(fifo, f) # <<>>
  BY AppendProperties

\* Nothing is read, charged or lost.
Uncharged == UNCHANGED history

(* Steps of loop() that no answer matters to. *)
LEMMA GhostUnanswered == GhostInv /\ Unanswered => GhostInv'
<1> SUFFICES ASSUME GhostInv, Unanswered PROVE GhostInv'
  OBVIOUS
<1>1. miso' = miso /\ Uncharged
  BY DEF Unanswered, Uncharged
<1>2. CASE fifo' = fifo /\ pc' \notin {"missed", "width", "take"} /\ (pc' = "status" => pc = "missed")
  BY <1>1, <1>2 DEF Uncharged, history, GhostInv, Counted, AtRisk, Answers, Missing
<1>3. CASE FlushRx
  <2>1. fifo' \in Seq(Frames)
    BY <1>3, EmptySeq DEF FlushRx
  <2> QED
    BY <1>1, <1>3, <2>1
    DEF FlushRx, Goto, Uncharged, history, GhostInv, Counted, AtRisk, Answers, Missing
<1>4. FlushRx \/ (fifo' = fifo /\ pc' \notin {"missed", "width", "take"}
                    /\ (pc' = "status" => pc = "missed"))
  BY DEF Unanswered, ReadFlag, ClearFlag, GuardExhausted, CheckMissed, ClearAfterFlush,
         ClearAndDispatch, ClearWhenEmpty, Watchdog, Goto, chip
<1> QED
  BY <1>2, <1>3, <1>4

(* Steps that read what the chip has: a payload found is there. *)
LEMMA GhostAnswered == GhostInv /\ Answered => GhostInv'
<1> SUFFICES ASSUME GhostInv, Answered PROVE GhostInv'
  OBVIOUS
<1> USE DEF GhostInv, Counted, AtRisk, Answers, Missing, history, chip, Goto
<1>1. miso' = miso /\ UNCHANGED history
  BY DEF Answered
<1>2. CASE FindEmpty \/ ReadStatusWhenEmpty
  BY <1>1, <1>2 DEF FindEmpty, ReadStatusWhenEmpty
<1>3. CASE FindPayload \/ (fifo # <<>> /\ (ReadPipe \/ ReadWidth))
  BY <1>1, <1>3 DEF Answered, FindPayload, ReadPipe, ReadWidth
<1>4. CASE fifo # <<>> /\ ReadPayload
  <2>1. fifo' \in Seq(Frames)
    BY <1>4, HeadTailProperties DEF ReadPayload
  <2> QED
    BY <1>1, <1>4, <2>1 DEF ReadPayload
<1> QED
  BY <1>2, <1>3, <1>4 DEF Answered

(* Steps that take silence for an answer. *)
LEMMA GhostMissing ==
  GhostInv /\ (SeemsEmpty \/ SeemsWaiting \/ MissPipe \/ MissWidth \/ ReadGhost \/ MissStatus)
    => GhostInv'
<1> SUFFICES ASSUME GhostInv,
                    SeemsEmpty \/ SeemsWaiting \/ MissPipe \/ MissWidth \/ ReadGhost \/ MissStatus
             PROVE  GhostInv'
  OBVIOUS
<1> USE DEF GhostInv, Counted, AtRisk, Answers, Missing, history, chip, Goto
<1>1. CASE SeemsEmpty \/ SeemsWaiting
  BY <1>1 DEF SeemsEmpty, SeemsWaiting
<1>2. CASE MissPipe
  BY <1>2 DEF MissPipe
<1>3. CASE MissWidth
  BY <1>3 DEF MissWidth
<1>4. CASE ReadGhost
  BY <1>4 DEF ReadGhost
<1>5. CASE MissStatus
  BY <1>5 DEF MissStatus
<1> QED
  BY <1>1, <1>2, <1>3, <1>4, <1>5

(* The rest: radio_init_(), the air, the clock and the supply. *)
LEMMA GhostOther ==
  GhostInv /\ (\/ WritePipes \/ WriteRest \/ Verify \/ Conclude
              \/ Hear \/ Wait \/ Dip \/ Cut \/ Mend) => GhostInv'
<1> SUFFICES ASSUME GhostInv,
                    \/ WritePipes \/ WriteRest \/ Verify \/ Conclude
                    \/ Hear \/ Wait \/ Dip \/ Cut \/ Mend
             PROVE  GhostInv'
  OBVIOUS
<1> USE DEF GhostInv, Counted, AtRisk, Answers, Missing, history, chip, Goto
<1>1. <<>> \in Seq(Frames)
  BY EmptySeq
<1>2. CASE WriteRest
  BY <1>1, <1>2 DEF WriteRest, InitReset
<1>3. CASE WritePipes \/ Verify \/ Conclude
  BY <1>3 DEF WritePipes, InitStop, Verify, vars, Conclude, InitStart
<1>4. CASE Hear
  <2>1. CASE SpuriousRxDR
    BY <1>4, <2>1 DEF Hear, SpuriousRxDR
  <2>2. ASSUME NEW f \in Frames, Receive(f) PROVE GhostInv'
    BY <1>4, <2>2, Received DEF Hear, Receive
  <2> QED
    BY <1>4, <2>1, <2>2 DEF Hear
<1>5. CASE Wait
  BY <1>5 DEF Wait, Tick
<1>6. CASE Dip \/ Cut
  <2>1. fifo' = <<>> /\ faults' = faults + 1 /\ returns' = returns /\ ghosts' = ghosts
    BY <1>6 DEF Dip, Cut, LosePower
  <2>2. ghosts' < faults' + returns'
    BY <2>1
  <2> QED
    BY <1>1, <2>1, <2>2
<1>7. CASE Mend
  BY <1>7 DEF Mend, vars
<1> QED
  BY <1>2, <1>3, <1>4, <1>5, <1>6, <1>7

(* However long MISO is stuck and whatever the pipes: bytes nobody sent are
   handed on at most once for each time the supply fails or returns. *)
THEOREM FewGhosts == FaultSpec => []GhostsAreRare
<1>1. GhostInv /\ [FaultNext]_faultVars => GhostInv'
  <2> SUFFICES ASSUME GhostInv, [FaultNext]_faultVars PROVE GhostInv'
    OBVIOUS
  <2>1. CASE FaultNext
    BY <2>1, GhostUnanswered, GhostAnswered, GhostMissing, GhostOther
    DEF FaultNext, FaultyLoop
  <2>2. CASE UNCHANGED faultVars
    BY <2>2
    DEF faultVars, vars, chip, history, GhostInv, Counted, AtRisk, Answers, Missing
  <2> QED
    BY <2>1, <2>2
<1>2. GhostInv => GhostsAreRare
  BY DEF GhostInv, GhostsAreRare
<1> QED
  BY <1>1, <1>2, GhostInit, PTL DEF FaultSpec
-----------------------------------------------------------------------------
(* What the chip holds, and what is made of it *)

\* Between the read-back and its outcome, the verdict is right of a chip that
\* has not lost its registers since.
VerdictRight ==
  pc = "initStart" => /\ accepted = "yes" /\ held # {} => Whole
                      /\ accepted = "no" => ~Whole

\* FaultTypeOK and StatusMatchesChip, and what the two sequences are made of.
ChipInv ==
  /\ FaultTypeOK /\ VerdictRight /\ StatusMatchesChip
  /\ fifo \in Seq(Frames) /\ edged \in Seq(BOOLEAN)

LEMMA ChipInit == FaultInit => ChipInv
<1>1. <<>> \in Seq(Frames) /\ <<>> \in Seq(BOOLEAN) /\ Len(<<>>) = 0
  BY EmptySeq
<1> QED
  BY <1>1, RadioAssumption
  DEF FaultInit, Init, ChipInv, FaultTypeOK, VerdictRight, StatusMatchesChip, Whole,
      Groups, Steps, InitSteps, Answers

\* The steps of loop() that touch neither the FIFO nor the supply, nor leave
\* radio_init_().
Harmless ==
  /\ UNCHANGED <<fifo, edged, miso, held, accepted, error>>
  /\ pc' \in Steps /\ pc \notin InitSteps /\ pc' # "initStart"
  /\ rxDR' = rxDR \/ ~rxDR'

LEMMA ChipHarmless == ChipInv /\ Harmless => ChipInv'
  BY DEF ChipInv, FaultTypeOK, VerdictRight, StatusMatchesChip, Whole, Harmless, Answers

(* Steps that no answer matters to: a flush empties both sequences, and RX_DR
   is cleared at most. *)
LEMMA ChipUnanswered == ChipInv /\ Unanswered => ChipInv'
<1> SUFFICES ASSUME ChipInv, Unanswered PROVE ChipInv'
  OBVIOUS
<1> USE DEF Goto, Steps, DrainSteps, InitSteps, chip, verdict
<1>1. CASE FlushRx
  <2>1. fifo' = <<>> /\ edged' = <<>> /\ rxDR' = rxDR /\ pc = "flush" /\ pc' = "flushClear"
    BY <1>1 DEF FlushRx
  <2>2. UNCHANGED <<miso, held, accepted, error>>
    BY DEF Unanswered
  <2>3. <<>> \in Seq(Frames) /\ <<>> \in Seq(BOOLEAN) /\ Len(<<>>) = 0
    BY EmptySeq
  <2> QED
    BY <2>1, <2>2, <2>3, RadioAssumption
    DEF ChipInv, FaultTypeOK, VerdictRight, StatusMatchesChip, Whole, Answers
<1>2. CASE ~FlushRx
  <2>1. UNCHANGED <<miso, held, accepted, error>>
    BY DEF Unanswered
  <2>2. CASE ReadFlag \/ ClearFlag \/ GuardExhausted \/ CheckMissed
    BY <2>1, <2>2, ChipHarmless
    DEF ReadFlag, ClearFlag, GuardExhausted, CheckMissed, Harmless
  <2>3. CASE ClearAfterFlush \/ ClearAndDispatch \/ ClearWhenEmpty
    BY <2>1, <2>3, ChipHarmless
    DEF ClearAfterFlush, ClearAndDispatch, ClearWhenEmpty, Harmless
  <2>4. CASE Watchdog
    BY <2>1, <2>4, ChipHarmless DEF Watchdog, Harmless
  <2> QED
    BY <1>2, <2>2, <2>3, <2>4 DEF Unanswered
<1> QED
  BY <1>1, <1>2

(* Steps that read what the chip has, or take silence for it. *)
LEMMA ChipRead ==
  ChipInv /\ (\/ Answered \/ SeemsEmpty \/ SeemsWaiting \/ MissPipe
             \/ MissWidth \/ ReadGhost \/ MissStatus) => ChipInv'
<1> SUFFICES ASSUME ChipInv,
                    \/ Answered \/ SeemsEmpty \/ SeemsWaiting \/ MissPipe
                    \/ MissWidth \/ ReadGhost \/ MissStatus
             PROVE  ChipInv'
  OBVIOUS
<1> USE DEF Goto, Steps, DrainSteps, InitSteps, chip, verdict, Harmless
<1>1. CASE Answered /\ ReadPayload
  <2>0. fifo # <<>>
    BY <1>1 DEF Answered, ReadPayload, FindEmpty, FindPayload, ReadStatusWhenEmpty
  <2>1. /\ Tail(fifo) \in Seq(Frames) /\ Len(Tail(fifo)) = Len(fifo) - 1
        /\ Len(fifo) \in Nat
    BY <2>0, HeadTailProperties DEF ChipInv
  <2>2. edged # <<>>
    BY <2>0, EmptySeq DEF ChipInv, FaultTypeOK
  <2>3. /\ Tail(edged) \in Seq(BOOLEAN) /\ Len(Tail(edged)) = Len(edged) - 1
    BY <2>2, HeadTailProperties DEF ChipInv
  <2> QED
    BY <1>1, <2>0, <2>1, <2>3, RadioAssumption
    DEF Answered, Answers, ReadPayload, ChipInv, FaultTypeOK, VerdictRight,
        StatusMatchesChip, Whole
<1>2. CASE Answered /\ ~ReadPayload
  BY <1>2, ChipHarmless
  DEF Answered, FindEmpty, FindPayload, ReadStatusWhenEmpty, ReadPipe, ReadWidth
<1>3. CASE SeemsEmpty \/ SeemsWaiting \/ MissPipe
  BY <1>3, ChipHarmless DEF SeemsEmpty, SeemsWaiting, MissPipe
<1>4. CASE MissWidth \/ ReadGhost \/ MissStatus
  BY <1>4, ChipHarmless DEF MissWidth, ReadGhost, MissStatus
<1> QED
  BY <1>1, <1>2, <1>3, <1>4

(* radio_init_(): what is written stays on a chip that answers, and the verdict
   is that of the chip read back. *)
LEMMA ChipConfigured ==
  ChipInv /\ (WritePipes \/ WriteRest \/ Verify \/ Conclude) => ChipInv'
<1> SUFFICES ASSUME ChipInv, WritePipes \/ WriteRest \/ Verify \/ Conclude
             PROVE  ChipInv'
  OBVIOUS
<1> USE DEF Goto, Steps, DrainSteps, InitSteps, chip, verdict, Answers, ChipInv,
            FaultTypeOK, VerdictRight, StatusMatchesChip, Whole, Groups
<1>1. CASE WritePipes
  BY <1>1 DEF WritePipes, InitStop, Hold
<1>2. CASE WriteRest
  <2>1. <<>> \in Seq(Frames) /\ <<>> \in Seq(BOOLEAN) /\ Len(<<>>) = 0
    BY EmptySeq
  <2> QED
    BY <1>2, <2>1, RadioAssumption DEF WriteRest, InitReset, Hold
<1>3. CASE Verify
  BY <1>3 DEF Verify, vars
<1>4. CASE Conclude
  BY <1>4 DEF Conclude, InitStart
<1> QED
  BY <1>1, <1>2, <1>3, <1>4

(* The air and the clock: only a chip that has power, and some registers,
   receives. *)
LEMMA ChipAir == ChipInv /\ (Hear \/ Wait) => ChipInv'
<1> SUFFICES ASSUME ChipInv, Hear \/ Wait PROVE ChipInv'
  OBVIOUS
<1> USE DEF chip, verdict, Answers, VerdictRight, StatusMatchesChip, Whole
<1>1. CASE Wait
  BY <1>1 DEF Wait, Tick, ChipInv, FaultTypeOK
<1>2. CASE Hear /\ SpuriousRxDR
  <2>1. UNCHANGED <<fifo, edged, pc, miso, held, accepted, error>> /\ rxDR' = TRUE
    BY <1>2 DEF Hear, SpuriousRxDR, RaiseRxDR
  <2>2. miso = "chip"
    BY <1>2 DEF Hear, ChipInv, FaultTypeOK
  <2> QED
    BY <2>1, <2>2 DEF ChipInv, FaultTypeOK
<1>3. ASSUME NEW f \in Frames, Hear, Receive(f) PROVE ChipInv'
  <2> DEFINE raised == (IrqPin /\ ~rxDR)
  <2>1. raised \in BOOLEAN
    OBVIOUS
  <2>2. /\ Append(fifo, f) \in Seq(Frames) /\ Len(Append(fifo, f)) = Len(fifo) + 1
        /\ Append(edged, raised) \in Seq(BOOLEAN)
        /\ Len(Append(edged, raised)) = Len(edged) + 1
    BY <2>1, AppendProperties DEF ChipInv
  <2>3. fifo' = Append(fifo, f) /\ edged' = Append(edged, raised)
    BY <1>3 DEF Receive
  <2>4. Len(fifo) \in Nat
    BY LenProperties DEF ChipInv
  <2>5. Len(fifo) < FifoDepth /\ UNCHANGED <<pc, miso, held, accepted, error>>
    BY <1>3 DEF Receive, Hear
  <2>6. miso = "chip"
    BY <1>3 DEF Hear, ChipInv, FaultTypeOK
  <2> QED
    BY <2>2, <2>3, <2>4, <2>5, <2>6, RadioAssumption DEF ChipInv, FaultTypeOK
<1> QED
  BY <1>1, <1>2, <1>3 DEF Hear

(* The supply. *)
LEMMA ChipSupply == ChipInv /\ (Dip \/ Cut \/ Mend) => ChipInv'
<1> SUFFICES ASSUME ChipInv, Dip \/ Cut \/ Mend PROVE ChipInv'
  OBVIOUS
<1> USE DEF Answers, ChipInv, FaultTypeOK, VerdictRight, StatusMatchesChip, Whole, Groups
<1>1. <<>> \in Seq(Frames) /\ <<>> \in Seq(BOOLEAN) /\ Len(<<>>) = 0
  BY EmptySeq
<1>2. CASE Dip \/ Cut
  <2>1. /\ fifo' = <<>> /\ edged' = <<>> /\ rxDR' = FALSE /\ held' = {}
        /\ UNCHANGED <<pc, accepted, error>> /\ miso' \in {"chip", "low", "high"}
    BY <1>2 DEF Dip, Cut, LosePower
  <2> QED
    BY <1>1, <2>1, RadioAssumption
<1>3. CASE Mend
  BY <1>3 DEF Mend, vars, chip, verdict
<1> QED
  BY <1>2, <1>3

LEMMA ChipNext == ChipInv /\ [FaultNext]_faultVars => ChipInv'
<1> SUFFICES ASSUME ChipInv, [FaultNext]_faultVars PROVE ChipInv'
  OBVIOUS
<1>1. CASE FaultNext
  BY <1>1, ChipUnanswered, ChipRead, ChipConfigured, ChipAir, ChipSupply
  DEF FaultNext, FaultyLoop
<1>2. CASE UNCHANGED faultVars
  BY <1>2
  DEF faultVars, vars, chip, verdict, ChipInv, FaultTypeOK, VerdictRight,
      StatusMatchesChip, Whole, Answers
<1> QED
  BY <1>1, <1>2

(* A chip without power holds nothing, and one that holds all its registers
   while loop() runs has been found to: for every FIFO, and whatever step of
   loop() or of radio_init_() a fault falls between. *)
THEOREM FaultTypeCorrect == FaultSpec => []FaultTypeOK
<1>1. ChipInv => FaultTypeOK
  BY DEF ChipInv
<1> QED
  BY <1>1, ChipInit, ChipNext, PTL DEF FaultSpec

(* However often the supply fails, and wherever in radio_init_(): a chip that
   hears anything is reported exactly if it holds but part of its registers. *)
THEOREM StatusCorrect == FaultSpec => []StatusMatchesChip
<1>1. ChipInv => StatusMatchesChip
  BY DEF ChipInv
<1> QED
  BY <1>1, ChipInit, ChipNext, PTL DEF FaultSpec
-----------------------------------------------------------------------------
(* What the listeners see of it *)

Handed == Frames \cup {Ghost}

\* There is a payload in hand from the step that reads it to the one that hands
\* it over, and at no other place.
HandInv ==
  /\ pc = "dispatch" => \E f \in Handed : hand = <<f>>
  /\ pc # "dispatch" => hand = <<>>

LEMMA HandInit == FaultInit => HandInv
  BY DEF FaultInit, Init, HandInv

LEMMA HandNext == ChipInv /\ HandInv /\ [FaultNext]_faultVars => HandInv'
<1> SUFFICES ASSUME ChipInv, HandInv, [FaultNext]_faultVars PROVE HandInv'
  OBVIOUS
<1> USE DEF HandInv, Goto, hub, run
<1>1. CASE Unanswered /\ ClearAndDispatch
  BY <1>1 DEF ClearAndDispatch
<1>2. CASE Unanswered /\ ~ClearAndDispatch
  BY <1>2
  DEF Unanswered, ReadFlag, ClearFlag, GuardExhausted, CheckMissed, FlushRx,
      ClearAfterFlush, ClearWhenEmpty, Watchdog
<1>3. CASE Answered /\ ReadPayload
  <2>1. fifo \in Seq(Frames) /\ fifo # <<>>
    BY <1>3 DEF ChipInv, Answered, ReadPayload, FindEmpty, FindPayload, ReadStatusWhenEmpty
  <2>2. Head(fifo) \in Frames
    BY <2>1, HeadTailProperties
  <2> QED
    BY <1>3, <2>2 DEF ReadPayload, Handed
<1>4. CASE Answered /\ ~ReadPayload
  BY <1>4 DEF Answered, FindEmpty, FindPayload, ReadStatusWhenEmpty, ReadPipe, ReadWidth
<1>5. CASE SeemsEmpty \/ SeemsWaiting \/ MissPipe \/ MissWidth \/ MissStatus
  BY <1>5 DEF SeemsEmpty, SeemsWaiting, MissPipe, MissWidth, MissStatus
<1>6. CASE ReadGhost
  BY <1>6 DEF ReadGhost, Handed
<1>7. CASE WritePipes \/ WriteRest \/ Verify \/ Conclude
  BY <1>7 DEF WritePipes, WriteRest, Verify, vars, Conclude, InitStop, InitReset, InitStart
<1>8. CASE Hear \/ Wait
  BY <1>8 DEF Hear, Wait, SpuriousRxDR, Receive, Tick
<1>9. CASE Dip \/ Cut \/ Mend \/ UNCHANGED faultVars
  BY <1>9 DEF Dip, Cut, Mend, LosePower, faultVars, vars
<1> QED
  BY <1>1, <1>2, <1>3, <1>4, <1>5, <1>6, <1>7, <1>8, <1>9 DEF FaultNext, FaultyLoop

(* A step that changes neither the FIFO, nor what is in hand, nor what was
   handed over last, does not concern the channel. *)
LEMMA Unconcerned ==
  UNCHANGED <<fifo, hand, last>> => UNCHANGED Served!vars
  BY DEF Served!vars

LEMMA ServedLoop ==
  ASSUME ChipInv, HandInv, FaultyLoop
  PROVE  Served!Next \/ UNCHANGED Served!vars
<1>0. fifo \in Seq(Frames) /\ fifo \in Seq(Handed)
  BY DEF ChipInv, Handed
<1> USE DEF Goto, hub, run, chip
<1>1. CASE ClearAndDispatch
  <2>1. PICK f \in Handed : hand = <<f>>
    BY <1>1 DEF ClearAndDispatch, HandInv
  <2>2. last' = f /\ hand' = <<>> /\ fifo' = fifo
    BY <1>1, <2>1 DEF ClearAndDispatch
  <2>3. /\ hand \o fifo # <<>>
        /\ Head(hand \o fifo) = f
        /\ Tail(hand \o fifo) = fifo
    BY <1>0, <2>1, ConsFacts
  <2>4. hand' \o fifo' = fifo
    BY <1>0, <2>2, ConcatEmptySeq
  <2>5. Served!HandOver
    BY <2>2, <2>3, <2>4 DEF Served!HandOver
  <2> QED
    BY <2>5 DEF Served!Next
<1>2. CASE FlushRx \/ WriteRest
  <2>1. fifo' = <<>> /\ hand' = <<>> /\ last' = last
    BY <1>2 DEF FlushRx, WriteRest, InitReset, HandInv
  <2>2. hand' \o fifo' = <<>>
    BY <2>1, EmptyFifo, ConcatEmptySeq
  <2>3. Served!Purge
    BY <2>1, <2>2 DEF Served!Purge
  <2> QED
    BY <2>3 DEF Served!Next
<1>3. CASE Answered /\ ReadPayload
  <2>1. fifo # <<>>
    BY <1>3 DEF Answered, ReadPayload, FindEmpty, FindPayload, ReadStatusWhenEmpty
  <2>2. /\ hand = <<>> /\ last' = last
        /\ hand' = <<Head(fifo)>> /\ fifo' = Tail(fifo)
    BY <1>3 DEF ReadPayload, HandInv
  <2>3. hand' \o fifo' = fifo
    BY <1>0, <2>1, <2>2, HeadThenTail
  <2>4. hand \o fifo = fifo
    BY <1>0, <2>2, ConcatEmptySeq
  <2> QED
    BY <2>2, <2>3, <2>4 DEF Served!vars
<1>4. CASE ReadGhost
  <2>1. fifo = <<>> /\ hand = <<>>
    BY <1>4 DEF ReadGhost, Missing, ChipInv, FaultTypeOK, HandInv
  <2>2. hand' = <<Ghost>> /\ fifo' = <<>> /\ last' = last
    BY <1>4, <2>1 DEF ReadGhost
  <2>3. <<>> \o <<>> = <<>> /\ Len(<<>>) = 0 /\ <<Ghost>> \o <<>> = <<Ghost>>
    BY EmptyFifo, ConcatEmptySeq
  <2>4. Append(<<>>, Ghost) = <<Ghost>>
    OBVIOUS
  <2>5. Served!Receive(Ghost)
    BY <2>1, <2>2, <2>3, <2>4, RadioAssumption DEF Served!Receive
  <2> QED
    BY <2>5 DEF Served!Next
<1>5. CASE Unanswered /\ ~ClearAndDispatch /\ ~FlushRx
  <2>1. UNCHANGED <<fifo, hand, last>>
    BY <1>5
    DEF Unanswered, ReadFlag, ClearFlag, GuardExhausted, CheckMissed,
        ClearAfterFlush, ClearWhenEmpty, Watchdog
  <2> QED
    BY <2>1, Unconcerned
<1>6. CASE Answered /\ ~ReadPayload
  <2>1. UNCHANGED <<fifo, hand, last>>
    BY <1>6 DEF Answered, FindEmpty, FindPayload, ReadStatusWhenEmpty, ReadPipe, ReadWidth
  <2> QED
    BY <2>1, Unconcerned
<1>7. CASE SeemsEmpty \/ SeemsWaiting \/ MissPipe \/ MissWidth \/ MissStatus
  <2>1. UNCHANGED <<fifo, hand, last>>
    BY <1>7 DEF SeemsEmpty, SeemsWaiting, MissPipe, MissWidth, MissStatus
  <2> QED
    BY <2>1, Unconcerned
<1>8. CASE WritePipes \/ Verify \/ Conclude
  <2>1. UNCHANGED <<fifo, hand, last>>
    BY <1>8 DEF WritePipes, InitStop, Verify, vars, Conclude, InitStart
  <2> QED
    BY <2>1, Unconcerned
<1> QED
  BY <1>1, <1>2, <1>3, <1>4, <1>5, <1>6, <1>7, <1>8 DEF FaultyLoop

(* A frame that comes in is appended, whether or not one is in hand. *)
LEMMA ServedReceive ==
  ASSUME ChipInv, HandInv, NEW f \in Frames, Receive(f)
  PROVE  Served!Receive(f)
<1>1. fifo \in Seq(Handed) /\ f \in Handed /\ <<f>> \in Seq(Handed)
  BY DEF ChipInv, Handed
<1>2. hand \in Seq(Handed) /\ Len(hand) \in 0..1
  <2>1. CASE hand = <<>>
    BY <2>1, EmptySeq
  <2>2. CASE \E g \in Handed : hand = <<g>>
    BY <2>2
  <2> QED
    BY <2>1, <2>2 DEF HandInv
<1>3. hand \o fifo \in Seq(Handed) /\ Len(hand \o fifo) = Len(hand) + Len(fifo)
  BY <1>1, <1>2, ConcatProperties
<1>4. hand \o Append(fifo, f) = Append(hand \o fifo, f)
  <2>1. /\ Append(fifo, f) = fifo \o <<f>>
        /\ Append(hand \o fifo, f) = (hand \o fifo) \o <<f>>
    BY <1>1, <1>3, AppendIsConcat
  <2> QED
    BY <1>1, <1>2, <2>1, ConcatAssociative
<1>5. Len(hand \o fifo) < FifoDepth + 1
  <2>1. PICK n \in Nat : n = Len(fifo) /\ n < FifoDepth
    BY <1>1, LenProperties DEF Receive
  <2>2. PICK h \in 0..1 : h = Len(hand)
    BY <1>2
  <2>3. Len(hand \o fifo) = h + n
    BY <1>3, <2>1, <2>2
  <2>4. FifoDepth \in Nat /\ h <= 1
    BY RadioAssumption
  <2>5. h + n < FifoDepth + 1
    <3>1. n < FifoDepth
      BY <2>1
    <3> QED
      BY <2>4, <3>1
  <2> QED
    BY <2>3, <2>5
<1> QED
  BY <1>4, <1>5 DEF Receive, Served!Receive, run

(* A fault empties the FIFO and leaves what is in hand. *)
LEMMA ServedFault ==
  ASSUME ChipInv, HandInv, LosePower, hand' = hand
  PROVE  Served!Next \/ Served!Fail
<1>1. fifo' = <<>> /\ last' = last /\ fifo \in Seq(Handed) /\ <<>> \in Seq(Handed)
  BY EmptySeq DEF LosePower, ChipInv, Handed
<1>2. CASE pc = "dispatch"
  <2>1. PICK f \in Handed : hand = <<f>>
    BY <1>2 DEF HandInv
  <2>2. hand \o fifo # <<>> /\ Head(hand \o fifo) = f
    BY <1>1, <2>1, ConsFacts
  <2>3. hand' \o fifo' = <<f>>
    <3>1. <<f>> \in Seq(Handed)
      BY <2>1
    <3> QED
      BY <1>1, <2>1, <3>1, ConcatEmptySeq
  <2> QED
    BY <1>1, <2>2, <2>3 DEF Served!Fail
<1>3. CASE pc # "dispatch"
  <2>1. hand' \o fifo' = <<>>
    BY <1>1, <1>3, EmptyFifo, ConcatEmptySeq DEF HandInv
  <2> QED
    BY <1>1, <2>1 DEF Served!Purge, Served!Next
<1> QED
  BY <1>2, <1>3

(* However often and wherever the supply fails, frames reach the listeners at
   most once and in order, and a payload once taken from the chip does. *)
THEOREM FaultsLeaveOrder == FaultSpec => FaultsKeepOrder
<1>1. FaultInit => Served!Init
  BY EmptyFifo, ConcatEmptySeq DEF FaultInit, Init, Served!Init
<1>2. ASSUME ChipInv, HandInv, [FaultNext]_faultVars
      PROVE  [Served!Next \/ Served!Fail]_(Served!vars)
  <2>1. CASE FaultyLoop
    BY <1>2, <2>1, ServedLoop
  <2>2. CASE Hear /\ SpuriousRxDR
    BY <2>2, Unconcerned DEF SpuriousRxDR, run
  <2>3. ASSUME NEW f \in Frames, Receive(f)
        PROVE  Served!Next
    BY <1>2, <2>3, ServedReceive DEF Served!Next
  <2>4. CASE Wait
    BY <2>4, Unconcerned DEF Wait, Tick, chip, run
  <2>5. CASE Dip \/ Cut
    BY <1>2, <2>5, ServedFault DEF Dip, Cut, LosePower, run
  <2>6. CASE Mend \/ UNCHANGED faultVars
    BY <2>6, Unconcerned DEF Mend, faultVars, vars, chip, hub, run
  <2> QED
    BY <1>2, <2>1, <2>2, <2>3, <2>4, <2>5, <2>6 DEF FaultNext, Hear
<1> QED
  BY <1>1, <1>2, ChipInit, ChipNext, HandInit, HandNext, PTL
  DEF FaultSpec, FaultsKeepOrder, Served!FaultySpec
=============================================================================
