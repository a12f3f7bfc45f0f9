----------------------------- MODULE NRF24Radio -----------------------------
(***************************************************************************)
(* The receive path of NRF24Hub (nrf24.cpp): the interrupt handler, loop() *)
(* and drain_fifo_(), and the part of radio_init_() the watchdog reaches,  *)
(* against the nRF24L01 receiving concurrently.                            *)
(*                                                                         *)
(* Every SPI transaction and every access of the volatile irq_flag_ is one *)
(* step of the loop, so that the chip can receive and the handler can run  *)
(* between any two of them.  The handler needs a few instructions and an   *)
(* SPI transaction tens of microseconds: the handler is part of the step   *)
(* of the chip that pulls the IRQ line down.                               *)
(***************************************************************************)
EXTENDS Naturals, Sequences

CONSTANTS
  Frames,          \* frames senders put on the air
  FixedFrames,     \* those addressed to a pipe of fixed payload size
  CorruptFrames,   \* those for which the chip reports a width of 0 or > 32
  NoFrame,         \* nothing handed over yet
  FifoDepth,       \* RX FIFO of the chip (3)
  GuardLimit,      \* payloads one drain_fifo_() may take (8)
  WatchdogTimeout, \* watchdog_timeout_ in ticks, 0 disables it
  CounterMax,      \* where the diagnostic counters saturate (0xFFFF)
  IrqPin           \* is an irq_pin configured?

ASSUME RadioAssumption ==
  /\ FixedFrames \subseteq Frames
  /\ CorruptFrames \subseteq Frames
  /\ NoFrame \notin Frames
  /\ FifoDepth \in Nat \ {0}
  /\ GuardLimit \in Nat \ {0}
  /\ WatchdogTimeout \in Nat
  /\ CounterMax \in Nat
  /\ IrqPin \in BOOLEAN

VARIABLES
  \* the chip
  fifo,            \* RX FIFO
  rxDR,            \* STATUS.RX_DR, which holds the IRQ line down
  ce,              \* the CE pin: the chip receives only while it is up
  \* NRF24Hub
  irqFlag,         \* irq_flag_
  quiet,           \* millis() - last_activity_ms_
  count,           \* irq_missed_, fifo_full_, bad_length_, watchdog_count_
  \* locals of loop() and drain_fifo_()
  pc,              \* the step loop() takes next; "idle" between two calls
  afterInterrupt, counted, guard,
  hand,            \* the payload read but not dispatched, a sequence of <= 1
  \* what the listeners have seen
  last,            \* the frame dispatched most recently
  \* history, read by properties only
  edged,           \* for each payload in fifo: did it raise an interrupt?
  overwritten      \* this loop() cleared a flag it had not read as set

chip == <<fifo, rxDR, ce, edged>>
hub  == <<irqFlag, quiet, count, last>>
run  == <<afterInterrupt, counted, guard, hand, overwritten>>
vars == <<chip, hub, pc, run>>

Counters == {"missed", "full", "bad", "watchdog"}

InitSteps  == {"initStop", "initReset", "initStart"}
DrainSteps == {"fifo", "missed", "status", "width", "take", "dispatch",
               "flush", "flushClear", "emptyStatus", "emptyClear"}
Steps == {"idle", "clearFlag", "watchdog"} \cup DrainSteps \cup InitSteps

\* Definitions named <definition>_<defect> are what a plausible mistake would
\* make of the definition that follows them; no specification uses them.
Bump_Unlimited(c, name) == [c EXCEPT ![name] = @ + 1]

\* A counter that has reached its maximum stays there.
Bump(c, name) ==
  [c EXCEPT ![name] = IF @ < CounterMax THEN @ + 1 ELSE @]

Goto(from, to) == pc = from /\ pc' = to

Init ==
  /\ fifo = <<>> /\ edged = <<>>
  /\ rxDR = FALSE /\ ce = FALSE
  /\ irqFlag = FALSE /\ quiet = 0
  /\ count = [c \in Counters |-> 0]
  /\ pc = "initStop"               \* setup() initialises the radio
  /\ afterInterrupt = FALSE /\ counted = FALSE /\ guard = 0
  /\ hand = <<>> /\ overwritten = FALSE
  /\ last = NoFrame
-----------------------------------------------------------------------------
(* The chip and the interrupt handler *)

\* RX_DR rises: the line falls, and the pin is watched for that edge only.
RaiseRxDR ==
  /\ rxDR' = TRUE
  /\ irqFlag' = (irqFlag \/ (IrqPin /\ ~rxDR))

\* A frame arrives; with the FIFO full the chip drops it.
Receive(f) ==
  /\ ce
  /\ Len(fifo) < FifoDepth
  /\ fifo' = Append(fifo, f)
  /\ edged' = Append(edged, IrqPin /\ ~rxDR)
  /\ RaiseRxDR
  /\ UNCHANGED <<ce, quiet, count, last, pc, run>>

\* RX_DR set although nothing is queued, which drain_fifo_() provides for.
SpuriousRxDR ==
  /\ ce /\ fifo = <<>>
  /\ RaiseRxDR
  /\ UNCHANGED <<fifo, edged, ce, quiet, count, last, pc, run>>

\* Time passes; quiet stops one past the timeout, where nothing depends on it.
Tick ==
  /\ quiet <= WatchdogTimeout
  /\ quiet' = quiet + 1
  /\ UNCHANGED <<chip, irqFlag, count, last, pc, run>>
-----------------------------------------------------------------------------
(* loop(): read the flag, then clear it, then drain *)

ReadFlag ==
  /\ Goto("idle", "clearFlag")
  /\ afterInterrupt' = irqFlag
  /\ UNCHANGED <<chip, hub, counted, guard, hand, overwritten>>

\* As it used to be: without an interrupt the FIFO is not looked at.
ClearFlag_NoPoll ==
  /\ pc = "clearFlag"
  /\ pc' = IF afterInterrupt THEN "fifo" ELSE "watchdog"
  /\ irqFlag' = FALSE
  /\ counted' = FALSE /\ guard' = 0
  /\ overwritten' = (irqFlag /\ ~afterInterrupt)
  /\ UNCHANGED <<chip, quiet, count, last, afterInterrupt, hand>>

ClearFlag ==
  /\ Goto("clearFlag", "fifo")
  /\ irqFlag' = FALSE
  /\ counted' = FALSE /\ guard' = 0
  /\ overwritten' = (irqFlag /\ ~afterInterrupt)
  /\ UNCHANGED <<chip, quiet, count, last, afterInterrupt, hand>>
-----------------------------------------------------------------------------
(* drain_fifo_() *)

\* REG_FIFO_STATUS at the top of each round: empty ...
FindEmpty ==
  /\ Goto("fifo", "emptyStatus")
  /\ guard < GuardLimit
  /\ fifo = <<>>
  /\ UNCHANGED <<chip, hub, run>>

\* ... or not; a full FIFO is the only trace overrun frames leave.
FindPayload ==
  /\ guard < GuardLimit
  /\ fifo # <<>>
  /\ count' = IF Len(fifo) = FifoDepth THEN Bump(count, "full") ELSE count
  /\ Goto("fifo", "missed")
  /\ UNCHANGED <<chip, irqFlag, quiet, last, run>>

\* The guard ran out: the rest is handed to the next loop().
GuardExhausted ==
  /\ guard = GuardLimit
  /\ irqFlag' = TRUE
  /\ Goto("fifo", "watchdog")
  /\ UNCHANGED <<chip, quiet, count, last, run>>

CheckMissed_IgnoresNewInterrupt ==
  /\ Goto("missed", "status")
  /\ IF ~afterInterrupt /\ ~counted
     THEN counted' = TRUE /\ count' = Bump(count, "missed")
     ELSE UNCHANGED <<counted, count>>
  /\ UNCHANGED <<chip, irqFlag, quiet, last, afterInterrupt, guard, hand,
                 overwritten>>

\* A payload nobody announced is counted, once per run.
CheckMissed ==
  /\ Goto("missed", "status")
  /\ IF ~afterInterrupt /\ ~counted /\ ~irqFlag
     THEN counted' = TRUE /\ count' = Bump(count, "missed")
     ELSE UNCHANGED <<counted, count>>
  /\ UNCHANGED <<chip, irqFlag, quiet, last, afterInterrupt, guard, hand,
                 overwritten>>

\* STATUS names the pipe; a fixed pipe is not asked for the length.
ReadPipe ==
  /\ pc = "status"
  /\ pc' = IF Head(fifo) \in FixedFrames THEN "take" ELSE "width"
  /\ UNCHANGED <<chip, hub, run>>

ReadWidth_Silent ==
  /\ pc = "width"
  /\ pc' = IF Head(fifo) \in CorruptFrames THEN "flush" ELSE "take"
  /\ UNCHANGED <<chip, hub, run>>

ReadWidth ==
  /\ pc = "width"
  /\ IF Head(fifo) \in CorruptFrames
     THEN pc' = "flush" /\ count' = Bump(count, "bad")
     ELSE pc' = "take" /\ UNCHANGED count
  /\ UNCHANGED <<chip, irqFlag, quiet, last, run>>

FlushRx ==
  /\ Goto("flush", "flushClear")
  /\ fifo' = <<>> /\ edged' = <<>>
  /\ UNCHANGED <<rxDR, ce, hub, run>>

ClearAfterFlush_LeavesRxDR ==
  /\ Goto("flushClear", "watchdog")
  /\ UNCHANGED <<chip, hub, run>>

ClearAfterFlush ==
  /\ Goto("flushClear", "watchdog")
  /\ rxDR' = FALSE
  /\ UNCHANGED <<fifo, edged, ce, hub, run>>

ReadPayload ==
  /\ Goto("take", "dispatch")
  /\ hand' = <<Head(fifo)>>
  /\ fifo' = Tail(fifo) /\ edged' = Tail(edged)
  /\ UNCHANGED <<rxDR, ce, hub, afterInterrupt, counted, guard, overwritten>>

ClearAndDispatch_NoGuard ==
  /\ Goto("dispatch", "fifo")
  /\ rxDR' = FALSE
  /\ quiet' = 0
  /\ last' = Head(hand)
  /\ hand' = <<>>
  /\ UNCHANGED <<fifo, edged, ce, irqFlag, count, afterInterrupt, counted,
                 guard, overwritten>>

\* The guard is looked at before the listeners are.
ClearAndDispatch_LastLost ==
  /\ Goto("dispatch", "fifo")
  /\ rxDR' = FALSE
  /\ quiet' = 0
  /\ last' = IF guard + 1 < GuardLimit THEN Head(hand) ELSE last
  /\ hand' = <<>>
  /\ guard' = guard + 1
  /\ UNCHANGED <<fifo, edged, ce, irqFlag, count, afterInterrupt, counted,
                 overwritten>>

\* Clear RX_DR, note the activity, call the listeners, next round.
ClearAndDispatch ==
  /\ Goto("dispatch", "fifo")
  /\ rxDR' = FALSE
  /\ quiet' = 0
  /\ last' = Head(hand)
  /\ hand' = <<>>
  /\ guard' = guard + 1
  /\ UNCHANGED <<fifo, edged, ce, irqFlag, count, afterInterrupt, counted,
                 overwritten>>

ReadStatusWhenEmpty_NeverClears ==
  /\ Goto("emptyStatus", "watchdog")
  /\ UNCHANGED <<chip, hub, run>>

\* Nothing queued: RX_DR standing would keep the line down for good.
ReadStatusWhenEmpty ==
  /\ pc = "emptyStatus"
  /\ pc' = IF rxDR THEN "emptyClear" ELSE "watchdog"
  /\ UNCHANGED <<chip, hub, run>>

ClearWhenEmpty ==
  /\ Goto("emptyClear", "watchdog")
  /\ rxDR' = FALSE
  /\ UNCHANGED <<fifo, edged, ce, hub, run>>
-----------------------------------------------------------------------------
(* The end of loop(): the watchdog, and radio_init_() as far as it concerns
   reception (MODULE RadioInit has the rest of it) *)

WatchdogDue == WatchdogTimeout > 0 /\ quiet > WatchdogTimeout

Watchdog ==
  /\ pc = "watchdog"
  /\ IF WatchdogDue
     THEN pc' = "initStop" /\ count' = Bump(count, "watchdog")
     ELSE pc' = "idle" /\ UNCHANGED count
  /\ UNCHANGED <<chip, irqFlag, quiet, last, run>>

\* CE goes down first: from here on nothing is received.
InitStop ==
  /\ Goto("initStop", "initReset")
  /\ ce' = FALSE
  /\ UNCHANGED <<fifo, edged, rxDR, hub, run>>

\* STATUS_CLEAR and FLUSH_RX.
InitReset ==
  /\ Goto("initReset", "initStart")
  /\ rxDR' = FALSE
  /\ fifo' = <<>> /\ edged' = <<>>
  /\ UNCHANGED <<ce, hub, run>>

InitStart ==
  /\ Goto("initStart", "idle")
  /\ ce' = TRUE
  /\ quiet' = 0
  /\ UNCHANGED <<fifo, edged, rxDR, irqFlag, count, last, run>>
-----------------------------------------------------------------------------
Drain == \/ FindEmpty \/ FindPayload \/ GuardExhausted \/ CheckMissed
         \/ ReadPipe \/ ReadWidth \/ FlushRx \/ ClearAfterFlush
         \/ ReadPayload \/ ClearAndDispatch
         \/ ReadStatusWhenEmpty \/ ClearWhenEmpty

Loop == \/ ReadFlag \/ ClearFlag \/ Drain
        \/ Watchdog \/ InitStop \/ InitReset \/ InitStart

Environment == SpuriousRxDR \/ Tick \/ \E f \in Frames : Receive(f)

Next == Loop \/ Environment

\* ESPHome calls loop() again and again; nothing obliges anyone to send.
Spec == Init /\ [][Next]_vars /\ WF_vars(Loop)
-----------------------------------------------------------------------------
(* Properties *)

FifoTypeOK ==
  /\ fifo \in Seq(Frames) /\ Len(fifo) <= FifoDepth
  /\ edged \in Seq(BOOLEAN) /\ Len(edged) = Len(fifo)

FlagTypeOK ==
  /\ rxDR \in BOOLEAN /\ ce \in BOOLEAN /\ irqFlag \in BOOLEAN
  /\ afterInterrupt \in BOOLEAN /\ counted \in BOOLEAN
  /\ overwritten \in BOOLEAN

HubTypeOK ==
  /\ quiet \in 0..WatchdogTimeout + 1
  /\ count \in [Counters -> 0..CounterMax]
  /\ last \in Frames \cup {NoFrame}

RunTypeOK ==
  /\ pc \in Steps
  /\ guard \in 0..GuardLimit
  /\ hand = <<>> \/ \E f \in Frames : hand = <<f>>

(* Every variable has its type: a FIFO never holds more than the chip can,
   a counter never passes its limit (nrf24.cpp:302, 312, 326, 437), a run
   never takes more than its guard allows (nrf24.cpp:284). *)
TypeOK == FifoTypeOK /\ FlagTypeOK /\ HubTypeOK /\ RunTypeOK

(* What the listeners rely on is FrameChannel: a payload read off the chip
   and not yet dispatched still waits, in front of those in the FIFO. *)
Channel == INSTANCE FrameChannel WITH queue <- hand \o fifo,
                                      Capacity <- FifoDepth + 1

(* Frames are handed to the listeners at most once and in order of arrival,
   a waiting frame is lost only with a flush of the whole FIFO, and none
   waits for ever (drain_fifo_(): the FIFO is read on every loop, whatever
   the interrupt did). *)
ImplementsChannel == Channel!Spec

(* Between two calls of loop() the IRQ line is not held down unless the flag
   is up: the next frame raises an edge, or the next loop() already knows.
   This is the receiver that "fell silent for good" of the comments. *)
LineArmed == pc \in {"watchdog", "idle"} /\ rxDR /\ IrqPin => irqFlag

(* irq_missed_count_ moves only for a payload that raised no interrupt, or
   when loop() itself wiped the flag of one between reading it and clearing
   it (nrf24.cpp:414-416). *)
MissedIsExplained ==
  [][count'["missed"] > count["missed"] => ~Head(edged) \/ overwritten]_vars

(* irq_missed_count_ is "times a payload was found in the FIFO although no
   interrupt had been delivered" (nrf24.h:86). *)
MissedMeansNoInterrupt ==
  [][count'["missed"] > count["missed"] => ~Head(edged)]_vars

(* Payloads are thrown away unread only after a counter says so: afterwards
   the device can tell having heard nothing from having discarded. *)
DiscardIsCounted ==
  [][fifo # <<>> /\ fifo' = <<>> /\ hand' = hand /\ CounterMax > 0
       => count["bad"] + count["watchdog"] > 0]_vars

(* A flooded channel does not starve the rest of the loop. *)
LoopReturns == []<>(pc = "idle")

(* The interrupt keeps being able to do its job: RX_DR never stands for
   good. *)
LineReleased == rxDR ~> ~rxDR
=============================================================================
