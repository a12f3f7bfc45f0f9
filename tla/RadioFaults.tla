----------------------------- MODULE RadioFaults -----------------------------
(***************************************************************************)
(* NRF24Radio with a chip that may lose its supply, or its supply and its  *)
(* wires, between any two SPI transactions.  While nothing answers, MISO   *)
(* stays low or high, and drain_fifo_() takes whatever it reads for the    *)
(* chip's answer: 0x00 is a FIFO that is not empty, 0xFF one that is.      *)
(* MODULE RadioInit has every register; here there are two groups of them, *)
(* so that a fault within radio_init_() can leave a chip with one.         *)
(***************************************************************************)
EXTENDS NRF24Radio

CONSTANTS
  Ghost,      \* what is read of a payload that is not there
  MaxFaults   \* bound: how often the supply fails

ASSUME FaultAssumption == Ghost \notin Frames \cup {NoFrame} /\ MaxFaults \in Nat

VARIABLES
  miso,        \* who drives MISO: "chip", or nobody and it stays "low" or "high"
  held,        \* the groups of registers the chip holds as they were written
  accepted,    \* chip_ok_ and regs_ok_, "open" until they are worked out
  error,       \* status_set_error() / status_clear_error()
  faults,      \* history: how often the supply has failed
  returns,     \* history: how often it has come back
  ghosts       \* history: how many ghosts have been read

verdict   == <<held, accepted, error>>
history   == <<faults, returns, ghosts>>
faultVars == <<vars, miso, verdict, history>>

Answers == miso = "chip"

\* EN_AA and EN_RXADDR come first, then the rest: the channel, the data rate, the
\* addresses and the lengths.
Groups == {"pipes", "rest"}
Whole  == held = Groups

\* After a fault between the two, the chip has the rest on top of its power-on
\* values: every pipe answers, and pipe 1 is enabled, or all are.  Which senders
\* still get through depends on how the pipes are set up; any may.
InPart == held = {"rest"}

FaultInit ==
  /\ Init
  /\ miso = "chip" /\ held = {}
  /\ accepted = "no" /\ error = FALSE
  /\ faults = 0 /\ returns = 0 /\ ghosts = 0
-----------------------------------------------------------------------------
(* The supply *)

\* The chip forgets what it received and how it was configured; the line, no
\* longer held up, may fall.
LosePower ==
  /\ faults < MaxFaults /\ faults' = faults + 1
  /\ fifo' = <<>> /\ edged' = <<>> /\ rxDR' = FALSE
  /\ held' = {}
  /\ irqFlag' \in {irqFlag, irqFlag \/ IrqPin}
  /\ UNCHANGED <<ce, quiet, count, last, pc, run, accepted, error, ghosts>>

\* The supply dips: the chip starts afresh and answers.
Dip == LosePower /\ Answers /\ UNCHANGED <<miso, returns>>

Cut == LosePower /\ Answers /\ miso' \in {"low", "high"} /\ UNCHANGED returns

Mend ==
  /\ ~Answers /\ miso' = "chip"
  /\ returns' = returns + 1
  /\ UNCHANGED <<vars, verdict, faults, ghosts>>
-----------------------------------------------------------------------------
(* Steps of loop() that do not depend on an answer.  A write or a command that
   nobody receives changes nothing, and a chip without power has nothing to
   change: its FIFO is empty and RX_DR is not set. *)

Unanswered ==
  /\ \/ ReadFlag \/ ClearFlag \/ GuardExhausted \/ CheckMissed
     \/ FlushRx \/ ClearAfterFlush \/ ClearAndDispatch \/ ClearWhenEmpty
     \/ Watchdog
  /\ UNCHANGED <<miso, verdict, history>>

\* Steps that read what the chip has.
Answered ==
  /\ Answers
  /\ \/ FindEmpty \/ FindPayload \/ ReadStatusWhenEmpty
     \/ fifo # <<>> /\ (ReadPipe \/ ReadWidth \/ ReadPayload)
  /\ UNCHANGED <<miso, verdict, history>>

\* Nobody answers, or the payload announced is gone.
Missing == ~Answers \/ fifo = <<>>

\* FIFO_STATUS reads as 0xFF: empty, ...
SeemsEmpty ==
  /\ Goto("fifo", "emptyStatus")
  /\ guard < GuardLimit /\ miso = "high"
  /\ UNCHANGED <<chip, hub, run, miso, verdict, history>>

\* ... or as 0x00: neither empty nor full.
SeemsWaiting ==
  /\ Goto("fifo", "missed")
  /\ guard < GuardLimit /\ miso = "low"
  /\ UNCHANGED <<chip, hub, run, miso, verdict, history>>

\* Definitions named <definition>_<defect> are what a plausible mistake would
\* make of the definition that follows them; no specification uses them.
\* Pipe 0 taken for the first one configured, of a fixed size.
MissPipe_Zero ==
  /\ pc = "status"
  /\ Missing
  /\ pc' = IF miso = "low" THEN "take" ELSE "width"
  /\ UNCHANGED <<chip, hub, run, miso, verdict, history>>

\* STATUS names pipe 0 or 7.  No such pipe is configured, which reads as dynamic.
MissPipe ==
  /\ pc = "status" /\ pc' = "width"
  /\ Missing
  /\ UNCHANGED <<chip, hub, run, miso, verdict, history>>

\* Anything read of the chip is taken as a sign of life.
MissWidth_NotesActivity ==
  /\ pc = "width"
  /\ Missing
  /\ \/ pc' = "flush" /\ count' = Bump(count, "bad")
     \/ Answers /\ pc' = "take" /\ UNCHANGED count
  /\ quiet' = 0
  /\ UNCHANGED <<chip, irqFlag, last, run, miso, verdict, history>>

\* A width of 0x00 or 0xFF is refused.  What a chip says of an empty FIFO is
\* not specified.
MissWidth ==
  /\ pc = "width"
  /\ Missing
  /\ \/ pc' = "flush" /\ count' = Bump(count, "bad")
     \/ Answers /\ pc' = "take" /\ UNCHANGED count
  /\ UNCHANGED <<chip, irqFlag, quiet, last, run, miso, verdict, history>>

\* As many bytes as the width said, of nothing.
ReadGhost ==
  /\ Goto("take", "dispatch")
  /\ Missing
  /\ hand' = <<Ghost>>
  /\ ghosts' = ghosts + 1
  /\ UNCHANGED <<chip, hub, afterInterrupt, counted, guard, overwritten,
                 miso, verdict, faults, returns>>

\* STATUS reads as 0xFF, with RX_DR set, or as 0x00.
MissStatus ==
  /\ pc = "emptyStatus"
  /\ ~Answers
  /\ pc' = IF miso = "high" THEN "emptyClear" ELSE "watchdog"
  /\ UNCHANGED <<chip, hub, run, miso, verdict, history>>

Hold(group) == held' = IF Answers THEN held \cup {group} ELSE held

\* radio_init_() up to the enabled pipes.
WritePipes ==
  /\ InitStop
  /\ Hold("pipes")
  /\ UNCHANGED <<miso, accepted, error, history>>

\* The verdict of an earlier run is kept.
WriteRest_KeepsVerdict ==
  /\ InitReset
  /\ Hold("rest")
  /\ UNCHANGED <<miso, accepted, error, history>>

\* The other registers, STATUS and the FIFO.
WriteRest ==
  /\ InitReset
  /\ Hold("rest") /\ accepted' = "open"
  /\ UNCHANGED <<miso, error, history>>

\* Whatever answers is taken for sound, as without the read-back.
Verify_ChipOnly ==
  /\ pc = "initStart" /\ accepted = "open"
  /\ accepted' = IF Answers /\ "rest" \in held THEN "yes" ELSE "no"
  /\ UNCHANGED <<vars, miso, held, error, history>>

\* The registers are read back.  Nobody's answer is that of a chip, and the
\* power-on value of EN_AA, which has pipe 0, is never what was written.  A fault
\* among the reads comes to one before them, or after them.
Verify ==
  /\ pc = "initStart" /\ accepted = "open"
  /\ accepted' = IF Answers /\ Whole THEN "yes" ELSE "no"
  /\ UNCHANGED <<vars, miso, held, error, history>>

\* An error once set stays.
Conclude_KeepsError ==
  /\ InitStart /\ accepted # "open"
  /\ error' = (error \/ accepted = "no")
  /\ UNCHANGED <<miso, held, accepted, history>>

\* What setup() and loop() make of chip_ok_ and regs_ok_.
Conclude ==
  /\ InitStart /\ accepted # "open"
  /\ error' = (accepted = "no")
  /\ UNCHANGED <<miso, held, accepted, history>>

FaultyLoop == \/ Unanswered \/ Answered \/ SeemsEmpty \/ SeemsWaiting \/ MissPipe
              \/ MissWidth \/ ReadGhost \/ MissStatus
              \/ WritePipes \/ WriteRest \/ Verify \/ Conclude

\* Without the rest the chip is on another channel.
Hear ==
  /\ "rest" \in held
  /\ SpuriousRxDR \/ \E f \in Frames : Receive(f)
  /\ UNCHANGED <<miso, verdict, history>>

Wait == Tick /\ UNCHANGED <<miso, verdict, history>>

FaultNext == FaultyLoop \/ Hear \/ Wait \/ Dip \/ Cut \/ Mend

\* loop() is called and time passes; nobody has to send, nor to mend anything.
FaultSpec ==
  /\ FaultInit /\ [][FaultNext]_faultVars
  /\ WF_faultVars(FaultyLoop) /\ WF_faultVars(Wait)
-----------------------------------------------------------------------------
(* Properties *)

(* A chip without power holds nothing, and one that holds all its registers
   while loop() runs has been found to. *)
FaultTypeOK ==
  /\ pc \in Steps /\ miso \in {"chip", "low", "high"}
  /\ Len(fifo) = Len(edged) /\ Len(fifo) <= FifoDepth
  /\ held \subseteq Groups /\ accepted \in {"open", "yes", "no"}
  /\ ~Answers => fifo = <<>> /\ ~rxDR /\ held = {}
  /\ Whole /\ pc \notin InitSteps => accepted = "yes"

(* A radio that hears anything reports an error exactly if it does not hear all
   it should: whichever transactions of radio_init_() a fault falls between, a
   chip left with part of its registers, whose frames keep the watchdog from
   configuring it again (nrf24.cpp:351, 436), does not look healthy, and no
   error outlives its cause (nrf24.cpp:72-82, 446-450). *)
StatusMatchesChip ==
  pc \notin InitSteps /\ held # {} => (error <=> ~Whole)

(* A radio that is not there is not taken for a sender: however long MISO is
   stuck, the listeners are handed bytes nobody sent at most once for each
   time the supply fails or comes back (nrf24.cpp:273-278, 316-337). *)
GhostsAreRare == ghosts <= faults + returns

\* A ghost is a frame that was received when it was read.
Served == INSTANCE FrameChannel WITH queue <- hand \o fifo,
                                     Frames <- Frames \cup {Ghost},
                                     Capacity <- FifoDepth + 1

(* Between whichever transactions the supply fails, and whatever is read of a
   chip that has lost its payloads, frames are still handed over at most once
   and in order, with those lost that waited on the chip: a payload taken out
   before reaches the listeners, and none is read anew after the chip is
   configured again (nrf24.cpp:280-386, 433-451). *)
FaultsKeepOrder == Served!FaultySpec

(* With a watchdog a dead radio is reported in the end, no matter what its
   bus reads like and which counters move; and one that is back for good is
   configured again, and the report withdrawn, unless it was left with part of
   its registers and what it hears by them keeps coming (nrf24.cpp:433-451). *)
Diagnosed ==
  WatchdogTimeout > 0 =>
    /\ <>[]~Answers => <>[]error
    /\ <>[]Answers => \/ <>[](Whole /\ ~error)
                      \/ []<>(InPart /\ pc = "dispatch")
=============================================================================
