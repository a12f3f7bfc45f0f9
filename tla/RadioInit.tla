----------------------------- MODULE RadioInit -----------------------------
(***************************************************************************)
(* How NRF24Hub configures its chip: the settings the schema accepts       *)
(* (nrf24/__init__.py), the registers that follow from them                *)
(* (nrf24_config.h), radio_init_() writing and reading them back, and      *)
(* setup() and the watchdog that run it, against a chip that may lose its  *)
(* power or its wires between any two steps, or not take a register.       *)
(*                                                                         *)
(* Consecutive transactions on registers of one kind (the addresses, the   *)
(* payload widths, the FEATURE handshake) are one step.                    *)
(***************************************************************************)
EXTENDS Naturals, Sequences

CONSTANTS
  Trials,          \* what is tried, [settings, kind, faults]: what users may
                   \* write, [size, ack, pipes] (see Effective), on a chip
                   \* [refused, needsActivate, bit0] (see Takes), and the
                   \* bound: how often power or wires fail
  Inherit,         \* a setting a pipe leaves to the hub
  NoAddress,       \* what the chip listens to before it is configured
  MaxPipes,        \* MAX_PIPES (5)
  Channel,         \* channel_
  RateBits,        \* rf_setup_byte(), "default" or "zero" if it is that of a
                   \* fresh chip or of none
  WatchdogTimeout  \* watchdog_timeout_ in ticks, 0 disables it

Dynamic == 0  \* the payload size that stands for "dynamic"

VARIABLES
  config,     \* the settings in force, one record for each pipe
  kind,       \* the chip
  regs,       \* its registers
  locked,     \* FEATURE cannot be written before ACTIVATE
  wired,      \* it has power and answers
  ce,         \* ce_pin_
  pos,        \* next step of radio_init_(), 0 outside of it
  chipOk, regsOk, cloneSuspected, error,
  saved,      \* the local of rf_setup_bit0_writable_()
  quiet,      \* millis() - last_activity_ms_
  faults,     \* faults still to come
  disturbed   \* history: a fault since radio_init_() last began

chipState == <<regs, locked, wired>>
verdict   == <<chipOk, regsOk, cloneSuspected, error>>
initVars  == <<config, kind, chipState, ce, pos, verdict, saved, quiet, faults,
               disturbed>>
-----------------------------------------------------------------------------
(* The schema *)

\* pipe_settings(): the value of the pipe, else the hub's.
Effective(c) ==
  [n \in DOMAIN c.pipes |->
     [address |-> c.pipes[n].address,
      size    |-> IF c.pipes[n].size = Inherit THEN c.size ELSE c.pipes[n].size,
      ack     |-> IF c.pipes[n].ack = Inherit THEN c.ack ELSE c.pipes[n].ack]]

\* Every first byte once; the chip knows the rest of pipe 1 only.
ValidPipes(pipes) ==
  \A m, n \in DOMAIN pipes :
    m # n => /\ pipes[m].address.first # pipes[n].address.first
             /\ pipes[m].address.rest = pipes[n].address.rest

\* _validate_radio(): dynamic payloads with auto-ack, fixed ones without.
ValidRadio(pipes) == \A n \in DOMAIN pipes : pipes[n].ack <=> pipes[n].size = Dynamic

ValidSettings(c) ==
  /\ Len(c.pipes) \in 1..MaxPipes
  /\ ValidPipes(c.pipes)
  /\ ValidRadio(Effective(c))
-----------------------------------------------------------------------------
(* Registers.  A mask is the set of its pipes. *)

PipeRange == 0..MaxPipes

\* Definitions named <definition>_<defect> are what a plausible mistake would
\* make of the definition that follows them; no specification uses them.
Mask_ShiftedTwice(pipes) == {n + 1 : n \in pipes}

\* pipe_masks(): the first pipe configured is pipe 1 of the chip.
Mask(pipes) == {n \in pipes : n <= MaxPipes}

Enabled      == DOMAIN config
AutoAck      == {n \in DOMAIN config : config[n].ack}
DynamicPipes == {n \in DOMAIN config : config[n].size = Dynamic}

Rate == [bits |-> RateBits, bit0 |-> FALSE]

\* What radio_init_() wants of a register.
Intended(r) ==
  CASE r = "CONFIG"    -> "standby"
    [] r = "EN_AA"     -> Mask(AutoAck)
    [] r = "EN_RXADDR" -> Mask(Enabled)
    [] r = "SETUP_AW"  -> 3
    [] r = "RF_CH"     -> Channel
    [] r = "RF_SETUP"  -> Rate
    [] r = "ADDR"      -> [rest |-> config[1].address.rest,
                           first |-> [n \in DOMAIN config |-> config[n].address.first]]
    [] r = "FEATURE"   -> IF Mask(DynamicPipes) = {} THEN {} ELSE {"EN_DPL"}
    [] r = "DYNPD"     -> Mask(DynamicPipes)
    [] r = "RX_PW"     -> [n \in DOMAIN config |-> config[n].size]

Registers == {"CONFIG", "EN_AA", "EN_RXADDR", "SETUP_AW", "RF_CH", "RF_SETUP",
              "ADDR", "FEATURE", "DYNPD", "RX_PW"}

\* An address is what the schema makes of five bytes: the first and the rest.
ASSUME InitAssumption ==
  /\ MaxPipes \in Nat \ {0} /\ WatchdogTimeout \in Nat
  /\ Channel \in 0..125
  /\ \A t \in Trials :
       /\ LET pipes == t.settings.pipes IN
            /\ pipes \in Seq({pipes[n] : n \in DOMAIN pipes})
            /\ \A n \in DOMAIN pipes :
                 pipes[n].address = [first |-> pipes[n].address.first,
                                     rest |-> pipes[n].address.rest]
       /\ t.kind.refused \subseteq Registers
       /\ {t.kind.needsActivate, t.kind.bit0} \subseteq BOOLEAN
       /\ t.faults \in Nat

\* After power-on (external: the chip).
Default ==
  [r \in Registers |->
     CASE r = "CONFIG"    -> "off"
       [] r = "EN_AA"     -> PipeRange
       [] r = "EN_RXADDR" -> {0, 1}
       [] r = "SETUP_AW"  -> 3
       [] r = "RF_CH"     -> 2
       [] r = "RF_SETUP"  -> [bits |-> "default", bit0 |-> FALSE]
       [] r = "ADDR"      -> [rest |-> NoAddress,
                              first |-> [n \in DOMAIN config |-> NoAddress]]
       [] r \in {"FEATURE", "DYNPD"} -> {}
       [] r = "RX_PW"     -> [n \in DOMAIN config |-> 0]]

\* A chip that does not answer reads as zeros.
Zero(r) ==
  CASE r \in {"EN_AA", "EN_RXADDR", "FEATURE", "DYNPD"} -> {}
    [] r \in {"SETUP_AW", "RF_CH"} -> 0
    [] r = "RX_PW"    -> [n \in DOMAIN config |-> 0]
    [] r = "RF_SETUP" -> [bits |-> "zero", bit0 |-> FALSE]
    [] OTHER          -> "zero"

Read(r) == IF wired THEN regs[r] ELSE Zero(r)

Takes(r) == wired /\ r \notin kind.refused /\ ~(r = "FEATURE" /\ locked)

Write(r, v) == regs' = IF Takes(r) THEN [regs EXCEPT ![r] = v] ELSE regs
-----------------------------------------------------------------------------
(* radio_init_(): its steps in order *)

Do(op, r) == [op |-> op, reg |-> r]

\* The registers read back: those of the single pipes.
Checked == {"EN_AA", "EN_RXADDR", "DYNPD", "FEATURE", "RX_PW"}

Program == <<
  Do("write", "CONFIG"),    Do("write", "EN_AA"),     Do("write", "EN_RXADDR"),
  Do("write", "SETUP_AW"),  Do("write", "RF_CH"),     Do("write", "RF_SETUP"),
  Do("write", "ADDR"),      Do("write", "FEATURE"),   Do("unlock", "FEATURE"),
  Do("write", "DYNPD"),     Do("write", "RX_PW"),
  Do("detect", "SETUP_AW"), Do("detect", "RF_CH"),
  Do("check", "EN_AA"),     Do("check", "EN_RXADDR"), Do("check", "DYNPD"),
  Do("check", "FEATURE"),   Do("check", "RX_PW"),
  Do("probeRead", "RF_SETUP"), Do("probeWrite", "RF_SETUP"),
  Do("probeTest", "RF_SETUP"), Do("probeRestore", "RF_SETUP"),
  Do("start", "CONFIG") >>

At(op) == pos > 0 /\ Program[pos].op = op
reg    == Program[pos].reg
Advance == pos' = pos + 1

\* CE goes down: setup(), or the watchdog in loop().
Begin ==
  /\ ce' = FALSE /\ pos' = 1
  /\ disturbed' = FALSE

WriteStep ==
  /\ At("write") /\ Advance
  /\ Write(reg, Intended(reg))
  /\ UNCHANGED <<config, kind, locked, wired, ce, verdict, saved, quiet, faults,
                 disturbed>>

\* Without the ACTIVATE handshake.
Unlock_Never ==
  /\ At("unlock") /\ Advance
  /\ UNCHANGED <<config, kind, chipState, ce, verdict, saved, quiet, faults,
                 disturbed>>

\* FEATURE wanted and not taken: ACTIVATE (which toggles the lock), once more.
Unlock ==
  /\ At("unlock") /\ Advance
  /\ IF wired /\ Intended("FEATURE") # {} /\ regs["FEATURE"] # Intended("FEATURE")
     THEN /\ locked' = (~locked /\ kind.needsActivate)
          /\ regs' = IF "FEATURE" \in kind.refused \/ locked' THEN regs
                     ELSE [regs EXCEPT !["FEATURE"] = Intended("FEATURE")]
     ELSE UNCHANGED <<regs, locked>>
  /\ UNCHANGED <<config, kind, wired, ce, verdict, saved, quiet, faults, disturbed>>

\* chip_ok_: two registers read back; regs_ok_ starts out true.
Detect ==
  /\ At("detect") /\ Advance
  /\ chipOk' = ((reg = "SETUP_AW" \/ chipOk) /\ Read(reg) = Intended(reg))
  /\ regsOk' = TRUE
  /\ UNCHANGED <<config, kind, chipState, ce, cloneSuspected, error, saved, quiet,
                 faults, disturbed>>

\* The lengths are not among them.
Check_NoLengths ==
  /\ At("check") /\ Advance
  /\ regsOk' = (regsOk /\ (chipOk /\ reg # "RX_PW" => Read(reg) = Intended(reg)))
  /\ UNCHANGED <<config, kind, chipState, ce, chipOk, cloneSuspected, error, saved,
                 quiet, faults, disturbed>>

\* One check; without a chip there is none.
Check ==
  /\ At("check") /\ Advance
  /\ regsOk' = (regsOk /\ (chipOk => Read(reg) = Intended(reg)))
  /\ UNCHANGED <<config, kind, chipState, ce, chipOk, cloneSuspected, error, saved,
                 quiet, faults, disturbed>>

\* rf_setup_bit0_writable_(), if there is a chip: bit 0 is set, read, put back.
ProbeRead ==
  /\ At("probeRead") /\ Advance
  /\ saved' = IF chipOk THEN Read("RF_SETUP") ELSE saved
  /\ UNCHANGED <<config, kind, chipState, ce, verdict, quiet, faults, disturbed>>

ProbeWrite ==
  /\ At("probeWrite") /\ Advance
  /\ IF chipOk THEN Write("RF_SETUP", [saved EXCEPT !.bit0 = kind.bit0])
     ELSE UNCHANGED regs
  /\ UNCHANGED <<config, kind, locked, wired, ce, verdict, saved, quiet, faults,
                 disturbed>>

ProbeTest ==
  /\ At("probeTest") /\ Advance
  /\ cloneSuspected' = IF chipOk THEN Read("RF_SETUP").bit0 ELSE cloneSuspected
  /\ UNCHANGED <<config, kind, chipState, ce, chipOk, regsOk, error, saved, quiet,
                 faults, disturbed>>

ProbeRestore ==
  /\ At("probeRestore") /\ Advance
  /\ IF chipOk THEN Write("RF_SETUP", saved) ELSE UNCHANGED regs
  /\ UNCHANGED <<config, kind, locked, wired, ce, verdict, saved, quiet, faults,
                 disturbed>>

\* An error once set stays.
Start_KeepsError ==
  /\ At("start") /\ pos' = 0
  /\ Write("CONFIG", "receive")
  /\ ce' = TRUE /\ quiet' = 0
  /\ error' = (error \/ ~chipOk \/ ~regsOk)
  /\ UNCHANGED <<config, kind, locked, wired, chipOk, regsOk, cloneSuspected, saved,
                 faults, disturbed>>

\* The end of radio_init_(), and what setup() and loop() make of its verdict.
Start ==
  /\ At("start") /\ pos' = 0
  /\ Write("CONFIG", "receive")
  /\ ce' = TRUE /\ quiet' = 0
  /\ error' = ~(chipOk /\ regsOk)
  /\ UNCHANGED <<config, kind, locked, wired, chipOk, regsOk, cloneSuspected, saved,
                 faults, disturbed>>

Configure == \/ WriteStep \/ Unlock \/ Detect \/ Check
             \/ ProbeRead \/ ProbeWrite \/ ProbeTest \/ ProbeRestore \/ Start

Watchdog ==
  /\ pos = 0
  /\ WatchdogTimeout > 0 /\ quiet > WatchdogTimeout
  /\ Begin
  /\ UNCHANGED <<config, kind, chipState, verdict, saved, quiet, faults>>
-----------------------------------------------------------------------------
(* The chip, the air and the clock *)

\* The address of a pipe on the air: pipes 2-5 have a first byte of their own.
AddressOf(n) == [first |-> regs["ADDR"].first[n], rest |-> regs["ADDR"].rest]

\* Can the chip receive what is sent to pipe n as it is meant to?
LengthRight(n) ==
  IF config[n].size = Dynamic
  THEN n \in regs["DYNPD"] /\ n \in regs["EN_AA"] /\ regs["FEATURE"] = {"EN_DPL"}
  ELSE n \notin regs["DYNPD"] /\ n \notin regs["EN_AA"]
       /\ regs["RX_PW"][n] = config[n].size

Serves(n) == n \in regs["EN_RXADDR"] /\ LengthRight(n)

Tuned(n) ==
  regs["RF_CH"] = Channel /\ regs["RF_SETUP"] = Rate
  /\ AddressOf(n) = config[n].address

Hears(n) ==
  ce /\ wired /\ regs["CONFIG"] = "receive" /\ Serves(n) /\ Tuned(n)

Receive ==
  /\ pos = 0
  /\ \E n \in DOMAIN config : Hears(n)
  /\ quiet' = 0
  /\ UNCHANGED <<config, kind, chipState, ce, pos, verdict, saved, faults, disturbed>>

Tick ==
  /\ pos = 0 /\ quiet <= WatchdogTimeout
  /\ quiet' = quiet + 1
  /\ UNCHANGED <<config, kind, chipState, ce, pos, verdict, saved, faults, disturbed>>

PowerOn ==
  /\ regs' = Default
  /\ locked' = kind.needsActivate

\* The supply dips: the chip starts afresh.
Brownout ==
  /\ wired /\ faults > 0
  /\ PowerOn
  /\ faults' = faults - 1 /\ disturbed' = TRUE
  /\ UNCHANGED <<config, kind, wired, ce, pos, verdict, saved, quiet>>

Unplug ==
  /\ wired /\ faults > 0
  /\ wired' = FALSE
  /\ faults' = faults - 1 /\ disturbed' = TRUE
  /\ UNCHANGED <<config, kind, regs, locked, ce, pos, verdict, saved, quiet>>

Plug ==
  /\ ~wired
  /\ wired' = TRUE
  /\ PowerOn
  /\ disturbed' = TRUE
  /\ UNCHANGED <<config, kind, ce, pos, verdict, saved, quiet, faults>>

Init ==
  /\ \E t \in Trials :
       /\ ValidSettings(t.settings)
       /\ config = Effective(t.settings) /\ kind = t.kind /\ faults = t.faults
  /\ wired \in BOOLEAN /\ regs = Default /\ locked = kind.needsActivate
  /\ ce = FALSE /\ pos = 1 /\ disturbed = FALSE   \* setup() begins
  /\ chipOk = FALSE /\ regsOk = FALSE /\ cloneSuspected = FALSE /\ error = FALSE
  /\ saved = Rate /\ quiet = 0

Next == \/ Configure \/ Watchdog \/ Receive \/ Tick
        \/ Brownout \/ Unplug \/ Plug

\* setup() and loop() run, and time passes; nobody has to mend the wires.
Spec == Init /\ [][Next]_initVars /\ WF_initVars(Configure)
             /\ WF_initVars(Watchdog) /\ WF_initVars(Tick)
-----------------------------------------------------------------------------
(* Properties *)

(* Registers hold what they can hold: no pipe but 0 .. MaxPipes, so no bit of
   a neighbouring field (nrf24_config.h:57-60). *)
TypeOK ==
  /\ {regs["EN_AA"], regs["EN_RXADDR"], regs["DYNPD"]} \subseteq SUBSET PipeRange
  /\ regs["FEATURE"] \subseteq {"EN_DPL"}
  /\ regs["CONFIG"] \in {"off", "standby", "receive"}
  /\ {locked, wired, ce, chipOk, regsOk, cloneSuspected, error, disturbed}
       \subseteq BOOLEAN
  /\ pos \in 0..Len(Program) /\ faults \in Nat
  /\ quiet \in 0..WatchdogTimeout + 1

Settled == pos = 0 /\ ~disturbed

(* A configuration reported as accepted serves every pipe as the settings ask,
   worked out for each pipe without the masks: a chip that refuses a register
   of the pipes is found out (nrf24.cpp:162-205), a mask wrong in the first
   place would be as well (nrf24_config.h:6-12), and the probe for a clone
   leaves no trace. *)
AcceptedIsRight ==
  Settled /\ chipOk /\ regsOk =>
    \A n \in DOMAIN config :
      Serves(n) /\ (kind.refused \cap {"RF_CH", "RF_SETUP", "ADDR"} = {} => Tuned(n))

(* A chip that answers and takes every register is accepted, the ones that
   want ACTIVATE first included, whatever the state it was found in
   (nrf24.cpp:131-143), and a clone is told from the real one
   (nrf24.cpp:261-267). *)
GoodChipAccepted ==
  Settled /\ wired /\ kind.refused = {} =>
    chipOk /\ regsOk /\ ~error /\ cloneSuspected = kind.bit0

(* regs_ok() is "true when the per-pipe registers read back what was written
   to them" (nrf24.h:63). *)
RegsOkMeansReadBack ==
  Settled /\ regsOk =>
    \A r \in Checked : Read(r) = Intended(r)

(* Once the chip keeps its power and its wires, the watchdog gets a radio with
   one pipe to hear again, whatever the faults and between which two steps
   they came, and takes back the error where it gets to run again
   (nrf24.cpp:433-451). *)
Recovers ==
  (Len(config) = 1 /\ kind.refused = {} /\ <>[]wired) =>
    /\ <>[](pos > 0 \/ \A n \in DOMAIN config : Hears(n))
    /\ []<>(pos = 0)
    /\ ([]<>(pos = 1) => <>[]~error)
=============================================================================
