--------------------------- MODULE RadioInitProofs ---------------------------
(***************************************************************************)
(* Proofs about RadioInit for any settings the schema accepts, any chip    *)
(* that refuses some registers, any number of pipes and any number of      *)
(* faults at any step: what radio_init_() reports of a chip nothing        *)
(* disturbed meanwhile is right in both directions.                        *)
(***************************************************************************)
EXTENDS RadioInit, SequenceTheorems, TLAPS

(* What holds of every state *)

Addressed(n) == config[n].address = [first |-> config[n].address.first,
                                     rest |-> config[1].address.rest]

\* What the schema has accepted, and what the chip is.
SettingsInv ==
  /\ 1 \in DOMAIN config /\ DOMAIN config \subseteq 1..MaxPipes
  /\ \A n \in DOMAIN config :
       Addressed(n) /\ (config[n].ack <=> config[n].size = Dynamic)
  /\ kind.refused \subseteq Registers
  /\ kind.needsActivate \in BOOLEAN /\ kind.bit0 \in BOOLEAN

RateValues == [bits : {RateBits, "default", "zero"}, bit0 : BOOLEAN]

RegsInv ==
  /\ regs = [r \in Registers |-> regs[r]]
  /\ regs["EN_AA"] \subseteq PipeRange /\ regs["EN_RXADDR"] \subseteq PipeRange
  /\ regs["DYNPD"] \subseteq PipeRange
  /\ regs["FEATURE"] = {} \/ regs["FEATURE"] = Intended("FEATURE")
  /\ regs["CONFIG"] \in {"off", "standby", "receive"}
  /\ regs["RF_SETUP"] \in RateValues /\ saved \in RateValues

HubInv ==
  /\ locked \in BOOLEAN /\ wired \in BOOLEAN /\ ce \in BOOLEAN
  /\ chipOk \in BOOLEAN /\ regsOk \in BOOLEAN /\ cloneSuspected \in BOOLEAN
  /\ error \in BOOLEAN /\ disturbed \in BOOLEAN
  /\ pos \in 0..23 /\ faults \in Nat /\ quiet \in 0..WatchdogTimeout + 1

(* What holds while nothing disturbs radio_init_() *)

\* radio_init_() has got past step p, or is through.
Past(p) == pos = 0 \/ p < pos

\* A chip that answers and takes the register has what was written to it.
Has(r) == wired /\ r \notin kind.refused => regs[r] = Intended(r)

WrittenInv ==
  /\ Past(2) => Has("EN_AA")
  /\ Past(3) => Has("EN_RXADDR")
  /\ Past(4) => Has("SETUP_AW")
  /\ Past(5) => Has("RF_CH")
  /\ Past(6) /\ (pos \in 21..22 => ~chipOk) => Has("RF_SETUP")
  /\ Past(7) => Has("ADDR")
  /\ Past(9) => Has("FEATURE")
  /\ pos = 9 => locked \/ Has("FEATURE")
  /\ Past(10) => Has("DYNPD")
  /\ Past(11) => Has("RX_PW")

\* A verdict is about a chip that is there, and covers the registers checked.
CheckedInv ==
  /\ Past(12) /\ chipOk => wired
  /\ chipOk /\ regsOk =>
       /\ Past(14) => regs["EN_AA"] = Intended("EN_AA")
       /\ Past(15) => regs["EN_RXADDR"] = Intended("EN_RXADDR")
       /\ Past(16) => regs["DYNPD"] = Intended("DYNPD")
       /\ Past(17) => regs["FEATURE"] = Intended("FEATURE")
       /\ Past(18) => regs["RX_PW"] = Intended("RX_PW")

\* The probe knows what to put back, and what it set.
ProbeInv ==
  wired /\ chipOk /\ "RF_SETUP" \notin kind.refused =>
    /\ pos \in 20..22 => saved = Rate
    /\ pos \in 21..22 => regs["RF_SETUP"] = [Rate EXCEPT !.bit0 = kind.bit0]
    /\ Past(21) => cloneSuspected = kind.bit0

\* Nothing is held against a chip that takes everything.
GoodInv ==
  wired /\ kind.refused = {} =>
    /\ Past(12) => chipOk /\ regsOk
    /\ pos = 0 => ~error

SteadyInv == ~disturbed => WrittenInv /\ CheckedInv /\ ProbeInv /\ GoodInv

IInv == SettingsInv /\ RegsInv /\ HubInv /\ SteadyInv
-----------------------------------------------------------------------------
(* The steps in numbers *)

LEMMA Steps ==
  ASSUME pos \in 0..23
  PROVE  /\ At("write") => pos \in 1..8 \cup 10..11
         /\ At("unlock") => pos = 9
         /\ At("detect") => pos \in 12..13
         /\ At("check") => pos \in 14..18
         /\ At("probeRead") => pos = 19
         /\ At("probeWrite") => pos = 20
         /\ At("probeTest") => pos = 21
         /\ At("probeRestore") => pos = 22
         /\ At("start") => pos = 23
<1>1. /\ Program[1].op = "write" /\ Program[2].op = "write" /\ Program[3].op = "write"
      /\ Program[4].op = "write" /\ Program[5].op = "write" /\ Program[6].op = "write"
      /\ Program[7].op = "write" /\ Program[8].op = "write" /\ Program[9].op = "unlock"
      /\ Program[10].op = "write" /\ Program[11].op = "write"
  BY DEF Program, Do
<1>2. /\ Program[12].op = "detect" /\ Program[13].op = "detect"
      /\ Program[14].op = "check" /\ Program[15].op = "check" /\ Program[16].op = "check"
      /\ Program[17].op = "check" /\ Program[18].op = "check"
      /\ Program[19].op = "probeRead" /\ Program[20].op = "probeWrite"
      /\ Program[21].op = "probeTest" /\ Program[22].op = "probeRestore"
      /\ Program[23].op = "start"
  BY DEF Program, Do
<1>3. pos \in 1..11 \/ pos \in 12..23 \/ pos = 0
  OBVIOUS
<1>4. CASE pos \in 1..11
  BY <1>1, <1>4 DEF At
<1>5. CASE pos \in 12..23
  BY <1>2, <1>5 DEF At
<1> QED
  BY <1>3, <1>4, <1>5 DEF At

LEMMA Names ==
  /\ pos = 1 => reg = "CONFIG"
  /\ pos = 2 => reg = "EN_AA"
  /\ pos = 3 => reg = "EN_RXADDR"
  /\ pos = 4 => reg = "SETUP_AW"
  /\ pos = 5 => reg = "RF_CH"
  /\ pos = 6 => reg = "RF_SETUP"
  /\ pos = 7 => reg = "ADDR"
  /\ pos = 8 => reg = "FEATURE"
  /\ pos = 10 => reg = "DYNPD"
  /\ pos = 11 => reg = "RX_PW"
  /\ pos = 12 => reg = "SETUP_AW"
  /\ pos = 13 => reg = "RF_CH"
  /\ pos = 14 => reg = "EN_AA"
  /\ pos = 15 => reg = "EN_RXADDR"
  /\ pos = 16 => reg = "DYNPD"
  /\ pos = 17 => reg = "FEATURE"
  /\ pos = 18 => reg = "RX_PW"
  BY DEF reg, Program, Do

LEMMA ProgramLength == Len(Program) = 23
  BY DEF Program
-----------------------------------------------------------------------------
(* The registers *)

LEMMA IntendedKept == config' = config => \A r : Intended(r)' = Intended(r)
  BY DEF Intended, Mask, AutoAck, Enabled, DynamicPipes

LEMMA IntendedIs ==
  /\ Intended("CONFIG") = "standby" /\ Intended("SETUP_AW") = 3
  /\ Intended("RF_CH") = Channel /\ Intended("RF_SETUP") = Rate
  /\ Intended("EN_AA") = Mask(AutoAck) /\ Intended("EN_RXADDR") = Mask(Enabled)
  /\ Intended("DYNPD") = Mask(DynamicPipes)
  /\ Intended("FEATURE") = IF Mask(DynamicPipes) = {} THEN {} ELSE {"EN_DPL"}
  /\ Intended("RX_PW") = [n \in DOMAIN config |-> config[n].size]
  /\ Intended("ADDR") = [rest |-> config[1].address.rest,
                         first |-> [n \in DOMAIN config |-> config[n].address.first]]
  BY DEF Intended

LEMMA MasksInRange ==
  ASSUME SettingsInv
  PROVE  /\ Intended("EN_AA") \subseteq PipeRange
         /\ Intended("EN_RXADDR") \subseteq PipeRange
         /\ Intended("DYNPD") \subseteq PipeRange
<1>1. DOMAIN config \subseteq PipeRange
  BY InitAssumption DEF SettingsInv, PipeRange
<1> QED
  BY <1>1, IntendedIs DEF Mask, AutoAck, Enabled, DynamicPipes

LEMMA DefaultIs ==
  /\ Default = [r \in Registers |-> Default[r]]
  /\ Default["EN_AA"] \subseteq PipeRange /\ Default["EN_RXADDR"] \subseteq PipeRange
  /\ Default["DYNPD"] = {} /\ Default["FEATURE"] = {}
  /\ Default["CONFIG"] = "off" /\ Default["RF_SETUP"] \in RateValues
<1>1. {0, 1} \subseteq PipeRange
  BY InitAssumption DEF PipeRange
<1>2. /\ Default["EN_AA"] = PipeRange /\ Default["EN_RXADDR"] = {0, 1}
      /\ Default["DYNPD"] = {} /\ Default["FEATURE"] = {} /\ Default["CONFIG"] = "off"
      /\ Default["RF_SETUP"] = [bits |-> "default", bit0 |-> FALSE]
  BY DEF Default, Registers
<1>3. Default = [r \in Registers |-> Default[r]]
  <2> DEFINE value(r) ==
        CASE r = "CONFIG"    -> "off"
          [] r = "EN_AA"     -> PipeRange
          [] r = "EN_RXADDR" -> {0, 1}
          [] r = "SETUP_AW"  -> 3
          [] r = "RF_CH"     -> 2
          [] r = "RF_SETUP"  -> [bits |-> "default", bit0 |-> FALSE]
          [] r = "ADDR"      -> [rest |-> NoAddress,
                                 first |-> [n \in DOMAIN config |-> NoAddress]]
          [] r \in {"FEATURE", "DYNPD"} -> {}
          [] r = "RX_PW"     -> [n \in DOMAIN config |-> 0]
  <2>1. Default = [r \in Registers |-> value(r)]
    BY DEF Default
  <2> HIDE DEF value
  <2> QED
    BY <2>1
<1> QED
  BY <1>1, <1>2, <1>3 DEF RateValues

(* What a write leaves behind. *)
LEMMA Written ==
  ASSUME RegsInv, NEW r \in Registers, NEW v, Write(r, v)
  PROVE  /\ regs' = [q \in Registers |-> regs'[q]]
         /\ \A q \in Registers : q # r => regs'[q] = regs[q]
         /\ Takes(r) => regs'[r] = v
         /\ ~Takes(r) => regs' = regs
  BY DEF RegsInv, Write

LEMMA ReadIs ==
  /\ wired => \A r : Read(r) = regs[r]
  /\ ~wired => Read("SETUP_AW") = 0 /\ Read("RF_SETUP") = [bits |-> "zero", bit0 |-> FALSE]
  BY DEF Read, Zero

LEMMA RateIs == Rate \in RateValues
  BY DEF Rate, RateValues
-----------------------------------------------------------------------------
(* The beginning *)

LEMMA SettingsInit == Init => SettingsInv
<1> SUFFICES ASSUME Init PROVE SettingsInv
  OBVIOUS
<1>1. PICK t \in Trials : /\ ValidSettings(t.settings)
                          /\ config = Effective(t.settings) /\ kind = t.kind
  BY DEF Init
<1> DEFINE pipes == t.settings.pipes
<1>2. /\ pipes \in Seq({pipes[n] : n \in DOMAIN pipes})
      /\ \A n \in DOMAIN pipes : pipes[n].address = [first |-> pipes[n].address.first,
                                                      rest |-> pipes[n].address.rest]
      /\ t.kind.refused \subseteq Registers
      /\ {t.kind.needsActivate, t.kind.bit0} \subseteq BOOLEAN
  BY InitAssumption
<1>3. DOMAIN pipes = 1..Len(pipes) /\ Len(pipes) \in 1..MaxPipes
  BY <1>1, <1>2, LenProperties DEF ValidSettings
<1>4. DOMAIN config = DOMAIN pipes
      /\ \A n \in DOMAIN pipes : config[n].address = pipes[n].address
  BY <1>1 DEF Effective
<1>5. 1 \in DOMAIN config /\ DOMAIN config \subseteq 1..MaxPipes
  BY <1>3, <1>4, InitAssumption
<1>6. \A n \in DOMAIN config : config[n].ack <=> config[n].size = Dynamic
  BY <1>1 DEF ValidSettings, ValidRadio
<1>7. \A n \in DOMAIN config : pipes[n].address.rest = pipes[1].address.rest
  BY <1>1, <1>4, <1>5 DEF ValidSettings, ValidPipes
<1>8. \A n \in DOMAIN config : Addressed(n)
  BY <1>2, <1>4, <1>5, <1>7 DEF Addressed
<1> QED
  BY <1>1, <1>2, <1>5, <1>6, <1>8 DEF SettingsInv

LEMMA InitIInv == Init => IInv
<1> SUFFICES ASSUME Init PROVE IInv
  OBVIOUS
<1>1. SettingsInv
  BY SettingsInit
<1>2. PICK t \in Trials : kind = t.kind /\ faults = t.faults
  BY DEF Init
<1>3. RegsInv
  BY DefaultIs, RateIs, <1>1 DEF Init, RegsInv, SettingsInv
<1>4. HubInv
  <2>1. faults \in Nat
    BY <1>2, InitAssumption
  <2>2. locked \in BOOLEAN
    <3>1. kind.needsActivate \in BOOLEAN
      BY <1>1 DEF SettingsInv
    <3> QED
      BY <3>1 DEF Init
  <2>3. /\ wired \in BOOLEAN /\ ce \in BOOLEAN
        /\ chipOk \in BOOLEAN /\ regsOk \in BOOLEAN /\ cloneSuspected \in BOOLEAN
        /\ error \in BOOLEAN /\ disturbed \in BOOLEAN
    BY DEF Init
  <2>4. pos \in 0..23 /\ quiet \in 0..WatchdogTimeout + 1
    <3>1. pos = 1 /\ quiet = 0
      BY DEF Init
    <3> QED
      BY <3>1, InitAssumption
  <2> QED
    BY <2>1, <2>2, <2>3, <2>4 DEF HubInv
<1>5. SteadyInv
  BY DEF Init, SteadyInv, WrittenInv, CheckedInv, ProbeInv, GoodInv, Past
<1> QED
  BY <1>1, <1>3, <1>4, <1>5 DEF IInv
-----------------------------------------------------------------------------
(* Types *)

LEMMA Constant == [Next]_initVars => UNCHANGED <<config, kind>>
  BY DEF Next, Configure, WriteStep, Unlock, Detect, Check, ProbeRead, ProbeWrite,
         ProbeTest, ProbeRestore, Start, Watchdog, Receive, Tick, Brownout, Unplug, Plug,
         initVars

LEMMA SettingsStep == SettingsInv /\ [Next]_initVars => SettingsInv'
<1> SUFFICES ASSUME SettingsInv, [Next]_initVars PROVE SettingsInv'
  OBVIOUS
<1>1. config' = config /\ kind' = kind
  BY Constant
<1> QED
  BY <1>1 DEF SettingsInv, Addressed

\* What may be written to a register.
Fits(r, v) ==
  /\ r \in {"EN_AA", "EN_RXADDR", "DYNPD"} => v \subseteq PipeRange
  /\ r = "FEATURE" => v = Intended("FEATURE")
  /\ r = "CONFIG" => v \in {"standby", "receive"}
  /\ r = "RF_SETUP" => v \in RateValues

LEMMA RegsWrite ==
  ASSUME RegsInv, NEW r \in Registers, NEW v, Fits(r, v), Write(r, v),
         config' = config, saved' \in RateValues
  PROVE  RegsInv'
<1>1. /\ regs' = [q \in Registers |-> regs'[q]]
      /\ \A q \in Registers : regs'[q] = regs[q] \/ (q = r /\ regs'[q] = v)
  BY Written
<1>2. Intended("FEATURE")' = Intended("FEATURE")
  BY IntendedKept
<1>3. PipeRange' = PipeRange
  BY DEF PipeRange
<1>4. {"EN_AA", "EN_RXADDR", "DYNPD", "FEATURE", "CONFIG", "RF_SETUP"} \subseteq Registers
  BY DEF Registers
<1>5. /\ regs'["EN_AA"] \subseteq PipeRange /\ regs'["EN_RXADDR"] \subseteq PipeRange
      /\ regs'["DYNPD"] \subseteq PipeRange
  BY <1>1, <1>4 DEF RegsInv, Fits
<1>6. regs'["FEATURE"] = {} \/ regs'["FEATURE"] = Intended("FEATURE")
  BY <1>1, <1>4 DEF RegsInv, Fits
<1>7. /\ regs'["CONFIG"] \in {"off", "standby", "receive"}
      /\ regs'["RF_SETUP"] \in RateValues
  BY <1>1, <1>4 DEF RegsInv, Fits
<1> QED
  BY <1>1, <1>2, <1>3, <1>5, <1>6, <1>7 DEF RegsInv, RateValues

LEMMA RegsKept ==
  RegsInv /\ UNCHANGED <<config, regs>> /\ saved' \in RateValues => RegsInv'
<1> SUFFICES ASSUME RegsInv, UNCHANGED <<config, regs>>, saved' \in RateValues PROVE RegsInv'
  OBVIOUS
<1>1. Intended("FEATURE")' = Intended("FEATURE")
  BY IntendedKept
<1> QED
  BY <1>1 DEF RegsInv, PipeRange, RateValues

LEMMA RegsPowerOn == SettingsInv /\ RegsInv /\ PowerOn /\ UNCHANGED <<config, saved>> => RegsInv'
<1> SUFFICES ASSUME SettingsInv, RegsInv, PowerOn, UNCHANGED <<config, saved>> PROVE RegsInv'
  OBVIOUS
<1>1. regs' = Default
  BY DEF PowerOn
<1> QED
  BY <1>1, DefaultIs DEF RegsInv, PipeRange, RateValues

LEMMA ReadRate == RegsInv => Read("RF_SETUP") \in RateValues
<1>1. CASE wired
  BY <1>1, ReadIs DEF RegsInv
<1>2. CASE ~wired
  <2>1. Read("RF_SETUP") = [bits |-> "zero", bit0 |-> FALSE]
    BY <1>2, ReadIs
  <2>2. [bits |-> "zero", bit0 |-> FALSE] \in RateValues
    BY DEF RateValues
  <2> QED
    BY <2>1, <2>2
<1> QED
  BY <1>1, <1>2

LEMMA RegsConfigure ==
  SettingsInv /\ RegsInv /\ HubInv /\ Configure => RegsInv'
<1> SUFFICES ASSUME SettingsInv, RegsInv, HubInv, Configure PROVE RegsInv'
  OBVIOUS
<1>0. saved \in RateValues /\ config' = config /\ pos \in 0..23 /\ wired \in BOOLEAN
  BY Constant DEF RegsInv, HubInv, Next
<1>1. CASE WriteStep
  <2>1. pos \in 1..8 \cup 10..11
    BY <1>0, <1>1, Steps DEF WriteStep
  <2>2. reg \in Registers
    BY <2>1, Names DEF Registers
  <2>3. Fits(reg, Intended(reg))
    <3>1. Intended("CONFIG") = "standby" /\ Intended("RF_SETUP") \in RateValues
      BY IntendedIs, RateIs
    <3> QED
      BY <3>1, MasksInRange DEF Fits
  <2> QED
    BY <1>0, <1>1, <2>2, <2>3, RegsWrite DEF WriteStep
<1>2. CASE Unlock
  <2>1. CASE regs' = regs
    BY <1>0, <1>2, <2>1, RegsKept DEF Unlock
  <2>2. CASE regs' = [regs EXCEPT !["FEATURE"] = Intended("FEATURE")]
    <3>1. /\ regs'["FEATURE"] = Intended("FEATURE")
          /\ \A q \in Registers : q # "FEATURE" => regs'[q] = regs[q]
          /\ regs' = [q \in Registers |-> regs'[q]]
      BY <2>2 DEF RegsInv, Registers
    <3>2. Intended("FEATURE")' = Intended("FEATURE")
      BY <1>0, IntendedKept
    <3> QED
      BY <1>0, <1>2, <3>1, <3>2 DEF Unlock, RegsInv, Registers, PipeRange, RateValues
  <2> QED
    BY <1>2, <2>1, <2>2 DEF Unlock
<1>3. CASE Detect \/ Check \/ ProbeTest
  BY <1>0, <1>3, RegsKept DEF Detect, Check, ProbeTest, chipState
<1>4. CASE ProbeRead
  BY <1>0, <1>4, RegsKept, ReadRate DEF ProbeRead, chipState
<1>5. CASE ProbeWrite
  <2>1. CASE chipOk
    <3>1. [saved EXCEPT !.bit0 = kind.bit0] \in RateValues
      BY <1>0 DEF RateValues, SettingsInv
    <3>2. Fits("RF_SETUP", [saved EXCEPT !.bit0 = kind.bit0])
      BY <3>1 DEF Fits
    <3> QED
      BY <1>0, <1>5, <2>1, <3>2, RegsWrite DEF ProbeWrite, Registers
  <2> QED
    BY <1>0, <1>5, <2>1, RegsKept DEF ProbeWrite
<1>6. CASE ProbeRestore
  <2>1. CASE chipOk
    <3>1. Fits("RF_SETUP", saved)
      BY <1>0 DEF Fits
    <3> QED
      BY <1>0, <1>6, <2>1, <3>1, RegsWrite DEF ProbeRestore, Registers
  <2> QED
    BY <1>0, <1>6, <2>1, RegsKept DEF ProbeRestore
<1>7. CASE Start
  <2>1. Fits("CONFIG", "receive")
    BY DEF Fits
  <2> QED
    BY <1>0, <1>7, <2>1, RegsWrite DEF Start, Registers
<1> QED
  BY <1>1, <1>2, <1>3, <1>4, <1>5, <1>6, <1>7 DEF Configure

LEMMA RegsStep ==
  SettingsInv /\ RegsInv /\ HubInv /\ [Next]_initVars => RegsInv'
<1> SUFFICES ASSUME SettingsInv, RegsInv, HubInv, [Next]_initVars PROVE RegsInv'
  OBVIOUS
<1>0. saved \in RateValues
  BY DEF RegsInv
<1>1. CASE Configure
  BY <1>1, RegsConfigure
<1>2. CASE Watchdog \/ Receive \/ Tick \/ Unplug \/ UNCHANGED initVars
  BY <1>0, <1>2, RegsKept DEF Watchdog, Receive, Tick, Unplug, initVars, chipState
<1>3. CASE Brownout \/ Plug
  BY <1>3, RegsPowerOn DEF Brownout, Plug
<1> QED
  BY <1>1, <1>2, <1>3 DEF Next

LEMMA HubStep == SettingsInv /\ RegsInv /\ HubInv /\ [Next]_initVars => HubInv'
<1> SUFFICES ASSUME SettingsInv, RegsInv, HubInv, [Next]_initVars PROVE HubInv'
  OBVIOUS
<1> USE InitAssumption DEF HubInv, verdict, chipState
<1>1. CASE WriteStep
  BY <1>1, Steps DEF WriteStep, Advance
<1>2. CASE Unlock
  <2>1. locked' \in BOOLEAN
    BY <1>2 DEF Unlock
  <2> QED
    BY <1>2, <2>1, Steps DEF Unlock, Advance
<1>3. CASE Detect \/ Check
  <2>1. chipOk' \in BOOLEAN /\ regsOk' \in BOOLEAN
    BY <1>3 DEF Detect, Check
  <2>2. pos \in 12..18 /\ pos' = pos + 1
    BY <1>3, Steps DEF Detect, Check, Advance
  <2> QED
    BY <1>3, <2>1, <2>2 DEF Detect, Check
<1>4. CASE ProbeRead
  BY <1>4, Steps DEF ProbeRead, Advance
<1>5. CASE ProbeWrite \/ ProbeRestore
  <2>1. pos \in 20..22 /\ pos' = pos + 1
    BY <1>5, Steps DEF ProbeWrite, ProbeRestore, Advance
  <2>2. UNCHANGED <<locked, wired, ce, verdict, quiet, faults, disturbed>>
    BY <1>5 DEF ProbeWrite, ProbeRestore
  <2> QED
    BY <2>1, <2>2
<1>6. CASE ProbeTest
  <2>1. cloneSuspected' \in BOOLEAN
    BY <1>6, ReadRate DEF ProbeTest, RateValues
  <2>2. pos = 21 /\ pos' = pos + 1
    BY <1>6, Steps DEF ProbeTest, Advance
  <2> QED
    BY <1>6, <2>1, <2>2 DEF ProbeTest
<1>7. CASE Start
  <2>1. error' \in BOOLEAN /\ quiet' = 0 /\ 0 \in 0..WatchdogTimeout + 1 /\ pos' = 0
    BY <1>7 DEF Start
  <2> QED
    BY <1>7, <2>1 DEF Start
<1>8. CASE Watchdog
  <2>1. ce' \in BOOLEAN /\ disturbed' \in BOOLEAN /\ pos' = 1
    BY <1>8 DEF Watchdog, Begin
  <2> QED
    BY <1>8, <2>1 DEF Watchdog
<1>9. CASE Receive \/ Tick
  <2>1. quiet' \in 0..WatchdogTimeout + 1
    BY <1>9 DEF Receive, Tick
  <2> QED
    BY <1>9, <2>1 DEF Receive, Tick
<1>10. CASE Brownout \/ Unplug \/ Plug
  <2>1. faults' \in Nat /\ disturbed' = TRUE
    BY <1>10 DEF Brownout, Unplug, Plug
  <2>2. locked' \in BOOLEAN /\ wired' \in BOOLEAN
    BY <1>10 DEF Brownout, Unplug, Plug, PowerOn, SettingsInv
  <2> QED
    BY <1>10, <2>1, <2>2 DEF Brownout, Unplug, Plug
<1>11. CASE UNCHANGED initVars
  BY <1>11 DEF initVars
<1> QED
  BY <1>1, <1>2, <1>3, <1>4, <1>5, <1>6, <1>7, <1>8, <1>9, <1>10, <1>11 DEF Next, Configure
-----------------------------------------------------------------------------
(* A run of radio_init_() that nothing disturbs *)

Typed == SettingsInv /\ RegsInv /\ HubInv

Steady == WrittenInv /\ CheckedInv /\ ProbeInv /\ GoodInv

LEMMA HasKept ==
  ASSUME UNCHANGED <<config, kind, wired>>, NEW r, regs'[r] = regs[r]
  PROVE  /\ Has(r)' <=> Has(r)
         /\ (regs[r] = Intended(r))' <=> regs[r] = Intended(r)
<1>1. Intended(r)' = Intended(r)
  BY IntendedKept
<1> QED
  BY <1>1 DEF Has

\* The registers of WrittenInv.
Configured == {"EN_AA", "EN_RXADDR", "SETUP_AW", "RF_CH", "RF_SETUP", "ADDR",
               "FEATURE", "DYNPD", "RX_PW"}

LEMMA SteadyWrite == Typed /\ Steady /\ WriteStep => Steady'
<1> SUFFICES ASSUME Typed, Steady, WriteStep PROVE Steady'
  OBVIOUS
<1>1. pos \in 1..8 \cup 10..11 /\ pos' = pos + 1
  BY Steps DEF Typed, HubInv, WriteStep, Advance
<1>2. UNCHANGED <<config, kind, locked, wired, chipOk>> /\ RegsInv
  BY DEF WriteStep, verdict, Typed
<1>3. PICK r \in Registers : r = reg
  BY <1>1, Names DEF Registers
<1>4. \A q \in Registers : q # r => (Has(q)' <=> Has(q))
  BY <1>2, <1>3, Written, HasKept DEF WriteStep
<1>5. r # "FEATURE" \/ ~locked => Has(r)'
  <2> SUFFICES ASSUME r # "FEATURE" \/ ~locked, wired, r \notin kind.refused
               PROVE  regs'[r] = Intended(r)'
    BY <1>2 DEF Has
  <2>1. Takes(r)
    BY DEF Takes
  <2>2. Write(r, Intended(r))
    BY <1>3 DEF WriteStep
  <2> QED
    BY <1>2, <2>1, <2>2, Written, IntendedKept
<1>6. WrittenInv'
  <2>1. Configured \subseteq Registers
    BY DEF Configured, Registers
  <2>2. \A q \in Configured \ {"FEATURE"} : Has(q) \/ q = r => Has(q)'
    BY <1>4, <1>5, <2>1
  <2>3. pos' = 9 => locked' \/ Has("FEATURE")'
    BY <1>1, <1>2, <1>3, <1>5, Names
  <2>4. pos \in 10..11 => (Has("FEATURE") => Has("FEATURE")')
    BY <1>1, <1>3, <1>4, Names, <2>1 DEF Configured
  <2> QED
    BY <1>1, <1>3, <2>2, <2>3, <2>4, Names DEF Steady, WrittenInv, Past, Configured
<1>7. CheckedInv' /\ ProbeInv' /\ GoodInv'
  BY <1>1 DEF CheckedInv, ProbeInv, GoodInv, Past
<1> QED
  BY <1>6, <1>7 DEF Steady

LEMMA SteadyUnlock == Typed /\ Steady /\ Unlock => Steady'
<1> SUFFICES ASSUME Typed, Steady, Unlock PROVE Steady'
  OBVIOUS
<1>1. pos = 9 /\ pos' = 10
  BY Steps DEF Typed, HubInv, Unlock, Advance
<1>2. UNCHANGED <<config, kind, wired, chipOk>> /\ RegsInv
  BY DEF Unlock, verdict, Typed
<1>3. \A q \in Configured \ {"FEATURE"} : regs'[q] = regs[q]
  BY DEF Unlock, Typed, RegsInv, Configured, Registers
<1>4. \A q \in Configured \ {"FEATURE"} : Has(q)' <=> Has(q)
  BY <1>2, <1>3, HasKept
<1>5. Has("FEATURE")'
  <2> SUFFICES ASSUME wired, "FEATURE" \notin kind.refused
               PROVE  regs'["FEATURE"] = Intended("FEATURE")
    BY <1>2, IntendedKept DEF Has
  <2>1. CASE Intended("FEATURE") # {} /\ regs["FEATURE"] # Intended("FEATURE")
    <3>1. locked
      BY <1>1, <2>1 DEF Steady, WrittenInv, Has
    <3>2. regs' = [regs EXCEPT !["FEATURE"] = Intended("FEATURE")]
      BY <2>1, <3>1 DEF Unlock
    <3> QED
      BY <3>2 DEF Typed, RegsInv, Registers
  <2>2. CASE ~(Intended("FEATURE") # {} /\ regs["FEATURE"] # Intended("FEATURE"))
    BY <2>2 DEF Unlock, Typed, RegsInv
  <2> QED
    BY <2>1, <2>2
<1>6. WrittenInv'
  BY <1>1, <1>4, <1>5 DEF Steady, WrittenInv, Past, Configured
<1>7. CheckedInv' /\ ProbeInv' /\ GoodInv'
  BY <1>1 DEF CheckedInv, ProbeInv, GoodInv, Past
<1> QED
  BY <1>6, <1>7 DEF Steady

LEMMA SteadyDetect == Typed /\ Steady /\ Detect => Steady'
<1> SUFFICES ASSUME Typed, Steady, Detect PROVE Steady'
  OBVIOUS
<1>1. pos \in 12..13 /\ pos' = pos + 1
  BY Steps DEF Typed, HubInv, Detect, Advance
<1>2. UNCHANGED <<config, kind, wired, regs>>
  BY DEF Detect, chipState
<1>3. \A q : Has(q)' <=> Has(q)
  BY <1>2, HasKept
<1>4. WrittenInv'
  BY <1>1, <1>3 DEF Steady, WrittenInv, Past
<1>5. chipOk' => wired
  <2>1. CASE pos = 12
    <3>1. reg = "SETUP_AW"
      BY <2>1, Names
    <3>2. chipOk' => Read("SETUP_AW") = 3
      BY <3>1, IntendedIs DEF Detect
    <3>3. wired \/ Read("SETUP_AW") = 0
      BY ReadIs
    <3> QED
      BY <3>2, <3>3
  <2>2. CASE pos = 13
    <3>1. chipOk' => chipOk
      BY <2>2, Names DEF Detect
    <3> QED
      BY <2>2, <3>1 DEF Steady, CheckedInv, Past
  <2> QED
    BY <1>1, <2>1, <2>2
<1>6. wired /\ kind.refused = {} => chipOk' /\ regsOk'
  <2> SUFFICES ASSUME wired, kind.refused = {} PROVE chipOk' /\ regsOk'
    OBVIOUS
  <2>1. Has("SETUP_AW") /\ Has("RF_CH")
    BY <1>1 DEF Steady, WrittenInv, Past
  <2>2. Read(reg) = Intended(reg)
    BY <1>1, <2>1, Names, ReadIs DEF Has
  <2>3. reg = "SETUP_AW" \/ chipOk
    BY <1>1, Names DEF Steady, GoodInv, Past
  <2> QED
    BY <2>2, <2>3 DEF Detect
<1>7. CheckedInv' /\ ProbeInv' /\ GoodInv'
  BY <1>1, <1>2, <1>5, <1>6 DEF CheckedInv, ProbeInv, GoodInv, Past
<1> QED
  BY <1>4, <1>7 DEF Steady

LEMMA SteadyCheck == Typed /\ Steady /\ Check => Steady'
<1> SUFFICES ASSUME Typed, Steady, Check PROVE Steady'
  OBVIOUS
<1>1. pos \in 14..18 /\ pos' = pos + 1
  BY Steps DEF Typed, HubInv, Check, Advance
<1>2. UNCHANGED <<config, kind, wired, regs, chipOk>>
  BY DEF Check, chipState
<1>3. \A q : (Has(q)' <=> Has(q)) /\ ((regs[q] = Intended(q))' <=> regs[q] = Intended(q))
  BY <1>2, HasKept
<1>4. WrittenInv'
  BY <1>1, <1>2, <1>3 DEF Steady, WrittenInv, Past
<1>5. CheckedInv'
  <2>1. chipOk => wired
    BY <1>1 DEF Steady, CheckedInv, Past
  <2>2. chipOk /\ regsOk' => regsOk /\ regs[reg] = Intended(reg)
    BY <2>1, ReadIs DEF Check
  <2> QED
    BY <1>1, <1>2, <1>3, <2>1, <2>2, Names DEF Steady, CheckedInv, Past
<1>6. wired /\ kind.refused = {} => chipOk /\ regsOk'
  <2> SUFFICES ASSUME wired, kind.refused = {} PROVE chipOk /\ regsOk'
    OBVIOUS
  <2>1. Has("EN_AA") /\ Has("EN_RXADDR") /\ Has("DYNPD") /\ Has("FEATURE") /\ Has("RX_PW")
    BY <1>1 DEF Steady, WrittenInv, Past
  <2>2. Read(reg) = Intended(reg)
    BY <1>1, <2>1, Names, ReadIs DEF Has
  <2>3. chipOk /\ regsOk
    BY <1>1 DEF Steady, GoodInv, Past
  <2> QED
    BY <2>2, <2>3 DEF Check
<1>7. ProbeInv' /\ GoodInv'
  BY <1>1, <1>2, <1>6 DEF ProbeInv, GoodInv, Past
<1> QED
  BY <1>4, <1>5, <1>7 DEF Steady

LEMMA SteadyProbe ==
  Typed /\ Steady /\ (ProbeRead \/ ProbeTest) => Steady'
<1> SUFFICES ASSUME Typed, Steady, ProbeRead \/ ProbeTest PROVE Steady'
  OBVIOUS
<1>1. /\ ProbeRead => pos = 19 /\ pos' = 20
      /\ ProbeTest => pos = 21 /\ pos' = 22
  BY Steps DEF Typed, HubInv, ProbeRead, ProbeTest, Advance
<1>2. UNCHANGED <<config, kind, wired, regs, chipOk, regsOk, locked>>
  BY DEF ProbeRead, ProbeTest, chipState, verdict
<1>3. \A q : (Has(q)' <=> Has(q)) /\ ((regs[q] = Intended(q))' <=> regs[q] = Intended(q))
  BY <1>2, HasKept
<1>4. WrittenInv' /\ CheckedInv' /\ GoodInv'
  BY <1>1, <1>2, <1>3 DEF Steady, WrittenInv, CheckedInv, GoodInv, Past
<1>5. ProbeInv'
  <2> SUFFICES ASSUME wired, chipOk, "RF_SETUP" \notin kind.refused
               PROVE  /\ pos' \in 20..22 => saved' = Rate
                      /\ pos' \in 21..22 => regs["RF_SETUP"] = [Rate EXCEPT !.bit0 = kind.bit0]
                      /\ Past(21)' => cloneSuspected' = kind.bit0
    BY <1>2 DEF ProbeInv, Rate
  <2>1. CASE ProbeRead
    <3>1. regs["RF_SETUP"] = Rate
      BY <1>1, <2>1, IntendedIs DEF Steady, WrittenInv, Past, Has
    <3> QED
      BY <1>1, <2>1, <3>1, ReadIs DEF ProbeRead, Past
  <2>2. CASE ProbeTest
    <3>1. saved = Rate /\ regs["RF_SETUP"] = [Rate EXCEPT !.bit0 = kind.bit0]
      BY <1>1, <2>2 DEF Steady, ProbeInv
    <3>2. regs["RF_SETUP"].bit0 = kind.bit0
      BY <3>1 DEF Rate
    <3> QED
      BY <1>1, <2>2, <3>1, <3>2, ReadIs DEF ProbeTest
  <2> QED
    BY <2>1, <2>2
<1> QED
  BY <1>4, <1>5 DEF Steady

LEMMA SteadyProbeWrite ==
  Typed /\ Steady /\ (ProbeWrite \/ ProbeRestore) => Steady'
<1> SUFFICES ASSUME Typed, Steady, ProbeWrite \/ ProbeRestore PROVE Steady'
  OBVIOUS
<1>1. /\ ProbeWrite => pos = 20 /\ pos' = 21
      /\ ProbeRestore => pos = 22 /\ pos' = 23
  BY Steps DEF Typed, HubInv, ProbeWrite, ProbeRestore, Advance
<1>2. /\ UNCHANGED <<config, kind, wired, chipOk, regsOk, cloneSuspected, locked, saved>>
      /\ RegsInv /\ "RF_SETUP" \in Registers
  BY DEF ProbeWrite, ProbeRestore, verdict, Typed, Registers
<1>3. \A q \in Registers : q # "RF_SETUP" => regs'[q] = regs[q]
  BY <1>2, Written DEF ProbeWrite, ProbeRestore
<1>4. \A q \in Registers : q # "RF_SETUP" =>
        (Has(q)' <=> Has(q)) /\ ((regs[q] = Intended(q))' <=> regs[q] = Intended(q))
  BY <1>2, <1>3, HasKept
<1>5. Configured \subseteq Registers
  BY DEF Configured, Registers
<1>6. ~chipOk => Has("RF_SETUP")'
  <2> SUFFICES ASSUME ~chipOk PROVE Has("RF_SETUP")'
    OBVIOUS
  <2>1. regs' = regs
    BY DEF ProbeWrite, ProbeRestore
  <2>2. Has("RF_SETUP")
    BY <1>1 DEF Steady, WrittenInv, Past
  <2> QED
    BY <1>2, <2>1, <2>2, HasKept
<1>7. chipOk => wired
  BY <1>1 DEF Steady, CheckedInv, Past
<1>8. CASE ProbeWrite
  <2>1. chipOk /\ "RF_SETUP" \notin kind.refused =>
          saved = Rate /\ regs'["RF_SETUP"] = [Rate EXCEPT !.bit0 = kind.bit0]
    <3> SUFFICES ASSUME chipOk, "RF_SETUP" \notin kind.refused
                 PROVE  saved = Rate
                        /\ regs'["RF_SETUP"] = [Rate EXCEPT !.bit0 = kind.bit0]
      OBVIOUS
    <3>1. saved = Rate
      BY <1>1, <1>7, <1>8 DEF Steady, ProbeInv
    <3>2. Takes("RF_SETUP")
      BY <1>7 DEF Takes
    <3>3. Write("RF_SETUP", [Rate EXCEPT !.bit0 = kind.bit0])
      BY <1>8, <3>1 DEF ProbeWrite
    <3> QED
      BY <1>2, <3>1, <3>2, <3>3, Written
  <2>2. WrittenInv' /\ CheckedInv' /\ GoodInv'
    BY <1>1, <1>2, <1>4, <1>5, <1>6, <1>8
    DEF Steady, WrittenInv, CheckedInv, GoodInv, Past, Configured
  <2>3. ProbeInv'
    BY <1>1, <1>2, <1>8, <2>1 DEF ProbeInv, Past, Rate
  <2> QED
    BY <2>2, <2>3 DEF Steady
<1>9. CASE ProbeRestore
  <2>1. chipOk => Has("RF_SETUP")'
    <3> SUFFICES ASSUME chipOk, "RF_SETUP" \notin kind.refused
                 PROVE  regs'["RF_SETUP"] = Intended("RF_SETUP")'
      BY <1>2 DEF Has
    <3>1. saved = Rate
      BY <1>1, <1>7, <1>9 DEF Steady, ProbeInv
    <3>2. Takes("RF_SETUP")
      BY <1>7 DEF Takes
    <3>3. Write("RF_SETUP", Rate)
      BY <1>9, <3>1 DEF ProbeRestore
    <3>4. regs'["RF_SETUP"] = Rate
      BY <1>2, <3>2, <3>3, Written
    <3>5. Intended("RF_SETUP")' = Intended("RF_SETUP")
      BY <1>2, IntendedKept
    <3> QED
      BY <3>4, <3>5, IntendedIs
  <2>2. WrittenInv' /\ CheckedInv' /\ GoodInv'
    BY <1>1, <1>2, <1>4, <1>5, <1>6, <1>9, <2>1
    DEF Steady, WrittenInv, CheckedInv, GoodInv, Past, Configured
  <2>3. ProbeInv'
    BY <1>1, <1>2, <1>9 DEF Steady, ProbeInv, Past
  <2> QED
    BY <2>2, <2>3 DEF Steady
<1> QED
  BY <1>8, <1>9

LEMMA SteadyStart == Typed /\ Steady /\ Start => Steady'
<1> SUFFICES ASSUME Typed, Steady, Start PROVE Steady'
  OBVIOUS
<1>1. pos = 23 /\ pos' = 0
  BY Steps DEF Typed, HubInv, Start
<1>2. /\ UNCHANGED <<config, kind, wired, chipOk, regsOk, cloneSuspected, locked, saved>>
      /\ RegsInv /\ "CONFIG" \in Registers /\ Write("CONFIG", "receive")
  BY DEF Start, Typed, Registers
<1>3. \A q \in Registers : q # "CONFIG" => regs'[q] = regs[q]
  BY <1>2, Written
<1>4. \A q \in Configured :
        (Has(q)' <=> Has(q)) /\ ((regs[q] = Intended(q))' <=> regs[q] = Intended(q))
  BY <1>2, <1>3, HasKept DEF Configured, Registers
<1>5. WrittenInv' /\ CheckedInv'
  BY <1>1, <1>2, <1>4 DEF Steady, WrittenInv, CheckedInv, Past, Configured
<1>6. ProbeInv'
  BY <1>1, <1>2 DEF Steady, ProbeInv, Past
<1>7. GoodInv'
  <2> SUFFICES ASSUME wired, kind.refused = {} PROVE chipOk /\ regsOk /\ ~error'
    BY <1>2 DEF GoodInv
  <2>1. chipOk /\ regsOk
    BY <1>1 DEF Steady, GoodInv, Past
  <2> QED
    BY <2>1 DEF Start
<1> QED
  BY <1>5, <1>6, <1>7 DEF Steady

LEMMA SteadyStep == IInv /\ [Next]_initVars => SteadyInv'
<1> SUFFICES ASSUME IInv, [Next]_initVars, ~disturbed' PROVE Steady'
  BY DEF SteadyInv, Steady
<1>1. Typed /\ (~disturbed => Steady)
  BY DEF IInv, SteadyInv, Steady, Typed
<1>2. CASE Configure
  <2>1. ~disturbed
    BY <1>2 DEF Configure, WriteStep, Unlock, Detect, Check, ProbeRead, ProbeWrite,
                ProbeTest, ProbeRestore, Start
  <2> QED
    BY <1>1, <1>2, <2>1, SteadyWrite, SteadyUnlock, SteadyDetect, SteadyCheck,
       SteadyProbe, SteadyProbeWrite, SteadyStart DEF Configure
<1>3. CASE Watchdog
  <2>1. pos' = 1
    BY <1>3 DEF Watchdog, Begin
  <2> QED
    BY <2>1 DEF Steady, WrittenInv, CheckedInv, ProbeInv, GoodInv, Past
<1>4. CASE Receive \/ Tick \/ UNCHANGED initVars
  <2>1. UNCHANGED <<config, kind, chipState, pos, verdict, saved, disturbed>>
    BY <1>4 DEF Receive, Tick, initVars
  <2>2. UNCHANGED <<config, kind, wired, regs>>
    BY <2>1 DEF chipState
  <2>3. \A q : (Has(q)' <=> Has(q)) /\ ((regs[q] = Intended(q))' <=> regs[q] = Intended(q))
    BY <2>2, HasKept
  <2>4. Steady
    BY <1>1, <2>1
  <2> QED
    BY <2>1, <2>3, <2>4
    DEF chipState, verdict, Steady, WrittenInv, CheckedInv, ProbeInv, GoodInv, Past, Rate
<1>5. CASE Brownout \/ Unplug \/ Plug
  BY <1>5 DEF Brownout, Unplug, Plug
<1> QED
  BY <1>2, <1>3, <1>4, <1>5 DEF Next

LEMMA Invariance == Spec => []IInv
<1>1. IInv /\ [Next]_initVars => IInv'
  BY SettingsStep, RegsStep, HubStep, SteadyStep DEF IInv
<1> QED
  BY <1>1, InitIInv, PTL DEF Spec
-----------------------------------------------------------------------------
(* What it comes to *)

(* No register of the pipes ever holds a bit of another field, for any number
   of pipes, whatever chip refuses whatever. *)
THEOREM TypeCorrect == Spec => []TypeOK
<1>1. IInv => TypeOK
  BY IntendedIs, ProgramLength DEF IInv, RegsInv, HubInv, TypeOK
<1> QED
  BY <1>1, Invariance, PTL

(* A chip that answers and takes every register is accepted, and told from a
   clone, after any faults before and whatever state it was found in. *)
THEOREM GoodChipsPass == Spec => []GoodChipAccepted
<1>1. IInv => GoodChipAccepted
  BY DEF IInv, SteadyInv, ProbeInv, GoodInv, Past, GoodChipAccepted, Settled
<1> QED
  BY <1>1, Invariance, PTL

LEMMA ServesAsAsked ==
  ASSUME SettingsInv, NEW n \in DOMAIN config,
         regs["EN_AA"] = Intended("EN_AA"), regs["EN_RXADDR"] = Intended("EN_RXADDR"),
         regs["DYNPD"] = Intended("DYNPD"), regs["FEATURE"] = Intended("FEATURE"),
         regs["RX_PW"] = Intended("RX_PW")
  PROVE  Serves(n)
<1>1. n \in 1..MaxPipes /\ n <= MaxPipes
  BY InitAssumption DEF SettingsInv
<1>2. n \in regs["EN_RXADDR"]
  BY <1>1, IntendedIs DEF Mask, Enabled
<1>3. n \in regs["EN_AA"] <=> config[n].size = Dynamic
  BY <1>1, IntendedIs DEF Mask, AutoAck, SettingsInv
<1>4. n \in regs["DYNPD"] <=> config[n].size = Dynamic
  BY <1>1, IntendedIs DEF Mask, DynamicPipes
<1>5. config[n].size = Dynamic => regs["FEATURE"] = {"EN_DPL"}
  BY <1>4, IntendedIs
<1>6. regs["RX_PW"][n] = config[n].size
  BY IntendedIs
<1> QED
  BY <1>2, <1>3, <1>4, <1>5, <1>6 DEF Serves, LengthRight

LEMMA TunedAsAsked ==
  ASSUME SettingsInv, NEW n \in DOMAIN config, regs["RF_CH"] = Intended("RF_CH"),
         regs["RF_SETUP"] = Intended("RF_SETUP"), regs["ADDR"] = Intended("ADDR")
  PROVE  Tuned(n)
<1>1. AddressOf(n) = [first |-> config[n].address.first, rest |-> config[1].address.rest]
  BY IntendedIs DEF AddressOf
<1> QED
  BY <1>1, IntendedIs DEF SettingsInv, Addressed, Tuned

(* A configuration reported as accepted serves every pipe as its settings ask,
   for any settings the schema lets through and any registers a chip refuses. *)
THEOREM AcceptedMeansRight == Spec => []AcceptedIsRight
<1>1. IInv => AcceptedIsRight
  <2> SUFFICES ASSUME IInv, Settled, chipOk, regsOk, NEW n \in DOMAIN config
               PROVE  /\ Serves(n)
                      /\ kind.refused \cap {"RF_CH", "RF_SETUP", "ADDR"} = {} => Tuned(n)
    BY DEF AcceptedIsRight
  <2>1. SettingsInv /\ WrittenInv /\ CheckedInv /\ pos = 0
    BY DEF IInv, SteadyInv, Settled
  <2>2. wired
    BY <2>1 DEF CheckedInv, Past
  <2>3. Serves(n)
    BY <2>1, ServesAsAsked DEF CheckedInv, Past
  <2>4. ASSUME kind.refused \cap {"RF_CH", "RF_SETUP", "ADDR"} = {} PROVE Tuned(n)
    <3>1. Has("RF_CH") /\ Has("RF_SETUP") /\ Has("ADDR")
      BY <2>1 DEF WrittenInv, Past
    <3> QED
      BY <2>1, <2>2, <2>4, <3>1, TunedAsAsked DEF Has
  <2> QED
    BY <2>3, <2>4
<1> QED
  BY <1>1, Invariance, PTL
=============================================================================
