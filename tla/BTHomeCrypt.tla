----------------------------- MODULE BTHomeCrypt -----------------------------
(***************************************************************************)
(* Decryption in NRF24BTHomeDevice (nrf24_bthome.cpp): decrypt_() with its *)
(* search for the end of a padded payload, the replay counter of the       *)
(* decryptor, and report_decrypt_failure_().                               *)
(*                                                                         *)
(* A received frame f is a record; read here are                           *)
(*   f.sealed     the encrypted bit of the device info byte                *)
(*   f.complete   long enough to hold a counter and a MIC                  *)
(*   f.authentic  sealed with this device's key and received unharmed      *)
(*   f.counter    the counter it was sealed with                           *)
(*   f.padded     received on a pipe of fixed size, 0xFF up to the slot    *)
(*   f.size       bytes of sealed objects in front of counter and MIC      *)
(*   f.tail       bytes 0xFF the MIC ends in                               *)
(***************************************************************************)
EXTENDS Integers

CONSTANTS
  Devices,        \* the devices of one hub
  MicBytes        \* BTHome::Encryptor::kMicBytes (4)

ASSUME MicAssumption == MicBytes \in Nat

VARIABLES
  lastCounter,  \* decryptor_.lastCounter(), NoCounter before the first payload
  warned,       \* warned_status_ while warned_decrypt_, else Nothing
  said          \* history: the warning the last step caused, or Nothing

cryptVars == <<lastCounter, warned, said>>

NoCounter == -1
Nothing   == "nothing"
Failures  == {"Replay", "AuthFailed", "NotEncrypted", "BadBuffer"}

CryptInit ==
  /\ lastCounter = [d \in Devices |-> NoCounter]
  /\ warned = [d \in Devices |-> Nothing]
  /\ said = Nothing

Fresh(d, f) == f.counter > lastCounter[d]

\* By how much the first length tried is too short: the padding and a MIC that
\* ends in 0xFF look alike, and a length never cuts into counter and MIC.
Shortfall(f) ==
  IF ~f.padded THEN 0 ELSE IF f.tail < f.size THEN f.tail ELSE f.size

\* The search tries MicBytes lengths past the first.
Reached(f) == Shortfall(f) <= MicBytes

Accepted(d, f) ==
  f.sealed /\ f.complete /\ f.authentic /\ Fresh(d, f) /\ Reached(f)

\* What decrypt_() returns when no length is accepted: the verdict on the first
\* length tried, and the counter read at that length.  If the length is wrong,
\* or the frame damaged, so may the counter be, and stale by chance or not the
\* payload is refused.
Refusals(d, f) ==
  IF ~f.sealed THEN {[status |-> "NotEncrypted", counter |-> 0]}
  ELSE IF ~f.complete THEN {[status |-> "BadBuffer", counter |-> 0]}
  ELSE IF f.authentic /\ Shortfall(f) = 0
  THEN {[status |-> "Replay", counter |-> f.counter]}
  ELSE [status : {"AuthFailed"}, counter : {0}]
         \cup [status : {"Replay"}, counter : 0..lastCounter[d]]

IsRepeat(d, r) == r.status = "Replay" /\ r.counter = lastCounter[d]

Warn(d, r) ==
  IF warned[d] = r.status
  THEN said' = Nothing /\ UNCHANGED warned
  ELSE said' = r.status /\ warned' = [warned EXCEPT ![d] = r.status]

\* Definitions named <definition>_<defect> are what a plausible mistake would
\* make of the definition that follows them; no specification uses them.
\* Without the test that tells the sender's repeats from a counter gone back.
Report_RepeatsToo(d, r) == Warn(d, r)

\* report_decrypt_failure_(): silent about repeats and about the reason it has
\* warned of last.
Report(d, r) ==
  IF IsRepeat(d, r) THEN said' = Nothing /\ UNCHANGED warned ELSE Warn(d, r)

Accept(d, f) ==
  /\ Accepted(d, f)
  /\ lastCounter' = [lastCounter EXCEPT ![d] = f.counter]
  /\ warned' = [warned EXCEPT ![d] = Nothing] /\ said' = Nothing

Refuse(d, f) ==
  /\ ~Accepted(d, f)
  /\ \E r \in Refusals(d, f) : Report(d, r)
  /\ UNCHANGED lastCounter

CryptTypeOK ==
  /\ lastCounter \in [Devices -> Nat \cup {NoCounter}]
  /\ warned \in [Devices -> Failures \cup {Nothing}]
  /\ said \in Failures \cup {Nothing}
=============================================================================
