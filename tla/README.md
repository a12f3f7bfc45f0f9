# Verification of esphome-rf24-remote

TLA+ specifications of the two ESPHome components in this repository, `nrf24`
(the radio) and `nrf24_bthome` (the listener that turns its frames into button
events and sensor values), the TLC configurations that model-check them, and
TLAPS proofs about both.  Line numbers are those of
`src/components/...`.

## The system

| Part | State | Operations | Interacts with |
|---|---|---|---|
| **nrf24 hub, receive path** (`nrf24.cpp` 280-452) | `irq_flag_` (volatile), `last_activity_ms_`, diagnostic counters; on the chip the 3-deep RX FIFO and `STATUS.RX_DR`, which holds the IRQ line down | interrupt handler, `loop()`, `drain_fifo_()`, watchdog | the chip receives and the handler runs between any two SPI transactions; listeners are called back from `drain_fifo_()` |
| **nrf24 hub, configuration** (`nrf24.cpp` 53-267, `nrf24_config.h`, `nrf24/__init__.py`) | pipes, `chip_ok_`, `regs_ok_`, `clone_suspected_`, the component's error status | schema validation, `pipe_masks()`, `setup()`, `radio_init_()`, clone probe | writes and reads back the chip's registers; rerun by the watchdog |
| **BTHome hub** (`nrf24_bthome.cpp` 14-76) | `last_timeout_check_ms_`, the devices | `on_nrf24_frame()`, sweep in `loop()` | called by the radio hub; calls its devices |
| **BTHome device** (`nrf24_bthome.cpp` 303-750) | `last_packet_id_`, `last_contact_ms_`, `ever_seen_`, slots with `has_pending`/`pending`, the entities | `handle_service_data()`, `commit_()`, `check_timeout()` | fires automations, publishes entities |
| **Decryption** (`nrf24_bthome.cpp` 93-254) | the decryptor's last counter, `warned_decrypt_`, `warned_status_` | `decrypt_()`, `report_decrypt_failure_()` | used by `handle_service_data()` |
| **Senders and the air** (outside) | packet id, encryption counter | broadcast each payload several times, restart | copies are lost, damaged, or echoed by an Si24R1 |

All of it runs in one task, ESPHome's `loop()`; the one exception is the
interrupt handler.  What is hard:

* the handler and the chip run between any two steps of `drain_fifo_()`: a level
  on the IRQ line, a watch for falling edges, a flag, and clears of `RX_DR` that
  may hit the wrong frame.  A mistake is a receiver that falls silent for good;
* payloads come several times, or damaged first, or from the past, and must
  fire exactly once;
* the chip may vanish or forget its configuration at any step, and a bus that
  nobody drives reads like an answer: 0x00 is a FIFO that is not empty;
* a payload may hold more objects of more types than the code keeps tables for;
* time: a wrapping millisecond clock, a sweep once a second, ids that age out and
  counters that must not.

The hazards, each at its line and with the properties that would show it, are
listed in `PROJECT.json`.

What makes each part correct: frames reach the listeners once, in order and
eventually, and diagnostics mean what they say (receive path); a verdict of
"configured" is right and a good radio is not refused, and the radio comes back
after a fault (configuration); each frame reaches the one device it is meant
for, and offline means silence (hub); nothing but sound payloads is published,
and each reading reaches the entity of its type and place (device); an accepted payload is one with a fresh counter
and its repeats make no noise (decryption); every payload heard acts exactly
once (all together).

## Modules

| Module | What it is |
|---|---|
| `FrameChannel` | abstract: a bounded queue of frames, handed over in order, lost only all at once; and the same over a radio that may fail |
| `NRF24Radio` | `loop()`, `drain_fifo_()`, the handler and the watchdog against the chip; implements `FrameChannel` |
| `RadioFaults` | extends it: the chip loses its supply or its wires between any two transactions; implements the channel that may fail |
| `RadioInit` | schema rules, masks, `radio_init_()`, `setup()` and the watchdog under loss of power and wires |
| `BTHomePayload` | what the objects of a payload mean: readings and their entities, packet id, events |
| `PayloadParse` | reads payloads object by object, in tables of fixed length; arrives at what `BTHomePayload` says |
| `BTHomeCrypt` | decryption, replay counter, warnings of each device |
| `BTHomeDevice` | extends both: what a device makes of a frame (dedup, publishing, contact) and of silence |
| `BTHomePresence` | abstract: heard is connected, silent is disconnected in time |
| `BTHomeHub` | extends `BTHomeDevice`: several devices, the search for the sender, the sweep; implements `BTHomePresence` |
| `BTHomeLink` | extends that: a sender, the air and the hub together |
| `NRF24RadioProofs`, `RadioFaultsProofs`, `RadioInitProofs`, `PayloadParseProofs`, `BTHomeHubProofs`, `BTHomeLinkProofs` | theorems about these |
| `BTHomePayloadProofs` | the lemmas about `InOrder` that three of them share |
| `MC...` | instances for TLC |

A definition named `<definition>_<defect>` is what a plausible mistake would make
of the definition that follows it; no specification uses one.  Each property of a
passing run is shown to fail when one of them takes the definition's place
(`mutants` in `PROJECT.json`).

### NRF24Radio

`pc` is the place between two SPI transactions, or between two accesses of
`irq_flag_`, that `loop()` has reached; every other step of the system (a frame
received, a spurious `RX_DR`, a tick of `millis()`) may come in between.

| Code | Model |
|---|---|
| 414, 416 reading and clearing `irq_flag_` | `ReadFlag`, `ClearFlag` |
| 285 `REG_FIFO_STATUS`, 311 full count | `FindEmpty`, `FindPayload` |
| 300 missed count | `CheckMissed` |
| 321-330 pipe and width | `ReadPipe`, `ReadWidth` |
| 331, 336 | `FlushRx`, `ClearAfterFlush` |
| 349, 350-373 | `ReadPayload`, `ClearAndDispatch` |
| 291, 292 | `ReadStatusWhenEmpty`, `ClearWhenEmpty` |
| 386 | `GuardExhausted` |
| 436-451, 85-217 | `Watchdog`, `InitStop`, `InitReset`, `InitStart` |
| `s_irq_isr` 389 | part of `RaiseRxDR`, on a falling edge only |

`quiet` stands for `millis() - last_activity_ms_`; payload bytes are left out, a
frame is a model value.  `edged` and `overwritten` are history: which waiting
frame raised an edge, and whether this run wiped a flag it had not read.

### RadioInit

A mask is the set of its pipes, a register a field of `regs`; `Program` is the
sequence of transactions of `radio_init_()` and `pos` the next one.  A chip
(`kind`) may refuse a register, want `ACTIVATE` before `FEATURE`, or let bit 0 of
`RF_SETUP` be written (an Si24R1).  `Unplug`, `Plug` and `Brownout` come between
any two steps; a chip without wires reads as zeros.  Settings are any the schema
accepts, with pipes that inherit from the hub, every channel it accepts (0 to 125,
`nrf24/__init__.py:187`) and any data rate.  `Hears(n)` says, without any
mask, whether the chip as it is configured receives what is sent to pipe n.

### RadioFaults

Each step of `NRF24Radio` falls in one of two classes: what it does does not depend
on an answer of the chip (`Unanswered`: a write nobody receives, an access of
`irq_flag_`), or it does (`Answered`).  For the second there is a step for a bus
nobody drives, or a chip that has lost the payload it announced:

| Code | MISO low | MISO high | chip after a dip |
|---|---|---|---|
| 285 `REG_FIFO_STATUS` | not empty (`SeemsWaiting`) | empty (`SeemsEmpty`) | empty |
| 291 `REG_STATUS` | not set, 293 | set, cleared in vain (`MissStatus`) | as it is |
| 321 pipe | 0, so dynamic | 7, so dynamic | 7 (`MissPipe`) |
| 323 width | 0, flush | 255, flush | unspecified (`MissWidth`) |
| 349 payload | zeros | 0xFF | anything (`ReadGhost`) |

`Dip` and `Cut` come between any two transactions; `Mend` brings back a chip fresh
from power-on.

`RadioInit` has every register; here there are two groups of them, those written up
to `nrf24.cpp:118` (`EN_AA`, `EN_RXADDR`: "pipes") and those after it ("rest": channel,
rate, addresses, lengths).  `radio_init_()` is `WritePipes`, `WriteRest`, `Verify` (the
read-back), `Conclude` (what `setup()` and `loop()` make of the verdict), with faults
between any two.  A fault after `WritePipes` leaves a chip with the rest on top of its
power-on values (`InPart`): it may hear any frame, which senders get through depends on
the settings.  It fails the read-back, and what it hears holds off the watchdog
(351, 436).

`Ghost` stands for a payload nobody sent; to the channel
(`FaultsKeepOrder`) it is a frame received at the moment it is read.  A fault takes
everything that waits on the chip, and nothing that `loop()` has already read.

### PayloadParse

`Begin`, one `Read` per object, `End` (the decoder's verdict), `Finish` (discard,
repeat, or the part of `commit_()` about objects nobody asked for).  `seen` is the
pair of arrays `instance_of()` searches, with `MaxKinds` entries; `events` and
`unclaimed` are the arrays of `struct Pending`.  Objects cost the bytes they have on
the wire.  The other modules take a payload in one step, by the definitions of
`BTHomePayload`; `ReadingsAsMeant` and `EventsAsMeant` say that this is right.

`objs` is history, the objects read so far.  `Payload` is made of it alone: its packet
id is that of the last id object (`LastId`), whatever the variable `packetId` holds.
`shown` and `soundId` are history too: what was ever reported as not asked for, and the
packet id of the last payload acted on; `NamedOnce` says by them, and not by
`reported` and `lastId`, when an object is reported.

### BTHomeCrypt, BTHomeDevice, BTHomeHub

A frame is a record of what the code asks of it (its sender id, is the header
valid, does it authenticate, does the decoder get to the end, its objects), not of
its bytes.  All state of a device is a function of the device.  `OnFrame(d, f)` is
`on_nrf24_frame()` where d is the first device listed whose id matches; it calls
`Handle(d, f)`, which is `handle_service_data()`: `Reject`, or `Take`, which is
`Open`, `Contact`, `Park` and one of `Discard`, `Suppress`, `Commit`.  A frame that
decrypts to a payload with an invalid header is rejected too, but the counter has
moved (`Accept`), since `decrypt_()` comes before the checks of 329-337.  `Sweep` is
the hub's `loop()` with `check_timeout()` of every device; `Tick` moves the wrapping
clock and keeps `loop()` from being more than `LoopLag` late.  `Shortfall(f)` is by
how many bytes `decrypt_()` misjudges the end of a padded payload whose MIC ends in
0xFF.

### BTHomeLink

A sender broadcasts payloads `Copies` times each; a copy is heard (`Hear`), damaged
so that the decoder stops within it (`HearDamaged`), or lost.  `heard`, `due` and `log`
are history: the payloads of which a whole copy was heard, the events that ought to
fire for them, in order, and the events that fired.  What the listener relies on of
its senders is in the guards: a packet id does not come back before others were heard
(`Missed` counts those that were not), a sender that restarts has been away long enough
for its id to age out (unless it is `quick`), its counter goes on.  `ExactlyOnce` is
stated for senders that are `Dependable`: not `quick`, and behind a clone only with a
key, since echoes of old packet ids cannot be told from new ones.  The copies reach the hub
at most once and in order: that is what `FrameChannel` promises, and `NRF24Radio`
keeps.

## Runs

| Run | Shows | Bounds |
|---|---|---|
| `radio_safety` | `TypeOK`, `LineArmed`, `MissedIsExplained`, `DiscardIsCounted` | FIFO 3 (the real depth), guard 4 (8 in the code: it only has to exceed the FIFO for frames to arrive mid-drain, and be small enough to run out), three kinds of frames, watchdog after 1 tick, counters up to 1 |
| `radio_live` | `ImplementsChannel`, `LoopReturns`, `LineReleased` | FIFO 2, guard 3, no counters, watchdog off, so that it cannot come to the rescue |
| `radio_flag_race` | violation of `MissedMeansNoInterrupt` | as `radio_safety`, with FIFO 2 and guard 2, which are enough to show it |
| `radio_silent` | `FaultTypeOK`, `GhostsAreRare`, `StatusMatchesChip`, `FaultsKeepOrder`, `Diagnosed` | FIFO 2, guard 2, a dynamic and a fixed pipe, two faults of the supply, also between the steps of `radio_init_()`, MISO stuck low or high, watchdog after 1 tick |
| `init` | `TypeOK`, `AcceptedIsRight`, `GoodChipAccepted`, `Recovers` | one or two pipes in all combinations of address, size and auto-ack, and five pipes; any one register refused; one fault, two with one pipe; channel 2 and the data rate of a fresh chip, which a chip that never took them reads back as well |
| `init_no_chip` | violation of `RegsOkMeansReadBack` | no faults; channel 0 and a rate of zero bits, as nobody's answer reads |
| `parse` | `ParseTypeOK`, `ReadingsAsMeant`, `EventsAsMeant`, `NothingLeftOut`, `NamedOnce` | frames with room for four objects and a byte, tables of four (25 bytes and twelve in the code: the same relation), three types, three entities of one and one of another, two event codes, two packet ids, payload after payload |
| `hub` | `HubTypeOK`, `IdAgesOut`, `ImplementsPresence`, `PublishedIsReceived`, `OwnFramesOnly`, `ReplaysNeverAct` | a device in the clear with two entities of one type and timeout 1, one with a key and timeout 2, one with the first one's id and no timeout; clock of 6, sweep after more than 1 tick; frames in the clear whole, cut short, unreadable, too short and foreign, keyed ones good, authentic but discarded, authentic with an invalid header, replayed, and in the clear |
| `hub_contact` | violation of `ConnectedByValidFrames` | the same |
| `link` | `ExactlyOnce`, `RepeatsAreSilent` | two copies each; in the clear 4 payloads of 2 kinds, packet ids modulo 3, one restart of either side; sealed 2 payloads and a restart; sealed on a padded pipe through a clone 3 payloads, MICs that end in 0 or 1 bytes 0xFF |
| `link_sealed_tail` | violation of `RepeatsWithoutAWord` | MICs that end in 0xFF |
| `link_sealed_reboot` | violation of `FreshCounterFires` | timeout 0 |

Why they are enough: `drain_fifo_()` treats a frame by its head only and counts to
the guard, so a FIFO that fills, empties and outruns the guard shows every case;
two faults are a chip that goes and comes back, and goes again while the hub still
deals with the first; the arrays of `PayloadParse` for events and for objects nobody
asked for can be full to the last entry (the table of types holds three of four, so
what shows that it is long enough is that a shorter one, `HasEntry_Eight`, fails);
ids modulo 3 and four payloads let an id return; the clock wraps within a run, and
from the last contact through timeout and sweep takes less than a round of it.
`MaxFaults`, the numbers in `Senders` and `Trials`, and the saturating `quiet` and
`age` are the only bounds in guards, and none of the properties reads them as more
than a limit on the length of a run (`age` saturates where nothing in the code can
still change).  The runs of `BTHomeLink` stop when all payloads are sent and no
clock needs to move, so deadlock is not checked there; everywhere else it is.

Fairness: `NRF24Radio` assumes `WF(Loop)`: ESPHome calls `loop()` for ever and an
SPI transaction ends.  `RadioFaults` and `RadioInit` assume the same, and that time
passes; `BTHomeHub` that time passes and a sweep that is due is made.  Nothing
obliges a sender to send, the chip to receive, or anybody to mend the wires.
`BTHomeLink` and `PayloadParse` check safety only.  That `loop()` is no more than
`LoopLag` late is a guard of `Tick`, and the same bound is in the limit of
`BTHomePresence`: what is shown of silence can only be as timely as the loop.

## What was found

Five places where the code does something else than a comment, a test or the
README says of it (details and quotations under `findings`):

1. an interrupt between the read and the clear of `irq_flag_` is counted as a missed
   one (`nrf24.cpp:414-416`); no frame is lost by it;
2. `regs_ok_` is true when there is no chip (`nrf24.cpp:171`);
3. malformed payloads count as contact (`nrf24_bthome.cpp:340`);
4. the repeats of an encrypted payload whose MIC ends in 0xFF are warned of as
   not authentic (`nrf24_bthome.cpp:182`);
5. the packet id still filters decrypted payloads (`nrf24_bthome.cpp:573`), so that
   a sender back from a restart can lose an event although its counter is fresh.

`Recovers` is stated for a radio with one pipe on purpose: with several, a dip of
the supply during `radio_init_()` can leave one pipe deaf while frames on another
keep the watchdog from ever running, with the error status set.

`Diagnosed` has an exception for the same reason.  Whatever the bus of a dead radio
reads like, the watchdog runs and reports it, because bytes nobody sent count as
activity only once per fault (`GhostsAreRare`).  A radio that is back is configured
again and the report withdrawn, unless a dip between the enabled pipes and the channel
(`nrf24.cpp:118-121`) left it with part of its registers: as long as frames reach that
chip, the watchdog does not run.  All that time the error is shown, which
`StatusMatchesChip` says of every chip that hears anything.

## Proofs

Each for every value of the constants that the module's named assumptions allow.

`NRF24RadioProofs`, for every set of frames, FIFO depth, guard, timeout, counter limit,
with or without `irq_pin` (`RadioAssumption`):

* `TypeCorrect`: `Spec => []TypeOK`.  `TypeOK` alone is not inductive: that a payload
  `FindPayload` saw is still there four transactions later, and that the guard is
  below its limit inside a round, is `RoundInv`; together `TypeInv`.
* `LineAlwaysArmed`: `Spec => []LineArmed`.  `LineInv` adds what holds inside
  `radio_init_()` (`InitInv`): nothing is received while CE is low.
* `MissedExplained`: `Spec => MissedIsExplained`, from `EdgeInv`: the edge of a
  payload that still waits is remembered in the flag, in the local that read it,
  or in `overwritten`.
* `DiscardsCounted`: `Spec => DiscardIsCounted`, from `DiscardInv`: inside the flush and
  inside a re-initialisation the counter has moved, or nothing has been received yet.
* `RefinesChannel`: `Spec => Channel!SafeSpec`, each step of the loop is a hand-over,
  a purge, a reception or a stutter of `FrameChannel`, with the payload in hand in
  front of the FIFO.

`RadioFaultsProofs`, for any number of faults at any place:

* `FaultTypeCorrect`: `FaultSpec => []FaultTypeOK`, and `StatusCorrect`: `FaultSpec =>
  []StatusMatchesChip`, from `ChipInv`, which adds that what waits are frames somebody
  sent, and `VerdictRight`, what the verdict is worth inside `radio_init_()`.
* `FaultsLeaveOrder`: `FaultSpec => FaultsKeepOrder`.  Each step, with or without an answer
  of the chip, is a hand-over, a purge, a reception, a failure or a stutter of
  `FrameChannel`; `HandInv` says that loop() holds a payload exactly while it dispatches it,
  so that a failure can never take that one.
* `FewGhosts`: `FaultSpec => []GhostsAreRare`.  The bound is
  not inductive; `GhostInv` adds that wherever a ghost may come next (`AtRisk`: a payload
  was announced and is gone, and the chip that answers may give its width) there is a
  fault no ghost has been charged to.  A bus stuck low is never at risk at the width:
  pipe 0 is dynamic, and a width of 0 is refused.

`RadioInitProofs`, for any settings the schema accepts, any registers a chip may refuse,
any channel from 0 to 125, any data rate, any number of pipes and of faults
(`InitAssumption`):

* `TypeCorrect`: `Spec => []TypeOK`, from `SettingsInv`, `RegsInv` and `HubInv`.
* `AcceptedMeansRight`: `Spec => []AcceptedIsRight`, and `GoodChipsPass`:
  `Spec => []GoodChipAccepted`.  Neither is inductive: both speak of the end of a run,
  and a verdict is built up over 23 transactions.  `SteadyInv` says, for a run nothing has
  disturbed, how far it has got: which registers hold what was written (`WrittenInv`,
  `FEATURE` perhaps only after `ACTIVATE`), what the read-backs so far vouch for
  (`CheckedInv`), what the clone probe saved and set (`ProbeInv`), and that nothing is
  held against a chip that takes everything (`GoodInv`).  At the end of the run the
  registers read back make every pipe serve as asked (`ServesAsAsked`: the masks mean the
  pipes they were made of); those never read back count for `Tuned` only where the chip
  refuses none of them (`TunedAsAsked`).

`BTHomePayloadProofs`: what `InOrder` picks out of a sequence, by the rank of its places,
and that one more object is appended to the pick or leaves it alone.

`PayloadParseProofs`, for any tables, frame size, types and entities
(`ParseAssumption`, and `RoomAssumption`: one object more than the tables are long
would not fit a frame, which 25 bytes, two bytes per object and twelve entries satisfy):

* `ParseTypeCorrect`: `ParseSpec => []ParseTypeOK`.  `Inv` adds `BudgetInv` (objects
  and bytes left fit the frame), `TableInv` (no table holds more than there were
  objects) and `CountInv` (the table counts what there was).
* `ReadingsCorrect`: `ParseSpec => []ReadingsAsMeant`.  `CountInv` makes what the table says
  the place the definition says; one more object then changes the slots that wait for
  it and no other (`HitsOne`, `HitsKept`).
* `EventsCorrect`: `ParseSpec => []EventsAsMeant`, from `KeptInv`: the events kept of a kind are
  at every object those of the objects read so far, in order, and the packet id is that
  of the last id object among them (`LastIdAppended`); that no event finds its array full
  follows from `RoomAssumption`.
* `NothingIsLeftOut`: from the same invariant.
* `NamedOnlyOnce`: `ParseSpec => NamedOnce`, from the two before and `NewsInv`: what the
  device remembers as reported is what was reported, and its packet id is that of the
  last payload acted on, with discarded ones and repeats in between.

`BTHomeHubProofs`, for any devices, timeouts, frames, entities and any clock longer than
what is measured with it (`DeviceAssumption`, `HubAssumption`):

* `HubTypeCorrect`: `HubSpec => []HubTypeOK`.
* `ImplementsSafePresence`: `HubSpec => Presence!SafeSpec`, and `IdsAgeOut`.  The clock wraps, so
  that the difference in `check_timeout()` means silence only while silence is shorter
  than a round of it; `AgeInv` (until noticed, the difference is the silence), `ShownInv`
  (what is not shown began less than a timeout before the last sweep), `OffInv` (what is
  shown is silence, and its packet id forgotten) and `SweepInv` hold each other up.
* `DevicesKeepApart`: `HubSpec => OwnFramesOnly`.
* `ReplaysAreInert`: `HubSpec => ReplaysNeverAct`.
* `ShownWasReceived`: `HubSpec => PublishedIsReceived`: a commit publishes what `Park` parked
  of the same payload (`ParsedIsReading`), and nothing else publishes (`PublishedBy`).

`BTHomeLinkProofs`, for any senders, number of copies, payloads and restarts
(`LinkAssumption`: a payload keeps to the events a device has room for, and the device
meant is the first one listed under its id):

* `FiresExactlyOnce`: `LinkSpec => []ExactlyOnce`.  That `log` equals `due` says nothing of the
  next copy; `LinkInv` says what the receiver still knows.  `CounterInv`: the counter
  remembered is behind the one on the air unless a copy of it was heard.  `IdInv`: the
  packet id remembered, unless it aged out, is behind the sender's by as many as nobody
  has heard, which are fewer than there are ids; so a new payload never looks like an
  old one.  The invariant of `BTHomeHubProofs` is part of it: a sender that restarts relies
  on its id being forgotten.
* `RepeatsRaiseNothing`: `LinkSpec => RepeatsAreSilent`, from the same invariant.

Only model-checked: liveness, that is the fairness parts of `ImplementsChannel` and
`ImplementsPresence`, `LoopReturns`, `LineReleased`, `Recovers` and `Diagnosed`.  They rest on
`ENABLED`, which the prover cannot reason about.  Every invariant and every action
property of the runs is a theorem, and the safety part of the two refinements.

## Not modelled

* `bthome-cpp` (decoder, cipher), ESPHome, mbedtls: external, their results are
  inputs.  A damaged copy is one in which the decoder finds a fault; damage it cannot
  see (a changed value) cannot be told from a payload by this code either.
* Logging, `dump_config()`, texts of values: output.  Where a notice is given once,
  the state that makes it so is modelled (`warned`, `reported`, `warnedNoId`).
  `report_decrypt_failure_()` remembers only its last reason, so that two reasons
  that alternate are logged with every frame (`nrf24_bthome.cpp:209`); no property is
  stated about it.
* Code generation, schema of the entities and object tables of `nrf24_bthome`: they run
  once, at compile time, without state.
* `rx_frames_` and `rx_short_frames_` count to 2^32 and are read by logs only.
* Which pipes of a partly configured chip stay deaf while others hear
  (`nrf24.cpp:351`): `RadioFaults` lets such a chip hear any frame.  That it is
  reported is `StatusMatchesChip`; that it is mended the code does not promise as
  long as frames come.

## Plan

Done: the receive path with its abstract channel, its faults, configuration and
recovery, parsing, device, hub and their abstract presence, the link, and the proofs of
all their safety properties.  Left:

1. `NRF24Radio` in front of `BTHomeLink` in one specification.  Both sides of the interface
   are checked against `FrameChannel` and in order; the composition would show nothing
   that depends on more than that.
2. The steps under the liveness properties that need no fairness: that every round of
   `drain_fifo_()` brings the guard down, and every transaction `pos` forward, as action
   properties with proofs.
