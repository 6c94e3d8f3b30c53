# Woodland Harvest control system: TLA+ models

The repository holds the Arduino sketches of an off-grid solar installation: two
controllers that switch a fridge by the voltage of its battery, a wind meter, an
anemometer that logs to an SD card, a LoRa link that broadcasts the battery voltage of the
main house to two clients, and experiments, with the libraries some of them bring along:
nanopb, which encodes messages, and the drivers of the INA260 that measures the battery.
These modules model what the sketches and these libraries do to their state, step by step;
TLC checks them on small instances, and TLAPS proves the safety of all of them but nanopb for
every value of their constants.

## 1. Inventory

Every board runs one sketch: `setup()` once and `loop()` for ever. There are no threads.
What makes the code hard is what happens *around* `loop()`: an interrupt routine, the
operator's typing, the wrap of the 32-bit `millis()`, the power going, radio packets, and
other boards.

| Part | Source | State | Operations |
|---|---|---|---|
| fridge controllers | `master-arduino`, `backporch-arduino` | mode (`command`), power strip, start of the fridge timer, time of the last pass | the dialogue of `loop()`, `getOperatorInput`, one pass of the real-time loop in each mode |
| battery average | same | counter, sum, average, shared by two modes | sampling in "fridge" and in "measure" mode |
| buzzer | same | `buzzerState`, `lastLoopPStrip`, the tone | one step of a tune per pass |
| wind meter | `wind-measuring` | the volatile `sTime`, `start`, `culPulseTime`, `avgWindCount`; `dataTimer` | `anemometerISR`, the report of `loop()` |
| anemometer logger | `anemometer` | the same volatiles, `dataLoopCount` | `anemometerISR`, the report, attaching again |
| SD log | `anemometer` | the card's files, the chosen name | `setup`, `changeFileNameIfExists`, `saveData` |
| battery voltage server | `server_arduino_main-house` | the radio | `setup`; measure, show, send, sleep |
| battery voltage clients | `client_arduino_responsive-light`, `client_backporch_fridge-control` | the radio, the local receive buffer | `receiveBatteryVoltage`, printing |
| radio driver | `LoRa Arduino/libraries/RadioHead-1.113.zip` | mode, one receive buffer | `init`, `available`, `recv`, `send`, its interrupt |
| LoRa test sketches | `test_receiver_script_LoRa`, `rf95_server` | the radio | request and reply |
| pan-tilt sweep | `servo_sweeop` | two servo positions | a nested sweep |
| nanopb | `nanopb-0.4.4-windows-x86/pb*.[ch]` | streams, the iterator over a message type, messages in memory, the heap | `pb_encode(_ex)`, `pb_get_encoded_size`, `pb_decode(_ex)`, `pb_release` and what they call |
| INA260 driver | `Adafruit_INA260_Library`, `Adafruit_BusIO` (registers, I2C) | the chip's registers and pointer, the driver's register objects | `begin`, `reset`, measurements, getters, setters |
| the rest | BusIO over SPI, `test_nanopb`, the nanopb generator, an empty sketch, CAD | | |

The two fridge controllers are one program: they differ in one threshold (28.8 or 29.2) and
one gain (5.78 or 6.0), which are constants of the model.

How the parts interact:

* the console writes to the serial buffer at any time; the controller reads it only at the
  head of its inner loop, or when it waits for a command;
* a pass of the controller feeds the average, the average drives the strip, an edge of the
  strip starts a tune;
* "fridge" and "measure" mode share the average's variables, with windows of 100 and 30
  samples and with different gains;
* `anemometerISR` and `loop()` share four volatile variables; `loop()` detaches the
  interrupt before it reads and resets them, or means to;
* the server broadcasts; nothing is acknowledged; a client has one receive buffer and is
  asleep for 400 ms after each reception;
* the anemometer's sessions share the SD card;
* every call of the INA260 driver is two or three I2C transactions, each of which may fail, and
  a setter reads a register before it writes it;
* an encoder and a decoder share a byte stream and a message type, not always the same version
  of it; a message type's callbacks are the application's, and its memory is used again.

What has to be right, part by part:

* fridge: no short cycling (once on, on for three minutes), the hysteresis, no lost control
  loop at the wrap of `millis()`, a discharged battery turns the fridge off, typed commands
  are read;
* average: no published voltage beyond what the divider can deliver, and averages keep coming;
* buzzer: edges are neither missed nor invented, a tune is not cut, silence follows;
* wind: a mean is the mean of turns of its own window (sum and count belong together),
  reports at their interval and for ever;
* log: sessions never mix in a file and files are in the order of the sessions;
* link: no broadcast is missed by a busy client, nothing stale and nothing unreceived is
  printed as the present voltage, one lost packet is not taken for a dead server.

* nanopb: what was encoded is decoded, or refused with a reason; the encoder never reports a
  message that is not all there; nothing is written beyond an array; every block of the heap
  belongs to a message or is freed;
* INA260: settings hold while their neighbours are changed, values read are the chip's, a
  failed read can be told from a measurement.

`PROJECT.json` lists the hazards behind these, each at its line.

## 2. Modules

| Module | Models | Notes |
|---|---|---|
| `MillisClock` | `millis()` and the unsigned subtraction of two readings | `Wrap` stands for 2^32 |
| `VoltageAverage` | the averaging code of both modes | integers; the quotient kept exact in units of 1/`AverageUnit` |
| `PowerStripBuzzer` | the BUZZER SECTION | which tone sounds is not told apart |
| `FridgeController` | the controllers' `loop()`, composing the three above | one action per pass and mode, per dialogue, and for the console and the clock |
| `FridgeSwitch` | *abstract*: a switch with hysteresis and a minimum on-time | `FridgeController` implements it, averaged voltage for `voltage` |
| `FridgeControllerProofs` | theorems | see section 5, as for the other modules of proofs |
| `PulseCounter` | `anemometerISR`, the pulses of the relay, the shared variables | used by both wind sketches |
| `PulseCounterProofs` | lemmas about the routine and the sums of a window | for both wind sketches |
| `WindWindow` | *abstract*: turns are counted one at a time, a report takes the window at once | `WindMeter` and `Anemometer` implement it: a window that is being reported counts as taken |
| `WindMeter` | `loop()` of `wind-measuring` | one action per access to a shared variable |
| `WindMeterProofs` | theorems | |
| `Anemometer` | `loop()` of `anemometer` | the same, with its schedule and its re-attach |
| `AnemometerProofs` | theorems | |
| `DataLog` | the SD card over power-ups | names by their place in the order barn, barn_0, barn_1 ... |
| `DataLogProofs` | theorems | |
| `Rf95` | the radio driver, external to the sources | modelled by the calls of the sketches |
| `BatteryLink` | server and clients on the air | composes `Rf95` with both sketches, losses and power cuts |
| `LinkPromise` | *abstract*: one voltage at a time; what a client holds is the latest measured | `BatteryLink` implements it: what a client holds is in its radio's buffer, or received and not yet printed |
| `BatteryLinkProofs` | theorems | |
| `PanTilt` | the sweep of the pyranometer's servos | one action per command to a servo, the numbers are the sketch's |
| `PanTiltProofs` | theorems | |
| `PbCommon` | `pb.h`, `pb_common.c`: descriptors of message types, the iterator, messages in memory | types are built by `FieldInfo` and `MessageType`, as `PB_BIND` does |
| `PbEncode` | `pb_encode.c`, function by function | an output stream is a record that is passed on |
| `PbDecode` | `pb_decode.c`, function by function | the same for input, with the heap |
| `PbExchange` | an application on each side of a channel | composes encoder, decoder and `pb_release` |
| `PbExchangeMC` | 15 message types, 25 messages, 7 foreign encodings | for TLC |
| `BusRegister` | `Adafruit_BusIO_Register.cpp` on I2C: bytes and slices of a register | words are sets of the places of their ones |
| `INA260` | `Adafruit_INA260.cpp`, `Adafruit_I2CDevice.cpp` and the chip | one action per I2C transaction |
| `INA260MC` | settings, samples and chips | for TLC |
| `INA260Proofs` | lemmas about slices of words, and theorems | |

Correspondence with the code:

* **`FridgeController`**. `pc = "outer"` is `loop()` before `getOperatorInput`, `"inner"` the
  `while` of line 104. `KeepCommand` and `AwaitCommand` are the two branches of
  `getOperatorInput`; `Interrupt` is the test for input at the head of the inner loop;
  `FridgePass`, `MeasurePass` and `OtherPass` are one revolution in each mode with
  everything in it: time stamp, sample, average, decision, buzzer, and the way out after an
  overrun. `command = "stop"` has no pass, for the inner loop is not entered with it. A pass
  reads `millis()` up to four times; the ticks between the readings, `t1 <= t2 <= t3`, are
  chosen freely up to `MaxBusy`. The emergency-stop input only chooses a message and the
  display only shows state: both are left out.
* **Wind**. The interrupt routine is one action, for interrupts are off while it runs. `loop()`
  is one action per read, reset and write of a shared variable, with `pc` the next of them,
  so that the routine may run between any two. `DetachWorks` says whether
  `detachInterrupt(interruptPin)` reaches the interrupt: it is given a pin where a number of
  an interrupt is meant, and whether they agree depends on the board.
* **`DataLog`**. `PowerUp` is `setup()` up to the name, `saveData` the header or a report's row,
  `PowerLoss` may leave a file created and its row unwritten. Without a card `setup()`
  returns early and `loop()` runs on with nothing to write to.
* **`BatteryLink`**. The server's pass is `Server_sendBatteryStatus` (measure, show, send),
  `PacketSent`, `DelayOver`; a client's is `Poll`, `GotReply`, `RecvFailed` or `NoReply`, `Show`.
  `RecvFailed` needs `Noise`: a packet with a wrong checksum that arrives after `available()` has
  begun to listen again empties the driver's buffer.
  A packet is a voltage, of which a history tells whether it is still the latest. After a timeout the local buffer is whatever the stack holds: what was last
  received or garbage.
* **nanopb**. An operator per function, with its name. A function of a stream is an operator
  from one record to the next: `out`, `written` and `ok` of an output, `left`, `ok`, `val` (what
  the function returns through a pointer), `live` and `mem` (blocks allocated, calls of `realloc`
  that will succeed) of an input; an error is `Fail`, after which the caller returns as the code
  does (`Then`, `Into`). An intermediate result that is used more than once is bound by
  `With(value, LAMBDA name : ...)` and not by LET, which TLC's coverage statistics would
  expand at every use. A message is its counters (`size`) and its values (`data`) by the field's place in the
  struct, so that the members of a union share theirs. Before every `Receive` the memory holds
  something else: counters of 1, dangling pointers, non-empty texts (`UsedMemory`). Sources are
  a buffer, a device that fails at its end and a socket whose `read_callback` ends the stream by
  setting `bytes_left` to 0 (`examples/network_server/common.c`). `Encode`, `Receive`, `Merge`
  and `Release` are calls of the library; `Import` is another library's encoder, `Cut` the
  channel. Callbacks write a text, fail, or write more or less on the second call than on the first; they read everything,
  one byte, or fail.
  What the sample types do not contain: unions that mix static and pointer members, which the
  code mishandles (see below); and, because the code gives it no meaning that both sides could
  rely on, empty message types, arrays of a fixed count by pointer or of messages, required
  fields missing from a part of a split submessage. `MergeIsConcatenation` leaves out one
  more kind of type, also below.
  The arms of a CASE are tried in order, as TLC tries them and as the code's chains of `else if` are.
* **`INA260`**. A call is `begin`, `reset`, `Set`, `Get` or `Read`, and then one action per
  transaction: `Detect` (the probe of `begin`), `Point` and `Fetch` (`write_then_read`), `Store` (the
  write). Each may fail, up to `MaxFaults`; a store that is not acknowledged may still have been
  taken. `ChipRestart` takes the supply away between any two. `known` is a history of what the
  caller knows to be set. Not modelled: the reserved bits of CONFIG, `_cached`, calls of settings
  before `begin()` (null pointers), `print()`.

History variables, which no code corresponds to: `onAge`, `sinceReport`, `wrapped`,
`windowAge`, `rows` of the log (by session), `missed`, `latest`, `known`, `misread`.

## 3. Runs

| Run | Question | Bounds |
|---|---|---|
| `fridge_clock` | "fridge" mode over wraps and overruns, and the tunes | `Wrap` 16, minimum on-time 4, pass up to 2 ticks at an interval of 1, a window as long as a tune |
| `fridge_modes` | every order of typed modes; refinement of `FridgeSwitch`; every typed line is read | windows 3 and 1, two readings, `Wrap` 3, minimum on-time 1, gains 2 and 3, without `defaultSwitch` |
| `wind_average` | refinement of `WindWindow`; the schedule of the wind meter | `Wrap` 7, report length 3, up to two pulses a window |
| `anemometer_average` | the mean of the anemometer's window, its schedule, and attaching again | `Wrap` 20, deadlines every 6 ticks, reports of up to 2, other iterations of up to 1, `setup()` of up to 2 |
| `datalog_sessions` | names, header and rows over power-ups | 4 names, 6 power-ups |
| `link_broadcast` | refinement of `LinkPromise`; lost packets, power cuts, failing radios | period 14, timeout 28, pause 5, air time 1, slack 1 |
| `pb_exchange` | messages encoded, cut, and decoded: exactly, by other versions, in place, every block accounted for | groups of 3 bits, 8 and 16 for 32 and 64, outputs 4 or 1 too small or just right, heap of 1, 2, 4 or unlimited |
| `ina260` | settings and measurements over transactions that fail and brown-outs | 4 calls, one failure, one brown-out, `int` of 16 bits |

Why these are enough. The clocks wrap several times in a run, at every phase of a pass: what
matters of `Wrap` is that it is larger than the durations compared, and that it is not a
multiple of the deadlines' length (20 and 6, as 2^32 and 10000). Windows need the shorter
one plus one to be below the longer (31 < 100), the relation that the shared counter depends
on. In the wind models two pulses per window tell a sum and a count apart. In
`anemometer_average` only an iteration without a report is short, one tick (`MaxIdle`), which
on the board is microseconds; a report, which prints a hundred characters at 9600 baud, fills
the LCD and writes to the card, takes up to two (`MaxIteration`), more than `QuickIterations` would
allow it: `loopTime` takes only multiples of 16 = gcd(10000, 2^32), the scaled
one multiples of 2 = gcd(6, 20), and only the iterations without a report must take no more than half of that. In the link, the constants keep the order of the real times, stated as `LinkAssumption`:
2(slack + air time) < pause (about 140 ms against 400 ms), two pauses shorter than the
server's start-up (2 s), start-up shorter than the period (10 s), timeout twice the period. One client
is enough: clients share nothing but the air, and only the server sends. (`KeepsPromise` was also checked with
two clients and shorter delays, 844,483 states, and the anemometer's refinement of `WindWindow` on the instance of
`anemometer_average`, 881,210 states.)
Six power-ups for four names reach the end of the names.

In `pb_exchange` the widths are small so that every boundary is reached, and keep the shape of the real
ones (`WidthsAssumption`): a number of `W64` bits ends one bit into its last group, one of `W32` in
the middle of a group, and both are whole bytes, as 64 = 9 * 7 + 1 and 32 = 4 * 7 + 4. `SizeMax` 100, the
largest `size_t`, is larger than any message. A heap that fails at its first, second or fourth allocation or never fails inside an array, inside a
message in an array, and after them. Every prefix of every message is a cut. About 113,000 states, half a minute.
In `ina260` the widths are the real ones; four calls are `begin`, two settings of one register and a reading, one failure and one brown-out suffice for each hazard, and both in one run for their combination.
`fridge_modes` has 594,000 states: the windows are the smallest in the relation above.

Runs that end in a violation, and what they show:

* `fridge_stop`: with `defaultSwitch` set, as shipped, "stop" stops the reading of the console
  for good, against its own message;
* `fridge_wrap`: a fridge turned on within three minutes before the wrap of `millis()` is
  never turned off on a discharged battery while "fridge" mode lasts: `fridgeTimer` is 0 in every revolution of
  the counter but its last three minutes, where it grows to the 180000 ms it would have to exceed, and no further;
* `wind_shutoff`: the detach detaches nothing where pin and interrupt number differ, and pulses
  are counted in the middle of a report;
* `link_printed`: a client that timed out prints an uninitialised buffer as the voltage
  received.

`fridge_clock` checks the other side of `fridge_wrap` (`DischargedTurnsOffAwayFromWrap`): nothing
but the wrap keeps the fridge on.

Further things the models show and no run states:

* "measure" entered from "fridge" mode with more than 30 samples counted never averages (line 144);
* the minimum on-time is three minutes where the comment of line 54 says two;
* a server whose radio did not initialise hangs in its first broadcast (`KeepsMeasuring` asks for
  a radio that works);
* `dataLoopCount*dataLoopLength` of the anemometer overflows before `millis()` does: until the
  next deadline is past the clock again, every iteration reports. `ReportsSpacedBeforeWrap`
  holds up to that point, and `ReportsKeepComing` beyond it;
* if iterations of the anemometer's `loop()` *without* a report took longer than 8 ms, half of 16 = gcd(10000, 2^32),
  the last report before a wrap of `millis()` could be skipped; the next is then due near the end of
  the following turn, and after a calm all that time the first pulse is measured from one that came a
  whole turn (50 days) earlier, which unsigned subtraction shows as a moment ago. TLC finds it with `MaxIdle` 2 in
  `anemometer_average`. Such iterations take microseconds, so `AnemometerMeanOfThisWindow` excludes it by name (`QuickIterations`). A
  report may take as long as it likes up to the next deadline: it ends with `start` set, so that a wrap within it loses no pulse's turn;
* `setup()` of the anemometer takes some three seconds and the first report waits for it, so the second follows it by so much
  less than `dataLoopLength` (`Lateness`);
* nanopb: with `PB_DECODE_DELIMITED` and a source that fails inside the message, `pb_decode_ex` returns
  at line 1150 without releasing it, where `docs/reference.md:792` says it releases the memory
  itself, so an application that trusts the manual leaks. It cannot call `pb_release` to be safe either: had not even the
  length arrived, the message would still be uninitialised. `BlocksAccountedFor` says exactly when this is so
  (`KeptOnError`) and what is left, namely all that the message holds; `Release` does nothing after any other
  error, and `Restart` of the receiver is the only way to get the memory back. No run states the manual's promise;
* nanopb: in a union with static and pointer members, a pointer member that arrives after a static one is allocated
  with `realloc` from the bytes of the static one, and release follows them too (lines 624-645 and the `FIXME` there). The
  model shows it as a violation of `BlocksAccountedFor` as soon as such a type is among the samples; none is;
* nanopb: each call of `pb_decode` counts the items of an array of fixed count anew (lines 489-513, 1061-1080), so a message
  merged from two calls may carry the array twice, where the concatenation of the two is refused with "array
  overflow". `MergeIsConcatenation` therefore speaks of types without such a field of their own; `fixed1` and its
  message are a case that refutes it for all;
* nanopb: the end of file of a socket inside a message is taken for its end, and with it the end of every
  submessage, so `CutIsSeen` speaks of buffers and devices; a missing
  terminator of a null-terminated message in a buffer is not noticed; `pb_decode_varint32` accepts bits beyond the 32nd
  in a byte whose other bits are zero (line 223); the defaults of a submessage in a union are not set;
* INA260: a setter whose read failed writes ones to the rest of the register, and resets the chip
  if it was CONFIG; after a failed read `conversionReady` and `alertFunctionFlag` are true and
  `getMode` is CONTINUOUS; `begin` does not look whether its reset failed; a negative alert
  limit reads back as a large positive one; `1 << 16` for the mask of the limit is beyond an `int` of 16
  bits, and gives the right mask only because such boards shift to 0.

## 4. Fairness

`WF` of the sketch's steps: the processor runs. `WF` of the tick: `millis()` advances; in the
models a tick waits for steps that are due, so a sketch is never infinitely slow. Nothing is
assumed of the operator, of the wind, or of the air. In `BatteryLink` a broadcast that is on the
air ends, and a power cut lasts a tick or more, so that switching boards off and on does not stop
time. `KeepsShowing` asks for broadcasts that do reach the client, and for an end of the noise
that may empty its buffer between `available()` and `recv()`. `fridge_modes` runs under `FairSpec` for `InputEventuallyRead`. nanopb is a library of functions that
return, and a call of the INA260 driver ends after its transactions: no liveness is stated of them.
`CHECK_DEADLOCK FALSE` is set only for `DataLog`, which ends with its
bound on power-ups, and for `INA260`, which ends with its bound on calls.

## 5. Proofs

`FridgeControllerProofs` proves, for every `Wrap`, every setting, every gain and window that
meets the named assumptions of `MillisClock`, `VoltageAverage`, `PowerStripBuzzer` and
`FridgeController`, and any subset of the commands typed in any order:

| Theorem | States |
|---|---|
| `TypeCorrect` | `Spec => []TypeOK` |
| `TimerNeverAhead` | `Spec => []TimerWithinAge` |
| `LeftOnLongEnough` | `Spec => MinimumOnTime` |
| `Implementation` | `Spec => ImplementsSwitch` |
| `AverageBounded` | `Spec => []AverageWithinSamples` |
| `BuzzerFollowsStrip` | `Spec => []BuzzerConsistent` |
| `OnTuneWhole` | `OneWindow`: `Spec => OnTunePlayedWhole` |

The argument for the switch. `MinimumOnTime` is about true time (`onAge`), the code decides by
`fridgeTimer`, a comparison of two readings of a counter that wraps. It is not inductive: one
has to know that in every reachable state the timer claims no more than the true age.
`SwitchInv == TypeOK /\ TimerWithinAge` is: time passing moves both by the same amount
until the counter wraps, and then the timer claims 0 (`TimerElapses`); turning on sets both to
the same origin (`TimerRestarts`); a pass that turns off does so on a timer beyond
`MinOnTime`, hence on a saturated age (`LongEnoughIsOld`). That the tests for on and off do not
both hold in one pass follows from the order of the thresholds (`ThresholdsExclude`).
`StepOfStrip` reduces every action to "the strip is switched by a pass" or "time passes",
and both the invariant and the refinement are proved from it.
`AverageBounded` rests on windows and gains being ordered as in the code
(`MeasureWindow + 1 < FridgeWindow`, `FridgeGain <= MeasureGain`): it is the shorter window that
can find a counter beyond itself, and then it stops counting.
`BuzzerFollowsStrip` is inductive with the types: only a pass in "fridge" mode moves the strip,
and that pass ends by recording it.

`OnTuneWhole` states `OnTunePlayedWhole` under `OneWindow`: the operator does not
type "measure", and a tune (30 passes) is shorter than the window of an average (100). In "measure" mode averages are
published while the tune waits, so without this hypothesis the property is false. The
invariant is a lockstep (`TuneInv`): a tune starts only in the pass that publishes an average above
the upper threshold, so its position is the counter of the samples plus two, and it is over before the next average.

`PanTiltProofs` proves, of the sweep at its own angles, which needs no instance to check:

| Theorem | States |
|---|---|
| `SweepTypeCorrect` | `Spec => []TypeOK`: no command lies outside a servo's travel |
| `SweepOneBehind` | `Spec => []SweptOneBehind` |
| `SweepWithoutJumps` | `Spec => SmallMoves` |

`TypeOK` is not inductive: that an inner loop stops one step beyond its limit, and not further,
needs `TiltFollows`, which ties the servo to the loop variable one step back and each loop's
begin to the other's end (`TiltAtLimit`). `SmallStep` is the arithmetic of `map()`, whose
division cuts. `SweptOneBehind` says what a measurement at the place of the comment "take
analog measurement" would have to know: the pan servo is moved at the end of a column, so column
`panpos` is swept in the direction of the one before.

`DataLogProofs` proves, for any number of names and of power-ups, and losses of power and
failing writes anywhere:

| Theorem | States |
|---|---|
| `LogTypeCorrect` | `Spec => []TypeOK` |
| `SessionsInOrder` | `Spec => []LogInOrder` |

`LogInOrder` is not inductive: that a new file's rows belong at the end needs that no later name
is in use. `LogInv` says how the card looks: the names in use are the first m (`NamesInUse`), a
session that logs writes to the last of them or to the one after (`NamesInOrder`), it has all
the rows of its own file and none elsewhere (`RowsInOwnFile`), and no row is of a later session
(`RowsSoFar`). `changeFileNameIfExists` is a CHOOSE, of which `FirstFreeName` shows that it is
m when the names in use have no gap; `LogAfterPowerUp`, `LogWithoutRow` and `LogWithRow` are the
three ways the card and the session change.

`PulseCounterProofs`, `WindMeterProofs` and `AnemometerProofs`, for any `Wrap`, any
distance of the reports, any length of reports and iterations within the assumptions below, and any wind:

| Theorem | States |
|---|---|
| `WindTypeCorrect` | `Spec => []TypeOK` |
| `WindReportsSpaced` | `Spec => ReportsSpaced` |
| `WindMeanOfThisWindow` | `DetachWorks`: `Spec => []MeanOfThisWindow` |
| `WindReportsAtOnce` | `DetachWorks`: `Spec => ReportsAtOnce` |
| `WindShutOff` | `DetachWorks`: `Spec => ShutOffWhileReporting` |
| `AnemometerTypeCorrect` | `Spec => []TypeOK` |
| `AnemometerReportsSpaced` | `Spec => ReportsSpacedBeforeWrap` |
| `AnemometerMeanOfShortWindow` | `DetachWorks`: `Spec => [](windowAge < TimeCap => MeanOfThisWindow)`, `TimeCap <= Wrap` |
| `AnemometerMeanOfThisWindow` | `DetachWorks`, `QuickIterations`: `Spec => []MeanOfThisWindow` |
| `AnemometerReportsAtOnce` | `DetachWorks`, `QuickIterations`: `Spec => ReportsAtOnce` |

`DetachWorks` is a constant of the model, true on a board where the pin is the number of its interrupt;
`wind_shutoff` shows what happens on the others. `ReportAssumption` (a report and an iteration fit in a turn
of the clock) and `LoopAssumption` (`setup()`, a report and an iteration fit between two deadlines) hold on the
boards, the first by four orders of magnitude. `QuickIterations` asks of iterations *without* a report that two of them fit
into a common divisor of `Wrap` and `dataLoopLength`, 16 ms on the boards; of reports it asks nothing. The argument for the mean: `WindowAt` says of each `pc` what the sums hold. Outside the
report section the window is open (`OpenWindow`: sum and count are those of the history), and in it the sums are
reset one by one while nothing is counted. That an interval is a turn of the window (`IntervalIsTurn`) needs that the
subtraction of `sTime` is right, hence that the last pulse is not a whole turn old:
in the wind meter it is younger than the report timer, which `TimerShowsAge` ties to true
time. The anemometer's deadlines are numbers, not durations: `PulseOfThisTurn` says on which side
of a wrap the last pulse was. A report that lasts beyond a deadline or a wrap does no harm, as no pulse is seen from its detach on and
`start` is set when it ends; that iterations without a report skip no deadline follows from the common
divisor of `Wrap` and `dataLoopLength` (`LoopTimeOnGrain`), which makes `QuickIterations` necessary.

`ReportsAtOnce` is the refinement of `WindWindow`. A report takes effect where `Poll` finds it due and detaches the
interrupt: from there on sum, count and age of the abstract window are those of the next one, zero, while the
variables still hold the report. `WindowAt` says that what each average reads is what was there at the
detach, that both averages of the wind meter read the same, and that all is zero again at the attach, in either order of the resets;
outside the report section the only step that changes the sums is a rise of the pin, which by `RiseCounts`
and `IntervalIsTurn` adds one interval no shorter than the fastest turn and no longer than the window.
`WindShutOff` is the comment that `wind_shutoff` refutes, for the boards where the detach works.

`BatteryLinkProofs`, for any number of clients, any delays in the order of `LinkAssumption`,
packets that are voltages (`PacketAssumption`), and power cuts, losses and noise anywhere:

| Theorem | States |
|---|---|
| `LinkTypeCorrect` | `Spec => []TypeOK` |
| `LinkAlwaysListening` | `Spec => AlwaysListening` |
| `LinkFreshWhenShown` | `Spec => FreshWhenShown` |
| `LinkKeepsPromise` | `Spec => KeepsPromise` |
| `LinkNoReplyMeansSilence` | `Spec => NoReplyMeansSilence` |

None of these is inductive: each relates the delays of two boards that share no clock. `AirInv`
says who can be sending what, `TimeInv` that no delay is overslept by more than `Slack`. From
them, `BufferInv`: while a client has a broadcast in its buffer, or has received one and not
shown it, the server is silent and has been where it is no longer than the
client took (`SilentFor`); so by the time the server could send again, all buffers are free (`FreeInTime`), which gives
`AlwaysListening`, `FreshWhenShown` and the step of `LinkPromise` that measures; its others are that what a client holds
is the latest (`HoldsLatest`), that a broadcast that ends is given to some and that every other step of a client
holds what it held or lets go of it. `LinkPromise` is also kept when the server loses power in the middle of a broadcast: the
packet is off the air and nobody has it. `SilenceInv` bounds how long a client has waited by where the server is in its
cycle (`Phase`) plus one `Cycle` per broadcast missed: after two cycles it has not waited for `Timeout`, since a pause
outweighs 2(slack + air time). `BufferInv` and `SilenceInv` were checked by TLC with one and with two clients (15,685 and
3,024,161 states) before the proof.

`INA260Proofs`, for any chip, values, samples, widths that meet `ChipAssumption`, and any number of
calls, failures and brown-outs:

| Theorem | States |
|---|---|
| `InaTypeCorrect` | `Spec => []TypeOK` |
| `InaFailureVisible` | `Spec => []FailureVisible` |
| `InaSettingsHeld` | `Spec => []SettingsHeld` |
| `InaReadsBack` | `ByteBits = 8`: `Spec => []ReadBackWord` |
| `InaReadsBackNumbers` | `ByteBits = 8`, `InRange`: `Spec => []ReadBack` |
| `InaOnlyRightChip` | `NoLookalike`: `Spec => []OnlyRightChip` |
| `InaOnlyRightChipPowered` | `Spec => [](restarts = 0 => OnlyRightChip)` |

`ChipAssumption` asks for bytes of 8 bits and an `int` of 16 or more, as C does, for
registers narrower than what the driver returns, and for constants of the right kind. The lemmas are about
words as sets of the places of their ones: a slice inserted into a word reads back and leaves
the bits of every slice apart from it (the settings of a register are apart). `HeldInv` is `SettingsHeld`
carried through the transactions of a setter: between its fetch and its store, the word it
holds agrees with the chip in every setting that is known, or it was misread or the chip restarted,
and then they are not known any more. `ReadBackWord` is `ReadBack` for words in place of the numbers they stand for. The step from one to the other is
`NumberIs`: a number below 2^16 is the number of the word of its binary digits. A word has 16 digits, so this takes no
induction: the number is halved once for each (`Halved`), and the digits are added up four at a time (`NumberByHalves`). `InRange` says that what callers ask for fits:
the members of the enumerations of `Adafruit_INA260.h` fit their slices, and a limit fits the `int16_t` it is converted to
(`Adafruit_INA260.cpp:270`). `AllowedInv` says that only such values become known.
`OnlyRightChip` depends on data: if the supply drops between pointer and fetch, the pointer of the chip is anywhere
afterwards, and `begin` may take another register for the id. Another chip then passes for an INA260 only if one of
its registers holds the id of one, which `NoLookalike` excludes; without a brown-out nothing needs to be assumed.

Only model-checked:

* everything about liveness (out of the prover's reach): `AverageRefreshed`, `DischargedTurnsOffAwayFromWrap`, `BuzzerFallsSilent`,
  `InputEventuallyRead`, `ReportsKeepComing`, `Reattached`, `KeepsShowing`, `KeepsMeasuring`;
* nanopb, which is recursive over nested messages (RECURSIVE operators are out of the prover's reach).

## 6. Plan

Done: the fridge controllers, the SD log, the pan-tilt sweep, wind meter and anemometer, the
broadcast of the battery voltage and the INA260 driver with their proofs; the abstract switch, window
and link, and that the code implements them; nanopb.

Next, the rest of the system:

1. `PingLink`: the two LoRa test sketches, which are also the uncalled request functions of
   server and clients, over `Rf95`: a reply that arrives after the timeout of 3 s is taken for
   the reply to the next request; both sides may transmit at once.
2. the colours of the light as a partition of the voltages, over all readings.
3. `FridgeHouse`: a restart of the controller while the strip is on (power loss resets
   `fridgeWaitTimerStart` and the relay), and what is left of the minimum on-time.

## 7. Not modelled

Message texts, LCD and LED output; the emergency-stop input (it only chooses a message); float
rounding; `pulseTime` and the instantaneous wind speed (never shown); the maximum wind of the
LCD; the date of a row; the bytes of a radio message; tearing of a multi-byte read by an
interrupt; `ReadSens_and_Condition` of the pan-tilt sketch, which
nothing calls; an SD card that does not answer while the name is chosen.
`test_nanopb` encodes and decodes one constant message and does nothing of its own; nanopb's
generator runs at build time; its compile-time options that are off as shipped
(`PB_CONVERT_DOUBLE_FLOAT`, `PB_VALIDATE_UTF8`, `PB_ENCODE_ARRAYS_UNPACKED`) or take something away
(`PB_WITHOUT_64BIT`, `PB_BUFFER_ONLY`), and extensions with handlers of their own, are left out; BusIO over SPI is not used
by anything here; RadioHead is taken by what its callers see of it; `test_script` is empty; CAD is not code.
