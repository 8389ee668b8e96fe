# Verification of the A9G GPS tracker firmware

TLA+ modules, TLC configurations and TLAPS proofs for the firmware of the
vehicle tracker in this repository (`firmware/app`, `firmware/libs/gps`,
`firmware/libs/utils`).  Paths below are relative to the repository.

## The system

The firmware runs two tasks and a few callbacks on the SDK's operating system.

| Part | Source | State | Operations | Interacts with |
|---|---|---|---|---|
| Ring buffer | `firmware/libs/utils/src/buffer.c` | `front`, `rear`, the array | Init, Puts, Gets, Query, Size, Size2, Clear, StartPostion | GPS driver |
| GPS driver | `firmware/libs/gps/src/gps.c` | `semCmdSending`, `isCmdSendTimeOut`, `gpsAckMsg`, `gpsNmeaBuffer`, `tmp` | GPS_Update (main task), the commands (gps task), OnCmdAckFail (timer) | chip over UART2, both tasks |
| NMEA parser | `gps_parse.c`, `minmea.c` | `g_gps_info`, the static counters | GPS_Parse, ParseOneNmea | called by GPS_Update, read by the gps task |
| Main task | `firmware/app/src/app.c` | `networkFlag`, `isGpsOn`, `led_status` | EventDispatch, the event loop | network, UART1, GPS driver |
| Status LED | `app.c`, LED_Blink | the static `count`, the pin | timer callback of the main task | `led_status` |
| gps task | `app.c`, gps_testTask | `prev_lat`, `prev_long`, `falseGPS`, `motion`, watchdog | wait, configure, read, check, post, sleep | `g_gps_info`, network, server |
| HTTP client | `app.c`, Http_Post | socket, block | one exchange | gps task, server |
| Assisted GPS | `gps.c`, Http_Get and GPS_AGPS | socket, download buffer, the chip's format | download, switch, send packs, switch back | GPS driver, server; not called by the application |
| NTP client | `firmware/libs/utils/src/ntp.c` | socket, packet | NTP_Update | time server, clock; not called by the application |
| Motion sensor | `app.c`, MPU_Init | sensor registers | set-up at start | I2C |

What is hard here: the two tasks share the driver's static variables without a
lock; an acknowledgement carries no sequence number and may be late, cut,
corrupted or missing; a timer races it; the network reports its changes by
events that wait in a queue; several flags keep an old answer when a check is
skipped; a watchdog must be fed by a task that waits for others.  `hazards` in
`PROJECT.json` lists these places line by line with the properties about them.

What makes each part correct: the ring is a queue whatever its wrap (Buffer); a
command returns, says true only for what the chip did, and leaves nothing behind
(GpsCommand); every line of a frame is parsed, and what is read afterwards is
what the chip reported (GpsParse), as the number its text says (Minmea); flags
and LED follow the network (MainTask, StatusLed); only credible positions are
posted, posts keep coming, an exchange gives back what it took, and the watchdog
bites only when it should (Tracker, HttpPost); the assisted GPS leaves the chip
in its normal format (Agps); the time computed is UTC (Ntp).

## Modules

* `BoundedFifo` - the abstract queue: puts and gets are all-or-nothing.
* `Buffer` - `buffer.c`, cell by cell.  An action is one call.  `Buffer_Query`
  is the scan of the source as a recursive function over the cells.
* `GpsCommand` - `gps.c` as steps of two tasks.  One action is a stretch that
  touches one shared variable; `gpc` and `mpc` say where each task is.  The
  queue is the queue of `BoundedFifo`, with *tokens* for bytes: a sentence, a
  sentence cut after `VTG`, the rest of a cut sentence, an acknowledgement
  whole or cut.  `Gets` fails when the gps task cleared the queue in between.
  `header` says in which branch of GPS_Update (NMEA or binary header) the main
  task is.  A timer that expires queues its callback to the main task
  (`TimerExpires`), which comes to it later (`OnCmdAckFail`); with
  `StaleCallback` OS_StopCallbackTimer may come too late for a callback that is
  queued already, and `stale` remembers that.  `MCGpsCommand` gives the commands.
* `MainTask` - EventDispatch and the event loop, with the network as an
  environment that answers requests, fails them, and may be lost.  A loss is
  reported by an event that EventDispatch heeds (SEARCHING, or NO_SIMCARD, which
  does the same) or by one it ignores (REGISTER_NO, REGISTER_DENIED, DEREGISTER,
  SIMCARD_DROP: `IGNORED`), and the modem may say at any time that it searches.
* `StatusLed` - `MainTask` with LED_Blink.  The history variable `reported` says
  whether the present loss has been reported by an event the code heeds.
* `Tracker` - `MainTask` with gps_testTask, the watchdog and time in ticks.
  A position is a pair of integers or `NaN` (what empty fields become).
  Http_Post is one place of the gps task; so are the UART writes between reading
  the position and checking it (`report`), where the main task may run.  A trap
  (`ReadTraps`, `GpsReportTraps`) and the failed assertion of a missing IMEI
  (`NoImei`) restart the device.
* `HttpPost` - Http_Post, an action per library call; its state is what it
  holds.  `TrackerHttp` composes it with `Tracker`: the exchange runs while the
  gps task is at `post`, the watchdog may cut it off, and time passes only in
  the calls that wait.  Each of its steps is a step of `Tracker` or leaves
  `Tracker`'s variables alone, by the way it is composed, so that what is proved
  of `Tracker` holds of it.  `MCTrackerHttp` gives the positions.
* `GpsParse` - GPS_Parse and ParseOneNmea with their static counters, the four
  writes of an RMC sentence to `g_gps_info.rmc` in their order (scan, scan,
  sign, sign), and the two reads of the gps task in between.  A frame is a
  sequence of cells in which sentences and garbage have lengths, because
  `nmeas` advances by a length.  `MCGpsParse` gives the frames.
* `Minmea` - the field type `f` of minmea_scan, one character per step, and the
  conversion to degrees in gps_testTask.  Integers have a width.
* `Agps` - Http_Get and GPS_AGPS.  A command to the chip is what `GpsCommand`
  shows of it: executed or not, and acknowledged only if executed.
* `Ntp` - NTP_Update with its unsigned arithmetic; time passes in half seconds
  while it waits, and the server stamps request and answer when it likes.
* `BufferProofs`, `GpsCommandProofs`, `GpsParseProofs`, `StatusLedProofs` (with
  those about `MainTask`), `TrackerProofs`, `AgpsProofs`, `NtpProofs`,
  `MinmeaProofs` - the theorems.

How the modules fit together: `GpsCommand` says how bytes become a frame or an
acknowledgement, `GpsParse` what a frame does to the position, `Minmea` what the
text of a coordinate becomes, and `TrackerHttp` what the gps task does with a
position.  `GpsReport` in `Tracker` is the first three seen from outside: a
complete position, or none.

Definitions introduced by a comment `Mutant:` are deliberate errors.  Each one
replaces the definition after it to see that a property would notice.

### Abstractions and bounds

* The acknowledgement checks (`AckAccepted`) keep what they compare: parity,
  kind, command number, result, pack number.  Characters are not modelled.
* Buffer_Clear, Puts and Gets are atomic in `GpsCommand`.  Under a preemptive
  scheduler they could overlap inside; that is not modelled.
* Which scheduler the SDK has is not in the repository: both tasks have
  priority 0 (`app.c:44`).  So `Preemptive` is a constant, and each result says
  for which value it holds.
* What OS_StopCallbackTimer does with a callback that is queued already is not in
  the repository either.  So `StaleCallback` is a constant too: TRUE in
  `gps_cooperative` and `gps_progress`, FALSE in `gps_preemptive`, where both
  together are too many states; the proofs cover both.
* What `__assert` and a division by zero do is up to the platform.  They are
  modelled as a restart, at once or (ReadTraps) as NaN; a platform that hangs
  there is restarted by the watchdog later.
* `MaxRx`, `MaxChunk`, `MaxReq`, `MaxEvents`, `MaxLength`, `CountCap` bound the
  model only.  Two commands are enough for one to receive the answer of the
  other; two tokens in the UART driver for an acknowledgement to be cut, for
  two to arrive together, and for `VTG` to be cut from its line end.
  `Capacity` and `FrameLength` stand for 2047 and 1024 bytes; in
  `gps_preemptive` the frame is shorter than the queue, so that a header may lie
  beyond `tmp`.
* A ring of 4 cells and transfers of up to 3 bytes reach every wrap, the full
  ring and the refused put.  Three byte values give patterns of two different
  bytes with a third in between.  Queries start at every place of the queue.
* In `Tracker` the watchdog's 180 s, the sleeps of 2 s and 120 s and the
  12 s of Http_Post's select keep what matters of their order: each sleep is
  shorter than the limit, also together with the select of the next round
  (`Limit = 4`, 1, 2, 1 ticks).
  Three positions: two near each other, one far away.
* `GpsParse`: frames of garbage, a line, and a line, a cut or garbage, in every
  combination; lines of two and three cells, garbage of one and of four, so that
  `nmeas` falls short of a line by less and by more than a line.  `MaxGsa = 2`
  is what one frame can fill, `MaxGsv = 1` is less.  `FlagMod = 3` stands for the
  256 values of the frame number and `MaxEmpty = 1` for up to 254 frames in a
  row without a sentence (`MaxEmpty + 2 <= FlagMod`).
* `Minmea`: every field of up to seven of eight characters.  With
  `MaxInt = 1023` a number of four digits may or may not fit, a fraction is cut,
  and a scale of four decimals overflows.  The properties compare with numbers
  computed from the text without a width.
* `Agps`: 10 cells of buffer, segments of 3, packs of 2, a header of 2 and files
  of up to 9: the response ends within a segment, at its end, and beyond the
  buffer; the file ends within a pack and at its end.  `MaxRetry` is the code's 3.
* `Ntp`: stamps of `Modulus = 64` wrap two seconds after the request; the local
  clock is right, off by half a second, by seconds, or by 20 s.

## Runs

| Run | Result | Shows |
|---|---|---|
| `ring` | pass | the ring implements `BoundedFifo`; Buffer_Query finds the first occurrence from every start inside the queue; the frame length GPS_Update computes from the header's place ends at the line end |
| `gps_cooperative` | pass | no null message is read, no dead semaphore is released, a time-out ends no wait but its own and is over when its command returns, no message outlives its command, true means executed, and a message is overwritten only after an earlier time-out |
| `gps_preemptive` | pass | types, the timer's scope, true means executed, and a foreign acknowledgement needs an earlier time-out: with switches anywhere, malloc failures and cut sentences |
| `gps_progress` | pass | commands return; the main task comes back to its loop |
| `gps_vtg_spin` | violation | GPS_Update loops for ever on a `VTG` without line end |
| `led_status` | pass | once every event is taken, `networkFlag` and the LED status are those of a loss that was reported or of an active context; a status that begins while the counter is within its values keeps the LED blinking |
| `tracker` | pass | only credible posts, no needless reset, no leak on any return of Http_Post; the gps task comes round or the watchdog restarts it; a position in one neighbourhood is sent again and again |
| `tracker_west` | violation | with a western longitude nothing is ever posted |
| `parse` | pass | no line of a frame is passed over, the arrays hold this frame's entries, an undisturbed reading is a reported position, GPS_Parse ends |
| `minmea` | pass | which fields are read, as what number, cut where, and as how many degrees |
| `agps` | pass | the whole file is downloaded and stored, the chip is back in NMEA format, which returns leak, every call ends |
| `ntp` | pass | the computed time is within the duration of the exchange of UTC, across the wrap; the socket is closed but on one return; every call ends |

Deadlock is checked in every run but `minmea`, whose scan ends.

Several properties hold under a condition, which is then part of the property
and says where the code's promise ends: `ChipBackInNmea` (unless a format command
went unacknowledged), `LeakConfined` (unless the call failed after its
download), `NtpTimeIsUtc` (unless the local stamps are later), `NtpSocketReleased`
(but for the name look-up), `ReadsReported` (unless a parse overlaps or a
sentence without checksum came), `DownloadWhole` (unless a segment was cut),
`PositionsReachServer` (as long as the calls before the request succeed and the
context stays active), `FlagClearedWhenLost` and `LedTellsNetwork` (for a loss of
which a report was heeded), `KeepsRhythm` (for a status that begins in time),
`NoNeedlessReset` (with a server that may hang, outside Http_Post, also one that
would have returned), `TimerScoped` and the second half of `ReleaseOnLive` (until
a callback has outlived the stop of its timer).  What happens outside these
conditions is under Findings.

With `Preemptive` the properties `AckPresent`, `ReleaseOnLive` and
`NoAckOutsideCommand` do not hold: between OS_DeleteSemaphore and
`semCmdSending = NULL` (`gps.c:421-422`) GPS_Update still takes a message and
releases.  They are claimed for tasks that switch only where one blocks.  Nor is
a time-out then confined to its own command: `TimerScoped` says that its callback
has begun before the command returns, but between its two statements
(`gps.c:402-403`) the command may return through its time-out path and the next
one begin to wait, on the semaphore that the second statement then releases.
`AckPresent` also needs memory and acknowledgements that GPS_Update finds again
in `tmp`: an allocation that gives NULL after a first acknowledgement was
announced leaves a null pointer for the gps task.

## Fairness

`GpsCommand`: strong fairness of each task, because without time slices a ready
task waits until the other blocks and is then run; of UART events and the timer
callback, which the operating system queues for the main task.  An armed timer
expires (weak fairness).  Nothing is assumed of the chip.

`StatusLed`: the callback timer restarts itself (`app.c:1081`), so it is weakly
fair; so is the event loop.

`TrackerHttp`: the gps task, the event loop, time and a watchdog that is due are
weakly fair.  The calls of Http_Post that wait for the other side (DNS, connect,
send) are fair only when `ServerHangs` is FALSE, and so they are not in the run
`tracker`: there the watchdog alone keeps the gps task from being stuck.  select
has its limit of 12 s.  Nothing is assumed of the network or the server.

`GpsParse`: the task that parses is not starved.  `Agps`: every library call and
every command returns (`CommandReturns` of `GpsCommand`), select has its limit.
`Ntp`: the client's calls return and time passes; nothing is assumed of the
server, and an error of select is never forced.

## Proofs

For every value of the constants that satisfies the modules' assumptions and the
hypotheses named here:

**Ring buffer** (`BufferProofs`)

* `BufferTypeOK`, `BufferImplementsFifo` - the ring's types, and that it
  implements the queue.  The argument: the length and the elements of the
  represented queue are computed from `front` and `rear` without the remainder
  (`AheadLemma`, `StepLemma`); a put writes only free cells; a get only moves
  `front`.
* `QueryIsFirst`, `FrameIsWhole` - what Buffer_Query returns from any start
  inside the queue, and the frame length GPS_Update computes from a line end it
  looked for behind the header (`gps.c:111, 139, 172`).  The loop is a recursive function; that it
  exists (`ScanExists`) and keeps `ScanInv` (`QueryStepInv`) is shown by
  induction over the cells, stated with sets (`Induction`) because the provers
  cannot instantiate the library's induction theorems.  `ScanInv` says that the
  partial match agrees with the pattern, ends at the present cell unless it is
  complete, and that no occurrence begins before it.  A mismatch loses none
  because the first byte of the pattern does not recur.

**GPS driver** (`GpsCommandProofs`)

* `GpsTypeCorrect` - the driver's types.  It needs that the position a query
  returns exists (`FirstLemma`, from the well-foundedness of the naturals).
* `TimerIsScoped` - no command leaves its time-out armed or its callback queued,
  for every scheduler, until a callback outlives the stop of its timer.
  `TimerScoped` is not inductive: the time-out path returns without stopping
  the timer.  `TimerInv` adds that the flag is clear as long as the timer is armed
  or its callback queued, that never both are, and that the flag is clear until
  the timer is armed.
* `CooperativeSemaphore`, `CooperativeNoAckLeft` - `ReleaseOnLive` and
  `NoAckOutsideCommand` for `~Preemptive`.  `CoopInv` says which task runs at
  which place and what the semaphore is at each place of the gps task.
* `CooperativeAckPresent` - `AckPresent` for `~Preemptive`, `~MallocFails`, NMEA
  commands only and `Capacity <= FrameLength`.  `AckInv` says that whatever made
  the semaphore count is a message or the time-out, and that the header found in
  the queue is still in `tmp`.
* `TrueMeansItIsExecuted` - for every scheduler, assuming `Numbering`: GPD packs
  and the version query have command numbers of their own (as in the
  `GPS_CMD_t` of `gps.h`) and only GPD packs are numbered.  `HonestInv` follows
  an acknowledgement from the chip through the UART, the queue and `tmp` to
  `gpsAckMsg`: wherever one is that would be taken for a success, the chip has
  executed the request it names.
* `MisattributionNeedsTimeOut`, `OverwriteNeedsTimeOut` - for every scheduler.
  `OwnAnswer` says that, as long as no command has timed out, the answer to the
  present command is in at most one place (command, UART, queue, `tmp`,
  `gpsAckMsg`) and there is no other.  Neither property is inductive by itself:
  a second answer must be excluded wherever it could wait.

**Parser** (`GpsParseProofs`; every frame is a sequence of cells)

* `CountsThisFrame` - `TablesInv` relates the two frame numbers: they differ by
  the number of frames since the last one with a sentence, which
  `MaxEmpty + 2 <= FlagMod` keeps below a full turn.
* `EveryLineParsed` - `LineInv`: every whole line before `nmeas` has been parsed,
  no line parsed lies behind the next `$`, and without garbage `nmeas` is
  always the beginning of a line.  That then each line was parsed once is a
  count of elements.
* `ReadIsReported` - an action property.  `PositionInv` says what the two
  coordinates are between the four writes of a sentence.

**Field scanner** (`MinmeaProofs`)

* `FieldsRead`, `PrecisionIsTruncated`, `DegreesAreOfText` - what minmea_scan
  reads and gps_testTask makes of it, from one invariant.  `FieldInv` relates the
  locals to the text read so far: `value` is the number with the decimals kept
  (`Kept`), between its integer part times the scale and the next integer times
  the scale; `scale` differs from the power of ten by a multiple of the range of
  an int and is the power itself where it fits.  The parts of the text after one
  character more are computed from those before (`Grow`, `ShownAppend`); the
  numbers of the text are recursive functions, whose equations are shown by
  induction stated with sets (`Induction`, `Recursion`).  One lemma per kind of
  character.  That the degrees do not overflow rests on the bounds of `Kept`
  (`DegreesPositive`).
* `FieldsRead` assumes `ScaleNonzero`: no power of ten with as many decimals as a
  field is long is a multiple of the range of an int.  For 32 bits it holds of
  fields of up to 31 characters.  The other two need no hypothesis.

**Main task and LED** (`StatusLedProofs`)

* `LostClearsFlag`, `LedFollowsNetwork` - `FlagClearedWhenLost` and
  `LedTellsNetwork` speak of an empty queue and are not inductive.  `LostInv` says
  that after a reported loss every activation in the queue is followed by a
  SEARCHING, and that one still waits as long as the flag or the LED has not seen
  it; `ActiveInv` says the same of an active context and its ACTIVATED;
  `FlagsInv` that with both flags set the status is LED_SYS_ON.  What taking and
  posting do to such an order is shown once for any two events (`TakeFollows`,
  `PostFollows`).

**Tracker** (`TrackerProofs`)

* `TrackerTypeOK` - the types of `Tracker`, of the composition with Http_Post.
* `HttpNothingLeaks` - the exchange.  `HoldsInv` says at
  which of its places it has the socket and the block, and that it runs only
  while the gps task is at `post`, which only its return leaves.
* `CrediblePosts` - `PostsOnlyCredible`, assuming `Positive` coordinates.  The
  property is not inductive, because Check keeps the old `falseGPS` when there is
  nothing to compare with.  `AnswerInv` adds that without a known previous
  position `falseGPS` is true; it needs that the initial zeros are gone when the
  loop runs.
* `WatchDogBitesInWaits` - `NoNeedlessReset`, assuming sleeps shorter than the
  limit.  `DogInv` bounds the ticks since the last feeding by the sleep.  It is
  stated with `ServerHangs`: a first round that begins just before the limit may
  be cut off in any Http_Post.

All but `HttpNothingLeaks` are proved of `Tracker` and carried over to
`TrackerHttp` by `HttpRefines`.

**Assisted GPS** (`AgpsProofs`)

* `AgpsChipBack`, `AgpsLeakConfined`, `AgpsDownloadWhole`, `AgpsPacksStored` - the
  safety properties of GPS_AGPS, from one invariant: the chip is in binary format
  only at the three places between the switches, the socket is open only in
  Http_Get, and the packs before the `i`-th are stored.  That these are all packs
  of the file follows from `i * Pack > gpdLen` for every length of a pack.

**NTP** (`NtpProofs`)

* `SocketReleased` - from the places at which the socket is open.
* `TimeIsUtc` - assuming `NotFarBehind`: the local clock is behind by less than
  half the range of the stamps (68 years), with the two time limits of an
  exchange to spare.  Further behind, the sum of the two differences exceeds the
  range and its half is wrong.  `TimeInv` bounds the server's stamps by the UTC
  of request and answer; `ClocksAgree` is the unsigned arithmetic.

The inductive invariants were checked by TLC on the instances of the runs before
they were proved.

Only model-checked: the liveness properties and what rests on fairness
(`CommandReturns`, `EventsArePolled`, `KeepsRhythm`, `NeverStuck`,
`PositionsReachServer`, `ParseReturns`, `AgpsReturns`, `NtpReturns`), which are
out of the prover's reach.

## Findings

Each of these has a run that TLC refutes:

1. `gps.c:108` - `VTG` without its line end: GPS_Update never returns
   (`gps_vtg_spin`).
2. `app.c:908` - west of Greenwich or south of the equator nothing is posted
   (`tracker_west`).

Behaviours of the models that a reader should know of, without a run of their
own:

* `gps.c:157` - a header beyond the 1024 bytes of `tmp` is not found: arithmetic
  on NULL.  The same happens when a binary acknowledgement, which contains zero
  bytes, precedes an NMEA one: strstr stops at the zero.
* `gps.c:100` - a queue that is full and holds neither `VTG` nor an
  acknowledgement is never emptied: everything is dropped until a command clears
  it.
* `gps.c:403` - the time-out callback releases whatever `semCmdSending` is when it
  gets there.  Under preemption, or when it was queued before
  OS_StopCallbackTimer and is not taken back, that is the semaphore of the next
  command, which is then reported as timed out; and since the time-out path does
  not stop the timer, that command leaves its own timer running.
* `gps.c:158` - a second acknowledgement (the late answer to a command that
  timed out, then the answer to this one) overwrites the pointer to the first,
  whose block is never freed.
* `gps_parse.c:152` - garbage before a `$` makes the next search begin inside the
  sentence just parsed or before it: a sentence may be parsed twice, and a GSA or
  GSV then takes two entries.  Nothing is passed over.
* `gps_parse.c` - an array entry that this frame does not fill keeps the previous
  frame's (`gsa[1]` when there is one GSA sentence).  After 255 frames without a
  sentence the frame number comes round and the counts are not set back.
* `minmea.c` - an RMC sentence without checksum (cut, its line end from another
  sentence) is accepted: its latitude is stored, its longitude is the old one.
* `app.c:868` - under a preemptive scheduler the gps task may read a new latitude
  with an old longitude, or a coordinate without its sign.
* `minmea.c` - the scale of a number below one with more than nine decimals
  overflows; `.-5` is read as -0.5.  Behind as many decimals as an int has bits
  (32) the scale is 0 again, and a second point is taken.
* `app.c:1008` - a status that begins when the counter is past its values stops
  the LED for good, because the counter is compared for equality.
* `app.c:697` - when the server closes the connection without an answer, the
  receive loop spins; only an error or the watchdog ends it.
* `gps.c:784` - a segment shorter than 1352 bytes is taken for the end of the
  download, and a response of whole segments ends in the time-out.
* `gps.c:933` - one pack too many is sent, from behind the file.  The buffer is
  long enough for it only if header, padded file and 512 bytes fit into 5120.
* `gps.c` - four returns of GPS_AGPS after the download do not free its buffer; a
  format command whose acknowledgement was lost leaves the chip in its binary
  format.
* `ntp.c` - the correction is halved as an unsigned number: when the local clock
  is ahead, or the answer arrives in a later second of a clock that is right, the
  result is wrong by 2^31 s.  The return for a name that cannot be resolved
  leaves the socket open.
* `app.c:908` - once a position was credible, a position with a negative
  coordinate leaves the check's last answer in force, so the next position is
  posted however far it is.  `PostsOnlyCredible` is therefore checked for
  positive coordinates.
* `app.c:942` - positions without a fix are posted (`USE_GPS_FIXED` is 0).
* `app.c:161` - a loss that is reported only by REGISTER_NO, REGISTER_DENIED or
  DEREGISTER leaves `networkFlag` and the LED as they were.
* `app.c:1176` - with the GPS off LED_NO_NETWORK stays when the network returns,
  until an `open`.
* `app.c:266` - the UART command `open` starts the GPS before GPS_Init; bytes that
  arrive before it meet a ring of size 0 (`buffer.c:110`), a remainder by zero.
* `app.c:897` - a missing IMEI is an assertion: the tracker restarts in every
  round, though only the request's text needs it.
* `app.c:237` - a lost packet data context is never asked for again, and a failed
  attach or activation after a new registration (events without a case) is not
  tried again: only another registration or a restart brings the connection back.
  `PositionsReachServer` therefore speaks of a context that stays active.

## Plan

* Models: Buffer calls that overlap under preemption, should the scheduler of the
  SDK turn out to be preemptive.

Not modelled: vendored libraries (`libs/aliyun`, `cjson`, `lcd`, `lvgl`, most of
the repository's lines), the SDK demos, headers and binaries, which are not the
tracker's code; floating-point helpers and program start; MPU_Init, a straight
sequence of register writes that nothing reads; the log file on the TF card (its
result is ignored); the field types of minmea other than `f` and the sentences
other than RMC, whose results nothing here reads; PM_Voltage, which only fills the
request's text.
