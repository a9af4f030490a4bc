# A verification of the mPMT test stand software

The repository holds the software of a two-axis gantry for testing photomultipliers: the
firmware of an Arduino Due that drives the gantry (`src/firmware`), the serial protocol between
it and a Linux host (`src/shared`, `src/shared_linux`), and two MIDAS frontends on the host,
`feArduino` (moves, calibrations, temperatures) and `feScan` (a grid of points, a measurement at
each). This directory holds TLA+ modules that model them, TLC configurations that check the
models on small instances, and proofs, checked by TLAPS, of what holds for every instance.
`PROJECT.json` maps each definition to the lines it models and lists runs, mutants, hazards and
theorems.

## 1. Inventory

| Part | State | Operations | Talks to |
|---|---|---|---|
| Kinematics (`Kinematics.cpp`) | none | `generate_vel_profile` | called by `axis_start` |
| Axis (`Axis.cpp`) | `AxisState` (volatile, shared with interrupts), current motion, two timers, direction pin | `axis_start`, `axis_stop`, `axis_reset`; five interrupt handlers: encoder, PWM step, acceleration, home switch, far switch | hardware; main loop |
| Timer (`Timer.cpp`) | timer registers | start, stop, set frequency | axis |
| Main loop (`mPMTTestStand.cpp`) | `status`, `home_a_done`, calibration | `execute`: status update, then at most one message | two axes; serial session |
| Serial transport (`SerialTransport.cxx`) | segment, index, length, `msg_in_progress`, message buffer | `send_message`, `check_for_message`, `recv_message` | serial device |
| Session and requests (`SerialSession.cxx`, `TestStandComm*.cxx`) | one message buffer | send and wait for ACK; receive and ACK; request and reply | transport; frontend; main loop |
| Handshake (`setup()`, `arduino_connect`, `connect_to_arduino`) | where each side is in it; the id of the last message; a message half read | ping loop; open the port, poll, flush, link check | session |
| Serial devices (`LinuxSerialDevice`, `ArduinoSerialDevice`) | the line; the clock | open (resets the board), flush, `platform_millis` | transport |
| MessageTerminal (`MessageTerminal.cxx`) | none of its own | connect, one request per command, reset, exit | session; user |
| Gantry frontend (`feArduino.cxx`, `ArduinoHelper.cxx`) | database keys, calibration values | callbacks on three keys, periodic event, run transitions, init and exit | session; operator |
| Scan frontend (`feScan.cxx`) | list of points, current point, four flags, measurement timer | `begin_of_run`, `end_of_run`, `frontend_loop`, event readout | Move equipment, by database keys |
| Move equipment | database keys | accept or refuse a request, move | not in the repository |
| PseudoGantry (`PseudoAxis.cpp`, `main.cpp`) | per axis: counter of changes, position, two switches, output pins | an edge of the step signal; reset at the end of setup | the firmware, as the gantry it drives |
| Temperatures, web pages, scripts, debug output | - | - | - |

What is hard about them, and what makes each part correct:

- **Axis.** Interrupt handlers share a record with the main loop, and `axis_start` writes it, and
  starts the timers, in six steps without masking them. Correct means: the `moving` flag tells
  what the timers do, the motor never runs towards a switch that is recorded as pressed, the
  encoder count is where the carriage is although its sign comes from a field, the targets of the
  three segments do not drift although each one is overrun, arithmetic that wraps at 32 bits does
  no harm, and motions end.
- **Kinematics.** Squares of velocities overflow and distances are rounded. Correct means: the
  segments add up to the distance asked for and none of them runs backwards.
- **Main loop.** Homing is a routine of two parts that spreads over turns of the loop, while
  commands come and axes stop on their own. Correct means: `IDLE` and `FAULT` mean that nothing
  moves, homing never drives back into the switch it leaves, ends, and leaves the origin at the
  edge of the switch.
- **Transport.** Frames without escapes, a CRC that is not checked, timeouts in the middle of a
  frame. Correct means: no write behind the buffer, and messages in order once the line is quiet.
- **Session.** Neither messages nor ACKs are numbered, and each side has one buffer for both.
  Correct means: success is only reported for what was carried out, and the two sides find
  together again after a loss.
- **Handshake.** The controller pings until it is acknowledged, a host polls for a ping and takes
  it half read or whole, either side may restart, and the two host programs leave their loops on
  opposite results of one call. Correct means: waiting for the board ends, and a host that
  believes itself connected has a controller that serves it.
- **PseudoGantry.** It makes 5 encoder pulses of 8 steps by skipping some changes of the step
  signal, stops at switches that lie beyond the ends, and is reset while interrupts are on.
  Correct means: the ratio never drifts, and the axis is to the firmware what a carriage is.
- **Gantry frontend.** A move is three requests and a calibration seven, each may fail or be
  carried out with its answer lost, and the gantry moves in between. Correct means: a move that
  was answered with success ends where it was asked to; an update reported as done is whole; a
  response belongs to the request; an event that says `IDLE` holds a position of rest.
- **Scan frontend.** It sees the end of a move only as the absence of `Moving`. Correct means:
  the grid is visited once, measurements are taken where they are recorded, runs end.

`PROJECT.json` lists the single hazards under `hazards`, each at its line with its properties.

## 2. Modules

| Module | Models | Extends, uses |
|---|---|---|
| `Kinematics` | 32-bit arithmetic, `generate_vel_profile` | |
| `ProfileCalls` | every call of it, as a specification of two steps | `Kinematics` |
| `AxisState` | the axis record and the functions of `Axis.cpp` that change it | `Kinematics` |
| `Axis` | one axis: handlers, the cut `axis_start`, carriage and debounced switches | `AxisState` |
| `AxisModel` | what the main loop relies on of an axis | |
| `AxisContract` | the abstract specification of one axis | `AxisModel` |
| `AxisRefinement` | `Axis` implements `AxisContract`: the mapping | `Axis`, instance of `AxisContract` |
| `TestStand` | `execute()` over two axes of `AxisModel` | `AxisModel` |
| `SerialTransport` | one direction of the line, byte by byte | |
| `SerialLink` | one exchange: requests, ACKs and replies, message by message | |
| `Session` | a connection: handshake, link check, requests, disconnection, restarts | `SerialLink`, instance of `RequestContract` |
| `RequestContract` | the abstract specification of a request | |
| `ReceiveWait` | the clock of `recv_message` | |
| `Frontend` | the gantry frontend over requests that fail as `RequestContract` allows | |
| `Scan` | the scan frontend over the keys of the Move equipment | |
| `PseudoAxis` | one axis of the simulated gantry | instance of `Carriage` |
| `Carriage` | the abstract specification of a gantry axis, as the firmware expects it | |
| `MCAxis`, `MCSerialTransport`, `MCFrontend`, `MCScan` | values for TLC | |
| `Kinematics_proofs`, `Axis_proofs`, `TestStand_proofs`, `SerialTransport_proofs`, `Session_proofs`, `PseudoAxis_proofs`, `Frontend_proofs`, `Scan_proofs` | theorems; each extends the module it is about, `Kinematics_proofs` extends `ProfileCalls` | |

The layers meet in their abstractions. `Axis` is shown to implement `AxisContract`, call by call
(`Start`, `Stop`, `Reset`) and event by event (`Finish`, `Advance`, `Home`, `Far`, `FarOpen`):
what ends a motion without a call is a switch, or `Finish`, which an `endless` motion (one longer
than the rail) does not have. `TestStand` is built on the same view of an axis (`AxisModel`), its
`AxisStep` has exactly those events, and its homing rests on their guards; it allows `Advance` less
often, as its debouncing is bounded (`EdgeInTime`). Until a fault `SerialTransport` delivers whole
messages in order. After one it may lose messages, and as the CRC is not checked it may also
deliver damaged ones, or take bytes of the data for a frame, until the line is quiet;
`SerialLink` starts from the messages delivered or lost, and abstracts from the damaged ones:
it takes them for lost. `Session`, which
has `SerialLink` for its exchanges, is shown to implement `RequestContract`: a request gets one
answer, may be carried out and yet fail, and success means that it was carried out, which is the
outcome of a request in `Frontend`; `PseudoAxis` is shown to be a `Carriage`, which is the
environment of `Axis`. Definitions that begin with "Mutated form" are variants
of the definition that follows them with a plausible mistake; they are not part of any
specification, and each shows that a property can be broken.

How state and actions correspond to the code:

- **`AxisState`, `Axis`.** The record `ax` is `AxisState` with `motion_spec`, the profile, and
  whether the two timers run (`pwm_on`, `accel_on`) and the level of the direction pin. All
  handlers run at one interrupt priority, so each is one step. `axis_start` is `Start` (checks and
  profile) followed by one action for each write that a handler can come before: `moving`, target
  and velocities, `dir`, pin, PWM timer, acceleration timer. Writes to the target, the segment and
  the velocities are one step: no handler reads them before `dir` and the timers are set, as the
  timers are stopped then. `axis_stop` is one step, as its writes all point the same way. The
  environment moves the carriage one count per pulse while the PWM runs and debounces the switches
  (an edge may come any time after the carriage has passed the switch). `zero`, `origin` and
  `raced` are history: where the count is zero, the count at the start of the motion, and whether
  a switch has interrupted `axis_start` since power-on.
- **`TestStand`.** `at` alternates the two parts of `execute`, so that axes move between a status
  update and a command. `Nothing` stands for no message and for messages that only ask for data.
  Homing asks for `INT32_MAX` counts; whether such a target is out of reach depends on the sign of
  the count, hence `HomingStart`. `leaving` is history.
- **`SerialTransport`.** `pending` and `msg` are the receiver's fields, one action per segment of
  the `switch` in `check_for_message`. Bytes may be lost or changed, and frames cut (a failed
  `ser_write`), up to `MaxFaults`. `sent`, `delivered` and `aligned` are history since the last
  frame that was sent over a quiet line.
- **`SerialLink`.** `host` and `controller` are where the two programs wait. A message carries
  whether it belongs to the present exchange (`now`), which only properties look at. Timeouts are
  long against the line: a timeout while an answer is under way is a fault of its own (`late`).
  Failed writes and payloads are not told apart from a lost message.
- **`Session`.** `program` is the host program, `phase` where it is between opening and closing the
  port, `setup` where the controller is in `mPMTTestStand::setup` (`ping`, `wait`, `delay`) or `up`.
  `partial` is `msg_in_progress` at the host: the head of `to_host` is half read, and may or may
  not have given its id; `pinged` is the test of `received_msg().id` that the polling loops make.
  Opening the port resets the board, and drops what is on the line. `Restart` is a board that
  loses its power under an open connection; `Open` after `failed` is a new process. A controller
  without a host pings for ever, and what it writes to a closed port is gone. `since` is history:
  the faults since the port was opened.
- **`ReceiveWait`.** The wait of `recv_message` with the widths of its variables: `platform_millis`
  of 64 bits on the host and 32 on the controller, `time_start` of 32.
- **`PseudoAxis`, `Carriage`.** `Edge` is `isr_motor_pulse` with the `toggle_encoder_output` it
  calls; `MissedEdge` is the debouncing of `main.cpp`; `Settle` is `reset_pseudo_axis` at the end of
  `setup`. The firmware is the environment: it steps, turns round, and counts rising edges. A
  position between the ends is a place of the carriage, and each switch is a place beyond them.
- **`Frontend`.** One thread: `pc` is where it is between two requests, and the gantry moves
  there. Outcomes of a request: carried out or not, answered or not. Whether given velocities can
  be made into a profile is a free choice. A moving axis runs up to `Overshoot` counts past its
  target, as `Axis` does between two segments, and may stop anywhere there. The database itself
  does not fail, and temperatures are left out. `Patient` says that the operator writes a request
  only when the last one has been reset, as README.md of the repository describes it.
- **`Scan`.** One action per way through `frontend_loop`; the Move equipment is environment. The
  sleep of half a second after a request (`feScan.cxx:409`) tests nothing, so it is only time in
  which the Move equipment may or may not take its steps: the loop may go on before the request
  has been noticed, take the absence of `Moving` for the end of the move, and begin to measure.
  The loop's reading of `Moving` and what it does on it are one step, its request of the next
  move included. `still`, `measured` and `missed` are history: whether no move has begun
  since the measurement did; where measurements were made with the gantry at rest from their
  start to their end; and the points the code loses, of which the move was refused, or not seen by
  the loop before a measurement begun too early had ended.

## 3. Runs

| Run | Instance | Shows |
|---|---|---|
| `profile` | 4-bit words, every argument: 262144 states | `SegmentsCoverDistance`, `ProfileIsTrapezoid` (no segment runs backwards, braking has room), `AccelDistanceIsExact` without overflow |
| `axis` | 4-bit words, two steps to a count, rail of four positions with a switch at each end, three motions either way (of 3 counts; of 4, longer than the rail; of `INT32_MAX` with a hold velocity below the start velocity): about 1800000 states | types; `MovingMeansDriven`, `NeverIntoPressedSwitch`, `EncoderTracksCarriage`, `MotionOnPlan`, `FullDistance`; the contract is implemented; motions end |
| `stand` | two axes, rail of six positions with room past both switches, three commands: about 100000 states | `IdleMeansStopped`, `HomeBLeavesSwitch`, `OriginAtHomeEdge`, `HomingEnds` |
| `transport` | bytes 0..3, two of them delimiters, two messages, three sends, one fault: about 850000 states | `ReceiverSound` (indices in bounds, `msg_in_progress` true), messages in order, all arrive |
| `link` | `Session` with both host programs, four requests, up to two faults of four kinds (a message lost either way, a late answer, a restart of the board), three messages on the line: about 363000 states | `NoFaultNoError`, `HandshakeSound`, `WaitsEnd`, `LinkRecovers`, and `ImplementsRequest` |
| `scan` | 18 grids up to 3 by 3 with steps 1 and 2, a list of 5 points at most (100000 in the code), two runs, moves refused or noticed late: about 388000 states | `WalkCoversGrid`, `MeasuresAtPoint`, `EndMeansAllMeasured`, `RunEnds` |
| `frontend` | three destinations, two pulleys, overshoot of one count on a rail of four, two requests, one lost message, one restart: about 1640000 states | `EndsAtDestination`, `CalibrationWhole`, `IdleEventIsRest` |
| `pseudo` | 5 counts for 8 steps, an axis of two counts, three sets of changes, one dropped edge: about 313000 states | `RatioKept`, `SwitchesShown`, `ImplementsCarriage` |
| `axis_moving_flag` | | refutes `moving`: "true if the axis is currently moving" |
| `stand_home_b` | | refutes "until the home limit switch is released" |
| `scan_last` | | refutes "Terminate the sequence once we have finished last move" |
| `receive_wait` | clocks of 8 and 64 values for 32 and 64 bits | refutes "until timeout_ms has elapsed" |

Why the bounds are enough. A word of 4 bits wraps in every operation that wraps at 32, and the
proofs hold for every size. The rail lets a carriage leave and reach both switches and
overrun each segment; with two steps to a count velocities are rounded (a start at 3 steps and a
hold at 2 are both one count, which `axis_start` accepts). Three commands let HOME, STOP and MOVE come inside one homing. Three frames
are one damaged, one in which the receiver is still out of step, and one after; the alphabet holds
each delimiter as an id and in a payload. Two faults of a connection are two of
one exchange, of the handshake and an exchange after it, or of two exchanges; three messages are
what an answer that comes late leaves on the line besides an exchange; of the requests two
have a reply (`ECHO`, `GET_STATUS`), one has none (`STOP`), and one is acknowledged and never
answered (`GET_AXIS_STATE`). Two runs let one begin while the move of the other is under way; a list of 5
points cuts the three largest grids, two of 6 and one of 9, and takes all the others. Two requests
let one come while the other is served. A set of changes is 16 edges; the third set begins as the
second did.

`CHECK_DEADLOCK FALSE` stands where a bound stops the system: calls return once, sends, runs
and requests are counted. `Axis`, `TestStand`, `Session` and `PseudoAxis` never stop.

Fairness. In `Axis`, writes of a started `axis_start` follow, a debounced edge arrives (a level
that stays is reported after 50 ms), and a running timer fires if its frequency is not zero: a
timer set to zero need not, and `MotionEnds` excludes such motions. In `TestStand`, the loop runs
for ever, driven carriages move and edges arrive; that a motion ends on its own is not assumed. In
`SerialTransport`, bytes handed to the device arrive and the receiver polls. In `Session`, each
program goes on (`WF` on `HostStep` and on `ControllerSide`), reading what there is or timing out:
a wait is ended by its timeout, which the code takes from a clock. `PseudoAxis` is safety only. In
`Scan`, the frontend is polled by MIDAS, events are read, time passes, and the Move equipment
notices requests and ends moves (it may refuse any of them). Opening and closing a port, stopping
a run, sending commands and every fault are never fair.

### What the properties except

Some properties hold but for states in which the code itself promises nothing. A hazard that
falls wholly into such an exception is listed in `PROJECT.json` without the property, one that falls
into it in part with a note of what is left out:

- `raced` (every property of `Axis` but its types, with the contract): a switch has interrupted the
  writes of `axis_start`. `MovingFlagIsTrue` is refuted by it; the stale check of the switches
  (`Axis.cpp:238`) is inside it. In `TestStand` and `Frontend` a start is one step, so both are
  about axes for which it has not happened.
- `MotionEnds` excepts motions with acceleration or start velocity zero, whose timer may never fire
  (`Timer.cpp:88`), and `TestStand` leaves out such calibrations.
- `aligned` (`InOrder`, `AllArrive`): from a fault until the line is quiet.
- `Sound` (`ImplementsRequest`, `LinkRecovers`): from a late answer or a restart until the port is
  opened again. `HandshakeSound` excepts the terminal after a fault, and a frontend that took half a
  PING for a whole one. `WaitsEnd` holds in all of these.
- `settled`, `Patient` (`EndsAtDestination`): a position read while the axes move, and an operator
  who does not wait; without either exception the property is false.
- `missed` (`MeasuresAtPoint`, `EndMeansAllMeasured`): the points named above. That none is missed
  takes two things of the Move equipment: it accepts every request, and it notices a request, and
  is seen moving, within the sleep of 0.5 s and the measurement of 1 s or more that follows. A
  measurement begun too early is then repeated when the move has been seen, which both properties
  check.
- `missed` edges and `pressed_early` of `PseudoAxis`: an edge dropped for its speed, and a reset on a
  switch.

### What the runs refute

- `MovingFlagIsTrue` (`Axis.cpp:283`): a switch that interrupts `axis_start` between `moving = true`
  and the timers stops timers that do not run; the rest of `axis_start` starts them with `moving`
  false, and nothing but another switch or a stop ends the motion.
- `HomeBReleasesSwitch` (`mPMTTestStand.cpp:94`): results of `axis_start` are ignored in the second
  part of homing. A refused start, for instance because the far flag is set for ever after one
  press (`Axis.cpp:211`, the far switch interrupts on one edge only), ends homing at once, as a
  success, on the home switch.
- `NoMoveAfterLast` (`feScan.cxx:388`): the bound is tested before the increment, so the loop reads
  one point past the list and requests a move to it.
- `WaitsForTimeout` (`SerialTransport.cxx:117`): `time_start` keeps 32 bits of a clock of 64, and the
  comparison is made in 64. A computer that has been up for more than 2^32 ms (some 50 days)
  ends each wait at its first look at the line; so does a board in the wait during which its own
  clock wraps.

Seen while modelling, and in the models, but without a run of their own:

- Axis and main loop: `ls_far_pressed` is never cleared; a home switch held at power-on is not seen
  (`setup_axis` reads no level); the check of the switches is stale when the motor is started
  (`raced` marks it); homing from a negative count wraps its target (`HomingStart`); the test for
  `FAULT` after a move looks at the far switch of X twice and never at that of Y
  (`mPMTTestStand.cpp:216`, `EndMove`); `EndOfMotion` can wrap for a motion near `INT32_MAX`.
- Session: an ACK that comes after its timeout acknowledges the next message, which may have been
  lost (`SerialSession.cxx:126`); this is why the promises of `RequestContract` end with a late
  answer. `arduino_connect` (`ArduinoHelper.cxx:200`) takes `SERIAL_OK_NO_MSG` for a message, so a
  half-read PING ends its loop and the link check that follows is refused (`LinkCheckRefused`).
  If the terminal's ACK of a PING is lost, the terminal believes itself connected while the
  controller pings for ever, and every command ends without an ACK (`MessageTerminal.cxx:230`;
  `HandshakeSound` has this exception, and `LinkRecovers` assumes that the controller is up).
- Frontends: the displacement of a move comes from a position read earlier (`ArduinoHelper.cxx:234`),
  so an axis that moved then goes elsewhere with a response of success (`settled` in
  `EndsAtDestination`); with an operator who does not wait (`Patient` false) a response of success
  can be left standing for another request; a key set while `feArduino` is down is never served;
  a move the Move equipment refuses, or notices too late, is taken for finished (`missed`);
  a grid of more than 100000 points is cut without a word (`feScan.cxx:218`), and its run ends like
  any other (`EndMeansAllMeasured` excepts it).
- PseudoGantry: `reset_pseudo_axis` clears the switches without writing their pins (`pressed_early`).

Seen while reading, outside the models: `VEL_MAX` (`Axis.cpp:32`) is compared with nothing, while the
simulated gantry drops edges that come faster than 100 us; a pulley diameter of zero divides by
zero (`ArduinoHelper.cxx:115`); a negative temperature is decoded as an unsigned word
(`TestStandCommHost.cxx:89`); `help_specific` of MessageTerminal prints the help of an unknown command
through a null pointer; `PseudoGantry/src/main.cpp` never makes its switch pins outputs, and
attaches its interrupts before it initialises the axes.

## 4. Theorems

All proofs are checked by TLAPS with its SMT, Zenon and LS4 backends; eight modules hold them.

- **`Kinematics_proofs`**: type correctness, `SegmentsCoverDistance`, `ProfileIsTrapezoid`
  (`Trapezoid`) and `AccelDistanceIsExact` (`ExactDistance`) for every word size. The invariant is
  `Shaped`: an accepted profile is up, hold, down with up at most half the distance. It comes from
  two lemmas about `generate_vel_profile` (`AccelDistanceIsHalfWord`, `ProfileShape`): an
  acceleration distance that overflowed is cut to half of the total, so no overflow survives.
  `ExactDistance` says what the distance is when nothing overflowed: the last one at which the
  velocity has not passed the one asked for, or half of the total. Assumption: `HalfRange >= 2`.
- **`Axis_proofs`**: type correctness and every safety property of the run `axis`, with the
  refinement, for every rail, word size, set of motions and gear. None is inductive alone. The
  inductive invariant `IInv` adds, as long as no switch has interrupted `axis_start`: `Control`
  (which of `moving` and the timers is set at each point of `axis_start`), `Clear` (no recorded
  switch in the direction of the motion in progress), `Aligned` (the `dir` field is the
  direction pin while the motor runs, so an encoder pulse is counted with its sign), `Tracks` (the
  count is the carriage), and `Planned` (the profile is that of the motion). `KeepsToPlan` rests
  on modular arithmetic (`I32Shift`, `I32Absorb`): the correction `target - current` cancels
  the overrun also when both wrap. `FullDistanceCovered` follows with `ProfileEnd`. `MeetsContract` maps
  each call to the action of `AxisContract` with its name and each interrupt to one of its events, or
  to a stutter. Only a call may stop a motion as it likes, so that the acceleration timer
  stops it needs `CanFinish`: that a motion longer than the rail cannot run out (`EndsWithinRail`)
  takes one more invariant, `OnRail`: a motion begins at a place of the rail. Assumptions:
  the rail is shorter than half a word, and the two switches are apart.
- **`TestStand_proofs`**: type correctness; `StatusMachine`, the conjunction of `IdleMeansStopped`
  and `HomeBLeavesSwitch`, is inductive (a lemma says that no step of an axis starts it);
  `OriginIsHomeEdge` rests on `HInv`: a carriage is never more than the debounce distance past
  a switch whose edge is still to come, and an axis on its way off the home switch can be ended
  by its home switch only. Assumption: the home edge is seen before the far switch is
  reached (`DebounceAssumption`).
- **`SerialTransport_proofs`**: everything safe that the run `transport` checks, for every alphabet,
  set of messages and number of faults. Type correctness and `ReceiverSound` come from `RxInv` on the
  receiver alone: it does not matter which bytes arrive. `MessagesInOrder` (`InOrder`) needs
  `Stream`: each byte under way has its place in the frame of a message that was sent, frames follow
  each other in the order of their messages, and the receiver waits for exactly the first byte under
  way and holds what it has read of that frame. The lemmas say what sending does to the places
  (`FrameSend`), what is left of them when a byte is read (`FrameTail`), and that the receiver goes
  through a frame segment by segment, delimiters in the data included (`ReadFrame`). Assumptions: the
  delimiters differ from each other, and the data of a message is no longer than a byte can say.
- **`Session_proofs`**: everything safe that the run `link` checks, for every set of requests and host
  programs, line length, and number of faults. The invariant `IInv` is `Types`, `Places` (which places of
  the two programs go together), `HeardMeansUp` (a connected host is served, but for the one lost
  ACK), `SoundLink`, `Lossless` and `FailsForReason`. `SoundLink` says of a connection without a late
  answer or a restart what each message on the line belongs to: at most one request and one reply of
  the present exchange are under way, and what an earlier exchange left is not taken for an answer.
  `Lossless` is the same without any fault, where every wait has its message coming; `NoFaultNoError`
  and `HandshakeSound` follow, and neither is inductive alone. `MeetsContract` is the refinement
  `ImplementsRequest`: each step of a session is a step of `RequestContract` (`Ask`, `CarryOut`,
  `Answer`, `Refuse`, `Spoil`, `OpenAgain`) or a stutter, `OwnReply` included.
- **`PseudoAxis_proofs`**: everything the run `pseudo` checks, for every ratio, length of the axis and
  number of edges and misses. `SwitchesShown` needs `AtSwitch` (a pressed switch means the position
  next to it) and `Outputs`; `ImplementsCarriage` needs `InStep` (channel A keeps the
  level of the last change copied, as long as no edge was missed) and `AtSwitch`; `RatioKept` follows
  from `EncoderInv` and `Ahead`, which give what the encoder is ahead at each count of the changes:
  it is zero again at the end of a set. Assumption: `COUNTS` is between 1 and `STEPS`.
- **`Frontend_proofs`**: everything the run `frontend` checks, for every set of destinations and
  pulleys, rail, overshoot and number of requests, lost messages and restarts.
  `CalibrationIsWhole` needs `Updating` (the keys before the one in hand hold the values of the
  update that runs, and nothing is reported meanwhile) and `Layered` (no key is newer than the one
  before it, nor than the update that runs: the first failure ends an update, and the next begins
  at the first key). `IdleIsRest` needs `Resting`: a status of
  `IDLE` that was read is still true when the position is read, because only the frontend sets off
  motions. `MoveEndsAtDestination` needs `Course`: from the reading of the position until the axes
  rest, each axis either waits where it was read, is on its way to the count asked for, or stands
  within the overshoot of it; and assumes `Patient`, without which the property is false. That
  half a count is lost at most is `Rounding`, about `mm_to_cts`.
- **`Scan_proofs`**: everything safe that the run `scan` checks, for every set of grids and length of
  the list. `WalkIsComplete` (`WalkCoversGrid`) solves the recursion that builds the list: `Spot`, a
  quotient and a remainder by the points of a row, begins where the loop begins (`SpotFirst`) and goes
  on as its body does (`SpotNext`), so it is the loop's route (`RouteIs`: of the numbers at which the
  two differed there would be a least one, and it is neither 0 nor a successor). Each number is one
  place (`SpotUnique`), each place of the grid has a number (`SpotReaches`, `GridIs`), and the next
  number is a neighbour (`SpotNeighbour`), for steps that fit the distances and steps that do not.
  `MeasuredInPlace` comes from `Shape`, `Progress` and `Bound` (where the request, the gantry and
  the loop are with each other, in every order of their steps); `EndMeasured` from `Toured` (each
  point before the current one has been measured or missed) and the walk. Assumption: steps are
  positive (with a step of zero `begin_of_run` stays in place until the list is full).

Only model-checked: liveness (`MotionEnds`, `HomingEnds`, `AllArrive`, `LinkRecovers`, `WaitsEnd`,
`RunEnds`), since liveness under fairness and `ENABLED` are beyond the prover; and the four
refutations, each a behaviour of a small instance, `ReceiveWait` among them.

## 5. Not modelled

Temperatures and their decoding (stateless formulas on which no decision depends); the calls of
the operating system behind the serial devices; the reading and printing of MessageTerminal's
commands, of which each is one request; `dump_data` of PseudoGantry; debug output, web pages and
scripts. Failures of the database are left out in both frontends: there they end a transition or
leave a value as it was. The axis number of a MOVE, which the main loop uses as an index without a
test (`mPMTTestStand.cpp:113`), is one of the two axes, as every host program sends it. Lengths in
`Scan` are whole numbers of a unit: the rounding of `float` sums, which can drop or add a last column
or row when the step is not exact in binary, is left out.

## 6. Plan

Done: all of the modules and proofs above; every invariant and safety action property of a passing run is
a theorem. What is left: failures of the database in `Frontend` and `Scan`.
