# Verification of the Thinker X400 firmware stack

This directory holds TLA+ specifications of parts of the Eryone Thinker X400
software, the TLC configurations that model-check them, and TLAPS proofs about
them.  The repository is a fork of Klipper (`src/klipper`) for a printer with
two micro-controllers on a CAN bus (an STM32F407 main board and an RP2040 tool
board), with Moonraker (`src/moonraker`), KlipperScreen (`src/screen.py`,
`src/ks_includes`, `src/panels`), a cloud client (`src/farm3d`), configuration
and shell scripts (`src/config`, `src/all`).

`PROJECT.json` maps every definition to the lines of the code it models, lists
the runs, the hazards and the theorems.

## Inventory

| Component | State it keeps | Operations | Interacts through |
|---|---|---|---|
| Host serial transport: `klippy/chelper/serialqueue.c`, `msgblock.c` | sequence numbers, sent/upcoming/ready/receive/notify queues, round trip estimate, timers | send, write, retransmit, take in acknowledgements and responses, pull | CAN socket; a pipe and a condition variable towards Python |
| Micro-controller console: `src/command.c`, `generic/canserial.c` | `next_sequence`, `sync_state`, receive and transmit buffers | receive interrupt, find and dispatch blocks, acknowledge, respond | CAN frames; command handlers; `longjmp` on shutdown |
| Micro-controller timers: `src/sched.c`, `generic/timer_irq.c` | `timer_list`, `last_insert`, three special timers, shutdown status | add, delete, dispatch, reset, tasks | timer interrupt; all drivers' callbacks |
| Synchronised stop, MCU: `src/trsync.c`, `endstop.c`, `stepper.c` | flags, reason, two timers, signal list | start, set timeout, trigger, report | timers, endstop, console |
| Synchronised stop, host: `klippy/chelper/trdispatch.c` | `can_trigger`, last status and timeout of each MCU | `handle_trsync_state`, set-up, start, stop | fast readers in the threads of `serialqueue` |
| Homing: `klippy/mcu.py`, `extras/homing.py` | completion, handlers, reasons | `home_start`, `home_wait`, `stop` | reactor, background threads, trdispatch |
| Serial reader: `klippy/serialhdl.py` | handlers, pending notifications | connect, session start, queries with retries | serialqueue, reactor |
| Steppers: `src/stepper.c`, `basecmd.c`, `chelper/stepcompress.c`, `trapq.c`, `itersolve.c` | move queues, step queues | queue a step, next step, flush | timers, motion planning |
| Reactor: `klippy/reactor.py`, `chelper/pollreactor.c` | timers, greenlets, async queue | callbacks, pause, completion | all of Klippy |
| Clock synchronisation: `klippy/clocksync.py` | regression of MCU clock on system time | handle clock response | serialqueue's clock estimate |
| Motion planning: `klippy/toolhead.py` | look-ahead queue, special queuing state | move, flush, drip | kinematics, trapq |
| Printing: `klippy/gcode.py`, `extras/virtual_sdcard.py`, `pause_resume.py`, `print_stats.py`, `idle_timeout.py`, `src/config/plr.sh` | file position, states of print and pause, saved position for power loss | start, pause, resume, cancel, recover | G-code mutex, reactor timers, shell |
| Heaters: `extras/heaters.py`, `verify_heater.py` | target, last temperature, PWM and its time | set, temperature callback, check | MCU ADC and PWM callbacks |
| Probe: `extras/pressure_sensor.py`, `probe.py`, `bed_mesh.py` | load cell calibration, mesh | homing moves, measurements | endstop, toolhead |
| API server: `klippy/webhooks.py`, `klippy.py` | connections, printer state | requests, subscriptions | Unix socket |
| Moonraker: `moonraker/klippy_connection.py`, `server.py`, `components/job_queue.py`, ... | connection state, pending requests, queue | connect, initialise, request, start job | Klippy's socket, websockets |
| KlipperScreen: `screen.py`, `ks_includes/*`, `panels/*` | printer state machine, websocket | reconnect, state changes | Moonraker's websocket |
| Cloud client: `farm3d/mq.py` | connection, upload state | MQTT messages | Moonraker |

What is hard in these parts and out of a unit test's reach:

* **transport** - loss, duplication and reordering by retransmission; sequence
  numbers of four bits; full CAN queues and buffers on both ends that drop
  silently; a first acknowledgement that may be anything; shutdown by `longjmp`
  out of a handler.  Correct means: each block is executed once and in order,
  acknowledgements are sound, the retransmit timer runs while it is needed,
  senders are woken after their responses, the receive buffer does not overflow.
* **threads around the transport** - a lock, a pipe, a condition variable and
  a `poll()` with a computed time-out.  Correct means: no kick and no wake-up is
  lost, queues keep their order, a waiting sender is told exactly once,
  `disconnect()` returns.
* **timers** - a circular 32 bit clock, a cached place in the list, timers
  deleted from callbacks and interrupts, late timers.  Correct means: the list is
  sorted, nothing is lost, everything is called on time.
* **synchronised stop and homing** - five threads, two micro-controllers,
  reports and timeouts that race, homings that follow each other.  Correct means:
  steppers stop together, a reported hit is one, nothing is left over.
* **stepping** - a pool of nodes counted on both ends, stops at any instant of a
  pulse, commands of an abandoned move.  Correct means: no step and no node is
  lost, and planned, sent and real positions agree.
* **heaters** - a host that may die with the power on.  Correct means: the pin
  goes off in time, and never while the host does its work.
* **printing** - greenlets that poll each other between check and use, requests
  that bypass the mutex, flags that outlive what set them.  Correct means: lines
  run once and in order, nothing runs after a cancel or on a cold bed, every
  request is answered.
* **Moonraker, screen** - awaits between check and use, reconnection.  Not
  modelled yet.

## Modules

Serial link

* `MsgBlock` - what travels: blocks with a sequence number and a length, and
  frames (acknowledgements and responses).  A block that fails
  `msgblock_check` is `Bad`.  `id`, `done` and `src` are the numbers that the
  four bits stand for; the code does not transmit them and no guard reads them,
  except where a handler's own block is meant.
* `SerialQueue` - the host: `command_event` (with `build_and_send_command` and
  `check_send_command`), `retransmit_event`, `handle_message` (with
  `update_receive_seq` and the notification of waiting senders), `do_write` with
  its failures, and the start of a session by `serialhdl.py`.
* `McuConsole` - the micro-controller: the receive interrupt with its full
  buffer, `command_find_block` (garbage, duplicates, naks), `command_dispatch`,
  responses, acknowledgements with a full `transmit_buf`, shutdown in a handler.
* `SerialLink` - both ends and a wire that keeps the order of frames but may
  lose or corrupt some; the properties; fairness.
* `CommandStream` - the abstract specification: a window of built blocks, an
  executed prefix, an acknowledged prefix of that.
* `SerialLinkInvariant`, `SerialLinkProofs` - the inductive invariant and proofs.
* `MCSerialLink` - the action constraint `FirstTransmission` for one run.

Threads around the serial link

* `CommandQueues` - `serialqueue_send_batch`, `check_upcoming_queues`,
  `build_and_send_command`, `check_send_command`: messages move from the upcoming
  to the ready queue of their command queue and into blocks.
* `SerialThreads` - extends it with the threads: the background thread with the
  steps of `pollreactor_run`, `kick_event`, `input_event` and `command_event`; the
  threads that send and kick; `serialqueue_pull` and `_bg_thread`;
  `raw_send_wait_ack`; `disconnect()`.  What happens under the lock is one step,
  every system call another.
* `Mailboxes` - the abstract specification: a set of independent FIFOs.
  `SerialThreads` implements it with what was put into a queue as history
  (`taken` and what is queued) and what has left it as a counter.
* `SerialThreadsProofs` - the inductive invariant and proofs.
* `MCSerialThreads` - the scenarios.

Timers

* `Sched` - `sched.c` and the dispatch loop of `timer_irq.c`.  The list is a
  sequence of nodes, times are counters modulo `W`, `irq` is the time the
  hardware timer is set to.  `overrun` marks that `insert_timer` has walked past
  the last node, which is undefined behaviour: the model stops there.
* `SchedProofs` - the inductive invariant and proofs.
* `MCSched` - the symmetry of timers.

Homing

* `Trsync` - `trsync.c`, `endstop.c` and the stop signal of a stepper, for each
  micro-controller; its links to the host.
* `TrDispatch` - `trdispatch.c` and the fast readers of `serialqueue.c`.
* `SyncStop` - the two above from the end of `home_start` on, as a real-time
  protocol: only time, reports, timeouts and triggers.
* `SyncStopProofs` - proofs about `SyncStop`.
* `Homing` - the two above with `MCU_trsync`, `MCU_endstop.home_start` and
  `home_wait`, the query with retries, and the background threads.
* `HomingProofs` - the inductive invariant and proofs: first about one homing, then
  about homings that follow each other and the reasons that the queries return.

Stepping

* `Stepper` - `stepper.c` and the pool of `basecmd.c`.  The position is the W bit
  word of the code with its bias and sign bit; `motor` is what the pulses on the
  pins did, the code has no such variable.  `AddTimer` is `sched_add_timer` as a
  stepper sees it: a late timer that is not before the head of the timer list is
  called at once, one that is gets the present clock and waits behind the head
  (`held`) while `too_close` allows it, and the next one is a shutdown.  What
  is at the head depends on the rest of the firmware, so each is possible.
* `StepCompress` - `stepcompress.c` as operators on records that stand for `struct
  stepcompress` and the heap of `struct steppersync`.
* `StepSync` - the two with the ordered command queue between them (`wire`), the
  flushes of `toolhead.py`, and `note_homing_end` of `klippy/stepper.py`: a stop at
  any clock, what the host learns, the reset and the query of the positions.
* `StepSyncProofs` - the inductive invariant and proofs.
* `MCStepSync` - the scenarios.

Heaters

* `DigitalOut` - `gpiocmds.c`: settings queued with a clock, one timer for loading
  and toggling, `max_duration`; late settings as `AddTimer` lets them pass.
* `HeaterLoop` - reports of the temperature, `Heater.set_pwm`, `MCU_pwm.set_pwm`
  and its set-up, a host that stops and starts again with a configured
  micro-controller.  The control law is any power.
* `HeaterLoopProofs` - the inductive invariant and proofs.

Printing

* `VirtualSd` - `virtual_sdcard.py` and `print_stats.py`: what others call, and the
  steps of `work_handler` between the points where it lets other greenlets run.
* `SdPrint` - the scripts that clients and the file run: the mutex,
  `run_script` with its cancel in advance, `pause_resume.py`, the macros of
  `mainsail.cfg` and `runout.cfg`, waits for temperatures, `stop_heating`; the
  recovery with the homing that `plr.sh` writes into its commands.
* `SdPrintProofs` - the inductive invariant and proofs.
* `MCSdPrint` - a file of four lines.

State and actions carry the names of the code.  A handler is one action; what a
lock or an interrupt-disabled section protects is one step; what is dropped
between them (the lock before a fast reader runs, the acknowledgement before a
response is read) is two.

## Runs

Where a property is a conjunction, its named parts are given in brackets; each is
stated and commented in its module.

Serial link (`MCSerialLink`)

| Run | What it shows | Bounds |
|---|---|---|
| `link_safety` | types, `ExactlyOnceInOrder`, `AckSound`, `SentQueueComplete`, `TimerArmed`, `NotifiedAfterResponses`; the inductive invariant `IInv`; that the link implements `CommandStream`; every queue may be full, and a block or frame may be lost or corrupted | 3 sequence numbers, 2 blocks pending, 3 blocks built, CAN queue of 1, 1 fault |
| `link_window` | `NoReceiveOverflow`: blocks of two lengths fill the receive window | no retransmission, 4 sequence numbers, 5 blocks |
| `link_live` | `EventuallyAcknowledged`: every block is acknowledged or the thread stops | 2 blocks, CAN queue of 1 |

The sequence numbers come round within the blocks built (3 blocks on 3 numbers,
the code has 16 numbers and 12 pending), which is what their confusion needs; for
larger values the theorems below take over.  `MaxPending < SeqMod` is the
assumption that the code satisfies with 12 < 16.

`NoReceiveOverflow` is checked up to the first retransmission only: a
retransmission sends what may still be in the buffer, and the code then
relies on the console to drop it.

Fairness of `link_live`: the thread polls, the interrupt and the console task
run (weak fairness of each), no one is forced to send new blocks, and of the
retransmissions some find an idle link when it is idle again and again (strong
fairness).  The retransmit timeout doubles up to five seconds, far longer than
the link needs to drain; without this the old copies could keep the buffer full
each time.

Threads (`MCSerialThreads`)

| Run | What it shows | Bounds |
|---|---|---|
| `serial_threads` | that the queues implement `Mailboxes`; `NoLostKick`, `CompletedOnce`, `InDueTime` (types, `NotTooEarly`, `HandledBeforeNotified`); liveness: `NobodyWaitsForEver` (`EverythingSent`, `EverythingHandled`, `DisconnectReturns`, `WaiterReturns`) | 2 command queues, 2 threads that send, a window of 1 block of 2 messages, a pipe that holds 1 byte |

Three scenarios: two messages on a link that lives, one to be sent at once and one
later, while the estimate of the clock is corrected by one; responses on a link
that may end; a message with a notification and a response on a link that may end.
They are bounds: together in one instance they exceed what TLC can do in minutes.
`ReqDelta = 1` and messages due at 5 with time up to 4 give the thread each reason
to sleep and to wake: a timer, a kick, a frame, `PollCap`.

The link is without loss here (`SerialLink` has what loss does), so there is no
retransmit timer, which could only wake the thread more often.  The time a block
takes on the wire is the flag `line_busy` (`idle_time` after now).  A failing
`read()` ends the thread.  `InDueTime` has one exception: a data frame that comes
before the first acknowledgement of a connection (`rseq` is 1) makes `wake_seq` wrap
around in `handle_message`, and every sender that waits then is woken before its block
has been acknowledged (`early`).  `NotifiedAfterResponses` of `SerialLink` has the
same exception.  Fairness is weak throughout: the scheduler runs every
thread, the micro-controller executes what it gets, time passes.  Nobody has to
send and the port need not fail.

Timers

| Run | What it shows | Bounds |
|---|---|---|
| `sched` | `TimerListInv`: types, `TimerListSorted`, `NothingLost`, `LastInsertValid` whether or not timers are late, `OverrunOnlyWhenLate`; `CalledOnTime` until a timer is late | clock modulo 14, two timers, interrupts late by at most 1, times at most 1 in the past |
| `sched_sentinel` | violation of `SentinelStopsSearch` | clock modulo 12 |

The clock goes round any number of times.  `Period` and `Horizon` keep all times
within half a round, as 100 ms and the drivers' delays do with 2^31 ticks.
The timers are interchangeable and no property is about liveness, so symmetry is
sound.  Deadlock is not checked: the model stops at undefined behaviour.

Homing

| Run | What it shows | Bounds |
|---|---|---|
| `stop` | `StopsTogether`, `TimeoutsInv` (types, `TimeoutsAscend`) with arbitrary delays, `NoSpuriousTimeout` when messages are prompt | 2 micro-controllers, timeout of 2 ticks; 10 ticks, 3 once a message was late |
| `homing_two` | `HitIsSound`, `QuietAfterHoming`, one response lost | 2 micro-controllers, 1 homing, 1 tick |
| `homing_again` | `NothingLeftOver` (types, `NoStaleMessages`, `QuietAfterHoming`), `HomeWaitWoken` over two homings, two responses lost | 1 micro-controller, 2 ticks |

Time is a counter; all timers that are due fire before it goes on, and messages
take any time.  Time ends at `MaxTime`, so deadlock is not checked in these runs:
a homing that waits for time to pass then waits for ever.  `MaxFlight` limits the
messages under way while time passes, `MaxPull` those that wait for a background
thread.  In `stop` report interval, timeout and smallest extension are as
1 : 2 : 1, tighter than the 3 : 10 : 2 of the code, and ten ticks are several
renewals of each timeout.  A micro-controller can trigger while the reports,
extensions and triggers are held back until the bound is passed.  In
`homing_two` one tick is enough for timeouts to run out before, between and after
all steps of `home_wait`.

Fairness of `homing_again`: the main thread goes on with `home_start` and
`home_wait`, the background threads take in what arrived and run the fast readers,
the micro-controllers do what they have to.  Nothing makes time pass, the endstop
close or another homing begin.  `HomeWaitWoken` excepts a lost report:
`home_wait` then waits for the next, which the trsync that lost it no longer sends.

Assumptions: the commands that set a homing up arrive before its print time (a
late timer is the subject of `Sched`); the host's estimates of the clocks are
exact; the links keep their order and lose nothing, which is what the serial
link is shown to provide; a response is lost only where `sendf` finds
`transmit_buf` full.

Stepping (`MCStepSync`)

| Run | What it shows | Bounds |
|---|---|---|
| `step_sync` | `PoolInv` (types, `NodesConserved`, `NoMoveStranded`), `NoFaultOnTime`, `PositionIsTheMotors`, `PositionsAgree` (`NoStepLost`, `HostKnowsPosition`), `PastPositionIsTrue`, `StandsStill` | 9 ticks, a pool of 3 nodes, positions of 6 bits, two late timers tolerated, six scenarios |

The scenarios are plans of steps: a homing move in half pulses with an inverted
direction pin that turns once; the same with a step on every edge, the last step
taken back by the filter (`SDS_FILTER_TIME`); an accelerating move; a step further
away than `CLOCK_DIFF_MAX`; two motors that share a pool smaller than their plans; a
host whose commands come too late, so that starts are tolerated, held behind the head
of the timer list or refused.  In each the host may flush at any time and
after any number of steps, and a trigger may stop the motors at any clock.

`NoFaultOnTime` is claimed for a host that is on time (`scenario.punctual`).  For a
late one it would be false, and not only because of "Timer too close": a
tolerated start keeps its node after the clock at which `steppersync` takes it for
free, so the pool can overflow.  The other properties hold of late
hosts too.  A held timer is called at any clock from then on.  What its place behind
the head does to the list itself is the subject of `Sched`.

Assumptions: `Transit > Pulse`, a command is under way longer than a step pulse
takes (microseconds, against a CAN frame or more): `steppersync` counts a node as
free when the last step of its move is due, the firmware frees it with the pulse's
end.  Flushes that change nothing but `last_flush_time` are left out.
`compress_bisect_add` covers any number of steps that one command reproduces
exactly, so `max_error` is 0.  The position at exactly the clock of the trigger is
left open, either answer being as good.  Time ends at `Horizon`: no deadlock check.

Heaters (`HeaterLoop`)

| Run | What it shows | Bounds |
|---|---|---|
| `heater_loop` | `PinInv` (types, `PinFollowsSettings`), `OffAfterSilence`, `NoSpuriousShutdown`, `OffWhenUnwanted` (`OffWhenTargetZero`, `OffAfterRestart`) | cycle of 3 ticks, 16 ticks, the target changes twice, one crash and restart, one late setting tolerated; 9.4 million states |

`ReportTime` 2, `KeepTime` 4, `MaxDuration` 9 keep the order of the code's
numbers: 3.75 s until a setting is renewed and twice 0.3 s for report and delay are
less than 5 s.  Sixteen ticks are a setting, its end, a restart and its first
settings.  A host is punctual or not for the whole behaviour.  The settings of one that
is not come at any time: one that is late is loaded at once, or it waits behind
the head of the timer list, or it is refused with "Timer too close".  `HeadWait` (2)
bounds that wait, as `periodic_timer`, which is always on the list and due within
100 ms, bounds it in the code.  Three bounds keep late hosts small, all of them
parameters of which the proofs below take any value: `TooCloseMax` is 1 where the
firmware has 2, the powers asked for are those in `LatePowers` (part of a cycle, and
all of it), and the history `off_since` is kept for punctual hosts only, which are
the ones it is asked for.  The firmware's shutdown stops the model.  The pool of move nodes is shared by all
queues; the pin has its one reserved node here.

Printing (`MCSdPrint`)

| Run | What it shows | Bounds |
|---|---|---|
| `sd_print` | `StatusIsTrue` (types, `StatsAgree`, `PausedStandsStill`), `LinesInOrder`, `MovesCarriedOut`, `NoLineAfterCancel`, `NoColdLine`; liveness: `RequestsAnswered` | 2 clients, 4 requests, a file of 4 lines (home, heat up, change filament, move) read 3 at a time |

Requests are start, recover, pause, resume, cancel, reset the file, and heat; four
of them are enough for a print, two requests that race and one more on what they
left.  A position counts lines.  Deadlock is not checked: requests are bounded and
Klippy may shut down.  Fairness is weak: a greenlet whose timer is due is run
again, heaters reach their temperature.  One assumption: the polls of `do_pause`,
a millisecond apart, are prompt: no request arrives and no script begins between
the moment the worker stops and the poll that sees it.  Within that millisecond a
queued or resumed print could go on with the lines it had buffered.

## Findings

* `sched_sentinel`: this firmware tolerates two late timers instead of shutting
  down (`sched_add_timer`).  It inserts them behind the head of the list although
  they are earlier, without `timer_kick`.  With only the special timers on the
  list the search walks past the sentinel to a null pointer, against the comment on
  `sentinel_timer`.  Otherwise the timer waits for the head, up to 100 ms, against
  `docs/Code_Overview.md`; `CalledOnTime` excepts late timers for that reason.

Limits and disagreements met while modelling, which the properties allow for:

* `TRSYNC_TIMEOUT` is 50 ms (`klippy/mcu.py:226`), `docs/Multi_MCU_Homing.md:16-20`
  promises 25 ms.  `StopsTogether` holds for the code's timeout.
* `SerialRetryCommand` takes any `trsync_state` for the answer to its query.
  `homing_two` shows that one lost response does no harm.  With two (`MaxLost = 2`)
  TLC finds a homing whose responses with the reason are both dropped by a full
  `transmit_buf` while a periodic report is under way: that report is taken for the
  answer, and `home_wait` misses a communication timeout.
* Two requests that cancel at once both poll in `do_cancel`; the second closes a
  file that is `None` by then, and Klippy shuts down by an internal error
  (`Crash`).
* A cancel macro that fails on its way (its move out of range, or not homed)
  leaves the heaters on and `stop_heating` set: moves of the next print are
  then left out until the motors are found not homed (`stuck` in
  `MovesCarriedOut`).
* A recovery does the same without any script failing.  `run_script` clears
  `stop_heating` when it finds x not homed (`gcode.py:250`); the recovery's
  commands do not go through it, and home x and y (`plr.sh:35`, `38`).  A flag
  left over from a cancel, with the motors off, survives in this way, and the moves
  after it are left out (`Recovery`, `stuck`).
* A data frame before the first acknowledgement wakes all waiting senders
  (`wake_seq` at `serialqueue.c:245` wraps around).
* `CLEAR_PAUSE` leaves `sd_paused` set, so that a later `M109` by hand, without a
  file, does not wait, against `docs/G-Codes.md`.
* `SDCARD_PRINT_FILE` while paused answers "SD busy" although the print starts.
* The state "error" is never reported: the worker's `on_error` script cancels
  the print first, which sets "cancelled".
* `run_plr` runs the scripts of a recovery without the G-code mutex: requests may
  run between them, and a cancel waits until they end.  An error in them leaves
  the statistics "paused" while `is_paused` is false.

## Proofs

`SerialLinkProofs` proves, for all values of the constants that satisfy the
assumptions (in particular `MaxPending < SeqMod`, any number of faults, any buffer
sizes):

* `InductiveInvariant`: `Spec => []IInv`;
* `TypeCorrect`, `ExactlyOnce`, `AcknowledgementsSound`, `RetransmitComplete`,
  `RetransmitTimerArmed`: the safety properties of `link_safety`;
* `WokenAfterEveryResponse`: `NotifiedAfterResponses`, from `IInv` and
  `ResponsesInv` (a frame with a response reports that its block is dispatched, and
  no acknowledgement of that block is ahead of it);
* `WindowRespected`: `NoReceiveOverflow`, from `IInv`, `ResponsesInv` and
  `WindowInv` (below);
* `LinkImplementsStream`: `Spec => Stream!StreamSpec`.

`ExactlyOnceInOrder` is not inductive: that a block which carries the expected
number is the expected block depends on what is under way.  `IInv` says how far
apart blocks and frames can be:

* `PositionsInv`: the micro-controller is between what the host knows
  (`receive_seq`) and what it has built (`send_seq`), at most `MaxPending` apart;
  before the first acknowledgement the host may be out of step, but then has at
  most one request under way and no one has been answered;
* `PipeInv`: a block under way is less than `SeqMod` behind the next one to be
  executed, so its number names it;
* `OrderInv`: a block is less than `MaxPending` ahead of any one behind it.  It
  is what keeps `PipeInv` when the micro-controller moves on: by the time the
  next block is executed, whatever is behind it is not older than the window;
* `FrameInv`: acknowledgements under way are in order and between what the host
  knows and what the micro-controller has done.

The host counts the bytes of `sent_queue` against the window, but what arrives is
what the wire left of older blocks, and an acknowledgement frees the room of a block
only when its frame is read.  So `WindowInv` gives every block under way (`Pipe`, the
buffer and the wire) a number of its own: the block it was built as, or `base - 1`
for the one request that may precede the session.  The numbers rise along the pipe,
lie between the next block to be executed and the next to be built, and none is below
what a frame on its way acknowledges (`NumberOK`).  A lost, cut or damaged block only
takes a number away (`Thinned`), so `Bytes(Pipe)` is at most the bytes of the blocks
that the host counts, which `check_send_command` bounds.  `SessionInv` is what holds
of the numbers before the session is up.  `Bytes` is a fold; `BytesIsSum` and its
lemmas compare partial sums by taking the least index at which a claim fails.  The
invariant holds until `retransmit_seq` is set, like the property.

There is a lemma for each action (`...Inductive`); `NextIInv` collects them.  The
refinement (`InitRefines`, `NextRefines`) maps `receive_seq`, `send_seq` and the
history `delivered` to the abstract counters.

`SerialThreadsProofs` proves `InDueTime`, `CompletedOnce`, `NoLostKick` and that
`SerialThreads` implements `Mailboxes`, for any number of command queues, senders
and messages, any window, block and pipe, and any scenario whose clocks stay below
`BACKGROUND_PRIORITY_CLOCK`.  The invariant has a part for each thing that passes
between the threads:

* `QueueInv`: every message that was ever put into a queue has a number of its own,
  also across the queues, and `pending_queues` lists exactly those that are not empty;
* `LinkInv`: a block is built only under the lock while the window is open;
  acknowledgements are under way in order;
* `TokenInv`: the completion of a sender is in one place - its message queued, in
  `notify_queue`, in `receive_queue` - until it is completed.  `CompletedOnce`
  needs the place, not only the count;
* `HandledInv`: where each response is, and that those of a block are ahead of
  whatever acknowledges it, which is what `wake_seq` relies on once it has not
  wrapped around; a sender woken by one that has is in `early`, and excepted;
* `EarlyInv`: `min_clock` is at most 2^31 before `req_clock`, so that a message
  which has left its `upcoming_queue` is near;
* `KickInv`: while the window is open, the thread has been told or the timer that
  it set covers the head of every queue (`Settled`), and it is no later than
  `need_kick_clock`.  `poll_until` never exceeds that timer.  `NoLostKick` follows
  for the only step that lets time pass.

Every step that sends a message (`Takes`) and every batch (`Puts`) is first
brought to what it does to the queue as a whole; moving messages from the upcoming
to the ready half then is a stutter of `Mailboxes`.

`SyncStopProofs` proves for any number of micro-controllers, delays and losses:

* `SynchronisedStop`: no axis moves on for longer than the timeout after another has
  stopped.  The invariant is `TimeoutsInv`, which also the run checks: what the host
  believes of a micro-controller (`last_status`) is no later than a report it really
  sent, `last_expire` is the least of them plus the timeout, and no timeout in force
  is later than what the host has sent.  A micro-controller that has triggered sends
  no report, so that all timeouts in force count from a report made before the first
  trigger.  As a corollary the `expire_ticks` of `handle_trsync_state` never go back;
* `NoTimeoutWhenPrompt`: no timeout runs out while reports come every 0.3 of the
  timeout and messages take what `PromptTiming` allows; the margin is the 0.3 and
  0.24 of `trdispatch.c`.

`HomingProofs` proves the safety properties of `Homing` for any finite number of micro-controllers (`HomingAssumption`), any timing, any number of
homings and of messages under way:

* `HomingLeavesNothing`: `QuietAfterHoming`, without a further hypothesis.  A query is
  the last command to its micro-controller, and its acknowledgement the last response
  (`QueryState`): when `stop()` has its answer the links are empty and the trigger that
  the query implies has been carried out.  That nothing is armed again depends on the
  order of the commands: `stepper_stop_on_trigger` is next to the `trsync_start` it
  needs (`StopShape`), an endstop begins to look only after its trsync has been started
  (`HomeShape`), and one that looks or will look is to be switched off (`OffShape`);
* `HomingsApart`: `NothingLeftOver`.  Everything under way belongs to the present homing
  (`RoundsInv`), since between two homings nothing is (`IdleInv`).  The hypothesis
  `NoFailure` - one micro-controller, or fewer lost reports than a query has tries -
  is needed: when a query fails for good, `home_wait` raises an error before it has
  stopped the remaining trsyncs, and the next homing meets what they still have to say.
  `LossesInv` counts: each try without a response has lost one;
* `HitSound`: `HitIsSound`, with one micro-controller or at most one lost report
  (`FewLosses`; with two and several micro-controllers it is false, see Findings).
  `stop()` takes any `trsync_state` message for its answer, so the invariant follows
  the reason from where it arises to where it is read: until its print time nothing of a
  homing can trigger (`SetUpInv`) and all fast readers are in place before that
  (`AddedInv`); what wakes `home_wait` up has passed `trdispatch` or is passing
  (`PassedInv`); then every trsync is told to trigger (`ToldInv`), a trsync that has
  triggered keeps its reason and reports it last (`McuSound`), and a response that says
  "none" after that has cost two lost reports (`AnswerInv`, `ResInv`).

`HeaterLoopProofs` proves `OffAfterSilence` and, until a setting comes late, `PinInv`
(its types always) for any cycle, limits and number of slots.

* `OffInTime` needs nothing of the host.  `SilenceInv` is about the pin alone: while it
  is away from its default level `check_end` is set and a timer is active (`EndInv`),
  `end_time` is at most `MaxDuration` after the pin took its last setting, and
  the timer is not after it, except for the wait of a held one (`WaitInv`).  A late
  setting that is accepted starts this anew.  `MaxDuration # 0`, as `setup_max_duration`
  is called for every heater.
* `PinFollows` has an invariant, `IInv`, that holds as long as no setting came after
  its time (`~late`).  From then on a pin may follow a setting from another clock than the
  host meant, and the order of clocks on which `IInv` rests is gone; that the pin
  follows such settings is model-checked.

`HostTiming` is what `IInv` asks of the host: the delay of
`set_pwm` is at most the interval of the reports, which is at most that delay and the
time a restart takes.  Then settings reach the micro-controller in the order of their clocks, the
queue of the pin is the rest of the settings, and the timer is never later than the
next switch (`Cycles`: the toggles of a setting fall on whole cycles of its start).
`LimitInv` ties `end_time` to the setting in force.

It also proves `NoSpuriousShutdown` and `OffWhenUnwanted`, which are about a host that
is on time.  `HostPunctual` is what they ask besides: a default level of off, and a
limit with room for the 3.75 s until a power is renewed and for two reports.  A second
invariant, `TimelyInv`, holds on top of the first, and says that nothing is late
(`OnTimeInv`):

* `PromptInv`: commands arrive before they take effect, and no report waits for longer
  than until the next;
* `PowerInv`: the host renews a power in time (`next_pwm_time`), and without a target
  it gives up significant powers first and all power after `KeepTime`;
* `SentInv`: of two settings that were sent one after the other (`Link`) the second
  takes effect before the limit of the first ends, and before the first could remain
  in force for too long without a target.  It ties what the pin has (`settings`) to
  what is under way (`wire`) and to what the host remembers (`Latest`);
* `LimitExact`: `min_clock` keeps at most one setting in the pin's queue, and the
  limit is the one of the setting in force;
* `RestartInv`: a host that started again has sent nothing but the init command.

`SchedProofs` proves `TimerListInv` and `CalledOnTime` for any number of timers, any
width of the counter and any times within half a round of it.  Times are compared by
their signed distance modulo `W` (`Dist`).  The structure of the list (`ListInv`: no
timer lost or linked twice, `last_insert` valid) holds until `overrun`, also when
timers are late; the order and `IrqInv` hold while no timer was late.  The sentinel
is half a round after the periodic timer: a time is before the sentinel if and only if it
is not before the periodic timer, and so a search always finds its place.  `IrqInv`
says that the interrupt is set to the head of the list, of which only
`deleted_timer` may be called early.

`SdPrintProofs` proves `StatusIsTrue`, `LinesInOrder`, `MovesCarriedOut`,
`NoLineAfterCancel` and `NoColdLine` for any number of clients and requests and any
file without a cancel among its lines.  The parts of the invariant are the mutex and
who waits for it (`MutexInv`), where each script is (`ScriptInv`), the buffer of the
worker and the position (`ReaderInv`), what the statistics say (`StatsInv`), pauses
(`PauseInv`), what was left out and when (`MovesInv`: while a cancel is under way, while
the axes are not homed, or when `stuck`) and temperatures (`HeatInv`).  The
hinge is that no worker is started while somebody polls in `do_pause` or
`do_cancel`: so the worker that a poll waits for is the one that it saw.

`StepSyncProofs` proves, for any number of steppers, any plans, either kind of step
pin, an inverted direction or not, homing or not, a host on time or not, and every
time of a flush or of a trigger:

* `PoolStaysWhole`: `PoolInv`, that is types, `NodesConserved` and `NoMoveStranded`;
* `PositionIsTrue`: `PositionIsTheMotors`.  `Sound` says how `count`, which counts
  edges, the level of the step pin and the sign bit of `position` tell the steps left
  of the move; `PositionOK` compares words modulo 2^W, as the code's 32 bit
  arithmetic does;
* `HostIsRight`: `PositionsAgree`, that is `NoStepLost` and `HostKnowsPosition`;
* `StoppedMotorStands`: `StandsStill`.

All four follow from `HostAndMotorMeet`: `Spec => []SyncInv`.  `NoMoveStranded`
and `PositionIsTheMotors` need only what holds of a stepper by itself (`StepperOK`,
`InRange`), after every edge, load, stop and shutdown.  The host's position needs more: between
the host and the motor are the moves in the stepper's queue, the commands on the wire
for this and other motors, and the host's own `msg_queue` and step queue.  `On(o)` says
that they join up.  A `View` is where a motor is going to be: its place, its direction,
whether it ignores moves (`need_reset`), the steps it has used and its resets.
`Predicts(s, v)`: the stepper will be at `v` when it has done what it has queued.
`Runs(c, v, w)`: the commands `c` take it from `v` to `w`.  So the queue of the
stepper leads to some `v`, the wire from there to some `u`, and `msg_queue` from `u` to a
`w` whose place is the host's `last_position` (`Goes`).  A step of the system moves a
command from one part to the next: compression appends to `msg_queue` a move of as many
steps as it takes from the step queue, a flush moves the head of one motor's `msg_queue`
to the wire in the order of the heap (`Sends`), a delivery makes `v` the next view.  Both
ends stay.

A stop breaks the chain on purpose.  `stepper_stop` makes `v` the place where the motor
stands, and stopped: moves that come do not count, until `reset_step_clock`.
`Known` says when the host's position is claimed to be `w`'s: not from the stop to
the answer of the query.  `Cleared` says that exactly one reset is on its way
or has arrived after `note_homing_end`, and none before; with it a stopped motor that awaits a reset
is at `v` with `resets = 0` and so still has `need_reset`.  `used` bounds how far the
motor is from where it was at power-up, so that positions stay within the word.

The proofs use three assumptions on the constants.  `ScenariosAssumption`: no plan has `Bias` steps or more,
2^30 in the code, over 300 000 turns of a motor at 3200 steps each, and the clock
stays within `Horizon`, below UINT64_MAX (`Forever`).  `StepperAssumption`: a width of
the position's word, with the instance for it of the law of powers that the provers
lack.
`StepCompressAssumption`: the limits of `stepcompress.c` are natural numbers.  The pool
may have any number of nodes, the limits any value.  The folds over motors and steps
of a plan are sums (`IsSum`), compared by the least set or index at which a claim
fails, since induction cannot be instantiated.

Only model-checked:

* liveness under fairness, which is out of the prover's reach:
  `EventuallyAcknowledged`, `NobodyWaitsForEver`, `HomeWaitWoken`,
  `RequestsAnswered`;
* `PinFollowsSettings` of `HeaterLoop` after a setting that came late;
* `NoFaultOnTime` and `PastPositionIsTrue` of `StepSync`.  The first rests on times
  (every node is free before the host reuses it, no step is late), which `SyncInv` leaves
  open; the second on the history of `stepcompress.c`, that is on the place within a
  move at each clock, whose arithmetic is quadratic in the steps.

## Not modelled

`PROJECT.json` gives the reason for each component.  Within the modelled ones:
the byte-level framing below a block, with the race of `console_pop_input` and the
interrupt; the pacing by `timer_repeat_until` (whether "Rescheduled timer in the
past" applies is a free choice once the timer is late enough); tasks; the sampling
of the endstop (it may close at any time); a shutdown during a homing; the AVR
variant of the stepper; the tolerance of step compression and the expiry of its
history; the arithmetic of the heater control and `verify_heater.py`; M20 to M27,
`SDCARD_LOOP`, an unreadable `/tmp/pose`, the idle timeout, the filament sensor (so
that `pause_command_sent` without `is_paused` does not occur); the failure of the
move in `RESTORE_GCODE_STATE`; a last line without a newline, which the worker never
runs although the file then counts as printed.

Most lines of the repository are no candidates: vendored headers and libraries of
micro-controllers (`src/klipper/lib`), front-end assets, drivers for boards this
printer does not have, and numerical code.  What is mapped is the control of the
parts this printer runs.

## Plan

1. serial link - done, with proofs;
2. timers, the threads around the serial link, the synchronised stop, heaters and
   printing and homing - done, with proofs of their safety properties; stepping -
   done, with proofs of all but two of its properties;
3. proofs: `NoFaultOnTime` and `PastPositionIsTrue` of `StepSync`;
4. further modules: `KlippyConnection` and `JobQueue` of Moonraker with Klippy's API
   server, KlipperScreen's state machine, `verify_heater.py`, the idle timeout, the
   states of the look-ahead queue, `farm3d/mq.py`.

Abstract specifications worth stating: a homing that either hits and stops all or
fails, which `Homing` implements through `SyncStop`; a print job that `SdPrint`
implements.
