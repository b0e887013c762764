# Verification of stretch4_body

TLA+ models of `stretch4_body`, the control software of the Stretch 4 mobile
manipulator, the TLC configurations that check them on small instances, and
proofs, checked by TLAPS, of what matters most for every instance.

`PROJECT.json` is the index: components, runs, the mutant that shows each
property can fail, the lines of the source each definition stands for, hazards,
findings and theorems.  This file explains them.  Paths are relative to
`src/stretch4_body/` unless they begin with `src/`.

- [The system](#the-system)
- [Inventory](#inventory)
- [Modules](#modules)
- [Runs, bounds and fairness](#runs-bounds-and-fairness)
- [What is proved](#what-is-proved)
- [Findings](#findings)
- [What is not modelled, and why](#what-is-not-modelled-and-why)
- [Plan](#plan)
- [Working on it](#working-on-it)

## The system

One process, the **robot server** (`robot/robot_server.py`), owns the hardware.
Its main thread runs a control cycle at 100 Hz; worker processes own the wrist,
the line sensors and the self collision solver; one C++ thread per stepper board
carries its RPCs over a serial line.  **Clients** are other processes, on the
robot or on the network, that talk to the server through three ZMQ sockets.

```
 client processes                         server process                      boards
 ----------------                         --------------                      ------
 RobotClient, gamepad
   push_command  --- PUB/SUB, conflated --> command lease --> command dispatch
   requests      --- REQ/REP ------------> admin dispatch         |
   wait on status <- PUB/SUB, conflated --- status                v
                                              routine manager, sentries
                                                  |           |
                                     motions      v           v  q_cmd, status
                                   stepper queues        end of arm worker
                                                  |           |  homing threads
                                       RPC queue  v           v
                                      + C++ queue thread    Feetech servos
                                                  |
                                                  v  framed serial
                                              stepper boards
```

A control cycle checks the runstop, pushes queued commands to the boards,
publishes the status, answers admin requests, and reads at most one command.  The
cycle is called by the *routine* that runs: a no-op routine when nobody asked
for one, else homing, stowing and the like, which are ordinary Python code that
queues motions and calls the cycle between them.  So commands and cancels of
clients are dispatched in the middle of a routine's code, at each cycle it asks for.

## Inventory

For each part: its state, its operations, what is hard, what makes it correct.

**Command lease** (`core/client_server.py`).  State: `lease_holder_id`,
`lease_holder_priority`, `lease_expiry`, and the conflated sockets.  Operations:
dispatch one command, free control.  Hard: newer commands replace unread ones,
clients close their sockets or fall silent, a running routine extends the lease of
a silent holder, time passes anywhere.  Correct: at most one client in control;
the holder is displaced only by strictly higher priority or after its timeout; a
persistent client is served once the others fall silent.

**Control loop and routine manager** (`robot/robot_server.py`,
`behavior/routines/routine_manager.py`, `routine.py`).  State: active and next
routine, `is_canceled`, the last result, `do_exit`, paused sentries, what clients
have queued, the published status.  Operations: run the next routine, a cycle's
push, the four admin requests, the commands (motion, run, cancel, pause and unpause a
sentry).  Hard: commands arrive inside a routine; a handler raises half way through a
cycle; a REP socket that owes an answer cannot receive; lease and routine must agree
on who is in control.  Correct: the routine excludes other commands, belongs to
who asked for it, ends and is reported; sentries come back however it ends.

**Homing of the prismatic joints** (`behavior/routines/routine_homing.py`, with
the queues of `core/stepper.py`).  State: gains in the driver and in the
firmware, the queued triggers and motion, the mark on contact, calibration.
Operations: the steps of `_run_homing`, separated by cycles.  Hard: a cancel,
a runstop or a missed contact between any two; status that precedes the command
it seems to answer.  Correct: calibrated only at the stop, lift before arm, gains
restored, nothing left driving, an end to every homing.

**End of arm homing** (`routine_homing.py`,
`subsystem/end_of_arm/end_of_arm_loop.py`, `end_of_arm.py`,
`core/feetech/feetech_SM_hello.py`).  State: `q_cmd`, the status messages,
`cancel_homing_event`, `is_homing`, the homing threads, calibration and encoder
offset of each servo.  Hard: three threads of control in two processes; one event
for all joints; a second homing while the thread of the first is alive; delayed
status.  Correct: success only when it is over, joints in order, an end.

**RPC queue of the transport** (`core/transport/transport.py`,
`transport_cserial.py`, `cpp/transport.cpp`).  State: the ring of acknowledgement
slots, `transmit_q`, `ack_q`, the callbacks, the RPCs to be loaded.  Operations: issue an
RPC, blocking or not; load results; the queue thread's dequeue and its four
outcomes.  Hard: slots are reused while acknowledgements are under way, `ack_q`
overflows, a transaction may end without any acknowledgement, a result is waited
for only a second, a blocking RPC is loaded twice.  Correct: RPCs go out in order
and once, a callback is called at most once and with its own reply, a result is
true and comes.

**Client API and control lock** (`core/subsystem_client.py`,
`utils/freeable_file_lock.py`).  A dictionary of queued commands keyed by
subsystem, a rate limit, a file lock between client processes, waits on the status
of a routine.  Hard: the lock is asked for before it is taken and may belong to
another process.  Correct: one client process pushes at a time.

**Admin client** (`core/client_server.py`).  State: a REQ socket, whether the
server is thought to be there.  Operations: startup in its three modes, ping, free
control, kill, stop.  Hard: the server crashes, is killed by another client or
answers late; after a lost answer the socket cannot send.  Correct: an answer taken
is the answer to the request just made; a startup ends, and connected if it may.

**Prismatic joints and self collision** (`core/prismatic_joint.py`,
`behavior/sentries/sentry_self_collision.py`, `self_collision/`).  State: the stops
of each joint in both directions with their ages, what waits for the motors, the
queues of the solver's and of the end of arm's process, the directions known last.
Operations: step the sentry, step a joint for each link, pause and unpause,
motions.  Hard: results are those of a configuration sent cycles before; several
links move one joint; a wrist joint is stopped in another process; the sentry is
paused with a stop set; the motor misses the stop, which is set all the same.  Correct:
a joint in collision moves away from it only, and stops end.

**Worker loop** (`core/worker_loop.py`, `core/hello_utils.py`).  The loop of the
worker processes, an admin queue, and a queue that drops its oldest item.  Hard:
loss of commands, a join without timeout.  Correct: a stop ends the worker.

**Transport framing** (`core/transport/cpp/transport_framing.cpp`,
`cobbs_framing.py`).  State: the bytes on the line and in the buffer, the frames of
the reply so far.  Operations: a pull and a push of several frames.  Hard: frames
are damaged or lost; an answer that comes after the timeout is read as the answer
to the next request; a read may swallow the beginning of another frame; refusals
of the board are not looked at.  Correct: a callback is handed the reply to its
own RPC, and a transaction ends.

**Stow, docking, wrist handedness** (`behavior/routines/routine_stow.py`,
`routine_blind_dock.py`, ...).  State: the queued motions, the gains and guarded mode
of the base, what is paused, the attempts.  Hard: waits whose results are partly
ignored, a collision stop that refuses one motion of a sequence, settings
that straight-line code must give back however it is left.  Correct: the robot is
left as it was found, the arm comes in before the lift comes down, a cancel
ends the routine soon.

**Steppers, omnibase, power, line sensors, servos, tools, other sentries, safe
motions, parameters, startup, gamepad, cameras, command line and factory tools**:
listed in `PROJECT.json` with the reason each is left out.  They are byte
layout, numeric, vendor code, or operator scripts; what the modelled parts need
of them is an input of those models.

The hazards of all these parts are in `PROJECT.json`, each at its line, with the
properties that cover it or why none does yet.

## Modules

| Module | Models | Built on |
| --- | --- | --- |
| `CommandLease` | the lease and the two conflated sockets | |
| `RobotServer` | the control loop, routine manager, admin and command dispatch, clients | `CommandLease` (INSTANCE) |
| `MCRobotServer` | its instances for TLC | `RobotServer` |
| `AdminChannel` | the REQ/REP channel, client startup, the server crashing | |
| `Homing` | `RoutineRobotHome`, `RoutinePrismaticJointHome` | |
| `EndOfArmHoming` | `RoutineEndOfArmHome`, the worker, the homing threads | |
| `StowAndDock` | `RoutineRobotStow`, `RoutineBlindDock` | |
| `CollisionStop` | the self collision sentry, its solver, the stops of the joints | |
| `MCCollisionStop` | an arm of two links and a wrist | `CollisionStop` |
| `RpcDelivery` | what the RPC queue promises | |
| `TransportQueue` | the RPC queue | `RpcDelivery` (INSTANCE) |
| `TransportFraming` | one RPC on the serial line, frame by frame | |

Theorems are in `CommandLease_proofs`, `RobotServer_proofs`,
`AdminChannel_proofs`, `Homing_proofs`, `StowAndDock_proofs`, `CollisionStop_proofs`,
`TransportQueue_proofs` and `TransportFraming_proofs`, each of which extends the module
it is named after and TLAPS.  `Homing_proofs` also extends `EndOfArmHoming`, which
therefore shares no name with `Homing`.

**CommandLease.**  A command is its priority; `outbox` and `inbox` are the one slot
each conflated socket has.  `NewLease`, `Renew` and `Reject` are the three
outcomes of `dispatch_command_messages`; they share `LeftNow`, the extension by
a running routine that the code makes first, whoever sent the command, and that even
a rejected command leaves behind.  The clock appears only as `left`, what remains of
the lease, so that time needs no bound.  `claim` is history: what is left of the
timeout since a client's last dispatched command.  It says who *should* be in
control independently of the server's variables.  The SUB socket may serve the
clients in any order.

**RobotServer.**  The server thread is a program counter through one cycle:
`runNext`, `push`, `admin`, `command`, `body`.  `Continue` and `Finish` are the
routine's code, which may go on or return after any cycle; `RunNext` may go straight
to `body` since a routine may return without a cycle.  A motion that waits in `queued`
has the id of the routine that its message asked for as well, which tells it from any
later one of the same client.  `MayRaise` is an exception of a motion's handler, of
which the dispatch catches `AttributeError` only, so that the loop ends; the commands
about routines, which the client API makes with fixed arguments, do not raise in the
model.  `Raise` is an
exception of the admin dispatch, which both the pause and the kill request cause in
this code: a routine of `Guarded` catches it in `RoutineHome.run`, any other lets it
end the loop, and the REP socket then owes an answer (`Stuck`).  The lease actions
are those of `CommandLease` itself, conjoined (`Lease!Receive(c)`), and
`LeaseRefined` checks that the composition never steps outside `CommandLease`.  The
"paused" state of `StretchBodyServer` is left out since the handler raises before it is set.

**Homing.**  A place of `pc` is either one `update_controller` (`Updates`) or a
loop of cycles that waits (`Waits`).  `Cycle` pushes the queues, lets any set of
joints make progress, loads a status that was pulled *before* that push, and may
dispatch a cancel; the actions of `JointStep` are the straight-line code between.
Whether a wait looks at the cancel, and whether anyone looks at its result, is as
in the code: `Elapsed` ends at once when canceled and is not a failure.  The
firmware (`Received`, `Progress`) is external: a guarded motion may meet something
at any time, and the armed mark then fires.  Collision stops are an input.

**EndOfArmHoming.**  Server, worker and threads are separate actors; the
messages between them (`qCmd`, `posted`, `status`) may be delayed as long as one
likes, within fairness.  `HomingBegun` takes the 1.5 s wait of the routine as long enough for a
status of the begun thread to arrive; mutating that away breaks `SuccessMeansOver`.
`pre_home`, an oscillation of one joint, is one step that may fail, be
canceled, or raise.

**StowAndDock.**  As in `Homing`, `pc` is a wait or one `update_controller`, and
`Cycle` is the control cycle inside it: it pushes `queue`, lets the joints make
any progress, reads the charger and may take a cancel.  `AtSetpoint` may be true in
the very cycle that cancels, since the code looks at it first; `GaveUp` is a
cancel, a stop or a timeout.  `blocked` is the set of motions a collision stop
refuses, which `move_to` reports to nobody.  The settings that docking changes and
gives back are kept as the routine sets them and, for the gains, as the firmware has
them, one push later.  An exception ends a stow in its `finally` clause, and a
docking, which catches nothing, with the control loop: `DockRaises` is an end
from which nothing follows.

**CollisionStop.**  One control cycle is `Push`, `StepSentry`, one `StepLink` for
each link, and `Dispatch`.  A stop is 0 or one more than its age in cycles, which is
what `step_collision_avoidance` compares to a second.  The geometry is the constant
`Resolves`, from configurations to the direction of each link that resolves its
collisions.  The solver's process has a slot for the configuration and one for its
status (`get_latest` keeps the last), and a step without a configuration posts a
status that hides the one before.  The end of arm takes its messages in order;
`AvoidWrist` and the check of a motion are in its process, `AvoidPrismatic` in the
control loop.  Both set the stop whatever becomes of the order to the motor (`Halt`):
`quick_stop` of a servo logs a communication error and returns
(`feetech_SM_hello.py:631`), a prismatic joint does not look at the result of its push
(`prismatic_joint.py:538`), and neither tries again while the stop is set.  So do
the pushes of commands (`Command`), the motions of the end of arm and the stop of
`RunStop`: any of them may be lost, any number of times.  `missed` is history: the
joints whose motor missed the latest stop of the direction it moves in and has obeyed
nothing since.  `StopMeansStill` and `CollisionsStop` except them, and say of all others
that the stop holds.  Routines run in that loop's own thread: they can pause the sentry
between two cycles only, and `Pause` steps every link once with no direction, as
`pause` of the sentry does, and so keeps any stop younger than `Hold`.

**AdminChannel.**  A client's REQ socket is `ready` to send or `waiting`, and has at
most one message on the line.  `_do_send_recv_admin_str` is `Send`, and then
`Receive` or `TimedOut`; what the caller does with the result is `Returned`.  A
socket that waits cannot send, and the client then takes the server for
disconnected.  `Startup` and `Retry` make a new socket.  `Stop` is the end of the
server process, at a kill or a crash: requests it had not answered are lost with
its socket, or wait for the next server in the client's.  `asked` and `got` are history.

**TransportFraming.**  Requests, answers on the line and bytes that have arrived are
three queues of frames; a reply carries the number of the RPC it answers, which no
guard of the host reads.  `ReadFrame` loses what the same `read` returned behind the
frame, also a part of a frame, the rest of which is then bad.  `PullReply` and
`PushAck` are the bodies of the two frame loops, with the case that ends a pull
in success without a callback, and with the verdict of a push's acknowledgement
unused.  `Serve` and `Arrive`, the board and the line, are external: the board may
answer a frame it cannot use with a refusal, or not at all.

**TransportQueue.**  Python and the queue thread interleave at each call of the
library and at each queue operation.  `Taken` is `dequeue_available_ack_rpcs` as
a function of the state: every call into the library applies it first.  A serial
transaction is one step with three outcomes: `Acknowledge`, `Failure`, and
`Silence`, a pull that returns success without having called back; they are the
three ways `PullReply`, `PushAck` and `TimeOut` of `TransportFraming` end.  `slot`
keeps the reply of a former RPC until it is overwritten, as `ack_buf` does.
**RpcDelivery** is the promise: four variables and three actions.

## Runs, bounds and fairness

Sizes are distinct states.  All runs check deadlock but `framing`, where the bound
`MaxRpc` ends the traffic, and `routines`, where the control loop really ends when
the controller raises in a docking and where `MaxRuns` bounds the routines.

| Run | Asks | Bounds | States |
| --- | --- | --- | --- |
| `lease` | who is in control, and that a persistent client gets control | 3 clients, priorities {0, 1}, timeout 2 ticks | 93k |
| `server_control` | the owner keeps control, its routine excludes later commands, its owner's too, only the owner cancels, the lease is refined | 2 clients, 1 routine, 4 commands | 891k |
| `server_reports` | every accepted routine begins, is reported, and only when over; sentries come back, a kill ends the loop | 1 client, guarded, unguarded and unknown routines, every admin request, 2 routine ids, 4 commands | 328k |
| `admin` | whose answer a client takes, and that a startup ends | 2 clients, one of another user, 2 faults | 24k |
| `homing` | the six properties of homing | lift and arm, 2 runs, `Ignore` 2 | 145k |
| `homing_cancel` | a cancel ends motion: **violated** | 1 run | |
| `eoa_homing` | order, success, end, whose the flag `is_homing` is | 3 joints, 2 runs | 259k |
| `eoa_cancel` | pitch sweeps with roll and yaw clear: **violated** | 1 run | |
| `routines` | what a stow or a docking leaves, in which order it lowers, how soon it ends | 2 runs, 2 attempts | 203k |
| `collision` | stopped joints are still unless their motor missed the stop, reports are stops, stops end, collisions are answered | an arm of 2 links and a wrist, 2 positions each, `Hold` 0, 1 message | 628k |
| `transport` | results are true and come, no RPC is forgotten, the promise is kept | 2 slots, 1 acknowledgement, 4 RPCs | 135k |
| `framing` | whose reply a callback is handed, and that transactions end | 2 frames, 4 RPCs, 2 faults | 458k |

Why the bounds are enough:

- *lease*: only comparisons of priorities matter, so two give all relations of
  two commands; three clients are a holder, its successor and one that comes
  between; two ticks are a fresh, an aged and an expired lease.
- *server*: four commands are a run, a contending command, a cancel and one more
  before or after any of them.  Two routine ids let one routine be asked for while another
  runs.  `Tick` and `Deliver` are unbounded.
- *admin*: two faults are an answer that is late and a server that is gone when the
  client tries again.  Requests, restarts and startups are unbounded.
- *homing*: two runs show what a first run leaves to a second; two joints show
  order.  `Ignore` 2 is the smallest `t_ignore` that separates a status older than
  the motion: with 1 `SuccessMeansHomed` fails (it is the mutant `AtEndAtOnce`).
- *end of arm*: two runs let two threads overlap; three joints are those of the
  wrist, pitch last.  The theorems lift the safety part of both homings to any
  number of joints and runs, and any larger `Ignore`.
- *routines*: two runs show what one leaves to the other, in every order of the
  two kinds; two attempts are one that is followed by another and the last;
  counting five cycles after a cancel tells three from more.
- *collision*: two links of one joint, of which the first may collide alone, one
  joint in each process, and two positions: in and clear of the collision.  `Hold` 0
  still has a stop just set, which nothing releases, and one that may be released; the
  ages in between, which only delay the release, are one or more with a larger `Hold`.
  Losses are unbounded.
  The three theorems lift the safety part to any joints, links, geometry and bounds.
- *transport*: four RPCs overrun a ring of two twice, and an acknowledgement queue
  of one.  The theorems lift the safety part of this run to every size.
- *framing*: two frames are a first and a last; with two faults a late answer can
  meet a damaged one, and four RPCs show a lag of two carried on.  The theorem
  lifts it to every size.

The fairness each specification states, and what of the code justifies it:

| Module | Fairness | Because |
| --- | --- | --- |
| `CommandLease` | weak for time, and for delivery and reading of each client's command | the clock runs; ZMQ carries; the loop polls the SUB socket in each cycle, and the socket serves its peers in turn |
| `RobotServer` | weak for the loop; strong for `Finish` and `NoRequest` | the thread runs by itself; every wait of a routine has a timeout; a REQ client cannot ask again before it has read the answer, so the admin loop finds its socket empty |
| `AdminChannel` | weak for the start of the server, for the answer to each client, and for the steps of each client | the server is started again by its user or service; it empties the admin socket in each cycle; every poll and sleep of a client ends |
| `Homing` | weak for `Cycle`, strong for `JointStep` | the loop runs; each wait looks at the clock in each cycle, so a timeout that is possible again and again happens |
| `EndOfArmHoming` | weak for the status path, for each command taken, for the end of each wait of the routine, and for each thread | the cycle, the worker's loop and the threads run; waits have timeouts |
| `CollisionStop` | weak for the control loop, the solver and the end of arm | each is a loop of a process of its own; `Solve` finds a configuration in each of its steps while the sentry runs, since it is slower than the control loop |
| `TransportQueue` | weak for `LoadResults` and `Await` | the cycle calls `load_rpc_results`; the wait looks at the clock.  None for the queue thread: `ResultComes` holds even if it hangs |
| `TransportFraming` | weak for the host, the board and the line | `select` returns, at the latest by its timeout; the board serves what it receives, and the line delivers or has lost it |

Each property of a passing run has a mutant in `PROJECT.json`: a change of one
definition, of the kind a plausible bug would make, under which TLC finds the
property violated.  The mutated forms stand beside the definitions they mutate,
marked as such; nothing uses them.

## What is proved

Thirty-nine theorems, for every value of the constants that the modules' assumptions
allow.  They state every safety property that a passing run checks; the runs show them
on a small instance, and show the liveness that the prover does not reach.

`CommandLease_proofs` assumes only that priorities are integers, the timeout a
natural number and `None` neither a client nor an integer; the set of clients
is arbitrary.

- `TypeCorrect`, `ClaimsHeld`, `Exclusion`, `Kept`, `Served`: the type invariant,
  `ClaimsAreLeases`, `MutualExclusion`, `LeaseKept` and `NoWeakerHolder`.
- *Argument.*  `MutualExclusion` speaks of the history of claims only and is not
  inductive: nothing in it prevents the server from granting a lease while a claim
  is alive.  `ClaimsAreLeases` is: whoever has a live claim *is* the holder and its
  lease lasts at least as long.  Exclusion follows in each state.  `Kept` also needs
  that a holder has a priority (its second part), since without one no command would
  have to outrank anything.

`RobotServer_proofs` assumes what `RobotServer` does of its constants: among others that
enabled routines are routines and that `None` is none of the values it stands beside.

- `TypeCorrect`, `OwnerKeeps`, `CommandsExcluded`, `SentriesAgain`, `CancelOwned`:
  `TypeOK`, `OwnerHolds`, `RoutineExcludesCommands`, `SentriesRestored`, `CancelByOwner`.
- *Argument.*  `OwnerHolds` says nothing of the time before a routine begins, when its
  owner is only the sender of the command.  `Upcoming` does: from the dispatch of
  that command to `RunNext` the sender holds the lease, no routine runs and nothing
  waits but what came in the same message.  `Owned` carries that on while it runs (a
  lease cannot expire then, so that it is lost to a higher priority or to being freed only);
  `Pushed` says that a cycle dispatches with nothing waiting; `Guarding`, that a
  sentry is inactive only in a guarded routine or by the user's will.
- `Refinement`: `LeaseRefined`, every step of the loop is a step of `CommandLease` or
  leaves it alone.  It needs that what is in the sockets are commands (`Boxes`).
- `OneInControl`, `ControlKept`: with that, what `CommandLease` guarantees holds of the
  whole server, routines, requests and exceptions included: `MutualExclusion`,
  `LeaseKept` and `NoWeakerHolder`.  The argument is that of `CommandLease_proofs`, over
  the lease made of the server's variables, since a theorem is not carried over to an
  instance of its module by the prover.
- `ReportsAreFinal`, `AcceptedBegins`: the safety inside `AcceptedRoutineReported`.
  A client waits for its routine by polling the last id that was published
  (`_wait_on_routine`), so an id that is published must be over for good.  The
  invariant `RInv` follows ids through the sockets, `next`, `active`, `last` and
  `published`: each is asked for in one message only (`AskedOnce`), and an id
  in one of these places is in none of the later ones (`AskedFresh`, `Unbegun`,
  `Unreported`), except that the end of a routine is recorded while it is still the
  active one.  That an accepted routine is not replaced before it begins is `Upcoming`.

`AdminChannel_proofs`: `TypeCorrect` (`TypeOK`) and `OwnAnswer` (`AckIsOwn`), for any
clients and number of faults.  The invariant `OneRequest` is the discipline of a REQ
socket: with a socket that may send, nothing is on the line; while a client polls, only
the request it polls for is.

`Homing_proofs` is about both homings; each part has its own inductive invariant.

- `TypeCorrect`, `SuccessIsHomed`, `StrayTimedOut`, `CalibratesInContact`, `LiftIsFirst`:
  `TypeOK`, `SuccessMeansHomed`, `OnlyTimeoutStrays`, `CalibratedInContact` and
  `LiftFirst` of `Homing`, for any number of joints and runs and any `Ignore` of at
  least 2 (a smaller one lets a wait take a status from before its motion).
- *Argument.*  The properties speak of the boards, and the routine knows them by
  statuses that are a cycle old and commands them by queues that are pushed a cycle
  later.  `IInv` follows a command on that way.  `Requests` says that a trigger that
  matters is queued at one place of the routine only, and is gone a cycle later;
  `Sent`, what the queue of the joint holds at each place; `InContact`, that a contact
  seen in a status is still there, because only a new motion ends it; `Waited`, what
  the end of the wait for contact leaves on the board, a motion to the stop only
  after a timeout; `Restored`, that the gains are back; `Progressed`, that the
  joints before the current one are homed and that nothing queued undoes it.
- `EoaTypeCorrect`, `SuccessIsOver`, `InJointOrder`: `EoaTypeOK`, `SuccessMeansOver` and
  `HomedInOrder` of `EndOfArmHoming`, for any servos and homings.
- *Argument.*  The server's knowledge is older than the worker's state: the homes asked
  for, the threads created, those begun, those the last message tells of and those the
  last message read tells of are in that order (`Queued`, `Known`).  The routine
  waits until the last equals the first, so that no thread is still to begin when a
  status says that nothing homes; and a message that says so was made before any thread
  that is alive began (`Before`).  `Alone` (unless threads overlapped, only the last
  that was created is alive) makes what it has done to the joints lasting (`Homes`).
- `HomesOnlyByThread`: `HomingHasThread`, the safety inside `EoaHomingEnds`: the flag is
  never set without a thread that will take it back, even when threads overlap and
  end in any order, unless one died in `pre_home`.

`StowAndDock_proofs`: `TypeCorrect`, `InOrder`, `ArmFirst` and `Prompt` (`TypeOK`,
`LeftInOrder`, `ArmBeforeLift`, `CancelPrompt`), for any number of attempts and runs.
The invariants say what each place of the routines has done and owes: `PausedInv`
where the behaviours are paused and the base unguarded, `MotionInv` whose gains the
base has and that what ends an attempt replaces the command to drive,
`ArmInv` that the lift is sent down only after the arm was looked at, and `PromptInv`
how many cycles each place has left once canceled.

`CollisionStop_proofs`: `TypeCorrect`, `StoppedIsStill` and `ReportsAreStops`
(`TypeOK`, `StopMeansStill`, `ReportedIsStopped`), for any joints, links, geometry,
hold and queue, with any order to a motor lost.  `StopMeansStill` is inductive with the
types: a command is checked in the step that queues it or sends it to the motor, a stop
is set in the step that replaces what waits and orders the motor to stop, and a motor
that does not obey that order is in `missed` until it obeys another one, which was
checked while the stop was set (`HaltStill`, `NewStopDirection`).  The exception of
`missed` is as narrow as the code allows: without it the statement is false.
`ReportedIsStopped` speaks of the end of the links only; its
invariant (`Follows`) says of the links already handled that those which are the last
of their joint are stopped as reported, and no link still to come undoes that.

`TransportQueue_proofs` assumes that the ring has at least one slot and `ack_q` room
for one acknowledgement.

- `TypeCorrect`: the types, and `ack_q` within its capacity.
- `Refinement`: the queue implements `RpcDelivery`.  The inductive invariant
  `IInv` says what is in each place an RPC passes through: `transmit_q` holds
  consecutive numbers that end at `rpcId`, with the one being carried out just before
  (`Order`); an acknowledgement in `ack_q` and a reply in a slot tell the truth
  (`AcksTrue`, `SlotsTrue`); a called callback is no longer in `py_callbacks`
  (`CallsOnce`).  `Order` is why RPCs finish in order; `CallsOnce` is why the second
  load of a blocking RPC does not call back twice.
- `Verdicts`: results are true.  A success follows from `SlotsTrue`.  A failure
  needs a second invariant, `TInv`: an RPC that was refused is never acknowledged
  later, because RPCs are carried out in order; a slot that is not an RPC's own
  belongs to one at least `Slots` later (`Ring`), because two numbers with the same
  remainder are that far apart (lemma `Multiple`); and an issued RPC has its callback or
  has called it (`KeptOrCalled`).
- `NotForgotten`: `NothingForgotten`, the safety inside `ResultComes`: an RPC
  without a result is the one that is waited for or in line to be loaded.  It is
  inductive with `IInv`, since what leaves the line has just got its result.

`TransportFraming_proofs`: `TypeCorrect` and `Timely` (`TypeOK`, `TimelyReplies`), for
any number of frames, RPCs and faults.  `TimelyReplies` speaks of the last call
only.  Behind it is `LineLags`: what has arrived, what is on the way back and what is
on the way to the board are one queue, and its *i*-th frame is at most as many RPCs
behind as answers have been late, less *i*, and one more while a transaction waits.
A frame that the board drops only moves the others up.  `PushInStep` follows a push
frame by frame while nothing was late.

Only model-checked: all liveness, since it needs ENABLED, which this prover does not
support (`TakeoverAfterSilence`, `AcceptedRoutineReported`, `StartupEnds`, `HomingEnds`,
`EoaHomingEnds`, `StopsEnd`, `CollisionsStop`, `ResultComes`, `TransactionsEnd`; of three
of them the safety part is proved, as said above), and the two properties
that are violated (`CancelEndsMotion`, `PitchSweepsClear`).  No module
declares a RECURSIVE operator.

## Findings

Two disagreements between the code and what its documents say, each shown by a run
whose property states the quoted sentence:

1. `homing_cancel`: after the contact the results of waits are ignored, and a
   canceled joint is still sent to its end position (`routine_homing.py:199`).
2. `eoa_cancel`: the next joint's homing clears a cancel, and pitch sweeps with yaw or
   roll at its stop (`feetech_SM_hello.py:1124`).

Others that were seen while modelling, without a run of their own, and that the
properties are stated beside:

- a command of higher priority that is refused because a routine runs still takes
  the lease, and the routine's owner can no longer cancel it
  (`core/client_server.py:157`; `CancelByOwner` says only who *can*);
- a cancel in the first cycle of a joint's homing returns past the restoring of its
  gains, and the next homing saves the homing gains as the user's
  (`routine_homing.py:154`; `OnlyTimeoutStrays` has the gains back only of a joint that
  was sent towards its stop);
- a homing of the end of arm does not look for a thread of an earlier one that is alive
  (`end_of_arm.py:464`; `SuccessMeansOver` and `HomedInOrder` except threads that
  overlap);
- the end of arm homing returns True whatever its thread came to
  (`routine_homing.py:64`; `SuccessMeansOver` says that it came to an end);
- a servo says that it is calibrated after PWM mode has made its offset invalid
  (`feetech_SM_hello.py:1185`);
- pausing the self collision sentry leaves the stops younger than a second, and
  those of joints that are not homed; such a stop refuses the homing motion, and
  stays until the sentry runs again (`sentry_self_collision.py:47`);
- a collision stop is set although the motor missed it, and is not tried again while it
  is set, so that the joint goes on into the collision (`feetech_SM_hello.py:724`,
  `prismatic_joint.py:538`), though `docs/primer_self_collision.md:11` speaks of
  "stopping the joint while allowing the user to back away safely"; the exception that
  `StopMeansStill` makes;
- after the sentry is unpaused its first step uses the directions it knew before the
  pause, so that a joint may be stopped for a second without a collision;
- of two links of one joint the later may release the stop that the earlier has
  asked for in the same cycle, so `ReportedIsStopped` is about the last link;
- a push callback, "to be called upon success" (`transport_framing.cpp:275`), is also
  called after a push of which the board refused a frame: the verdict of
  `handlePushAckV1` is not used.  `TimelyReplies` says *executed or refused*;
- an answer later than its timeout shifts every later answer: nothing flushes the
  line (`transport_framing.cpp:129`);
- a docking whose charger is felt between a cancel and the end of the undocking
  returns True while the robot drives off (`routine_blind_dock.py:83`);
- a stow whose arm was refused by a collision stop goes on and lowers the lift with
  the arm out (`routine_stow.py:56`): the exception that `ArmBeforeLift` makes;
- a client whose request timed out after its startup cannot use its REQ socket again
  and takes the server for disconnected until it starts up again
  (`core/client_server.py:399`).

## What is not modelled, and why

Within the modelled parts: the rollover of `rpc_id` after 2^31 RPCs; logged
counters; status contents and rates; the paused state of the server, which no
execution reaches; `RoutineWristJointHome`, one joint with the protocol of
`RoutineEndOfArmHome`; overflow of `q_cmd`, which takes 100 commands in a stalled
worker; `stop_nonblocking_thread` in the middle of a transaction, which joins the thread first.

`RoutineWristHandedness` is one command to the end of arm and
one wait for its status; soft limits and braking of prismatic joints are numeric;
which bytes make a frame is the work of COBS and the CRC, and both only decide
whether a frame is bad.  The Python serial backend is synchronous, without a
queue or a thread.

The control lock between client processes is an advisory warning to the user: the
server arbitrates the commands of processes that push in spite of it by the lease,
which is what the modelled properties are about.  The worker loop only calls the
steps that `EndOfArmHoming` and `CollisionStop` model for two of the workers.

Other components are listed with their reason in `PROJECT.json`.  Continuous
control, kinematics, filters, image pipelines and the collision geometry are out of
TLC's reach.  By lines, most of the repository is of that kind or has no state of its
own: command line and factory tools, calibration of cameras, tables of parameters and
of tools, drivers that pack and unpack bytes, and clients that forward one call to a
dictionary.  The models are of the part where processes, threads, messages, timeouts
and failures meet.

## Plan

Done: every module above, with the proofs of its safety.

Next, in this order:

1. `RoutineWristHandedness`, and `RoutineWristJointHome` in `EndOfArmHoming`, whose
   invariant `EoaInv` then has to hold of a thread that homes one joint.
2. `WorkerLoop` (`worker_loop.py:33-85`, `hello_utils.py:278-322`): loss of commands
   in the queue that drops its oldest item, and shutdown.
3. The safety parts of the other liveness properties, as for the three above: what a
   joint that is stopped still waits for (`StopsEnd`), and how much a line that
   lags may still hold (`TransactionsEnd`).

That a transaction of `TransportFraming` ends in one of the outcomes that
`TransportQueue` gives it is not stated as a refinement: `TransportQueue` allows each
outcome at any time, so any framing would refine it.  What the framing adds, whose
answer it was, is `TimelyReplies`.

## Working on it

`tlc -config MCCommandLease.cfg CommandLease` checks a run, `tlapm
CommandLease_proofs.tla` a module of proofs; `PROJECT.json` says which
configuration goes with which module.  When the code changes, look up its lines
in the `map` of `PROJECT.json` for the definitions to revise.
