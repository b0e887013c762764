------------------------------ MODULE StowAndDock ------------------------------
(***************************************************************************)
(* The routines that stow the robot and dock it at its charger             *)
(* (behavior/routines/routine_stow.py and routine_blind_dock.py) with the  *)
(* waits they take from Routine (routine.py).                              *)
(*                                                                         *)
(* The control loop is in the routine: each Cycle is a call of             *)
(* cb_routine_update_controller, which pushes the commands queued so far   *)
(* and reads a status.  A command that is followed by another one before a *)
(* cycle is never sent.                                                    *)
(***************************************************************************)
EXTENDS Integers

CONSTANTS Retries,  \* num_retries, the attempts to dock
          MaxRuns,  \* bound: routines run
          MaxAfter  \* bound: cycles counted after a cancel

ASSUME RetriesAssumption == Retries \in Nat \ {0}
ASSUME BoundAssumption == MaxRuns \in Nat /\ MaxAfter \in Nat

VARIABLES pc,        \* the wait or the update a routine is in
          runs,      \* bound: number of routines run
          result,    \* what the last routine returned
          canceled,  \* is_canceled
          due,       \* the update has not called the controller yet
          cycled,    \* the wait has lasted for t_ignore
          blocked,   \* moves that a collision stop refuses during this routine
          pos,       \* lift: 0 stowed, 1 clear of the base; arm: 0 in, 1 within the
                     \* threshold of it, 2 out; wrist: 0 stowed, 1 not
          target,    \* the last position commanded, Free if none in this routine
          queue,     \* the commands not pushed yet
          wheels,    \* the last command pushed to the wheels
          gains,     \* velocity gains of the wheels: in the routine, in the firmware
          guarded,   \* guarded_mode_active of the base
          was,       \* vel_gains_prior and was_guarded_mode
          paused,    \* the sentries and safe motions are paused
          tries,     \* attempts to dock
          adapter,   \* status['adapter_voltage_present']
          contact,   \* it was present in the status before
          tilted,    \* is_tilted
          success,   \* success in run
          after      \* history: cycles since the cancel

settings == <<gains, guarded, was, paused>>
charger == <<adapter, contact, tilted>>
body == <<pos, target, queue, wheels>>
vars == <<pc, runs, result, canceled, due, cycled, blocked, body, settings, tries,
          charger, success, after>>

Joint == {"lift", "arm"}
Place == [lift : 0 .. 1, arm : 0 .. 2, wrist : 0 .. 1]
Free == -1
Wheels == {"none", "drive", "undock", "settle", "lock"}
Gains == {"user", "dock"}
Move == {"raise", "retract", "lower"}
Waits == {"prestow", "arm", "wrist", "lower", "settle", "lock", "undock"}
Updates == {"gains", "drive", "restore", "final"}
Stowing == {"prestow", "arm", "wrist", "lower"}

TypeOK == /\ pc \in Waits \cup Updates \cup {"idle", "attempt", "ended"}
          /\ runs \in 0 .. MaxRuns
          /\ {result, canceled, due, cycled, success, paused, guarded} \subseteq BOOLEAN
          /\ {adapter, contact, tilted} \subseteq BOOLEAN
          /\ blocked \subseteq Move
          /\ pos \in Place
          /\ target \in [lift : {Free, 0, 1}, arm : {Free, 0}]
          /\ queue \in [lift : {Free, 0, 1}, arm : {Free, 0}, wheels : Wheels]
          /\ wheels \in Wheels
          /\ gains \in [routine : Gains, firmware : Gains]
          /\ was \in [gains : Gains, guarded : BOOLEAN]
          /\ tries \in 0 .. Retries
          /\ after \in 0 .. MaxAfter

Nothing == [lift |-> Free, arm |-> Free, wheels |-> "none"]

Init == /\ pc = "idle" /\ runs = 0 /\ result = FALSE
        /\ canceled = FALSE /\ due = FALSE /\ cycled = FALSE
        /\ blocked = {}
        /\ pos \in Place
        /\ target = [lift |-> Free, arm |-> Free]
        /\ queue = Nothing /\ wheels = "none"
        /\ gains = [routine |-> "user", firmware |-> "user"]
        /\ guarded \in BOOLEAN
        /\ was = [gains |-> "user", guarded |-> guarded]
        /\ paused = FALSE
        /\ tries = 0
        /\ adapter \in BOOLEAN /\ contact = FALSE /\ tilted = FALSE
        /\ success = FALSE /\ after = 0

-----------------------------------------------------------------------------
(* The control cycle and the waits.                                        *)

Between(p, t) == IF t = Free THEN {p} ELSE p .. t \cup t .. p

Pushed(j) == IF queue[j] = Free THEN target[j] ELSE queue[j]

\* cb_routine_update_controller: push the commands, read a status, take the
\* commands of the clients, of which one may cancel.
Cycle ==
    /\ (pc \in Waits /\ ~canceled) \/ (pc \in Updates /\ due)
    /\ target' = [j \in Joint |-> Pushed(j)]
    /\ \E l \in Between(pos.lift, Pushed("lift")), a \in Between(pos.arm, Pushed("arm")) :
          \E w \in IF pc \in {"wrist", "lower"} THEN {0, pos.wrist} ELSE {pos.wrist} :
             pos' = [lift |-> l, arm |-> a, wrist |-> w]
    /\ wheels' = IF queue.wheels = "none" THEN wheels ELSE queue.wheels
    /\ gains' = [gains EXCEPT !.firmware = gains.routine]
    /\ queue' = Nothing
    /\ IF pc \in Stowing THEN UNCHANGED <<adapter, tilted>>
       ELSE adapter' \in BOOLEAN /\ tilted' \in BOOLEAN
    /\ canceled' \in {canceled, TRUE}
    /\ after' = IF canceled /\ after < MaxAfter THEN after + 1 ELSE after
    /\ due' = FALSE
    /\ cycled' = TRUE
    /\ UNCHANGED <<pc, runs, result, blocked, guarded, was, paused, tries, contact, success>>

\* check_runstop, before a cycle.
Runstop == /\ pc \in Waits \/ (pc \in Updates /\ due)
           /\ ~canceled
           /\ canceled' = TRUE
           /\ UNCHANGED <<pc, runs, result, due, cycled, blocked, body, settings, tries,
                           charger, success, after>>

\* The first status of a wait that may be used.
Wait(p) == pc' = p /\ cycled' = FALSE /\ UNCHANGED due
Update(p) == pc' = p /\ due' = TRUE /\ UNCHANGED cycled

\* near_pos_setpoint.  Nothing is known of a setpoint of before the routine.
NearSetpoint(j) == target[j] \in {Free, pos[j]}

\* It is looked at before a cancel that came with the same cycle.
AtSetpoint(p, j) == pc = p /\ cycled /\ NearSetpoint(j)
\* The wait for p fails: it was canceled, stopped by the controller or timed out.
GaveUp(p) == pc = p /\ (canceled \/ cycled)

-----------------------------------------------------------------------------
(* RoutineRobotStow.                                                       *)

\* run of the base class; since the last routine the user may have moved the robot.
Start == /\ pc = "idle" /\ runs < MaxRuns
         /\ runs' = runs + 1
         /\ canceled' = FALSE /\ after' = 0
         /\ target' = [j \in Joint |-> Free] /\ wheels' = "none"
         /\ pos' \in Place

\* PrismaticJoint.move_to does nothing in a direction that a collision stop forbids.
MoveTo(q, stops, move, j, x) == IF move \in stops THEN q ELSE [q EXCEPT ![j] = x]

\* is_stowed.
Stowed(p) == p.lift = 0 /\ p.arm <= 1 /\ p.wrist = 0

Stow == /\ Start
        /\ blocked' \in SUBSET Move
        /\ IF Stowed(pos')
           THEN result' = TRUE /\ UNCHANGED <<pc, cycled, queue, paused>>
           ELSE /\ paused' = TRUE
                /\ \/ pos'.lift < 1 /\ Wait("prestow") /\ queue' = MoveTo(Nothing, blocked', "raise", "lift", 1)
                   \/ /\ pos'.lift = 1 /\ Wait("arm")
                      /\ queue' = MoveTo(Nothing, blocked', "retract", "arm", 0)
                /\ UNCHANGED result
        /\ UNCHANGED <<due, gains, guarded, was, tries, charger, success>>

StowRest == UNCHANGED <<runs, canceled, due, blocked, pos, target, wheels, gains, guarded,
                        was, tries, charger, success, after>>

Prestowed == /\ AtSetpoint("prestow", "lift")
             /\ Wait("arm")
             /\ queue' = MoveTo(queue, blocked, "retract", "arm", 0)
             /\ UNCHANGED <<result, paused>> /\ StowRest

\* Mutant of ArmIn: the arm is not looked at.
ArmWaited == /\ GaveUp("arm")
             /\ Wait("wrist")
             /\ UNCHANGED <<queue, result, paused>> /\ StowRest

\* The arm is in, or did not get there but is within the threshold.  The wrist is
\* told to stow: its process takes the command whatever happens here.
ArmIn == /\ AtSetpoint("arm", "arm") \/ (GaveUp("arm") /\ pos.arm <= 1)
         /\ Wait("wrist")
         /\ UNCHANGED <<queue, result, paused>> /\ StowRest

\* The result of wait_duration is not used.
WristWaited == /\ GaveUp("wrist")
               /\ Wait("lower")
               /\ queue' = MoveTo(queue, blocked, "lower", "lift", 0)
               /\ UNCHANGED <<result, paused>> /\ StowRest

\* unpause_behaviors, in the finally clause.  A command not pushed yet is pushed by the
\* next routine, the no-op one.
StowReturn(r) == /\ pc' = "idle" /\ result' = r /\ paused' = FALSE
                 /\ UNCHANGED <<cycled, queue>> /\ StowRest

StowDone == AtSetpoint("lower", "lift") /\ StowReturn(Stowed(pos))

StowFailed == /\ GaveUp("prestow") \/ GaveUp("lower") \/ (GaveUp("arm") /\ pos.arm > 1)
              /\ StowReturn(FALSE)

\* The controller raises: run catches it and cancels.
StowRaises == /\ pc \in Stowing /\ ~canceled
              /\ StowReturn(FALSE)

-----------------------------------------------------------------------------
(* RoutineBlindDock.                                                       *)

\* set_vel_gains.
Dock == /\ Start
        /\ Update("gains")
        /\ was' = [gains |-> gains.routine, guarded |-> guarded]
        /\ gains' = [gains EXCEPT !.routine = "dock"]
        /\ queue' = Nothing /\ blocked' = {} /\ tries' = 0 /\ success' = FALSE
        /\ UNCHANGED <<result, guarded, paused, charger>>

DockRest == UNCHANGED <<runs, result, canceled, blocked, pos, target, wheels, adapter, tilted,
                        after>>
SettingsRest == UNCHANGED <<settings, tries, success>>

\* Everything is paused, and the base does not stop at contacts.
Unguard == /\ pc = "gains" /\ ~due
           /\ pc' = "attempt"
           /\ paused' = TRUE /\ guarded' = FALSE
           /\ UNCHANGED <<due, cycled, queue, gains, was, tries, contact, success>> /\ DockRest

Command(c) == queue' = [queue EXCEPT !.wheels = c]

\* restore_vel_gains, after the last attempt.
Restore(ok) == /\ Update("restore")
               /\ gains' = [gains EXCEPT !.routine = was.gains]
               /\ success' = ok
               /\ UNCHANGED <<queue, guarded, was, paused, tries, contact>> /\ DockRest

Undock == Command("undock") /\ Wait("undock") /\ UNCHANGED contact

\* Mutant of Attempt: is_canceled is not looked at.
AttemptUncanceled ==
    /\ pc = "attempt" /\ tries < Retries /\ ~adapter
    /\ IF tilted THEN Undock
       ELSE Command("drive") /\ Update("drive") /\ contact' = FALSE
    /\ SettingsRest /\ DockRest

\* Mutant of Attempt: one attempt more.
AttemptOnceMore ==
    /\ pc = "attempt" /\ tries <= Retries /\ ~adapter
    /\ IF canceled \/ tilted THEN Undock
       ELSE Command("drive") /\ Update("drive") /\ contact' = FALSE
    /\ SettingsRest /\ DockRest

\* do_dock, up to the first status.  When the routine is canceled the undocking comes
\* before the next cycle, and the wheels are never told to drive.
Attempt == /\ pc = "attempt" /\ tries < Retries /\ ~adapter
           /\ IF canceled \/ tilted THEN Undock
              ELSE Command("drive") /\ Update("drive") /\ contact' = FALSE
           /\ SettingsRest /\ DockRest

\* The robot is charging before the attempt, or no attempt is left.
NoAttempt == /\ pc = "attempt"
             /\ adapter \/ tries = Retries
             /\ Restore(tries < Retries)

\* wait_on_charging goes on; do_dock may have called it again.
DriveOn == /\ pc = "drive" /\ ~due /\ ~canceled /\ ~tilted
           /\ ~(contact /\ adapter)
           /\ Command("drive") /\ Update("drive")
           /\ contact' \in {FALSE, adapter}
           /\ SettingsRest /\ DockRest

\* The contact has lasted.
Docked == /\ pc = "drive" /\ ~due /\ ~canceled /\ ~tilted
          /\ contact /\ adapter
          /\ Command("settle") /\ Wait("settle")
          /\ UNCHANGED contact /\ SettingsRest /\ DockRest

\* Mutant of DriveOver: the wheels are left as they are.
DriveOverCoasting ==
    /\ pc = "drive" /\ ~due
    /\ Wait("undock") /\ UNCHANGED <<queue, contact>>
    /\ SettingsRest /\ DockRest

\* The attempt has taken too long, or was canceled, or the robot is tilted.
DriveOver == /\ pc = "drive" /\ ~due
             /\ Undock
             /\ SettingsRest /\ DockRest

Lock == /\ GaveUp("settle")
        /\ Command("lock") /\ Wait("lock")
        /\ UNCHANGED contact /\ SettingsRest /\ DockRest

Locked == GaveUp("lock") /\ Restore(TRUE)

Undocked == /\ GaveUp("undock")
            /\ pc' = "attempt" /\ tries' = tries + 1
            /\ UNCHANGED <<due, cycled, queue, settings, contact, success>> /\ DockRest

Unpause == /\ pc = "restore" /\ ~due
           /\ Update("final")
           /\ paused' = FALSE
           /\ guarded' = (guarded \/ was.guarded)
           /\ UNCHANGED <<queue, gains, was, tries, contact, success>> /\ DockRest

DockReturn == /\ pc = "final" /\ ~due
              /\ pc' = "idle" /\ result' = success
              /\ UNCHANGED <<runs, canceled, due, cycled, blocked, body, settings, tries,
                              charger, success, after>>

\* Nothing catches what the controller raises: the control loop ends.
DockRaises == /\ pc \in Waits \ Stowing \/ (pc \in Updates /\ due)
              /\ pc' = "ended"
              /\ UNCHANGED <<runs, result, canceled, due, cycled, blocked, body, settings,
                              tries, charger, success, after>>

Next == \/ Cycle \/ Runstop
        \/ Stow \/ Prestowed \/ ArmIn \/ WristWaited \/ StowDone \/ StowFailed \/ StowRaises
        \/ Dock \/ Unguard \/ Attempt \/ NoAttempt \/ DriveOn \/ Docked \/ DriveOver
        \/ Lock \/ Locked \/ Undocked \/ Unpause \/ DockReturn \/ DockRaises

Spec == Init /\ [][Next]_vars

-----------------------------------------------------------------------------
(* Properties.                                                             *)

\* Whatever is canceled, stopped or raised, a routine that returns leaves no trace: the
\* behaviours run, the base has the gains and the guarded mode its user gave it, also in
\* the firmware, and no wheel drives on towards the charger.
LeftInOrder == pc = "idle" => /\ ~paused
                              /\ gains = [routine |-> "user", firmware |-> "user"]
                              /\ guarded = was.guarded
                              /\ runs > 0 => wheels # "drive" /\ queue.wheels = "none"

\* "Bring in arm before bring down" (routine_stow.py:54): the lift is sent down only with
\* the arm within the threshold, unless a collision stop refused to retract it.
ArmBeforeLift == queue.lift = 0 \/ target.lift = 0
                    => pos.arm <= 1 \/ "retract" \in blocked

\* A routine that was canceled returns at once: it controls the robot for three more
\* cycles at most, to give back what it changed.
CancelPrompt == after <= 3
=============================================================================
