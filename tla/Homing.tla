------------------------------- MODULE Homing -------------------------------
(***************************************************************************)
(* The homing of the whole robot, RoutineRobotHome, and of its prismatic   *)
(* joints, RoutinePrismaticJointHome (behavior/routines/routine_homing.py),*)
(* with the waits of Routine (routine.py) and the command queues of the    *)
(* joints' steppers (core/stepper.py).                                     *)
(*                                                                         *)
(* The joints 1 .. N, the lift and the arm, are homed in that order, each  *)
(* by a fresh subroutine.  A routine alternates between code that queues   *)
(* something for a motor and control cycles that push it: a place of pc    *)
(* stands for one update_controller (Updates) or one loop of cycles that   *)
(* waits for something (Waits).                                            *)
(*                                                                         *)
(* board is the firmware, external: it does what the queue it is sent says,*)
(* and a joint that moves to its stop may meet it, or anything else.  An   *)
(* exception in a cycle, which ends the control loop, is in RobotServer.   *)
(***************************************************************************)
EXTENDS Naturals, FiniteSets

CONSTANTS N,       \* number of prismatic joints
          Ignore,  \* fewest control cycles in the t_ignore of a wait
          MaxRuns  \* bound: how often the robot is homed

ASSUME JointAssumption == N \in Nat \ {0}
\* A status seen in a cycle was pulled before that cycle's push; t_ignore, of
\* half a second, is there to see none that is older than the command.
ASSUME IgnoreAssumption == Ignore \in Nat /\ Ignore >= 2
ASSUME RunsAssumption == MaxRuns \in Nat

VARIABLES pc,        \* where the routine is, "idle" when it does not run
          cur,       \* the joint whose subroutine runs
          due,       \* the cycle of the update_controller at pc is to come
          n,         \* cycles since the wait at pc began, up to Ignore
          canceled,  \* is_canceled of the active subroutine
          ok,        \* success
          gains,     \* gains[j]: the motor.gains that homing changes
          saved,     \* saved[j]: the gains that the subroutine of j will restore
          queue,     \* queue[j]: what the next push_command sends
          board,     \* board[j]: the firmware of the motor of j
          seen,      \* the part of the joint's status that the waits look at
          blocked,   \* in_collision_stop, as motions: frozen while homing
          result,    \* what the last run returned
          runs,      \* number of runs
          asked,     \* history: a cancel was dispatched in this run
          wait       \* history: wait[j], how the wait of j for contact ended; none
                      \* while this run has not moved j

vars == <<pc, cur, due, n, canceled, ok, gains, saved, queue, board, seen,
          blocked, result, runs, asked, wait>>

Joint == 1 .. N
Updates == {"begin", "arm", "calibrated", "safe", "restored"}
Waits == {"approach", "contact", "touch", "settle", "atEnd", "endOfArm"}
Gains == {"user", "homing"}
Motion == {"toStop", "toEnd", "safety", "none"}
Trigger == {"resetCal", "mark", "resetMark", "setCal"}
Board == [gains : Gains, motion : Motion, armed : BOOLEAN, contact : BOOLEAN,
          reached : BOOLEAN, calibrated : BOOLEAN]
Empty == [trigger |-> {}, gains |-> FALSE, motion |-> "none"]

TypeOK == /\ pc \in Updates \cup Waits \cup {"idle", "start"}
          /\ cur \in Joint
          /\ due \in BOOLEAN
          /\ n \in 0 .. Ignore
          /\ canceled \in BOOLEAN
          /\ ok \in BOOLEAN
          /\ gains \in [Joint -> Gains]
          /\ saved \in [Joint -> Gains]
          /\ queue \in [Joint -> [trigger : SUBSET Trigger, gains : BOOLEAN,
                                  motion : Motion]]
          /\ board \in [Joint -> Board]
          /\ seen \in [contact : BOOLEAN, near : BOOLEAN]
          /\ blocked \in [Joint -> SUBSET {"toStop", "toEnd"}]
          /\ result \in BOOLEAN
          /\ runs \in 0 .. MaxRuns
          /\ asked \in BOOLEAN
          /\ wait \in [Joint -> {"none", "moving", "contact", "timeout",
                              "canceled"}]

Init == /\ pc = "idle" /\ cur = 1 /\ due = FALSE /\ n = 0
        /\ canceled = FALSE /\ ok = FALSE
        /\ gains = [j \in Joint |-> "user"] /\ saved = gains
        /\ queue = [j \in Joint |-> Empty]
        /\ board = [j \in Joint |->
                      [gains |-> "user", motion |-> "none", armed |-> FALSE,
                       contact |-> FALSE, reached |-> FALSE,
                       calibrated |-> FALSE]]
        /\ seen = [contact |-> FALSE, near |-> FALSE]
        /\ blocked = [j \in Joint |-> {}]
        /\ result = FALSE /\ runs = 0 /\ asked = FALSE
        /\ wait = [j \in Joint |-> "none"]

-----------------------------------------------------------------------------
(* The control cycle.                                                      *)

\* What a board makes of a queue: triggers, gains and the command, in that
\* order.  A new command ends a guarded event.
Received(b, q, g) ==
    [gains |-> IF q.gains THEN g ELSE b.gains,
     motion |-> IF q.motion = "none" THEN b.motion ELSE q.motion,
     armed |-> ("mark" \in q.trigger \/ b.armed) /\ "resetMark" \notin q.trigger,
     contact |-> b.contact /\ q.motion = "none",
     reached |-> b.reached /\ q.motion = "none",
     calibrated |-> ("setCal" \in q.trigger \/ b.calibrated)
                    /\ "resetCal" \notin q.trigger]

\* A guarded motion stops where it meets something, and that is the position
\* to mark; a motion to the end position arrives.
Progress(b) ==
    IF b.motion = "toStop" /\ b.gains = "homing"
    THEN [b EXCEPT !.contact = TRUE, !.motion = "none", !.armed = FALSE]
    ELSE [b EXCEPT !.reached = (b.motion = "toEnd")]

\* push_command of every joint, and what the joints in moves come to.
Push(moves) ==
    /\ board' = [j \in Joint |->
                   LET b == Received(board[j], queue[j], gains[j])
                   IN  IF j \in moves THEN Progress(b) ELSE b]
    /\ queue' = [j \in Joint |-> Empty]

\* The status that a cycle loads was pulled before the cycle's push.
\* near_pos_setpoint of another motion than toEnd may be anything.
LoadStatus ==
    \E near \in BOOLEAN :
        /\ board[cur].motion = "toEnd" => near = board[cur].reached
        /\ seen' = [contact |-> board[cur].contact, near |-> near]

\* cb_routine_update_controller of a running routine.  The commands that it
\* dispatches at its end may hold a cancel.
Cycle == /\ \/ pc \in Updates /\ due
            \/ pc \in Waits /\ ~canceled
         /\ \E moves \in SUBSET Joint : Push(moves)
         /\ LoadStatus
         /\ due' = FALSE
         /\ n' = IF n < Ignore THEN n + 1 ELSE n
         /\ \E cancel \in BOOLEAN : /\ canceled' = (canceled \/ cancel)
                                    /\ asked' = (asked \/ cancel)
         /\ UNCHANGED <<pc, cur, ok, gains, saved, blocked, result, runs, wait>>

\* check_runstop, before a cycle.
Runstop == /\ \/ pc \in Updates /\ due
              \/ pc \in Waits
           /\ ~canceled
           /\ canceled' = TRUE
           /\ UNCHANGED <<pc, cur, due, n, ok, gains, saved, queue, board, seen,
                           blocked, result, runs, asked, wait>>

\* The cycles of the no-op routine, which push what was left in the queues.
NopCycle == /\ pc = "idle"
            /\ \E moves \in SUBSET Joint : Push(moves)
            /\ UNCHANGED <<pc, cur, due, n, canceled, ok, gains, saved, seen,
                            blocked, result, runs, asked, wait>>

-----------------------------------------------------------------------------
(* RoutineRobotHome.                                                       *)

\* run, and the first subroutine's begin.  A joint that an earlier collision
\* stopped refuses motions in that direction, and is not in contact.
Run == /\ pc = "idle"
       /\ runs < MaxRuns
       /\ runs' = runs + 1
       /\ pc' = "start" /\ cur' = 1 /\ canceled' = FALSE
       /\ asked' = FALSE
       /\ blocked' \in {f \in [Joint -> SUBSET {"toStop", "toEnd"}] :
                          \A j \in Joint : board[j].contact => f[j] = {}}
       /\ UNCHANGED <<due, n, ok, gains, saved, queue, board, seen, result, wait>>

\* Mutant of Return: the arm is not the last joint.
ReturnPastLast(r) ==
    \/ /\ r
       /\ pc' = "start" /\ cur' = cur + 1 /\ canceled' = FALSE
       /\ UNCHANGED result
    \/ /\ ~r
       /\ pc' = "idle" /\ result' = FALSE
       /\ UNCHANGED <<cur, canceled>>

\* Mutant of Return: success is not carried from joint to joint.
ReturnRegardless(r) ==
    \/ /\ cur < N
       /\ pc' = "start" /\ cur' = cur + 1 /\ canceled' = FALSE
       /\ UNCHANGED result
    \/ /\ r /\ cur = N
       /\ pc' = "endOfArm" /\ canceled' = FALSE
       /\ UNCHANGED <<cur, result>>
    \/ /\ ~r /\ cur = N
       /\ pc' = "idle" /\ result' = FALSE
       /\ UNCHANGED <<cur, canceled>>

\* The subroutine of cur returns r: the next one, or the end.  The end of arm
\* is homed last.
Return(r) ==
    \/ /\ r /\ cur < N
       /\ pc' = "start" /\ cur' = cur + 1 /\ canceled' = FALSE
       /\ UNCHANGED result
    \/ /\ r /\ cur = N
       /\ pc' = "endOfArm" /\ canceled' = FALSE
       /\ UNCHANGED <<cur, result>>
    \/ /\ ~r
       /\ pc' = "idle" /\ result' = FALSE
       /\ UNCHANGED <<cur, canceled>>

\* RoutineEndOfArmHome returns; what it does is in EndOfArmHoming.  Its wait,
\* too, does not look at a cancel that comes with the cycle that ends it.
EndOfArmHomed == /\ pc = "endOfArm"
                 /\ result' \in BOOLEAN
                 /\ pc' = "idle"
                 /\ UNCHANGED <<cur, due, n, canceled, ok, gains, saved, queue,
                                 board, seen, blocked, runs, asked, wait>>

-----------------------------------------------------------------------------
(* RoutinePrismaticJointHome._run_homing, of joint cur.                    *)

Goto(p) == /\ pc' = p
           /\ due' = (p \in Updates)
           /\ n' = 0

\* The motor is not there.
NoHardware == /\ pc = "start"
              /\ Return(FALSE)
              /\ UNCHANGED <<due, n, ok, gains, saved, queue, board, seen,
                              blocked, runs, asked, wait>>

\* Save the gains, set those of homing, and forget the calibration.
Start == /\ pc = "start"
         /\ saved' = [saved EXCEPT ![cur] = gains[cur]]
         /\ gains' = [gains EXCEPT ![cur] = "homing"]
         /\ queue' = [queue EXCEPT ![cur].trigger = @ \cup {"resetCal"},
                                   ![cur].gains = TRUE]
         /\ wait' = [wait EXCEPT ![cur] = "none"]
         /\ ok' = TRUE
         /\ Goto("begin")
         /\ UNCHANGED <<cur, canceled, board, seen, blocked, result, runs,
                         asked>>

\* move_by and move_to, which a collision stop may refuse.
Move(m) == IF m \in blocked[cur] THEN UNCHANGED queue
           ELSE queue' = [queue EXCEPT ![cur].motion = m]

GiveUp == /\ pc = "begin" /\ ~due
          /\ canceled
          /\ Return(FALSE)
          /\ UNCHANGED <<due, n, ok, gains, saved, queue, board, seen, blocked,
                          runs, asked, wait>>

MoveToStop == /\ pc = "begin" /\ ~due
              /\ ~canceled
              /\ Move("toStop")
              /\ wait' = [wait EXCEPT ![cur] = "moving"]
              /\ Goto("approach")
              /\ UNCHANGED <<cur, canceled, ok, gains, saved, board, seen,
                              blocked, result, runs, asked>>

\* A wait_duration ends: in time, or at once when canceled.
Elapsed(p) == pc = p /\ (canceled \/ n > 0)

MarkOnContact == /\ Elapsed("approach")
                 /\ queue' = [queue EXCEPT ![cur].trigger = @ \cup {"mark"}]
                 /\ Goto("arm")
                 /\ UNCHANGED <<cur, canceled, ok, gains, saved, board, seen,
                                 blocked, result, runs, asked, wait>>

AwaitContact == /\ pc = "arm" /\ ~due
                /\ Goto("contact")
                /\ UNCHANGED <<cur, canceled, ok, gains, saved, queue, board,
                                seen, blocked, result, runs, asked, wait>>

\* Mutant of Contact: a wait that times out counts as a contact.
ContactOrTimeout ==
    /\ pc = "contact" /\ n = Ignore
    /\ wait' = [wait EXCEPT ![cur] = "contact"]
    /\ Goto("touch")
    /\ UNCHANGED <<cur, canceled, ok, gains, saved, queue, board, seen,
                    blocked, result, runs, asked>>

Contact == /\ pc = "contact" /\ n = Ignore
           /\ seen.contact
           /\ wait' = [wait EXCEPT ![cur] = "contact"]
           /\ Goto("touch")
           /\ UNCHANGED <<cur, canceled, ok, gains, saved, queue, board, seen,
                           blocked, result, runs, asked>>

SetCalibrated == /\ Elapsed("touch")
                 /\ queue' = [queue EXCEPT ![cur].trigger = @ \cup {"setCal"}]
                 /\ Goto("calibrated")
                 /\ UNCHANGED <<cur, canceled, ok, gains, saved, board, seen,
                                 blocked, result, runs, asked, wait>>

\* Mutant of NoContact: a canceled wait leaves the motion and the mark.
NoContactNoSafety ==
    /\ pc = "contact"
    /\ canceled
    /\ wait' = [wait EXCEPT ![cur] = "canceled"]
    /\ Goto("settle")
    /\ ok' = FALSE
    /\ UNCHANGED <<cur, canceled, gains, saved, queue, board, seen, blocked,
                    result, runs, asked>>

\* Canceled before there was a contact: do not mark, and stop.
NoContact == /\ pc = "contact"
             /\ canceled
             /\ wait' = [wait EXCEPT ![cur] = "canceled"]
             /\ queue' = [queue EXCEPT ![cur].trigger = @ \cup {"resetMark"},
                                       ![cur].motion = "safety"]
             /\ Goto("safe")
             /\ ok' = FALSE
             /\ UNCHANGED <<cur, canceled, gains, saved, board, seen, blocked,
                             result, runs, asked>>

\* Mutant of Timeout: the wait for contact has no timeout.
NoTimeout == FALSE /\ UNCHANGED vars

\* No contact in time: nothing is taken back.
Timeout == /\ pc = "contact" /\ n > 0
           /\ ~canceled
           /\ wait' = [wait EXCEPT ![cur] = "timeout"]
           /\ Goto("settle")
           /\ ok' = FALSE
           /\ UNCHANGED <<cur, canceled, gains, saved, queue, board, seen,
                           blocked, result, runs, asked>>

Settle == /\ pc \in {"calibrated", "safe"} /\ ~due
          /\ Goto("settle")
          /\ UNCHANGED <<cur, canceled, ok, gains, saved, queue, board, seen,
                          blocked, result, runs, asked, wait>>

Restore == /\ Elapsed("settle")
           /\ gains' = [gains EXCEPT ![cur] = saved[cur]]
           /\ queue' = [queue EXCEPT ![cur].gains = TRUE]
           /\ Goto("restored")
           /\ UNCHANGED <<cur, canceled, ok, saved, board, seen, blocked,
                           result, runs, asked, wait>>

MoveToEnd == /\ pc = "restored" /\ ~due
             /\ ok
             /\ Move("toEnd")
             /\ Goto("atEnd")
             /\ UNCHANGED <<cur, canceled, ok, gains, saved, board, seen,
                             blocked, result, runs, asked, wait>>

Failed == /\ pc = "restored" /\ ~due
          /\ ~ok
          /\ Return(FALSE)
          /\ UNCHANGED <<due, n, ok, gains, saved, queue, board, seen, blocked,
                          runs, asked, wait>>

\* Mutant of AtEnd: the first status is believed.
AtEndAtOnce == /\ pc = "atEnd" /\ n > 0
               /\ seen.near
               /\ Return(TRUE)
               /\ UNCHANGED <<due, n, ok, gains, saved, queue, board, seen,
                               blocked, runs, asked, wait>>

\* A cancel is not looked at again once the wait is satisfied.
AtEnd == /\ pc = "atEnd" /\ n = Ignore
         /\ seen.near
         /\ Return(TRUE)
         /\ UNCHANGED <<due, n, ok, gains, saved, queue, board, seen, blocked,
                         runs, asked, wait>>

NotAtEnd == /\ Elapsed("atEnd")
            /\ ok' = FALSE
            /\ Return(FALSE)
            /\ UNCHANGED <<due, n, gains, saved, queue, board, seen, blocked,
                            runs, asked, wait>>

JointStep == \/ Start \/ NoHardware \/ GiveUp \/ MoveToStop \/ MarkOnContact
             \/ AwaitContact \/ Contact \/ SetCalibrated \/ NoContact \/ Timeout
             \/ Settle \/ Restore \/ MoveToEnd \/ Failed \/ AtEnd \/ NotAtEnd
             \/ EndOfArmHomed

Next == Run \/ Cycle \/ Runstop \/ NopCycle \/ JointStep

(***************************************************************************)
(* Fairness: the control loop goes on, and every wait looks at the clock.  *)
(***************************************************************************)
Fairness == WF_vars(Cycle) /\ SF_vars(JointStep)

Spec == Init /\ [][Next]_vars /\ Fairness

-----------------------------------------------------------------------------
(* Properties.                                                             *)

CalibratedMove ==
    \A j \in Joint : board'[j].calibrated /\ ~board[j].calibrated
        => wait[j] = "contact" /\ board[j].contact

\* A joint is calibrated only while it stands at the contact that the routine
\* waited for: no motion comes between (routine_homing.py:175).
CalibratedInContact == [][CalibratedMove]_vars

\* A success is a calibrated robot, with every joint at its end position but
\* those that a collision stopped, whatever was canceled in between.
SuccessMeansHomed ==
    pc = "endOfArm" \/ (pc = "idle" /\ result) =>
        \A j \in Joint : /\ board[j].calibrated
                         /\ board[j].reached \/ "toEnd" \in blocked[j]

\* What a homing leaves behind, whatever ended it.  A joint drives on to its stop, or
\* has a mark armed that would move its zero, only if it timed out waiting for the
\* contact, now or (none) in an earlier run: never when it was canceled
\* (routine_homing.py:183).  And a joint that was sent towards its stop is back in
\* the gains it had before, in the routine and in the firmware.
OnlyTimeoutStrays ==
    pc = "idle" => \A j \in Joint :
        /\ board[j].motion = "toStop" => wait[j] \in {"timeout", "none"}
        /\ wait[j] = "canceled" => ~board[j].armed
        /\ wait[j] # "none" => board[j].gains = gains[j] /\ gains[j] = saved[j]

OrderMove ==
    \A j \in Joint : board'[j].motion = "toStop" /\ board[j].motion # "toStop"
        => \A i \in 1 .. j - 1 : board[i].calibrated /\ board[i].motion # "toStop"

\* The arm moves to its stop only when the lift is homed and does not move to
\* its own stop any more.
LiftFirst == [][OrderMove]_vars

\* A homing ends, whatever does not happen: every wait has a timeout.
HomingEnds == pc # "idle" ~> pc = "idle"

CancelMove ==
    asked => \A j \in Joint :
        board'[j].motion \in {board[j].motion, "none", "safety"}

\* A routine generates motions "until the routine finishes or is explicitly
\* canceled" (docs/primer_behaviors.md:21): after a cancel, none starts.
CancelEndsMotion == [][CancelMove]_vars

=============================================================================
