---------------------------- MODULE CollisionStop ----------------------------
(***************************************************************************)
(* The self collision sentry and the collision stops of the joints.        *)
(*                                                                         *)
(* Each control cycle pushes the queued commands, steps the sentry and     *)
(* dispatches the clients' commands.  The sentry                           *)
(* (behavior/sentries/sentry_self_collision.py) sends the configuration of *)
(* the robot to the process of the solver, takes the latest status that    *)
(* process has posted, and hands every link's direction to the joint that  *)
(* moves the link.  A prismatic joint (core/prismatic_joint.py) is stepped *)
(* in the control loop.  A wrist joint (core/feetech/feetech_SM_hello.py)  *)
(* lives in the process of the end of arm: its commands and its steps go   *)
(* through a queue.  A routine runs in the control loop's own thread, and  *)
(* most of them pause the sentry.                                          *)
(*                                                                         *)
(* A command may fail to reach its motor: the code logs that, or finds the *)
(* board gone, and goes on as if it had, also when the command is a stop.  *)
(*                                                                         *)
(* A direction is 1 or -1, and 0 is no motion or no answer; positions,     *)
(* targets and speeds are abstracted to them.  Time is counted in control  *)
(* cycles.                                                                 *)
(***************************************************************************)
EXTENDS Integers, Sequences

CONSTANTS Prismatic,  \* joints stepped in the control loop
          Wrist,      \* joints of the end of arm, stepped in its process
          LinkJoint,  \* urdf_joints_to_sentry, each as the joint that moves it
          Reach,      \* positions of a joint are 0 .. Reach
          Resolves,   \* external, the solver: for a configuration, the direction
                      \* of each link that resolves its collisions
          Hold,       \* control cycles in the second that a stop is held
          MaxInbox    \* bound: messages that wait for the end of arm

Joint == Prismatic \cup Wrist
Dirs == {-1, 1}
Motion == {-1, 0, 1}
Links == 1 .. Len(LinkJoint)
Config == [Joint -> 0 .. Reach]
Answer == [Links -> Motion]

ASSUME JointAssumption == Prismatic \cap Wrist = {}
ASSUME LinkAssumption == LinkJoint \in Seq(Joint) \ {<<>>}
ASSUME SolverAssumption == Resolves \in [Config -> Answer]
ASSUME BoundAssumption == Reach \in Nat /\ Hold \in Nat /\ MaxInbox \in Nat \ {0}

VARIABLES pc,         \* place in the control cycle
          link,       \* the link the sentry is at
          active,     \* status['active'] of the sentry: no routine or user paused it
          homed,      \* joints with pos_calibrated
          runstopped, \* wrist joints with was_runstopped
          pose,       \* position of each joint
          motion,     \* motion[j]: the direction the motor of j moves in
          missed,     \* history: joints whose motor missed the latest stop of the
                      \* direction it moves in, and has obeyed nothing since
          queued,     \* queued[j]: the command that waits for push_command, if any
          stop,       \* stop[j][d]: 0, or 1 + the age of in_collision_stop[d]
          asked,      \* q_cmd of the solver: the answer to the latest
                      \* configuration, if it has not been taken
          posted,     \* q_status of the solver: the answer in its latest status,
                      \* if it has one and has not been taken
          known,      \* the status the sentry retains: collision_directions
          inbox       \* q_cmd of the end of arm, in order

solver == <<asked, posted>>
joints == <<motion, missed, queued, stop>>
vars == <<pc, link, active, homed, runstopped, pose, joints, solver, known, inbox>>

Message == [kind : {"avoid", "move"}, joint : Wrist, dir : Motion]
Last == Len(LinkJoint)

TypeOK == /\ pc \in {"push", "sentry", "links", "dispatch"}
          /\ link \in Links
          /\ active \in BOOLEAN
          /\ homed \in SUBSET Joint
          /\ runstopped \in SUBSET Wrist
          /\ pose \in Config
          /\ motion \in [Joint -> Motion]
          /\ missed \in SUBSET Joint
          /\ queued \in [Prismatic -> SUBSET Dirs]
          /\ stop \in [Joint -> [Dirs -> 0 .. Hold + 2]]
          /\ asked \in SUBSET Answer
          /\ posted \in SUBSET Answer
          /\ known \in Answer
          /\ inbox \in Seq(Message)

Init == /\ pc = "push" /\ link = 1 /\ active = TRUE /\ homed = Joint
        /\ runstopped = {} /\ missed = {}
        /\ pose \in Config
        /\ motion = [j \in Joint |-> 0]
        /\ queued = [j \in Prismatic |-> {}]
        /\ stop = [j \in Joint |-> [d \in Dirs |-> 0]]
        /\ asked = {} /\ posted = {}
        /\ known = [l \in Links |-> 0]
        /\ inbox = <<>>

\* The sentry is stepped and does something.
Watched == active /\ homed = Joint

-----------------------------------------------------------------------------
(* Joints.                                                                 *)

Step(x, d) == IF x + d \in 0 .. Reach THEN x + d ELSE x

\* The configuration the sentry sends: where each joint would come to rest.
Configuration == [j \in Joint |-> Step(pose[j], motion[j])]

\* Mutant of StopsFor: a stop is never released.
StopsForKeep(s, dir) == [d \in Dirs |-> IF dir = -d /\ s[d] = 0 THEN 1 ELSE s[d]]

\* Mutant of StopsFor: the direction that resolves the collision is stopped.
StopsForSwapped(s, dir) == [d \in Dirs |-> IF dir = d THEN IF s[d] = 0 THEN 1 ELSE s[d]
                                           ELSE IF s[d] > Hold + 1 THEN 0 ELSE s[d]]

\* step_collision_avoidance, with the direction dir that resolves a collision of
\* the joint, 0 for none: the stop of the other direction is set, and a stop that
\* no collision asks for is released once it is older than Hold.
StopsFor(s, dir) == [d \in Dirs |-> IF dir = -d THEN IF s[d] = 0 THEN 1 ELSE s[d]
                                    ELSE IF s[d] > Hold + 1 THEN 0 ELSE s[d]]
NewStop(s, dir) == \E d \in Dirs : dir = -d /\ s[d] = 0

\* The motor of j is told to stop, because it must not move in direction d.  The
\* communication error of a servo is logged (quick_stop), the result of a push is
\* not looked at (push_command): the motor goes on, and nobody knows.
Halt(j, d) ==
    \/ motion' = [motion EXCEPT ![j] = 0] /\ missed' = missed \ {j}
    \/ /\ missed' = IF motion[j] = d THEN missed \cup {j} ELSE missed
       /\ UNCHANGED motion

\* Mutant of AvoidPrismatic: the safety mode is not pushed.
AvoidPrismaticNoPush(j, dir) ==
    IF j \notin homed THEN UNCHANGED joints
    ELSE stop' = [stop EXCEPT ![j] = StopsFor(@, dir)] /\ UNCHANGED <<motion, missed, queued>>

\* A joint of the control loop is stepped: a new stop replaces whatever waits for
\* it by the safety mode, and pushes that at once; the stop is set also when the
\* push fails, and not tried again while it is.
AvoidPrismatic(j, dir) ==
    IF j \notin homed THEN UNCHANGED joints
    ELSE /\ stop' = [stop EXCEPT ![j] = StopsFor(@, dir)]
         /\ IF NewStop(stop[j], dir)
            THEN Halt(j, -dir) /\ queued' = [queued EXCEPT ![j] = {}]
            ELSE UNCHANGED <<motion, missed, queued>>

\* A joint of the end of arm is stepped in its process; a runstopped one takes no
\* new stop.  Its stop too is set whether or not the servo obeyed.
AvoidWrist(j, dir) ==
    LET due == IF j \in runstopped /\ NewStop(stop[j], dir) THEN 0 ELSE dir
    IN  IF j \notin homed THEN UNCHANGED <<motion, missed, stop>>
        ELSE /\ stop' = [stop EXCEPT ![j] = StopsFor(@, due)]
             /\ IF NewStop(stop[j], due) THEN Halt(j, -due) ELSE UNCHANGED <<motion, missed>>

\* Mutant of Accepts: the direction that leads out of the collision is refused.
AcceptsOpposite(j, dir) == stop[j][-dir] = 0

\* set_velocity, move_to and move_by refuse a direction that is stopped.
Accepts(j, dir) == stop[j][dir] = 0

Room == Len(inbox) < MaxInbox
Send(kind, j, dir) == inbox' = Append(inbox, [kind |-> kind, joint |-> j, dir |-> dir])

\* A command reaches the joint: it is queued for the next push_command, or sent to
\* the end of arm, which checks it when it takes it.
Order(j, dir) ==
    \/ /\ j \in Prismatic
       /\ queued' = IF Accepts(j, dir) THEN [queued EXCEPT ![j] = {dir}] ELSE queued
       /\ UNCHANGED inbox
    \/ /\ j \in Wrist /\ Room
       /\ Send("move", j, dir)
       /\ UNCHANGED queued

-----------------------------------------------------------------------------
(* The control cycle.                                                      *)

\* The commands that wait reach their motors, except those of lost.
Command(lost) ==
    LET given == {j \in Prismatic : queued[j] # {}} \ lost
    IN  /\ motion' = [j \in Joint |-> IF j \in given THEN CHOOSE d \in queued[j] : TRUE
                                      ELSE motion[j]]
        /\ missed' = missed \ given
        /\ queued' = [j \in Prismatic |-> {}]

\* Mutant of Push: the age of a stop is not bounded as it is assumed to be.
PushUnbounded ==
    /\ pc = "push"
    /\ \E lost \in SUBSET Prismatic : Command(lost)
    /\ pose' = [j \in Joint |-> Step(pose[j], motion'[j])]
    /\ stop' = [j \in Joint |-> [d \in Dirs |-> IF stop[j][d] > 0 THEN stop[j][d] + 1 ELSE 0]]
    /\ pc' = "sentry"
    /\ UNCHANGED <<link, active, homed, runstopped, solver, known, inbox>>

\* push_command: each prismatic joint is sent what waits for it; the cycle passes.
Push ==
    /\ pc = "push"
    /\ \E lost \in SUBSET Prismatic : Command(lost)
    /\ pose' = [j \in Joint |-> Step(pose[j], motion'[j])]
    /\ stop' = [j \in Joint |-> [d \in Dirs |->
                  IF stop[j][d] \in 1 .. Hold + 1 THEN stop[j][d] + 1 ELSE stop[j][d]]]
    /\ pc' = "sentry"
    /\ UNCHANGED <<link, active, homed, runstopped, solver, known, inbox>>

\* The sentry is stepped: unless it is paused or the robot is not homed, it sends
\* the configuration and takes the latest status, if one has arrived.
StepSentry ==
    /\ pc = "sentry"
    /\ IF Watched
       THEN /\ asked' = {Resolves[Configuration]}
            /\ known' = IF posted = {} THEN known ELSE CHOOSE a \in posted : TRUE
            /\ posted' = {}
            /\ pc' = "links" /\ link' = 1
       ELSE pc' = "dispatch" /\ UNCHANGED <<link, solver, known>>
    /\ UNCHANGED <<active, homed, runstopped, pose, joints, inbox>>

\* The next link's direction is handed to its joint; no direction while the sentry
\* is being paused.
StepLink ==
    /\ pc = "links"
    /\ LET j == LinkJoint[link]
           dir == IF active THEN known[link] ELSE 0
       IN  \/ j \in Prismatic /\ AvoidPrismatic(j, dir) /\ UNCHANGED inbox
           \/ j \in Wrist /\ Room /\ Send("avoid", j, dir) /\ UNCHANGED joints
    /\ IF link < Last THEN link' = link + 1 /\ UNCHANGED pc
       ELSE link' = 1 /\ pc' = IF active THEN "dispatch" ELSE "push"
    /\ UNCHANGED <<active, homed, runstopped, pose, solver, known>>

\* The clients' commands are dispatched: none, or one for a homed joint.
Dispatch ==
    /\ pc = "dispatch"
    /\ pc' = "push"
    /\ \/ UNCHANGED <<queued, inbox>>
       \/ \E j \in homed, dir \in Dirs : Order(j, dir)
    /\ UNCHANGED <<link, active, homed, runstopped, pose, motion, missed, stop, solver, known>>

\* A routine, or a user, pauses the sentry, which steps the joint of every link once
\* without a collision.
Pause ==
    /\ pc = "push" /\ active
    /\ active' = FALSE
    /\ pc' = "links" /\ link' = 1
    /\ UNCHANGED <<homed, runstopped, pose, joints, solver, known, inbox>>

Unpause ==
    /\ pc = "push" /\ ~active
    /\ active' = TRUE
    /\ UNCHANGED <<pc, link, homed, runstopped, pose, joints, solver, known, inbox>>

\* A routine commands a joint, also one that is not homed.
RoutineMove(j, dir) ==
    /\ pc = "push" /\ ~active
    /\ Order(j, dir)
    /\ UNCHANGED <<pc, link, active, homed, runstopped, pose, motion, missed, stop, solver,
                   known>>

\* Homing marks a joint as not calibrated, and as calibrated when it succeeds.  The
\* homing of the wrist joints is in EndOfArmHoming.
Uncalibrate(j) ==
    /\ pc = "push" /\ ~active /\ j \in homed
    /\ homed' = homed \ {j}
    /\ UNCHANGED <<pc, link, active, runstopped, pose, joints, solver, known, inbox>>

Calibrate(j) ==
    /\ pc = "push" /\ ~active /\ j \notin homed
    /\ homed' = homed \cup {j}
    /\ UNCHANGED <<pc, link, active, runstopped, pose, joints, solver, known, inbox>>

-----------------------------------------------------------------------------
(* The other processes, and the motors.                                    *)

\* The process of the solver: it answers the latest configuration.  A step that
\* finds none still posts a status, which hides the one before; it runs at 60 Hz
\* and the control loop at 100 Hz, so it finds one while the sentry is stepped.
Solve ==
    /\ asked # {} \/ ~Watched
    /\ posted' = asked /\ asked' = {}
    /\ UNCHANGED <<pc, link, active, homed, runstopped, pose, joints, known, inbox>>

\* The process of the end of arm takes its next message; a motion may fail to reach
\* the servo.
EndOfArmStep ==
    /\ inbox # <<>>
    /\ inbox' = Tail(inbox)
    /\ LET m == Head(inbox)
       IN  \/ m.kind = "avoid" /\ AvoidWrist(m.joint, m.dir)
           \/ /\ m.kind = "move"
              /\ m.joint \notin runstopped /\ m.joint \in homed /\ Accepts(m.joint, m.dir)
              /\ motion' = [motion EXCEPT ![m.joint] = m.dir]
              /\ missed' = missed \ {m.joint}
              /\ UNCHANGED stop
           \/ m.kind = "move" /\ UNCHANGED <<motion, missed, stop>>
    /\ UNCHANGED <<pc, link, active, homed, runstopped, pose, queued, solver, known>>

\* step_sentry of a wrist joint sees the runstop change: its motor stops, and holds
\* or is released, unless the servo misses it.
RunStop(j) ==
    /\ runstopped' = IF j \in runstopped THEN runstopped \ {j} ELSE runstopped \cup {j}
    /\ \/ motion' = [motion EXCEPT ![j] = 0] /\ missed' = missed \ {j}
       \/ UNCHANGED <<motion, missed>>
    /\ UNCHANGED <<pc, link, active, homed, pose, queued, stop, solver, known, inbox>>

\* A motor reaches its target, or is stopped: by a command without a direction or
\* by anything else.
Arrive(j) ==
    /\ motion[j] # 0
    /\ motion' = [motion EXCEPT ![j] = 0]
    /\ missed' = missed \ {j}
    /\ UNCHANGED <<pc, link, active, homed, runstopped, pose, queued, stop, solver,
                   known, inbox>>

Server == Push \/ StepSentry \/ StepLink \/ Dispatch
Routine == \/ Pause \/ Unpause
           \/ \E j \in Prismatic : Uncalibrate(j) \/ Calibrate(j)
           \/ \E j \in Joint, dir \in Dirs : RoutineMove(j, dir)
Next == \/ Server \/ Routine \/ Solve \/ EndOfArmStep
        \/ \E j \in Wrist : RunStop(j)
        \/ \E j \in Joint : Arrive(j)

Spec == Init /\ [][Next]_vars
LiveSpec == Spec /\ WF_vars(Server) /\ WF_vars(Solve) /\ WF_vars(EndOfArmStep)

-----------------------------------------------------------------------------
(* Properties.                                                             *)

\* A joint with a stop neither moves in the stopped direction nor has a command
\* in that direction waiting: whatever was queued, sent to the end of arm or
\* running when the stop was set has been replaced.  Only a motor that missed the
\* stop goes on as before, until it obeys anything at all.
StopMeansStill == \A j \in Joint, d \in Dirs : stop[j][d] # 0 =>
                     /\ motion[j] # d \/ j \in missed
                     /\ j \in Prismatic => d \notin queued[j]

\* No later link moves the joint that link l moves.
IsLast(l) == \A k \in Links : k > l => LinkJoint[k] # LinkJoint[l]

\* When the clients' commands are dispatched, a joint of the control loop whose
\* last link the solver reports has the stop, however long ago it was set and
\* whatever the links before it asked for.
ReportedIsStopped ==
    pc = "dispatch" /\ Watched =>
        \A l \in Links, d \in Dirs :
            LinkJoint[l] \in Prismatic /\ IsLast(l) /\ known[l] = -d
                => stop[LinkJoint[l]][d] # 0

\* No joint is locked for ever: once the configuration of the robot stays clear of
\* collisions that the joint could resolve, with the sentry running, its stops are
\* released.
Clear(j) == \A l \in Links : LinkJoint[l] = j => Resolves[Configuration][l] = 0
StopsEnd == \A j \in Joint : <>[](Watched /\ Clear(j)) => <>[](\A d \in Dirs : stop[j][d] = 0)

\* A collision is answered: a joint whose last link stays in a collision does not
\* move further into it for ever, though the answer passes through the solver and,
\* for the wrist, through the end of arm, unless its motor misses the stop that
\* answers it.
CollisionsStop ==
    \A l \in Links, d \in Dirs :
        <>[](/\ Watched /\ LinkJoint[l] \notin runstopped \cup missed
             /\ IsLast(l) /\ Resolves[Configuration][l] = -d)
            => <>[](motion[LinkJoint[l]] # d)
=============================================================================
