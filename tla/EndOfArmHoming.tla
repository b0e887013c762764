--------------------------- MODULE EndOfArmHoming ---------------------------
(***************************************************************************)
(* The homing of the end of arm: RoutineEndOfArmHome in the server process *)
(* (behavior/routines/routine_homing.py), the worker process that owns the *)
(* wrist (subsystem/end_of_arm/end_of_arm_loop.py) and the homing threads  *)
(* it starts (EndOfArm._home_all_joints, FeetechSMHello.pre_home and home).*)
(*                                                                         *)
(* The server puts commands on q_cmd and reads the worker's status.  Each  *)
(* home command gives the worker a new thread; a cancel command sets       *)
(* cancel_homing_event, which all threads and all joints share.            *)
(*                                                                         *)
(* The joints are 1 .. Servos in the order they are homed, Pitch among     *)
(* them.                                                                   *)
(* Loss of commands by overflow of q_cmd (100 places) is not modelled here.*)
(* No name is also one of Homing, so that a module may extend both.        *)
(***************************************************************************)
EXTENDS Naturals, Sequences, FiniteSets

CONSTANTS Servos,   \* number of joints of the end of arm
          Pitch,    \* the wrist_pitch, 0 if there is none
          MaxHomes  \* bound: how often the end of arm is homed

ASSUME EoaJointAssumption == Servos \in Nat \ {0} /\ Pitch \in 0 .. Servos
ASSUME HomesAssumption == MaxHomes \in Nat

VARIABLES routine,     \* where RoutineEndOfArmHome is
          isCanceled,  \* its is_canceled
          succeeded,   \* what it last returned
          homes,       \* how often it began
          qCmd,        \* q_cmd, without the other commands it carries
          posted,      \* the worker's last status message
          status,      \* the one the server last read
          event,       \* cancel_homing_event
          isHoming,    \* status['is_homing'] of the worker
          thread,      \* thread[t]: where the t-th homing thread is
          calibrated,  \* status['pos_calibrated'] of each joint
          offset,      \* offset[j]: the servo's encoder offset is valid
          atEnd,       \* atEnd[j]: j was moved to its end position
          overlap      \* history: two threads were alive at once

server == <<routine, isCanceled, succeeded, homes, status>>
joints == <<calibrated, offset, atEnd>>
eoaVars == <<server, qCmd, posted, event, isHoming, thread, joints, overlap>>

EoaJoint == 1 .. Servos
Thread == 1 .. MaxHomes
Place == {"none", "new", "preHome", "next", "drive", "marked", "locked",
          "toEnd", "done", "died"}
\* A message tells is_homing, and how many threads had begun when it was made.
Message == [homing : BOOLEAN, begun : 0 .. MaxHomes]
Quiet == [homing |-> FALSE, begun |-> 0]

EoaTypeOK == /\ routine \in {"idle", "begin", "poll"}
             /\ isCanceled \in BOOLEAN
             /\ succeeded \in BOOLEAN
             /\ homes \in 0 .. MaxHomes
             /\ qCmd \in Seq({"home", "cancel"}) /\ Len(qCmd) <= 3 * MaxHomes
             /\ posted \in Message /\ status \in Message
             /\ event \in BOOLEAN
             /\ isHoming \in BOOLEAN
             /\ thread \in [Thread -> [at : Place, joint : EoaJoint]]
             /\ calibrated \in [EoaJoint -> BOOLEAN]
             /\ offset \in [EoaJoint -> BOOLEAN]
             /\ atEnd \in [EoaJoint -> BOOLEAN]
             /\ overlap \in BOOLEAN

EoaInit == /\ routine = "idle" /\ isCanceled = FALSE /\ succeeded = FALSE /\ homes = 0
           /\ qCmd = <<>> /\ posted = Quiet /\ status = Quiet
           /\ event = FALSE /\ isHoming = FALSE
           /\ thread = [t \in Thread |-> [at |-> "none", joint |-> 1]]
           /\ calibrated = [j \in EoaJoint |-> FALSE]
           /\ offset = [j \in EoaJoint |-> FALSE]
           /\ atEnd = [j \in EoaJoint |-> FALSE]
           /\ overlap = FALSE

Alive(t) == thread[t].at \notin {"none", "done", "died"}
Begun(t) == thread[t].at \notin {"none", "new"}

-----------------------------------------------------------------------------
(* The server: RoutineEndOfArmHome.                                        *)

Home == /\ routine = "idle"
        /\ homes < MaxHomes
        /\ homes' = homes + 1
        /\ qCmd' = Append(qCmd, "home")
        /\ routine' = "begin"
        /\ isCanceled' = FALSE
        /\ UNCHANGED <<succeeded, status, posted, event, isHoming, thread, joints,
                        overlap>>

\* cancel, by a command of a client or by check_runstop.
Cancel == /\ routine # "idle"
          /\ ~isCanceled
          /\ isCanceled' = TRUE
          /\ qCmd' = Append(qCmd, "cancel")
          /\ UNCHANGED <<routine, succeeded, homes, status, posted, event, isHoming,
                          thread, joints, overlap>>

\* EndOfArmLoop.pull_status, in each control cycle.
Pull == /\ status' = posted
        /\ UNCHANGED <<routine, isCanceled, succeeded, homes, qCmd, posted, event,
                        isHoming, thread, joints, overlap>>

\* Mutant of HomingBegun: do not let the homing begin.
HomingBegunAtOnce == /\ routine = "begin"
                     /\ routine' = "poll"
                     /\ UNCHANGED <<isCanceled, succeeded, homes, status, qCmd, posted,
                                     event, isHoming, thread, joints, overlap>>

\* "Let homing begin": 1.5 s, in which the worker takes the command, its thread
\* begins and a status that says so arrives.
HomingBegun == /\ routine = "begin"
               /\ status.begun = homes
               /\ routine' = "poll"
               /\ UNCHANGED <<isCanceled, succeeded, homes, status, qCmd, posted,
                               event, isHoming, thread, joints, overlap>>

\* The end of homing is success.  A cancel that came with the same cycle is
\* not looked at.
Success == /\ routine = "poll"
           /\ ~status.homing
           /\ routine' = "idle"
           /\ succeeded' = TRUE
           /\ UNCHANGED <<isCanceled, homes, status, qCmd, posted, event,
                           isHoming, thread, joints, overlap>>

\* Mutant of NotOver: wait for the end of homing or a cancel, however long.
NotOverUntimed == /\ isCanceled
                  /\ routine \in {"begin", "poll"}
                  /\ qCmd' = Append(qCmd, "cancel")
                  /\ isCanceled' = TRUE
                  /\ succeeded' = FALSE
                  /\ routine' = "idle"
                  /\ UNCHANGED <<homes, status, posted, event, isHoming, thread,
                                  joints, overlap>>

\* Canceled, or timed out after 45 s: cancel, for the second time if canceled.
NotOver == /\ routine = "poll" \/ (routine = "begin" /\ isCanceled)
           /\ qCmd' = Append(qCmd, "cancel")
           /\ isCanceled' = TRUE
           /\ succeeded' = FALSE
           /\ routine' = "idle"
           /\ UNCHANGED <<homes, status, posted, event, isHoming, thread,
                           joints, overlap>>

-----------------------------------------------------------------------------
(* The worker process: _cb_end_of_arm_loop_step.                           *)

Post == /\ posted' = [homing |-> isHoming,
                      begun |-> Cardinality({t \in Thread : Begun(t)})]
        /\ UNCHANGED <<server, qCmd, event, isHoming, thread, joints, overlap>>

\* EndOfArm.home, with wait_on_completion False: the thread of the run whose
\* command this is.
TakeHome ==
    /\ qCmd # <<>> /\ Head(qCmd) = "home"
    /\ qCmd' = Tail(qCmd)
    /\ \E t \in Thread :
          /\ \A u \in Thread : (thread[u].at = "none") <=> (u >= t)
          /\ thread' = [thread EXCEPT ![t].at = "new"]
          /\ overlap' = (overlap \/ \E u \in Thread : Alive(u))
    /\ UNCHANGED <<server, posted, event, isHoming, joints>>

\* EndOfArm.cancel_homing.
TakeCancel == /\ qCmd # <<>> /\ Head(qCmd) = "cancel"
              /\ qCmd' = Tail(qCmd)
              /\ event' = TRUE
              /\ UNCHANGED <<server, posted, isHoming, thread, joints, overlap>>

-----------------------------------------------------------------------------
(* A homing thread t: _home_all_joints, with pre_home and home inlined.    *)

At(t, p) == thread' = [thread EXCEPT ![t].at = p]

Begin(t) == /\ thread[t].at = "new"
            /\ isHoming' = TRUE
            /\ IF Pitch = 0 THEN At(t, "next") /\ UNCHANGED event
               ELSE At(t, "preHome") /\ event' = FALSE
            /\ UNCHANGED <<server, qCmd, posted, joints, overlap>>

End(t) == /\ At(t, "done")
          /\ isHoming' = FALSE

\* pre_home swings the pitch joint both ways, in PWM mode and back in position
\* mode, and may time out.
PreHomed(t) ==
    /\ thread[t].at = "preHome"
    /\ \E success \in BOOLEAN :
          IF ~success \/ event THEN End(t) ELSE At(t, "next") /\ UNCHANGED isHoming
    /\ UNCHANGED <<server, qCmd, posted, event, joints, overlap>>

\* A call of pre_home to the servo fails, and nothing catches the exception:
\* the thread dies and leaves is_homing set.
PreHomeRaises(t) == /\ thread[t].at = "preHome"
                    /\ At(t, "died")
                    /\ UNCHANGED <<server, qCmd, posted, event, isHoming, joints,
                                    overlap>>

\* home begins: the cancel event is cleared, and PWM mode makes the encoder
\* offset invalid.
Drive(t) ==
    /\ thread[t].at = "next"
    /\ At(t, "drive")
    /\ event' = FALSE
    /\ offset' = [offset EXCEPT ![thread[t].joint] = FALSE]
    /\ atEnd' = [atEnd EXCEPT ![thread[t].joint] = FALSE]
    /\ UNCHANGED <<server, qCmd, posted, isHoming, calibrated, overlap>>

\* No hardware, or nothing to home; the event is cleared all the same.
Refuse(t) == /\ thread[t].at = "next"
             /\ event' = FALSE
             /\ End(t)
             /\ UNCHANGED <<server, qCmd, posted, joints, overlap>>

\* Mutant of Fail: the loop over the joints goes on.
FailAndGoOn(t) ==
    /\ thread[t].at \in {"drive", "marked", "locked", "toEnd"}
    /\ IF thread[t].joint = Servos THEN End(t)
       ELSE /\ thread' = [thread EXCEPT ![t] = [at |-> "next", joint |-> @.joint + 1]]
            /\ UNCHANGED isHoming
    /\ UNCHANGED <<server, qCmd, posted, event, joints, overlap>>

\* The drive to the stop times out or is found canceled at its end, or the
\* servo fails there or later.
Fail(t) == /\ thread[t].at \in {"drive", "marked", "locked", "toEnd"}
           /\ End(t)
           /\ UNCHANGED <<server, qCmd, posted, event, joints, overlap>>

\* At the stop: the joint says that it is calibrated.
Mark(t) == /\ thread[t].at = "drive"
           /\ ~event
           /\ calibrated' = [calibrated EXCEPT ![thread[t].joint] = TRUE]
           /\ At(t, "marked")
           /\ UNCHANGED <<server, qCmd, posted, event, isHoming, offset, atEnd,
                           overlap>>

\* Back to position mode, which locks in the offset.
EnablePos(t) == /\ thread[t].at = "marked"
                /\ offset' = [offset EXCEPT ![thread[t].joint] = TRUE]
                /\ At(t, "locked")
                /\ UNCHANGED <<server, qCmd, posted, event, isHoming, calibrated,
                                atEnd, overlap>>

\* Move to the end position, unless canceled since.
MoveToEndPos(t) == /\ thread[t].at = "locked"
                   /\ IF event THEN UNCHANGED atEnd
                      ELSE atEnd' = [atEnd EXCEPT ![thread[t].joint] = TRUE]
                   /\ At(t, "toEnd")
                   /\ UNCHANGED <<server, qCmd, posted, event, isHoming,
                                   calibrated, offset, overlap>>

\* Mutant of NextJoint: the loop has no last joint.
NextJointAlways(t) ==
    /\ thread[t].at = "toEnd"
    /\ thread' = [thread EXCEPT ![t] = [at |-> "next", joint |-> @.joint + 1]]
    /\ UNCHANGED <<server, qCmd, posted, event, isHoming, joints, overlap>>

\* home returns True.  A cancel is logged, and the next joint is homed.
NextJoint(t) == /\ thread[t].at = "toEnd"
                /\ IF thread[t].joint = Servos THEN End(t)
                   ELSE /\ thread' = [thread EXCEPT ![t] =
                                       [at |-> "next", joint |-> @.joint + 1]]
                        /\ UNCHANGED isHoming
                /\ UNCHANGED <<server, qCmd, posted, event, joints, overlap>>

ThreadStep(t) == \/ Begin(t) \/ PreHomed(t) \/ PreHomeRaises(t)
                 \/ Drive(t) \/ Refuse(t) \/ Fail(t)
                 \/ Mark(t) \/ EnablePos(t) \/ MoveToEndPos(t) \/ NextJoint(t)

Worker == Post \/ TakeHome \/ TakeCancel

EoaNext == \/ Home \/ Cancel \/ Pull \/ HomingBegun \/ Success \/ NotOver
           \/ Worker
           \/ \E t \in Thread : ThreadStep(t)

(***************************************************************************)
(* Fairness: the control cycle, the worker's loop and the threads go on,   *)
(* and the waits of the routine look at the clock.                         *)
(***************************************************************************)
EoaFairness == /\ WF_eoaVars(Pull) /\ WF_eoaVars(Post)
               /\ WF_eoaVars(TakeHome) /\ WF_eoaVars(TakeCancel)
               /\ WF_eoaVars(HomingBegun \/ Success \/ NotOver)
               /\ \A t \in Thread : WF_eoaVars(ThreadStep(t))

EoaSpec == EoaInit /\ [][EoaNext]_eoaVars /\ EoaFairness

-----------------------------------------------------------------------------
(* Properties.                                                             *)

\* A success is returned only when the homing is over: no thread of this run
\* still moves a joint (routine_homing.py:62-71), unless an earlier one was
\* still alive when it began.
SuccessMeansOver ==
    routine = "idle" /\ succeeded /\ ~overlap => \A t \in Thread : ~Alive(t)

\* A joint is driven to its stop only when all before it are calibrated, with
\* a valid offset: a failure ends the homing (end_of_arm.py:443-449).
HomedInOrder ==
    ~overlap => \A t \in Thread :
        thread[t].at = "drive" =>
            \A j \in 1 .. thread[t].joint - 1 : calibrated[j] /\ offset[j]

\* While the end of arm says that it homes, a homing is under way that is to
\* take that back, unless a thread died of an exception in pre_home
\* (end_of_arm.py:428): the flag is one for all the threads, and each one that
\* ends clears it (end_of_arm.py:432 and 453).
HomingHasThread == isHoming => \E t \in Thread : \/ Alive(t) /\ Begun(t)
                                                \/ thread[t].at = "died"

\* Whatever fails or is canceled, and however many threads there are, the
\* routine returns, and the end of arm, which never says that it homes without
\* a thread that does, stops saying so, unless a thread died of an exception
\* in pre_home (end_of_arm.py:428).
EoaHomingEnds == /\ routine # "idle" ~> routine = "idle"
                 /\ isHoming ~> \/ ~isHoming
                                \/ \E t \in Thread : thread[t].at = "died"
                 /\ []HomingHasThread

\* "a value on yaw or roll holds that joint clear while pitch sweeps to its
\* hardstop" (docs/primer_end_of_arm.md:209).
PitchSweepsClear ==
    ~overlap => \A t \in Thread :
        thread[t].at = "drive" /\ thread[t].joint = Pitch
            => \A j \in 1 .. Pitch - 1 : atEnd[j]
=============================================================================
