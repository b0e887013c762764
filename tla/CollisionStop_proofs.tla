------------------------- MODULE CollisionStop_proofs -------------------------
(***************************************************************************)
(* Proofs about CollisionStop: its types, and that a joint with a stop is  *)
(* still unless its motor missed the stop.  StopMeansStill is inductive    *)
(* with the types alone: a command is checked against the stops in the     *)
(* step that queues it or sends it on to the motor, and the step that sets *)
(* a stop also stops the joint or counts it among those that missed it.    *)
(***************************************************************************)
EXTENDS CollisionStop, TLAPS

\* The constants of the module, as facts for the provers.
LEMMA ConstantFacts ==
    /\ Last \in Nat \ {0} /\ 1 \in Links
    /\ \A l \in Links : LinkJoint[l] \in Joint
    /\ \A c \in Config : Resolves[c] \in Answer
    /\ Hold \in Nat /\ Prismatic \subseteq Joint /\ Wrist \subseteq Joint
BY LinkAssumption, SolverAssumption, BoundAssumption, SMT DEF Last, Links, Joint

\* A joint's stops stay stops: StopsFor keeps their ages within Hold + 2.
LEMMA StopsForType ==
    ASSUME NEW s \in [Dirs -> 0 .. Hold + 2], NEW dir \in Motion
    PROVE  StopsFor(s, dir) \in [Dirs -> 0 .. Hold + 2]
BY BoundAssumption, SMT DEF StopsFor, Dirs, Motion

\* After StopsFor a direction is stopped only if it was, or if it has just been:
\* NewStop tells.
LEMMA StopsForStop ==
    ASSUME NEW s \in [Dirs -> 0 .. Hold + 2], NEW dir \in Motion, NEW d \in Dirs,
           StopsFor(s, dir)[d] # 0
    PROVE  s[d] # 0 \/ NewStop(s, dir)
BY SMT DEF StopsFor, NewStop, Dirs, Motion

LEMMA StepType ==
    ASSUME NEW x \in 0 .. Reach, NEW d \in Motion
    PROVE  Step(x, d) \in 0 .. Reach
BY BoundAssumption, SMT DEF Step, Motion

LEMMA ConfigurationType ==
    ASSUME pose \in Config, motion \in [Joint -> Motion]
    PROVE  Configuration \in Config
BY StepType DEF Configuration, Config

-----------------------------------------------------------------------------
LEMMA InitType == Init => TypeOK
<1> SUFFICES ASSUME Init PROVE TypeOK
    OBVIOUS
<1>1. \A j \in Joint : stop[j] \in [Dirs -> 0 .. Hold + 2]
    <2>1. 0 \in 0 .. Hold + 2
        BY BoundAssumption
    <2> QED
        BY <2>1 DEF Init
<1>2. stop \in [Joint -> [Dirs -> 0 .. Hold + 2]]
    BY <1>1 DEF Init
<1>3. known \in Answer
    BY DEF Init, Answer, Motion
<1>4. motion \in [Joint -> Motion] /\ queued \in [Prismatic -> SUBSET Dirs]
    BY DEF Init, Motion
<1>5. inbox \in Seq(Message)
    BY DEF Init
<1>6. /\ homed \in SUBSET Joint /\ runstopped \in SUBSET Wrist /\ missed \in SUBSET Joint
      /\ asked \in SUBSET Answer /\ posted \in SUBSET Answer
    BY DEF Init
<1> QED
    BY <1>2, <1>3, <1>4, <1>5, <1>6, ConstantFacts, Zenon DEF Init, TypeOK

LEMMA HaltType ==
    ASSUME TypeOK, NEW j \in Joint, NEW d, Halt(j, d)
    PROVE  motion' \in [Joint -> Motion] /\ missed' \in SUBSET Joint
<1>1. 0 \in Motion
    BY DEF Motion
<1> QED
    BY <1>1 DEF Halt, TypeOK

\* What handing a direction to a prismatic joint does to its types.
LEMMA AvoidPrismaticType ==
    ASSUME TypeOK, NEW j \in Prismatic, NEW dir \in Motion, AvoidPrismatic(j, dir)
    PROVE  /\ motion' \in [Joint -> Motion] /\ missed' \in SUBSET Joint
           /\ queued' \in [Prismatic -> SUBSET Dirs]
           /\ stop' \in [Joint -> [Dirs -> 0 .. Hold + 2]]
<1>1. StopsFor(stop[j], dir) \in [Dirs -> 0 .. Hold + 2]
    BY StopsForType, ConstantFacts DEF TypeOK
<1>2. motion' \in [Joint -> Motion] /\ missed' \in SUBSET Joint
    BY HaltType, ConstantFacts DEF AvoidPrismatic, TypeOK, joints
<1>3. queued' \in [Prismatic -> SUBSET Dirs]
    BY DEF AvoidPrismatic, TypeOK, joints
<1>4. stop' = stop \/ stop' = [stop EXCEPT ![j] = StopsFor(@, dir)]
    BY DEF AvoidPrismatic, joints
<1> QED
    BY <1>1, <1>2, <1>3, <1>4 DEF TypeOK

LEMMA AvoidWristType ==
    ASSUME TypeOK, NEW j \in Joint, NEW dir \in Motion, AvoidWrist(j, dir)
    PROVE  /\ motion' \in [Joint -> Motion] /\ missed' \in SUBSET Joint
           /\ stop' \in [Joint -> [Dirs -> 0 .. Hold + 2]]
<1> DEFINE due == IF j \in runstopped /\ NewStop(stop[j], dir) THEN 0 ELSE dir
<1>1. due \in Motion /\ 0 \in Motion
    BY DEF Motion
<1>2. StopsFor(stop[j], due) \in [Dirs -> 0 .. Hold + 2]
    BY <1>1, StopsForType DEF TypeOK
<1>3. motion' \in [Joint -> Motion] /\ missed' \in SUBSET Joint
    BY HaltType DEF AvoidWrist, TypeOK
<1>4. stop' = stop \/ stop' = [stop EXCEPT ![j] = StopsFor(@, due)]
    BY DEF AvoidWrist
<1> QED
    BY <1>2, <1>3, <1>4 DEF TypeOK

LEMMA OrderType ==
    ASSUME TypeOK, NEW j \in Joint, NEW dir \in Dirs, Order(j, dir)
    PROVE  /\ queued' \in [Prismatic -> SUBSET Dirs]
           /\ inbox' \in Seq(Message)
<1>1. CASE /\ j \in Prismatic
           /\ queued' = IF Accepts(j, dir) THEN [queued EXCEPT ![j] = {dir}] ELSE queued
           /\ UNCHANGED inbox
    BY <1>1 DEF TypeOK
<1>2. CASE /\ j \in Wrist
           /\ Send("move", j, dir)
           /\ UNCHANGED queued
    BY <1>2, SMT DEF TypeOK, Send, Message, Dirs, Motion
<1> QED
    BY <1>1, <1>2 DEF Order

LEMMA CommandType ==
    ASSUME TypeOK, NEW lost \in SUBSET Prismatic, Command(lost)
    PROVE  /\ motion' \in [Joint -> Motion] /\ missed' \in SUBSET Joint
           /\ queued' \in [Prismatic -> SUBSET Dirs]
<1>1. Dirs \subseteq Motion
    BY DEF Dirs, Motion
<1>2. ASSUME NEW j \in Prismatic, queued[j] # {}
      PROVE  (CHOOSE d \in queued[j] : TRUE) \in Motion
    BY <1>1, <1>2 DEF TypeOK
<1>3. motion' \in [Joint -> Motion]
    BY <1>2, Zenon DEF Command, TypeOK
<1> QED
    BY <1>3 DEF Command, TypeOK

LEMMA NextType == TypeOK /\ [Next]_vars => TypeOK'
<1> SUFFICES ASSUME TypeOK, [Next]_vars PROVE TypeOK'
    OBVIOUS
<1> USE ConstantFacts
<1>1. CASE Push
    <2>1. motion' \in [Joint -> Motion] /\ missed' \in SUBSET Joint
        BY <1>1, CommandType DEF Push
    <2>2. pose' \in Config
        BY <1>1, <2>1, StepType DEF Push, TypeOK, Config
    <2>3. queued' \in [Prismatic -> SUBSET Dirs]
        BY <1>1, CommandType DEF Push
    <2>4. stop' \in [Joint -> [Dirs -> 0 .. Hold + 2]]
        BY <1>1, SMT DEF Push, TypeOK
    <2> QED
        BY <1>1, <2>1, <2>2, <2>3, <2>4, Zenon DEF Push, TypeOK, solver
<1>2. CASE StepSentry
    <2>1. CASE Watched
        <3>1. asked' \in SUBSET Answer /\ posted' \in SUBSET Answer
            BY <1>2, <2>1, ConfigurationType DEF StepSentry, TypeOK
        <3>2. known' \in Answer
            BY <1>2, <2>1, Zenon DEF StepSentry, TypeOK
        <3> QED
            BY <1>2, <2>1, <3>1, <3>2, Zenon DEF StepSentry, TypeOK, joints
    <2>2. CASE ~Watched
        BY <1>2, <2>2, Zenon DEF StepSentry, TypeOK, joints, solver
    <2> QED
        BY <2>1, <2>2
<1>3. CASE StepLink
    <2>1. link' \in Links /\ pc' \in {"push", "sentry", "links", "dispatch"}
        BY <1>3, SMT DEF StepLink, TypeOK, Links, Last
    <2>2. known[link] \in Motion /\ 0 \in Motion
        BY DEF TypeOK, Answer, Motion
    <2>3. /\ motion' \in [Joint -> Motion] /\ missed' \in SUBSET Joint
          /\ queued' \in [Prismatic -> SUBSET Dirs]
          /\ stop' \in [Joint -> [Dirs -> 0 .. Hold + 2]]
          /\ inbox' \in Seq(Message)
        <3> DEFINE j == LinkJoint[link]
                   dir == IF active THEN known[link] ELSE 0
        <3>1. dir \in Motion
            BY <2>2
        <3>2. CASE j \in Prismatic /\ AvoidPrismatic(j, dir) /\ UNCHANGED inbox
            BY <3>1, <3>2, AvoidPrismaticType DEF TypeOK
        <3>3. CASE j \in Wrist /\ Send("avoid", j, dir) /\ UNCHANGED joints
            BY <3>1, <3>3 DEF TypeOK, Send, Message, joints
        <3> QED
            BY <1>3, <3>2, <3>3 DEF StepLink
    <2> QED
        BY <1>3, <2>1, <2>3, Zenon DEF StepLink, TypeOK, solver
<1>4. CASE Dispatch
    <2>1. queued' \in [Prismatic -> SUBSET Dirs] /\ inbox' \in Seq(Message)
        <3>1. CASE UNCHANGED <<queued, inbox>>
            BY <3>1 DEF TypeOK
        <3>2. CASE \E j \in homed, dir \in Dirs : Order(j, dir)
            BY <3>2, OrderType DEF TypeOK
        <3> QED
            BY <1>4, <3>1, <3>2 DEF Dispatch
    <2> QED
        BY <1>4, <2>1, Zenon DEF Dispatch, TypeOK, solver
<1>5. CASE Pause \/ Unpause
    BY <1>5 DEF Pause, Unpause, TypeOK, joints, solver
<1>6. ASSUME NEW j \in Prismatic, Uncalibrate(j) \/ Calibrate(j) PROVE TypeOK'
    BY <1>6 DEF Uncalibrate, Calibrate, TypeOK, joints, solver
<1>7. ASSUME NEW j \in Joint, NEW dir \in Dirs, RoutineMove(j, dir) PROVE TypeOK'
    <2>1. queued' \in [Prismatic -> SUBSET Dirs] /\ inbox' \in Seq(Message)
        BY <1>7, OrderType DEF RoutineMove
    <2> QED
        BY <1>7, <2>1, Zenon DEF RoutineMove, TypeOK, solver
<1>8. CASE Solve
    BY <1>8, Zenon DEF Solve, TypeOK, joints
<1>9. CASE EndOfArmStep
    <2>1. Head(inbox) \in Message /\ Tail(inbox) \in Seq(Message)
        BY <1>9 DEF EndOfArmStep, TypeOK
    <2> DEFINE m == Head(inbox)
    <2>2. m.joint \in Joint /\ m.dir \in Motion
        BY <2>1 DEF Message
    <2>3. /\ motion' \in [Joint -> Motion] /\ missed' \in SUBSET Joint
          /\ stop' \in [Joint -> [Dirs -> 0 .. Hold + 2]]
        <3> HIDE DEF m
        <3>1. CASE AvoidWrist(m.joint, m.dir)
            BY <2>2, <3>1, AvoidWristType
        <3>2. CASE /\ motion' = [motion EXCEPT ![m.joint] = m.dir]
                   /\ missed' = missed \ {m.joint}
                   /\ UNCHANGED stop
            BY <2>2, <3>2 DEF TypeOK
        <3>3. CASE UNCHANGED <<motion, missed, stop>>
            BY <3>3 DEF TypeOK
        <3> QED
            BY <1>9, <3>1, <3>2, <3>3 DEF EndOfArmStep, m
    <2> QED
        BY <1>9, <2>1, <2>3, Zenon DEF EndOfArmStep, TypeOK, solver
<1>10. ASSUME NEW j \in Wrist, RunStop(j) PROVE TypeOK'
    BY <1>10 DEF RunStop, TypeOK, solver, Motion
<1>11. ASSUME NEW j \in Joint, Arrive(j) PROVE TypeOK'
    BY <1>11 DEF Arrive, TypeOK, solver, Motion
<1>12. CASE UNCHANGED vars
    BY <1>12 DEF vars, TypeOK, joints, solver
<1> QED
    BY <1>1, <1>2, <1>3, <1>4, <1>5, <1>6, <1>7, <1>8, <1>9, <1>10, <1>11, <1>12
       DEF Next, Server, Routine

\* The variables of CollisionStop have their types in every state.
THEOREM TypeCorrect == Spec => []TypeOK
BY InitType, NextType, PTL DEF Spec

-----------------------------------------------------------------------------
(* A joint with a stop is still.                                           *)

\* The invariant for one joint and one direction.
Still(j, d) == stop[j][d] # 0 => /\ motion[j] # d \/ j \in missed
                                 /\ j \in Prismatic => d \notin queued[j]

LEMMA StillInit == Init => StopMeansStill
BY DEF Init, StopMeansStill

\* A motor that is told to stop does, or counts as one that missed its stop if it
\* moves in the direction it is to stop in; the other joints keep what they had.
LEMMA HaltStill ==
    ASSUME TypeOK, NEW o \in Joint, NEW c, Halt(o, c), NEW j \in Joint, NEW d \in Dirs
    PROVE  /\ motion[j] # d \/ j \in missed => motion'[j] # d \/ j \in missed'
           /\ j = o /\ d = c => motion'[j] # d \/ j \in missed'
BY DEF Halt, TypeOK, Dirs

\* A direction that a new stop adds is the one that the joint is halted in.
LEMMA NewStopDirection ==
    ASSUME NEW s \in [Dirs -> 0 .. Hold + 2], NEW dir \in Motion, NEW d \in Dirs,
           StopsFor(s, dir)[d] # 0, s[d] = 0
    PROVE  d = -dir
BY SMT DEF StopsFor, Dirs, Motion

\* A prismatic joint that is handed a direction either keeps its motion and gets no
\* new stop, or is stopped; every other joint keeps what it had.
LEMMA AvoidPrismaticStill ==
    ASSUME TypeOK, NEW p \in Prismatic, NEW dir \in Motion, AvoidPrismatic(p, dir),
           NEW j \in Joint, NEW d \in Dirs, Still(j, d)
    PROVE  Still(j, d)'
<1>1. CASE p \notin homed \/ j # p
    <2>1. CASE p \notin homed
        BY <1>1, <2>1 DEF AvoidPrismatic, Still, joints
    <2>2. CASE p \in homed /\ j # p
        <3>1. stop'[j] = stop[j] /\ (j \in Prismatic => queued'[j] = queued[j])
            BY <2>2 DEF AvoidPrismatic, TypeOK
        <3>2. Halt(p, -dir) \/ UNCHANGED <<motion, missed>>
            BY <2>2 DEF AvoidPrismatic
        <3>3. motion[j] # d \/ j \in missed => motion'[j] # d \/ j \in missed'
            BY <3>2, HaltStill, ConstantFacts
        <3> QED
            BY <3>1, <3>3 DEF Still
    <2> QED
        BY <1>1, <2>1, <2>2
<1>2. CASE p \in homed /\ j = p
    <2>1. stop'[j] = StopsFor(stop[j], dir)
        BY <1>2 DEF AvoidPrismatic, TypeOK
    <2>0. stop[j] \in [Dirs -> 0 .. Hold + 2] /\ j \in Joint
        BY DEF TypeOK
    <2>2. CASE NewStop(stop[j], dir)
        <3>1. Halt(j, -dir) /\ queued'[j] = {}
            BY <1>2, <2>2 DEF AvoidPrismatic, TypeOK
        <3>2. stop'[j][d] # 0 => motion'[j] # d \/ j \in missed'
            <4>1. CASE stop[j][d] = 0
                BY <2>0, <2>1, <3>1, <4>1, NewStopDirection, HaltStill
            <4>2. CASE stop[j][d] # 0
                BY <2>0, <3>1, <4>2, HaltStill DEF Still
            <4> QED
                BY <4>1, <4>2
        <3> QED
            BY <3>1, <3>2 DEF Still
    <2>3. CASE ~NewStop(stop[j], dir)
        <3>1. motion' = motion /\ missed' = missed /\ queued' = queued
            BY <1>2, <2>3 DEF AvoidPrismatic
        <3>2. stop[j] \in [Dirs -> 0 .. Hold + 2]
            BY DEF TypeOK
        <3> QED
            BY <2>1, <2>3, <3>1, <3>2, StopsForStop DEF Still
    <2> QED
        BY <2>2, <2>3
<1> QED
    BY <1>1, <1>2

LEMMA AvoidWristStill ==
    ASSUME TypeOK, NEW w \in Wrist, NEW dir \in Motion, AvoidWrist(w, dir),
           queued' = queued, NEW j \in Joint, NEW d \in Dirs, Still(j, d)
    PROVE  Still(j, d)'
<1> DEFINE due == IF w \in runstopped /\ NewStop(stop[w], dir) THEN 0 ELSE dir
<1>1. CASE w \notin homed
    BY <1>1 DEF AvoidWrist, Still
<1>2. CASE w \in homed
    <2>1. due \in Motion /\ w \in Joint /\ w \notin Prismatic
        BY JointAssumption, ConstantFacts DEF Motion
    <2>2. /\ stop' = [stop EXCEPT ![w] = StopsFor(@, due)]
          /\ IF NewStop(stop[w], due) THEN Halt(w, -due) ELSE UNCHANGED <<motion, missed>>
        BY <1>2 DEF AvoidWrist
    <2>3. stop[j] \in [Dirs -> 0 .. Hold + 2]
        BY DEF TypeOK
    <2>4. stop'[j] = IF j = w THEN StopsFor(stop[j], due) ELSE stop[j]
        BY <2>2 DEF TypeOK
    <2> HIDE DEF due
    <2>5. CASE NewStop(stop[w], due)
        <3>1. Halt(w, -due)
            BY <2>2, <2>5
        <3>2. stop'[j][d] # 0 => motion'[j] # d \/ j \in missed'
            <4>1. CASE stop[j][d] = 0
                BY <2>1, <2>3, <2>4, <3>1, <4>1, NewStopDirection, HaltStill
            <4>2. CASE stop[j][d] # 0
                BY <2>1, <3>1, <4>2, HaltStill DEF Still
            <4> QED
                BY <4>1, <4>2
        <3>3. j \in Prismatic => stop'[j] = stop[j]
            BY <2>1, <2>4
        <3> QED
            BY <3>2, <3>3 DEF Still
    <2>6. CASE ~NewStop(stop[w], due)
        BY <2>1, <2>2, <2>3, <2>4, <2>6, StopsForStop DEF Still
    <2> QED
        BY <2>5, <2>6
<1> QED
    BY <1>1, <1>2

\* A command that waits was accepted: its direction is not stopped.
LEMMA OrderStill ==
    ASSUME TypeOK, NEW o \in Joint, NEW dir \in Dirs, Order(o, dir),
           stop' = stop, motion' = motion, missed' = missed,
           NEW j \in Joint, NEW d \in Dirs, Still(j, d)
    PROVE  Still(j, d)'
<1>1. CASE queued' = queued
    BY <1>1 DEF Still
<1>2. CASE o \in Prismatic /\ Accepts(o, dir) /\ queued' = [queued EXCEPT ![o] = {dir}]
    BY <1>2 DEF Still, Accepts, TypeOK
<1> QED
    BY <1>1, <1>2 DEF Order

LEMMA StillNext == TypeOK /\ StopMeansStill /\ [Next]_vars => StopMeansStill'
<1> SUFFICES ASSUME TypeOK, StopMeansStill, [Next]_vars,
                    NEW j \in Joint, NEW d \in Dirs
             PROVE  Still(j, d)'
    BY DEF StopMeansStill, Still
<1>0. Still(j, d)
    BY DEF StopMeansStill, Still
<1>1. CASE Push
    <2>1. stop'[j][d] # 0 => stop[j][d] # 0
        BY <1>1 DEF Push
    <2>2. PICK lost \in SUBSET Prismatic : Command(lost)
        BY <1>1 DEF Push
    <2>3. j \in Prismatic => queued'[j] = {}
        BY <2>2 DEF Command
    <2> DEFINE given == {o \in Prismatic : queued[o] # {}} \ lost
    <2>4. CASE j \in given
        <3>1. motion'[j] \in queued[j]
            BY <2>2, <2>4 DEF Command
        <3> QED
            BY <1>0, <2>1, <2>3, <2>4, <3>1 DEF Still
    <2>5. CASE j \notin given
        <3>1. motion'[j] = motion[j] /\ (j \in missed => j \in missed')
            BY <2>2, <2>5 DEF Command
        <3> QED
            BY <1>0, <2>1, <2>3, <3>1 DEF Still
    <2> QED
        BY <2>4, <2>5
<1>2. CASE StepLink
    <2> DEFINE l == LinkJoint[link]
               dir == IF active THEN known[link] ELSE 0
    <2>1. dir \in Motion
        BY DEF TypeOK, Answer, Motion
    <2>2. CASE l \in Prismatic /\ AvoidPrismatic(l, dir)
        BY <1>0, <2>1, <2>2, AvoidPrismaticStill
    <2>3. CASE UNCHANGED joints
        BY <1>0, <2>3 DEF Still, joints
    <2> QED
        BY <1>2, <2>2, <2>3 DEF StepLink
<1>3. CASE Dispatch
    <2>1. stop' = stop /\ motion' = motion /\ missed' = missed
        BY <1>3 DEF Dispatch
    <2>2. CASE queued' = queued
        BY <1>0, <2>1, <2>2 DEF Still
    <2>3. CASE \E o \in homed, dir \in Dirs : Order(o, dir)
        BY <1>0, <2>1, <2>3, OrderStill DEF TypeOK
    <2> QED
        BY <1>3, <2>2, <2>3 DEF Dispatch
<1>4. ASSUME NEW o \in Joint, NEW dir \in Dirs, RoutineMove(o, dir) PROVE Still(j, d)'
    BY <1>0, <1>4, OrderStill DEF RoutineMove
<1>5. CASE EndOfArmStep
    <2>1. Head(inbox) \in Message
        BY <1>5 DEF EndOfArmStep, TypeOK
    <2> DEFINE m == Head(inbox)
    <2>2. m.joint \in Wrist /\ m.dir \in Motion /\ queued' = queued
        BY <1>5, <2>1 DEF Message, EndOfArmStep
    <2>3. CASE AvoidWrist(m.joint, m.dir)
        BY <1>0, <2>2, <2>3, AvoidWristStill
    <2>4. CASE /\ Accepts(m.joint, m.dir)
               /\ motion' = [motion EXCEPT ![m.joint] = m.dir]
               /\ missed' = missed \ {m.joint}
               /\ UNCHANGED stop
        <3> HIDE DEF m
        <3>1. CASE j = m.joint
            BY <1>0, <2>2, <2>4, <3>1 DEF TypeOK, Accepts, Still
        <3>2. CASE j # m.joint
            BY <1>0, <2>2, <2>4, <3>2 DEF TypeOK, Still
        <3> QED
            BY <3>1, <3>2
    <2>5. CASE UNCHANGED <<motion, missed, stop>>
        BY <1>0, <2>2, <2>5 DEF Still
    <2> QED
        BY <1>5, <2>3, <2>4, <2>5 DEF EndOfArmStep
<1>6. ASSUME NEW w \in Wrist, RunStop(w) PROVE Still(j, d)'
    <2>1. motion'[j] = 0 \/ (motion'[j] = motion[j] /\ (j \in missed => j \in missed'))
        BY <1>6, ConstantFacts DEF RunStop, TypeOK
    <2> QED
        BY <1>0, <1>6, <2>1 DEF RunStop, Still, Dirs
<1>7. ASSUME NEW o \in Joint, Arrive(o) PROVE Still(j, d)'
    <2>1. motion'[j] = 0 \/ (motion'[j] = motion[j] /\ (j \in missed => j \in missed'))
        BY <1>7 DEF Arrive, TypeOK
    <2> QED
        BY <1>0, <1>7, <2>1 DEF Arrive, Still, Dirs
<1>8. CASE UNCHANGED joints
    BY <1>0, <1>8 DEF Still, joints
<1>9. StepSentry \/ Pause \/ Unpause \/ Solve \/ (UNCHANGED vars) => UNCHANGED joints
    BY DEF StepSentry, Pause, Unpause, Solve, vars
<1>10. ASSUME NEW p \in Prismatic, Uncalibrate(p) \/ Calibrate(p) PROVE UNCHANGED joints
    BY <1>10 DEF Uncalibrate, Calibrate
<1> QED
    BY <1>1, <1>2, <1>3, <1>4, <1>5, <1>6, <1>7, <1>8, <1>9, <1>10
       DEF Next, Server, Routine

\* For any robot, solver and schedule of the three processes, and any loss of
\* commands on the way to the motors: a joint with a stop does not move in the
\* stopped direction, unless its motor missed the stop and has obeyed nothing since,
\* and no command in that direction waits for it.
THEOREM StoppedIsStill == Spec => []StopMeansStill
BY TypeCorrect, StillInit, StillNext, PTL DEF Spec

-----------------------------------------------------------------------------
(* What the solver reported is stopped when commands are dispatched.  The  *)
(* invariant follows the sentry through the links: those behind it that    *)
(* are the last of their joint are stopped as reported, and stay so, for   *)
(* no link ahead of it is of the same joint.                               *)

\* The report about link l, in direction d, has been acted upon.
Acted(l, d) == LinkJoint[l] \in Prismatic /\ IsLast(l) /\ known[l] = -d
                  => stop[LinkJoint[l]][d] # 0

Follows == pc = "links" /\ active =>
              /\ homed = Joint
              /\ \A l \in Links, d \in Dirs : l < link => Acted(l, d)

ReportInv == Follows /\ ReportedIsStopped

LEMMA ReportInit == Init => ReportInv
BY DEF Init, ReportInv, Follows, ReportedIsStopped

\* One link.
LEMMA StepLinkActs ==
    ASSUME TypeOK, StepLink, active, homed = Joint, NEW l \in Links, NEW d \in Dirs,
           l < link => Acted(l, d), l <= link
    PROVE  Acted(l, d)'
<1> SUFFICES ASSUME LinkJoint[l] \in Prismatic, IsLast(l), known[l] = -d
             PROVE  stop'[LinkJoint[l]][d] # 0
    BY DEF Acted, StepLink, IsLast
<1> DEFINE j == LinkJoint[link]
<1>1. link \in Links /\ known[link] \in Motion /\ j \in Joint
    BY ConstantFacts DEF TypeOK, Answer
<1>2. CASE l = link
    <2>1. AvoidPrismatic(j, known[link])
        BY <1>2, JointAssumption DEF StepLink
    <2>2. stop'[j] = StopsFor(stop[j], known[link])
        BY <1>1, <2>1 DEF AvoidPrismatic, TypeOK
    <2>3. StopsFor(stop[j], known[link])[d] # 0
        BY <1>2 DEF StopsFor
    <2> QED
        BY <1>2, <2>2, <2>3
<1>3. CASE l < link
    <2>1. j # LinkJoint[l]
        BY <1>1, <1>3 DEF IsLast, Links
    <2>2. stop'[LinkJoint[l]] = stop[LinkJoint[l]]
        <3> HIDE DEF j
        <3>1. CASE UNCHANGED stop
            BY <3>1
        <3>2. CASE stop' = [stop EXCEPT ![j] = StopsFor(@, known[link])]
            BY <2>1, <3>2, ConstantFacts DEF TypeOK
        <3> QED
            BY <3>1, <3>2 DEF StepLink, AvoidPrismatic, joints, j
    <2> QED
        BY <1>3, <2>2 DEF Acted
<1> QED
    BY <1>1, <1>2, <1>3 DEF Links

LEMMA ReportNext == TypeOK /\ ReportInv /\ [Next]_vars => ReportInv'
<1> SUFFICES ASSUME TypeOK, ReportInv, [Next]_vars PROVE ReportInv'
    OBVIOUS
<1>1. CASE StepSentry
    <2>1. CASE Watched
        <3>1. pc' = "links" /\ link' = 1 /\ homed' = Joint
            BY <1>1, <2>1 DEF StepSentry, Watched
        <3> QED
            BY <3>1 DEF ReportInv, Follows, ReportedIsStopped, Links
    <2>2. CASE ~Watched
        BY <1>1, <2>2 DEF StepSentry, ReportInv, Follows, ReportedIsStopped, Watched
    <2> QED
        BY <2>1, <2>2
<1>2. CASE StepLink
    <2>1. active' = active /\ homed' = homed /\ known' = known
        BY <1>2 DEF StepLink
    <2>2. CASE ~active
        BY <1>2, <2>1, <2>2 DEF StepLink, ReportInv, Follows, ReportedIsStopped, Watched
    <2>3. CASE active
        <3>1. homed = Joint
            BY <1>2, <2>3 DEF StepLink, ReportInv, Follows
        <3>2. ASSUME NEW l \in Links, NEW d \in Dirs, l <= link PROVE Acted(l, d)'
            BY <1>2, <2>3, <3>1, <3>2, StepLinkActs DEF StepLink, ReportInv, Follows
        <3>3. CASE link < Last
            <4>1. pc' = "links" /\ link' = link + 1
                BY <1>2, <3>3 DEF StepLink
            <4>2. \A l \in Links : l < link' => l <= link
                BY <4>1 DEF Links, TypeOK
            <4> QED
                BY <2>1, <3>1, <3>2, <4>1, <4>2 DEF ReportInv, Follows, ReportedIsStopped
        <3>4. CASE ~(link < Last)
            <4>1. pc' = "dispatch"
                BY <1>2, <2>3, <3>4 DEF StepLink
            <4>2. \A l \in Links : l <= link
                BY <3>4, ConstantFacts DEF Links, Last, TypeOK
            <4> QED
                BY <3>2, <4>1, <4>2 DEF ReportInv, Follows, ReportedIsStopped, Acted
        <3> QED
            BY <3>3, <3>4
    <2> QED
        BY <2>2, <2>3
<1>3. CASE Push \/ Dispatch \/ Pause \/ Unpause
    <2>1. \/ pc' \in {"sentry", "push"}
          \/ pc' = "links" /\ ~active'
        BY <1>3 DEF Push, Dispatch, Pause, Unpause
    <2> QED
        BY <2>1 DEF ReportInv, Follows, ReportedIsStopped
<1>4. ASSUME \E j \in Prismatic : Uncalibrate(j) \/ Calibrate(j) PROVE ReportInv'
    <2>1. pc' = "push"
        BY <1>4 DEF Uncalibrate, Calibrate
    <2> QED
        BY <2>1 DEF ReportInv, Follows, ReportedIsStopped
<1>5. ASSUME \E j \in Joint, dir \in Dirs : RoutineMove(j, dir) PROVE ReportInv'
    <2>1. pc' = "push"
        BY <1>5 DEF RoutineMove
    <2> QED
        BY <2>1 DEF ReportInv, Follows, ReportedIsStopped
<1>6. CASE EndOfArmStep
    <2>1. \A j \in Prismatic : stop'[j] = stop[j]
        <3>1. Head(inbox) \in Message
            BY <1>6 DEF EndOfArmStep, TypeOK
        <3>2. Head(inbox).joint \in Wrist
            BY <3>1 DEF Message
        <3> DEFINE w == Head(inbox).joint
        <3> HIDE DEF w
        <3>3. \/ UNCHANGED stop
              \/ \E s : stop' = [stop EXCEPT ![w] = s]
            <4>1. CASE AvoidWrist(w, Head(inbox).dir)
                BY <4>1 DEF AvoidWrist
            <4>2. CASE UNCHANGED stop
                BY <4>2
            <4> QED
                BY <1>6, <4>1, <4>2 DEF EndOfArmStep, w
        <3>4. w \in Wrist
            BY <3>2 DEF w
        <3> QED
            BY <3>3, <3>4, JointAssumption, ConstantFacts DEF TypeOK
    <2>2. UNCHANGED <<pc, link, active, homed, known>>
        BY <1>6 DEF EndOfArmStep
    <2> QED
        BY <2>1, <2>2 DEF ReportInv, Follows, ReportedIsStopped, Acted, Watched
<1>7. CASE UNCHANGED <<pc, link, active, homed, known, stop>>
    BY <1>7 DEF ReportInv, Follows, ReportedIsStopped, Acted, Watched
<1>8. Solve \/ (\E j \in Wrist : RunStop(j)) \/ (\E j \in Joint : Arrive(j)) \/ (UNCHANGED vars)
         => UNCHANGED <<pc, link, active, homed, known, stop>>
    BY DEF Solve, RunStop, Arrive, vars, joints
<1> QED
    BY <1>1, <1>2, <1>3, <1>4, <1>5, <1>6, <1>7, <1>8 DEF Next, Server, Routine

\* For any number of links and any length of the hold: when commands are
\* dispatched, the joints of the control loop are stopped as the solver last
\* reported of the last of their links.
THEOREM ReportsAreStops == Spec => []ReportedIsStopped
<1>1. ReportInv => ReportedIsStopped
    BY DEF ReportInv
<1> QED
    BY TypeCorrect, ReportInit, ReportNext, <1>1, PTL DEF Spec
=============================================================================
