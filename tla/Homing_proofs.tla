---------------------------- MODULE Homing_proofs ----------------------------
(***************************************************************************)
(* Proofs about the two homings, of Homing and of EndOfArmHoming, for any  *)
(* number of joints, of homings and any t_ignore: their types, what a      *)
(* success and a failure leave behind, and when a joint may be calibrated  *)
(* or sent to its stop.  Both inductive invariants say what is known of a  *)
(* board or a thread from a status that is older than what it does.  That  *)
(* of Homing, the first part, follows a command on its way: what a queue   *)
(* may hold at each place of the routine, and what the board then does.    *)
(***************************************************************************)
EXTENDS Homing, EndOfArmHoming, FiniteSetTheorems, TLAPS

\* Places of a subroutine from the order to move to the restored gains.
Moving == {"approach", "arm", "contact"}
Changed == Moving \cup {"touch", "calibrated", "safe", "settle"}

\* A request that matters later is made by the running subroutine, and pushed by the
\* next cycle.
Requests ==
    \A j \in Joint :
        /\ "resetCal" \in queue[j].trigger => j = cur /\ pc = "begin" /\ due
        /\ "setCal" \in queue[j].trigger => j = cur /\ pc = "calibrated" /\ due
        /\ "mark" \in queue[j].trigger => j = cur /\ pc = "arm" /\ due
        /\ queue[j].motion = "toStop" =>
               j = cur /\ (pc = "approach" \/ (pc = "arm" /\ due))

\* What the queue of the running subroutine's joint holds.
Sent ==
    /\ pc \in Updates /\ ~due => queue[cur] = Empty
    /\ pc \in {"contact", "touch", "calibrated"} => queue[cur].motion = "none"
    /\ pc = "calibrated" /\ due => "setCal" \in queue[cur].trigger
    /\ pc = "safe" /\ due => /\ "resetMark" \in queue[cur].trigger
                             /\ queue[cur].motion = "safety"
    /\ pc = "restored" /\ due => gains[cur] = saved[cur] /\ queue[cur].gains
    /\ pc = "atEnd" => \/ n > 0 /\ queue[cur] = Empty
                       \/ n = 0 /\ queue[cur].motion = "toEnd"
                       \/ "toEnd" \in blocked[cur] /\ queue[cur] = Empty

\* A contact that was seen is still there: it ends only with a new motion.
InContact ==
    /\ \A j \in Joint : board[j].contact => board[j].motion # "toStop"
    /\ pc = "contact" /\ n > 0 /\ seen.contact => board[cur].contact
    /\ pc = "touch" \/ (pc = "calibrated" /\ due)
         => wait[cur] = "contact" /\ board[cur].contact

\* How the wait for contact ended, and what that leaves on the board.
Waited ==
    /\ pc = "begin" => wait[cur] = "none"
    /\ pc = "safe" => wait[cur] = "canceled" /\ ~ok
    /\ pc \in Moving => wait[cur] = "moving"
    /\ \A j \in Joint :
        /\ wait[j] = "moving" => j = cur /\ pc \in Moving
        /\ wait[j] = "contact" => board[j].motion # "toStop"
        /\ wait[j] = "canceled" /\ ~(j = cur /\ pc = "safe" /\ due)
             => board[j].motion # "toStop" /\ ~board[j].armed

\* The gains are back once the routine has restored them.
Restored ==
    \A j \in Joint : wait[j] # "none" /\ ~(j = cur /\ pc \in Changed) =>
        /\ gains[j] = saved[j]
        /\ board[j].gains = gains[j] \/ (j = cur /\ pc = "restored" /\ due)

\* Joint j is homed, and nothing that is still queued changes that.
Homed(j) ==
    /\ board[j].calibrated
    /\ "toEnd" \in blocked[j] \/ (board[j].reached /\ board[j].motion = "toEnd")
    /\ wait[j] = "contact"
    /\ queue[j] = Empty

\* Joints are homed in order.
Progressed ==
    /\ pc # "idle" => \A j \in 1 .. cur - 1 : Homed(j)
    /\ pc = "endOfArm" \/ (pc = "idle" /\ result) => \A j \in Joint : Homed(j)
    /\ (pc \in {"settle", "restored", "atEnd"} /\ ok) \/ (pc = "calibrated" /\ ~due)
         => board[cur].calibrated /\ wait[cur] = "contact"
    /\ pc = "atEnd" => ok
    /\ pc = "atEnd" /\ n > 0
         => "toEnd" \in blocked[cur] \/ board[cur].motion = "toEnd"
    /\ pc = "atEnd" /\ n > 1 /\ seen.near
         => "toEnd" \in blocked[cur] \/ board[cur].reached

IInv == TypeOK /\ Requests /\ Sent /\ InContact /\ Waited /\ Restored /\ Progressed

-----------------------------------------------------------------------------
(* What a board makes of its queue.                                        *)

Request == [trigger : SUBSET Trigger, gains : BOOLEAN, motion : Motion]

LEMMA EmptyType ==
    /\ Empty \in Request
    /\ Empty.trigger = {} /\ Empty.gains = FALSE /\ Empty.motion = "none"
BY DEF Empty, Request, Trigger, Motion

\* The fields of what a board has received.
LEMMA ReceivedFields ==
    ASSUME NEW b \in Board, NEW q \in Request, NEW g \in Gains
    PROVE  /\ Received(b, q, g) \in Board
           /\ Received(b, q, g).gains = IF q.gains THEN g ELSE b.gains
           /\ Received(b, q, g).motion =
                  IF q.motion = "none" THEN b.motion ELSE q.motion
           /\ Received(b, q, g).armed =
                  (("mark" \in q.trigger \/ b.armed) /\ "resetMark" \notin q.trigger)
           /\ Received(b, q, g).contact = (b.contact /\ q.motion = "none")
           /\ Received(b, q, g).reached = (b.reached /\ q.motion = "none")
           /\ Received(b, q, g).calibrated =
                  (("setCal" \in q.trigger \/ b.calibrated)
                   /\ "resetCal" \notin q.trigger)
BY Zenon DEF Received, Board, Request, Gains

\* The fields of a board that made progress.
LEMMA ProgressFields ==
    ASSUME NEW b \in Board
    PROVE  /\ Progress(b) \in Board
           /\ Progress(b).gains = b.gains
           /\ Progress(b).motion \in {b.motion, "none"}
           /\ b.motion # "toStop" => Progress(b).motion = b.motion
           /\ Progress(b).armed => b.armed
           /\ b.contact => Progress(b).contact
           /\ Progress(b).contact => b.contact \/ Progress(b).motion = "none"
           /\ b.motion = "toEnd" => Progress(b).reached
           /\ Progress(b).calibrated = b.calibrated
BY DEF Progress, Board, Motion

\* What a push does to the board of a joint.
LEMMA PushedFields ==
    ASSUME TypeOK, NEW moves \in SUBSET Joint, Push(moves), NEW j \in Joint
    PROVE  /\ board'[j] \in Board
           /\ queue'[j] = Empty
           /\ board'[j].gains = IF queue[j].gains THEN gains[j] ELSE board[j].gains
           /\ board'[j].motion \in {board[j].motion, queue[j].motion, "none"}
           /\ board'[j].motion = "toStop" =>
                  \/ queue[j].motion = "toStop"
                  \/ queue[j].motion = "none" /\ board[j].motion = "toStop"
           /\ board'[j].armed =>
                  /\ "resetMark" \notin queue[j].trigger
                  /\ board[j].armed \/ "mark" \in queue[j].trigger
           /\ board[j].contact /\ queue[j].motion = "none" => board'[j].contact
           /\ board'[j].contact =>
                  \/ board'[j].motion = "none"
                  \/ board[j].contact /\ queue[j].motion = "none"
           /\ board'[j].calibrated =
                  (("setCal" \in queue[j].trigger \/ board[j].calibrated)
                   /\ "resetCal" \notin queue[j].trigger)
<1> DEFINE r == Received(board[j], queue[j], gains[j])
           p == Progress(r)
<1>1. board[j] \in Board /\ queue[j] \in Request /\ gains[j] \in Gains
  BY Zenon DEF TypeOK, Request
<1>2. board'[j] = r \/ board'[j] = p
  BY Zenon DEF Push
<1>3. queue'[j] = Empty
  BY Zenon DEF Push
<1>4. /\ r \in Board
      /\ r.gains = IF queue[j].gains THEN gains[j] ELSE board[j].gains
      /\ r.motion = IF queue[j].motion = "none" THEN board[j].motion ELSE queue[j].motion
      /\ r.armed = (("mark" \in queue[j].trigger \/ board[j].armed)
                    /\ "resetMark" \notin queue[j].trigger)
      /\ r.contact = (board[j].contact /\ queue[j].motion = "none")
      /\ r.calibrated = (("setCal" \in queue[j].trigger \/ board[j].calibrated)
                         /\ "resetCal" \notin queue[j].trigger)
  BY <1>1, ReceivedFields, Zenon
<1>5. /\ p \in Board
      /\ p.gains = r.gains
      /\ p.motion \in {r.motion, "none"}
      /\ p.armed => r.armed
      /\ r.contact => p.contact
      /\ p.contact => r.contact \/ p.motion = "none"
      /\ p.calibrated = r.calibrated
  BY <1>4, ProgressFields, Zenon
<1> HIDE DEF r, p
<1>6. CASE board'[j] = r
  BY <1>3, <1>4, <1>6, Zenon
<1>7. CASE board'[j] = p
  BY <1>3, <1>4, <1>5, <1>7, Zenon
<1> QED BY <1>2, <1>6, <1>7, Zenon

\* A joint that is sent to its end position, or moves there, does so after a push,
\* and one that reached it stays.
LEMMA PushedToEnd ==
    ASSUME TypeOK, NEW moves \in SUBSET Joint, Push(moves), NEW j \in Joint,
           \/ queue[j].motion = "toEnd"
           \/ queue[j].motion = "none" /\ board[j].motion = "toEnd"
    PROVE  /\ board'[j].motion = "toEnd"
           /\ board[j].reached /\ queue[j].motion = "none" => board'[j].reached
<1> DEFINE r == Received(board[j], queue[j], gains[j])
           p == Progress(r)
<1>1. board[j] \in Board /\ queue[j] \in Request /\ gains[j] \in Gains
  BY Zenon DEF TypeOK, Request
<1>2. board'[j] = r \/ board'[j] = p
  BY Zenon DEF Push
<1>3. /\ r \in Board
      /\ r.motion = IF queue[j].motion = "none" THEN board[j].motion ELSE queue[j].motion
      /\ r.reached = (board[j].reached /\ queue[j].motion = "none")
  BY <1>1, ReceivedFields, Zenon
<1> HIDE DEF r
<1>4. r.motion = "toEnd"
  BY <1>3
<1>5. p.motion = "toEnd" /\ p.reached
  BY <1>3, <1>4, ProgressFields
<1> HIDE DEF p
<1> QED BY <1>2, <1>3, <1>4, <1>5, Zenon

-----------------------------------------------------------------------------
(* The parts of the actions that several of them share.                    *)

\* A cycle or a no-op cycle.
LEMMA CyclePushes ==
    ASSUME Cycle
    PROVE  /\ \E moves \in SUBSET Joint : Push(moves)
           /\ (pc \in Updates /\ due) \/ (pc \in Waits /\ ~canceled)
           /\ due' = FALSE
           /\ n' = IF n < Ignore THEN n + 1 ELSE n
           /\ canceled' \in BOOLEAN /\ asked' \in BOOLEAN
           /\ UNCHANGED <<pc, cur, ok, gains, saved, blocked, result, runs, wait>>
<1>1. PICK cancel \in BOOLEAN : canceled' = (canceled \/ cancel)
                                /\ asked' = (asked \/ cancel)
  BY Zenon DEF Cycle
<1>2. canceled' \in BOOLEAN /\ asked' \in BOOLEAN
  BY <1>1
<1> QED BY <1>2, Zenon DEF Cycle

LEMMA PushType ==
    ASSUME TypeOK, NEW moves \in SUBSET Joint, Push(moves)
    PROVE  /\ board' \in [Joint -> Board]
           /\ queue' \in [Joint -> Request]
<1>1. \A j \in Joint : board'[j] \in Board
  BY PushedFields, Zenon
<1>2. board' = [j \in Joint |-> board'[j]]
  BY Zenon DEF Push
<1>3. queue' = [j \in Joint |-> Empty]
  BY Zenon DEF Push
<1> QED BY <1>1, <1>2, <1>3, EmptyType, Zenon

\* The end of a subroutine.
LEMMA ReturnType ==
    ASSUME TypeOK, NEW r \in BOOLEAN, Return(r)
    PROVE  /\ pc' \in {"start", "endOfArm", "idle"}
           /\ cur' \in Joint
           /\ canceled' \in BOOLEAN /\ result' \in BOOLEAN
<1>1. cur \in Joint /\ canceled \in BOOLEAN /\ result \in BOOLEAN
  BY Zenon DEF TypeOK
<1>2. cur' = cur \/ (cur < N /\ cur' = cur + 1)
  BY Zenon DEF Return
<1>3. cur' \in Joint
  BY <1>1, <1>2, JointAssumption, SMT DEF Joint
<1>4. canceled' = FALSE \/ canceled' = canceled
  BY Zenon DEF Return
<1>5. result' = FALSE \/ result' = result
  BY Zenon DEF Return
<1>6. pc' \in {"start", "endOfArm", "idle"}
  BY Zenon DEF Return
<1>7. FALSE \in BOOLEAN
  OBVIOUS
<1> QED BY <1>1, <1>3, <1>4, <1>5, <1>6, <1>7, Zenon

\* The queue of one joint changes.
LEMMA QueueType ==
    ASSUME TypeOK, NEW q \in Request, queue' = [queue EXCEPT ![cur] = q]
    PROVE  /\ queue' \in [Joint -> Request]
           /\ queue'[cur] = q
           /\ \A j \in Joint : j # cur => queue'[j] = queue[j]
BY Zenon DEF TypeOK, Request

\* Asking for a trigger leaves the rest of the queue.
LEMMA AddTrigger ==
    ASSUME TypeOK, NEW t \in Trigger,
           queue' = [queue EXCEPT ![cur].trigger = @ \cup {t}]
    PROVE  /\ queue' \in [Joint -> Request]
           /\ queue'[cur].trigger = queue[cur].trigger \cup {t}
           /\ queue'[cur].motion = queue[cur].motion
           /\ queue'[cur].gains = queue[cur].gains
           /\ \A j \in Joint : j # cur => queue'[j] = queue[j]
<1> DEFINE q == [queue[cur] EXCEPT !.trigger = @ \cup {t}]
<1>1. queue[cur] \in Request
  BY Zenon DEF TypeOK, Request
<1>2. /\ q \in Request
      /\ q.trigger = queue[cur].trigger \cup {t}
      /\ q.motion = queue[cur].motion
      /\ q.gains = queue[cur].gains
  BY <1>1 DEF Request
<1>3. queue' = [queue EXCEPT ![cur] = q]
  BY Zenon
<1> HIDE DEF q
<1> QED BY <1>2, <1>3, QueueType, Zenon

\* So does asking for a motion; Move may also refuse.
LEMMA AskMotion ==
    ASSUME TypeOK, NEW m \in Motion, queue' = [queue EXCEPT ![cur].motion = m]
    PROVE  /\ queue' \in [Joint -> Request]
           /\ queue'[cur].trigger = queue[cur].trigger
           /\ queue'[cur].motion = m
           /\ queue'[cur].gains = queue[cur].gains
           /\ \A j \in Joint : j # cur => queue'[j] = queue[j]
<1> DEFINE q == [queue[cur] EXCEPT !.motion = m]
<1>1. queue[cur] \in Request
  BY Zenon DEF TypeOK, Request
<1>2. /\ q \in Request
      /\ q.trigger = queue[cur].trigger
      /\ q.motion = m
      /\ q.gains = queue[cur].gains
  BY <1>1 DEF Request
<1>3. queue' = [queue EXCEPT ![cur] = q]
  BY Zenon
<1> HIDE DEF q
<1> QED BY <1>2, <1>3, QueueType, Zenon

\* And setting the gains.
LEMMA AskGains ==
    ASSUME TypeOK, queue' = [queue EXCEPT ![cur].gains = TRUE]
    PROVE  /\ queue' \in [Joint -> Request]
           /\ queue'[cur].trigger = queue[cur].trigger
           /\ queue'[cur].motion = queue[cur].motion
           /\ queue'[cur].gains
           /\ \A j \in Joint : j # cur => queue'[j] = queue[j]
<1> DEFINE q == [queue[cur] EXCEPT !.gains = TRUE]
<1>1. queue[cur] \in Request
  BY Zenon DEF TypeOK, Request
<1>2. /\ q \in Request
      /\ q.trigger = queue[cur].trigger
      /\ q.motion = queue[cur].motion
      /\ q.gains
  BY <1>1, Zenon DEF Request
<1>3. queue' = [queue EXCEPT ![cur] = q]
  BY Zenon
<1> HIDE DEF q
<1> QED BY <1>2, <1>3, QueueType, Zenon

\* Start asks for the gains and a trigger at once, NoContact for a trigger and a
\* motion.
LEMMA AskStart ==
    ASSUME TypeOK, Start
    PROVE  /\ queue' \in [Joint -> Request]
           /\ queue'[cur].trigger = queue[cur].trigger \cup {"resetCal"}
           /\ queue'[cur].motion = queue[cur].motion
           /\ \A j \in Joint : j # cur => queue'[j] = queue[j]
<1> DEFINE p == [queue[cur] EXCEPT !.trigger = @ \cup {"resetCal"}]
           q == [p EXCEPT !.gains = TRUE]
<1>1. queue[cur] \in Request /\ "resetCal" \in Trigger
  BY DEF TypeOK, Request, Trigger
<1>2. /\ p \in Request
      /\ p.trigger = queue[cur].trigger \cup {"resetCal"}
      /\ p.motion = queue[cur].motion
  BY <1>1 DEF Request
<1>3. queue' = [queue EXCEPT ![cur] = q]
  <2>1. queue' = [queue EXCEPT ![cur].trigger = @ \cup {"resetCal"},
                               ![cur].gains = TRUE]
    BY Zenon DEF Start
  <2> QED BY <2>1, Zenon DEF TypeOK
<1> HIDE DEF p
<1>4. q \in Request /\ q.trigger = p.trigger /\ q.motion = p.motion
  BY <1>2, Zenon DEF Request
<1> HIDE DEF q
<1> QED BY <1>2, <1>3, <1>4, QueueType, Zenon

LEMMA AskSafety ==
    ASSUME TypeOK, NoContact
    PROVE  /\ queue' \in [Joint -> Request]
           /\ queue'[cur].trigger = queue[cur].trigger \cup {"resetMark"}
           /\ queue'[cur].motion = "safety"
           /\ \A j \in Joint : j # cur => queue'[j] = queue[j]
<1> DEFINE p == [queue[cur] EXCEPT !.trigger = @ \cup {"resetMark"}]
           q == [p EXCEPT !.motion = "safety"]
<1>1. queue[cur] \in Request /\ "resetMark" \in Trigger /\ "safety" \in Motion
  BY DEF TypeOK, Request, Trigger, Motion
<1>2. /\ p \in Request
      /\ p.trigger = queue[cur].trigger \cup {"resetMark"}
  BY <1>1 DEF Request
<1>3. queue' = [queue EXCEPT ![cur] = q]
  <2>1. queue' = [queue EXCEPT ![cur].trigger = @ \cup {"resetMark"},
                               ![cur].motion = "safety"]
    BY Zenon DEF NoContact
  <2> QED BY <2>1, Zenon DEF TypeOK
<1> HIDE DEF p
<1>4. q \in Request /\ q.trigger = p.trigger /\ q.motion = "safety"
  BY <1>1, <1>2 DEF Request
<1> HIDE DEF q
<1> QED BY <1>2, <1>3, <1>4, QueueType, Zenon

-----------------------------------------------------------------------------
(* The types.                                                              *)

LEMMA InitInv == Init => IInv
<1> SUFFICES ASSUME Init PROVE IInv
  OBVIOUS
<1>1. TypeOK
  <2>1. 1 \in Joint /\ 0 \in 0 .. Ignore /\ 0 \in 0 .. MaxRuns
    BY JointAssumption, IgnoreAssumption, RunsAssumption, SMT DEF Joint
  <2>2. [gains |-> "user", motion |-> "none", armed |-> FALSE, contact |-> FALSE,
         reached |-> FALSE, calibrated |-> FALSE] \in Board
    BY DEF Board, Gains, Motion
  <2>3. board \in [Joint -> Board] /\ queue \in [Joint -> Request]
    BY <2>2, EmptyType, Zenon DEF Init
  <2>4. seen \in [contact : BOOLEAN, near : BOOLEAN]
    BY DEF Init
  <2>5. gains \in [Joint -> Gains] /\ saved \in [Joint -> Gains]
    BY DEF Init, Gains
  <2>6. blocked \in [Joint -> SUBSET {"toStop", "toEnd"}]
    BY DEF Init
  <2>7. wait \in [Joint -> {"none", "moving", "contact", "timeout", "canceled"}]
    BY DEF Init
  <2>8. FALSE \in BOOLEAN
    OBVIOUS
  <2> QED BY <2>1, <2>3, <2>4, <2>5, <2>6, <2>7, <2>8, Zenon DEF Init, TypeOK, Request
<1>2. Requests
  BY EmptyType, Zenon DEF Init, Requests
<1>3. Sent
  BY Zenon DEF Init, Sent, Updates
<1>4. InContact
  BY Zenon DEF Init, InContact
<1>5. Waited
  BY Zenon DEF Init, Waited, Moving
<1>6. Restored
  BY Zenon DEF Init, Restored
<1>7. Progressed
  BY Zenon DEF Init, Progressed
<1> QED BY <1>1, <1>2, <1>3, <1>4, <1>5, <1>6, <1>7 DEF IInv

LEMMA CycleType == ASSUME TypeOK, Cycle PROVE TypeOK'
<1>1. board' \in [Joint -> Board] /\ queue' \in [Joint -> Request]
  BY PushType, CyclePushes, Zenon
<1>2. seen' \in [contact : BOOLEAN, near : BOOLEAN]
  <2>1. PICK near \in BOOLEAN : seen' = [contact |-> board[cur].contact, near |-> near]
    BY Zenon DEF Cycle, LoadStatus
  <2>2. board[cur].contact \in BOOLEAN
    BY Zenon DEF TypeOK, Board
  <2> QED BY <2>1, <2>2, Zenon
<1>3. n' \in 0 .. Ignore
  BY CyclePushes, IgnoreAssumption, SMT DEF TypeOK
<1>4. FALSE \in BOOLEAN
  OBVIOUS
<1> QED BY <1>1, <1>2, <1>3, <1>4, CyclePushes, Zenon DEF TypeOK, Request

LEMMA NopCycleType == ASSUME TypeOK, NopCycle PROVE TypeOK'
<1>1. board' \in [Joint -> Board] /\ queue' \in [Joint -> Request]
  BY PushType, Zenon DEF NopCycle
<1> QED BY <1>1, Zenon DEF NopCycle, TypeOK, Request

LEMMA RunstopType == ASSUME TypeOK, Runstop PROVE TypeOK'
<1>1. TRUE \in BOOLEAN
  OBVIOUS
<1> QED BY <1>1, Zenon DEF Runstop, TypeOK

LEMMA RunType == ASSUME TypeOK, Run PROVE TypeOK'
<1>1. 1 \in Joint
  BY JointAssumption, SMT DEF Joint
<1>2. runs' \in 0 .. MaxRuns
  BY RunsAssumption, SMT DEF TypeOK, Run
<1>3. FALSE \in BOOLEAN /\ "start" \in Updates \cup Waits \cup {"idle", "start"}
  BY Zenon
<1> QED BY <1>1, <1>2, <1>3, Zenon DEF Run, TypeOK

\* Going to a place of the subroutine.
LEMMA GotoType ==
    ASSUME TypeOK, NEW p \in Updates \cup Waits, Goto(p)
    PROVE  /\ pc' \in Updates \cup Waits \cup {"idle", "start"}
           /\ due' \in BOOLEAN
           /\ n' \in 0 .. Ignore
<1>1. n' \in 0 .. Ignore
  BY IgnoreAssumption, SMT DEF Goto
<1>2. (p \in Updates) \in BOOLEAN
  OBVIOUS
<1> QED BY <1>1, <1>2, Zenon DEF Goto

LEMMA StartType == ASSUME TypeOK, Start PROVE TypeOK'
<1>1. queue' \in [Joint -> Request]
  BY AskStart, Zenon
<1>2. "begin" \in Updates \cup Waits
  BY Zenon DEF Updates
<1>3. /\ pc' \in Updates \cup Waits \cup {"idle", "start"}
      /\ due' \in BOOLEAN /\ n' \in 0 .. Ignore
  BY <1>2, GotoType, Zenon DEF Start
<1>4. saved' \in [Joint -> Gains] /\ gains' \in [Joint -> Gains]
  BY Zenon DEF Start, TypeOK, Gains
<1>5. wait' \in [Joint -> {"none", "moving", "contact", "timeout", "canceled"}]
  BY Zenon DEF Start, TypeOK
<1>6. TRUE \in BOOLEAN
  OBVIOUS
<1> QED BY <1>1, <1>3, <1>4, <1>5, <1>6, Zenon DEF Start, TypeOK, Request

\* The ends of a subroutine.
LEMMA ReturningType ==
    ASSUME TypeOK, NoHardware \/ GiveUp \/ Failed \/ AtEnd \/ NotAtEnd
    PROVE  TypeOK'
<1>1. ok' \in BOOLEAN
  <2>1. ok' = ok \/ ok' = FALSE
    BY Zenon DEF NoHardware, GiveUp, Failed, AtEnd, NotAtEnd
  <2>2. FALSE \in BOOLEAN
    OBVIOUS
  <2> QED BY <2>1, <2>2, Zenon DEF TypeOK
<1>2. /\ pc' \in {"start", "endOfArm", "idle"}
      /\ cur' \in Joint /\ canceled' \in BOOLEAN /\ result' \in BOOLEAN
  <2>1. TRUE \in BOOLEAN /\ FALSE \in BOOLEAN
    OBVIOUS
  <2>2. Return(TRUE) \/ Return(FALSE)
    BY Zenon DEF NoHardware, GiveUp, Failed, AtEnd, NotAtEnd
  <2> QED BY <2>1, <2>2, ReturnType, Zenon
<1>3. pc' \in Updates \cup Waits \cup {"idle", "start"}
  BY <1>2 DEF Waits
<1>4. UNCHANGED <<due, n, gains, saved, queue, board, seen, blocked, runs, asked, wait>>
  BY Zenon DEF NoHardware, GiveUp, Failed, AtEnd, NotAtEnd
<1> QED BY <1>1, <1>2, <1>3, <1>4, Zenon DEF TypeOK

LEMMA EndOfArmHomedType == ASSUME TypeOK, EndOfArmHomed PROVE TypeOK'
BY Zenon DEF EndOfArmHomed, TypeOK

\* The steps of a subroutine from place to place.
LEMMA GoingType ==
    ASSUME TypeOK,
           \/ MoveToStop \/ MarkOnContact \/ AwaitContact \/ Contact
           \/ SetCalibrated \/ NoContact \/ Timeout \/ Settle \/ Restore
           \/ MoveToEnd
    PROVE  TypeOK'
<1>1. \E p \in Updates \cup Waits : Goto(p)
  <2>1. {"approach", "arm", "contact", "touch", "calibrated", "safe", "settle",
         "restored", "atEnd"} \subseteq Updates \cup Waits
    BY DEF Updates, Waits
  <2>2. \E p \in {"approach", "arm", "contact", "touch", "calibrated", "safe",
                  "settle", "restored", "atEnd"} : Goto(p)
    BY Zenon DEF MoveToStop, MarkOnContact, AwaitContact, Contact, SetCalibrated,
                 NoContact, Timeout, Settle, Restore, MoveToEnd
  <2> QED BY <2>1, <2>2, Zenon
<1>2. /\ pc' \in Updates \cup Waits \cup {"idle", "start"}
      /\ due' \in BOOLEAN /\ n' \in 0 .. Ignore
  BY <1>1, GotoType, Zenon
<1>3. queue' \in [Joint -> Request]
  <2>1. {"mark", "setCal"} \subseteq Trigger /\ {"toStop", "toEnd"} \subseteq Motion
    BY DEF Trigger, Motion
  <2>2. CASE MoveToStop
    <3>1. queue' = queue \/ queue' = [queue EXCEPT ![cur].motion = "toStop"]
      BY <2>2, Zenon DEF MoveToStop, Move
    <3> QED BY <2>1, <3>1, AskMotion, Zenon DEF TypeOK, Request
  <2>3. CASE MoveToEnd
    <3>1. queue' = queue \/ queue' = [queue EXCEPT ![cur].motion = "toEnd"]
      BY <2>3, Zenon DEF MoveToEnd, Move
    <3> QED BY <2>1, <3>1, AskMotion, Zenon DEF TypeOK, Request
  <2>4. CASE MarkOnContact
    BY <2>1, <2>4, AddTrigger, Zenon DEF MarkOnContact
  <2>5. CASE SetCalibrated
    BY <2>1, <2>5, AddTrigger, Zenon DEF SetCalibrated
  <2>6. CASE NoContact
    BY <2>6, AskSafety, Zenon
  <2>7. CASE Restore
    BY <2>7, AskGains, Zenon DEF Restore
  <2>8. CASE AwaitContact \/ Contact \/ Timeout \/ Settle
    BY <2>8, Zenon DEF AwaitContact, Contact, Timeout, Settle, TypeOK, Request
  <2> QED BY <2>2, <2>3, <2>4, <2>5, <2>6, <2>7, <2>8, Zenon
<1>4. ok' \in BOOLEAN
  <2>1. ok' = ok \/ ok' = FALSE
    BY Zenon DEF MoveToStop, MarkOnContact, AwaitContact, Contact, SetCalibrated,
                 NoContact, Timeout, Settle, Restore, MoveToEnd
  <2>2. FALSE \in BOOLEAN
    OBVIOUS
  <2> QED BY <2>1, <2>2, Zenon DEF TypeOK
<1>5. gains' \in [Joint -> Gains]
  <2>1. gains' = gains \/ gains' = [gains EXCEPT ![cur] = saved[cur]]
    BY Zenon DEF MoveToStop, MarkOnContact, AwaitContact, Contact, SetCalibrated,
                 NoContact, Timeout, Settle, Restore, MoveToEnd
  <2> QED BY <2>1, Zenon DEF TypeOK
<1>6. wait' \in [Joint -> {"none", "moving", "contact", "timeout", "canceled"}]
  <2>1. \/ wait' = wait
        \/ \E w \in {"moving", "contact", "timeout", "canceled"} :
               wait' = [wait EXCEPT ![cur] = w]
    BY Zenon DEF MoveToStop, MarkOnContact, AwaitContact, Contact, SetCalibrated,
                 NoContact, Timeout, Settle, Restore, MoveToEnd
  <2> QED BY <2>1 DEF TypeOK
<1>7. UNCHANGED <<cur, canceled, saved, board, seen, blocked, result, runs, asked>>
  BY Zenon DEF MoveToStop, MarkOnContact, AwaitContact, Contact, SetCalibrated,
               NoContact, Timeout, Settle, Restore, MoveToEnd
<1> QED BY <1>2, <1>3, <1>4, <1>5, <1>6, <1>7, Zenon DEF TypeOK, Request

-----------------------------------------------------------------------------
(* The invariant: the control cycle.                                       *)

\* The status that a cycle loads.
LEMMA CycleSeen ==
    ASSUME Cycle
    PROVE  /\ seen'.contact = board[cur].contact
           /\ board[cur].motion = "toEnd" => seen'.near = board[cur].reached
<1>1. PICK near \in BOOLEAN : /\ seen' = [contact |-> board[cur].contact, near |-> near]
                              /\ board[cur].motion = "toEnd" => near = board[cur].reached
  BY Zenon DEF Cycle, LoadStatus
<1>2. seen'.contact = board[cur].contact /\ seen'.near = near
  BY <1>1, SMT
<1> QED BY <1>1, <1>2, Zenon

LEMMA CycleRequests == ASSUME IInv, Cycle PROVE Requests' /\ Sent'
<1>1. TypeOK
  BY Zenon DEF IInv
<1>2. \A j \in Joint : queue'[j] = Empty
  BY <1>1, CyclePushes, PushedFields, Zenon
<1>3. cur' = cur /\ cur \in Joint /\ due' = FALSE
  BY <1>1, CyclePushes, Zenon DEF TypeOK
<1>4. n' > 0
  BY <1>1, CyclePushes, IgnoreAssumption, SMT DEF TypeOK
<1>5. Requests'
  BY <1>2, EmptyType, Zenon DEF Requests
<1>6. Sent'
  BY <1>2, <1>3, <1>4, EmptyType, Zenon DEF Sent
<1> QED BY <1>5, <1>6

\* Of the contact of joint j.
LEMMA PushInContact ==
    ASSUME IInv, NEW moves \in SUBSET Joint, Push(moves), NEW j \in Joint
    PROVE  board'[j].contact => board'[j].motion # "toStop"
<1>1. /\ board'[j].contact => \/ board'[j].motion = "none"
                              \/ board[j].contact /\ queue[j].motion = "none"
      /\ board'[j].motion = "toStop" =>
             \/ queue[j].motion = "toStop"
             \/ queue[j].motion = "none" /\ board[j].motion = "toStop"
  BY PushedFields, Zenon DEF IInv
<1>2. board[j].contact => board[j].motion # "toStop"
  BY Zenon DEF IInv, InContact
<1> QED BY <1>1, <1>2, Zenon

LEMMA CycleInContact == ASSUME IInv, Cycle PROVE InContact'
<1>1. TypeOK /\ cur' = cur /\ cur \in Joint /\ due' = FALSE /\ pc' = pc /\ wait' = wait
  BY CyclePushes, Zenon DEF IInv, TypeOK
<1>2. \A j \in Joint : board'[j].contact => board'[j].motion # "toStop"
  BY PushInContact, CyclePushes, Zenon
<1>3. queue[cur].motion = "none" /\ board[cur].contact => board'[cur].contact
  BY <1>1, PushedFields, CyclePushes, Zenon
<1>4. pc \in {"contact", "touch", "calibrated"} => queue[cur].motion = "none"
  BY Zenon DEF IInv, Sent
<1>5. seen'.contact = board[cur].contact
  BY CycleSeen, Zenon
<1>6. pc = "touch" => wait[cur] = "contact" /\ board[cur].contact
  BY Zenon DEF IInv, InContact
<1> QED BY <1>1, <1>2, <1>3, <1>4, <1>5, <1>6, Zenon DEF InContact

\* What a push leaves of the end of joint j's wait for contact.
LEMMA PushWaited ==
    ASSUME IInv, NEW moves \in SUBSET Joint, Push(moves), NEW j \in Joint
    PROVE  /\ wait[j] = "contact" => board'[j].motion # "toStop"
           /\ wait[j] = "canceled" => board'[j].motion # "toStop" /\ ~board'[j].armed
<1>1. /\ board'[j].motion = "toStop" =>
             \/ queue[j].motion = "toStop"
             \/ queue[j].motion = "none" /\ board[j].motion = "toStop"
      /\ board'[j].armed => /\ "resetMark" \notin queue[j].trigger
                            /\ board[j].armed \/ "mark" \in queue[j].trigger
  BY PushedFields, Zenon DEF IInv
<1>2. queue[j].motion = "toStop" \/ "mark" \in queue[j].trigger => wait[j] = "moving"
  BY Zenon DEF IInv, Requests, Waited, Moving
<1>3. wait[j] = "contact" => board[j].motion # "toStop"
  BY Zenon DEF IInv, Waited
<1>4. CASE j = cur /\ pc = "safe" /\ due
  <2>1. "resetMark" \in queue[j].trigger /\ queue[j].motion = "safety"
    BY <1>4, Zenon DEF IInv, Sent
  <2> QED BY <1>1, <1>2, <1>3, <2>1, Zenon
<1>5. CASE ~(j = cur /\ pc = "safe" /\ due)
  <2>1. wait[j] = "canceled" => board[j].motion # "toStop" /\ ~board[j].armed
    BY <1>5, Zenon DEF IInv, Waited
  <2> QED BY <1>1, <1>2, <1>3, <2>1, Zenon
<1> QED BY <1>4, <1>5

LEMMA CycleWaited == ASSUME IInv, Cycle PROVE Waited'
<1>1. cur' = cur /\ pc' = pc /\ wait' = wait /\ ok' = ok
  BY CyclePushes, Zenon
<1>2. \A j \in Joint :
        /\ wait[j] = "contact" => board'[j].motion # "toStop"
        /\ wait[j] = "canceled" => board'[j].motion # "toStop" /\ ~board'[j].armed
  BY PushWaited, CyclePushes, Zenon
<1>3. Waited
  BY Zenon DEF IInv
<1> QED BY <1>1, <1>2, <1>3, Zenon DEF Waited, Moving

LEMMA PushRestored ==
    ASSUME IInv, NEW moves \in SUBSET Joint, Push(moves), NEW j \in Joint,
           wait[j] # "none", ~(j = cur /\ pc \in Changed)
    PROVE  gains[j] = saved[j] /\ board'[j].gains = gains[j]
<1>1. board'[j].gains = IF queue[j].gains THEN gains[j] ELSE board[j].gains
  BY PushedFields, Zenon DEF IInv
<1>2. /\ gains[j] = saved[j]
      /\ board[j].gains = gains[j] \/ (j = cur /\ pc = "restored" /\ due)
  BY Zenon DEF IInv, Restored
<1>3. j = cur /\ pc = "restored" /\ due => queue[j].gains
  BY Zenon DEF IInv, Sent
<1> QED BY <1>1, <1>2, <1>3, Zenon

LEMMA CycleRestored == ASSUME IInv, Cycle PROVE Restored'
<1>1. /\ cur' = cur /\ pc' = pc /\ wait' = wait /\ gains' = gains /\ saved' = saved
  BY CyclePushes, Zenon
<1>2. \A j \in Joint : wait[j] # "none" /\ ~(j = cur /\ pc \in Changed) =>
          gains[j] = saved[j] /\ board'[j].gains = gains[j]
  BY PushRestored, CyclePushes, Zenon
<1> QED BY <1>1, <1>2, Zenon DEF Restored, Changed, Moving

\* A homed joint stays homed.
LEMMA PushHomed ==
    ASSUME TypeOK, NEW moves \in SUBSET Joint, Push(moves), NEW j \in Joint, Homed(j),
           UNCHANGED <<blocked, wait>>
    PROVE  Homed(j)'
<1>1. queue[j] = Empty /\ queue[j].motion = "none" /\ queue[j].trigger = {}
  BY EmptyType, Zenon DEF Homed
<1>2. board'[j].calibrated /\ queue'[j] = Empty
  <2>1. board'[j].calibrated =
            (("setCal" \in queue[j].trigger \/ board[j].calibrated)
             /\ "resetCal" \notin queue[j].trigger)
    BY PushedFields, Zenon
  <2>2. queue'[j] = Empty
    BY PushedFields, Zenon
  <2> QED BY <1>1, <2>1, <2>2, Zenon DEF Homed
<1>3. \/ "toEnd" \in blocked'[j]
      \/ board'[j].reached /\ board'[j].motion = "toEnd"
  BY <1>1, PushedToEnd, Zenon DEF Homed
<1>4. wait'[j] = "contact"
  BY Zenon DEF Homed
<1> QED BY <1>2, <1>3, <1>4, Zenon DEF Homed

LEMMA CycleProgressed == ASSUME IInv, Cycle PROVE Progressed'
<1>1. /\ cur' = cur /\ pc' = pc /\ wait' = wait /\ ok' = ok /\ result' = result
      /\ due' = FALSE /\ blocked' = blocked
  BY CyclePushes, Zenon
<1>2. TypeOK /\ cur \in Joint /\ n \in 0 .. Ignore
  BY Zenon DEF IInv, TypeOK
<1>3. \A j \in Joint : Homed(j) => Homed(j)'
  BY <1>1, <1>2, PushHomed, CyclePushes, Zenon
<1>4. 1 .. cur - 1 \subseteq Joint
  BY <1>2, JointAssumption, SMT DEF Joint
<1>5. pc # "idle"
  BY CyclePushes, Zenon DEF Updates, Waits
<1>6. \A j \in 1 .. cur' - 1 : Homed(j)'
  BY <1>1, <1>3, <1>4, <1>5, Zenon DEF IInv, Progressed
<1>7. pc = "endOfArm" => \A j \in Joint : Homed(j)'
  BY <1>1, <1>3, Zenon DEF IInv, Progressed
<1>8. (pc \in {"settle", "restored", "atEnd"} /\ ok) \/ pc = "calibrated"
        => board'[cur].calibrated /\ wait[cur] = "contact"
  <2>1. board'[cur].calibrated =
            (("setCal" \in queue[cur].trigger \/ board[cur].calibrated)
             /\ "resetCal" \notin queue[cur].trigger)
    BY <1>2, PushedFields, CyclePushes, Zenon
  <2>2. pc # "begin" => "resetCal" \notin queue[cur].trigger
    BY <1>2, Zenon DEF IInv, Requests
  <2>3. (pc \in {"settle", "restored", "atEnd"} /\ ok) \/ (pc = "calibrated" /\ ~due)
          => board[cur].calibrated /\ wait[cur] = "contact"
    BY Zenon DEF IInv, Progressed
  <2>4. pc = "calibrated" /\ due
          => "setCal" \in queue[cur].trigger /\ wait[cur] = "contact"
    BY Zenon DEF IInv, Sent, InContact
  <2> QED BY <2>1, <2>2, <2>3, <2>4, Zenon
<1>9. CASE pc = "atEnd"
  <2>1. n = 0 \/ n > 0
    BY <1>2, SMT
  <2>2. ok
    BY <1>9, Zenon DEF IInv, Progressed
  <2>3. \/ "toEnd" \in blocked[cur]
        \/ queue[cur].motion = "toEnd"
        \/ queue[cur].motion = "none" /\ board[cur].motion = "toEnd" /\ n > 0
    BY <1>9, <2>1, EmptyType, Zenon DEF IInv, Sent, Progressed
  <2>4. "toEnd" \in blocked[cur] \/ board'[cur].motion = "toEnd"
    BY <1>2, <2>3, PushedToEnd, CyclePushes, Zenon
  <2>5. ASSUME n' > 1, seen'.near
        PROVE  "toEnd" \in blocked[cur] \/ board'[cur].reached
    <3>1. n > 0 /\ n # 0
      BY <1>2, <2>5, CyclePushes, SMT
    <3>2. queue[cur] = Empty
      BY <1>9, <3>1, Zenon DEF IInv, Sent
    <3>3. "toEnd" \in blocked[cur] \/ board[cur].motion = "toEnd"
      BY <1>9, <3>1, Zenon DEF IInv, Progressed
    <3>4. board[cur].motion = "toEnd" => board[cur].reached
      BY <2>5, CycleSeen, Zenon
    <3> QED BY <1>2, <3>2, <3>3, <3>4, EmptyType, PushedToEnd, CyclePushes, Zenon
  <2> QED BY <1>1, <1>6, <1>8, <1>9, <2>2, <2>4, <2>5, Zenon DEF Progressed
<1>10. CASE pc # "atEnd"
  BY <1>1, <1>5, <1>6, <1>7, <1>8, <1>10, Zenon DEF Progressed
<1> QED BY <1>9, <1>10

LEMMA CycleInv == ASSUME IInv, Cycle PROVE IInv'
BY CycleType, CycleRequests, CycleInContact, CycleWaited, CycleRestored,
   CycleProgressed, Zenon DEF IInv

-----------------------------------------------------------------------------
(* The invariant: the steps between cycles.                                *)

LEMMA NopCycleInv == ASSUME IInv, NopCycle PROVE IInv'
<1>1. PICK moves \in SUBSET Joint : Push(moves)
  BY Zenon DEF NopCycle
<1>2. /\ TypeOK /\ pc = "idle"
      /\ UNCHANGED <<pc, cur, due, n, ok, gains, saved, seen, blocked, result, wait>>
  BY Zenon DEF IInv, NopCycle
<1>3. Requests'
  BY <1>1, <1>2, PushedFields, EmptyType, Zenon DEF Requests
<1>4. Sent'
  BY <1>2, Zenon DEF Sent, Updates
<1>5. InContact'
  BY <1>1, <1>2, PushInContact, Zenon DEF InContact
<1>6. Waited'
  <2>1. Waited
    BY Zenon DEF IInv
  <2> QED BY <1>1, <1>2, <2>1, PushWaited, Zenon DEF Waited, Moving
<1>7. Restored'
  BY <1>1, <1>2, PushRestored, Zenon DEF Restored, Changed, Moving
<1>8. Progressed'
  <2>1. \A j \in Joint : Homed(j) => Homed(j)'
    BY <1>1, <1>2, PushHomed, Zenon
  <2>2. result => \A j \in Joint : Homed(j)
    BY <1>2, Zenon DEF IInv, Progressed
  <2> QED BY <1>2, <2>1, <2>2, Zenon DEF Progressed
<1> QED BY <1>3, <1>4, <1>5, <1>6, <1>7, <1>8, NopCycleType, Zenon DEF IInv

LEMMA RunstopInv == ASSUME IInv, Runstop PROVE IInv'
<1>1. UNCHANGED <<pc, cur, due, n, ok, gains, saved, queue, board, seen, blocked,
                  result, runs, asked, wait>>
  BY Zenon DEF Runstop
<1>2. Requests' /\ Sent'
  BY <1>1, Zenon DEF IInv, Requests, Sent
<1>3. InContact' /\ Waited' /\ Restored'
  BY <1>1, Zenon DEF IInv, InContact, Waited, Restored
<1>4. Progressed'
  BY <1>1, Zenon DEF IInv, Progressed, Homed
<1> QED BY <1>2, <1>3, <1>4, RunstopType, Zenon DEF IInv

\* No joint is being homed: nothing that matters is queued, and every joint is as its
\* own homing left it.
Still == /\ \A j \in Joint : /\ queue[j].trigger \cap {"resetCal", "setCal", "mark"} = {}
                             /\ queue[j].motion # "toStop"
         /\ \A j \in Joint :
              /\ board[j].contact => board[j].motion # "toStop"
              /\ wait[j] # "moving"
              /\ wait[j] \in {"contact", "canceled"} => board[j].motion # "toStop"
              /\ wait[j] = "canceled" => ~board[j].armed
              /\ wait[j] # "none" => gains[j] = saved[j] /\ board[j].gains = gains[j]

\* So it is where a subroutine has not begun or ends.
LEMMA Rests ==
    ASSUME IInv,
           \/ pc \in {"idle", "start", "endOfArm", "atEnd"}
           \/ pc \in {"begin", "restored"} /\ ~due
    PROVE  Still
<1>1. \A j \in Joint : /\ queue[j].trigger \cap {"resetCal", "setCal", "mark"} = {}
                       /\ queue[j].motion # "toStop"
  BY Zenon DEF IInv, Requests
<1>2. \A j \in Joint : board[j].contact => board[j].motion # "toStop"
  BY Zenon DEF IInv, InContact
<1>3. \A j \in Joint :
        /\ wait[j] # "moving"
        /\ wait[j] \in {"contact", "canceled"} => board[j].motion # "toStop"
        /\ wait[j] = "canceled" => ~board[j].armed
  BY Zenon DEF IInv, Waited, Moving
<1>4. pc \notin Changed
  BY Zenon DEF Changed, Moving
<1>5. \A j \in Joint : wait[j] # "none" =>
        gains[j] = saved[j] /\ board[j].gains = gains[j]
  BY <1>4, Zenon DEF IInv, Restored
<1> QED BY <1>1, <1>2, <1>3, <1>5, Zenon DEF Still

\* And it is kept by a step that goes from such a place to another.
LEMMA StillInv ==
    ASSUME Still, pc' \in {"idle", "start", "endOfArm"},
           UNCHANGED <<gains, saved, queue, board, wait>>
    PROVE  Requests' /\ Sent' /\ InContact' /\ Waited' /\ Restored'
<1>1. Requests'
  BY Zenon DEF Still, Requests
<1>2. Sent'
  BY Zenon DEF Sent, Updates
<1>3. InContact'
  BY Zenon DEF Still, InContact
<1>4. Waited'
  BY Zenon DEF Still, Waited, Moving
<1>5. Restored'
  BY Zenon DEF Still, Restored
<1> QED BY <1>1, <1>2, <1>3, <1>4, <1>5

LEMMA RunInv == ASSUME IInv, Run PROVE IInv'
<1>1. /\ pc = "idle" /\ pc' = "start" /\ cur' = 1
      /\ UNCHANGED <<gains, saved, queue, board, wait>>
  BY Zenon DEF Run
<1>2. Requests' /\ Sent' /\ InContact' /\ Waited' /\ Restored'
  BY <1>1, Rests, StillInv, Zenon
<1>3. 1 .. cur' - 1 = {}
  BY <1>1, SMT
<1>4. Progressed'
  BY <1>1, <1>3, Zenon DEF Progressed
<1> QED BY <1>2, <1>4, RunType, Zenon DEF IInv

LEMMA ReturnInv ==
    ASSUME IInv, NEW r \in BOOLEAN, Return(r), Still, pc # "idle",
           r => Homed(cur),
           UNCHANGED <<gains, saved, queue, board, blocked, wait>>
    PROVE  Requests' /\ Sent' /\ InContact' /\ Waited' /\ Restored' /\ Progressed'
<1>1. pc' \in {"idle", "start", "endOfArm"}
  BY Zenon DEF Return
<1>2. \A j \in Joint : Homed(j) => Homed(j)'
  BY Zenon DEF Homed
<1>3. \A j \in 1 .. cur - 1 : Homed(j)
  BY Zenon DEF IInv, Progressed
<1>4. cur \in Joint
  BY Zenon DEF IInv, TypeOK
<1>5. CASE r /\ cur < N /\ pc' = "start" /\ cur' = cur + 1
  <2>1. \A j \in 1 .. cur' - 1 : j \in Joint /\ (j \in 1 .. cur - 1 \/ j = cur)
    BY <1>4, <1>5, JointAssumption, SMT DEF Joint
  <2>2. \A j \in 1 .. cur' - 1 : Homed(j)'
    BY <1>2, <1>3, <1>5, <2>1, Zenon
  <2> QED BY <1>1, <1>5, <2>2, StillInv, Zenon DEF Progressed
<1>6. CASE r /\ cur = N /\ pc' = "endOfArm" /\ cur' = cur
  <2>1. \A j \in Joint : j \in 1 .. cur - 1 \/ j = cur
    BY <1>4, <1>6, JointAssumption, SMT DEF Joint
  <2>2. \A j \in 1 .. cur - 1 : j \in Joint
    BY <1>4, JointAssumption, SMT DEF Joint
  <2>3. \A j \in Joint : Homed(j)'
    BY <1>2, <1>3, <1>6, <2>1, Zenon
  <2> QED BY <1>1, <1>6, <2>2, <2>3, StillInv, Zenon DEF Progressed
<1>7. CASE ~r /\ pc' = "idle" /\ result' = FALSE
  BY <1>1, <1>7, StillInv, Zenon DEF Progressed
<1> QED BY <1>5, <1>6, <1>7, Zenon DEF Return

LEMMA FailingInv ==
    ASSUME IInv, NoHardware \/ GiveUp \/ Failed \/ NotAtEnd PROVE IInv'
<1>1. /\ \/ pc \in {"start", "atEnd"}
         \/ pc \in {"begin", "restored"} /\ ~due
      /\ Return(FALSE)
      /\ UNCHANGED <<gains, saved, queue, board, blocked, wait>>
  BY Zenon DEF NoHardware, GiveUp, Failed, NotAtEnd, Elapsed
<1>2. FALSE \in BOOLEAN /\ pc # "idle"
  BY <1>1
<1>3. Still
  BY <1>1, Rests, Zenon
<1>4. Requests' /\ Sent' /\ InContact' /\ Waited' /\ Restored' /\ Progressed'
  BY <1>1, <1>2, <1>3, ReturnInv, Zenon
<1>5. TypeOK'
  BY ReturningType, Zenon DEF IInv
<1> QED BY <1>4, <1>5, Zenon DEF IInv

LEMMA AtEndInv == ASSUME IInv, AtEnd PROVE IInv'
<1>1. /\ pc = "atEnd" /\ seen.near /\ Return(TRUE)
      /\ UNCHANGED <<gains, saved, queue, board, blocked, wait>>
  BY Zenon DEF AtEnd
<1>2. n > 1 /\ n > 0 /\ n # 0
  BY IgnoreAssumption, SMT DEF AtEnd
<1>3. Homed(cur)
  <2>1. ok /\ queue[cur] = Empty
    BY <1>1, <1>2, Zenon DEF IInv, Sent, Progressed
  <2>2. board[cur].calibrated /\ wait[cur] = "contact"
    BY <1>1, <2>1, Zenon DEF IInv, Progressed
  <2>3. \/ "toEnd" \in blocked[cur]
        \/ board[cur].reached /\ board[cur].motion = "toEnd"
    BY <1>1, <1>2, Zenon DEF IInv, Progressed
  <2> QED BY <2>1, <2>2, <2>3, Zenon DEF Homed
<1>4. TRUE \in BOOLEAN /\ pc # "idle"
  BY <1>1
<1>5. Still
  BY <1>1, Rests, Zenon
<1>6. Requests' /\ Sent' /\ InContact' /\ Waited' /\ Restored' /\ Progressed'
  BY <1>1, <1>3, <1>4, <1>5, ReturnInv, Zenon
<1>7. TypeOK'
  BY ReturningType, Zenon DEF IInv
<1> QED BY <1>6, <1>7, Zenon DEF IInv

LEMMA EndOfArmHomedInv == ASSUME IInv, EndOfArmHomed PROVE IInv'
<1>1. /\ pc = "endOfArm" /\ pc' = "idle"
      /\ UNCHANGED <<cur, gains, saved, queue, board, blocked, wait>>
  BY Zenon DEF EndOfArmHomed
<1>2. Requests' /\ Sent' /\ InContact' /\ Waited' /\ Restored'
  BY <1>1, Rests, StillInv, Zenon
<1>3. \A j \in Joint : Homed(j)'
  BY <1>1, Zenon DEF IInv, Progressed, Homed
<1>4. Progressed'
  BY <1>1, <1>3, Zenon DEF Progressed
<1> QED BY <1>2, <1>4, EndOfArmHomedType, Zenon DEF IInv

\* The joints before the one that is homed stay homed.
LEMMA EarlierHomed ==
    ASSUME IInv, pc # "idle", UNCHANGED <<cur, board, blocked>>,
           \A j \in Joint : j # cur => queue'[j] = queue[j] /\ wait'[j] = wait[j]
    PROVE  \A j \in 1 .. cur' - 1 : Homed(j)'
<1>1. \A j \in 1 .. cur - 1 : j \in Joint /\ j # cur
  BY JointAssumption, SMT DEF IInv, TypeOK, Joint
<1>2. \A j \in 1 .. cur - 1 : Homed(j)
  BY Zenon DEF IInv, Progressed
<1> QED BY <1>1, <1>2, Zenon DEF Homed

\* In a step within the subroutine of cur the other joints are as they were.
LEMMA OthersInv ==
    ASSUME IInv, UNCHANGED <<cur, board>>,
           NEW j \in Joint, j # cur,
           queue'[j] = queue[j], wait'[j] = wait[j],
           gains'[j] = gains[j], saved'[j] = saved[j]
    PROVE  /\ {"resetCal", "setCal", "mark"} \cap queue'[j].trigger = {}
           /\ queue'[j].motion # "toStop"
           /\ board'[j].contact => board'[j].motion # "toStop"
           /\ wait'[j] # "moving"
           /\ wait'[j] \in {"contact", "canceled"} => board'[j].motion # "toStop"
           /\ wait'[j] = "canceled" => ~board'[j].armed
           /\ wait'[j] # "none" => gains'[j] = saved'[j] /\ board'[j].gains = gains'[j]
<1>1. /\ {"resetCal", "setCal", "mark"} \cap queue[j].trigger = {}
      /\ queue[j].motion # "toStop"
  BY Zenon DEF IInv, Requests
<1>2. board[j].contact => board[j].motion # "toStop"
  BY Zenon DEF IInv, InContact
<1>3. /\ wait[j] # "moving"
      /\ wait[j] \in {"contact", "canceled"} => board[j].motion # "toStop"
      /\ wait[j] = "canceled" => ~board[j].armed
  BY Zenon DEF IInv, Waited
<1>4. wait[j] # "none" => gains[j] = saved[j] /\ board[j].gains = gains[j]
  BY Zenon DEF IInv, Restored
<1> QED BY <1>1, <1>2, <1>3, <1>4, Zenon

LEMMA StartInv == ASSUME IInv, Start PROVE IInv'
<1>1. /\ pc = "start" /\ pc' = "begin" /\ due'
      /\ UNCHANGED <<cur, board, blocked, result>>
  BY Zenon DEF Start, Goto, Updates
<1>2. TypeOK /\ cur \in Joint
  BY Zenon DEF IInv, TypeOK
<1>3. /\ wait'[cur] = "none"
      /\ queue'[cur].trigger = queue[cur].trigger \cup {"resetCal"}
      /\ queue'[cur].motion = queue[cur].motion
  BY <1>2, AskStart, Zenon DEF Start, TypeOK
<1>4. ASSUME NEW j \in Joint, j # cur
      PROVE  /\ queue'[j] = queue[j] /\ wait'[j] = wait[j]
             /\ gains'[j] = gains[j] /\ saved'[j] = saved[j]
  BY <1>2, <1>4, AskStart, Zenon DEF Start, TypeOK
<1>5. Requests'
  <2>1. /\ queue[cur].trigger \cap {"setCal", "mark"} = {}
        /\ queue[cur].motion # "toStop"
    BY <1>1, <1>2, Zenon DEF IInv, Requests
  <2>2. ASSUME NEW j \in Joint, j # cur
        PROVE  /\ {"resetCal", "setCal", "mark"} \cap queue'[j].trigger = {}
               /\ queue'[j].motion # "toStop"
    BY <1>1, <1>4, <2>2, OthersInv, Zenon
  <2>3. /\ {"setCal", "mark"} \cap queue'[cur].trigger = {}
        /\ queue'[cur].motion # "toStop"
    BY <1>3, <2>1
  <2> QED BY <1>1, <2>2, <2>3, Zenon DEF Requests
<1>6. Sent'
  BY <1>1, Zenon DEF Sent
<1>7. InContact'
  BY <1>1, Zenon DEF IInv, InContact
<1>8. Waited'
  BY <1>1, <1>3, <1>4, OthersInv, Zenon DEF Waited, Moving
<1>9. Restored'
  BY <1>1, <1>3, <1>4, OthersInv, Zenon DEF Restored
<1>10. Progressed'
  <2>1. \A j \in 1 .. cur' - 1 : Homed(j)'
    BY <1>1, <1>4, EarlierHomed, Zenon
  <2> QED BY <1>1, <2>1, Zenon DEF Progressed
<1> QED BY <1>2, <1>5, <1>6, <1>7, <1>8, <1>9, <1>10, StartType, Zenon DEF IInv

LEMMA MoveToStopInv == ASSUME IInv, MoveToStop PROVE IInv'
<1>1. /\ pc = "begin" /\ ~due /\ pc' = "approach" /\ ~due'
      /\ UNCHANGED <<cur, board, blocked, result, gains, saved>>
  BY Zenon DEF MoveToStop, Goto, Updates
<1>2. TypeOK /\ cur \in Joint /\ "toStop" \in Motion
  BY Zenon DEF IInv, TypeOK, Motion
<1>3. queue' = queue \/ queue' = [queue EXCEPT ![cur].motion = "toStop"]
  BY Zenon DEF MoveToStop, Move
<1>4. /\ wait'[cur] = "moving"
      /\ queue'[cur].trigger = queue[cur].trigger
  BY <1>2, <1>3, AskMotion, Zenon DEF MoveToStop, TypeOK
<1>5. ASSUME NEW j \in Joint, j # cur
      PROVE  queue'[j] = queue[j] /\ wait'[j] = wait[j]
  BY <1>2, <1>3, <1>5, AskMotion, Zenon DEF MoveToStop, TypeOK
<1>6. Requests'
  <2>1. queue[cur].trigger \cap {"resetCal", "setCal", "mark"} = {}
    BY <1>1, <1>2, Zenon DEF IInv, Requests
  <2> QED BY <1>1, <1>4, <1>5, <2>1, OthersInv, Zenon DEF Requests
<1>7. Sent'
  BY <1>1, Zenon DEF Sent, Updates
<1>8. InContact'
  BY <1>1, Zenon DEF IInv, InContact
<1>9. Waited'
  BY <1>1, <1>4, <1>5, OthersInv, Zenon DEF Waited, Moving
<1>10. Restored'
  BY <1>1, <1>5, OthersInv, Zenon DEF Restored, Changed, Moving
<1>11. Progressed'
  <2>1. \A j \in 1 .. cur' - 1 : Homed(j)'
    BY <1>1, <1>5, EarlierHomed, Zenon
  <2> QED BY <1>1, <2>1, Zenon DEF Progressed
<1> QED BY <1>2, <1>6, <1>7, <1>8, <1>9, <1>10, <1>11, GoingType, Zenon DEF IInv

LEMMA MarkOnContactInv == ASSUME IInv, MarkOnContact PROVE IInv'
<1>1. /\ pc = "approach" /\ pc' = "arm" /\ due'
      /\ UNCHANGED <<cur, board, blocked, result, gains, saved, wait>>
  BY Zenon DEF MarkOnContact, Elapsed, Goto, Updates
<1>2. TypeOK /\ cur \in Joint /\ "mark" \in Trigger
  BY Zenon DEF IInv, TypeOK, Trigger
<1>3. queue' = [queue EXCEPT ![cur].trigger = @ \cup {"mark"}]
  BY Zenon DEF MarkOnContact
<1>4. queue'[cur].trigger = queue[cur].trigger \cup {"mark"}
  BY <1>2, <1>3, AddTrigger, Zenon
<1>5. ASSUME NEW j \in Joint, j # cur
      PROVE  queue'[j] = queue[j]
  BY <1>2, <1>3, <1>5, AddTrigger, Zenon
<1>6. Requests'
  <2>1. queue[cur].trigger \cap {"resetCal", "setCal"} = {}
    BY <1>1, <1>2, Zenon DEF IInv, Requests
  <2> QED BY <1>1, <1>4, <1>5, <2>1, OthersInv, Zenon DEF Requests
<1>7. Sent'
  BY <1>1, Zenon DEF Sent
<1>8. InContact'
  BY <1>1, Zenon DEF IInv, InContact
<1>9. Waited'
  <2>1. wait[cur] = "moving"
    BY <1>1, Zenon DEF IInv, Waited, Moving
  <2> QED BY <1>1, <1>5, <2>1, OthersInv, Zenon DEF Waited, Moving
<1>10. Restored'
  BY <1>1, <1>5, OthersInv, Zenon DEF Restored, Changed, Moving
<1>11. Progressed'
  <2>1. \A j \in 1 .. cur' - 1 : Homed(j)'
    BY <1>1, <1>5, EarlierHomed, Zenon
  <2> QED BY <1>1, <2>1, Zenon DEF Progressed
<1> QED BY <1>2, <1>6, <1>7, <1>8, <1>9, <1>10, <1>11, GoingType, Zenon DEF IInv

LEMMA AwaitContactInv == ASSUME IInv, AwaitContact PROVE IInv'
<1>1. /\ pc = "arm" /\ ~due /\ pc' = "contact" /\ ~due' /\ n' = 0
      /\ UNCHANGED <<cur, board, blocked, result, gains, saved, wait, queue>>
  BY Zenon DEF AwaitContact, Goto, Updates
<1>2. TypeOK /\ cur \in Joint
  BY Zenon DEF IInv, TypeOK
<1>3. queue[cur].motion = "none" /\ queue[cur].trigger = {}
  <2>1. queue[cur] = Empty
    BY <1>1, Zenon DEF IInv, Sent, Updates
  <2> QED BY <2>1, EmptyType, Zenon
<1>4. Requests'
  BY <1>1, <1>3, OthersInv, Zenon DEF Requests
<1>5. Sent'
  BY <1>1, <1>3, Zenon DEF Sent, Updates
<1>6. InContact'
  <2>1. ~(n' > 0)
    BY <1>1, SMT
  <2> QED BY <1>1, <2>1, Zenon DEF IInv, InContact
<1>7. Waited'
  <2>1. wait[cur] = "moving"
    BY <1>1, Zenon DEF IInv, Waited, Moving
  <2> QED BY <1>1, <2>1, OthersInv, Zenon DEF Waited, Moving
<1>8. Restored'
  BY <1>1, OthersInv, Zenon DEF Restored, Changed, Moving
<1>9. Progressed'
  <2>1. \A j \in 1 .. cur' - 1 : Homed(j)'
    BY <1>1, EarlierHomed, Zenon
  <2> QED BY <1>1, <2>1, Zenon DEF Progressed
<1> QED BY <1>2, <1>4, <1>5, <1>6, <1>7, <1>8, <1>9, GoingType, Zenon DEF IInv

\* What all the steps after the contact share: the other joints, and that the joint of
\* the subroutine is not driven to its stop again.
LEMMA StepInv ==
    ASSUME IInv, UNCHANGED <<cur, board, blocked, result, saved>>, pc # "idle",
           pc' \in {"touch", "calibrated", "safe", "settle", "restored", "atEnd"},
           \A j \in Joint : j # cur => /\ queue'[j] = queue[j] /\ wait'[j] = wait[j]
                                       /\ gains'[j] = gains[j],
           wait'[cur] # "moving"
    PROVE  /\ \A j \in Joint : j # cur =>
                /\ {"resetCal", "setCal", "mark"} \cap queue'[j].trigger = {}
                /\ queue'[j].motion # "toStop"
           /\ \A j \in 1 .. cur' - 1 : Homed(j)'
           /\ (/\ wait'[cur] = "contact" => board[cur].motion # "toStop"
               /\ wait'[cur] = "canceled" /\ ~(pc' = "safe" /\ due')
                    => board[cur].motion # "toStop" /\ ~board[cur].armed
               /\ pc' = "safe" => wait'[cur] = "canceled" /\ ~ok')
                 => Waited'
           /\ pc' \in Changed => Restored'
<1> USE DEF Moving
<1>1. \A j \in Joint : j # cur =>
         /\ {"resetCal", "setCal", "mark"} \cap queue'[j].trigger = {}
         /\ queue'[j].motion # "toStop"
  BY OthersInv, Zenon
<1>2. \A j \in 1 .. cur' - 1 : Homed(j)'
  BY EarlierHomed, Zenon
<1>3. ASSUME /\ wait'[cur] = "contact" => board[cur].motion # "toStop"
             /\ wait'[cur] = "canceled" /\ ~(pc' = "safe" /\ due')
                  => board[cur].motion # "toStop" /\ ~board[cur].armed
             /\ pc' = "safe" => wait'[cur] = "canceled" /\ ~ok'
      PROVE  Waited'
  <2>1. pc' # "begin" /\ pc' \notin Moving
    BY Zenon
  <2>2. \A j \in Joint : j # cur =>
          /\ wait'[j] # "moving"
          /\ wait'[j] \in {"contact", "canceled"} => board'[j].motion # "toStop"
          /\ wait'[j] = "canceled" => ~board'[j].armed
    BY OthersInv, Zenon
  <2> QED BY <1>3, <2>1, <2>2, Zenon DEF Waited
<1>4. ASSUME pc' \in Changed PROVE Restored'
  <2>1. \A j \in Joint : j # cur =>
          (wait'[j] # "none" => gains'[j] = saved'[j] /\ board'[j].gains = gains'[j])
    BY OthersInv, Zenon
  <2> QED BY <1>4, <2>1, Zenon DEF Restored
<1> QED BY <1>1, <1>2, <1>3, <1>4, Zenon

LEMMA ContactInv == ASSUME IInv, Contact PROVE IInv'
<1>1. /\ pc = "contact" /\ seen.contact /\ pc' = "touch" /\ ~due'
      /\ UNCHANGED <<cur, board, blocked, result, gains, saved, queue, seen>>
  BY Zenon DEF Contact, Goto, Updates
<1>2. TypeOK /\ cur \in Joint
  BY Zenon DEF IInv, TypeOK
<1>3. wait'[cur] = "contact" /\ \A j \in Joint : j # cur => wait'[j] = wait[j]
  BY <1>2, Zenon DEF Contact, TypeOK
<1>4. board[cur].contact /\ board[cur].motion # "toStop"
  <2>1. n > 0
    BY IgnoreAssumption, SMT DEF Contact
  <2> QED BY <1>1, <1>2, <2>1, Zenon DEF IInv, InContact
<1>5. Requests'
  BY <1>1, Zenon DEF IInv, Requests
<1>6. Sent'
  BY <1>1, Zenon DEF IInv, Sent, Updates
<1>7. InContact'
  BY <1>1, <1>3, <1>4, Zenon DEF IInv, InContact
<1>8. Waited'
  BY <1>1, <1>3, <1>4, StepInv, Zenon
<1>9. Restored'
  BY <1>1, <1>3, StepInv, Zenon DEF Changed
<1>10. Progressed'
  <2>1. \A j \in 1 .. cur' - 1 : Homed(j)'
    BY <1>1, <1>3, StepInv, Zenon
  <2> QED BY <1>1, <2>1, Zenon DEF Progressed
<1> QED BY <1>2, <1>5, <1>6, <1>7, <1>8, <1>9, <1>10, GoingType, Zenon DEF IInv

LEMMA SetCalibratedInv == ASSUME IInv, SetCalibrated PROVE IInv'
<1>1. /\ pc = "touch" /\ pc' = "calibrated" /\ due'
      /\ UNCHANGED <<cur, board, blocked, result, gains, saved, wait, seen>>
  BY Zenon DEF SetCalibrated, Elapsed, Goto, Updates
<1>2. TypeOK /\ cur \in Joint /\ "setCal" \in Trigger
  BY Zenon DEF IInv, TypeOK, Trigger
<1>3. queue' = [queue EXCEPT ![cur].trigger = @ \cup {"setCal"}]
  BY Zenon DEF SetCalibrated
<1>4. /\ queue'[cur].trigger = queue[cur].trigger \cup {"setCal"}
      /\ queue'[cur].motion = queue[cur].motion
  BY <1>2, <1>3, AddTrigger, Zenon
<1>5. \A j \in Joint : j # cur => queue'[j] = queue[j]
  BY <1>2, <1>3, AddTrigger, Zenon
<1>6. /\ wait[cur] = "contact" /\ board[cur].contact /\ board[cur].motion # "toStop"
  BY <1>1, <1>2, Zenon DEF IInv, InContact
<1>7. Requests'
  <2>1. /\ queue[cur].trigger \cap {"resetCal", "mark"} = {}
        /\ queue[cur].motion # "toStop"
    BY <1>1, <1>2, Zenon DEF IInv, Requests
  <2>2. queue'[cur].trigger \cap {"resetCal", "mark"} = {}
    BY <1>4, <2>1
  <2>3. \A j \in Joint : j # cur =>
           /\ {"resetCal", "setCal", "mark"} \cap queue'[j].trigger = {}
           /\ queue'[j].motion # "toStop"
    BY <1>1, <1>5, <1>6, StepInv, Zenon
  <2> QED BY <1>1, <1>4, <2>1, <2>2, <2>3, Zenon DEF Requests
<1>8. Sent'
  <2>1. queue[cur].motion = "none"
    BY <1>1, Zenon DEF IInv, Sent
  <2> QED BY <1>1, <1>4, <2>1, Zenon DEF Sent
<1>9. InContact'
  BY <1>1, <1>6, Zenon DEF IInv, InContact
<1>10. Waited'
  BY <1>1, <1>5, <1>6, StepInv, Zenon
<1>11. Restored'
  BY <1>1, <1>5, <1>6, StepInv, Zenon DEF Changed
<1>12. Progressed'
  <2>1. \A j \in 1 .. cur' - 1 : Homed(j)'
    BY <1>1, <1>5, <1>6, StepInv, Zenon
  <2> QED BY <1>1, <2>1, Zenon DEF Progressed
<1> QED BY <1>2, <1>7, <1>8, <1>9, <1>10, <1>11, <1>12, GoingType, Zenon DEF IInv

LEMMA NoContactInv == ASSUME IInv, NoContact PROVE IInv'
<1>1. /\ pc = "contact" /\ pc' = "safe" /\ due' /\ ~ok'
      /\ UNCHANGED <<cur, board, blocked, result, gains, saved, seen>>
  BY Zenon DEF NoContact, Goto, Updates
<1>2. TypeOK /\ cur \in Joint
  BY Zenon DEF IInv, TypeOK
<1>3. wait'[cur] = "canceled" /\ \A j \in Joint : j # cur => wait'[j] = wait[j]
  BY <1>2, Zenon DEF NoContact, TypeOK
<1>4. /\ queue'[cur].trigger = queue[cur].trigger \cup {"resetMark"}
      /\ queue'[cur].motion = "safety"
      /\ \A j \in Joint : j # cur => queue'[j] = queue[j]
  BY <1>2, AskSafety, Zenon
<1>5. Requests'
  <2>1. queue[cur].trigger \cap {"resetCal", "setCal", "mark"} = {}
    BY <1>1, <1>2, Zenon DEF IInv, Requests
  <2>2. queue'[cur].trigger \cap {"resetCal", "setCal", "mark"} = {}
    BY <1>4, <2>1
  <2>3. \A j \in Joint : j # cur =>
           /\ {"resetCal", "setCal", "mark"} \cap queue'[j].trigger = {}
           /\ queue'[j].motion # "toStop"
    BY <1>1, <1>3, <1>4, StepInv, Zenon
  <2> QED BY <1>1, <1>4, <2>2, <2>3, Zenon DEF Requests
<1>6. Sent'
  BY <1>1, <1>4, Zenon DEF Sent
<1>7. InContact'
  BY <1>1, Zenon DEF IInv, InContact
<1>8. Waited'
  BY <1>1, <1>3, <1>4, StepInv, Zenon
<1>9. Restored'
  BY <1>1, <1>3, <1>4, StepInv, Zenon DEF Changed
<1>10. Progressed'
  <2>1. \A j \in 1 .. cur' - 1 : Homed(j)'
    BY <1>1, <1>3, <1>4, StepInv, Zenon
  <2> QED BY <1>1, <2>1, Zenon DEF Progressed
<1> QED BY <1>2, <1>5, <1>6, <1>7, <1>8, <1>9, <1>10, GoingType, Zenon DEF IInv

LEMMA TimeoutInv == ASSUME IInv, Timeout PROVE IInv'
<1>1. /\ pc = "contact" /\ pc' = "settle" /\ ~due' /\ ~ok'
      /\ UNCHANGED <<cur, board, blocked, result, gains, saved, queue, seen>>
  BY Zenon DEF Timeout, Goto, Updates
<1>2. TypeOK /\ cur \in Joint
  BY Zenon DEF IInv, TypeOK
<1>3. wait'[cur] = "timeout" /\ \A j \in Joint : j # cur => wait'[j] = wait[j]
  BY <1>2, Zenon DEF Timeout, TypeOK
<1>4. Requests'
  BY <1>1, Zenon DEF IInv, Requests
<1>5. Sent'
  BY <1>1, Zenon DEF Sent, Updates
<1>6. InContact'
  BY <1>1, Zenon DEF IInv, InContact
<1>7. Waited'
  BY <1>1, <1>3, StepInv, Zenon
<1>8. Restored'
  BY <1>1, <1>3, StepInv, Zenon DEF Changed
<1>9. Progressed'
  <2>1. \A j \in 1 .. cur' - 1 : Homed(j)'
    BY <1>1, <1>3, StepInv, Zenon
  <2> QED BY <1>1, <2>1, Zenon DEF Progressed
<1> QED BY <1>2, <1>4, <1>5, <1>6, <1>7, <1>8, <1>9, GoingType, Zenon DEF IInv

LEMMA SettleInv == ASSUME IInv, Settle PROVE IInv'
<1>1. /\ pc \in {"calibrated", "safe"} /\ ~due /\ pc' = "settle" /\ ~due'
      /\ UNCHANGED <<cur, board, blocked, result, gains, saved, queue, wait, ok, seen>>
  BY Zenon DEF Settle, Goto, Updates
<1>2. TypeOK /\ cur \in Joint
  BY Zenon DEF IInv, TypeOK
<1>3. /\ wait[cur] # "moving"
      /\ wait[cur] = "contact" => board[cur].motion # "toStop"
      /\ wait[cur] = "canceled" => board[cur].motion # "toStop" /\ ~board[cur].armed
  BY <1>1, <1>2, Zenon DEF IInv, Waited, Moving
<1>4. Requests'
  BY <1>1, Zenon DEF IInv, Requests
<1>5. Sent'
  BY <1>1, Zenon DEF Sent, Updates
<1>6. InContact'
  BY <1>1, Zenon DEF IInv, InContact
<1>7. Waited'
  BY <1>1, <1>3, StepInv, Zenon
<1>8. Restored'
  BY <1>1, <1>3, StepInv, Zenon DEF Changed
<1>9. Progressed'
  <2>1. \A j \in 1 .. cur' - 1 : Homed(j)'
    BY <1>1, <1>3, StepInv, Zenon
  <2>2. ok => board[cur].calibrated /\ wait[cur] = "contact"
    BY <1>1, Zenon DEF IInv, Waited, Progressed
  <2> QED BY <1>1, <2>1, <2>2, Zenon DEF Progressed
<1> QED BY <1>2, <1>4, <1>5, <1>6, <1>7, <1>8, <1>9, GoingType, Zenon DEF IInv

LEMMA RestoreInv == ASSUME IInv, Restore PROVE IInv'
<1>1. /\ pc = "settle" /\ pc' = "restored" /\ due'
      /\ UNCHANGED <<cur, board, blocked, result, saved, wait, ok, seen>>
  BY Zenon DEF Restore, Elapsed, Goto, Updates
<1>2. TypeOK /\ cur \in Joint
  BY Zenon DEF IInv, TypeOK
<1>3. /\ wait[cur] # "moving"
      /\ wait[cur] = "contact" => board[cur].motion # "toStop"
      /\ wait[cur] = "canceled" => board[cur].motion # "toStop" /\ ~board[cur].armed
  BY <1>1, <1>2, Zenon DEF IInv, Waited, Moving
<1>4. queue' = [queue EXCEPT ![cur].gains = TRUE]
  BY Zenon DEF Restore
<1>5. /\ queue'[cur].trigger = queue[cur].trigger
      /\ queue'[cur].motion = queue[cur].motion
      /\ queue'[cur].gains
      /\ \A j \in Joint : j # cur => queue'[j] = queue[j]
  BY <1>2, <1>4, AskGains, Zenon
<1>6. gains'[cur] = saved[cur] /\ \A j \in Joint : j # cur => gains'[j] = gains[j]
  BY <1>2, Zenon DEF Restore, TypeOK
<1>7. Requests'
  <2>1. \A j \in Joint : /\ queue'[j].trigger = queue[j].trigger
                         /\ queue'[j].motion = queue[j].motion
    BY <1>5, Zenon
  <2> QED BY <1>1, <2>1, Zenon DEF IInv, Requests
<1>8. Sent'
  BY <1>1, <1>5, <1>6, Zenon DEF Sent
<1>9. InContact'
  BY <1>1, Zenon DEF IInv, InContact
<1>10. Waited'
  BY <1>1, <1>3, <1>5, <1>6, StepInv, Zenon
<1>11. Restored'
  <2>1. \A j \in Joint : j # cur =>
          (wait'[j] # "none" => gains'[j] = saved'[j] /\ board'[j].gains = gains'[j])
    BY <1>1, <1>5, <1>6, OthersInv, Zenon
  <2> QED BY <1>1, <1>6, <2>1, Zenon DEF Restored
<1>12. Progressed'
  <2>1. \A j \in 1 .. cur' - 1 : Homed(j)'
    BY <1>1, <1>3, <1>5, <1>6, StepInv, Zenon
  <2>2. ok => board[cur].calibrated /\ wait[cur] = "contact"
    BY <1>1, Zenon DEF IInv, Progressed
  <2> QED BY <1>1, <2>1, <2>2, Zenon DEF Progressed
<1> QED BY <1>2, <1>7, <1>8, <1>9, <1>10, <1>11, <1>12, GoingType, Zenon DEF IInv

LEMMA MoveToEndInv == ASSUME IInv, MoveToEnd PROVE IInv'
<1>1. /\ pc = "restored" /\ ~due /\ ok /\ pc' = "atEnd" /\ ~due' /\ n' = 0
      /\ UNCHANGED <<cur, board, blocked, result, gains, saved, wait, ok, seen>>
  BY Zenon DEF MoveToEnd, Goto, Updates
<1>2. TypeOK /\ cur \in Joint /\ "toEnd" \in Motion
  BY Zenon DEF IInv, TypeOK, Motion
<1>3. Still /\ queue[cur] = Empty
  BY <1>1, Rests, Zenon DEF IInv, Sent, Updates
<1>4. \/ "toEnd" \in blocked[cur] /\ queue' = queue
      \/ queue' = [queue EXCEPT ![cur].motion = "toEnd"]
  BY Zenon DEF MoveToEnd, Move
<1>5. /\ queue'[cur].trigger = queue[cur].trigger
      /\ \/ queue'[cur].motion = "toEnd"
         \/ "toEnd" \in blocked[cur] /\ queue'[cur] = Empty
      /\ \A j \in Joint : j # cur => queue'[j] = queue[j]
  <2>1. CASE "toEnd" \in blocked[cur] /\ queue' = queue
    BY <1>3, <2>1, Zenon
  <2>2. CASE queue' = [queue EXCEPT ![cur].motion = "toEnd"]
    BY <1>2, <2>2, AskMotion, Zenon
  <2> QED BY <1>4, <2>1, <2>2
<1>6. Requests'
  <2>1. queue'[cur].motion # "toStop" /\ queue'[cur].trigger = {}
    BY <1>3, <1>5, EmptyType, Zenon
  <2> QED BY <1>3, <1>5, <2>1, Zenon DEF Requests, Still
<1>7. Sent'
  BY <1>1, <1>5, Zenon DEF Sent, Updates
<1>8. InContact'
  BY <1>1, Zenon DEF IInv, InContact
<1>9. Waited'
  BY <1>1, <1>3, Zenon DEF Waited, Still, Moving
<1>10. Restored'
  BY <1>1, <1>3, Zenon DEF Restored, Still
<1>11. Progressed'
  <2>1. \A j \in 1 .. cur' - 1 : Homed(j)'
    BY <1>1, <1>5, EarlierHomed, Zenon
  <2>2. board[cur].calibrated /\ wait[cur] = "contact"
    BY <1>1, Zenon DEF IInv, Progressed
  <2>3. ~(n' > 0) /\ ~(n' > 1)
    BY <1>1, SMT
  <2> QED BY <1>1, <2>1, <2>2, <2>3, Zenon DEF Progressed
<1> QED BY <1>2, <1>6, <1>7, <1>8, <1>9, <1>10, <1>11, GoingType, Zenon DEF IInv

LEMMA StutterInv == ASSUME IInv, UNCHANGED vars PROVE IInv'
<1>1. UNCHANGED <<pc, cur, due, n, canceled, ok, gains, saved, queue, board, seen,
                  blocked, result, runs, asked, wait>>
  BY Zenon DEF vars
<1>2. TypeOK'
  BY <1>1, Zenon DEF IInv, TypeOK
<1>3. Requests' /\ Sent'
  BY <1>1, Zenon DEF IInv, Requests, Sent
<1>4. InContact' /\ Waited' /\ Restored'
  BY <1>1, Zenon DEF IInv, InContact, Waited, Restored
<1>5. Progressed'
  BY <1>1, Zenon DEF IInv, Progressed, Homed
<1> QED BY <1>2, <1>3, <1>4, <1>5, Zenon DEF IInv

LEMMA Inductive == IInv /\ [Next]_vars => IInv'
<1> SUFFICES ASSUME IInv, [Next]_vars PROVE IInv'
  OBVIOUS
<1>1. CASE Run \/ Cycle \/ Runstop \/ NopCycle
  BY <1>1, RunInv, CycleInv, RunstopInv, NopCycleInv, Zenon
<1>2. CASE NoHardware \/ GiveUp \/ Failed \/ NotAtEnd \/ AtEnd \/ EndOfArmHomed
  BY <1>2, FailingInv, AtEndInv, EndOfArmHomedInv, Zenon
<1>3. CASE Start \/ MoveToStop \/ MarkOnContact \/ AwaitContact \/ Contact
  BY <1>3, StartInv, MoveToStopInv, MarkOnContactInv, AwaitContactInv, ContactInv, Zenon
<1>4. CASE SetCalibrated \/ NoContact \/ Timeout \/ Settle \/ Restore \/ MoveToEnd
  BY <1>4, SetCalibratedInv, NoContactInv, TimeoutInv, SettleInv, RestoreInv,
     MoveToEndInv, Zenon
<1>5. CASE UNCHANGED vars
  BY <1>5, StutterInv, Zenon
<1> QED BY <1>1, <1>2, <1>3, <1>4, <1>5, Zenon DEF Next, JointStep

LEMMA Invariant == Spec => []IInv
BY InitInv, Inductive, PTL DEF Spec

-----------------------------------------------------------------------------
(* The theorems.                                                           *)

\* Every variable keeps its type, for any number of joints and any t_ignore of two
\* cycles or more (routine_homing.py).
THEOREM TypeCorrect == Spec => []TypeOK
<1>1. IInv => TypeOK
  BY Zenon DEF IInv
<1> QED BY <1>1, Invariant, PTL

\* When the prismatic joints are reported homed, each is calibrated, and at its end
\* position unless a collision stopped it there: the status that the last wait looks
\* at is older than the board, but not older than the move (routine_homing.py:198-206).
THEOREM SuccessIsHomed == Spec => []SuccessMeansHomed
<1>1. IInv => SuccessMeansHomed
  BY Zenon DEF IInv, Progressed, Homed, SuccessMeansHomed
<1> QED BY <1>1, Invariant, PTL

\* Whatever ended a homing, only a joint that timed out in its wait for contact, now or
\* in an earlier run, still drives to its stop or has a mark armed, and a joint that
\* was moved has its gains back (routine_homing.py:182-197).
THEOREM StrayTimedOut == Spec => []OnlyTimeoutStrays
<1>1. IInv => OnlyTimeoutStrays
  <2> SUFFICES ASSUME IInv, pc = "idle", NEW j \in Joint
               PROVE  /\ board[j].motion = "toStop" => wait[j] \in {"timeout", "none"}
                      /\ wait[j] = "canceled" => ~board[j].armed
                      /\ wait[j] # "none" => board[j].gains = gains[j]
                                             /\ gains[j] = saved[j]
    BY Zenon DEF OnlyTimeoutStrays
  <2>1. wait[j] \in {"none", "moving", "contact", "timeout", "canceled"}
    BY Zenon DEF IInv, TypeOK
  <2>2. Still
    BY Rests, Zenon
  <2> QED BY <2>1, <2>2, Zenon DEF Still
<1> QED BY <1>1, Invariant, PTL

\* Only a push moves or calibrates a joint.
LEMMA BoardMoves ==
    ASSUME IInv, [Next]_vars
    PROVE  board' = board \/ \E moves \in SUBSET Joint : Push(moves)
<1>1. CASE Cycle \/ NopCycle
  BY <1>1, CyclePushes, Zenon DEF NopCycle
<1>2. CASE Run \/ Runstop \/ UNCHANGED vars
  BY <1>2, Zenon DEF Run, Runstop, vars
<1>3. CASE JointStep
  BY <1>3, Zenon DEF JointStep, Start, NoHardware, GiveUp, MoveToStop, MarkOnContact,
                     AwaitContact, Contact, SetCalibrated, NoContact, Timeout, Settle,
                     Restore, MoveToEnd, Failed, AtEnd, NotAtEnd, EndOfArmHomed
<1> QED BY <1>1, <1>2, <1>3, Zenon DEF Next

\* A joint becomes calibrated only while it is in the contact that its routine waited
\* for (routine_homing.py:175-181).
THEOREM CalibratesInContact == Spec => CalibratedInContact
<1>1. IInv /\ [Next]_vars => [CalibratedMove]_vars
  <2> SUFFICES ASSUME IInv, [Next]_vars, NEW j \in Joint,
                      board'[j].calibrated, ~board[j].calibrated
               PROVE  wait[j] = "contact" /\ board[j].contact
    BY Zenon DEF CalibratedMove
  <2>1. "setCal" \in queue[j].trigger
    BY BoardMoves, PushedFields, Zenon DEF IInv
  <2>2. j = cur /\ pc = "calibrated" /\ due
    BY <2>1, Zenon DEF IInv, Requests
  <2> QED BY <2>2, Zenon DEF IInv, InContact
<1> QED BY <1>1, Invariant, PTL DEF Spec, CalibratedInContact

\* A joint starts towards its stop only when all before it are calibrated and none of
\* them moves to its own: the arm after the lift (routine_homing.py:231-262).
THEOREM LiftIsFirst == Spec => LiftFirst
<1>1. IInv /\ [Next]_vars => [OrderMove]_vars
  <2> SUFFICES ASSUME IInv, [Next]_vars, NEW j \in Joint,
                      board'[j].motion = "toStop", board[j].motion # "toStop",
                      NEW i \in 1 .. j - 1
               PROVE  board[i].calibrated /\ board[i].motion # "toStop"
    BY Zenon DEF OrderMove
  <2>1. queue[j].motion = "toStop"
    BY BoardMoves, PushedFields, Zenon DEF IInv
  <2>2. j = cur /\ pc \in {"approach", "arm"}
    BY <2>1, Zenon DEF IInv, Requests
  <2>3. Homed(i)
    BY <2>2, Zenon DEF IInv, Progressed
  <2>4. i \in Joint
    BY JointAssumption, SMT DEF Joint
  <2> QED BY <2>3, <2>4, Zenon DEF IInv, Waited, Homed
<1> QED BY <1>1, Invariant, PTL DEF Spec, LiftFirst

-----------------------------------------------------------------------------
(* The end of arm.  What the server is told is older than what the worker  *)
(* does, and that is older than what the server asked for: homes, the      *)
(* threads created, those begun, and the numbers in the two messages are   *)
(* in that order.  So a status that says that all have begun, and that     *)
(* none homes, was made when all were over.                                *)

Created == {t \in Thread : thread[t].at # "none"}
BegunThreads == {t \in Thread : Begun(t)}

\* Each homing puts a home and at most two cancels on q_cmd.
Owed == IF routine = "idle" THEN 0 ELSE IF isCanceled THEN 1 ELSE 2
Bounded == Len(qCmd) + Owed <= 3 * homes

\* f[i] threads will have been created when the first i commands are taken.
Counts(f) ==
    /\ Created = 1 .. f[0]
    /\ f[Len(qCmd)] = homes
    /\ \A i \in 1 .. Len(qCmd) :
          f[i] = IF qCmd[i] = "home" THEN f[i - 1] + 1 ELSE f[i - 1]
Queued == \E f \in [0 .. Len(qCmd) -> 0 .. homes] : Counts(f)

\* A living thread is the last that was created, and is_homing if it has begun.
Alone ==
    ~overlap => \A t \in Thread : Alive(t) => /\ Created = 1 .. t
                                              /\ Begun(t) => isHoming

\* A message that says that nothing homes was made before the living thread began.
Before(m) ==
    ~overlap /\ ~m.homing => \A t \in Thread : Alive(t) => m.begun < t

Known ==
    /\ status.begun <= posted.begun
    /\ posted.begun <= Cardinality(BegunThreads)
    /\ Before(status) /\ Before(posted)
    /\ routine = "poll" => status.begun = homes

Over ==
    routine = "idle" /\ succeeded =>
        /\ Created = 1 .. homes
        /\ ~overlap => \A t \in Thread : ~Alive(t)

\* What a thread has done to the joints so far.
Did(t) ==
    /\ \A j \in 1 .. thread[t].joint - 1 : calibrated[j] /\ offset[j]
    /\ thread[t].at \in {"marked", "locked", "toEnd"} => calibrated[thread[t].joint]
    /\ thread[t].at \in {"locked", "toEnd"} => offset[thread[t].joint]
Homes ==
    /\ \A t \in Thread : thread[t].at \in {"none", "new"} => thread[t].joint = 1
    /\ ~overlap => \A t \in Thread : Alive(t) => Did(t)

EoaInv == EoaTypeOK /\ Bounded /\ Queued /\ Alone /\ Known /\ Over /\ Homes

\* A set of threads is finite, and has no more members than any that holds it.
LEMMA ThreadsFinite ==
    ASSUME NEW S \in SUBSET Thread
    PROVE  IsFiniteSet(S) /\ Cardinality(S) \in Nat
<1>1. IsFiniteSet(1 .. MaxHomes)
  BY FS_Interval, HomesAssumption, MaxHomes \in Int
<1> QED
  BY <1>1, FS_Subset, FS_CardinalityType DEF Thread

LEMMA FirstThreads ==
    ASSUME NEW k \in Nat, NEW S \in SUBSET (1 .. k)
    PROVE  Cardinality(S) \in 0 .. k
<1>1. IsFiniteSet(1 .. k) /\ Cardinality(1 .. k) = k
  BY FS_Interval, 1 \in Int, k \in Int
<1>2. IsFiniteSet(S) /\ Cardinality(S) <= k
  BY <1>1, FS_Subset
<1>3. Cardinality(S) \in Nat
  BY <1>2, FS_CardinalityType
<1> QED
  BY <1>2, <1>3

LEMMA SameThreads ==
    ASSUME NEW k \in Nat, NEW l \in Nat, 1 .. k = 1 .. l
    PROVE  k = l
<1>1. Cardinality(1 .. k) = k
  BY FS_Interval, 1 \in Int, k \in Int
<1>2. Cardinality(1 .. l) = l
  BY FS_Interval, 1 \in Int, l \in Int
<1> QED
  BY <1>1, <1>2

\* The threads created are the first ones, and the server asked for as many.
LEMMA Ahead ==
    ASSUME EoaTypeOK, Queued
    PROVE  \E k \in 0 .. homes :
              /\ Created = 1 .. k
              /\ BegunThreads \subseteq 1 .. k
              /\ Cardinality(BegunThreads) \in 0 .. k
<1>1. PICK f \in [0 .. Len(qCmd) -> 0 .. homes] : Counts(f)
  BY DEF Queued
<1>2. Len(qCmd) \in Nat
  BY DEF EoaTypeOK
<1>3. f[0] \in 0 .. homes /\ homes \in Nat
  BY <1>2 DEF EoaTypeOK
<1>4. Created = 1 .. f[0]
  BY <1>1 DEF Counts
<1>5. BegunThreads \subseteq 1 .. f[0]
  BY <1>4 DEF Created, BegunThreads, Begun
<1>6. Cardinality(BegunThreads) \in 0 .. f[0]
  BY <1>3, <1>5, FirstThreads
<1> QED
  BY <1>3, <1>4, <1>5, <1>6

\* One command more, or one less, on q_cmd.
LEMMA QueuedMore ==
    ASSUME EoaTypeOK, Queued, NEW c \in {"home", "cancel"},
           qCmd' = Append(qCmd, c), Created' = Created,
           homes' = IF c = "home" THEN homes + 1 ELSE homes
    PROVE  Queued'
<1>1. PICK f \in [0 .. Len(qCmd) -> 0 .. homes] : Counts(f)
  BY DEF Queued
<1> DEFINE L == Len(qCmd)
           g == [i \in 0 .. L + 1 |-> IF i <= L THEN f[i] ELSE homes']
<1>2. /\ L \in Nat /\ homes \in Nat /\ homes' \in Nat /\ homes <= homes'
      /\ qCmd \in Seq({"home", "cancel"})
  BY DEF EoaTypeOK
<1>3. /\ Len(qCmd') = L + 1 /\ qCmd'[L + 1] = c
      /\ \A i \in 1 .. L : qCmd'[i] = qCmd[i]
  BY <1>2
<1>4. g \in [0 .. L + 1 -> 0 .. homes']
  BY <1>2
<1>5. \A i \in 0 .. L : g[i] = f[i]
  BY <1>2
<1>6. g[L + 1] = homes'
  BY <1>2
<1>7. /\ Created = 1 .. f[0] /\ f[L] = homes
      /\ \A i \in 1 .. L : f[i] = IF qCmd[i] = "home" THEN f[i - 1] + 1 ELSE f[i - 1]
  BY <1>1 DEF Counts
<1> HIDE DEF L, g
<1>8. ASSUME NEW i \in 1 .. L + 1
      PROVE  g[i] = IF qCmd'[i] = "home" THEN g[i - 1] + 1 ELSE g[i - 1]
  <2>1. CASE i \in 1 .. L
    <3>1. i - 1 \in 0 .. L /\ i \in 0 .. L
      BY <1>2, <2>1
    <3>2. g[i - 1] = f[i - 1] /\ g[i] = f[i] /\ qCmd'[i] = qCmd[i]
      BY <1>3, <1>5, <2>1, <3>1
    <3> QED
      BY <1>7, <2>1, <3>2
  <2>2. CASE i = L + 1
    <3>1. g[i - 1] = homes
      BY <1>2, <1>5, <1>7, <2>2
    <3>2. g[i] = homes' /\ qCmd'[i] = c
      BY <1>3, <1>6, <2>2
    <3> QED
      BY <3>1, <3>2, Zenon
  <2>3. i \in 1 .. L \/ i = L + 1
    BY <1>2
  <2> QED
    BY <2>1, <2>2, <2>3, Zenon
<1>9. Created' = 1 .. g[0]
  BY <1>2, <1>5, <1>7
<1>10. PICK h : h = g
  OBVIOUS
<1>11. Counts(h)'
  BY <1>3, <1>6, <1>8, <1>9, <1>10 DEF Counts
<1> QED
  BY <1>3, <1>4, <1>10, <1>11 DEF Queued

LEMMA QueuedLess ==
    ASSUME EoaTypeOK, NEW f \in [0 .. Len(qCmd) -> 0 .. homes], Counts(f),
           qCmd # <<>>, qCmd' = Tail(qCmd), homes' = homes,
           Created' = 1 .. f[1]
    PROVE  Queued'
<1> DEFINE L == Len(qCmd)
           g == [i \in 0 .. L - 1 |-> f[i + 1]]
<1>2. /\ L \in Nat \ {0} /\ homes \in Nat
      /\ qCmd \in Seq({"home", "cancel"})
  BY DEF EoaTypeOK
<1>3. /\ Len(qCmd') = L - 1
      /\ \A i \in 1 .. L - 1 : qCmd'[i] = qCmd[i + 1]
  BY <1>2
<1>4. g \in [0 .. L - 1 -> 0 .. homes]
  BY <1>2
<1>5. \A i \in 0 .. L - 1 : g[i] = f[i + 1]
  OBVIOUS
<1>7. /\ f[L] = homes
      /\ \A i \in 1 .. L : f[i] = IF qCmd[i] = "home" THEN f[i - 1] + 1 ELSE f[i - 1]
  BY DEF Counts
<1> HIDE DEF L, g
<1>8. ASSUME NEW i \in 1 .. L - 1
      PROVE  g[i] = IF qCmd'[i] = "home" THEN g[i - 1] + 1 ELSE g[i - 1]
  <2>1. /\ i - 1 \in 0 .. L - 1 /\ i \in 0 .. L - 1
        /\ i + 1 \in 1 .. L /\ (i + 1) - 1 = i /\ (i - 1) + 1 = i
    BY <1>2
  <2>2. g[i - 1] = f[i] /\ g[i] = f[i + 1] /\ qCmd'[i] = qCmd[i + 1]
    BY <1>3, <1>5, <2>1
  <2>3. f[i + 1] = IF qCmd[i + 1] = "home" THEN f[(i + 1) - 1] + 1 ELSE f[(i + 1) - 1]
    BY <1>7, <2>1
  <2> QED
    BY <2>1, <2>2, <2>3
<1>9. g[0] = f[1] /\ g[L - 1] = homes
  BY <1>2, <1>5, <1>7
<1>10. PICK h : h = g
  OBVIOUS
<1>11. Counts(h)'
  BY <1>3, <1>8, <1>9, <1>10 DEF Counts
<1> QED
  BY <1>3, <1>4, <1>10, <1>11 DEF Queued

\* Steps that only ask, look or answer: the threads and the joints stay.
LEMMA ThreadsStay ==
    ASSUME UNCHANGED <<thread, joints, overlap, isHoming>>
    PROVE  /\ Created' = Created /\ BegunThreads' = BegunThreads
           /\ Alone => Alone'
           /\ Homes => Homes'
           /\ \A t \in Thread : Alive(t)' = Alive(t) /\ Begun(t)' = Begun(t)
  BY DEF joints, Created, BegunThreads, Begun, Alive, Alone, Homes, Did

LEMMA HomeKeeps == EoaInv /\ Home => EoaInv'
<1> SUFFICES ASSUME EoaInv, Home PROVE EoaInv'
  OBVIOUS
<1>1. /\ EoaTypeOK /\ Bounded /\ Queued /\ Alone /\ Known /\ Over /\ Homes
      /\ UNCHANGED <<thread, joints, overlap, isHoming>>
      /\ UNCHANGED <<succeeded, status, posted, event>>
  BY DEF EoaInv, Home
<1>2. /\ routine = "idle" /\ routine' = "begin" /\ homes < MaxHomes
      /\ homes' = homes + 1 /\ qCmd' = Append(qCmd, "home") /\ isCanceled' = FALSE
  BY DEF Home
<1>3. Bounded'
  <2>1. Len(qCmd') = Len(qCmd) + 1 /\ Len(qCmd) \in Nat /\ homes \in Nat
    BY <1>1, <1>2 DEF EoaTypeOK
  <2>2. Owed = 0 /\ Owed' = 2
    BY <1>2 DEF Owed
  <2> QED
    BY <1>1, <1>2, <2>1, <2>2 DEF Bounded
<1>4. EoaTypeOK'
  <2>1. homes' \in 0 .. MaxHomes
    BY <1>1, <1>2, HomesAssumption DEF EoaTypeOK
  <2>2. Len(qCmd') \in Nat /\ qCmd' \in Seq({"home", "cancel"})
    BY <1>1, <1>2 DEF EoaTypeOK
  <2>3. Owed' = 2
    BY <1>2 DEF Owed
  <2>4. Len(qCmd') <= 3 * MaxHomes
    BY <1>3, <2>1, <2>2, <2>3, HomesAssumption DEF Bounded
  <2> QED
    BY <1>1, <1>2, <2>1, <2>2, <2>4 DEF EoaTypeOK, joints
<1>5. Queued'
  BY <1>1, <1>2, ThreadsStay, QueuedMore
<1>6. Alone' /\ Homes'
  BY <1>1, ThreadsStay
<1>7. Known'
  BY <1>1, <1>2, ThreadsStay DEF Known, Before
<1>8. Over'
  BY <1>2 DEF Over
<1> QED
  BY <1>3, <1>4, <1>5, <1>6, <1>7, <1>8 DEF EoaInv

LEMMA CancelKeeps == EoaInv /\ (Cancel \/ NotOver) => EoaInv'
<1> SUFFICES ASSUME EoaInv, Cancel \/ NotOver PROVE EoaInv'
  OBVIOUS
<1>1. /\ EoaTypeOK /\ Bounded /\ Queued /\ Alone /\ Known /\ Over /\ Homes
      /\ UNCHANGED <<thread, joints, overlap, isHoming>>
      /\ UNCHANGED <<homes, status, posted, event>>
  BY DEF EoaInv, Cancel, NotOver
<1>2. /\ routine # "idle" /\ routine' \in {"idle", routine}
      /\ qCmd' = Append(qCmd, "cancel") /\ isCanceled' = TRUE
      /\ succeeded' \in {FALSE, succeeded}
      /\ routine' = "idle" => ~succeeded'
      /\ Owed >= 1 /\ Owed \in Nat
      /\ Owed' <= Owed - 1 /\ Owed' \in Nat
  <2>1. CASE Cancel
    BY <2>1 DEF Cancel, Owed
  <2>2. CASE NotOver
    <3>1. /\ routine # "idle" /\ routine' = "idle"
          /\ qCmd' = Append(qCmd, "cancel") /\ isCanceled' = TRUE
          /\ succeeded' = FALSE
      BY <2>2 DEF NotOver
    <3>2. Owed \in {1, 2} /\ Owed' = 0
      BY <3>1, Zenon DEF Owed
    <3>3. Owed >= 1 /\ Owed \in Nat /\ Owed' <= Owed - 1 /\ Owed' \in Nat
      BY <3>2
    <3> QED
      BY <3>1, <3>3, Zenon
  <2> QED
    BY <2>1, <2>2
<1>3. Len(qCmd') = Len(qCmd) + 1 /\ Len(qCmd) \in Nat /\ homes \in Nat
  BY <1>1, <1>2 DEF EoaTypeOK
<1>4. Bounded'
  BY <1>1, <1>2, <1>3 DEF Bounded
<1>5. EoaTypeOK'
  <2>1. homes <= MaxHomes
    BY <1>1, HomesAssumption DEF EoaTypeOK
  <2>2. qCmd' \in Seq({"home", "cancel"})
    BY <1>1, <1>2 DEF EoaTypeOK
  <2>3. Len(qCmd') <= 3 * MaxHomes
    BY <1>1, <1>2, <1>3, <1>4, <2>1, HomesAssumption DEF Bounded
  <2>4. routine' \in {"idle", "begin", "poll"} /\ succeeded' \in BOOLEAN
    BY <1>1, <1>2 DEF EoaTypeOK
  <2> QED
    BY <1>1, <1>2, <2>2, <2>3, <2>4 DEF EoaTypeOK, joints
<1>6. Queued'
  BY <1>1, <1>2, ThreadsStay, QueuedMore
<1>7. Alone' /\ Homes'
  BY <1>1, ThreadsStay
<1>8. Known'
  BY <1>1, <1>2, ThreadsStay DEF Known, Before
<1>9. Over'
  BY <1>2 DEF Over
<1> QED
  BY <1>4, <1>5, <1>6, <1>7, <1>8, <1>9 DEF EoaInv

\* Steps that leave q_cmd, the command's count and the threads alone.
LEMMA QueueStays ==
    ASSUME UNCHANGED <<homes, qCmd>>, Created' = Created
    PROVE  Queued => Queued'
  BY DEF Queued, Counts

LEMMA LookKeeps == EoaInv /\ (Pull \/ HomingBegun \/ Success) => EoaInv'
<1> SUFFICES ASSUME EoaInv, Pull \/ HomingBegun \/ Success PROVE EoaInv'
  OBVIOUS
<1>1. /\ EoaTypeOK /\ Bounded /\ Queued /\ Alone /\ Known /\ Over /\ Homes
      /\ UNCHANGED <<thread, joints, overlap, isHoming>>
      /\ UNCHANGED <<homes, qCmd, isCanceled, posted, event>>
  BY DEF EoaInv, Pull, HomingBegun, Success
<1>2. PICK k \in 0 .. homes : /\ Created = 1 .. k
                              /\ BegunThreads \subseteq 1 .. k
                              /\ Cardinality(BegunThreads) \in 0 .. k
  BY <1>1, Ahead
<1>3. /\ Created' = Created /\ BegunThreads' = BegunThreads /\ Alone' /\ Homes'
      /\ \A t \in Thread : Alive(t)' = Alive(t)
      /\ Queued'
  BY <1>1, ThreadsStay, QueueStays
<1>4. /\ homes \in Nat /\ status.begun \in Nat /\ posted.begun \in Nat
      /\ posted.homing \in BOOLEAN /\ status.homing \in BOOLEAN
  BY <1>1, HomesAssumption DEF EoaTypeOK, Message
<1>5. CASE Pull
  <2>1. status' = posted /\ UNCHANGED <<routine, succeeded>>
    BY <1>5 DEF Pull
  <2>2. EoaTypeOK'
    BY <1>1, <2>1 DEF EoaTypeOK, joints
  <2>3. Bounded' /\ Over'
    BY <1>1, <1>3, <2>1 DEF Bounded, Owed, Over
  <2>4. Before(status)' /\ Before(posted)'
    BY <1>1, <1>3, <2>1 DEF Known, Before
  <2>5. routine' = "poll" => posted.begun = homes
    BY <1>1, <1>2, <1>4, <2>1 DEF Known
  <2>6. status'.begun <= posted'.begun
    BY <1>1, <1>4, <2>1
  <2>7. Known'
    BY <1>1, <1>3, <2>1, <2>4, <2>5, <2>6 DEF Known
  <2> QED
    BY <1>3, <2>2, <2>3, <2>7 DEF EoaInv
<1>6. CASE HomingBegun
  <2>1. /\ UNCHANGED <<succeeded, status>>
        /\ routine = "begin" /\ routine' = "poll" /\ status.begun = homes
    BY <1>6 DEF HomingBegun
  <2>2. EoaTypeOK'
    BY <1>1, <2>1 DEF EoaTypeOK, joints
  <2>3. Bounded' /\ Over'
    BY <1>1, <2>1 DEF Bounded, Owed, Over
  <2>4. Known'
    BY <1>1, <1>3, <2>1 DEF Known, Before
  <2> QED
    BY <1>3, <2>2, <2>3, <2>4 DEF EoaInv
<1>7. CASE Success
  <2>1. /\ UNCHANGED status
        /\ routine = "poll" /\ routine' = "idle" /\ ~status.homing
        /\ succeeded' = TRUE
    BY <1>7 DEF Success
  <2>2. EoaTypeOK'
    BY <1>1, <2>1 DEF EoaTypeOK, joints
  <2>3. Bounded'
    <3>1. Owed' = 0 /\ Owed \in {1, 2}
      BY <2>1, Zenon DEF Owed
    <3>2. Len(qCmd) \in Nat
      BY <1>1 DEF EoaTypeOK
    <3>3. Owed' <= Owed /\ Owed' \in Nat /\ Owed \in Nat
      BY <3>1
    <3> QED
      BY <1>1, <1>4, <3>2, <3>3 DEF Bounded
  <2>4. Known'
    BY <1>1, <1>3, <2>1 DEF Known, Before
  <2>5. status.begun = homes
    BY <1>1, <2>1 DEF Known
  <2>6. k = homes
    BY <1>1, <1>2, <1>4, <2>5 DEF Known
  <2>7. ASSUME NEW t \in Thread, Alive(t), ~overlap
        PROVE  FALSE
    <3>1. status.begun < t
      BY <1>1, <2>1, <2>7 DEF Known, Before
    <3>2. t \in 1 .. homes
      BY <1>2, <2>6, <2>7 DEF Created, Alive
    <3> QED
      BY <1>4, <2>5, <3>1, <3>2
  <2>8. Created' = 1 .. homes'
    BY <1>1, <1>2, <1>3, <2>6
  <2>9. Over'
    BY <1>1, <1>3, <2>7, <2>8, Zenon DEF Over
  <2> QED
    BY <1>3, <2>2, <2>3, <2>4, <2>9 DEF EoaInv
<1> QED
  BY <1>5, <1>6, <1>7

LEMMA PostKeeps == EoaInv /\ Post => EoaInv'
<1> SUFFICES ASSUME EoaInv, Post PROVE EoaInv'
  OBVIOUS
<1>1. EoaTypeOK /\ Bounded /\ Queued /\ Alone /\ Known /\ Over /\ Homes
  BY DEF EoaInv
<1>2. /\ UNCHANGED <<thread, joints, overlap, isHoming>>
      /\ UNCHANGED <<routine, isCanceled, succeeded, homes, status, qCmd, event>>
      /\ posted' = [homing |-> isHoming, begun |-> Cardinality(BegunThreads)]
  BY DEF Post, server, BegunThreads
<1>3. PICK k \in 0 .. homes : /\ Created = 1 .. k
                              /\ BegunThreads \subseteq 1 .. k
                              /\ Cardinality(BegunThreads) \in 0 .. k
  BY <1>1, Ahead
<1>4. /\ Created' = Created /\ BegunThreads' = BegunThreads /\ Alone' /\ Homes'
      /\ \A t \in Thread : Alive(t)' = Alive(t)
      /\ Queued'
  BY <1>1, <1>2, ThreadsStay, QueueStays
<1>5. /\ homes \in 0 .. MaxHomes /\ status.begun \in Nat /\ posted.begun \in Nat
      /\ Cardinality(BegunThreads) \in Nat
      /\ isHoming \in BOOLEAN
  BY <1>1, <1>3, HomesAssumption DEF EoaTypeOK, Message
<1>6. posted'.begun = Cardinality(BegunThreads) /\ posted'.homing = isHoming
  BY <1>2
<1>7. EoaTypeOK'
  <2>1. Cardinality(BegunThreads) \in 0 .. MaxHomes
    BY <1>3, <1>5, HomesAssumption
  <2>2. posted' \in Message
    BY <1>2, <1>5, <2>1 DEF Message
  <2> QED
    BY <1>1, <1>2, <2>2 DEF EoaTypeOK, joints
<1>8. Bounded' /\ Over'
  BY <1>1, <1>2, <1>4 DEF Bounded, Owed, Over
<1>9. Before(posted)'
  <2>1. ASSUME NEW t \in Thread, Alive(t), ~overlap, ~isHoming
        PROVE  Cardinality(BegunThreads) < t
    <3>1. Created = 1 .. t /\ ~Begun(t)
      BY <1>1, <2>1 DEF Alone
    <3>2. BegunThreads \subseteq 1 .. t /\ t \notin BegunThreads
      BY <1>3, <3>1 DEF BegunThreads
    <3>3. t \in Nat \ {0}
      BY HomesAssumption DEF Thread
    <3>4. BegunThreads \in SUBSET (1 .. t - 1) /\ t - 1 \in Nat
      BY <3>2, <3>3
    <3>5. Cardinality(BegunThreads) \in 0 .. t - 1
      BY <3>4, FirstThreads
    <3> QED
      BY <3>3, <3>5
  <2> QED
    BY <1>2, <1>4, <1>6, <2>1, Zenon DEF Before
<1>10. Before(status)'
  BY <1>1, <1>2, <1>4 DEF Known, Before
<1>11. status'.begun <= posted'.begun /\ posted'.begun <= Cardinality(BegunThreads')
  BY <1>1, <1>2, <1>4, <1>5, <1>6 DEF Known
<1>12. Known'
  BY <1>1, <1>2, <1>9, <1>10, <1>11 DEF Known
<1> QED
  BY <1>4, <1>7, <1>8, <1>12 DEF EoaInv

LEMMA TakeHomeKeeps == EoaInv /\ TakeHome => EoaInv'
<1> SUFFICES ASSUME EoaInv, TakeHome PROVE EoaInv'
  OBVIOUS
<1>1. EoaTypeOK /\ Bounded /\ Queued /\ Alone /\ Known /\ Over /\ Homes
  BY DEF EoaInv
<1>2. /\ UNCHANGED <<routine, isCanceled, succeeded, homes, status, posted, event>>
      /\ UNCHANGED <<isHoming, joints>>
      /\ qCmd # <<>> /\ Head(qCmd) = "home" /\ qCmd' = Tail(qCmd)
  BY DEF TakeHome, server
<1>3. PICK t \in Thread :
          /\ \A u \in Thread : (thread[u].at = "none") <=> (u >= t)
          /\ thread' = [thread EXCEPT ![t].at = "new"]
          /\ overlap' = (overlap \/ \E u \in Thread : Alive(u))
  BY DEF TakeHome
<1>4. PICK f \in [0 .. Len(qCmd) -> 0 .. homes] : Counts(f)
  BY <1>1 DEF Queued
<1>5. /\ homes \in 0 .. MaxHomes /\ homes \in Nat
      /\ status.begun \in Nat /\ posted.begun \in Nat
      /\ Len(qCmd) \in Nat \ {0} /\ qCmd \in Seq({"home", "cancel"})
      /\ t \in Nat \ {0} /\ t <= MaxHomes
      /\ thread \in [Thread -> [at : Place, joint : EoaJoint]]
  BY <1>1, <1>2, HomesAssumption DEF EoaTypeOK, Message, Thread
<1>6. /\ thread[t].at = "none"
      /\ \A u \in Thread : thread[u].at # "none" <=> u < t
  BY <1>3, <1>5, HomesAssumption DEF Thread
<1>7. /\ thread'[t] = [at |-> "new", joint |-> thread[t].joint]
      /\ \A u \in Thread : u # t => thread'[u] = thread[u]
      /\ thread' \in [Thread -> [at : Place, joint : EoaJoint]]
  <2>1. thread[t] \in [at : Place, joint : EoaJoint]
    BY <1>5
  <2>2. [thread[t] EXCEPT !.at = "new"] = [at |-> "new", joint |-> thread[t].joint]
    BY <2>1
  <2>3. [at |-> "new", joint |-> thread[t].joint] \in [at : Place, joint : EoaJoint]
    BY <2>1 DEF Place
  <2> QED
    BY <1>3, <1>5, <2>2, <2>3
<1>8. Created = 1 .. t - 1 /\ Created' = 1 .. t
  <2>1. ASSUME NEW u \in Thread
        PROVE  /\ u \in Created <=> u < t
               /\ u \in Created' <=> u <= t
    <3>1. thread'[u].at # "none" <=> (u < t \/ u = t)
      BY <1>6, <1>7
    <3>2. u \in Nat
      BY HomesAssumption DEF Thread
    <3> QED
      BY <1>5, <1>6, <3>1, <3>2 DEF Created
  <2>2. Created \subseteq 1 .. MaxHomes /\ Created' \subseteq 1 .. MaxHomes
    BY DEF Created, Thread
  <2>3. ASSUME NEW u \in 1 .. MaxHomes
        PROVE  /\ u \in Created <=> u \in 1 .. t - 1
               /\ u \in Created' <=> u \in 1 .. t
    <3>1. u \in Nat \ {0} /\ u \in Thread
      BY HomesAssumption DEF Thread
    <3>2. (u < t <=> u \in 1 .. t - 1) /\ (u <= t <=> u \in 1 .. t)
      BY <1>5, <3>1
    <3> QED
      BY <2>1, <3>1, <3>2, Zenon
  <2>4. 1 .. t - 1 \subseteq 1 .. MaxHomes /\ 1 .. t \subseteq 1 .. MaxHomes
    BY <1>5, HomesAssumption
  <2> QED
    BY <2>2, <2>3, <2>4, Zenon
<1>9. f[0] \in Nat /\ f[1] = f[0] + 1 /\ f[1] <= homes /\ f[0] = t - 1
  <2>1. f[0] \in 0 .. homes /\ f[1] \in 0 .. homes /\ 1 \in 1 .. Len(qCmd)
    BY <1>5
  <2>2. qCmd[1] = "home"
    BY <1>2, <1>5
  <2>3. f[1] = f[1 - 1] + 1
    BY <1>4, <2>1, <2>2 DEF Counts
  <2>4. 1 .. f[0] = 1 .. t - 1
    BY <1>4, <1>8 DEF Counts
  <2>5. f[0] = t - 1
    BY <1>5, <2>1, <2>4, SameThreads, t - 1 \in Nat
  <2> QED
    BY <1>5, <2>1, <2>3, <2>5
<1>10. \A u \in Thread : /\ Alive(u)' => u = t \/ Alive(u)
                         /\ Begun(u)' <=> Begun(u)
  BY <1>6, <1>7 DEF Alive, Begun
<1>11. ~Begun(t)'
  BY <1>7 DEF Begun
<1>12. BegunThreads' = BegunThreads
  BY <1>10 DEF BegunThreads
<1>13. ~overlap' => ~overlap /\ \A u \in Thread : ~Alive(u)
  BY <1>3, Zenon
<1>14. EoaTypeOK'
  <2>1. overlap' \in BOOLEAN
    BY <1>1, <1>3 DEF EoaTypeOK
  <2>2. /\ qCmd' \in Seq({"home", "cancel"}) /\ Len(qCmd') = Len(qCmd) - 1
        /\ Len(qCmd') \in Nat
    BY <1>2, <1>5
  <2>3. Len(qCmd') <= 3 * MaxHomes
    BY <1>1, <1>5, <2>2, HomesAssumption DEF EoaTypeOK
  <2> QED
    BY <1>1, <1>2, <1>7, <2>1, <2>2, <2>3 DEF EoaTypeOK, joints
<1>15. Bounded'
  <2>1. Len(qCmd') = Len(qCmd) - 1
    BY <1>2, <1>5
  <2>2. Owed' = Owed /\ Owed \in Nat
    BY <1>2 DEF Owed
  <2> QED
    BY <1>1, <1>2, <1>5, <2>1, <2>2 DEF Bounded
<1>16. Queued'
  <2>1. Created' = 1 .. f[1]
    BY <1>5, <1>8, <1>9
  <2> QED
    BY <1>1, <1>2, <1>4, <2>1, QueuedLess
<1>17. Alone'
  <2>1. ASSUME NEW u \in Thread, Alive(u)', ~overlap'
        PROVE  Created' = 1 .. u /\ ~Begun(u)'
    BY <1>8, <1>10, <1>11, <1>13, <2>1, Zenon
  <2> QED
    BY <2>1, Zenon DEF Alone
<1>18. Cardinality(BegunThreads) < t
  <2>1. BegunThreads \in SUBSET (1 .. t - 1) /\ t - 1 \in Nat
    BY <1>5, <1>8 DEF BegunThreads, Begun, Created
  <2>2. Cardinality(BegunThreads) \in 0 .. t - 1
    BY <2>1, FirstThreads
  <2> QED
    BY <1>5, <2>2
<1>19. Known'
  <2>1. Cardinality(BegunThreads) \in Nat
    BY ThreadsFinite DEF BegunThreads
  <2>2. status.begun < t /\ posted.begun < t
    BY <1>1, <1>5, <1>18, <2>1 DEF Known
  <2>3. Before(status)' /\ Before(posted)'
    <3>1. ASSUME NEW u \in Thread, Alive(u)', ~overlap'
          PROVE  u = t
      BY <1>10, <1>13, <3>1, Zenon
    <3> QED
      BY <1>2, <2>2, <3>1, Zenon DEF Before
  <2> QED
    BY <1>1, <1>2, <1>12, <2>3 DEF Known
<1>20. Over'
  <2>1. ~(routine = "idle" /\ succeeded)
    <3>1. ASSUME Created = 1 .. homes PROVE FALSE
      <4>1. 1 .. homes = 1 .. t - 1
        BY <1>8, <3>1
      <4>2. homes = t - 1
        BY <1>5, <4>1, SameThreads, t - 1 \in Nat
      <4> QED
        BY <1>5, <1>9, <4>2
    <3> QED
      BY <1>1, <3>1, Zenon DEF Over
  <2> QED
    BY <1>2, <2>1, Zenon DEF Over
<1>21. Homes'
  <2>1. thread'[t].at = "new" /\ thread'[t].joint = 1
    <3>1. thread[t].joint = 1
      BY <1>1, <1>6 DEF Homes
    <3> QED
      BY <1>7, <3>1
  <2>2. \A u \in Thread : thread'[u].at \in {"none", "new"} => thread'[u].joint = 1
    BY <1>1, <1>7, <2>1 DEF Homes
  <2>3. 1 .. thread'[t].joint - 1 = {}
    BY <2>1
  <2>4. ASSUME NEW u \in Thread, Alive(u)', ~overlap'
        PROVE  /\ \A j \in 1 .. thread'[u].joint - 1 : calibrated'[j] /\ offset'[j]
               /\ thread'[u].at \notin {"marked", "locked", "toEnd"}
               /\ thread'[u].at \notin {"locked", "toEnd"}
    <3>1. u = t
      BY <1>10, <1>13, <2>4
    <3> QED
      BY <2>1, <2>3, <3>1
  <2> QED
    BY <2>2, <2>4, Zenon DEF Homes, Did
<1> QED
  BY <1>14, <1>15, <1>16, <1>17, <1>19, <1>20, <1>21 DEF EoaInv

LEMMA TakeCancelKeeps == EoaInv /\ TakeCancel => EoaInv'
<1> SUFFICES ASSUME EoaInv, TakeCancel PROVE EoaInv'
  OBVIOUS
<1>1. EoaTypeOK /\ Bounded /\ Queued /\ Alone /\ Known /\ Over /\ Homes
  BY DEF EoaInv
<1>2. /\ UNCHANGED <<routine, isCanceled, succeeded, homes, status, posted>>
      /\ UNCHANGED <<thread, joints, overlap, isHoming>>
      /\ qCmd # <<>> /\ Head(qCmd) = "cancel" /\ qCmd' = Tail(qCmd)
      /\ event' = TRUE
  BY DEF TakeCancel, server
<1>3. PICK f \in [0 .. Len(qCmd) -> 0 .. homes] : Counts(f)
  BY <1>1 DEF Queued
<1>4. /\ Len(qCmd) \in Nat \ {0} /\ qCmd \in Seq({"home", "cancel"})
      /\ Len(qCmd) <= 3 * MaxHomes /\ homes \in Nat
  BY <1>1, <1>2, HomesAssumption DEF EoaTypeOK
<1>5. /\ qCmd' \in Seq({"home", "cancel"}) /\ Len(qCmd') = Len(qCmd) - 1
  BY <1>2, <1>4
<1>6. /\ Created' = Created /\ BegunThreads' = BegunThreads /\ Alone' /\ Homes'
      /\ \A t \in Thread : Alive(t)' = Alive(t)
  BY <1>1, <1>2, ThreadsStay
<1>7. EoaTypeOK'
  <2>1. Len(qCmd') <= 3 * MaxHomes
    BY <1>4, <1>5, HomesAssumption
  <2> QED
    BY <1>1, <1>2, <1>5, <2>1 DEF EoaTypeOK, joints
<1>8. Bounded'
  <2>1. Owed' = Owed /\ Owed \in Nat
    BY <1>2 DEF Owed
  <2> QED
    BY <1>1, <1>2, <1>4, <1>5, <2>1 DEF Bounded
<1>9. Queued'
  <2>1. qCmd[1] = "cancel" /\ 1 \in 1 .. Len(qCmd)
    BY <1>2, <1>4
  <2>2. f[1] = f[1 - 1]
    BY <1>3, <2>1 DEF Counts
  <2>3. Created' = 1 .. f[1]
    BY <1>3, <1>6, <2>2 DEF Counts
  <2> QED
    BY <1>1, <1>2, <1>3, <2>3, QueuedLess
<1>10. Known'
  BY <1>1, <1>2, <1>6 DEF Known, Before
<1>11. Over'
  BY <1>1, <1>2, <1>6 DEF Over
<1> QED
  BY <1>6, <1>7, <1>8, <1>9, <1>10, <1>11 DEF EoaInv

\* A thread goes to another place, with the same joint or with the next.
LEMMA Goes ==
    ASSUME EoaTypeOK, NEW t \in Thread, NEW p \in Place, At(t, p)
    PROVE  /\ thread'[t].at = p /\ thread'[t].joint = thread[t].joint
           /\ \A u \in Thread : u # t => thread'[u] = thread[u]
           /\ thread' \in [Thread -> [at : Place, joint : EoaJoint]]
<1>1. /\ thread \in [Thread -> [at : Place, joint : EoaJoint]]
      /\ thread' = [thread EXCEPT ![t].at = p]
  BY DEF EoaTypeOK, At
<1>2. thread[t] \in [at : Place, joint : EoaJoint]
  BY <1>1
<1>3. [thread[t] EXCEPT !.at = p] = [at |-> p, joint |-> thread[t].joint]
  BY <1>2
<1>4. [at |-> p, joint |-> thread[t].joint] \in [at : Place, joint : EoaJoint]
  BY <1>2
<1> QED
  BY <1>1, <1>3, <1>4

LEMMA GoesOn ==
    ASSUME EoaTypeOK, NEW t \in Thread, thread[t].joint # Servos,
           thread' = [thread EXCEPT ![t] = [at |-> "next", joint |-> @.joint + 1]]
    PROVE  /\ thread'[t].at = "next" /\ thread'[t].joint = thread[t].joint + 1
           /\ \A u \in Thread : u # t => thread'[u] = thread[u]
           /\ thread' \in [Thread -> [at : Place, joint : EoaJoint]]
<1>1. thread \in [Thread -> [at : Place, joint : EoaJoint]]
  BY DEF EoaTypeOK
<1>2. thread[t].joint \in EoaJoint
  BY <1>1
<1>3. thread[t].joint + 1 \in EoaJoint
  BY <1>2, EoaJointAssumption DEF EoaJoint
<1>4. [at |-> "next", joint |-> thread[t].joint + 1] \in [at : Place, joint : EoaJoint]
  BY <1>3 DEF Place
<1> QED
  BY <1>1, <1>4

\* What every step of a thread t has in common.
Steps(t) ==
    /\ UNCHANGED <<routine, isCanceled, succeeded, homes, status, qCmd, posted, overlap>>
    /\ Alive(t) /\ Begun(t)'
    /\ \A u \in Thread : u # t => thread'[u] = thread[u]
    /\ thread' \in [Thread -> [at : Place, joint : EoaJoint]]
    /\ Alive(t)' => isHoming' \/ (Begun(t) /\ isHoming' = isHoming)
    /\ event' \in BOOLEAN /\ isHoming' \in BOOLEAN
    /\ calibrated' \in [EoaJoint -> BOOLEAN]
    /\ offset' \in [EoaJoint -> BOOLEAN]
    /\ atEnd' \in [EoaJoint -> BOOLEAN]

\* ... and what it does for the joints.
Serves(t) == /\ thread[t].at = "new" => thread[t].joint = 1
             /\ Did(t)
             /\ Alive(t)'
             => Did(t)'

LEMMA BeginSteps ==
    ASSUME EoaTypeOK, NEW t \in Thread, Begin(t)
    PROVE  Steps(t) /\ Serves(t)
<1>1. /\ thread[t].at = "new" /\ isHoming' = TRUE /\ event' \in {FALSE, event}
      /\ UNCHANGED <<routine, isCanceled, succeeded, homes, status, qCmd, posted>>
      /\ UNCHANGED <<calibrated, offset, atEnd, overlap>>
      /\ At(t, "next") \/ At(t, "preHome")
  BY DEF Begin, server, joints
<1>2. PICK p \in {"next", "preHome"} : At(t, p)
  BY <1>1
<1>3. /\ thread'[t].at = p /\ thread'[t].joint = thread[t].joint
      /\ \A u \in Thread : u # t => thread'[u] = thread[u]
      /\ thread' \in [Thread -> [at : Place, joint : EoaJoint]]
  BY <1>2, Goes DEF Place
<1>4. /\ event' \in BOOLEAN /\ isHoming' \in BOOLEAN
      /\ calibrated' \in [EoaJoint -> BOOLEAN]
      /\ offset' \in [EoaJoint -> BOOLEAN] /\ atEnd' \in [EoaJoint -> BOOLEAN]
  BY <1>1 DEF EoaTypeOK
<1>5. Alive(t) /\ Begun(t)'
  BY <1>1, <1>2, <1>3 DEF Alive, Begun
<1>6. Steps(t)
  BY <1>1, <1>3, <1>4, <1>5, Zenon DEF Steps
<1>7. Serves(t)
  BY <1>1, <1>2, <1>3 DEF Serves, Did
<1> QED
  BY <1>6, <1>7

\* A thread that gives up: whatever it did, it moves no joint any more.
LEMMA EndSteps ==
    ASSUME EoaTypeOK, NEW t \in Thread, End(t), Alive(t), event' \in BOOLEAN,
           UNCHANGED <<server, qCmd, posted, joints, overlap>>
    PROVE  Steps(t) /\ Serves(t)
<1>1. At(t, "done") /\ isHoming' = FALSE
  BY DEF End
<1>2. /\ thread'[t].at = "done"
      /\ \A u \in Thread : u # t => thread'[u] = thread[u]
      /\ thread' \in [Thread -> [at : Place, joint : EoaJoint]]
  BY <1>1, Goes DEF Place
<1>3. ~Alive(t)' /\ Begun(t)'
  BY <1>2 DEF Alive, Begun
<1>4. /\ UNCHANGED <<routine, isCanceled, succeeded, homes, status>>
      /\ UNCHANGED <<calibrated, offset, atEnd>>
  BY DEF server, joints
<1>5. /\ isHoming' \in BOOLEAN /\ calibrated' \in [EoaJoint -> BOOLEAN]
      /\ offset' \in [EoaJoint -> BOOLEAN] /\ atEnd' \in [EoaJoint -> BOOLEAN]
  BY <1>1, <1>4 DEF EoaTypeOK
<1>6. Steps(t)
  BY <1>2, <1>3, <1>4, <1>5, Zenon DEF Steps
<1>7. Serves(t)
  BY <1>3, Zenon DEF Serves
<1> QED
  BY <1>6, <1>7

LEMMA PreHomedSteps ==
    ASSUME EoaTypeOK, NEW t \in Thread, PreHomed(t) \/ PreHomeRaises(t)
    PROVE  Steps(t) /\ Serves(t)
<1>1. /\ thread[t].at = "preHome"
      /\ UNCHANGED <<server, qCmd, posted, event, joints, overlap>>
      /\ \/ End(t)
         \/ (At(t, "next") \/ At(t, "died")) /\ UNCHANGED isHoming
  BY DEF PreHomed, PreHomeRaises
<1>2. /\ UNCHANGED <<routine, isCanceled, succeeded, homes, status>>
      /\ UNCHANGED <<calibrated, offset, atEnd>>
  BY <1>1 DEF server, joints
<1>3. /\ event' \in BOOLEAN /\ calibrated' \in [EoaJoint -> BOOLEAN]
      /\ offset' \in [EoaJoint -> BOOLEAN] /\ atEnd' \in [EoaJoint -> BOOLEAN]
  BY <1>1, <1>2 DEF EoaTypeOK
<1>4. Alive(t) /\ Begun(t)
  BY <1>1 DEF Alive, Begun
<1>5. CASE End(t)
  BY <1>1, <1>3, <1>4, <1>5, EndSteps
<1>6. CASE (At(t, "next") \/ At(t, "died")) /\ UNCHANGED isHoming
  <2>1. PICK p \in {"next", "died"} : At(t, p)
    BY <1>6
  <2>2. /\ thread'[t].at = p /\ thread'[t].joint = thread[t].joint
        /\ \A u \in Thread : u # t => thread'[u] = thread[u]
        /\ thread' \in [Thread -> [at : Place, joint : EoaJoint]]
    BY <2>1, Goes DEF Place
  <2>3. isHoming' = isHoming /\ isHoming' \in BOOLEAN
    BY <1>6 DEF EoaTypeOK
  <2>4. Begun(t)'
    BY <2>1, <2>2 DEF Begun
  <2>5. Steps(t)
    BY <1>1, <1>2, <1>3, <1>4, <2>2, <2>3, <2>4, Zenon DEF Steps
  <2>6. Serves(t)
    BY <1>2, <2>1, <2>2 DEF Serves, Did
  <2> QED
    BY <2>5, <2>6
<1> QED
  BY <1>1, <1>5, <1>6

LEMMA GiveUpSteps ==
    ASSUME EoaTypeOK, NEW t \in Thread, Refuse(t) \/ Fail(t)
    PROVE  Steps(t) /\ Serves(t)
<1>1. /\ UNCHANGED <<server, qCmd, posted, joints, overlap>>
      /\ End(t) /\ event' \in {FALSE, event}
      /\ thread[t].at \in {"next", "drive", "marked", "locked", "toEnd"}
  BY DEF Refuse, Fail
<1>2. event' \in BOOLEAN
  BY <1>1 DEF EoaTypeOK
<1>3. Alive(t)
  BY <1>1 DEF Alive
<1> QED
  BY <1>1, <1>2, <1>3, EndSteps

LEMMA DriveSteps ==
    ASSUME EoaTypeOK, NEW t \in Thread, Drive(t)
    PROVE  Steps(t) /\ Serves(t)
<1>1. /\ thread[t].at = "next" /\ At(t, "drive") /\ event' = FALSE
      /\ offset' = [offset EXCEPT ![thread[t].joint] = FALSE]
      /\ atEnd' = [atEnd EXCEPT ![thread[t].joint] = FALSE]
      /\ UNCHANGED <<routine, isCanceled, succeeded, homes, status, qCmd, posted>>
      /\ UNCHANGED <<isHoming, calibrated, overlap>>
  BY DEF Drive, server
<1>2. /\ thread'[t].at = "drive" /\ thread'[t].joint = thread[t].joint
      /\ \A u \in Thread : u # t => thread'[u] = thread[u]
      /\ thread' \in [Thread -> [at : Place, joint : EoaJoint]]
  BY <1>1, Goes DEF Place
<1>3. thread[t].joint \in EoaJoint /\ EoaJoint \subseteq Nat
  BY DEF EoaTypeOK, EoaJoint
<1>4. /\ event' \in BOOLEAN /\ isHoming' = isHoming /\ isHoming' \in BOOLEAN
      /\ calibrated' \in [EoaJoint -> BOOLEAN]
      /\ offset' \in [EoaJoint -> BOOLEAN] /\ atEnd' \in [EoaJoint -> BOOLEAN]
  BY <1>1, <1>3 DEF EoaTypeOK
<1>5. Alive(t) /\ Begun(t) /\ Begun(t)'
  BY <1>1, <1>2 DEF Alive, Begun
<1>6. Steps(t)
  BY <1>1, <1>2, <1>4, <1>5, Zenon DEF Steps
<1>7. ASSUME Did(t)
      PROVE  Did(t)'
  <2>1. ASSUME NEW j \in 1 .. thread[t].joint - 1
        PROVE  calibrated'[j] = calibrated[j] /\ offset'[j] = offset[j]
    <3>1. j # thread[t].joint /\ j \in EoaJoint
      BY <1>3, EoaJointAssumption DEF EoaJoint
    <3> QED
      BY <1>1, <3>1 DEF EoaTypeOK
  <2>2. /\ thread'[t].at \notin {"marked", "locked", "toEnd"}
        /\ thread'[t].at \notin {"locked", "toEnd"}
    BY <1>2
  <2>3. ASSUME NEW j \in 1 .. thread'[t].joint - 1
        PROVE  calibrated'[j] /\ offset'[j]
    BY <1>2, <1>7, <2>1, Zenon DEF Did
  <2> QED
    BY <2>2, <2>3, Zenon DEF Did
<1>8. Serves(t)
  BY <1>7, Zenon DEF Serves
<1> QED
  BY <1>6, <1>8

\* Joints that are calibrated and have an offset keep both.
Keeps == \A j \in EoaJoint : /\ calibrated[j] => calibrated'[j]
                             /\ offset[j] => offset'[j]

LEMMA PassSteps ==
    ASSUME EoaTypeOK, NEW t \in Thread, Mark(t) \/ EnablePos(t) \/ MoveToEndPos(t)
    PROVE  Steps(t) /\ Serves(t)
<1>1. /\ UNCHANGED <<routine, isCanceled, succeeded, homes, status, qCmd, posted>>
      /\ UNCHANGED <<event, isHoming, overlap>>
      /\ thread[t].at \in {"drive", "marked", "locked"}
      /\ At(t, "marked") \/ At(t, "locked") \/ At(t, "toEnd")
  BY DEF Mark, EnablePos, MoveToEndPos, server
<1>2. PICK p \in {"marked", "locked", "toEnd"} :
          /\ At(t, p)
          /\ p = "marked" => Mark(t)
          /\ p = "locked" => EnablePos(t)
          /\ p = "toEnd" => MoveToEndPos(t)
  <2>1. CASE Mark(t)
    BY <2>1 DEF Mark
  <2>2. CASE EnablePos(t)
    BY <2>2 DEF EnablePos
  <2>3. CASE MoveToEndPos(t)
    BY <2>3 DEF MoveToEndPos
  <2> QED
    BY <2>1, <2>2, <2>3
<1>3. /\ thread'[t].at = p /\ thread'[t].joint = thread[t].joint
      /\ \A u \in Thread : u # t => thread'[u] = thread[u]
      /\ thread' \in [Thread -> [at : Place, joint : EoaJoint]]
  BY <1>2, Goes DEF Place
<1>4. thread[t].joint \in EoaJoint /\ EoaJoint \subseteq Nat
  BY DEF EoaTypeOK, EoaJoint
<1>5. /\ calibrated' \in {calibrated, [calibrated EXCEPT ![thread[t].joint] = TRUE]}
      /\ offset' \in {offset, [offset EXCEPT ![thread[t].joint] = TRUE]}
      /\ atEnd' \in {atEnd, [atEnd EXCEPT ![thread[t].joint] = TRUE]}
  BY DEF Mark, EnablePos, MoveToEndPos, joints
<1>6. /\ event' \in BOOLEAN /\ isHoming' = isHoming /\ isHoming' \in BOOLEAN
      /\ calibrated' \in [EoaJoint -> BOOLEAN]
      /\ offset' \in [EoaJoint -> BOOLEAN] /\ atEnd' \in [EoaJoint -> BOOLEAN]
  BY <1>1, <1>4, <1>5 DEF EoaTypeOK
<1>7. Alive(t) /\ Begun(t) /\ Begun(t)'
  BY <1>1, <1>2, <1>3 DEF Alive, Begun
<1>8. Steps(t)
  BY <1>1, <1>3, <1>6, <1>7, Zenon DEF Steps
<1>9. Keeps
  BY <1>4, <1>5 DEF Keeps, EoaTypeOK
<1>10. ASSUME Did(t)
       PROVE  Did(t)'
  <2>1. /\ thread'[t].at = "marked" => Mark(t)
        /\ thread'[t].at = "locked" => EnablePos(t)
        /\ thread'[t].at = "toEnd" => MoveToEndPos(t)
    BY <1>2, <1>3
  <2>2. ASSUME NEW j \in 1 .. thread'[t].joint - 1
        PROVE  calibrated'[j] /\ offset'[j]
    <3>1. j \in EoaJoint
      BY <1>3, <1>4, EoaJointAssumption DEF EoaJoint
    <3> QED
      BY <1>3, <1>9, <1>10, <3>1, Zenon DEF Did, Keeps
  <2>3. calibrated'[thread[t].joint]
    <3>1. CASE p = "marked"
      BY <1>2, <1>4, <3>1 DEF Mark, EoaTypeOK
    <3>2. CASE p \in {"locked", "toEnd"}
      <4>1. thread[t].at \in {"marked", "locked", "toEnd"}
        BY <1>2, <3>2 DEF EnablePos, MoveToEndPos
      <4>2. calibrated[thread[t].joint]
        BY <1>10, <4>1, Zenon DEF Did
      <4> QED
        BY <1>4, <1>9, <4>2, Zenon DEF Keeps
    <3> QED
      BY <3>1, <3>2
  <2>4. p # "marked" => offset'[thread[t].joint]
    <3>1. CASE p = "locked"
      BY <1>2, <1>4, <3>1 DEF EnablePos, EoaTypeOK
    <3>2. CASE p = "toEnd"
      <4>1. thread[t].at \in {"locked", "toEnd"}
        BY <1>2, <3>2 DEF MoveToEndPos
      <4>2. offset[thread[t].joint]
        BY <1>10, <4>1, Zenon DEF Did
      <4> QED
        BY <1>4, <1>9, <4>2, Zenon DEF Keeps
    <3> QED
      BY <3>1, <3>2
  <2>5. thread'[t].at \in {"locked", "toEnd"} => p # "marked"
    BY <1>3
  <2> QED
    BY <1>3, <2>2, <2>3, <2>4, <2>5, Zenon DEF Did
<1>11. Serves(t)
  BY <1>10, Zenon DEF Serves
<1> QED
  BY <1>8, <1>11

LEMMA NextJointSteps ==
    ASSUME EoaTypeOK, NEW t \in Thread, NextJoint(t)
    PROVE  Steps(t) /\ Serves(t)
<1>1. /\ thread[t].at = "toEnd"
      /\ UNCHANGED <<server, qCmd, posted, event, joints, overlap>>
      /\ IF thread[t].joint = Servos THEN End(t)
         ELSE /\ thread' = [thread EXCEPT ![t] =
                             [at |-> "next", joint |-> @.joint + 1]]
              /\ UNCHANGED isHoming
  BY DEF NextJoint
<1>2. /\ UNCHANGED <<routine, isCanceled, succeeded, homes, status>>
      /\ UNCHANGED <<calibrated, offset, atEnd>>
  BY <1>1 DEF server, joints
<1>3. /\ event' \in BOOLEAN /\ calibrated' \in [EoaJoint -> BOOLEAN]
      /\ offset' \in [EoaJoint -> BOOLEAN] /\ atEnd' \in [EoaJoint -> BOOLEAN]
  BY <1>1, <1>2 DEF EoaTypeOK
<1>4. Alive(t) /\ Begun(t)
  BY <1>1 DEF Alive, Begun
<1>5. CASE thread[t].joint = Servos
  <2>1. End(t)
    BY <1>1, <1>5
  <2> QED
    BY <1>1, <1>3, <1>4, <2>1, EndSteps
<1>6. CASE thread[t].joint # Servos
  <2>1. /\ thread' = [thread EXCEPT ![t] = [at |-> "next", joint |-> @.joint + 1]]
        /\ isHoming' = isHoming
    BY <1>1, <1>6
  <2>2. /\ thread'[t].at = "next" /\ thread'[t].joint = thread[t].joint + 1
        /\ \A u \in Thread : u # t => thread'[u] = thread[u]
        /\ thread' \in [Thread -> [at : Place, joint : EoaJoint]]
    BY <1>6, <2>1, GoesOn
  <2>3. isHoming' \in BOOLEAN
    BY <2>1 DEF EoaTypeOK
  <2>4. Begun(t)'
    BY <2>2 DEF Begun
  <2>5. Steps(t)
    BY <1>1, <1>2, <1>3, <1>4, <2>1, <2>2, <2>3, <2>4, Zenon DEF Steps
  <2>6. ASSUME Did(t)
        PROVE  Did(t)'
    <3>1. calibrated[thread[t].joint] /\ offset[thread[t].joint]
      <4>1. thread[t].at \in {"marked", "locked", "toEnd"} /\ thread[t].at \in {"locked", "toEnd"}
        BY <1>1
      <4> QED
        BY <2>6, <4>1, Zenon DEF Did
    <3>2. thread[t].joint \in Nat
      BY DEF EoaTypeOK, EoaJoint
    <3>3. \A j \in 1 .. thread'[t].joint - 1 :
              j = thread[t].joint \/ j \in 1 .. thread[t].joint - 1
      BY <2>2, <3>2
    <3>4. ASSUME NEW j \in 1 .. thread'[t].joint - 1
          PROVE  calibrated[j] /\ offset[j]
      BY <2>6, <3>1, <3>3, <3>4, Zenon DEF Did
    <3>5. /\ thread'[t].at \notin {"marked", "locked", "toEnd"}
          /\ thread'[t].at \notin {"locked", "toEnd"}
      BY <2>2
    <3> QED
      BY <1>2, <3>4, <3>5, Zenon DEF Did
  <2>7. Serves(t)
    BY <2>6, Zenon DEF Serves
  <2> QED
    BY <2>5, <2>7
<1> QED
  BY <1>5, <1>6

LEMMA ThreadKeeps ==
    ASSUME EoaInv, NEW t \in Thread, ThreadStep(t)
    PROVE  EoaInv'
<1>1. EoaTypeOK /\ Bounded /\ Queued /\ Alone /\ Known /\ Over /\ Homes
  BY DEF EoaInv
<1>2. Steps(t) /\ Serves(t)
  BY <1>1, BeginSteps, PreHomedSteps, GiveUpSteps, DriveSteps, PassSteps,
     NextJointSteps DEF ThreadStep
<1>3. /\ UNCHANGED <<routine, isCanceled, succeeded, homes, status, qCmd, posted>>
      /\ overlap' = overlap
      /\ Alive(t) /\ Begun(t)'
      /\ \A u \in Thread : u # t => thread'[u] = thread[u]
      /\ Alive(t)' => isHoming' \/ (Begun(t) /\ isHoming' = isHoming)
  BY <1>2, Zenon DEF Steps
<1>4. EoaTypeOK'
  BY <1>1, <1>2 DEF EoaTypeOK, Steps
<1>5. thread[t].at # "none" /\ thread'[t].at \notin {"none", "new"}
  BY <1>3 DEF Alive, Begun
<1>6. Created' = Created
  BY <1>3, <1>5 DEF Created
<1>7. /\ BegunThreads \subseteq BegunThreads' /\ BegunThreads' \subseteq Thread
      /\ \A u \in Thread : u # t => /\ Alive(u)' <=> Alive(u)
                                    /\ Begun(u)' <=> Begun(u)
  BY <1>3 DEF BegunThreads, Begun, Alive
<1>8. ASSUME NEW u \in Thread, Alive(u), ~overlap
      PROVE  u = t
  <2>1. 1 .. u = 1 .. t
    BY <1>1, <1>3, <1>8, Zenon DEF Alone
  <2>2. u \in Nat /\ t \in Nat
    BY HomesAssumption DEF Thread
  <2> QED
    BY <2>1, <2>2, SameThreads
<1>9. \A u \in Thread : Alive(u)' => Alive(u)
  BY <1>3, <1>7, Zenon
<1>10. Bounded' /\ Queued'
  BY <1>1, <1>3, <1>6, QueueStays DEF Bounded, Owed
<1>11. Alone'
  <2>1. ASSUME NEW u \in Thread, Alive(u)', ~overlap
        PROVE  Created = 1 .. u /\ isHoming'
    <3>1. u = t /\ Alive(u)
      BY <1>8, <1>9, <2>1, Zenon
    <3>2. Created = 1 .. t /\ (Begun(t) => isHoming)
      BY <1>1, <1>3, <2>1, Zenon DEF Alone
    <3>3. Alive(t)'
      BY <2>1, <3>1
    <3>4. isHoming'
      <4>1. isHoming' \/ (isHoming /\ isHoming' = isHoming)
        BY <1>3, <3>2, <3>3, Zenon
      <4> QED
        BY <1>1, <1>4, <4>1 DEF EoaTypeOK
    <3> QED
      BY <3>1, <3>2, <3>4
  <2> QED
    BY <1>3, <1>6, <2>1, Zenon DEF Alone
<1>12. Known'
  <2>1. Before(status)' /\ Before(posted)'
    BY <1>1, <1>3, <1>9, Zenon DEF Known, Before
  <2>2. /\ Cardinality(BegunThreads) \in Nat /\ Cardinality(BegunThreads') \in Nat
        /\ Cardinality(BegunThreads) <= Cardinality(BegunThreads')
    <3>1. IsFiniteSet(BegunThreads')
      BY <1>7, ThreadsFinite
    <3> QED
      BY <1>7, <3>1, FS_Subset, ThreadsFinite
  <2>3. posted.begun \in Nat
    BY <1>1, HomesAssumption DEF EoaTypeOK, Message
  <2>4. posted.begun <= Cardinality(BegunThreads')
    BY <1>1, <2>2, <2>3 DEF Known
  <2> QED
    BY <1>1, <1>3, <2>1, <2>4 DEF Known
<1>13. Over'
  BY <1>1, <1>3, <1>6, <1>9, Zenon DEF Over
<1>14. Homes'
  <2>1. \A u \in Thread : thread'[u].at \in {"none", "new"} => thread'[u].joint = 1
    BY <1>1, <1>3, <1>5 DEF Homes
  <2>2. ASSUME NEW u \in Thread, Alive(u)', ~overlap
        PROVE  Did(u)'
    <3>1. u = t /\ Did(t)
      BY <1>1, <1>3, <1>8, <1>9, <2>2, Zenon DEF Homes
    <3>2. thread[t].at = "new" => thread[t].joint = 1
      BY <1>1 DEF Homes
    <3> QED
      BY <1>2, <2>2, <3>1, <3>2, Zenon DEF Serves
  <2> QED
    BY <1>3, <2>1, <2>2, Zenon DEF Homes
<1> QED
  BY <1>4, <1>10, <1>11, <1>12, <1>13, <1>14 DEF EoaInv

LEMMA EoaStart == EoaInit => EoaInv
<1> SUFFICES ASSUME EoaInit PROVE EoaInv
  OBVIOUS
<1>1. \A t \in Thread : thread[t] = [at |-> "none", joint |-> 1]
  BY DEF EoaInit
<1>2. \A t \in Thread : /\ thread[t].at = "none" /\ thread[t].joint = 1
                        /\ ~Alive(t) /\ ~Begun(t)
  BY <1>1 DEF Alive, Begun
<1>3. EoaTypeOK
  <2>1. Quiet \in Message
    BY HomesAssumption DEF Quiet, Message
  <2>2. [at |-> "none", joint |-> 1] \in [at : Place, joint : EoaJoint]
    BY EoaJointAssumption DEF EoaJoint, Place
  <2>3. thread \in [Thread -> [at : Place, joint : EoaJoint]]
    BY <2>2 DEF EoaInit
  <2>4. qCmd \in Seq({"home", "cancel"}) /\ Len(qCmd) <= 3 * MaxHomes
    BY HomesAssumption DEF EoaInit
  <2>5. /\ calibrated \in [EoaJoint -> BOOLEAN] /\ offset \in [EoaJoint -> BOOLEAN]
        /\ atEnd \in [EoaJoint -> BOOLEAN]
    BY DEF EoaInit
  <2>6. /\ posted \in Message /\ status \in Message /\ homes \in 0 .. MaxHomes
        /\ routine \in {"idle", "begin", "poll"}
    BY <2>1, HomesAssumption DEF EoaInit
  <2>7. /\ isCanceled \in BOOLEAN /\ succeeded \in BOOLEAN /\ event \in BOOLEAN
        /\ isHoming \in BOOLEAN /\ overlap \in BOOLEAN
    BY DEF EoaInit
  <2> QED
    BY <2>3, <2>4, <2>5, <2>6, <2>7, Zenon DEF EoaTypeOK
<1>4. Created = {} /\ BegunThreads = {}
  BY <1>2 DEF Created, BegunThreads
<1>5. Bounded
  BY DEF EoaInit, Bounded, Owed
<1>6. Queued
  <2> DEFINE f == [i \in 0 .. 0 |-> 0]
  <2>1. f \in [0 .. Len(qCmd) -> 0 .. homes] /\ Len(qCmd) = 0 /\ homes = 0
    BY DEF EoaInit
  <2>2. f[0] = 0 /\ 1 .. Len(qCmd) = {} /\ 1 .. f[0] = {}
    BY <2>1
  <2>3. Counts(f)
    BY <1>4, <2>1, <2>2 DEF Counts
  <2> QED
    BY <2>1, <2>3 DEF Queued
<1>7. Alone /\ Over /\ Homes
  BY <1>2, Zenon DEF EoaInit, Alone, Over, Homes
<1>8. Known
  <2>1. Cardinality(BegunThreads) = 0
    BY <1>4, FS_EmptySet
  <2>2. status.begun = 0 /\ posted.begun = 0
    BY DEF EoaInit, Quiet
  <2>3. Before(status) /\ Before(posted)
    BY <1>2, Zenon DEF Before
  <2> QED
    BY <2>1, <2>2, <2>3 DEF EoaInit, Known
<1> QED
  BY <1>3, <1>5, <1>6, <1>7, <1>8 DEF EoaInv

LEMMA EoaStep == EoaInv /\ [EoaNext]_eoaVars => EoaInv'
<1> SUFFICES ASSUME EoaInv, [EoaNext]_eoaVars PROVE EoaInv'
  OBVIOUS
<1>1. CASE UNCHANGED eoaVars
  <2>1. /\ UNCHANGED <<routine, isCanceled, succeeded, homes, status, qCmd, posted>>
        /\ UNCHANGED <<event, isHoming, thread, joints, overlap>>
    BY <1>1 DEF eoaVars, server
  <2>2. EoaTypeOK' /\ Bounded' /\ Over' /\ Known'
    BY <2>1 DEF EoaInv, EoaTypeOK, Bounded, Owed, Over, Known, Before, joints, Created,
                BegunThreads, Begun, Alive
  <2>3. Queued' /\ Alone' /\ Homes'
    BY <2>1, ThreadsStay, QueueStays DEF EoaInv
  <2> QED
    BY <2>2, <2>3 DEF EoaInv
<1> QED
  BY <1>1, HomeKeeps, CancelKeeps, LookKeeps, PostKeeps, TakeHomeKeeps, TakeCancelKeeps,
     ThreadKeeps DEF EoaNext, Worker

\* Whatever the order of commands, messages and threads, every variable keeps
\* its type, and q_cmd never holds more than three commands for each homing.
THEOREM EoaTypeCorrect == EoaSpec => []EoaTypeOK
<1>1. EoaInv => EoaTypeOK
  BY DEF EoaInv
<1> QED
  BY <1>1, EoaStart, EoaStep, PTL DEF EoaSpec

\* When RoutineEndOfArmHome says that the homing succeeded, no thread of it moves
\* a joint any more, for any number of homings, cancels, statuses that were never
\* read and failures of a servo in between.
THEOREM SuccessIsOver == EoaSpec => []SuccessMeansOver
<1>1. EoaInv => SuccessMeansOver
  BY DEF EoaInv, Over, SuccessMeansOver
<1> QED
  BY <1>1, EoaStart, EoaStep, PTL DEF EoaSpec

\* However many servos there are, one is driven to its stop only when all before it
\* are calibrated and have a valid offset.
THEOREM InJointOrder == EoaSpec => []HomedInOrder
<1>1. ASSUME NEW t \in Thread, thread[t].at = "drive"
      PROVE  Alive(t)
  BY <1>1 DEF Alive
<1>2. EoaInv => HomedInOrder
  BY <1>1, Zenon DEF EoaInv, Homes, Did, HomedInOrder
<1> QED
  BY <1>2, EoaStart, EoaStep, PTL DEF EoaSpec

-----------------------------------------------------------------------------
(* The flag is_homing, whatever the threads do to each other: all share    *)
(* it, and the end of any takes it back.                                   *)

\* A step that leaves the flag and what the living threads are keeps its reason.
LEMMA StillHasThread ==
    ASSUME HomingHasThread, isHoming' => isHoming,
           \A t \in Thread : /\ Alive(t) /\ Begun(t) => (Alive(t) /\ Begun(t))'
                             /\ thread[t].at = "died" => thread'[t].at = "died"
    PROVE  HomingHasThread'
BY Zenon DEF HomingHasThread

LEMMA NextHasThread == EoaTypeOK /\ HomingHasThread /\ [EoaNext]_eoaVars => HomingHasThread'
<1> SUFFICES ASSUME EoaTypeOK, HomingHasThread, [EoaNext]_eoaVars PROVE HomingHasThread'
  OBVIOUS
<1>1. CASE UNCHANGED <<thread, isHoming>>
  BY <1>1, Zenon DEF HomingHasThread, Alive, Begun
<1>2. ASSUME ~isHoming' PROVE HomingHasThread'
  BY <1>2, Zenon DEF HomingHasThread
<1>3. \A f \in [Thread -> [at : Place, joint : EoaJoint]] : \A t \in Thread, p \in Place :
         LET g == [f EXCEPT ![t].at = p]
         IN  g[t].at = p /\ \A u \in Thread \ {t} : g[u] = f[u]
  OBVIOUS
<1>4. thread \in [Thread -> [at : Place, joint : EoaJoint]]
  BY DEF EoaTypeOK
<1>5. CASE TakeHome
  <2>1. PICK t \in Thread : /\ \A u \in Thread : (thread[u].at = "none") <=> (u >= t)
                            /\ thread' = [thread EXCEPT ![t].at = "new"]
    BY <1>5 DEF TakeHome
  <2>2. thread[t].at = "none"
    BY <2>1 DEF Thread
  <2>3. \A u \in Thread \ {t} : thread'[u] = thread[u]
    BY <1>4, <2>1
  <2>4. isHoming' = isHoming
    BY <1>5 DEF TakeHome
  <2>5. ASSUME NEW u \in Thread
        PROVE  /\ Alive(u) /\ Begun(u) => (Alive(u) /\ Begun(u))'
               /\ thread[u].at = "died" => thread'[u].at = "died"
    BY <2>2, <2>3 DEF Alive, Begun
  <2>6. isHoming' => isHoming
    BY <2>4
  <2> QED BY <2>5, <2>6, StillHasThread
<1>6. ASSUME NEW t \in Thread, ThreadStep(t) PROVE HomingHasThread'
  <2>1. ASSUME thread'[t].at \in {"preHome", "next", "drive", "marked", "locked", "toEnd", "died"}
        PROVE  HomingHasThread'
    BY <2>1 DEF HomingHasThread, Alive, Begun
  <2>2. ASSUME NEW p \in {"preHome", "next", "drive", "marked", "locked", "toEnd", "died"},
               At(t, p)
        PROVE  HomingHasThread'
    <3>1. p \in Place
      BY DEF Place
    <3>2. thread'[t].at = p
      BY <1>3, <1>4, <2>2, <3>1 DEF At
    <3> QED BY <2>1, <3>2
  <2>3. ASSUME End(t) PROVE HomingHasThread'
    BY <1>2, <2>3 DEF End
  <2>4. CASE Begin(t)
    BY <2>2, <2>4 DEF Begin
  <2>5. CASE PreHomed(t)
    BY <2>2, <2>3, <2>5 DEF PreHomed
  <2>6. CASE PreHomeRaises(t)
    BY <2>2, <2>6 DEF PreHomeRaises
  <2>7. CASE Drive(t) \/ Mark(t) \/ EnablePos(t) \/ MoveToEndPos(t)
    BY <2>2, <2>7 DEF Drive, Mark, EnablePos, MoveToEndPos
  <2>8. CASE Refuse(t) \/ Fail(t)
    BY <2>3, <2>8 DEF Refuse, Fail
  <2>9. CASE NextJoint(t)
    <3>1. CASE thread[t].joint = Servos
      BY <2>3, <2>9, <3>1 DEF NextJoint
    <3>2. CASE thread[t].joint # Servos
      <4>1. thread'[t].at = "next"
        BY <1>4, <2>9, <3>2 DEF NextJoint
      <4> QED BY <2>1, <4>1
    <3> QED BY <3>1, <3>2
  <2> QED BY <1>6, <2>4, <2>5, <2>6, <2>7, <2>8, <2>9, Zenon DEF ThreadStep
<1>7. CASE Home \/ Cancel \/ Pull \/ HomingBegun \/ Success \/ NotOver \/ Post \/ TakeCancel
           \/ UNCHANGED eoaVars
  <2>1. UNCHANGED <<thread, isHoming>>
    BY <1>7, Zenon DEF Home, Cancel, Pull, HomingBegun, Success, NotOver, Post, TakeCancel, eoaVars
  <2> QED BY <1>1, <2>1
<1> QED BY <1>5, <1>6, <1>7, Zenon DEF EoaNext, Worker

\* The end of arm says that it homes only while a thread does that will take it
\* back, or after one died in pre_home, however many homings overlap
\* (_home_all_joints).
THEOREM HomesOnlyByThread == EoaSpec => []HomingHasThread
<1>1. EoaInit => HomingHasThread
  BY DEF EoaInit, HomingHasThread
<1> QED BY <1>1, NextHasThread, EoaTypeCorrect, PTL DEF EoaSpec
=============================================================================
