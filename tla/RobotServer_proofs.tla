-------------------------- MODULE RobotServer_proofs -------------------------
(***************************************************************************)
(* Proofs about RobotServer: its loop arbitrates as CommandLease says, the *)
(* owner of a routine keeps control, no command that came later than the   *)
(* routine's reaches the hardware while it runs, and the sentries run      *)
(* again after every routine.  What makes it inductive is the way of a     *)
(* routine from the command that asks for it to its beginning: nobody can  *)
(* take control in between, and only what came with it is waiting; and,    *)
(* for its end, the way of its id, which is in no earlier place once it is *)
(* in a later one.                                                         *)
(***************************************************************************)
EXTENDS RobotServer, TLAPS

\* From Dispatch to RunNext.
Upcoming ==
    next.routine # None => /\ pc \in {"body", "runNext", "ended"} /\ active = None
                           /\ next.from \in Client /\ holder = next.from
                           /\ queued \subseteq {[from |-> next.from, id |-> next.id]}

Owned ==
    active # None => /\ owner \in Client /\ (holder = owner \/ usurped)
                     /\ queued \subseteq {[from |-> owner, id |-> activeId]}

Pushed == pc \in {"admin", "command"} => queued = {}

Guarding == ~userPaused /\ ~sentryActive => active \in Guarded /\ pc \notin {"runNext", "ended"}

LInv == Upcoming /\ Owned /\ Pushed /\ Guarding

LEMMA GuardedNotNop == None \notin Guarded
BY EnabledAssumption, NopAssumption

\* Who holds the lease after a command has been considered: who held it before, or its
\* sender; and its sender, if it was accepted.
LEMMA ReceiveFacts ==
    ASSUME NEW c \in Client, Lease!Receive(c)
    PROVE  /\ holder' = holder \/ (Lease!Vacant(c) /\ holder' = c)
           /\ Accepted(c) => holder' = c
BY DEF Lease!Receive, Lease!NewLease, Lease!Renew, Lease!Reject, Accepted

\* While a routine runs the lease does not expire.
LEMMA VacantFacts ==
    ASSUME NEW c \in Client, Lease!Vacant(c), active # None
    PROVE  holder = None \/ Lease!Outranks(c)
BY LeaseAssumption DEF Lease!Vacant, Lease!LeftNow

-----------------------------------------------------------------------------
LEMMA InitLoop == Init => LInv
BY DEF Init, LInv, Upcoming, Owned, Pushed, Guarding, NoRoutine

\* The steps that leave the loop's own state alone.
LEMMA OthersLoop ==
    ASSUME LInv, UNCHANGED <<routineState, pc, queued, holder>>
    PROVE  LInv'
BY Zenon DEF LInv, Upcoming, Owned, Pushed, Guarding, routineState

LEMMA ExitLoop == ASSUME LInv, Exit PROVE LInv'
BY DEF LInv, Upcoming, Owned, Pushed, Guarding, Exit, leaseState, routineState

LEMMA RunNextLoop == ASSUME LInv, RunNext PROVE LInv'
BY GuardedNotNop
   DEF LInv, Upcoming, Owned, Pushed, Guarding, RunNext, leaseState, NoRoutine

LEMMA PushLoop == ASSUME LInv, Push PROVE LInv'
BY DEF LInv, Upcoming, Owned, Pushed, Guarding, Push, leaseState

LEMMA AnswerLoop == ASSUME LInv, NEW c \in Client, Answer(c) PROVE LInv'
BY DEF LInv, Upcoming, Owned, Pushed, Guarding, Answer, Ping, FreeUpControl,
       Lease!FreeUpControl, leaseState, serverState, routineState

LEMMA RaiseLoop ==
    ASSUME LInv, Raise, pc = "admin",
           UNCHANGED <<leaseState, active, activeId, next, owner, usurped, userPaused, queued>>
    PROVE  LInv'
BY DEF LInv, Upcoming, Owned, Pushed, Guarding, Raise, Record, leaseState

LEMMA FinishLoop == ASSUME LInv, Finish PROVE LInv'
BY DEF LInv, Upcoming, Owned, Pushed, Guarding, Finish, Record, leaseState

LEMMA StepsLoop ==
    ASSUME LInv, NoRequest \/ NoCommand \/ Continue
    PROVE  LInv'
BY DEF LInv, Upcoming, Owned, Pushed, Guarding, NoRequest, NoCommand, Continue, leaseState,
       routineState

LEMMA DispatchLoop ==
    ASSUME LInv, NEW c \in Client, Dispatch(c)
    PROVE  LInv'
<1>1. /\ pc = "command" /\ UNCHANGED <<active, activeId, owner>> /\ Lease!Receive(c)
      /\ next.routine = None /\ queued = {}
      /\ pc' = "body" \/ (pc' = "ended" /\ active = None)
    BY DEF LInv, Upcoming, Pushed, Dispatch, MayRaise
<1>2. usurped' = (usurped \/ (active # None /\ c # holder /\ Lease!Outranks(c)))
    BY DEF Dispatch
<1>3. CASE active # None
    <2>1. UNCHANGED queued /\ UNCHANGED sentryActive /\ UNCHANGED userPaused
        BY <1>3 DEF Dispatch, Perform
    <2>2. next'.routine = None
        BY <1>1, <1>3 DEF Dispatch, SetNext, NoRoutine
    <2>3. holder' = owner \/ usurped'
        <3>1. holder = owner \/ usurped
            BY <1>3 DEF LInv, Owned
        <3>2. holder' = holder \/ (holder' = c /\ (holder = None \/ Lease!Outranks(c)))
            BY <1>1, <1>3, ReceiveFacts, VacantFacts
        <3>3. owner \in Client /\ None \notin Client
            BY <1>3, NoneAssumption DEF LInv, Owned
        <3>4. usurped => usurped'
            BY <1>2
        <3>5. c # holder /\ Lease!Outranks(c) => usurped'
            BY <1>2, <1>3
        <3> QED
            BY <3>1, <3>2, <3>3, <3>4, <3>5, Zenon
    <2> QED
        BY <1>1, <1>3, <2>1, <2>2, <2>3 DEF LInv, Upcoming, Owned, Pushed, Guarding
<1>4. CASE active = None
    <2>1. userPaused' \/ sentryActive'
        <3>1. userPaused \/ sentryActive
            BY <1>4, GuardedNotNop DEF LInv, Guarding
        <3> QED
            BY <1>4, <3>1 DEF Dispatch, Perform
    <2>2. queued' \subseteq {[from |-> c, id |-> inbox[c].id]}
        BY <1>1 DEF Dispatch, Perform
    <2>3. next'.routine # None => /\ next'.from = c /\ next'.id = inbox[c].id
                                  /\ holder' = c
        BY <1>1, <1>4, ReceiveFacts DEF Dispatch, SetNext
    <2> QED
        BY <1>1, <1>4, <2>1, <2>2, <2>3 DEF LInv, Upcoming, Owned, Pushed, Guarding
<1> QED
    BY <1>3, <1>4

LEMMA NextLoop == LInv /\ [Next]_vars => LInv'
<1> SUFFICES ASSUME LInv, [Next]_vars PROVE LInv'
    OBVIOUS
<1>1. ASSUME NEW c \in Client, SendPlain(c) \/ SendRun(c) \/ SendCancel(c)
      PROVE  LInv'
    BY <1>1, OthersLoop, Zenon DEF SendPlain, SendRun, SendCancel, Post, serverState
<1>2. ASSUME NEW c \in Client, Deliver(c) \/ AskAdmin(c)
      PROVE  LInv'
    BY <1>2, OthersLoop, Zenon DEF Deliver, AskAdmin, serverState, leaseState
<1>3. CASE Tick
    BY <1>3, OthersLoop, Zenon DEF Tick, Lease!Tick, serverState
<1>4. CASE UNCHANGED vars
    BY <1>4, OthersLoop, Zenon DEF vars, serverState, leaseState
<1>5. CASE Stuck
    <2>1. pc = "admin" /\ Raise /\ UNCHANGED <<leaseState, active, activeId, next, owner, usurped, userPaused,
                                          queued>>
        BY <1>5, Zenon DEF Stuck
    <2> QED
        BY <2>1, RaiseLoop
<1>6. ASSUME NEW c \in Client, Fail(c) PROVE LInv'
    <2>1. pc = "admin" /\ Raise /\ UNCHANGED <<leaseState, active, activeId, next, owner, usurped, userPaused,
                                          queued>>
        BY <1>6, Zenon DEF Fail
    <2> QED
        BY <2>1, RaiseLoop
<1>7. CASE ControlLoop
    BY <1>5, <1>6, <1>7, ExitLoop, RunNextLoop, PushLoop, AnswerLoop, FinishLoop, StepsLoop,
       DispatchLoop, Zenon DEF ControlLoop
<1> QED
    BY <1>1, <1>2, <1>3, <1>4, <1>7, Zenon DEF Next

LEMMA Invariance == Spec => []LInv
BY InitLoop, NextLoop, PTL DEF Spec

-----------------------------------------------------------------------------
\* For any clients, priorities, routines and lease timeout: while a routine runs, the
\* client that asked for it holds the lease, unless it was outranked or control was freed.
THEOREM OwnerKeeps == Spec => []OwnerHolds
<1>1. LInv => OwnerHolds
    BY DEF LInv, Owned, OwnerHolds
<1> QED
    BY <1>1, Invariance, PTL

\* While a routine runs nothing is pushed to the hardware for a client, not even for the
\* routine's owner, but what came in the message that asked for the routine.
THEOREM CommandsExcluded == Spec => []RoutineExcludesCommands
<1>1. LInv => RoutineExcludesCommands
    BY DEF LInv, Owned, RoutineExcludesCommands
<1> QED
    BY <1>1, Invariance, PTL

\* The sentries run again after every routine that paused them, however it ended.
THEOREM SentriesAgain == Spec => []SentriesRestored
<1>1. LInv => SentriesRestored
    BY GuardedNotNop DEF LInv, Guarding, SentriesRestored
<1> QED
    BY <1>1, Invariance, PTL

-----------------------------------------------------------------------------
(* The sockets, for the properties that look into them.                    *)

Slots == [Client -> Command \cup {None}]

Boxes == outbox \in Slots /\ inbox \in Slots /\ lastRun \in 0 .. MaxId

LEMMA InitBoxes == Init => Boxes
BY IdAssumption DEF Init, Boxes, Slots

LEMMA PostBoxes ==
    ASSUME Boxes, NEW c \in Client, NEW m \in Command, Post(c, m)
    PROVE  outbox' \in Slots /\ inbox' \in Slots
BY DEF Boxes, Slots, Post

\* What a client pushes is a command.
LEMMA SendBoxes ==
    ASSUME Boxes, NEW c \in Client, SendPlain(c) \/ SendRun(c) \/ SendCancel(c)
    PROVE  /\ lastRun' \in 0 .. MaxId
           /\ \E m \in Command : Post(c, m)
<1>1. CASE SendPlain(c)
    <2>1. PICK p \in Priority, k \in Cmds :
             Post(c, [priority |-> p, cmds |-> k, routine |-> None, id |-> 0])
        BY <1>1 DEF SendPlain
    <2>2. [priority |-> p, cmds |-> k, routine |-> None, id |-> 0] \in Command
        BY IdAssumption DEF Command
    <2> QED
        BY <1>1, <2>1, <2>2 DEF SendPlain, Boxes
<1>2. CASE SendRun(c)
    <2>1. PICK p \in Priority, r \in Routine, k \in Cmds :
             Post(c, [priority |-> p, cmds |-> k, routine |-> r, id |-> lastRun'])
        BY <1>2 DEF SendRun
    <2>2. lastRun' \in 0 .. MaxId
        BY <1>2, IdAssumption DEF SendRun, Boxes
    <2>3. [priority |-> p, cmds |-> k, routine |-> r, id |-> lastRun'] \in Command
        BY <2>2 DEF Command
    <2> QED
        BY <2>1, <2>2, <2>3
<1>3. CASE SendCancel(c)
    <2>1. PICK i \in 0 .. lastRun :
             Post(c, [priority |-> 0, cmds |-> {"cancel"}, routine |-> None, id |-> i])
        BY <1>3 DEF SendCancel
    <2>2. i \in 0 .. MaxId
        BY IdAssumption DEF Boxes
    <2>3. [priority |-> 0, cmds |-> {"cancel"}, routine |-> None, id |-> i] \in Command
        BY <1>3, <2>2, DefaultAssumption DEF Command, SendCancel
    <2> QED
        BY <1>3, <2>1, <2>3 DEF SendCancel, Boxes
<1> QED
    BY <1>1, <1>2, <1>3

\* The loop takes at most what Dispatch takes from a socket.
LEMMA LoopBoxes ==
    ASSUME ControlLoop
    PROVE  /\ UNCHANGED <<outbox, lastRun>>
           /\ UNCHANGED inbox \/ \E c \in Client : Dispatch(c)
<1>1. ASSUME NEW c \in Client, Answer(c) PROVE UNCHANGED <<outbox, inbox, lastRun>>
    BY <1>1 DEF Answer, Ping, FreeUpControl, leaseState
<1>2. ASSUME NEW c \in Client, Fail(c) PROVE UNCHANGED <<outbox, inbox, lastRun>>
    BY <1>2 DEF Fail, leaseState, clientState
<1>3. ASSUME NEW c \in Client, Dispatch(c) PROVE UNCHANGED <<outbox, lastRun>>
    BY <1>3 DEF Dispatch, clientState
<1>4. ASSUME Exit \/ RunNext \/ Push \/ Stuck \/ NoRequest \/ NoCommand \/ Continue \/ Finish
      PROVE UNCHANGED <<outbox, inbox, lastRun>>
    BY <1>4, Zenon DEF Exit, RunNext, Push, Stuck, NoRequest, NoCommand, Continue, Finish,
                leaseState, clientState
<1> QED
    BY <1>1, <1>2, <1>3, <1>4, Zenon DEF ControlLoop

LEMMA NextBoxes == Boxes /\ [Next]_vars => Boxes'
<1> SUFFICES ASSUME Boxes, [Next]_vars PROVE Boxes'
    OBVIOUS
<1>1. ASSUME NEW c \in Client, SendPlain(c) \/ SendRun(c) \/ SendCancel(c) PROVE Boxes'
    BY <1>1, SendBoxes, PostBoxes DEF Boxes
<1>2. ASSUME NEW c \in Client, Deliver(c) PROVE Boxes'
    BY <1>2 DEF Boxes, Slots, Deliver, clientState
<1>3. ASSUME NEW c \in Client, AskAdmin(c) PROVE Boxes'
    BY <1>3 DEF Boxes, AskAdmin, leaseState
<1>4. CASE Tick
    BY <1>4 DEF Boxes, Tick, clientState
<1>5. CASE ControlLoop
    <2>1. ASSUME NEW c \in Client, Dispatch(c) PROVE inbox' \in Slots
        BY <2>1 DEF Boxes, Slots, Dispatch
    <2> QED
        BY <1>5, <2>1, LoopBoxes DEF Boxes
<1>6. CASE UNCHANGED vars
    BY <1>6 DEF Boxes, vars, leaseState, clientState
<1> QED
    BY <1>1, <1>2, <1>3, <1>4, <1>5, <1>6, Zenon DEF Next

LEMMA BoxesInvariance == Spec => []Boxes
BY InitBoxes, NextBoxes, PTL DEF Spec

\* Only Dispatch takes a command from a socket, and only that client's.
LEMMA TakenByDispatch ==
    ASSUME Boxes, [Next]_vars, NEW c \in Client, inbox[c] # None, inbox'[c] = None
    PROVE  Dispatch(c)
<1>1. ASSUME UNCHANGED inbox PROVE FALSE
    BY <1>1
<1>2. ASSUME NEW d \in Client, SendPlain(d) \/ SendRun(d) \/ SendCancel(d) PROVE FALSE
    BY <1>1, <1>2 DEF SendPlain, SendRun, SendCancel, Post
<1>3. ASSUME NEW d \in Client, Deliver(d) PROVE FALSE
    BY <1>3 DEF Boxes, Slots, Deliver
<1>4. ASSUME NEW d \in Client, AskAdmin(d) PROVE FALSE
    BY <1>1, <1>4 DEF AskAdmin, leaseState
<1>5. CASE Tick
    BY <1>1, <1>5 DEF Tick
<1>6. CASE ControlLoop
    <2>1. PICK d \in Client : Dispatch(d)
        BY <1>1, <1>6, LoopBoxes
    <2>2. d = c
        BY <2>1 DEF Boxes, Slots, Dispatch
    <2> QED
        BY <2>1, <2>2
<1>7. CASE UNCHANGED vars
    BY <1>1, <1>7 DEF vars, leaseState
<1> QED
    BY <1>2, <1>3, <1>4, <1>5, <1>6, <1>7, Zenon DEF Next

LEMMA CancelStep == LInv /\ Boxes /\ [Next]_vars => [CancelMove]_vars
<1> SUFFICES ASSUME LInv, Boxes, [Next]_vars,
                    NEW c \in Client, inbox[c] # None, inbox'[c] = None, canceled', ~canceled
             PROVE  c = owner \/ usurped'
    BY Zenon DEF CancelMove
<1>1. Dispatch(c)
    BY TakenByDispatch
<1>2. Accepted(c) /\ active # None
    BY <1>1 DEF Dispatch, CancelActive
<1>3. usurped' = (usurped \/ (active # None /\ c # holder /\ Lease!Outranks(c)))
    BY <1>1 DEF Dispatch
<1>4. holder = owner \/ usurped
    BY <1>2 DEF LInv, Owned
<1>5. holder = c \/ holder = None \/ Lease!Outranks(c)
    BY <1>2, VacantFacts DEF Accepted
<1>6. owner # None
    BY <1>2, NoneAssumption DEF LInv, Owned
<1>7. (usurped => usurped') /\ (c # holder /\ Lease!Outranks(c) => usurped')
    BY <1>2, <1>3
<1>8. CASE usurped
    BY <1>7, <1>8
<1>9. CASE holder = owner
    BY <1>5, <1>6, <1>7, <1>9
<1> QED
    BY <1>4, <1>8, <1>9

\* While a routine runs, a client's command cancels it only if it is the client's own
\* routine or the lease was usurped.
THEOREM CancelOwned == Spec => CancelByOwner
BY CancelStep, Invariance, BoxesInvariance, PTL DEF Spec, CancelByOwner

-----------------------------------------------------------------------------
(* The loop implements the lease.                                          *)

\* A change of a socket is the same change of the priorities in it.
LEMMA PriorityOfNone ==
    ASSUME NEW box \in Slots, NEW c \in Client
    PROVE  /\ PriorityOf([box EXCEPT ![c] = None]) = [PriorityOf(box) EXCEPT ![c] = None]
           /\ PriorityOf(box)[c] = IF box[c] = None THEN None ELSE box[c].priority
BY DEF PriorityOf, Slots

LEMMA PriorityOfCommand ==
    ASSUME NEW box \in Slots, NEW c \in Client, NEW m \in Command
    PROVE  PriorityOf([box EXCEPT ![c] = m]) = [PriorityOf(box) EXCEPT ![c] = m.priority]
<1>1. m # None
    BY NoneAssumption
<1> QED
    BY <1>1 DEF PriorityOf, Slots

LEMMA CommandPriority == \A m \in Command : m.priority \in Priority /\ m # None /\ m.priority # None
BY NoneAssumption, LeaseAssumption DEF Command

LEMMA PostRefines ==
    ASSUME Boxes, NEW c \in Client, NEW m \in Command, Post(c, m)
    PROVE  Lease!Send(c)
<1>1. outbox' = [outbox EXCEPT ![c] = m]
      /\ UNCHANGED <<inbox, holder, holderPriority, left, claim, active>>
    BY DEF Post, serverState, routineState
<1>2. PriorityOf(outbox') = [PriorityOf(outbox) EXCEPT ![c] = m.priority]
    <2>1. PriorityOf([outbox EXCEPT ![c] = m]) = [PriorityOf(outbox) EXCEPT ![c] = m.priority]
        BY PriorityOfCommand DEF Boxes
    <2> QED
        BY <1>1, <2>1, Zenon
<1>3. PriorityOf(outbox)' = PriorityOf(outbox') /\ PriorityOf(inbox)' = PriorityOf(inbox)
    BY <1>1 DEF PriorityOf
<1>4. (active # None)' = (active # None)
    BY <1>1
<1> QED
    BY <1>1, <1>2, <1>3, <1>4, CommandPriority DEF Lease!Send, Lease!leaseVars

LEMMA DeliverRefines ==
    ASSUME Boxes, NEW c \in Client, Deliver(c)
    PROVE  Lease!Deliver(c)
<1>1. /\ outbox[c] # None
      /\ inbox' = [inbox EXCEPT ![c] = outbox[c]]
      /\ outbox' = [outbox EXCEPT ![c] = None]
      /\ UNCHANGED <<holder, holderPriority, left, claim, active>>
    BY DEF Deliver, serverState, routineState
<1>2. outbox[c] \in Command
    BY <1>1 DEF Boxes, Slots
<1>3. PriorityOf(outbox)[c] = outbox[c].priority /\ outbox[c].priority # None
    BY <1>1, <1>2, PriorityOfNone, CommandPriority DEF Boxes
<1>4. PriorityOf(inbox') = [PriorityOf(inbox) EXCEPT ![c] = outbox[c].priority]
    <2>1. PriorityOf([inbox EXCEPT ![c] = outbox[c]])
             = [PriorityOf(inbox) EXCEPT ![c] = outbox[c].priority]
        BY <1>2, PriorityOfCommand DEF Boxes
    <2> QED
        BY <1>1, <2>1, Zenon
<1>5. PriorityOf(outbox') = [PriorityOf(outbox) EXCEPT ![c] = None]
    BY <1>1, PriorityOfNone DEF Boxes
<1>6. PriorityOf(outbox)' = PriorityOf(outbox') /\ PriorityOf(inbox)' = PriorityOf(inbox')
    BY DEF PriorityOf
<1>7. (active # None)' = (active # None)
    BY <1>1
<1> QED
    BY <1>1, <1>3, <1>4, <1>5, <1>6, <1>7 DEF Lease!Deliver, Lease!leaseVars

\* A step that touches neither sockets nor lease starts or ends a routine, or nothing.
LEMMA QuietRefines ==
    ASSUME UNCHANGED leaseState
    PROVE  [Lease!RoutineChange]_(Lease!vars)
<1>1. UNCHANGED <<PriorityOf(outbox), PriorityOf(inbox), holder, holderPriority, left, claim>>
    BY DEF leaseState, PriorityOf
<1>2. (active # None)' = (active # None) \/ (active # None)' = ~(active # None)
    OBVIOUS
<1> QED
    BY <1>1, <1>2, Zenon DEF Lease!RoutineChange, Lease!vars, Lease!leaseVars

LEMMA LoopRefines ==
    ASSUME ControlLoop
    PROVE  [Lease!Next]_(Lease!vars)
<1>1. ASSUME NEW c \in Client, Dispatch(c) PROVE Lease!Next
    BY <1>1, Zenon DEF Dispatch, Lease!Next
<1>2. ASSUME NEW c \in Client, Answer(c), FreeUpControl(c) PROVE Lease!Next
    BY <1>2, Zenon DEF FreeUpControl, Lease!Next
<1>3. CASE UNCHANGED leaseState
    BY <1>3, QuietRefines, Zenon DEF Lease!Next
<1>4. ASSUME NEW c \in Client, Answer(c) PROVE UNCHANGED leaseState \/ FreeUpControl(c)
    BY <1>4, Zenon DEF Answer, Ping
<1>5. ASSUME NEW c \in Client, Fail(c) PROVE UNCHANGED leaseState
    BY <1>5, Zenon DEF Fail
<1>6. ASSUME Exit \/ RunNext \/ Push \/ Stuck \/ NoRequest \/ NoCommand \/ Continue \/ Finish
      PROVE UNCHANGED leaseState
    BY <1>6, Zenon DEF Exit, RunNext, Push, Stuck, NoRequest, NoCommand, Continue, Finish
<1> QED
    BY <1>1, <1>2, <1>3, <1>4, <1>5, <1>6, Zenon DEF ControlLoop

LEMMA NextRefines == Boxes /\ [Next]_vars => [Lease!Next]_(Lease!vars)
<1> SUFFICES ASSUME Boxes, [Next]_vars PROVE [Lease!Next]_(Lease!vars)
    OBVIOUS
<1>1. ASSUME NEW c \in Client, SendPlain(c) \/ SendRun(c) \/ SendCancel(c) PROVE Lease!Next
    <2>1. Lease!Send(c)
        BY <1>1, SendBoxes, PostRefines
    <2> QED
        BY <2>1, Zenon DEF Lease!Next
<1>2. ASSUME NEW c \in Client, Deliver(c) PROVE Lease!Next
    BY <1>2, DeliverRefines, Zenon DEF Lease!Next
<1>3. CASE Tick
    BY <1>3, Zenon DEF Tick, Lease!Next
<1>4. ASSUME NEW c \in Client, AskAdmin(c) PROVE UNCHANGED leaseState
    BY <1>4, Zenon DEF AskAdmin
<1>5. CASE UNCHANGED vars
    BY <1>5, QuietRefines, Zenon DEF vars, Lease!Next
<1> QED
    BY <1>1, <1>2, <1>3, <1>4, <1>5, LoopRefines, QuietRefines, Zenon DEF Next, Lease!Next

\* The control loop, whatever routines, requests and exceptions it goes through,
\* arbitrates exactly as CommandLease says: every step is a step of it or none.
THEOREM Refinement == Spec => LeaseRefined
<1>1. Init => Lease!Init
    BY DEF Init, Lease!Init, PriorityOf
<1> QED
    BY <1>1, NextRefines, BoxesInvariance, PTL DEF Spec, LeaseRefined

-----------------------------------------------------------------------------
(* Types.                                                                  *)

LeaseTypes == /\ holder \in Client \cup {None}
              /\ holderPriority \in Priority \cup {None}
              /\ left \in Lease!Remaining
              /\ claim \in [Client -> Lease!Remaining]

ServerTypes == /\ pc \in {"runNext", "push", "admin", "command", "body", "ended"}
               /\ active \in Enabled \cup {None}
               /\ activeId \in 0 .. MaxId
               /\ next \in [routine : Enabled \cup {None}, id : 0 .. MaxId,
                            from : Client \cup {None}]
               /\ canceled \in BOOLEAN
               /\ last \in [id : 0 .. MaxId, ok : BOOLEAN]
               /\ doExit \in BOOLEAN
               /\ owed \in Client \cup {None}
               /\ queued \subseteq QueuedMotion
               /\ sentryActive \in BOOLEAN
               /\ published \in [id : 0 .. MaxId, ok : BOOLEAN]
               /\ owner \in Client \cup {None}
               /\ usurped \in BOOLEAN
               /\ userPaused \in BOOLEAN

ClientTypes == request \in [Client -> Requests \cup {None}] /\ sent \in 0 .. MaxSent

LEMMA InitTypes == Init => LeaseTypes /\ ServerTypes /\ ClientTypes
<1>1. -1 \in Lease!Remaining /\ 0 \in 0 .. MaxId /\ 0 \in 0 .. MaxSent
    BY LeaseAssumption, IdAssumption DEF Lease!Remaining
<1>2. TRUE \in BOOLEAN /\ FALSE \in BOOLEAN
    OBVIOUS
<1>3. NoRoutine \in [routine : Enabled \cup {None}, id : 0 .. MaxId, from : Client \cup {None}]
      /\ [id |-> 0, ok |-> FALSE] \in [id : 0 .. MaxId, ok : BOOLEAN]
    BY <1>1 DEF NoRoutine
<1> QED
    BY <1>1, <1>2, <1>3, Zenon DEF Init, LeaseTypes, ServerTypes, ClientTypes

LEMMA LeaseTypesStep ==
    ASSUME Boxes, LeaseTypes, [Lease!Next]_(Lease!vars)
    PROVE  LeaseTypes'
<1> USE LeaseAssumption DEF LeaseTypes, Lease!Remaining, Lease!leaseVars
<1>1. \A c \in Client : PriorityOf(inbox)[c] # None => PriorityOf(inbox)[c] \in Priority
    BY PriorityOfNone, CommandPriority DEF Boxes, Slots
<1>2. ASSUME NEW c \in Client, Lease!Send(c) \/ Lease!Deliver(c) \/ Lease!Close(c)
      PROVE  LeaseTypes'
    BY <1>2 DEF Lease!Send, Lease!Deliver, Lease!Close
<1>3. ASSUME NEW c \in Client, Lease!NewLease(c) PROVE LeaseTypes'
    BY <1>1, <1>3 DEF Lease!NewLease, Lease!Read
<1>4. ASSUME NEW c \in Client, Lease!Renew(c) \/ Lease!Reject(c) PROVE LeaseTypes'
    BY <1>4 DEF Lease!Renew, Lease!Reject, Lease!LeftNow
<1>5. CASE Lease!FreeUpControl
    BY <1>5 DEF Lease!FreeUpControl
<1>6. CASE Lease!RoutineChange
    BY <1>6 DEF Lease!RoutineChange
<1>7. CASE Lease!Tick
    BY <1>7 DEF Lease!Tick, Lease!Elapse
<1>8. CASE UNCHANGED Lease!vars
    BY <1>8 DEF Lease!vars
<1> QED
    BY <1>2, <1>3, <1>4, <1>5, <1>6, <1>7, <1>8, Zenon DEF Lease!Next, Lease!Receive

LEMMA ServerTypesDispatch ==
    ASSUME Boxes, ServerTypes, NEW c \in Client, Dispatch(c)
    PROVE  ServerTypes'
<1>1. inbox[c] \in Command
    BY DEF Boxes, Slots, Dispatch
<1>2. /\ pc' \in {"body", "ended"}
      /\ UNCHANGED <<active, activeId, last, owner, doExit, owed, published>>
    BY DEF Dispatch
<1>3. next' \in [routine : Enabled \cup {None}, id : 0 .. MaxId, from : Client \cup {None}]
    <2>1. 0 \in 0 .. MaxId
        BY IdAssumption
    <2>2. next' = next \/ next' = NoRoutine
          \/ /\ inbox[c].routine \in Enabled
             /\ next' = [routine |-> inbox[c].routine, id |-> inbox[c].id, from |-> c]
        BY DEF Dispatch, SetNext
    <2>3. inbox[c].id \in 0 .. MaxId
        BY <1>1 DEF Command
    <2>4. NoRoutine \in [routine : Enabled \cup {None}, id : 0 .. MaxId, from : Client \cup {None}]
        BY <2>1 DEF NoRoutine
    <2> QED
        BY <2>2, <2>3, <2>4 DEF ServerTypes
<1>4. canceled' \in BOOLEAN /\ sentryActive' \in BOOLEAN /\ userPaused' \in BOOLEAN
    BY Zenon DEF ServerTypes, Dispatch, CancelActive, Perform
<1>5. queued' \subseteq QueuedMotion
    <2>1. [from |-> c, id |-> inbox[c].id] \in QueuedMotion
        BY <1>1 DEF Command, QueuedMotion
    <2> QED
        BY <2>1 DEF ServerTypes, Dispatch, Perform
<1>6. usurped' \in BOOLEAN
    BY Zenon DEF ServerTypes, Dispatch
<1> QED
    BY <1>2, <1>3, <1>4, <1>5, <1>6, Zenon DEF ServerTypes

LEMMA RecordTypes ==
    ASSUME ServerTypes, NEW ok \in BOOLEAN, Record(ok)
    PROVE  last' \in [id : 0 .. MaxId, ok : BOOLEAN] /\ sentryActive' \in BOOLEAN
<1>1. last' = last \/ last' = [id |-> activeId, ok |-> ok]
    BY DEF Record
<1>2. sentryActive' \in BOOLEAN
    BY Zenon DEF Record, ServerTypes
<1>3. [id |-> activeId, ok |-> ok] \in [id : 0 .. MaxId, ok : BOOLEAN]
    BY DEF ServerTypes
<1>4. last \in [id : 0 .. MaxId, ok : BOOLEAN]
    BY Zenon DEF ServerTypes
<1>5. last' \in [id : 0 .. MaxId, ok : BOOLEAN]
    BY <1>1, <1>3, <1>4
<1> QED
    BY <1>2, <1>5

LEMMA RaiseTypes ==
    ASSUME ServerTypes, Raise
    PROVE  /\ last' \in [id : 0 .. MaxId, ok : BOOLEAN] /\ sentryActive' \in BOOLEAN
           /\ canceled' \in BOOLEAN /\ pc' \in {"runNext", "ended"}
<1>1. FALSE \in BOOLEAN /\ TRUE \in BOOLEAN
    OBVIOUS
<1>2. CASE active \in Guarded
    BY <1>1, <1>2, RecordTypes, Zenon DEF Raise
<1>3. CASE active \notin Guarded
    BY <1>3, Zenon DEF Raise, ServerTypes
<1> QED
    BY <1>2, <1>3

LEMMA ServerTypesStep ==
    ASSUME Boxes, ServerTypes, ClientTypes, [Next]_vars
    PROVE  ServerTypes'
<1> USE DEF ServerTypes
<1>0. TRUE \in BOOLEAN /\ FALSE \in BOOLEAN /\ 0 \in 0 .. MaxId
    BY IdAssumption
<1>1. CASE UNCHANGED serverState
    <2>1. UNCHANGED <<pc, active, activeId, next, canceled, last, doExit, owed, queued,
                      sentryActive, published, owner, usurped, userPaused>>
        BY <1>1, Zenon DEF serverState, routineState
    <2> QED
        BY <2>1
<1>2. CASE Exit
    <2>1. UNCHANGED <<active, activeId, next, canceled, last, doExit, owed, queued,
                      sentryActive, published, owner, usurped, userPaused>>
        BY <1>2, Zenon DEF Exit, routineState
    <2>2. pc' \in {"runNext", "push", "admin", "command", "body", "ended"}
        BY <1>2 DEF Exit
    <2> QED
        BY <2>1, <2>2
<1>3. CASE RunNext
    <2>1. active' \in Enabled \cup {None} /\ activeId' \in 0 .. MaxId /\ owner' \in Client \cup {None}
        BY <1>3 DEF RunNext
    <2>2. sentryActive' \in BOOLEAN /\ canceled' \in BOOLEAN /\ usurped' \in BOOLEAN
        BY <1>0, <1>3, Zenon DEF RunNext
    <2>3. pc' \in {"push", "body"}
        BY <1>3 DEF RunNext
    <2> QED
        BY <1>0, <1>3, <2>1, <2>2, <2>3, Zenon DEF RunNext, NoRoutine
<1>4. CASE Push
    <2>1. canceled' = canceled \/ canceled' = TRUE
        BY <1>4 DEF Push
    <2>2. queued' \subseteq QueuedMotion
        BY <1>4 DEF Push
    <2> QED
        <3>1. UNCHANGED <<active, activeId, next, last, doExit, owed, sentryActive, owner,
                          usurped, userPaused>>
              /\ published' = last /\ pc' = "admin"
            BY <1>4, Zenon DEF Push
        <3>2. canceled' \in BOOLEAN
            BY <1>0, <2>1, Zenon
        <3>3. pc' \in {"runNext", "push", "admin", "command", "body", "ended"}
            BY <3>1
        <3> QED
            BY <2>2, <3>1, <3>2, <3>3
<1>5. CASE NoRequest \/ NoCommand \/ Continue
    BY <1>5, Zenon DEF NoRequest, NoCommand, Continue, routineState
<1>6. CASE Stuck
    BY <1>6, RaiseTypes, Zenon DEF Stuck
<1>7. ASSUME NEW c \in Client, Fail(c) PROVE ServerTypes'
    <2>1. doExit' \in BOOLEAN
        BY <1>7, Zenon DEF Fail
    <2> QED
        BY <1>7, <2>1, RaiseTypes, Zenon DEF Fail
<1>8. CASE Finish
    <2>1. PICK ok \in BOOLEAN : Record(ok)
        BY <1>8 DEF Finish
    <2> QED
        BY <1>8, <2>1, RecordTypes, Zenon DEF Finish
<1>9. ASSUME NEW c \in Client, Answer(c) PROVE ServerTypes'
    <2>1. CASE Ping(c)
        BY <2>1, <1>1, Zenon DEF Ping
    <2>2. CASE FreeUpControl(c)
        <3>1. usurped' \in BOOLEAN
            BY <2>2, Zenon DEF FreeUpControl
        <3>2. UNCHANGED <<pc, active, activeId, next, canceled, last, doExit, owed, queued,
                          sentryActive, published, owner, userPaused>>
            BY <2>2, Zenon DEF FreeUpControl
        <3> QED
            BY <3>1, <3>2
    <2> QED
        BY <1>9, <2>1, <2>2, Zenon DEF Answer
<1>10. ASSUME NEW c \in Client, Dispatch(c) PROVE ServerTypes'
    BY <1>10, ServerTypesDispatch, Zenon
<1>11. CASE ControlLoop
    BY <1>2, <1>3, <1>4, <1>5, <1>6, <1>7, <1>8, <1>9, <1>10, <1>11, Zenon DEF ControlLoop
<1>12. ASSUME NEW c \in Client, SendPlain(c) \/ SendRun(c) \/ SendCancel(c) PROVE ServerTypes'
    BY <1>1, <1>12, Zenon DEF SendPlain, SendRun, SendCancel, Post
<1>13. ASSUME NEW c \in Client, Deliver(c) \/ AskAdmin(c) PROVE ServerTypes'
    BY <1>1, <1>13, Zenon DEF Deliver, AskAdmin
<1> QED
    BY <1>1, <1>11, <1>12, <1>13, Zenon DEF Next, Tick, vars

LEMMA ClientTypesStep ==
    ASSUME Boxes, ClientTypes, [Next]_vars
    PROVE  ClientTypes'
<1> USE DEF ClientTypes
<1>1. CASE UNCHANGED <<request, sent>>
    BY <1>1
<1>2. ASSUME NEW c \in Client, SendPlain(c) \/ SendRun(c) \/ SendCancel(c) PROVE ClientTypes'
    <2>1. PICK m \in Command : Post(c, m)
        BY <1>2, SendBoxes
    <2> QED
        BY <2>1, IdAssumption DEF Post
<1>3. ASSUME NEW c \in Client, AskAdmin(c) PROVE ClientTypes'
    BY <1>3 DEF AskAdmin
<1>4. ASSUME NEW c \in Client, Answer(c) PROVE ClientTypes'
    BY <1>4 DEF Answer
<1>5. ASSUME NEW c \in Client, Deliver(c) \/ Fail(c) \/ Dispatch(c) PROVE UNCHANGED <<request, sent>>
    BY <1>5, Zenon DEF Deliver, Fail, Dispatch, clientState
<1>6. ASSUME Exit \/ RunNext \/ Push \/ Stuck \/ NoRequest \/ NoCommand \/ Continue \/ Finish
             \/ Tick \/ UNCHANGED vars
      PROVE UNCHANGED <<request, sent>>
    BY <1>6, Zenon DEF Exit, RunNext, Push, Stuck, NoRequest, NoCommand, Continue, Finish,
                Tick, vars, clientState
<1> QED
    BY <1>1, <1>2, <1>3, <1>4, <1>5, <1>6, Zenon DEF Next, ControlLoop

LEMMA TypesOK == Boxes /\ LeaseTypes /\ ServerTypes /\ ClientTypes => TypeOK
<1> SUFFICES ASSUME Boxes, LeaseTypes, ServerTypes, ClientTypes PROVE TypeOK
    OBVIOUS
<1>1. ASSUME NEW box \in Slots PROVE PriorityOf(box) \in [Client -> Lease!Slot]
    BY CommandPriority DEF PriorityOf, Slots, Lease!Slot
<1>2. (active # None) \in BOOLEAN
    OBVIOUS
<1>3. Lease!TypeOK
    BY <1>1, <1>2, Zenon DEF Boxes, LeaseTypes, Lease!TypeOK, Lease!Slot
<1>4. \A c \in Client : {outbox[c], inbox[c]} \subseteq Command \cup {None}
    BY DEF Boxes, Slots
<1> QED
    BY <1>3, <1>4, Zenon DEF TypeOK, Boxes, ServerTypes, ClientTypes

\* The state variables keep their types.
THEOREM TypeCorrect == Spec => []TypeOK
<1>1. Boxes /\ LeaseTypes /\ ServerTypes /\ ClientTypes /\ [Next]_vars
      => LeaseTypes' /\ ServerTypes' /\ ClientTypes'
    BY NextRefines, LeaseTypesStep, ServerTypesStep, ClientTypesStep, Zenon
<1> QED
    BY <1>1, InitTypes, BoxesInvariance, TypesOK, PTL DEF Spec

-----------------------------------------------------------------------------
(* The ids of routines.  Each is given to one request, which lies in one   *)
(* socket at a time, then is upcoming, active, recorded and published; and *)
(* it is in no earlier place once it is in a later one.                    *)

\* The routine that a message asks for, or 0.
AskId(m) == IF m # None /\ "run" \in m.cmds THEN m.id ELSE 0

Numbered == /\ \A c \in Client : /\ AskId(outbox[c]) \in 0 .. lastRun
                                 /\ AskId(inbox[c]) \in 0 .. lastRun
            /\ {next.id, activeId, last.id, published.id} \subseteq 0 .. lastRun
            /\ lastRun \in Nat

AskedOnce == \A c, d \in Client :
    /\ AskId(outbox[c]) # 0 => AskId(outbox[c]) # AskId(inbox[d])
    /\ c # d /\ AskId(outbox[c]) # 0 => AskId(outbox[c]) # AskId(outbox[d])
    /\ c # d /\ AskId(inbox[c]) # 0 => AskId(inbox[c]) # AskId(inbox[d])

Fresh(i) == i # 0 => i \notin {next.id, activeId, last.id, published.id}

AskedFresh == \A c \in Client : Fresh(AskId(outbox[c])) /\ Fresh(AskId(inbox[c]))

Unbegun == next.id # 0 => next.id \notin {activeId, last.id, published.id}

Unreported == activeId # 0 => /\ activeId # published.id
                              /\ pc \notin {"runNext", "ended"} => activeId # last.id

RInv == Numbered /\ AskedOnce /\ AskedFresh /\ Unbegun /\ Unreported

LEMMA InitReports == Init => RInv
<1> SUFFICES ASSUME Init PROVE RInv
    OBVIOUS
<1>1. \A c \in Client : outbox[c] = None /\ inbox[c] = None
    BY DEF Init
<1>2. \A c \in Client : AskId(outbox[c]) = 0 /\ AskId(inbox[c]) = 0
    BY <1>1 DEF AskId
<1>3. next.id = 0 /\ activeId = 0 /\ last.id = 0 /\ published.id = 0 /\ lastRun = 0
    BY DEF Init, NoRoutine
<1> QED
    BY <1>2, <1>3 DEF RInv, Numbered, AskedOnce, AskedFresh, Fresh, Unbegun, Unreported

\* Steps that leave the ids, the sockets and pc alone.
LEMMA OthersReports ==
    ASSUME RInv, UNCHANGED <<outbox, inbox, lastRun, pc, activeId, next, last, published>>
    PROVE  RInv'
BY Zenon DEF RInv, Numbered, AskedOnce, AskedFresh, Fresh, Unbegun, Unreported, AskId

\* What a client pushes asks for nothing, or for a routine with a new id.
LEMMA SendAsks ==
    ASSUME Boxes, NEW c \in Client, SendPlain(c) \/ SendRun(c) \/ SendCancel(c)
    PROVE  \E m \in Command : /\ Post(c, m)
                              /\ \/ AskId(m) = 0 /\ lastRun' = lastRun
                                 \/ AskId(m) = lastRun + 1 /\ lastRun' = lastRun + 1
<1>1. CASE SendPlain(c)
    <2>1. PICK p \in Priority, k \in {k \in Cmds : k \cap {"run", "cancel"} = {}} :
             Post(c, [priority |-> p, cmds |-> k, routine |-> None, id |-> 0])
        BY <1>1 DEF SendPlain
    <2> DEFINE m == [priority |-> p, cmds |-> k, routine |-> None, id |-> 0]
    <2>2. m \in Command
        BY IdAssumption DEF Command
    <2>3. m.cmds = k /\ "run" \notin k
        OBVIOUS
    <2>4. AskId(m) = 0
        BY <2>3, Zenon DEF AskId
    <2>5. lastRun' = lastRun
        BY <1>1 DEF SendPlain
    <2> QED
        BY <2>1, <2>2, <2>4, <2>5
<1>2. CASE SendRun(c)
    <2>1. PICK p \in Priority, r \in Routine, k \in {k \in Cmds : "run" \in k} :
             Post(c, [priority |-> p, cmds |-> k, routine |-> r, id |-> lastRun'])
        BY <1>2 DEF SendRun
    <2> DEFINE m == [priority |-> p, cmds |-> k, routine |-> r, id |-> lastRun']
    <2>2. lastRun' = lastRun + 1 /\ lastRun' \in 0 .. MaxId
        BY <1>2, IdAssumption DEF SendRun, Boxes
    <2>3. m \in Command
        BY <2>2 DEF Command
    <2>4. m.cmds = k /\ m.id = lastRun' /\ "run" \in k /\ m # None
        BY <2>3, NoneAssumption
    <2>5. AskId(m) = lastRun'
        BY <2>4, Zenon DEF AskId
    <2> QED
        BY <2>1, <2>2, <2>3, <2>5
<1>3. CASE SendCancel(c)
    <2>1. PICK i \in 0 .. lastRun :
             Post(c, [priority |-> 0, cmds |-> {"cancel"}, routine |-> None, id |-> i])
        BY <1>3 DEF SendCancel
    <2> DEFINE m == [priority |-> 0, cmds |-> {"cancel"}, routine |-> None, id |-> i]
    <2>2. i \in 0 .. MaxId
        BY IdAssumption DEF Boxes
    <2>3. m \in Command
        BY <1>3, <2>2, DefaultAssumption DEF Command, SendCancel
    <2>4. m.cmds = {"cancel"} /\ "run" \notin {"cancel"}
        OBVIOUS
    <2>5. AskId(m) = 0
        BY <2>4, Zenon DEF AskId
    <2>6. lastRun' = lastRun
        BY <1>3 DEF SendCancel
    <2> QED
        BY <2>1, <2>3, <2>5, <2>6
<1> QED
    BY <1>1, <1>2, <1>3

LEMMA SendReports ==
    ASSUME Boxes, RInv, NEW c \in Client, SendPlain(c) \/ SendRun(c) \/ SendCancel(c)
    PROVE  RInv'
<1>1. PICK m \in Command : /\ Post(c, m)
                           /\ \/ AskId(m) = 0 /\ lastRun' = lastRun
                              \/ AskId(m) = lastRun + 1 /\ lastRun' = lastRun + 1
    BY SendAsks
<1>2. /\ outbox' = [outbox EXCEPT ![c] = m] /\ inbox' = inbox
      /\ UNCHANGED <<pc, activeId, next, last, published>>
    BY <1>1, Zenon DEF Post, serverState, routineState
<1>3. outbox'[c] = m /\ \A d \in Client \ {c} : outbox'[d] = outbox[d]
    BY <1>2 DEF Boxes, Slots
<1>4. /\ AskId(outbox'[c]) = AskId(m)
      /\ \A d \in Client \ {c} : AskId(outbox'[d]) = AskId(outbox[d])
      /\ \A d \in Client : AskId(inbox'[d]) = AskId(inbox[d])
    BY <1>2, <1>3, Zenon
<1>5. lastRun \in Nat /\ lastRun' \in Nat /\ lastRun <= lastRun'
    BY <1>1, IdAssumption DEF Boxes
<1>6. AskId(m) = 0 \/ (AskId(m) \notin 0 .. lastRun /\ AskId(m) \in 0 .. lastRun')
    BY <1>1, <1>5
<1>7. \A i : i \in 0 .. lastRun => i \in 0 .. lastRun'
    BY <1>5
<1>8. Numbered'
    <2>1. 0 \in 0 .. lastRun'
        BY <1>5
    <2> QED
        BY <1>2, <1>4, <1>5, <1>6, <1>7, <2>1 DEF RInv, Numbered
<1>9. AskedOnce'
    <2>1. \A d \in Client : AskId(m) # 0 => /\ AskId(m) # AskId(outbox[d])
                                           /\ AskId(m) # AskId(inbox[d])
        BY <1>6, Zenon DEF RInv, Numbered
    <2>2. AskedOnce
        BY Zenon DEF RInv
    <2> SUFFICES ASSUME NEW a \in Client, NEW d \in Client
                 PROVE  /\ AskId(outbox'[a]) # 0 => AskId(outbox'[a]) # AskId(inbox'[d])
                        /\ a # d /\ AskId(outbox'[a]) # 0
                               => AskId(outbox'[a]) # AskId(outbox'[d])
                        /\ a # d /\ AskId(inbox'[a]) # 0
                               => AskId(inbox'[a]) # AskId(inbox'[d])
        BY Zenon DEF AskedOnce
    <2>3. CASE a = c
        BY <1>4, <2>1, <2>2, <2>3 DEF AskedOnce
    <2>4. CASE a # c
        BY <1>4, <2>1, <2>2, <2>4 DEF AskedOnce
    <2> QED
        BY <2>3, <2>4
<1>10. Fresh(AskId(m))
    BY <1>6 DEF RInv, Numbered, Fresh
<1>11. AskedFresh'
    BY <1>2, <1>4, <1>10, Zenon DEF RInv, AskedFresh, Fresh
<1> QED
    BY <1>2, <1>8, <1>9, <1>11 DEF RInv, Unbegun, Unreported

LEMMA DeliverReports ==
    ASSUME Boxes, RInv, NEW c \in Client, Deliver(c)
    PROVE  RInv'
<1>1. /\ inbox' = [inbox EXCEPT ![c] = outbox[c]]
      /\ outbox' = [outbox EXCEPT ![c] = None]
      /\ UNCHANGED <<pc, activeId, next, last, published, lastRun>>
    BY Zenon DEF Deliver, serverState, routineState, clientState
<1>2. /\ inbox'[c] = outbox[c] /\ outbox'[c] = None
      /\ \A d \in Client \ {c} : outbox'[d] = outbox[d] /\ inbox'[d] = inbox[d]
    BY <1>1 DEF Boxes, Slots
<1>3. AskId(None) = 0
    BY DEF AskId
<1>4. /\ AskId(outbox'[c]) = 0 /\ AskId(inbox'[c]) = AskId(outbox[c])
      /\ \A d \in Client \ {c} : /\ AskId(outbox'[d]) = AskId(outbox[d])
                                 /\ AskId(inbox'[d]) = AskId(inbox[d])
    BY <1>2, <1>3, Zenon
<1>5. Numbered'
    <2>1. 0 \in 0 .. lastRun
        BY IdAssumption DEF Boxes
    <2> QED
        BY <1>1, <1>4, <2>1, Zenon DEF RInv, Numbered
<1>6. AskedOnce'
    BY <1>4 DEF RInv, AskedOnce
<1>7. AskedFresh'
    BY <1>1, <1>4, Zenon DEF RInv, AskedFresh, Fresh
<1> QED
    BY <1>1, <1>5, <1>6, <1>7 DEF RInv, Unbegun, Unreported

LEMMA DispatchReports ==
    ASSUME Boxes, RInv, NEW c \in Client, Dispatch(c)
    PROVE  RInv'
<1> DEFINE m == inbox[c]
<1>1. /\ m # None /\ inbox' = [inbox EXCEPT ![c] = None]
      /\ pc = "command" /\ UNCHANGED <<outbox, activeId, last, published, lastRun>>
    BY Zenon DEF Dispatch, clientState
<1>2. inbox'[c] = None /\ \A d \in Client \ {c} : inbox'[d] = inbox[d]
    BY <1>1 DEF Boxes, Slots
<1>3. AskId(None) = 0
    BY DEF AskId
<1>4. /\ AskId(inbox'[c]) = 0
      /\ \A d \in Client \ {c} : AskId(inbox'[d]) = AskId(inbox[d])
      /\ \A d \in Client : AskId(outbox'[d]) = AskId(outbox[d])
    BY <1>1, <1>2, <1>3, Zenon
<1>5. next'.id = next.id \/ next'.id = 0 \/ next'.id = AskId(m)
    <2>1. \/ next' = next \/ next' = NoRoutine
          \/ "run" \in m.cmds /\ next' = [routine |-> m.routine, id |-> m.id, from |-> c]
        BY Zenon DEF Dispatch, SetNext
    <2>2. "run" \in m.cmds => AskId(m) = m.id
        BY <1>1 DEF AskId
    <2> QED
        BY <2>1, <2>2 DEF NoRoutine
<1>6. Numbered'
    <2>1. 0 \in 0 .. lastRun
        BY IdAssumption DEF Boxes
    <2>2. next'.id \in 0 .. lastRun
        BY <1>5, <2>1 DEF RInv, Numbered
    <2> QED
        BY <1>1, <1>4, <2>1, <2>2 DEF RInv, Numbered
<1>7. AskedOnce'
    BY <1>4 DEF RInv, AskedOnce
<1>8. AskedFresh'
    <2>1. ASSUME NEW d \in Client PROVE Fresh(AskId(outbox[d]))'
        <3>1. AskId(outbox[d]) # 0 => AskId(outbox[d]) # AskId(m)
            BY Zenon DEF RInv, AskedOnce
        <3> QED
            BY <1>1, <1>4, <1>5, <3>1 DEF RInv, AskedFresh, Fresh
    <2>2. ASSUME NEW d \in Client PROVE Fresh(AskId(inbox[d]))'
        <3>1. CASE d = c
            BY <1>4, <3>1, Zenon DEF Fresh
        <3>2. CASE d # c
            <4>1. AskId(inbox[d]) # 0 => AskId(inbox[d]) # AskId(m)
                BY <3>2, Zenon DEF RInv, AskedOnce
            <4> QED
                BY <1>1, <1>4, <1>5, <3>2, <4>1 DEF RInv, AskedFresh, Fresh
        <3> QED
            BY <3>1, <3>2
    <2> QED
        BY <2>1, <2>2, Zenon DEF AskedFresh
<1>9. Unbegun'
    <2>1. Fresh(AskId(m))
        BY Zenon DEF RInv, AskedFresh
    <2> QED
        BY <1>1, <1>5, <2>1 DEF RInv, Unbegun, Fresh
<1>10. Unreported'
    BY <1>1 DEF RInv, Unreported
<1> QED
    BY <1>6, <1>7, <1>8, <1>9, <1>10, Zenon DEF RInv

\* The steps of the loop that leave the sockets alone.
LEMMA SameAsks ==
    ASSUME UNCHANGED <<outbox, inbox, lastRun>>, RInv,
           {next'.id, activeId', last'.id, published'.id}
               \subseteq {0, next.id, activeId, last.id, published.id}
    PROVE  Numbered' /\ AskedOnce' /\ AskedFresh'
<1>1. /\ \A c \in Client : /\ AskId(outbox'[c]) = AskId(outbox[c])
                           /\ AskId(inbox'[c]) = AskId(inbox[c])
      /\ lastRun' = lastRun
    BY Zenon
<1>2. lastRun \in Nat
    BY DEF RInv, Numbered
<1>3. 0 \in 0 .. lastRun
    BY <1>2
<1>4. Numbered'
    BY <1>1, <1>3 DEF RInv, Numbered
<1>5. AskedOnce'
    BY <1>1, Zenon DEF RInv, AskedOnce
<1>6. ASSUME NEW i, Fresh(i) PROVE Fresh(i)'
    BY <1>6 DEF Fresh
<1>7. AskedFresh'
    BY <1>1, <1>6, Zenon DEF RInv, AskedFresh
<1> QED
    BY <1>4, <1>5, <1>7

\* The end of the active routine is recorded.
LEMMA RecordReports ==
    ASSUME RInv, UNCHANGED <<outbox, inbox, lastRun, activeId, next, published>>,
           NEW ok \in BOOLEAN, Record(ok) \/ last' = last, pc' \in {"runNext", "ended"}
    PROVE  RInv'
<1>1. last'.id = last.id \/ last'.id = activeId
    BY DEF Record
<1>2. Numbered' /\ AskedOnce' /\ AskedFresh'
    <2>1. {next'.id, activeId', last'.id, published'.id}
              \subseteq {0, next.id, activeId, last.id, published.id}
        BY <1>1
    <2> QED
        BY <2>1, SameAsks
<1>3. Unbegun' /\ Unreported'
    BY <1>1 DEF RInv, Unbegun, Unreported
<1> QED
    BY <1>2, <1>3, Zenon DEF RInv

LEMMA RunNextReports == ASSUME RInv, RunNext PROVE RInv'
<1>1. /\ UNCHANGED <<outbox, inbox, lastRun, last, published>>
      /\ activeId' = next.id /\ next'.id = 0
    BY DEF RunNext, leaseState, clientState, NoRoutine
<1>2. Numbered' /\ AskedOnce' /\ AskedFresh'
    BY <1>1, SameAsks
<1>3. Unbegun' /\ Unreported'
    BY <1>1 DEF RInv, Unbegun, Unreported
<1> QED
    BY <1>2, <1>3, Zenon DEF RInv

LEMMA PushReports == ASSUME RInv, Push PROVE RInv'
<1>1. /\ UNCHANGED <<outbox, inbox, lastRun, last, activeId, next>>
      /\ published' = last /\ pc = "push" /\ pc' = "admin"
    BY Zenon DEF Push, leaseState, clientState
<1>2. Numbered' /\ AskedOnce' /\ AskedFresh'
    BY <1>1, SameAsks
<1>3. Unbegun' /\ Unreported'
    BY <1>1 DEF RInv, Unbegun, Unreported
<1> QED
    BY <1>2, <1>3, Zenon DEF RInv

\* Steps that only move the loop on within a cycle, or end it.
LEMMA MoveReports ==
    ASSUME RInv, UNCHANGED <<outbox, inbox, lastRun, activeId, next, last, published>>,
           pc \notin {"runNext", "ended"} \/ pc' = "ended"
    PROVE  RInv'
<1>1. Numbered' /\ AskedOnce' /\ AskedFresh'
    BY SameAsks
<1>2. Unbegun' /\ Unreported'
    BY Zenon DEF RInv, Unbegun, Unreported
<1> QED
    BY <1>1, <1>2, Zenon DEF RInv

LEMMA LoopReports == ASSUME Boxes, RInv, ControlLoop PROVE RInv'
<1>1. CASE Stuck
    <2>1. /\ UNCHANGED <<outbox, inbox, lastRun, activeId, next, published>>
          /\ Record(FALSE) \/ last' = last
          /\ pc' \in {"runNext", "ended"}
        BY <1>1, Zenon DEF Stuck, Raise, leaseState, clientState
    <2> QED
        BY <2>1, RecordReports
<1>2. ASSUME NEW c \in Client, Fail(c) PROVE RInv'
    <2>1. /\ UNCHANGED <<outbox, inbox, lastRun, activeId, next, published>>
          /\ Record(FALSE) \/ last' = last
          /\ pc' \in {"runNext", "ended"}
        BY <1>2, Zenon DEF Fail, Raise, leaseState, clientState
    <2> QED
        BY <2>1, RecordReports
<1>3. CASE Finish
    <2>1. PICK ok \in BOOLEAN : Record(ok)
        BY <1>3 DEF Finish
    <2>2. /\ UNCHANGED <<outbox, inbox, lastRun, activeId, next, published>>
          /\ pc' \in {"runNext", "ended"}
        BY <1>3, Zenon DEF Finish, leaseState, clientState
    <2> QED
        BY <2>1, <2>2, RecordReports
<1>4. ASSUME NEW c \in Client, Answer(c) PROVE RInv'
    <2>1. UNCHANGED <<outbox, inbox, lastRun, pc, activeId, next, last, published>>
        BY <1>4, Zenon DEF Answer, Ping, FreeUpControl, leaseState, serverState, routineState
    <2> QED
        BY <2>1, OthersReports
<1>5. CASE Exit \/ NoRequest \/ NoCommand \/ Continue
    <2>1. /\ UNCHANGED <<outbox, inbox, lastRun, activeId, next, last, published>>
          /\ pc \in {"admin", "command", "body"} \/ pc' = "ended"
        BY <1>5, Zenon DEF Exit, NoRequest, NoCommand, Continue, leaseState, clientState,
                    routineState
    <2>2. pc \notin {"runNext", "ended"} \/ pc' = "ended"
        BY <2>1
    <2> QED
        BY <2>1, <2>2, MoveReports
<1> QED
    BY <1>1, <1>2, <1>3, <1>4, <1>5, RunNextReports, PushReports, DispatchReports, Zenon
       DEF ControlLoop

LEMMA NextReports == Boxes /\ RInv /\ [Next]_vars => RInv'
<1> SUFFICES ASSUME Boxes, RInv, [Next]_vars PROVE RInv'
    OBVIOUS
<1>1. ASSUME NEW c \in Client, AskAdmin(c) PROVE RInv'
    BY <1>1, OthersReports, Zenon DEF AskAdmin, leaseState, serverState, routineState
<1>2. CASE Tick \/ UNCHANGED vars
    <2>1. UNCHANGED <<outbox, inbox, lastRun, pc, activeId, next, last, published>>
        BY <1>2, Zenon DEF Tick, vars, leaseState, serverState, routineState, clientState
    <2> QED
        BY <2>1, OthersReports
<1> QED
    BY <1>1, <1>2, SendReports, DeliverReports, LoopReports, Zenon DEF Next

\* A routine whose end was published is over for good: it does not run, is not
\* about to begin, and no message that could begin it is on its way, so that the
\* client that waits for it may go on (_wait_on_routine).
THEOREM ReportsAreFinal == Spec => []ReportedIsOver
<1>1. Boxes /\ RInv => ReportedIsOver
    <2> SUFFICES ASSUME Boxes, RInv, published.id # 0 PROVE ReportedIsOver
        BY DEF ReportedIsOver
    <2>1. published.id \notin {activeId, next.id}
        BY DEF RInv, Unbegun, Unreported
    <2>2. ASSUME NEW c \in Client, AsksFor(c, published.id) PROVE FALSE
        <3>1. PICK m \in {outbox[c], inbox[c]} : m # None /\ "run" \in m.cmds /\ m.id = published.id
            BY <2>2 DEF AsksFor
        <3>2. AskId(m) = published.id /\ Fresh(AskId(m))
            BY <3>1 DEF AskId, RInv, AskedFresh
        <3> QED
            BY <3>2 DEF Fresh
    <2> QED
        BY <2>1, <2>2 DEF ReportedIsOver
<1> QED
    BY <1>1, InitReports, NextReports, BoxesInvariance, PTL DEF Spec

\* A routine that was accepted begins as it was asked for.
THEOREM AcceptedBegins == Spec => KeptUntilBegun
<1>1. LInv /\ [Next]_vars => [KeptMove]_vars
    <2> SUFFICES ASSUME LInv, [Next]_vars, next.routine # None, next' # next
                 PROVE  active' = next.routine /\ activeId' = next.id /\ owner' = next.from
        BY Zenon DEF KeptMove
    <2>1. pc # "command"
        BY DEF LInv, Upcoming
    <2>2. ASSUME NEW c \in Client,
                 SendPlain(c) \/ SendRun(c) \/ SendCancel(c) \/ Deliver(c) \/ AskAdmin(c)
                 \/ Answer(c) \/ Fail(c) \/ Dispatch(c)
          PROVE  FALSE
        BY <2>1, <2>2, Zenon DEF SendPlain, SendRun, SendCancel, Post, Deliver, AskAdmin, Answer, Ping,
                    FreeUpControl, Fail, Dispatch, serverState, routineState
    <2>3. ASSUME Tick \/ Exit \/ Push \/ Stuck \/ NoRequest \/ NoCommand \/ Continue \/ Finish
                 \/ UNCHANGED vars
          PROVE  FALSE
        BY <2>3, Zenon DEF Tick, Exit, Push, Stuck, NoRequest, NoCommand, Continue, Finish, vars,
                    serverState, routineState
    <2>4. CASE RunNext
        BY <2>4, Zenon DEF RunNext
    <2> QED
        BY <2>2, <2>3, <2>4, Zenon DEF Next, ControlLoop
<1> QED
    BY <1>1, Invariance, PTL DEF Spec, KeptUntilBegun

-----------------------------------------------------------------------------
(* What CommandLease guarantees holds of the whole server: its steps are   *)
(* steps of the lease, and those keep a claim covered by the lease.  The   *)
(* argument is that of CommandLease_proofs, over the lease that is made of *)
(* the server's own variables.                                             *)

\* A step of the lease keeps every claim covered by it.
LEMMA ClaimsStep ==
  ASSUME Lease!TypeOK, Lease!ClaimsAreLeases, [Lease!Next]_(Lease!vars)
  PROVE  Lease!ClaimsAreLeases'
<1> USE LeaseAssumption, NoneAssumption
      DEF Lease!TypeOK, Lease!ClaimsAreLeases, Lease!InControl, Lease!Remaining, Lease!Slot
<1>1. ASSUME NEW c \in Client, Lease!Send(c) \/ Lease!Deliver(c) \/ Lease!Close(c)
      PROVE Lease!ClaimsAreLeases'
  BY <1>1 DEF Lease!Send, Lease!Deliver, Lease!Close, Lease!leaseVars
<1>2. ASSUME NEW c \in Client, Lease!NewLease(c) PROVE Lease!ClaimsAreLeases'
  <2>1. ASSUME NEW d \in Client, claim'[d] >= 0
        PROVE holder' = d /\ claim'[d] <= left'
    <3>1. CASE d = c
      BY <1>2, <3>1 DEF Lease!NewLease
    <3>2. CASE d # c
      \* d would still be in control: it holds an unexpired lease, so c can
      \* only have outranked it, and that ends its claim.
      <4>1. claim'[d] = IF d = holder /\ Lease!Outranks(c) THEN -1 ELSE claim[d]
        BY <1>2, <3>2 DEF Lease!NewLease
      <4>2. claim[d] >= 0 /\ holder = d /\ left >= 0
        BY <2>1, <4>1
      <4>3. ~(Lease!LeftNow < 0)
        BY <4>2 DEF Lease!LeftNow
      <4>4. Lease!Outranks(c)
        BY <1>2, <4>2, <4>3 DEF Lease!NewLease, Lease!Vacant
      <4> QED
        BY <2>1, <4>1, <4>2, <4>4
    <3> QED
      BY <3>1, <3>2
  <2>2. holder' # None /\ holderPriority' # None
    BY <1>2 DEF Lease!NewLease, Lease!Read
  <2> QED
    BY <2>1, <2>2
<1>3. ASSUME NEW c \in Client, Lease!Renew(c) PROVE Lease!ClaimsAreLeases'
  BY <1>3 DEF Lease!Renew
<1>4. ASSUME NEW c \in Client, Lease!Reject(c) PROVE Lease!ClaimsAreLeases'
  BY <1>4 DEF Lease!Reject, Lease!LeftNow
<1>5. CASE Lease!FreeUpControl
  BY <1>5 DEF Lease!FreeUpControl
<1>6. CASE Lease!RoutineChange
  BY <1>6 DEF Lease!RoutineChange, Lease!leaseVars
<1>7. CASE Lease!Tick
  BY <1>7 DEF Lease!Tick, Lease!Elapse
<1>8. CASE UNCHANGED Lease!vars
  BY <1>8 DEF Lease!vars
<1> QED
  BY <1>1, <1>2, <1>3, <1>4, <1>5, <1>6, <1>7, <1>8 DEF Lease!Next, Lease!Receive

\* Reading a command empties one socket, and no other.
LEMMA ReadOne ==
  ASSUME Lease!TypeOK, NEW c \in Client, Lease!Read(c)
  PROVE  /\ PriorityOf(inbox)[c] \in Int
         /\ PriorityOf(inbox)'[c] = None
         /\ \A d \in Client \ {c} : PriorityOf(inbox)'[d] = PriorityOf(inbox)[d]
         /\ (active # None)' = (active # None)
  BY LeaseAssumption, NoneAssumption DEF Lease!TypeOK, Lease!Slot, Lease!Read

\* A step of the lease moves it only as LeaseMove allows.
LEMMA LeaseStep ==
  ASSUME Lease!TypeOK, Lease!ClaimsAreLeases, [Lease!Next]_(Lease!vars)
  PROVE  Lease!LeaseMove /\ Lease!ReadServed
<1> USE LeaseAssumption, NoneAssumption
      DEF Lease!TypeOK, Lease!ClaimsAreLeases, Lease!InControl, Lease!Remaining, Lease!Slot,
            Lease!LeaseMove, Lease!ReadServed
<1>1. ASSUME NEW c \in Client, Lease!NewLease(c) PROVE Lease!LeaseMove /\ Lease!ReadServed
  <2>1. /\ PriorityOf(inbox)[c] \in Int
        /\ PriorityOf(inbox)'[c] = None
        /\ \A d \in Client \ {c} : PriorityOf(inbox)'[d] = PriorityOf(inbox)[d]
    BY <1>1, ReadOne DEF Lease!NewLease
  <2>2. holder' = c /\ holderPriority' = PriorityOf(inbox)[c]
    BY <1>1 DEF Lease!NewLease
  <2>3. Lease!ReadServed
    BY <2>1, <2>2
  <2>4. Lease!LeaseMove
    <3> SUFFICES ASSUME holder \in Client, holder # c,
                        ~Lease!ConsumedOutranking
                 PROVE  ~Lease!InControl(holder) /\ ~(active # None)
      BY <2>2
    <3>1. ~Lease!Outranks(c)
      BY <2>1 DEF Lease!Outranks, Lease!ConsumedOutranking
    <3>2. Lease!LeftNow < 0
      BY <1>1, <3>1 DEF Lease!NewLease, Lease!Vacant
    <3> QED
      BY <3>2 DEF Lease!LeftNow
  <2> QED
    BY <2>3, <2>4
<1>2. ASSUME NEW c \in Client, holder # None, ~Lease!Outranks(c), Lease!Read(c),
             UNCHANGED <<holder, holderPriority>>
      PROVE Lease!LeaseMove /\ Lease!ReadServed
  <2>1. /\ PriorityOf(inbox)[c] \in Int
        /\ PriorityOf(inbox)'[c] = None
        /\ \A d \in Client \ {c} : PriorityOf(inbox)'[d] = PriorityOf(inbox)[d]
    BY <1>2, ReadOne
  <2>2. holderPriority \in Int
    BY <1>2, LeaseAssumption
  <2> QED
    BY <1>2, <2>1, <2>2 DEF Lease!Outranks
<1>3. ASSUME NEW c \in Client, Lease!Renew(c) \/ Lease!Reject(c)
      PROVE Lease!LeaseMove /\ Lease!ReadServed
  BY <1>2, <1>3 DEF Lease!Renew, Lease!Reject, Lease!Vacant
<1>4. ASSUME NEW c \in Client, Lease!Send(c) \/ Lease!Close(c) PROVE Lease!LeaseMove /\ Lease!ReadServed
  BY <1>4 DEF Lease!Send, Lease!Close, Lease!leaseVars
<1>5. ASSUME NEW c \in Client, Lease!Deliver(c) PROVE Lease!LeaseMove /\ Lease!ReadServed
  BY <1>5 DEF Lease!Deliver, Lease!leaseVars
<1>6. CASE Lease!FreeUpControl \/ Lease!RoutineChange \/ Lease!Tick \/ UNCHANGED Lease!vars
  BY <1>6 DEF Lease!FreeUpControl, Lease!RoutineChange, Lease!Tick, Lease!vars, Lease!leaseVars
<1> QED
  BY <1>1, <1>2, <1>3, <1>4, <1>5, <1>6 DEF Lease!Next, Lease!Receive

LEMMA ServedClaims == Spec => [](TypeOK /\ Lease!ClaimsAreLeases)
<1>1. Init => Lease!ClaimsAreLeases
  BY DEF Init, Lease!ClaimsAreLeases, Lease!InControl
<1>2. TypeOK /\ Boxes /\ Lease!ClaimsAreLeases /\ [Next]_vars => Lease!ClaimsAreLeases'
  BY NextRefines, ClaimsStep, Zenon DEF TypeOK
<1> QED
  BY <1>1, <1>2, TypeCorrect, BoxesInvariance, PTL DEF Spec

\* Whatever routines run, requests arrive and exceptions are raised, at most one
\* client is in control of the robot (dispatch_command_messages).
THEOREM OneInControl == Spec => []Lease!MutualExclusion
<1>1. Lease!ClaimsAreLeases => Lease!MutualExclusion
  BY DEF Lease!ClaimsAreLeases, Lease!MutualExclusion
<1> QED
  BY <1>1, ServedClaims, PTL

\* No step of the server, neither a cycle of the control loop nor the beginning
\* or the end of a routine, takes the lease from a client that keeps writing or
\* whose routine runs, other than for a command of strictly higher priority; and a
\* command that was read leaves a holder of at least its priority.
THEOREM ControlKept == Spec => Lease!LeaseKept /\ Lease!NoWeakerHolder
<1>1. TypeOK /\ Boxes /\ Lease!ClaimsAreLeases /\ [Next]_vars
      => [Lease!LeaseMove]_(Lease!vars) /\ [Lease!ReadServed]_(Lease!vars)
  BY NextRefines, LeaseStep, Zenon DEF TypeOK
<1> QED
  BY <1>1, ServedClaims, BoxesInvariance, PTL DEF Spec, Lease!LeaseKept, Lease!NoWeakerHolder
=============================================================================
