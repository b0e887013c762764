----------------------------- MODULE RobotServer -----------------------------
(***************************************************************************)
(* The control loop of RobotServer (robot/robot_server.py) with its        *)
(* RoutineManager, the admin and command sockets and the clients that wait *)
(* for a routine (core/subsystem_client.py).  The lease is CommandLease's. *)
(*                                                                         *)
(* The server is one thread.  It always runs a routine, the no-op one when *)
(* nothing was asked for, and a routine advances the robot by calling      *)
(* cb_routine_update_controller, one control cycle per call:               *)
(*                                                                         *)
(*   runNext -> push -> admin -> command -> body -> push or runNext        *)
(*                                                                         *)
(* Clients, ZMQ and time move between these steps.  What a routine does    *)
(* inside a cycle is in Homing and EndOfArmHoming; here it goes on or      *)
(* finishes.                                                               *)
(***************************************************************************)
EXTENDS Integers, FiniteSets

CONSTANTS Client, Priority, LeaseTimeout, None,
          Routine,   \* the routine names clients ask for
          Enabled,   \* those that are loaded and valid
          Guarded,   \* those whose run() catches exceptions and pauses sentries
          Cmds,      \* the cmd_dicts clients push: sets of the commands below
          Requests,  \* the admin requests clients make
          MaxId,     \* bound: how many routines clients ask for in all
          MaxSent    \* bound: how many commands clients push in all

ASSUME EnabledAssumption == Guarded \subseteq Enabled /\ Enabled \subseteq Routine
ASSUME CmdsAssumption ==
    Cmds \subseteq {{"motion"}, {"run"}, {"motion", "run"}, {"cancel"},
                   {"pause_sentry"}, {"unpause_sentry"}}
ASSUME RequestsAssumption ==
    Requests \subseteq {"ping", "free_up_control", "pause", "kill"}
ASSUME IdAssumption == MaxId \in Nat /\ MaxSent \in Nat
ASSUME NopAssumption == None \notin Routine
ASSUME DefaultAssumption == 0 \in Priority

VARIABLES outbox, inbox, holder, holderPriority, left, claim,  \* CommandLease
          pc,           \* where the server thread is
          active,       \* status['active_routine'], None for routine_nop
          activeId,     \* status['active_routine_id']
          next,         \* next_routine and next_routine_id
          canceled,     \* is_canceled of the active routine
          last,         \* last_routine_id and last_routine_successful
          doExit,       \* do_exit
          owed,         \* client whose admin request was taken and not answered
          request,      \* request[c]: c's outstanding admin request
          queued,       \* client motions waiting for push_command: who sent each, and
                        \* the id of the routine its message asked for as well, or 0
          sentryActive, \* status['active'] of a sentry that routines pause
          published,    \* the routine part of the last status message
          lastRun,      \* number of routine ids handed out (uuid1)
          sent,         \* number of commands pushed
          owner,        \* history: the client whose command started active
          usurped,      \* history: owner was outranked or freed since
          userPaused    \* history: the last command about the sentry paused it

leaseState == <<outbox, inbox, holder, holderPriority, left, claim>>
routineState == <<active, activeId, next, canceled, last, owner, usurped,
                  sentryActive, userPaused>>
clientState == <<request, lastRun, sent>>
serverState == <<routineState, pc, doExit, owed, queued, published>>
vars == <<leaseState, serverState, clientState>>

Id == 1 .. MaxId
QueuedMotion == [from : Client, id : 0 .. MaxId]
NoRoutine == [routine |-> None, id |-> 0, from |-> None]

\* A command message: the commands of its cmd_dict, keyed by subsystem, so
\* that it holds at most one routine command.
Command == [priority : Priority,
            cmds : Cmds,
            routine : Routine \cup {None},
            id : 0 .. MaxId]

ASSUME NoneAssumption ==
    None \notin Client /\ None \notin Int /\ None \notin Command
ASSUME LeaseAssumption == Priority \subseteq Int /\ LeaseTimeout \in Nat

PriorityOf(box) == [c \in Client |-> IF box[c] = None THEN None
                                     ELSE box[c].priority]

Lease == INSTANCE CommandLease WITH outbox <- PriorityOf(outbox),
                                    inbox <- PriorityOf(inbox),
                                    routineActive <- (active # None)

TypeOK == /\ Lease!TypeOK
          /\ \A c \in Client : {outbox[c], inbox[c]} \subseteq Command \cup {None}
          /\ pc \in {"runNext", "push", "admin", "command", "body", "ended"}
          /\ active \in Enabled \cup {None}
          /\ activeId \in 0 .. MaxId
          /\ next \in [routine : Enabled \cup {None}, id : 0 .. MaxId,
                       from : Client \cup {None}]
          /\ canceled \in BOOLEAN
          /\ last \in [id : 0 .. MaxId, ok : BOOLEAN]
          /\ doExit \in BOOLEAN
          /\ owed \in Client \cup {None}
          /\ request \in [Client -> Requests \cup {None}]
          /\ queued \subseteq QueuedMotion
          /\ sentryActive \in BOOLEAN
          /\ published \in [id : 0 .. MaxId, ok : BOOLEAN]
          /\ lastRun \in 0 .. MaxId
          /\ sent \in 0 .. MaxSent
          /\ owner \in Client \cup {None}
          /\ usurped \in BOOLEAN
          /\ userPaused \in BOOLEAN

Init == /\ outbox = [c \in Client |-> None]
        /\ inbox = [c \in Client |-> None]
        /\ holder = None /\ holderPriority = None /\ left = -1
        /\ claim = [c \in Client |-> -1]
        /\ pc = "runNext"
        /\ active = None /\ activeId = 0
        /\ next = NoRoutine
        /\ canceled = FALSE
        /\ last = [id |-> 0, ok |-> FALSE]
        /\ doExit = FALSE
        /\ owed = None
        /\ request = [c \in Client |-> None]
        /\ queued = {}
        /\ sentryActive = TRUE
        /\ published = [id |-> 0, ok |-> FALSE]
        /\ lastRun = 0 /\ sent = 0
        /\ owner = None /\ usurped = FALSE /\ userPaused = FALSE

-----------------------------------------------------------------------------
(* The clients.                                                            *)

Post(c, m) == /\ sent < MaxSent
              /\ sent' = sent + 1
              /\ outbox' = [outbox EXCEPT ![c] = m]
              /\ UNCHANGED <<inbox, holder, holderPriority, left, claim,
                              serverState, request>>

\* A motion, pause_sentry or unpause_sentry command.
SendPlain(c) ==
    /\ \E p \in Priority, k \in {k \in Cmds : k \cap {"run", "cancel"} = {}} :
          Post(c, [priority |-> p, cmds |-> k, routine |-> None, id |-> 0])
    /\ UNCHANGED lastRun

\* RoutinesClient.run, pushing also the motion queued before it, if any.  A
\* client may wait for the routine, and send nothing until it sees the end of
\* it; the model lets it send.
SendRun(c) ==
    /\ lastRun < MaxId
    /\ lastRun' = lastRun + 1
    /\ \E p \in Priority, r \in Routine, k \in {k \in Cmds : "run" \in k} :
          Post(c, [priority |-> p, cmds |-> k, routine |-> r, id |-> lastRun'])

\* cancel_routine, with the id of a routine or none; also what a wait that is
\* interrupted from the keyboard sends before it gives up.
SendCancel(c) ==
    /\ {"cancel"} \in Cmds
    /\ lastRun > 0
    /\ \E i \in 0 .. lastRun :
          Post(c, [priority |-> 0, cmds |-> {"cancel"}, routine |-> None, id |-> i])
    /\ UNCHANGED lastRun

Deliver(c) == /\ outbox[c] # None
              /\ inbox' = [inbox EXCEPT ![c] = outbox[c]]
              /\ outbox' = [outbox EXCEPT ![c] = None]
              /\ UNCHANGED <<holder, holderPriority, left, claim,
                              serverState, clientState>>

AskAdmin(c) == /\ request[c] = None
               /\ \E r \in Requests : request' = [request EXCEPT ![c] = r]
               /\ UNCHANGED <<leaseState, serverState, lastRun, sent>>

Tick == /\ UNCHANGED <<outbox, inbox, serverState, clientState>>
        /\ Lease!Tick

-----------------------------------------------------------------------------
(* The control loop.                                                       *)

\* The end of the loop: the admin request that do_exit stands for was taken.
Exit == /\ pc = "runNext"
        /\ doExit
        /\ pc' = "ended"
        /\ UNCHANGED <<leaseState, routineState, clientState, doExit, owed,
                        queued, published>>

\* _routine_run_next: the requested routine, or the no-op one, begins.  Any
\* routine but the no-op may return without a single control cycle.
RunNext == /\ pc = "runNext"
           /\ ~doExit
           /\ active' = next.routine
           /\ activeId' = next.id
           /\ owner' = next.from
           /\ next' = NoRoutine
           /\ canceled' = FALSE
           /\ usurped' = FALSE
           /\ sentryActive' = (sentryActive /\ active' \notin Guarded)
           /\ pc' \in {"push"} \cup (IF active' = None THEN {} ELSE {"body"})
           /\ UNCHANGED <<leaseState, clientState, last, userPaused,
                           doExit, owed, queued, published>>

\* The first half of a cycle: the runstop is checked, queued commands are
\* pushed to the hardware and the status is published.
Push == /\ pc = "push"
        /\ canceled' \in {canceled} \cup (IF active = None THEN {} ELSE {TRUE})
        /\ queued' = {}
        /\ published' = last
        /\ pc' = "admin"
        /\ UNCHANGED <<leaseState, clientState, active, activeId, next, last,
                        owner, usurped, sentryActive, userPaused,
                        doExit, owed>>

\* Mutant of Record: only a success is recorded.
RecordSuccess(ok) ==
    /\ last' = IF activeId = 0 \/ ~ok THEN last ELSE [id |-> activeId, ok |-> ok]
    /\ sentryActive' = (sentryActive \/ active \in Guarded)

\* What the return value of a routine changes: the no-op's is not recorded.
Record(ok) == /\ last' = IF activeId = 0 THEN last ELSE [id |-> activeId, ok |-> ok]
              /\ sentryActive' = (sentryActive \/ active \in Guarded)

\* Mutant of Raise: the sentries are not restored in a finally clause.
RaiseWithoutFinally ==
    IF active \in Guarded
    THEN /\ canceled' = TRUE
         /\ last' = [id |-> activeId, ok |-> FALSE]
         /\ pc' = "runNext"
         /\ UNCHANGED sentryActive
    ELSE /\ pc' = "ended"
         /\ UNCHANGED <<canceled, last, sentryActive>>

\* An exception of the admin dispatch: a guarded routine turns it into its own
\* failure, in any other the control loop ends.
Raise == IF active \in Guarded
         THEN /\ canceled' = TRUE
              /\ Record(FALSE)
              /\ pc' = "runNext"
         ELSE /\ pc' = "ended"
              /\ UNCHANGED <<canceled, last, sentryActive>>

Ping(c) == /\ request[c] = "ping"
           /\ UNCHANGED <<leaseState, serverState>>

\* Mutant of FreeUpControl: the priority of the freed lease stays.
FreeUpControlKeepsPriority(c) ==
    /\ request[c] = "free_up_control"
    /\ holder' = None
    /\ claim' = [d \in Client |-> IF d = holder THEN -1 ELSE claim[d]]
    /\ usurped' = (usurped \/ active # None)
    /\ UNCHANGED <<outbox, inbox, active, holderPriority, left, activeId, next,
                    canceled, last, owner, sentryActive, userPaused,
                    pc, doExit, owed, queued, published>>

FreeUpControl(c) == /\ request[c] = "free_up_control"
                    /\ UNCHANGED <<outbox, inbox, active>>
                    /\ Lease!FreeUpControl
                    /\ usurped' = (usurped \/ active # None)
                    /\ UNCHANGED <<activeId, next, canceled, last, owner,
                                    sentryActive, userPaused, pc, doExit, owed,
                                    queued, published>>

\* A request that is answered; the loop takes the next one.
Answer(c) == /\ pc = "admin"
             /\ owed = None
             /\ Ping(c) \/ FreeUpControl(c)
             /\ request' = [request EXCEPT ![c] = None]
             /\ UNCHANGED <<lastRun, sent>>

\* pause looks up an attribute that RobotServer lacks, kill closes the socket
\* its answer must go to: both raise after the request was taken.
Fail(c) == /\ pc = "admin"
           /\ owed = None
           /\ request[c] \in {"pause", "kill"}
           /\ doExit' = (request[c] = "kill")
           /\ owed' = c
           /\ Raise
           /\ UNCHANGED <<leaseState, clientState, active, activeId, next, owner,
                           usurped, userPaused, queued, published>>

\* A REP socket that owes an answer cannot receive: recv raises.
Stuck == /\ pc = "admin"
         /\ owed # None
         /\ Raise
         /\ UNCHANGED <<leaseState, clientState, active, activeId, next, owner,
                         usurped, userPaused, doExit, owed, queued, published>>

NoRequest == /\ pc = "admin"
             /\ owed = None
             /\ \A c \in Client : request[c] = None
             /\ pc' = "command"
             /\ UNCHANGED <<leaseState, routineState, clientState, doExit, owed,
                             queued, published>>

-----------------------------------------------------------------------------
(* _cb_command_dispatch, for the commands of one accepted message m of c.  *)

\* Mutant of SetNext: the name of the routine is not checked.
SetNextUnchecked(c, m) ==
    next' = IF "run" \notin m.cmds THEN next
            ELSE IF active # None THEN NoRoutine
            ELSE [routine |-> m.routine, id |-> m.id, from |-> c]

\* _routine_set_next: refused while a routine runs, dropped if not enabled.
SetNext(c, m) ==
    next' = IF "run" \notin m.cmds THEN next
            ELSE IF active # None THEN NoRoutine
            ELSE IF m.routine \in Enabled
                 THEN [routine |-> m.routine, id |-> m.id, from |-> c]
                 ELSE next

\* RoutineManager.cancel; there is no upcoming routine to cancel here, since
\* a routine begins right after the command that asked for it.
CancelActive(m) ==
    canceled' = (canceled \/ /\ "cancel" \in m.cmds
                             /\ active # None
                             /\ m.id \in {0, activeId})

\* Mutant of Perform: the owner of a routine may move the robot while it runs.
PerformForOwner(c, m) ==
    /\ queued' = IF (active = None \/ c = owner) /\ "motion" \in m.cmds
                 THEN queued \cup {[from |-> c, id |-> m.id]} ELSE queued
    /\ UNCHANGED <<sentryActive, userPaused>>

\* The commands that are refused while a routine runs.
Perform(c, m) ==
    /\ queued' = IF active = None /\ "motion" \in m.cmds
                 THEN queued \cup {[from |-> c, id |-> m.id]} ELSE queued
    /\ sentryActive' = IF active # None THEN sentryActive
                       ELSE (sentryActive /\ "pause_sentry" \notin m.cmds)
                            \/ "unpause_sentry" \in m.cmds
    /\ userPaused' = IF active # None THEN userPaused
                     ELSE (userPaused \/ "pause_sentry" \in m.cmds)
                          /\ "unpause_sentry" \notin m.cmds

\* Mutant of Accepted: the commands are dispatched whoever holds the lease.
AcceptedAlways(c) == TRUE

Accepted(c) == Lease!Vacant(c) \/ holder = c

\* Outside a routine the handler of a motion may raise: only AttributeError is
\* caught, so that the loop ends.
MayRaise(c) == Accepted(c) /\ active = None /\ "motion" \in inbox[c].cmds

Dispatch(c) ==
    /\ pc = "command"
    /\ inbox[c] # None
    /\ inbox' = [inbox EXCEPT ![c] = None]
    /\ UNCHANGED <<outbox, active>>
    /\ Lease!Receive(c)
    /\ IF Accepted(c)
       THEN SetNext(c, inbox[c]) /\ CancelActive(inbox[c]) /\ Perform(c, inbox[c])
       ELSE UNCHANGED <<next, canceled, queued, sentryActive, userPaused>>
    /\ usurped' = (usurped \/ (active # None /\ c # holder /\ Lease!Outranks(c)))
    /\ pc' \in {"body"} \cup (IF MayRaise(c) THEN {"ended"} ELSE {})
    /\ UNCHANGED <<clientState, activeId, last, owner, doExit, owed,
                    published>>

NoCommand == /\ pc = "command"
             /\ \A c \in Client : inbox[c] = None
             /\ pc' = "body"
             /\ UNCHANGED <<leaseState, routineState, clientState, doExit, owed,
                             queued, published>>

\* The active routine goes on with another cycle, or returns.
Continue == /\ pc = "body"
            /\ active # None
            /\ pc' = "push"
            /\ UNCHANGED <<leaseState, routineState, clientState, doExit, owed,
                            queued, published>>

Finish == /\ pc = "body"
          /\ \E ok \in BOOLEAN : Record(ok)
          /\ pc' = "runNext"
          /\ UNCHANGED <<leaseState, clientState, active, activeId, next, canceled,
                          owner, usurped, userPaused, doExit, owed, queued,
                          published>>

ControlLoop == \/ Exit \/ RunNext \/ Push \/ Stuck \/ NoRequest \/ NoCommand
               \/ Continue \/ Finish
               \/ \E c \in Client : Answer(c) \/ Fail(c) \/ Dispatch(c)

Next == \/ ControlLoop
        \/ Tick
        \/ \E c \in Client : \/ SendPlain(c) \/ SendRun(c) \/ SendCancel(c)
                            \/ Deliver(c) \/ AskAdmin(c)

(***************************************************************************)
(* Fairness: the server thread never stops by itself; every wait of a      *)
(* routine has a timeout, so that no routine goes on for ever; and the     *)
(* admin loop, which ends when the socket is empty, finds it empty in time,*)
(* because a REQ client cannot ask again before it has read the answer.    *)
(***************************************************************************)
Fairness == WF_vars(ControlLoop) /\ SF_vars(Finish) /\ SF_vars(NoRequest)

Spec == Init /\ [][Next]_vars /\ Fairness

-----------------------------------------------------------------------------
(* Properties.                                                             *)

\* The server arbitrates control as CommandLease says, whatever routines run.
LeaseRefined == Lease!Init /\ [][Lease!Next]_Lease!vars

\* A routine's owner keeps control: while a routine runs, the client that asked
\* for it holds the lease, however long it is silent, unless it was outranked
\* or control was freed (is_routine_active in dispatch_command_messages).
OwnerHolds == active # None => holder = owner \/ usurped

\* While a routine runs no client command is pushed to the hardware, its
\* owner's own ones included, except what came in the very message that asked for
\* the routine (is_routine_active in _cb_command_dispatch).
RoutineExcludesCommands ==
    active # None => queued \subseteq {[from |-> owner, id |-> activeId]}

CancelMove ==
    \A c \in Client : /\ inbox[c] # None
                      /\ inbox'[c] = None
                      /\ canceled' /\ ~canceled
        => c = owner \/ usurped'

\* A client's command cancels only its own routine, or one it has usurped the
\* lease from (RoutineManager.cancel reached through the lease).
CancelByOwner == [][CancelMove]_vars

\* Sentries paused for a routine run again once it is over, however it ended,
\* unless the user had paused them (unpause_behaviors in finally).
SentriesRestored == (active = None \/ pc = "runNext") /\ ~userPaused => sentryActive

AsksFor(c, i) == \E m \in {outbox[c], inbox[c]} :
    m # None /\ "run" \in m.cmds /\ m.id = i

\* A routine whose end is published is over: it neither runs nor will begin,
\* though its command may have crossed others (_wait_on_routine).
ReportedIsOver == published.id # 0 => /\ published.id \notin {activeId, next.id}
                                      /\ \A c \in Client : ~AsksFor(c, published.id)

KeptMove == next.routine # None /\ next' # next =>
    /\ active' = next.routine /\ activeId' = next.id /\ owner' = next.from

\* A routine that was accepted is the one that begins: no other command takes
\* its place, is run under its id or cancels it before (_routine_set_next).
KeptUntilBegun == [][KeptMove]_vars

\* A routine that was accepted is run and its end published, never before it is
\* over, and a kill ends the control loop (_routine_run_next, run_controller).
AcceptedRoutineReported ==
    /\ \A i \in Id : next.id = i ~> published.id = i \/ pc = "ended"
    /\ doExit ~> pc = "ended"
    /\ KeptUntilBegun
    /\ []ReportedIsOver
=============================================================================
