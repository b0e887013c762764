---------------------------- MODULE CommandLease ----------------------------
(***************************************************************************)
(* Who controls the robot: the lease of StretchBodyServer                  *)
(* (stretch4_body/core/client_server.py).                                  *)
(*                                                                         *)
(* Every client publishes commands on a ZMQ PUB socket, the server reads   *)
(* them, one per control cycle, from a SUB socket.  Both sockets are       *)
(* CONFLATEd, so each client has one slot on its own side (outbox) and one *)
(* on the server's (inbox), and a newer command replaces an unread one.    *)
(* The lease decides whether a command that has been read is dispatched:   *)
(* it belongs to one client until a command of strictly higher priority    *)
(* arrives, until nothing has renewed it for LEASE_TIMEOUT, or until it is *)
(* freed through the admin socket.                                         *)
(*                                                                         *)
(* Time.  The code compares time.monotonic() with lease_expiry.  Only the  *)
(* difference matters, so the model keeps left = lease_expiry - now in     *)
(* ticks, and stops counting once it is negative: the clock needs no bound.*)
(* A command is its priority: its content plays no part in the lease.      *)
(***************************************************************************)
EXTENDS Integers

CONSTANTS Client,        \* the client ids
          Priority,      \* the priorities clients push with
          LeaseTimeout,  \* LEASE_TIMEOUT, in ticks
          None           \* Python's None: no holder, no priority, empty slot

ASSUME PriorityAssumption == Priority \subseteq Int
ASSUME TimeoutAssumption == LeaseTimeout \in Nat
ASSUME NoneAssumption == None \notin Client /\ None \notin Int

VARIABLES outbox,          \* outbox[c]: the unsent command of c's PUB socket
          inbox,           \* inbox[c]: c's unread command at the SUB socket
          holder,          \* lease_holder_id
          holderPriority,  \* lease_holder_priority
          left,            \* lease_expiry - now, or -1 once that is negative
          routineActive,   \* the is_routine_active argument of the dispatch
          claim            \* history: claim[c] is what is left of the timeout
                           \* since c's last dispatched command, -1 if c has
                           \* none or has been outranked or freed since

leaseVars == <<holder, holderPriority, left>>
vars == <<outbox, inbox, holder, holderPriority, left, routineActive, claim>>

Slot == Priority \cup {None}
Remaining == -1 .. LeaseTimeout

TypeOK == /\ outbox \in [Client -> Slot]
          /\ inbox \in [Client -> Slot]
          /\ holder \in Client \cup {None}
          /\ holderPriority \in Slot
          /\ left \in Remaining
          /\ routineActive \in BOOLEAN
          /\ claim \in [Client -> Remaining]

Init == /\ outbox = [c \in Client |-> None]
        /\ inbox = [c \in Client |-> None]
        /\ holder = None
        /\ holderPriority = None
        /\ left = -1
        /\ routineActive = FALSE
        /\ claim = [c \in Client |-> -1]

-----------------------------------------------------------------------------
(* The clients and the two conflated sockets.                              *)

\* A client pushes a command: it replaces whatever its socket has not sent.
Send(c) == /\ \E p \in Priority : outbox' = [outbox EXCEPT ![c] = p]
           /\ UNCHANGED <<inbox, leaseVars, routineActive, claim>>

\* ZMQ carries the command over: it replaces whatever the server has not read.
Deliver(c) == /\ outbox[c] # None
              /\ inbox' = [inbox EXCEPT ![c] = outbox[c]]
              /\ outbox' = [outbox EXCEPT ![c] = None]
              /\ UNCHANGED <<leaseVars, routineActive, claim>>

\* The client closes its socket with linger=0: the unsent command is lost.
Close(c) == /\ outbox[c] # None
            /\ outbox' = [outbox EXCEPT ![c] = None]
            /\ UNCHANGED <<inbox, leaseVars, routineActive, claim>>

-----------------------------------------------------------------------------
(* The server reads one command and decides.  The three outcomes share the *)
(* steps the code takes first: a running routine extends the lease whoever *)
(* sent the command, then rank is checked, then expiry.                    *)

\* Mutants of LeftNow: a running routine adds to the lease; it is not looked at.
LeftNowAdds == IF routineActive THEN left + LeaseTimeout ELSE left

LeftNowNoRoutine == left

LeftNow == IF routineActive THEN LeaseTimeout ELSE left

\* Mutant of Outranks: a tie outranks.
OutranksTies(c) == holderPriority # None /\ inbox[c] >= holderPriority

Outranks(c) == holderPriority # None /\ inbox[c] > holderPriority

\* Mutant of Vacant: the lease expires one tick early.
VacantEarly(c) == holder = None \/ Outranks(c) \/ LeftNow <= 0

\* The lease is, or becomes while c's command is checked, free for c.
Vacant(c) == holder = None \/ Outranks(c) \/ LeftNow < 0

Read(c) == /\ inbox[c] # None
           /\ inbox' = [inbox EXCEPT ![c] = None]
           /\ UNCHANGED <<outbox, routineActive>>

NewLease(c) ==
    /\ Read(c)
    /\ Vacant(c)
    /\ holder' = c
    /\ holderPriority' = inbox[c]
    /\ left' = LeaseTimeout
    /\ claim' = [d \in Client |-> IF d = c THEN LeaseTimeout
                                  ELSE IF d = holder /\ Outranks(c) THEN -1
                                  ELSE claim[d]]

Renew(c) ==
    /\ Read(c)
    /\ ~Vacant(c)
    /\ c = holder
    /\ left' = LeaseTimeout
    /\ claim' = [claim EXCEPT ![c] = LeaseTimeout]
    /\ UNCHANGED <<holder, holderPriority>>

\* Mutant of Reject: a rejected command extends the lease.
RejectExtends(c) ==
    /\ Read(c)
    /\ ~Vacant(c)
    /\ c # holder
    /\ left' = LeaseTimeout
    /\ UNCHANGED <<holder, holderPriority, claim>>

Reject(c) ==
    /\ Read(c)
    /\ ~Vacant(c)
    /\ c # holder
    /\ left' = LeftNow
    /\ UNCHANGED <<holder, holderPriority, claim>>

Receive(c) == NewLease(c) \/ Renew(c) \/ Reject(c)

\* Admin message "free_up_control": lease_expiry is left as it was.
FreeUpControl ==
    /\ holder' = None
    /\ holderPriority' = None
    /\ claim' = [c \in Client |-> IF c = holder THEN -1 ELSE claim[c]]
    /\ UNCHANGED <<outbox, inbox, left, routineActive>>

\* The control loop starts or finishes a routine.
RoutineChange == /\ routineActive' = ~routineActive
                 /\ UNCHANGED <<outbox, inbox, leaseVars, claim>>

Elapse(t) == IF t < 0 THEN t ELSE t - 1

Tick == /\ left' = Elapse(left)
        /\ claim' = [c \in Client |-> Elapse(claim[c])]
        /\ UNCHANGED <<outbox, inbox, holder, holderPriority, routineActive>>

Next == \/ \E c \in Client : Send(c) \/ Deliver(c) \/ Close(c) \/ Receive(c)
        \/ FreeUpControl
        \/ RoutineChange
        \/ Tick

(***************************************************************************)
(* Fairness: time passes, ZMQ moves what has been sent, and the server     *)
(* reads its SUB socket in every cycle, which serves the clients in turn.  *)
(***************************************************************************)
Fairness == /\ WF_vars(Tick)
            /\ \A c \in Client : WF_vars(Deliver(c)) /\ WF_vars(Receive(c))

Spec == Init /\ [][Next]_vars /\ Fairness

-----------------------------------------------------------------------------
(* Properties.                                                             *)

InControl(c) == claim[c] >= 0

\* No two clients are in control at once: of the clients whose last dispatched
\* command is at most LEASE_TIMEOUT old and who have been neither outranked nor
\* freed since, there is at most one (dispatch_command_messages).
MutualExclusion == \A c, d \in Client : InControl(c) /\ InControl(d) => c = d

\* What makes it inductive: a client in control holds the lease, and the lease
\* lasts at least as long as its claim; a lease has a priority and conversely.
ClaimsAreLeases ==
    /\ \A c \in Client : InControl(c) => holder = c /\ claim[c] <= left
    /\ holder = None <=> holderPriority = None

ConsumedOutranking == \E d \in Client : /\ inbox[d] # None
                                        /\ inbox'[d] = None
                                        /\ holderPriority # None
                                        /\ inbox[d] > holderPriority

LeaseMove == \A c, d \in Client :
    holder = c /\ holder' = d /\ c # d
        => ConsumedOutranking \/ (~InControl(c) /\ ~routineActive)

\* "Writers at >=1hz keep control" (LEASE_TIMEOUT): the holder loses the lease
\* to another client only by a command of strictly higher priority, or when its
\* last dispatched command is older than the timeout and no routine is running.
LeaseKept == [][LeaseMove]_vars

ReadServed == \A c \in Client :
    inbox[c] # None /\ inbox'[c] = None
        => holderPriority' # None /\ holderPriority' >= inbox[c]

\* The lease never ends with a command served to a weaker client: after a
\* command has been considered, the holder's priority is at least its priority.
NoWeakerHolder == [][ReadServed]_vars

\* Control is not lost for good: when every other client falls silent, no
\* routine runs any more and client c keeps commanding, c gets the lease again
\* and again, whatever priority and lease the others left behind.
TakeoverAfterSilence ==
    \A c \in Client :
        (/\ \A d \in Client \ {c} : <>[][~Send(d)]_vars
         /\ <>[]~routineActive
         /\ []<><<Deliver(c)>>_vars)
        => []<>(holder = c)
=============================================================================
