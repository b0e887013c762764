------------------------ MODULE CommandLease_proofs ------------------------
(***************************************************************************)
(* The command lease excludes, for every set of clients, every set of      *)
(* priorities and every timeout.                                           *)
(*                                                                         *)
(* MutualExclusion is not inductive: nothing in it ties a claim to the     *)
(* server's variables.  ClaimsAreLeases does, and is inductive with the    *)
(* type invariant; mutual exclusion follows from it in every state.        *)
(***************************************************************************)
EXTENDS CommandLease, TLAPS

USE PriorityAssumption, TimeoutAssumption, NoneAssumption

\* Waiting one tick keeps a remaining time within its range.
LEMMA ElapseInRange == \A t \in Remaining : Elapse(t) \in Remaining
  BY DEF Elapse, Remaining

\* The state variables keep their types.
THEOREM TypeCorrect == Spec => []TypeOK
<1>1. Init => TypeOK
  <2>1. -1 \in Remaining
    BY DEF Remaining
  <2> QED
    BY <2>1, Zenon DEF Init, TypeOK, Slot
<1>2. TypeOK /\ [Next]_vars => TypeOK'
  <2> SUFFICES ASSUME TypeOK, [Next]_vars PROVE TypeOK'
    OBVIOUS
  <2> USE DEF TypeOK
  <2>1. ASSUME NEW c \in Client, Send(c) PROVE TypeOK'
    BY <2>1 DEF Send, Slot, leaseVars
  <2>2. ASSUME NEW c \in Client, Deliver(c) PROVE TypeOK'
    BY <2>2 DEF Deliver, Slot, leaseVars
  <2>3. ASSUME NEW c \in Client, Close(c) PROVE TypeOK'
    BY <2>3 DEF Close, Slot, leaseVars
  <2>4. ASSUME NEW c \in Client, NewLease(c) PROVE TypeOK'
    BY <2>4 DEF NewLease, Read, Slot, Remaining
  <2>5. ASSUME NEW c \in Client, Renew(c) PROVE TypeOK'
    BY <2>5 DEF Renew, Read, Slot, Remaining
  <2>6. ASSUME NEW c \in Client, Reject(c) PROVE TypeOK'
    BY <2>6 DEF Reject, Read, LeftNow, Slot, Remaining
  <2>7. CASE FreeUpControl
    BY <2>7 DEF FreeUpControl, Slot, Remaining
  <2>8. CASE RoutineChange
    BY <2>8 DEF RoutineChange, leaseVars
  <2>9. CASE Tick
    BY <2>9, ElapseInRange DEF Tick
  <2>10. CASE UNCHANGED vars
    BY <2>10 DEF vars
  <2> QED
    BY <2>1, <2>2, <2>3, <2>4, <2>5, <2>6, <2>7, <2>8, <2>9, <2>10
       DEF Next, Receive
<1> QED
  BY <1>1, <1>2, PTL DEF Spec

\* A step keeps every claim covered by the lease.
LEMMA ClaimsStep ==
  ASSUME TypeOK, ClaimsAreLeases, [Next]_vars
  PROVE  ClaimsAreLeases'
<1> USE DEF TypeOK, ClaimsAreLeases, InControl, Remaining, Slot
<1>1. ASSUME NEW c \in Client, Send(c) \/ Deliver(c) \/ Close(c)
      PROVE ClaimsAreLeases'
  BY <1>1 DEF Send, Deliver, Close, leaseVars
<1>2. ASSUME NEW c \in Client, NewLease(c) PROVE ClaimsAreLeases'
  <2>1. ASSUME NEW d \in Client, claim'[d] >= 0
        PROVE holder' = d /\ claim'[d] <= left'
    <3>1. CASE d = c
      BY <1>2, <3>1 DEF NewLease
    <3>2. CASE d # c
      \* d would still be in control: it holds an unexpired lease, so c can
      \* only have outranked it, and that ends its claim.
      <4>1. claim'[d] = IF d = holder /\ Outranks(c) THEN -1 ELSE claim[d]
        BY <1>2, <3>2 DEF NewLease
      <4>2. claim[d] >= 0 /\ holder = d /\ left >= 0
        BY <2>1, <4>1
      <4>3. ~(LeftNow < 0)
        BY <4>2 DEF LeftNow
      <4>4. Outranks(c)
        BY <1>2, <4>2, <4>3 DEF NewLease, Vacant
      <4> QED
        BY <2>1, <4>1, <4>2, <4>4
    <3> QED
      BY <3>1, <3>2
  <2>2. holder' # None /\ holderPriority' # None
    BY <1>2 DEF NewLease, Read
  <2> QED
    BY <2>1, <2>2
<1>3. ASSUME NEW c \in Client, Renew(c) PROVE ClaimsAreLeases'
  BY <1>3 DEF Renew
<1>4. ASSUME NEW c \in Client, Reject(c) PROVE ClaimsAreLeases'
  BY <1>4 DEF Reject, LeftNow
<1>5. CASE FreeUpControl
  BY <1>5 DEF FreeUpControl
<1>6. CASE RoutineChange
  BY <1>6 DEF RoutineChange, leaseVars
<1>7. CASE Tick
  BY <1>7 DEF Tick, Elapse
<1>8. CASE UNCHANGED vars
  BY <1>8 DEF vars
<1> QED
  BY <1>1, <1>2, <1>3, <1>4, <1>5, <1>6, <1>7, <1>8 DEF Next, Receive

\* A client in control holds the lease, which lasts at least as long as its
\* claim; a lease has a priority exactly when it has a holder.
THEOREM ClaimsHeld == Spec => []ClaimsAreLeases
<1>1. Init => ClaimsAreLeases
  BY DEF Init, ClaimsAreLeases, InControl
<1>2. TypeOK /\ ClaimsAreLeases /\ [Next]_vars => ClaimsAreLeases'
  BY ClaimsStep
<1> QED
  BY <1>1, <1>2, TypeCorrect, PTL DEF Spec

\* At most one client is in control.
THEOREM Exclusion == Spec => []MutualExclusion
<1>1. ClaimsAreLeases => MutualExclusion
  BY DEF ClaimsAreLeases, MutualExclusion
<1> QED
  BY <1>1, ClaimsHeld, PTL

\* Reading a command empties one slot, which held a priority, and no other.
LEMMA ReadOne ==
  ASSUME TypeOK, NEW c \in Client, Read(c)
  PROVE  /\ inbox[c] \in Int
         /\ inbox'[c] = None
         /\ \A d \in Client \ {c} : inbox'[d] = inbox[d]
         /\ routineActive' = routineActive
  BY DEF TypeOK, Slot, Read

\* Whichever step is taken, the lease moves only as LeaseMove allows, and a
\* command that is read leaves a holder of at least its priority.
LEMMA LeaseStep ==
  ASSUME TypeOK, ClaimsAreLeases, [Next]_vars
  PROVE  LeaseMove /\ ReadServed
<1> USE DEF TypeOK, ClaimsAreLeases, InControl, Remaining, Slot,
            LeaseMove, ReadServed
<1>1. ASSUME NEW c \in Client, NewLease(c) PROVE LeaseMove /\ ReadServed
  <2>1. /\ inbox[c] \in Int
        /\ inbox'[c] = None
        /\ \A d \in Client \ {c} : inbox'[d] = inbox[d]
    BY <1>1, ReadOne DEF NewLease
  <2>2. holder' = c /\ holderPriority' = inbox[c]
    BY <1>1 DEF NewLease
  <2>3. ReadServed
    BY <2>1, <2>2
  <2>4. LeaseMove
    <3> SUFFICES ASSUME holder \in Client, holder # c,
                        ~ConsumedOutranking
                 PROVE  ~InControl(holder) /\ ~routineActive
      BY <2>2
    <3>1. ~Outranks(c)
      BY <2>1 DEF Outranks, ConsumedOutranking
    <3>2. LeftNow < 0
      BY <1>1, <3>1 DEF NewLease, Vacant
    <3> QED
      BY <3>2 DEF LeftNow
  <2> QED
    BY <2>3, <2>4
<1>2. ASSUME NEW c \in Client, holder # None, ~Outranks(c), Read(c),
             UNCHANGED <<holder, holderPriority>>
      PROVE LeaseMove /\ ReadServed
  <2>1. /\ inbox[c] \in Int
        /\ inbox'[c] = None
        /\ \A d \in Client \ {c} : inbox'[d] = inbox[d]
    BY <1>2, ReadOne
  <2>2. holderPriority \in Int
    BY <1>2
  <2> QED
    BY <1>2, <2>1, <2>2 DEF Outranks
<1>3. ASSUME NEW c \in Client, Renew(c) \/ Reject(c)
      PROVE LeaseMove /\ ReadServed
  BY <1>2, <1>3 DEF Renew, Reject, Vacant
<1>4. ASSUME NEW c \in Client, Send(c) \/ Close(c) PROVE LeaseMove /\ ReadServed
  BY <1>4 DEF Send, Close, leaseVars
<1>5. ASSUME NEW c \in Client, Deliver(c) PROVE LeaseMove /\ ReadServed
  BY <1>5 DEF Deliver, leaseVars
<1>6. CASE FreeUpControl \/ RoutineChange \/ Tick \/ UNCHANGED vars
  BY <1>6 DEF FreeUpControl, RoutineChange, Tick, vars, leaseVars
<1> QED
  BY <1>1, <1>2, <1>3, <1>4, <1>5, <1>6 DEF Next, Receive

\* A holder that keeps writing, or whose routine runs, loses the lease only to
\* a command of strictly higher priority.
THEOREM Kept == Spec => LeaseKept
<1>1. TypeOK /\ ClaimsAreLeases /\ [Next]_vars => [LeaseMove]_vars
  BY LeaseStep
<1> QED
  BY <1>1, TypeCorrect, ClaimsHeld, PTL DEF Spec, LeaseKept

\* After a command has been considered nobody weaker than it holds the lease.
THEOREM Served == Spec => NoWeakerHolder
<1>1. TypeOK /\ ClaimsAreLeases /\ [Next]_vars => [ReadServed]_vars
  BY LeaseStep
<1> QED
  BY <1>1, TypeCorrect, ClaimsHeld, PTL DEF Spec, NoWeakerHolder
=============================================================================
