------------------------- MODULE TransportQueue_proofs -------------------------
(***************************************************************************)
(* TransportQueue implements RpcDelivery, for every size of the ring and   *)
(* of the acknowledgement queue.  The inductive invariant says what is in  *)
(* each of the places an RPC passes through: the numbers in transmit_q are *)
(* consecutive, an acknowledgement and a slot tell the truth, and a        *)
(* callback that has been called is no longer in py_callbacks.             *)
(***************************************************************************)
EXTENDS TransportQueue, TLAPS

Order == /\ \A k \in 1 .. Len(transmit) : transmit[k] = rpcId - Len(transmit) + k
         /\ Len(transmit) <= rpcId
         /\ busy # 0 => busy = rpcId - Len(transmit)

AcksTrue == \A k \in 1 .. Len(ackQ) :
                /\ ackQ[k].rpc \in Rpc
                /\ ackQ[k].ok => ackQ[k].rpc \in acked

SlotsTrue == \A i \in Place :
                slot[i].state = "ok" => /\ slot[i].reply = slot[i].rpc
                                        /\ slot[i].rpc \in acked

CallsOnce == /\ callbacks \subseteq 1 .. rpcId
             /\ \A k \in 1 .. Len(log) : /\ log[k].cb \in 1 .. rpcId
                                         /\ log[k].cb \notin callbacks

Waiting == /\ pc = "blocking" => rpcId # 0
           /\ pc = "loading" => pending # <<>>

IInv == TypeOK /\ Order /\ AcksTrue /\ SlotsTrue /\ CallsOnce /\ Waiting

-----------------------------------------------------------------------------
(* Facts about the parts of an action.                                     *)

LEMMA PlaceInRange == ASSUME NEW r \in Rpc PROVE PlaceOf(r) \in Place
BY SlotsAssumption DEF PlaceOf, Place, Rpc

\* Emptying ack_q leaves slots that tell the truth.
LEMMA TakenTrue ==
    ASSUME IInv
    PROVE  /\ Taken \in [Place -> SlotType]
           /\ \A i \in Place : Taken[i].state = "ok" =>
                    Taken[i].reply = Taken[i].rpc /\ Taken[i].rpc \in acked
<1> USE DEF IInv, TypeOK
<1>1. ASSUME NEW i \in Place
      PROVE  /\ Taken[i] \in SlotType
             /\ Taken[i].state = "ok" =>
                    Taken[i].reply = Taken[i].rpc /\ Taken[i].rpc \in acked
  <2> DEFINE found == {k \in DOMAIN ackQ : Matches(ackQ[k], i)}
             a == ackQ[CHOOSE k \in found : TRUE]
  <2>1. Taken[i] = IF found = {} THEN slot[i]
                   ELSE IF a.ok THEN [slot[i] EXCEPT !.state = "ok", !.reply = a.rpc]
                   ELSE [slot[i] EXCEPT !.state = "fail"]
    BY <1>1 DEF Taken
  <2>2. slot[i] \in SlotType
    BY <1>1
  <2>3. CASE found = {}
    BY <2>1, <2>2, <2>3, <1>1 DEF SlotsTrue
  <2>4. CASE found # {}
    <3>1. PICK k \in 1 .. Len(ackQ) : a = ackQ[k] /\ Matches(ackQ[k], i)
      <4>1. (CHOOSE k \in found : TRUE) \in found
        BY <2>4
      <4>2. DOMAIN ackQ = 1 .. Len(ackQ)
        OBVIOUS
      <4> QED BY <4>1, <4>2
    <3>2. a \in Ack /\ a.rpc \in Rpc /\ (a.ok => a.rpc \in acked)
      BY <3>1 DEF AcksTrue
    <3>3. slot[i].rpc = a.rpc
      BY <3>1 DEF Matches
    <3>4. CASE a.ok
      <4>1. Taken[i] = [slot[i] EXCEPT !.state = "ok", !.reply = a.rpc]
        BY <2>1, <2>4, <3>4
      <4>2. a.rpc \in Nat
        BY <3>2 DEF Rpc
      <4>3. /\ Taken[i] \in SlotType
            /\ Taken[i].reply = a.rpc
            /\ Taken[i].rpc = slot[i].rpc
        BY <4>1, <4>2, <2>2 DEF SlotType
      <4> QED BY <4>3, <3>2, <3>3, <3>4
    <3>5. CASE ~a.ok
      <4>1. Taken[i] = [slot[i] EXCEPT !.state = "fail"]
        BY <2>1, <2>4, <3>5
      <4> QED BY <4>1, <2>2 DEF SlotType
    <3> QED BY <3>4, <3>5
  <2> HIDE DEF found, a
  <2> QED BY <2>3, <2>4
<1>2. Taken = [i \in Place |-> Taken[i]]
  BY DEF Taken
<1> QED BY <1>1, <1>2

LEMMA EmptyAckQ ==
    ASSUME ackQ' = <<>> PROVE ackQ' \in Seq(Ack) /\ Len(ackQ') <= AckCap
BY AckCapAssumption

\* Issuing an RPC.
LEMMA QueueKeeps ==
    ASSUME IInv, Queue
    PROVE  /\ rpcId' \in Rpc
           /\ rpcId' = rpcId + 1
           /\ slot' \in [Place -> SlotType]
           /\ callbacks' \subseteq Rpc
           /\ transmit' \in Seq(Rpc)
           /\ ackQ' = <<>>
           /\ Order' /\ SlotsTrue' /\ CallsOnce'
           /\ UNCHANGED <<log, verdict, busy, running, acked>>
<1> USE DEF IInv, TypeOK
<1>1. /\ rpcId' = rpcId + 1
      /\ rpcId' \in Rpc
      /\ rpcId \in Nat
      /\ UNCHANGED <<log, verdict, busy, running, acked>>
      /\ ackQ' = <<>>
      /\ transmit' = Append(transmit, rpcId')
      /\ callbacks' = callbacks \cup {rpcId'}
  BY MaxRpcAssumption DEF Queue, Rpc, thread
<1>2. slot' = [Taken EXCEPT ![PlaceOf(rpcId')] =
                    [@ EXCEPT !.rpc = rpcId', !.state = "open"]]
  BY DEF Queue
<1>3. /\ transmit' \in Seq(Rpc)
      /\ Len(transmit') = Len(transmit) + 1
      /\ \A k \in 1 .. Len(transmit) : transmit'[k] = transmit[k]
      /\ transmit'[Len(transmit) + 1] = rpcId'
  BY <1>1
<1>4. Order'
  <2> DEFINE n == Len(transmit)
  <2>1. n \in Nat /\ Len(transmit') = n + 1 /\ n <= rpcId
    BY <1>3 DEF Order
  <2>2. busy' # 0 => busy' = rpcId' - Len(transmit')
    <3>1. busy # 0 => busy = rpcId - n
      BY DEF Order
    <3>2. rpcId' - Len(transmit') = rpcId - n
      BY <1>1, <2>1
    <3> HIDE DEF IInv, TypeOK, n
    <3> QED BY <3>1, <3>2, <1>1
  <2>3. \A k \in 1 .. n : transmit'[k] = rpcId - n + k
    BY <1>3 DEF Order
  <2>4. ASSUME NEW k \in 1 .. n + 1
        PROVE  transmit'[k] = (rpcId + 1) - (n + 1) + k
    <3> HIDE DEF IInv, TypeOK, n
    <3>1. CASE k \in 1 .. n
      BY <3>1, <2>1, <2>3, <1>1
    <3>2. CASE k = n + 1
      BY <3>2, <2>1, <1>1, <1>3 DEF n
    <3> QED BY <3>1, <3>2, <2>1, <2>4
  <2>5. Len(transmit') <= rpcId'
    BY <1>1, <2>1
  <2> QED BY <2>1, <2>2, <2>4, <2>5, <1>1 DEF Order
<1>5. slot' \in [Place -> SlotType] /\ SlotsTrue'
  <2> DEFINE p == PlaceOf(rpcId')
  <2>1. p \in Place
    BY <1>1, PlaceInRange
  <2>2. Taken \in [Place -> SlotType]
    BY TakenTrue
  <2>3. /\ slot'[p] \in SlotType
        /\ slot'[p].state = "open"
    <3>1. slot'[p] = [Taken[p] EXCEPT !.rpc = rpcId', !.state = "open"]
      BY <1>2, <2>1, <2>2
    <3>2. rpcId' \in Nat /\ Taken[p] \in SlotType
      BY <1>1, <2>1, <2>2 DEF Rpc
    <3> QED BY <3>1, <3>2 DEF SlotType
  <2>4. \A i \in Place \ {p} : slot'[i] = Taken[i]
    BY <1>2, <2>2
  <2>5. slot' \in [Place -> SlotType]
    <3>1. \A i \in Place : slot'[i] \in SlotType
      BY <2>2, <2>3, <2>4
    <3>2. slot' = [i \in Place |-> slot'[i]]
      BY <1>2, <2>2
    <3> QED BY <3>1, <3>2
  <2>6. SlotsTrue'
    BY <2>3, <2>4, <1>1, TakenTrue DEF SlotsTrue
  <2> QED BY <2>5, <2>6
<1>6. CallsOnce'
  <2>1. /\ rpcId \in Nat /\ rpcId' = rpcId + 1 /\ log' = log
        /\ callbacks' = callbacks \cup {rpcId'}
    BY <1>1
  <2>2. CallsOnce
    BY Zenon
  <2> HIDE DEF IInv, TypeOK
  <2>3. callbacks' \subseteq 1 .. rpcId'
    BY <2>1, <2>2 DEF CallsOnce
  <2>4. ASSUME NEW k \in 1 .. Len(log)
        PROVE  log[k].cb \in 1 .. rpcId' /\ log[k].cb \notin callbacks'
    BY <2>1, <2>2 DEF CallsOnce
  <2> QED BY <2>1, <2>3, <2>4, Zenon DEF CallsOnce
<1>7. callbacks' \subseteq Rpc
  BY <1>1
<1> QED BY <1>1, <1>3, <1>4, <1>5, <1>6, <1>7

\* The RPC that Python waits for was issued.
LEMMA WantedIssued ==
    ASSUME IInv, pc # "idle"
    PROVE  Wanted \in Rpc /\ PlaceOf(Wanted) \in Place
<1>1. Wanted \in Rpc
  <2>1. CASE pc = "blocking"
    BY <2>1, MaxRpcAssumption DEF IInv, TypeOK, Waiting, Wanted, Rpc
  <2>2. CASE pc = "loading"
    BY <2>2 DEF IInv, TypeOK, Waiting, Wanted
  <2> QED BY <2>1, <2>2 DEF IInv, TypeOK
<1> QED BY <1>1, PlaceInRange

LEMMA LoadKeeps ==
    ASSUME IInv, Load
    PROVE  /\ slot' \in [Place -> SlotType]
           /\ ackQ' = <<>>
           /\ Order' /\ AcksTrue' /\ SlotsTrue'
           /\ UNCHANGED <<rpcId, busy, running, acked, transmit>>
<1>1. /\ ackQ' = <<>>
      /\ slot' = Taken
      /\ UNCHANGED <<rpcId, busy, running, acked, transmit>>
  BY DEF Load, thread
<1>2. slot' \in [Place -> SlotType] /\ SlotsTrue'
  BY <1>1, TakenTrue DEF SlotsTrue
<1>3. Order'
  BY <1>1 DEF IInv, Order
<1>4. AcksTrue'
  BY <1>1 DEF AcksTrue
<1> QED BY <1>1, <1>2, <1>3, <1>4

LEMMA ReturnKeeps ==
    ASSUME IInv, pc # "idle", rpcId' = rpcId,
           NEW v \in Verdict, Return(v)
    PROVE  /\ pc' \in {"idle", "blocking", "loading"}
           /\ pending' \in Seq(Rpc)
           /\ verdict' \in [Rpc -> Verdict]
           /\ Waiting'
<1>1. verdict' \in [Rpc -> Verdict]
  BY WantedIssued DEF Return, IInv, TypeOK
<1>2. CASE pc = "blocking"
  <2>1. rpcId \in Rpc
    BY <1>2, MaxRpcAssumption DEF IInv, TypeOK, Waiting, Rpc
  <2>2. pc' = "idle" /\ pending' \in Seq(Rpc)
    <3>1. /\ pending \in Seq(Rpc)
          /\ pc' = "idle"
          /\ pending' = IF v = "fail" THEN pending ELSE Append(pending, rpcId)
      BY <1>2 DEF Return, IInv, TypeOK
    <3> QED BY <3>1, <2>1
  <2> QED BY <1>1, <2>2 DEF Waiting
<1>3. CASE pc = "loading"
  <2>1. pending \in Seq(Rpc) /\ pending # <<>>
    BY <1>3 DEF IInv, TypeOK, Waiting
  <2>2. /\ pending' = Tail(pending)
        /\ pc' = IF Len(pending) = 1 THEN "idle" ELSE "loading"
    BY <1>3 DEF Return
  <2>3. pending' \in Seq(Rpc) /\ Len(pending') = Len(pending) - 1
    BY <2>1, <2>2
  <2>4. pc' \in {"idle", "loading"} /\ (pc' = "loading" => Len(pending') # 0)
    BY <2>1, <2>2, <2>3
  <2>5. pc' = "loading" => pending' # <<>>
    BY <2>4
  <2> QED BY <1>1, <2>3, <2>4, <2>5 DEF Waiting
<1> QED BY <1>2, <1>3 DEF IInv, TypeOK

-----------------------------------------------------------------------------
(* The invariant, and the type theorem.                                    *)

LEMMA Initially == Init => IInv
<1> SUFFICES ASSUME Init PROVE IInv
  OBVIOUS
<1>1. TypeOK
  <2>1. slot \in [Place -> SlotType]
    BY DEF Init, SlotType
  <2>2. verdict \in [Rpc -> Verdict]
    BY DEF Init, Verdict
  <2> QED BY <2>1, <2>2, AckCapAssumption, MaxRpcAssumption DEF Init, TypeOK
<1>2. Order /\ AcksTrue /\ CallsOnce /\ Waiting
  BY DEF Init, Order, AcksTrue, CallsOnce, Waiting
<1>3. SlotsTrue
  BY DEF Init, SlotsTrue
<1> QED BY <1>1, <1>2, <1>3 DEF IInv

\* The callback of a slot that holds the truth, if it was not called before.
LEMMA CallBackKeeps ==
    ASSUME IInv, rpcId' = rpcId,
           NEW s \in SlotType, CallBack(s)
    PROVE  /\ callbacks' \subseteq Rpc
           /\ log' \in Seq([cb : Nat, reply : Nat])
           /\ CallsOnce'
<1> USE DEF IInv, TypeOK
<1>1. CASE s.rpc \in callbacks
  <2>1. /\ callbacks' = callbacks \ {s.rpc}
        /\ log' = Append(log, [cb |-> s.rpc, reply |-> s.reply])
    BY <1>1 DEF CallBack
  <2>2. [cb |-> s.rpc, reply |-> s.reply] \in [cb : Nat, reply : Nat]
    BY DEF SlotType
  <2>3. /\ log' \in Seq([cb : Nat, reply : Nat])
        /\ Len(log') = Len(log) + 1
        /\ \A k \in 1 .. Len(log) : log'[k] = log[k]
        /\ log'[Len(log) + 1] = [cb |-> s.rpc, reply |-> s.reply]
    BY <2>1, <2>2
  <2>4. CallsOnce'
    <3>1. callbacks' \subseteq 1 .. rpcId' /\ s.rpc \in 1 .. rpcId'
      BY <1>1, <2>1 DEF CallsOnce
    <3>2. ASSUME NEW k \in 1 .. Len(log')
          PROVE  log'[k].cb \in 1 .. rpcId' /\ log'[k].cb \notin callbacks'
      <4>1. CASE k \in 1 .. Len(log)
        BY <4>1, <2>1, <2>3 DEF CallsOnce
      <4>2. CASE k = Len(log) + 1
        BY <4>2, <2>1, <2>3, <3>1
      <4> QED BY <4>1, <4>2, <2>3
    <3> QED BY <3>1, <3>2 DEF CallsOnce
  <2> QED BY <2>1, <2>3, <2>4
<1>2. CASE s.rpc \notin callbacks
  <2>1. UNCHANGED <<callbacks, log>>
    BY <1>2 DEF CallBack
  <2> QED BY <2>1 DEF CallsOnce
<1> QED BY <1>1, <1>2

\* What the queue thread puts on ack_q, when it has carried out an RPC.
LEMMA PutAckKeeps ==
    ASSUME IInv, busy # 0, acked \subseteq acked',
           NEW ok \in BOOLEAN, PutAck(ok), ok => busy \in acked'
    PROVE  /\ ackQ' \in Seq(Ack) /\ Len(ackQ') <= AckCap
           /\ AcksTrue'
<1> USE DEF IInv, TypeOK
<1>1. CASE Len(ackQ) = AckCap
  BY <1>1 DEF PutAck, AcksTrue
<1>2. CASE Len(ackQ) # AckCap
  <2>1. ackQ' = Append(ackQ, [rpc |-> busy, ok |-> ok])
    BY <1>2 DEF PutAck
  <2>2. busy \in Rpc
    BY MaxRpcAssumption DEF Rpc
  <2>3. [rpc |-> busy, ok |-> ok] \in Ack
    BY <2>2 DEF Ack, Rpc
  <2>4. /\ ackQ' \in Seq(Ack)
        /\ Len(ackQ') = Len(ackQ) + 1
        /\ \A k \in 1 .. Len(ackQ) : ackQ'[k] = ackQ[k]
        /\ ackQ'[Len(ackQ) + 1] = [rpc |-> busy, ok |-> ok]
    BY <2>1, <2>3
  <2>5. Len(ackQ') <= AckCap
    BY <1>2, <2>4, AckCapAssumption
  <2>6. ASSUME NEW k \in 1 .. Len(ackQ')
        PROVE  ackQ'[k].rpc \in Rpc /\ (ackQ'[k].ok => ackQ'[k].rpc \in acked')
    <3>1. CASE k \in 1 .. Len(ackQ)
      BY <3>1, <2>4 DEF AcksTrue
    <3>2. CASE k = Len(ackQ) + 1
      BY <3>2, <2>2, <2>4
    <3> QED BY <3>1, <3>2, <2>4
  <2> QED BY <2>4, <2>5, <2>6 DEF AcksTrue
<1> QED BY <1>1, <1>2

LEMMA Inductive == IInv /\ [Next]_vars => IInv'
<1> SUFFICES ASSUME IInv, [Next]_vars PROVE IInv'
  OBVIOUS
<1>1. CASE DoRpc
  <2>1. Queue /\ pending' = Append(pending, rpcId') /\ pc' = pc
    BY <1>1 DEF DoRpc
  <2>2. pc' = "idle" /\ pc' \in {"idle", "blocking", "loading"}
    BY <2>1 DEF Queue
  <2>3. pending' \in Seq(Rpc)
    BY <2>1, QueueKeeps DEF IInv, TypeOK
  <2>4. TypeOK'
    <3>1. rpcId' \in 0 .. MaxRpc /\ ackQ' \in Seq(Ack) /\ Len(ackQ') <= AckCap
      BY <2>1, QueueKeeps, EmptyAckQ DEF Rpc
    <3>2. UNCHANGED <<log, verdict, busy, running, acked>>
      BY <2>1, QueueKeeps
    <3>3. /\ slot' \in [Place -> SlotType]
          /\ callbacks' \subseteq Rpc
          /\ transmit' \in Seq(Rpc)
      BY <2>1, QueueKeeps
    <3> QED BY <2>2, <2>3, <3>1, <3>2, <3>3, Zenon DEF IInv, TypeOK
  <2>5. AcksTrue' /\ Waiting'
    BY <2>2, <2>1, QueueKeeps DEF AcksTrue, Waiting
  <2> QED BY <2>1, <2>4, <2>5, QueueKeeps DEF IInv
<1>2. CASE DoRpcBlocking
  <2>1. Queue /\ pending' = pending /\ pc' = "blocking"
    BY <1>2 DEF DoRpcBlocking
  <2>4. TypeOK'
    <3>1. rpcId' \in 0 .. MaxRpc /\ ackQ' \in Seq(Ack) /\ Len(ackQ') <= AckCap
      BY <2>1, QueueKeeps, EmptyAckQ DEF Rpc
    <3>2. UNCHANGED <<log, verdict, busy, running, acked, pending>>
      BY <2>1, QueueKeeps
    <3>3. /\ slot' \in [Place -> SlotType]
          /\ callbacks' \subseteq Rpc
          /\ transmit' \in Seq(Rpc)
          /\ pc' \in {"idle", "blocking", "loading"}
      BY <2>1, QueueKeeps
    <3> QED BY <3>1, <3>2, <3>3, Zenon DEF IInv, TypeOK
  <2>5. AcksTrue' /\ Waiting'
    BY <2>1, QueueKeeps DEF AcksTrue, Waiting, Rpc
  <2> QED BY <2>1, <2>4, <2>5, QueueKeeps DEF IInv
<1>3. CASE LoadResults
  <2>1. /\ pending # <<>> /\ pc' = "loading"
        /\ UNCHANGED <<pending, callbacks, log, verdict, rpcId, slot, busy,
                       running, acked, transmit, ackQ>>
    BY <1>3 DEF LoadResults, library, thread
  <2>2. TypeOK'
    BY <2>1 DEF IInv, TypeOK
  <2>3. Order' /\ AcksTrue' /\ SlotsTrue' /\ CallsOnce' /\ Waiting'
    BY <2>1 DEF IInv, Order, AcksTrue, SlotsTrue, CallsOnce, Waiting
  <2> QED BY <2>2, <2>3 DEF IInv
<1>4. CASE LoadOk
  <2>1. Load /\ pc # "idle" /\ CallBack(Found(Wanted)) /\ Return("ok")
    BY <1>4 DEF LoadOk, Load
  <2>2. Found(Wanted) \in SlotType
    BY <2>1, WantedIssued, TakenTrue DEF Found
  <2>3. rpcId' = rpcId
    BY <2>1, LoadKeeps
  <2>4. /\ pc' \in {"idle", "blocking", "loading"}
        /\ pending' \in Seq(Rpc)
        /\ verdict' \in [Rpc -> Verdict]
        /\ Waiting'
    BY <2>1, <2>3, ReturnKeeps DEF Verdict
  <2>5. /\ callbacks' \subseteq Rpc
        /\ log' \in Seq([cb : Nat, reply : Nat])
        /\ CallsOnce'
    BY <2>1, <2>2, <2>3, CallBackKeeps
  <2>6. TypeOK'
    <3>1. ackQ' \in Seq(Ack) /\ Len(ackQ') <= AckCap
      BY <2>1, LoadKeeps, EmptyAckQ
    <3>2. UNCHANGED <<rpcId, busy, running, acked, transmit>>
      BY <2>1, LoadKeeps
    <3>3. slot' \in [Place -> SlotType]
      BY <2>1, LoadKeeps
    <3> QED BY <2>4, <2>5, <3>1, <3>2, <3>3, Zenon DEF IInv, TypeOK
  <2> QED BY <2>1, <2>4, <2>5, <2>6, LoadKeeps DEF IInv
<1>5. ASSUME NEW v \in Verdict, Load, pc # "idle", Return(v),
             UNCHANGED <<callbacks, log>>
      PROVE  IInv'
  <2>3. rpcId' = rpcId
    BY <1>5, LoadKeeps
  <2>4. /\ pc' \in {"idle", "blocking", "loading"}
        /\ pending' \in Seq(Rpc)
        /\ verdict' \in [Rpc -> Verdict]
        /\ Waiting'
    BY <1>5, <2>3, ReturnKeeps
  <2>5. CallsOnce'
    BY <1>5, <2>3 DEF IInv, CallsOnce
  <2>6. TypeOK'
    <3>1. ackQ' \in Seq(Ack) /\ Len(ackQ') <= AckCap
      BY <1>5, LoadKeeps, EmptyAckQ
    <3>2. UNCHANGED <<rpcId, busy, running, acked, transmit, callbacks, log>>
      BY <1>5, LoadKeeps
    <3>3. slot' \in [Place -> SlotType]
      BY <1>5, LoadKeeps
    <3> QED BY <2>4, <3>1, <3>2, <3>3, Zenon DEF IInv, TypeOK
  <2> QED BY <1>5, <2>4, <2>5, <2>6, LoadKeeps DEF IInv
<1>6. CASE LoadFailed
  BY <1>5, <1>6 DEF LoadFailed, Load, Verdict
<1>7. CASE TimedOut
  BY <1>5, <1>7 DEF TimedOut, Load, Verdict
<1>8. CASE NotReady
  <2>1. Load /\ UNCHANGED <<pc, pending, callbacks, log, verdict>>
    BY <1>8 DEF NotReady, python
  <2>2. TypeOK'
    <3>1. ackQ' \in Seq(Ack) /\ Len(ackQ') <= AckCap
      BY <2>1, LoadKeeps, EmptyAckQ
    <3>2. UNCHANGED <<rpcId, busy, running, acked, transmit, pc, pending,
                      callbacks, log, verdict>>
      BY <2>1, LoadKeeps
    <3>3. slot' \in [Place -> SlotType]
      BY <2>1, LoadKeeps
    <3> QED BY <3>1, <3>2, <3>3, Zenon DEF IInv, TypeOK
  <2>3. CallsOnce' /\ Waiting'
    BY <2>1, LoadKeeps DEF IInv, CallsOnce, Waiting
  <2> QED BY <2>1, <2>2, <2>3, LoadKeeps DEF IInv
<1>9. CASE Stop \/ Start
  <2>1. /\ running' \in BOOLEAN
        /\ UNCHANGED <<pc, pending, callbacks, log, verdict, rpcId, slot, busy,
                       acked, transmit, ackQ>>
    BY <1>9 DEF Stop, Start, python, library
  <2>2. TypeOK'
    BY <2>1 DEF IInv, TypeOK
  <2>3. Order' /\ AcksTrue' /\ SlotsTrue' /\ CallsOnce' /\ Waiting'
    BY <2>1 DEF IInv, Order, AcksTrue, SlotsTrue, CallsOnce, Waiting
  <2> QED BY <2>2, <2>3 DEF IInv
<1>10. CASE Dequeue
  <2>1. /\ busy = 0 /\ transmit # <<>>
        /\ busy' = Head(transmit) /\ transmit' = Tail(transmit)
        /\ UNCHANGED <<pc, pending, callbacks, log, verdict, rpcId, slot,
                       running, acked, ackQ>>
    BY <1>10 DEF Dequeue, python, library
  <2>2. /\ busy' \in Rpc /\ transmit' \in Seq(Rpc)
        /\ Len(transmit) \in Nat \ {0}
        /\ busy' = transmit[1]
        /\ Len(transmit') = Len(transmit) - 1
        /\ \A k \in 1 .. Len(transmit') : transmit'[k] = transmit[k + 1]
    BY <2>1 DEF IInv, TypeOK
  <2>3. TypeOK'
    BY <2>1, <2>2 DEF IInv, TypeOK, Rpc
  <2>4. Order'
    <3>1. rpcId \in Nat /\ rpcId' = rpcId
      BY <2>1, MaxRpcAssumption DEF IInv, TypeOK
    <3> QED BY <2>2, <3>1 DEF IInv, Order
  <2>5. AcksTrue' /\ SlotsTrue' /\ CallsOnce' /\ Waiting'
    BY <2>1 DEF IInv, AcksTrue, SlotsTrue, CallsOnce, Waiting
  <2> QED BY <2>3, <2>4, <2>5 DEF IInv
<1>11. ASSUME busy # 0, busy' = 0, acked \subseteq acked', acked' \subseteq Rpc,
              ackQ' \in Seq(Ack), Len(ackQ') <= AckCap, AcksTrue',
              UNCHANGED <<pc, pending, callbacks, log, verdict, rpcId, slot,
                          running, transmit>>
       PROVE  IInv'
  <2>1. TypeOK'
    BY <1>11, MaxRpcAssumption DEF IInv, TypeOK
  <2>2. Order'
    BY <1>11 DEF IInv, Order
  <2>3. SlotsTrue' /\ CallsOnce' /\ Waiting'
    BY <1>11 DEF IInv, SlotsTrue, CallsOnce, Waiting
  <2> QED BY <1>11, <2>1, <2>2, <2>3 DEF IInv
<1>12. CASE Acknowledge
  <2>1. /\ busy # 0 /\ busy' = 0 /\ PutAck(TRUE)
        /\ acked' = acked \cup {busy}
        /\ UNCHANGED <<pc, pending, callbacks, log, verdict, rpcId, slot,
                       running, transmit>>
    BY <1>12 DEF Acknowledge, python, library
  <2>2. acked \subseteq acked' /\ acked' \subseteq Rpc /\ busy \in acked'
    BY <2>1, MaxRpcAssumption DEF IInv, TypeOK, Rpc
  <2>3. ackQ' \in Seq(Ack) /\ Len(ackQ') <= AckCap /\ AcksTrue'
    BY <2>1, <2>2, PutAckKeeps
  <2> QED BY <1>11, <2>1, <2>2, <2>3
<1>13. CASE Failure
  <2>1. /\ busy # 0 /\ busy' = 0 /\ PutAck(FALSE)
        /\ acked' = acked
        /\ UNCHANGED <<pc, pending, callbacks, log, verdict, rpcId, slot,
                       running, transmit>>
    BY <1>13 DEF Failure, python, library
  <2>2. acked' \subseteq Rpc
    BY <2>1 DEF IInv, TypeOK
  <2>3. ackQ' \in Seq(Ack) /\ Len(ackQ') <= AckCap /\ AcksTrue'
    BY <2>1, PutAckKeeps
  <2> QED BY <1>11, <2>1, <2>2, <2>3
<1>14. CASE Silence
  <2>1. /\ busy # 0 /\ busy' = 0
        /\ UNCHANGED <<pc, pending, callbacks, log, verdict, rpcId, slot,
                       running, transmit, ackQ, acked>>
    BY <1>14 DEF Silence, python, library
  <2>2. acked' \subseteq Rpc /\ ackQ' \in Seq(Ack) /\ Len(ackQ') <= AckCap
    BY <2>1 DEF IInv, TypeOK
  <2>3. AcksTrue'
    BY <2>1 DEF IInv, AcksTrue
  <2> QED BY <1>11, <2>1, <2>2, <2>3
<1>15. CASE UNCHANGED vars
  <2>1. UNCHANGED <<pc, pending, callbacks, log, verdict, rpcId, slot, busy,
                    running, acked, transmit, ackQ>>
    BY <1>15 DEF vars, python, library, thread
  <2>2. TypeOK'
    BY <2>1 DEF IInv, TypeOK
  <2>3. Order' /\ AcksTrue' /\ SlotsTrue' /\ CallsOnce' /\ Waiting'
    BY <2>1 DEF IInv, Order, AcksTrue, SlotsTrue, CallsOnce, Waiting
  <2> QED BY <2>2, <2>3 DEF IInv
<1> QED BY <1>1, <1>2, <1>3, <1>4, <1>6, <1>7, <1>8, <1>9, <1>10, <1>12, <1>13,
           <1>14, <1>15 DEF Next, PythonStep, ThreadStep, Await

\* The queues, the ring and the RPC in progress keep their types, and no more
\* than the capacity of ack_q is ever in it.
THEOREM TypeCorrect == Spec => []TypeOK
<1>1. Init => IInv
  BY Initially
<1>2. IInv /\ [Next]_vars => IInv'
  BY Inductive
<1>3. IInv => TypeOK
  BY DEF IInv
<1> QED BY <1>1, <1>2, <1>3, PTL DEF Spec

-----------------------------------------------------------------------------
(* The refinement.                                                         *)

LEMMA InitRefines == Init => Delivery!Init
<1> SUFFICES ASSUME Init PROVE Delivery!Init
  OBVIOUS
<1>1. rpcId = 0 /\ transmit = <<>> /\ busy = 0 /\ acked = {} /\ log = <<>>
  BY DEF Init
<1>2. Len(transmit) = 0
  BY <1>1
<1>3. Done = 0
  <2>1. rpcId = 0 /\ busy = 0
    BY <1>1
  <2>2. Done = 0 - 0 - 0
    BY <2>1, <1>2, Zenon DEF Done
  <2> QED BY <2>2
<1> QED BY <1>1, <1>3 DEF Delivery!Init

\* A step that leaves rpcId and both ends of transmit_q alone is a stutter, but
\* for what it logs.
LEMMA SameDone ==
    ASSUME UNCHANGED <<rpcId, transmit, busy>> PROVE Done' = Done
BY DEF Done

LEMMA QueueIssues == ASSUME IInv, Queue PROVE Delivery!Issue
<1>1. rpcId' = rpcId + 1 /\ UNCHANGED <<log, busy, acked>>
  BY QueueKeeps
<1>2. transmit \in Seq(Rpc) /\ rpcId \in Nat
  BY DEF IInv, TypeOK
<1>3. rpcId' \in Rpc /\ transmit' = Append(transmit, rpcId')
  BY QueueKeeps DEF Queue
<1>4. Len(transmit') = Len(transmit) + 1 /\ Len(transmit) \in Nat
  BY <1>2, <1>3
<1>5. Done' = Done
  BY <1>1, <1>2, <1>4 DEF Done
<1> QED BY <1>1, <1>5 DEF Delivery!Issue

\* A slot whose result is loaded holds the reply to its RPC.
LEMMA LoadCallsBack ==
    ASSUME IInv, LoadOk
    PROVE  UNCHANGED Delivery!vars \/ \E r \in 1 .. rpcId : Delivery!CallBack(r)
<1> DEFINE s == Found(Wanted)
<1>1. Load /\ pc # "idle" /\ s.state = "ok" /\ CallBack(s)
  BY DEF LoadOk, Load
<1>2. UNCHANGED <<rpcId, transmit, busy, acked>>
  BY <1>1, LoadKeeps
<1>3. Done' = Done
  BY <1>2, SameDone
<1>4. s.reply = s.rpc /\ s.rpc \in acked
  BY <1>1, WantedIssued, TakenTrue DEF Found
<1> HIDE DEF s
<1>5. CASE s.rpc \in callbacks
  <2>1. log' = Append(log, [cb |-> s.rpc, reply |-> s.rpc])
    BY <1>1, <1>4, <1>5 DEF CallBack
  <2>2. s.rpc \in 1 .. rpcId
    BY <1>5 DEF IInv, CallsOnce
  <2>3. \A k \in DOMAIN log : log[k].cb # s.rpc
    <3>1. DOMAIN log = 1 .. Len(log)
      BY DEF IInv, TypeOK
    <3> QED BY <3>1, <1>5 DEF IInv, CallsOnce
  <2>4. Delivery!CallBack(s.rpc)
    BY <1>2, <1>3, <1>4, <2>1, <2>3 DEF Delivery!CallBack
  <2> QED BY <2>2, <2>4
<1>6. CASE s.rpc \notin callbacks
  BY <1>1, <1>2, <1>3, <1>6 DEF CallBack, Delivery!vars
<1> QED BY <1>5, <1>6

LEMMA DequeueStutters == ASSUME IInv, Dequeue PROVE UNCHANGED Delivery!vars
<1>1. /\ busy = 0 /\ transmit # <<>>
      /\ busy' = Head(transmit) /\ transmit' = Tail(transmit)
      /\ UNCHANGED <<log, rpcId, acked>>
  BY DEF Dequeue, python, library
<1>2. /\ transmit \in Seq(Rpc) /\ rpcId \in Nat
  BY DEF IInv, TypeOK
<1>3. /\ busy' \in Rpc
      /\ Len(transmit') = Len(transmit) - 1 /\ Len(transmit) \in Nat
  BY <1>1, <1>2
<1>4. Done' = Done
  BY <1>1, <1>2, <1>3 DEF Done, Rpc
<1> QED BY <1>1, <1>4 DEF Delivery!vars

LEMMA FinishCarriesOut ==
    ASSUME IInv, busy # 0, busy' = 0, acked' \in {acked, acked \cup {busy}},
           UNCHANGED <<rpcId, transmit, log>>
    PROVE  Delivery!CarryOut
<1>1. Len(transmit) \in Nat /\ rpcId \in Nat
  BY DEF IInv, TypeOK
<1>2. busy = rpcId - Len(transmit)
  BY DEF IInv, Order
<1>3. Done = rpcId - Len(transmit) - 1 /\ Done' = rpcId - Len(transmit)
  BY <1>1 DEF Done
<1>4. Done < rpcId /\ Done' = Done + 1 /\ Done' = busy
  BY <1>1, <1>2, <1>3
<1> QED BY <1>4 DEF Delivery!CarryOut

LEMMA StepRefines ==
    ASSUME IInv, [Next]_vars PROVE [Delivery!Next]_Delivery!vars
<1>1. CASE DoRpc \/ DoRpcBlocking
  BY <1>1, QueueIssues DEF DoRpc, DoRpcBlocking, Delivery!Next
<1>2. CASE LoadOk
  BY <1>2, LoadCallsBack DEF Delivery!Next
<1>3. CASE LoadResults \/ LoadFailed \/ NotReady \/ TimedOut \/ Stop \/ Start
           \/ UNCHANGED vars
  <2>1. UNCHANGED <<rpcId, transmit, busy, acked, log>>
    BY <1>3, LoadKeeps DEF LoadResults, LoadFailed, NotReady, TimedOut, Stop,
                           Start, vars, python, library, thread
  <2> QED BY <2>1, SameDone DEF Delivery!vars
<1>4. CASE Dequeue
  BY <1>4, DequeueStutters
<1>5. CASE Acknowledge \/ Failure \/ Silence
  <2>1. /\ busy # 0 /\ busy' = 0
        /\ acked' \in {acked, acked \cup {busy}}
        /\ UNCHANGED <<rpcId, transmit, log>>
    BY <1>5 DEF Acknowledge, Failure, Silence, python, library
  <2> QED BY <2>1, FinishCarriesOut DEF Delivery!Next
<1> QED BY <1>1, <1>2, <1>3, <1>4, <1>5 DEF Next, PythonStep, ThreadStep, Await

\* Whatever the sizes of the ring and of ack_q: RPCs reach the board in order
\* and once, and a callback is called at most once, only after its RPC was
\* acknowledged, and with the reply to it (load_rpc_result, cpp/transport.cpp).
THEOREM Refinement == Spec => DeliveryRefined
<1>1. Init => IInv /\ Delivery!Init
  BY Initially, InitRefines
<1>2. IInv /\ [Next]_vars => IInv'
  BY Inductive
<1>3. IInv /\ [Next]_vars => [Delivery!Next]_Delivery!vars
  BY StepRefines
<1> QED BY <1>1, <1>2, <1>3, PTL DEF Spec, DeliveryRefined, Delivery!Spec

-----------------------------------------------------------------------------
(* The results that Python loads are true.  A success is true because a    *)
(* slot tells the truth.  A failure is true because an RPC that failed is  *)
(* never acknowledged afterwards, RPCs being carried out in order, and     *)
(* because a slot changes hands only when the ring has come round: two     *)
(* RPCs of one place are at least Slots apart.                             *)


\* r was carried out, and the board did not acknowledge it.
Refused(r) == r <= Done /\ r \notin acked

Ring == \A r \in 1 .. rpcId : slot[PlaceOf(r)].rpc = r \/ r + Slots <= rpcId

KeptOrCalled == \A r \in 1 .. rpcId : r \in callbacks \/ Called(r)

Asked == \A k \in 1 .. Len(pending) : pending[k] \in 1 .. rpcId

AckedDone == \A r \in acked : r <= Done

AcksFalse == \A k \in 1 .. Len(ackQ) : ~ackQ[k].ok => Refused(ackQ[k].rpc)

SlotsFalse == \A i \in Place : slot[i].state = "fail" => Refused(slot[i].rpc)

Told == \A r \in Rpc :
    /\ verdict[r] = "ok" => r \in acked /\ Called(r)
    /\ verdict[r] = "fail" => Refused(r) \/ r + Slots <= rpcId

TInv == Ring /\ KeptOrCalled /\ Asked /\ AckedDone /\ AcksFalse /\ SlotsFalse /\ Told

-----------------------------------------------------------------------------
(* The ring.                                                               *)

LEMMA Division == ASSUME NEW x \in Int, NEW d \in Nat \ {0}
                  PROVE  /\ x = d * (x \div d) + (x % d)
                         /\ x \div d \in Int /\ x % d \in Int
OBVIOUS

\* Numbers with the same remainder are a multiple of the divisor apart.
LEMMA Multiple ==
    ASSUME NEW a \in Int, NEW b \in Int, NEW d \in Nat \ {0},
           a < b, a % d = b % d
    PROVE  a + d <= b
<1>1. PICK p \in Int, m \in Int : a = d * p + m /\ m = a % d
  BY Division
<1>2. PICK q \in Int, n \in Int : b = d * q + n /\ n = b % d
  BY Division
<1>3. b - a = d * (q - p)
  <2>1. m = n
    BY <1>1, <1>2
  <2> QED BY <1>1, <1>2, <2>1
<1>4. q - p >= 1
  <2>1. CASE q - p <= 0
    <3>1. d * (q - p) <= 0
      BY <2>1
    <3> QED BY <3>1, <1>3
  <2> QED BY <2>1
<1>5. d * (q - p) >= d
  BY <1>4
<1> QED BY <1>3, <1>5

\* Two RPCs of one place are at least Slots apart.
LEMMA Apart ==
    ASSUME NEW r \in Rpc, NEW s \in Rpc, r < s, PlaceOf(r) = PlaceOf(s)
    PROVE  r + Slots <= s
<1>1. r - 1 \in Int /\ s - 1 \in Int /\ r - 1 < s - 1
  BY DEF Rpc
<1>2. (r - 1) % Slots = (s - 1) % Slots
  BY DEF PlaceOf
<1>3. (r - 1) + Slots <= s - 1
  BY <1>1, <1>2, SlotsAssumption, Multiple
<1> QED BY <1>3, SlotsAssumption DEF Rpc

\* Emptying ack_q leaves each slot to its RPC, and a failed slot was refused.
LEMMA TakenFalse ==
    ASSUME IInv, TInv, NEW i \in Place
    PROVE  /\ Taken[i].rpc = slot[i].rpc
           /\ Taken[i].state = "fail" => Refused(Taken[i].rpc)
<1> DEFINE found == {k \in DOMAIN ackQ : Matches(ackQ[k], i)}
           a == ackQ[CHOOSE k \in found : TRUE]
<1>1. Taken[i] = IF found = {} THEN slot[i]
                 ELSE IF a.ok THEN [slot[i] EXCEPT !.state = "ok", !.reply = a.rpc]
                 ELSE [slot[i] EXCEPT !.state = "fail"]
  BY DEF Taken
<1>2. slot[i] \in SlotType
  BY DEF IInv, TypeOK
<1>3. CASE found = {}
  BY <1>1, <1>3 DEF TInv, SlotsFalse
<1>4. CASE found # {}
  <2>1. PICK k \in 1 .. Len(ackQ) : a = ackQ[k] /\ Matches(ackQ[k], i)
    <3>1. (CHOOSE k \in found : TRUE) \in found
      BY <1>4
    <3>2. DOMAIN ackQ = 1 .. Len(ackQ)
      BY DEF IInv, TypeOK
    <3> QED BY <3>1, <3>2
  <2>2. slot[i].rpc = a.rpc /\ (~a.ok => Refused(a.rpc))
    BY <2>1 DEF TInv, AcksFalse, Matches
  <2>3. CASE a.ok
    <3>1. Taken[i] = [slot[i] EXCEPT !.state = "ok", !.reply = a.rpc]
      BY <1>1, <1>4, <2>3
    <3>2. Taken[i].rpc = slot[i].rpc /\ Taken[i].state = "ok"
      BY <3>1, <1>2 DEF SlotType
    <3> QED BY <3>2
  <2>4. CASE ~a.ok
    <3>1. Taken[i] = [slot[i] EXCEPT !.state = "fail"]
      BY <1>1, <1>4, <2>4
    <3>2. Taken[i].rpc = slot[i].rpc
      BY <3>1, <1>2 DEF SlotType
    <3> QED BY <3>2, <2>2, <2>4
  <2> QED BY <2>3, <2>4
<1> QED BY <1>3, <1>4

-----------------------------------------------------------------------------
(* What every step keeps.                                                  *)

\* RPCs are carried out in order, so one that was refused stays refused.
LEMMA Grows ==
    ASSUME IInv, AckedDone, [Next]_vars
    PROVE  /\ rpcId <= rpcId'
           /\ \A r \in acked : r \in acked'
           /\ AckedDone'
           /\ \A r \in Nat : Refused(r) => Refused(r)'
           /\ \A r \in Rpc : Called(r) => Called(r)'
<1>1. rpcId \in Nat /\ Done \in Int
  BY MaxRpcAssumption DEF IInv, TypeOK, Done
<1>2. log \in Seq([cb : Nat, reply : Nat])
  BY DEF IInv, TypeOK
<1>3. CASE UNCHANGED Delivery!vars \/ Delivery!Issue
  <2>1. rpcId <= rpcId' /\ UNCHANGED <<Done, acked, log>>
    BY <1>1, <1>3 DEF Delivery!vars, Delivery!Issue
  <2> QED BY <2>1 DEF AckedDone, Refused, Called
<1>4. CASE Delivery!CarryOut
  <2>1. /\ Done' = Done + 1 /\ acked \subseteq acked'
        /\ acked' \subseteq acked \cup {Done + 1}
        /\ UNCHANGED <<rpcId, log>>
    BY <1>4 DEF Delivery!CarryOut
  <2>2. acked \subseteq Nat
    BY DEF IInv, TypeOK, Rpc
  <2>3. AckedDone'
    BY <1>1, <2>1, <2>2 DEF AckedDone
  <2>4. ASSUME NEW r \in Nat, Refused(r) PROVE Refused(r)'
    BY <1>1, <2>1, <2>4 DEF Refused, Rpc
  <2> QED BY <1>1, <2>1, <2>3, <2>4 DEF Called
<1>5. ASSUME NEW r \in 1 .. rpcId, Delivery!CallBack(r)
      PROVE  rpcId <= rpcId' /\ UNCHANGED <<Done, acked>>
             /\ \A c \in Rpc : Called(c) => Called(c)'
  <2>1. UNCHANGED <<rpcId, Done, acked>> /\ log' = Append(log, [cb |-> r, reply |-> r])
    BY <1>5 DEF Delivery!CallBack
  <2>2. /\ DOMAIN log \subseteq DOMAIN log'
        /\ \A k \in DOMAIN log : log'[k] = log[k]
    BY <1>2, <2>1
  <2> QED BY <1>1, <2>1, <2>2 DEF Called
<1> QED BY <1>3, <1>4, <1>5, StepRefines DEF Delivery!Next, AckedDone, Refused

\* Issuing an RPC takes the place of another that is a ring behind.
LEMMA QueueRing ==
    ASSUME IInv, TInv, Queue, AckedDone', \A r \in Nat : Refused(r) => Refused(r)'
    PROVE  Ring' /\ SlotsFalse' /\ AcksFalse' /\ KeptOrCalled'
<1> DEFINE p == PlaceOf(rpcId')
<1>1. /\ rpcId' \in Rpc /\ rpcId' = rpcId + 1 /\ rpcId \in Nat
      /\ p \in Place
      /\ ackQ' = <<>>
      /\ log' = log
  BY QueueKeeps, PlaceInRange, MaxRpcAssumption DEF IInv, TypeOK
<1>2. /\ slot' = [Taken EXCEPT ![p] = [@ EXCEPT !.rpc = rpcId', !.state = "open"]]
      /\ callbacks' = callbacks \cup {rpcId'}
  BY DEF Queue
<1>3. /\ slot'[p].rpc = rpcId' /\ slot'[p].state = "open"
      /\ \A i \in Place \ {p} : slot'[i] = Taken[i]
  <2>1. Taken \in [Place -> SlotType]
    BY TakenTrue
  <2>2. slot'[p] = [Taken[p] EXCEPT !.rpc = rpcId', !.state = "open"]
    BY <1>1, <1>2, <2>1
  <2> QED BY <1>1, <1>2, <2>1, <2>2 DEF SlotType
<1> HIDE DEF p
<1>4. Ring'
  <2> SUFFICES ASSUME NEW r \in 1 .. rpcId'
               PROVE  slot'[PlaceOf(r)].rpc = r \/ r + Slots <= rpcId'
    BY DEF Ring
  <2>1. r \in Rpc /\ PlaceOf(r) \in Place
    BY <1>1, PlaceInRange, MaxRpcAssumption DEF Rpc
  <2>2. CASE r = rpcId'
    BY <2>2, <1>3 DEF p
  <2>3. CASE r # rpcId' /\ PlaceOf(r) = p
    <3>1. r < rpcId'
      BY <1>1, <2>3
    <3> QED BY <1>1, <2>1, <2>3, <3>1, Apart DEF p
  <2>4. CASE r # rpcId' /\ PlaceOf(r) # p
    <3>1. slot'[PlaceOf(r)].rpc = slot[PlaceOf(r)].rpc
      BY <1>3, <2>1, <2>4, TakenFalse
    <3>2. r \in 1 .. rpcId
      BY <1>1, <2>4
    <3>3. slot[PlaceOf(r)].rpc = r \/ r + Slots <= rpcId
      BY <3>2 DEF TInv, Ring
    <3> QED BY <1>1, <3>1, <3>2, <3>3, SlotsAssumption
  <2> QED BY <2>2, <2>3, <2>4
<1>5. SlotsFalse'
  <2> SUFFICES ASSUME NEW i \in Place, slot'[i].state = "fail"
               PROVE  slot'[i].rpc <= Done' /\ slot'[i].rpc \notin acked'
    BY DEF SlotsFalse, Refused
  <2>1. slot'[i] = Taken[i]
    BY <1>3
  <2>2. Refused(Taken[i].rpc) /\ Taken[i].rpc \in Nat
    BY <2>1, TakenFalse, TakenTrue DEF SlotType
  <2> QED BY <2>1, <2>2 DEF Refused
<1>6. AcksFalse'
  BY <1>1 DEF AcksFalse
<1>7. KeptOrCalled'
  BY <1>1, <1>2 DEF TInv, KeptOrCalled, Called
<1> QED BY <1>4, <1>5, <1>6, <1>7

\* Loading a result moves acknowledgements to the slots, and no more.
LEMMA LoadRing ==
    ASSUME IInv, TInv, Load, \A r \in Nat : Refused(r) => Refused(r)'
    PROVE  Ring' /\ SlotsFalse' /\ AcksFalse'
<1>1. rpcId' = rpcId /\ slot' = Taken /\ ackQ' = <<>>
  BY LoadKeeps DEF Load
<1>2. ASSUME NEW r \in 1 .. rpcId PROVE slot'[PlaceOf(r)].rpc = slot[PlaceOf(r)].rpc
  <2>1. r \in Rpc
    BY MaxRpcAssumption DEF IInv, TypeOK, Rpc
  <2> QED BY <1>1, <2>1, PlaceInRange, TakenFalse
<1>3. Ring'
  BY <1>1, <1>2 DEF TInv, Ring
<1>4. SlotsFalse'
  <2> SUFFICES ASSUME NEW i \in Place, slot'[i].state = "fail"
               PROVE  slot'[i].rpc <= Done' /\ slot'[i].rpc \notin acked'
    BY DEF SlotsFalse, Refused
  <2>1. Refused(Taken[i].rpc) /\ Taken[i].rpc \in Nat
    BY <1>1, TakenFalse, TakenTrue DEF SlotType
  <2> QED BY <1>1, <2>1 DEF Refused
<1>5. AcksFalse'
  BY <1>1 DEF AcksFalse
<1> QED BY <1>3, <1>4, <1>5

\* The RPC that Python waits for is one it issued.
LEMMA WantedAsked ==
    ASSUME IInv, TInv, pc # "idle" PROVE Wanted \in 1 .. rpcId
<1>1. CASE pc = "blocking"
  BY <1>1, MaxRpcAssumption DEF IInv, TypeOK, Waiting, Wanted
<1>2. CASE pc = "loading"
  <2>1. pending \in Seq(Rpc) /\ pending # <<>>
    BY <1>2 DEF IInv, TypeOK, Waiting
  <2>2. Wanted = pending[1] /\ 1 \in 1 .. Len(pending)
    BY <1>2, <2>1 DEF Wanted
  <2> QED BY <2>2 DEF TInv, Asked
<1> QED BY <1>1, <1>2 DEF IInv, TypeOK

\* A result that is true when it is loaded is true as long as it is kept.
LEMMA ToldStays ==
    ASSUME IInv, TInv, rpcId <= rpcId', rpcId' \in Nat,
           \A r \in acked : r \in acked',
           \A r \in Nat : Refused(r) => Refused(r)',
           \A r \in Rpc : Called(r) => Called(r)',
           NEW r \in Rpc, verdict'[r] = verdict[r]
    PROVE  /\ verdict'[r] = "ok" => r \in acked' /\ Called(r)'
           /\ verdict'[r] = "fail" => Refused(r)' \/ r + Slots <= rpcId'
<1>1. /\ verdict[r] = "ok" => r \in acked /\ Called(r)
      /\ verdict[r] = "fail" => Refused(r) \/ r + Slots <= rpcId
  BY DEF TInv, Told
<1>2. r \in Nat /\ rpcId \in Nat /\ verdict'[r] = verdict[r]
  BY MaxRpcAssumption DEF Rpc, IInv, TypeOK
<1>3. r + Slots <= rpcId => r + Slots <= rpcId'
  BY <1>2, SlotsAssumption
<1> QED BY <1>1, <1>2, <1>3, Zenon

LEMMA ReturnTold ==
    ASSUME IInv, TInv, pc # "idle", rpcId' = rpcId,
           \A r \in acked : r \in acked',
           \A r \in Nat : Refused(r) => Refused(r)',
           \A r \in Rpc : Called(r) => Called(r)',
           NEW w \in Rpc, w = Wanted,
           NEW v \in Verdict, Return(v),
           v = "ok" => w \in acked /\ Called(w)',
           v = "fail" => Refused(w) \/ w + Slots <= rpcId
    PROVE  Told' /\ Asked'
<1>1. w \in 1 .. rpcId /\ w \in Rpc /\ w \in Nat /\ rpcId \in Nat
  BY WantedAsked, WantedIssued, MaxRpcAssumption DEF Rpc, IInv, TypeOK
<1>2. verdict \in [Rpc -> Verdict] /\ verdict' = [verdict EXCEPT ![w] = v]
  BY DEF Return, IInv, TypeOK
<1>3. Asked'
  <2>1. pending \in Seq(Rpc) /\ \A k \in 1 .. Len(pending) : pending[k] \in 1 .. rpcId
    BY DEF TInv, Asked, IInv, TypeOK
  <2>2. CASE pc = "blocking"
    <3>1. w = rpcId /\ pending' \in {pending, Append(pending, rpcId)}
      BY <2>2 DEF Return, Wanted
    <3> QED BY <1>1, <2>1, <3>1 DEF Asked
  <2>3. CASE pc = "loading"
    <3>1. pending' = Tail(pending) /\ pending # <<>>
      BY <2>3 DEF Return, IInv, Waiting
    <3> QED BY <2>1, <3>1 DEF Asked
  <2> QED BY <2>2, <2>3 DEF IInv, TypeOK
<1>4. \A r \in Rpc \ {w} : verdict'[r] = verdict[r]
  BY <1>2
<1>5. ASSUME NEW r \in Rpc \ {w}
      PROVE  /\ verdict'[r] = "ok" => r \in acked' /\ Called(r)'
             /\ verdict'[r] = "fail" => Refused(r)' \/ r + Slots <= rpcId'
  <2>1. rpcId <= rpcId' /\ rpcId' \in Nat
    BY <1>1
  <2> QED BY <1>4, <2>1, ToldStays
<1>6. verdict'[w] = v
  BY <1>1, <1>2
<1>7. /\ v = "ok" => w \in acked' /\ Called(w)'
      /\ v = "fail" => Refused(w)' \/ w + Slots <= rpcId'
  BY <1>1
<1> QED BY <1>3, <1>5, <1>6, <1>7, Zenon DEF Told

\* A successful result: the callback of the RPC is called, if it was not before.
LEMMA LoadOkKeeps ==
    ASSUME IInv, TInv, LoadOk
    PROVE  KeptOrCalled' /\ \A w \in Rpc : w = Wanted => w \in acked /\ Called(w)'
<1> DEFINE s == Found(Wanted)
<1>1. Load /\ pc # "idle" /\ s.state = "ok" /\ CallBack(s) /\ s.rpc = Wanted
  BY DEF LoadOk, Load, Expired
<1>2. rpcId' = rpcId
  BY <1>1, LoadKeeps
<1>3. s.rpc \in acked /\ s.rpc \in 1 .. rpcId
  BY <1>1, WantedIssued, WantedAsked, TakenTrue DEF Found
<1>4. log \in Seq([cb : Nat, reply : Nat])
  BY DEF IInv, TypeOK
<1> HIDE DEF s
<1>5. ASSUME NEW r \in 1 .. rpcId
      PROVE  (r \in callbacks' \/ Called(r)') /\ (r = s.rpc => Called(r)')
  <2>1. r \in callbacks \/ Called(r)
    BY DEF TInv, KeptOrCalled
  <2>2. CASE s.rpc \in callbacks
    <3>1. /\ callbacks' = callbacks \ {s.rpc}
          /\ log' = Append(log, [cb |-> s.rpc, reply |-> s.reply])
      BY <1>1, <2>2 DEF CallBack
    <3>2. /\ DOMAIN log \subseteq DOMAIN log'
          /\ \A k \in DOMAIN log : log'[k] = log[k]
          /\ Len(log) + 1 \in DOMAIN log' /\ log'[Len(log) + 1].cb = s.rpc
      BY <1>4, <3>1
    <3> QED BY <2>1, <3>1, <3>2 DEF Called
  <2>3. CASE s.rpc \notin callbacks
    BY <1>1, <2>1, <2>3 DEF CallBack, Called
  <2> QED BY <2>2, <2>3
<1>6. KeptOrCalled'
  BY <1>2, <1>5 DEF KeptOrCalled
<1>7. ASSUME NEW w \in Rpc, w = Wanted PROVE w \in acked /\ Called(w)'
  BY <1>1, <1>3, <1>5, <1>7
<1> QED BY <1>6, <1>7

\* A failure: the slot has another RPC, or one that was refused.
LEMMA LoadFailedTrue ==
    ASSUME IInv, TInv, LoadFailed
    PROVE  Refused(Wanted) \/ Wanted + Slots <= rpcId
<1> DEFINE s == Found(Wanted)
<1>1. pc # "idle" /\ (s.rpc # Wanted \/ s.state = "fail")
  BY DEF LoadFailed, Load, Expired
<1>2. Wanted \in 1 .. rpcId /\ PlaceOf(Wanted) \in Place
  BY <1>1, WantedAsked, WantedIssued
<1>3. s.rpc = slot[PlaceOf(Wanted)].rpc /\ (s.state = "fail" => Refused(s.rpc))
  BY <1>2, TakenFalse DEF Found
<1>4. slot[PlaceOf(Wanted)].rpc = Wanted \/ Wanted + Slots <= rpcId
  BY <1>2 DEF TInv, Ring
<1> HIDE DEF s
<1>5. CASE s.rpc # Wanted
  BY <1>3, <1>4, <1>5, Zenon
<1>6. CASE s.rpc = Wanted /\ s.state = "fail"
  BY <1>3, <1>6
<1> QED BY <1>1, <1>5, <1>6

\* A step that leaves the slots and the callbacks alone.
LEMMA SameSlots ==
    ASSUME IInv, TInv, [Next]_vars, UNCHANGED <<rpcId, slot, callbacks, log>>
    PROVE  Ring' /\ SlotsFalse' /\ KeptOrCalled'
<1>1. Ring' /\ KeptOrCalled'
  BY DEF TInv, Ring, KeptOrCalled, Called
<1>2. SlotsFalse'
  <2> SUFFICES ASSUME NEW i \in Place, slot[i].state = "fail"
               PROVE  slot[i].rpc <= Done' /\ slot[i].rpc \notin acked'
    BY DEF SlotsFalse, Refused
  <2>1. Refused(slot[i].rpc) /\ slot[i].rpc \in Nat
    BY DEF TInv, SlotsFalse, IInv, TypeOK, SlotType
  <2> QED BY <2>1, Grows DEF TInv, Refused
<1> QED BY <1>1, <1>2

LEMMA SameVerdict ==
    ASSUME IInv, TInv, [Next]_vars, UNCHANGED verdict PROVE Told'
<1>1. rpcId <= rpcId' /\ rpcId' \in Nat
  BY Grows, Inductive, MaxRpcAssumption DEF TInv, IInv, TypeOK
<1>2. /\ \A r \in acked : r \in acked'
      /\ \A r \in Nat : Refused(r) => Refused(r)'
      /\ \A r \in Rpc : Called(r) => Called(r)'
  BY Grows DEF TInv
<1>3. ASSUME NEW r \in Rpc
      PROVE  /\ verdict'[r] = "ok" => r \in acked' /\ Called(r)'
             /\ verdict'[r] = "fail" => Refused(r)' \/ r + Slots <= rpcId'
  <2>1. verdict'[r] = verdict[r]
    OBVIOUS
  <2> QED BY <1>1, <1>2, <2>1, ToldStays
<1> QED BY <1>3 DEF Told

LEMMA SameAcks ==
    ASSUME IInv, TInv, [Next]_vars, UNCHANGED ackQ PROVE AcksFalse'
<1> SUFFICES ASSUME NEW k \in 1 .. Len(ackQ), ~ackQ[k].ok
             PROVE  ackQ[k].rpc <= Done' /\ ackQ[k].rpc \notin acked'
  BY DEF AcksFalse, Refused
<1>1. Refused(ackQ[k].rpc) /\ ackQ[k].rpc \in Nat
  BY DEF TInv, AcksFalse, IInv, AcksTrue, Rpc
<1> QED BY <1>1, Grows DEF TInv, Refused

\* An RPC that failed is the last that was carried out.
LEMMA PutAckFalse ==
    ASSUME IInv, TInv, [Next]_vars, busy # 0,
           NEW ok \in BOOLEAN, PutAck(ok),
           ~ok => busy <= Done' /\ busy \notin acked'
    PROVE  AcksFalse'
<1>1. CASE Len(ackQ) = AckCap
  BY <1>1, SameAcks DEF PutAck
<1>2. CASE Len(ackQ) # AckCap
  <2>1. ackQ' = Append(ackQ, [rpc |-> busy, ok |-> ok])
    BY <1>2 DEF PutAck
  <2>2. busy \in Nat /\ ackQ \in Seq(Ack)
    BY MaxRpcAssumption DEF IInv, TypeOK
  <2>3. [rpc |-> busy, ok |-> ok] \in Ack
    BY <2>2 DEF Ack
  <2>4. /\ Len(ackQ') = Len(ackQ) + 1
        /\ \A k \in 1 .. Len(ackQ) : ackQ'[k] = ackQ[k]
        /\ ackQ'[Len(ackQ) + 1] = [rpc |-> busy, ok |-> ok]
    BY <2>1, <2>2, <2>3
  <2> SUFFICES ASSUME NEW k \in 1 .. Len(ackQ'), ~ackQ'[k].ok
               PROVE  ackQ'[k].rpc <= Done' /\ ackQ'[k].rpc \notin acked'
    BY DEF AcksFalse, Refused
  <2>5. CASE k \in 1 .. Len(ackQ)
    <3>1. Refused(ackQ[k].rpc) /\ ackQ[k].rpc \in Nat
      BY <2>4, <2>5 DEF TInv, AcksFalse, IInv, AcksTrue, Rpc
    <3> QED BY <2>4, <2>5, <3>1, Grows DEF TInv, Refused
  <2>6. CASE k = Len(ackQ) + 1
    BY <2>4, <2>6
  <2> QED BY <2>2, <2>4, <2>5, <2>6
<1> QED BY <1>1, <1>2

-----------------------------------------------------------------------------
(* The invariant, and the theorem.                                         *)

LEMMA FirstTold == Init => TInv
<1> SUFFICES ASSUME Init PROVE TInv
  OBVIOUS
<1>1. Ring /\ KeptOrCalled /\ Asked /\ AckedDone /\ AcksFalse /\ SlotsFalse
  BY DEF Init, Ring, KeptOrCalled, Asked, AckedDone, AcksFalse, SlotsFalse
<1>2. Told
  BY DEF Init, Told
<1> QED BY <1>1, <1>2 DEF TInv

LEMMA InductiveTold == IInv /\ TInv /\ [Next]_vars => TInv'
<1> SUFFICES ASSUME IInv, TInv, [Next]_vars PROVE TInv'
  OBVIOUS
<1>0. /\ rpcId <= rpcId'
      /\ \A r \in acked : r \in acked'
      /\ AckedDone'
      /\ \A r \in Nat : Refused(r) => Refused(r)'
      /\ \A r \in Rpc : Called(r) => Called(r)'
  BY Grows DEF TInv
<1>1. CASE DoRpc \/ DoRpcBlocking
  <2>1. Queue /\ verdict' = verdict /\ pending' \in {pending, Append(pending, rpcId')}
    BY <1>1 DEF DoRpc, DoRpcBlocking, Queue
  <2>2. Asked'
    <3>1. /\ pending \in Seq(Rpc) /\ rpcId' \in Rpc /\ rpcId' = rpcId + 1
          /\ rpcId \in Nat
          /\ \A k \in 1 .. Len(pending) : pending[k] \in 1 .. rpcId
      BY <2>1, QueueKeeps, MaxRpcAssumption DEF IInv, TypeOK, TInv, Asked
    <3> QED BY <2>1, <3>1 DEF Asked
  <2> QED BY <1>0, <2>1, <2>2, QueueRing, SameVerdict DEF TInv
<1>2. CASE LoadOk
  <2>1. Load /\ pc # "idle" /\ Return("ok")
    BY <1>2 DEF LoadOk, Load
  <2>2. PICK w \in Rpc : w = Wanted
    BY <2>1, WantedIssued
  <2>3. w \in acked /\ Called(w)'
    BY <1>2, <2>2, LoadOkKeeps
  <2>4. Told' /\ Asked'
    <3>1. rpcId' = rpcId /\ "ok" \in Verdict
      BY <2>1, LoadKeeps DEF Verdict
    <3> QED BY <1>0, <2>1, <2>2, <2>3, <3>1, ReturnTold
  <2>5. Ring' /\ SlotsFalse' /\ AcksFalse' /\ KeptOrCalled'
    BY <1>0, <1>2, <2>1, LoadRing, LoadOkKeeps
  <2> QED BY <1>0, <2>4, <2>5 DEF TInv
<1>3. ASSUME NEW v \in {"fail", "timeout"}, Load, pc # "idle", Return(v),
             v = "fail" => LoadFailed, UNCHANGED <<callbacks, log>>
      PROVE  TInv'
  <2>1. PICK w \in Rpc : w = Wanted
    BY <1>3, WantedIssued
  <2>2. v = "fail" => Refused(w) \/ w + Slots <= rpcId
    BY <1>3, <2>1, LoadFailedTrue
  <2>3. rpcId' = rpcId /\ v \in Verdict /\ v # "ok"
    BY <1>3, LoadKeeps DEF Verdict
  <2>4. Told' /\ Asked'
    BY <1>0, <1>3, <2>1, <2>2, <2>3, ReturnTold
  <2>5. Ring' /\ SlotsFalse' /\ AcksFalse'
    BY <1>0, <1>3, LoadRing
  <2>6. KeptOrCalled'
    BY <1>3, <2>3 DEF TInv, KeptOrCalled, Called
  <2> QED BY <1>0, <2>4, <2>5, <2>6 DEF TInv
<1>4. CASE LoadFailed
  BY <1>3, <1>4 DEF LoadFailed, Load
<1>5. CASE TimedOut
  BY <1>3, <1>5 DEF TimedOut, Load
<1>6. CASE NotReady
  <2>1. Load /\ UNCHANGED <<pending, callbacks, log, verdict>>
    BY <1>6 DEF NotReady, python
  <2>2. rpcId' = rpcId
    BY <2>1, LoadKeeps
  <2>3. Asked' /\ KeptOrCalled'
    BY <2>1, <2>2 DEF TInv, Asked, KeptOrCalled, Called
  <2> QED BY <1>0, <2>1, <2>3, LoadRing, SameVerdict DEF TInv
<1>7. CASE LoadResults \/ Stop \/ Start \/ Dequeue \/ Silence \/ UNCHANGED vars
  <2>1. UNCHANGED <<pending, callbacks, log, verdict, rpcId, slot, ackQ>>
    BY <1>7 DEF LoadResults, Stop, Start, Dequeue, Silence, vars, python, library
  <2>2. Asked'
    BY <2>1 DEF TInv, Asked
  <2> QED BY <1>0, <2>1, <2>2, SameSlots, SameVerdict, SameAcks DEF TInv
<1>8. CASE Acknowledge \/ Failure
  <2>1. /\ busy # 0
        /\ UNCHANGED <<pending, callbacks, log, verdict, rpcId, slot>>
    BY <1>8 DEF Acknowledge, Failure, python, library
  <2>2. AcksFalse'
    <3>1. CASE Acknowledge
      BY <2>1, <3>1, PutAckFalse DEF Acknowledge
    <3>2. CASE Failure
      <4>1. /\ PutAck(FALSE) /\ busy' = 0 /\ acked' = acked
            /\ UNCHANGED <<rpcId, transmit>>
        BY <3>2 DEF Failure, library
      <4>2. Len(transmit) \in Nat /\ rpcId \in Nat /\ busy = rpcId - Len(transmit)
        BY <2>1, MaxRpcAssumption DEF IInv, TypeOK, Order
      <4>3. Done = busy - 1 /\ Done' = busy
        BY <2>1, <4>1, <4>2 DEF Done
      <4>4. busy \notin acked
        <5>1. ~(busy <= Done)
          BY <4>2, <4>3
        <5> QED BY <5>1 DEF TInv, AckedDone
      <4>5. busy <= Done' /\ busy \notin acked'
        BY <4>1, <4>2, <4>3, <4>4
      <4> QED BY <2>1, <4>1, <4>5, PutAckFalse
    <3> QED BY <1>8, <3>1, <3>2
  <2>3. Asked'
    BY <2>1 DEF TInv, Asked
  <2> QED BY <1>0, <2>1, <2>2, <2>3, SameSlots, SameVerdict DEF TInv
<1> QED BY <1>1, <1>2, <1>4, <1>5, <1>6, <1>7, <1>8 DEF Next, PythonStep, ThreadStep, Await

\* Whatever the sizes of the ring and of ack_q: an RPC whose result is a success
\* was acknowledged by the board and its callback was called, and one whose
\* result is a failure was not acknowledged, or a later RPC has its slot
\* (_load_rpc_result, load_rpc_result in cpp/transport.cpp).
THEOREM Verdicts == Spec => []VerdictTrue
<1>1. Init => IInv /\ TInv
  BY Initially, FirstTold
<1>2. IInv /\ TInv /\ [Next]_vars => IInv' /\ TInv'
  BY Inductive, InductiveTold
<1>3. IInv /\ TInv => VerdictTrue
  BY DEF TInv, Told, Refused, VerdictTrue
<1> QED BY <1>1, <1>2, <1>3, PTL DEF Spec

-----------------------------------------------------------------------------
(* An RPC has a result, or Python waits for it or will load it.  This is   *)
(* inductive with IInv: what is taken off pending has just got a result.   *)

\* What is on a sequence stays when something is put behind it, and only the
\* first goes with Tail.
LEMMA StaysQueued ==
    ASSUME NEW S, NEW seq \in Seq(S), NEW r \in S, NEW k \in DOMAIN seq, seq[k] = r
    PROVE  /\ \A x \in S : /\ \E j \in DOMAIN Append(seq, x) : Append(seq, x)[j] = r
                           /\ \E j \in DOMAIN Append(seq, x) : Append(seq, x)[j] = x
           /\ r # Head(seq) => \E j \in DOMAIN Tail(seq) : Tail(seq)[j] = r
<1>1. ASSUME NEW x \in S
      PROVE  /\ k \in DOMAIN Append(seq, x) /\ Append(seq, x)[k] = r
             /\ Len(seq) + 1 \in DOMAIN Append(seq, x) /\ Append(seq, x)[Len(seq) + 1] = x
  OBVIOUS
<1>2. ASSUME r # Head(seq)
      PROVE  k - 1 \in DOMAIN Tail(seq) /\ Tail(seq)[k - 1] = r
  BY <1>2
<1> QED BY <1>1, <1>2

\* The result of the wanted RPC: it may leave pending, and no other does.
LEMMA ReturnForgetsNone ==
    ASSUME IInv, NothingForgotten, pc # "idle", rpcId' = rpcId,
           NEW v \in Verdict, v # "none", Return(v)
    PROVE  NothingForgotten'
<1>1. /\ pending \in Seq(Rpc) /\ rpcId \in 0 .. MaxRpc
      /\ verdict \in [Rpc -> Verdict] /\ verdict' = [verdict EXCEPT ![Wanted] = v]
  BY DEF IInv, TypeOK, Return
<1> SUFFICES ASSUME NEW r \in 1 .. rpcId, verdict'[r] = "none"
             PROVE  \E k \in DOMAIN pending' : pending'[k] = r
  BY DEF NothingForgotten
<1>2. r \in Rpc /\ r # Wanted /\ verdict[r] = "none"
  BY <1>1, MaxRpcAssumption DEF Rpc
<1>3. PICK k \in DOMAIN pending : pending[k] = r
  BY <1>2 DEF NothingForgotten, Wanted
<1>4. CASE pc = "blocking"
  <2>1. rpcId \in Rpc
    BY <1>1, <1>4, MaxRpcAssumption DEF IInv, Waiting, Rpc
  <2>2. pending' = pending \/ pending' = Append(pending, rpcId)
    BY <1>4 DEF Return
  <2>3. CASE pending' = pending
    BY <1>3, <2>3
  <2>4. CASE pending' = Append(pending, rpcId)
    BY <1>1, <1>2, <1>3, <2>1, <2>4, StaysQueued
  <2> QED BY <2>2, <2>3, <2>4
<1>5. CASE pc # "blocking"
  <2>1. pending' = Tail(pending) /\ r # Head(pending)
    BY <1>2, <1>5 DEF Return, Wanted
  <2> QED BY <1>1, <1>2, <1>3, <2>1, StaysQueued
<1> QED BY <1>4, <1>5

LEMMA NoneForgotten == IInv /\ NothingForgotten /\ [Next]_vars => NothingForgotten'
<1> SUFFICES ASSUME IInv, NothingForgotten, [Next]_vars PROVE NothingForgotten'
  OBVIOUS
<1>1. CASE DoRpc \/ DoRpcBlocking
  <2>1. /\ pending \in Seq(Rpc) /\ rpcId \in Nat /\ rpcId' = rpcId + 1 /\ rpcId' \in Rpc
        /\ pc = "idle" /\ verdict' = verdict
    BY <1>1, QueueKeeps, MaxRpcAssumption DEF DoRpc, DoRpcBlocking, Queue, IInv, TypeOK
  <2> SUFFICES ASSUME NEW r \in 1 .. rpcId', verdict[r] = "none"
               PROVE  \/ \E k \in DOMAIN pending' : pending'[k] = r
                      \/ pc' = "blocking" /\ r = rpcId'
    BY <2>1, Zenon DEF NothingForgotten
  <2>2. r \in Rpc /\ (r \in 1 .. rpcId \/ r = rpcId')
    BY <2>1, MaxRpcAssumption DEF Rpc
  <2>3. r \in 1 .. rpcId => \E k \in DOMAIN pending : pending[k] = r
    BY <2>1 DEF NothingForgotten
  <2>4. CASE DoRpc
    <3>1. pending' = Append(pending, rpcId')
      BY <2>4 DEF DoRpc
    <3>2. CASE r \in 1 .. rpcId
      BY <2>1, <2>2, <2>3, <3>1, <3>2, StaysQueued
    <3>3. CASE r = rpcId'
      <4>1. Len(pending) + 1 \in DOMAIN pending' /\ pending'[Len(pending) + 1] = r
        BY <2>1, <3>1, <3>3
      <4> QED BY <4>1
    <3> QED BY <2>2, <3>2, <3>3
  <2>5. CASE DoRpcBlocking
    BY <2>2, <2>3, <2>5 DEF DoRpcBlocking
  <2> QED BY <1>1, <2>4, <2>5
<1>2. ASSUME NEW v \in {"ok", "fail", "timeout"}, Load, Return(v) PROVE NothingForgotten'
  <2>1. rpcId' = rpcId /\ pc # "idle" /\ v \in Verdict /\ v # "none"
    BY <1>2 DEF Load, Verdict
  <2> QED BY <1>2, <2>1, ReturnForgetsNone
<1>3. CASE Await
  BY <1>2, <1>3 DEF Await, LoadOk, LoadFailed, TimedOut
<1>4. CASE NotReady
  BY <1>4 DEF NotReady, Load, python, NothingForgotten
<1>5. CASE LoadResults
  BY <1>5 DEF LoadResults, library, NothingForgotten
<1>6. CASE Stop \/ Start \/ ThreadStep \/ UNCHANGED vars
  <2>1. UNCHANGED <<pc, pending, verdict, rpcId>>
    BY <1>6, Zenon DEF Stop, Start, ThreadStep, Dequeue, Acknowledge, Failure, Silence,
                vars, python, library
  <2> QED BY <2>1 DEF NothingForgotten
<1> QED BY <1>1, <1>3, <1>4, <1>5, <1>6, Zenon DEF Next, PythonStep

\* Whatever the sizes: until it has a result, an RPC is waited for or in line to
\* be loaded, so that no callback is lost without a verdict (do_rpc,
\* load_rpc_results).
THEOREM NotForgotten == Spec => []NothingForgotten
<1>1. Init => IInv /\ NothingForgotten
  <2>1. Init => NothingForgotten
    BY DEF Init, NothingForgotten
  <2> QED BY <2>1, Initially
<1>2. IInv /\ NothingForgotten /\ [Next]_vars => IInv' /\ NothingForgotten'
  BY Inductive, NoneForgotten
<1> QED BY <1>1, <1>2, PTL DEF Spec
=============================================================================
