--------------------------- MODULE TransportQueue ---------------------------
(***************************************************************************)
(* The RPC queue between the control loop and a board: Transport and       *)
(* TransportCSerial in Python (core/transport/transport.py and             *)
(* transport_cserial.py) and TransportQueue in C++ (cpp/transport.cpp).    *)
(*                                                                         *)
(* Two threads run.  Python issues RPCs, each into a slot of a ring, and   *)
(* later loads their results; the queue thread carries RPCs out one by one *)
(* and puts an acknowledgement on a bounded queue.  Every call of Python   *)
(* into the library first moves what that queue holds to the slots.        *)
(*                                                                         *)
(* RPCs are numbered 1, 2, ..., and so are the places of the ring; a reply *)
(* is the number of the RPC it answers.  The rollover of rpc_id at 2^31 is *)
(* not modelled, nor the counters that are only logged (ack_overwrites).   *)
(***************************************************************************)
EXTENDS Integers, Sequences

CONSTANTS Slots,   \* QUEUED_RPC_BUFFER_SZ
          AckCap,  \* capacity of ack_q
          MaxRpc   \* bound: how many RPCs are issued

ASSUME SlotsAssumption == Slots \in Nat \ {0}
ASSUME AckCapAssumption == AckCap \in Nat \ {0}
ASSUME MaxRpcAssumption == MaxRpc \in Nat

VARIABLES pc,         \* what Python does: nothing, wait in do_rpc, load results
          rpcId,      \* rpc_id, the last number given
          slot,       \* ack_buf: [rpc, state, reply] of each place of the ring
          pending,    \* rpc_ids: RPCs whose results are still to be loaded
          callbacks,  \* the keys of py_callbacks
          transmit,   \* transmit_q
          ackQ,       \* ack_q
          busy,       \* thread_send_rpc while it is carried out, or 0
          running,    \* the queue thread runs
          acked,      \* history: RPCs whose transaction succeeded
          log,        \* history: the calls of callbacks
          verdict     \* history: the last result that was loaded for an RPC

python == <<pc, pending, callbacks, log, verdict>>
library == <<rpcId, slot>>
thread == <<busy, running, acked>>
vars == <<python, library, thread, transmit, ackQ>>

Rpc == 1 .. MaxRpc
Place == 0 .. Slots - 1
Verdict == {"none", "ok", "fail", "timeout"}
PlaceOf(r) == (r - 1) % Slots

SlotType == [rpc : Nat, state : {"open", "ok", "fail"}, reply : Nat]
Ack == [rpc : Nat, ok : BOOLEAN]

TypeOK == /\ pc \in {"idle", "blocking", "loading"}
          /\ rpcId \in 0 .. MaxRpc
          /\ slot \in [Place -> SlotType]
          /\ pending \in Seq(Rpc)
          /\ callbacks \subseteq Rpc
          /\ transmit \in Seq(Rpc)
          /\ ackQ \in Seq(Ack) /\ Len(ackQ) <= AckCap
          /\ busy \in 0 .. MaxRpc
          /\ running \in BOOLEAN
          /\ acked \subseteq Rpc
          /\ log \in Seq([cb : Nat, reply : Nat])
          /\ verdict \in [Rpc -> Verdict]

Init == /\ pc = "idle" /\ rpcId = 0
        /\ slot = [i \in Place |-> [rpc |-> 0, state |-> "open", reply |-> 0]]
        /\ pending = <<>> /\ callbacks = {}
        /\ transmit = <<>> /\ ackQ = <<>>
        /\ busy = 0 /\ running = TRUE
        /\ acked = {} /\ log = <<>>
        /\ verdict = [r \in Rpc |-> "none"]

-----------------------------------------------------------------------------
(* Python.                                                                 *)

\* Mutant of Matches: an expired acknowledgement is not dropped.
MatchesPlace(a, i) == PlaceOf(a.rpc) = i

Matches(a, i) == PlaceOf(a.rpc) = i /\ slot[i].rpc = a.rpc

\* dequeue_available_ack_rpcs: the slots when ack_q has been emptied.
Taken ==
    [i \in Place |->
        LET found == {k \in DOMAIN ackQ : Matches(ackQ[k], i)}
            a == ackQ[CHOOSE k \in found : TRUE]
        IN IF found = {} THEN slot[i]
           ELSE IF a.ok THEN [slot[i] EXCEPT !.state = "ok", !.reply = a.rpc]
           ELSE [slot[i] EXCEPT !.state = "fail"]]

\* queue_rpc_to_transmit, and the callback that do_rpc remembers.
Queue == /\ pc = "idle"
         /\ rpcId < MaxRpc
         /\ ackQ' = <<>>
         /\ rpcId' = rpcId + 1
         /\ slot' = [Taken EXCEPT ![PlaceOf(rpcId')] =
                        [@ EXCEPT !.rpc = rpcId', !.state = "open"]]
         /\ transmit' = Append(transmit, rpcId')
         /\ callbacks' = callbacks \cup {rpcId'}
         /\ UNCHANGED <<log, verdict, thread>>

DoRpc == /\ Queue
         /\ pending' = Append(pending, rpcId')
         /\ UNCHANGED pc

DoRpcBlocking == /\ Queue
                 /\ pc' = "blocking"
                 /\ UNCHANGED pending

\* load_rpc_results begins; a cycle of the control loop calls it.
LoadResults == /\ pc = "idle"
               /\ pending # <<>>
               /\ pc' = "loading"
               /\ UNCHANGED <<pending, callbacks, log, verdict, library, thread,
                               transmit, ackQ>>

\* The RPC that _load_rpc_result is called for.
Wanted == IF pc = "blocking" THEN rpcId ELSE Head(pending)

Found(r) == Taken[PlaceOf(r)]
Expired(r) == Found(r).rpc # r

\* What a loaded result means for Python: a failed blocking RPC is forgotten,
\* any other is loaded once more with the pending ones.
Return(v) ==
    /\ verdict' = [verdict EXCEPT ![Wanted] = v]
    /\ IF pc = "blocking"
       THEN /\ pending' = IF v = "fail" THEN pending ELSE Append(pending, rpcId)
            /\ pc' = "idle"
       ELSE /\ pending' = Tail(pending)
            /\ pc' = IF Len(pending) = 1 THEN "idle" ELSE "loading"

\* load_rpc_result in the library.
Load == /\ pc # "idle"
        /\ ackQ' = <<>>
        /\ slot' = Taken
        /\ UNCHANGED <<rpcId, thread, transmit>>

\* Mutant of CallBack: the callback is not popped.
CallBackKept(s) ==
    /\ log' = IF s.rpc \in callbacks
              THEN Append(log, [cb |-> s.rpc, reply |-> s.reply]) ELSE log
    /\ UNCHANGED callbacks

\* _conversion_nonblocking_callback: the callback is popped and called.
CallBack(s) ==
    IF s.rpc \in callbacks
    THEN /\ callbacks' = callbacks \ {s.rpc}
         /\ log' = Append(log, [cb |-> s.rpc, reply |-> s.reply])
    ELSE UNCHANGED <<callbacks, log>>

LoadOk == /\ Load
          /\ ~Expired(Wanted)
          /\ Found(Wanted).state = "ok"
          /\ CallBack(Found(Wanted))
          /\ Return("ok")

LoadFailed == /\ Load
              /\ Expired(Wanted) \/ Found(Wanted).state = "fail"
              /\ Return("fail")
              /\ UNCHANGED <<callbacks, log>>

\* Not ready: wait for another millisecond.
NotReady == /\ Load
            /\ ~Expired(Wanted)
            /\ Found(Wanted).state = "open"
            /\ UNCHANGED python

\* Mutant of TimedOut: the wait has no end.
NeverTimedOut == FALSE /\ UNCHANGED vars

\* Not ready for a second.
TimedOut == /\ Load
            /\ ~Expired(Wanted)
            /\ Found(Wanted).state = "open"
            /\ Return("timeout")
            /\ UNCHANGED <<callbacks, log>>

\* stop_nonblocking_thread joins the thread; startup starts it again.
Stop == /\ pc = "idle"
        /\ running
        /\ busy = 0
        /\ running' = FALSE
        /\ UNCHANGED <<python, library, busy, acked, transmit, ackQ>>

Start == /\ pc = "idle"
         /\ ~running
         /\ running' = TRUE
         /\ UNCHANGED <<python, library, busy, acked, transmit, ackQ>>

-----------------------------------------------------------------------------
(* The queue thread.                                                       *)

Dequeue == /\ running
           /\ busy = 0
           /\ transmit # <<>>
           /\ busy' = Head(transmit)
           /\ transmit' = Tail(transmit)
           /\ UNCHANGED <<python, library, running, acked, ackQ>>

\* Mutant of PutAck: the queue has no bound.
PutAckAlways(ok) == ackQ' = Append(ackQ, [rpc |-> busy, ok |-> ok])

\* wait_enqueue_timed: when ack_q stays full the acknowledgement is dropped.
PutAck(ok) == ackQ' = IF Len(ackQ) = AckCap THEN ackQ
                      ELSE Append(ackQ, [rpc |-> busy, ok |-> ok])

\* The board has acknowledged, or the transaction failed.
Acknowledge == /\ busy # 0
               /\ acked' = acked \cup {busy}
               /\ PutAck(TRUE)
               /\ busy' = 0
               /\ UNCHANGED <<python, library, running, transmit>>

Failure == /\ busy # 0
           /\ PutAck(FALSE)
           /\ busy' = 0
           /\ UNCHANGED <<python, library, running, acked, transmit>>

\* A pull of RPC_V1_MAX_FRAMES frames, all with more to come: it returns as if
\* it had succeeded, and no acknowledgement is put.
Silence == /\ busy # 0
           /\ busy' = 0
           /\ UNCHANGED <<python, library, running, acked, transmit, ackQ>>

Await == LoadOk \/ LoadFailed \/ TimedOut
PythonStep == DoRpc \/ DoRpcBlocking \/ LoadResults \/ Await \/ NotReady
              \/ Stop \/ Start
ThreadStep == Dequeue \/ Acknowledge \/ Failure \/ Silence

Next == PythonStep \/ ThreadStep

(***************************************************************************)
(* Fairness: the control loop calls load_rpc_results in every cycle, and a *)
(* wait for a result looks at the clock.                                   *)
(***************************************************************************)
Fairness == WF_vars(LoadResults) /\ WF_vars(Await)

Spec == Init /\ [][Next]_vars /\ Fairness

-----------------------------------------------------------------------------
(* Properties.                                                             *)

Done == rpcId - Len(transmit) - (IF busy = 0 THEN 0 ELSE 1)

Delivery == INSTANCE RpcDelivery WITH issued <- rpcId, done <- Done

\* The queue delivers RPCs as RpcDelivery says, although slots are used again,
\* acknowledgements come late or are dropped, and results are loaded twice.
DeliveryRefined == Delivery!Spec

Called(r) == \E k \in DOMAIN log : log[k].cb = r

\* A result is true: 1 means that the board acknowledged and that the callback
\* has been called, 0 that the RPC failed, or that a later one took its slot
\* (_load_rpc_result, load_rpc_result in cpp/transport.cpp).
VerdictTrue == \A r \in Rpc :
    /\ verdict[r] = "ok" => r \in acked /\ Called(r)
    /\ verdict[r] = "fail" => r \notin acked \/ r + Slots <= rpcId

\* An RPC without a result is one that Python still waits for or will load.
NothingForgotten == \A r \in 1 .. rpcId : verdict[r] = "none" =>
    (\E k \in DOMAIN pending : pending[k] = r) \/ (pc = "blocking" /\ r = rpcId)

\* Every RPC gets a result, whether or not the queue thread runs or answers,
\* and until then Python does not forget it (the timeout in _load_rpc_result).
ResultComes == /\ \A r \in Rpc : rpcId >= r ~> verdict[r] # "none"
               /\ []NothingForgotten
=============================================================================
