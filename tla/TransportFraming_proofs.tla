----------------------- MODULE TransportFraming_proofs -----------------------
(***************************************************************************)
(* Proofs about TransportFraming: its types, and whose answer a callback   *)
(* is handed.  TimelyReplies speaks of the last call only.  The invariant  *)
(* behind it orders everything that is on the line: buffer, answer and     *)
(* request are one queue, and its i-th frame belongs to an RPC at most as  *)
(* far behind as there are late answers, and one more while a transaction  *)
(* waits, minus i.  A frame that the board drops moves the others up only. *)
(***************************************************************************)
EXTENDS TransportFraming, Integers, SequenceTheorems, TLAPS

\* What the types need to be inductive: where a transaction can be, and how many
\* answers can have been late.
Waiting == IF pc = "idle" THEN 0 ELSE 1
Progress ==
    /\ pc = "pull" => n < MaxFrames
    /\ pc = "push" => n < PushFrames
    /\ pc # "idle" => rpc # 0
    /\ late <= faults + rpc - Waiting

TInv == TypeOK /\ Progress

\* The frames of s are behind base others; the i-th of the line is at most l - i RPCs
\* behind the one that is now carried out.
Rpcs(s) == Len(s) \in Nat /\ \A i \in 1 .. Len(s) : s[i].rpc \in Nat
Lagging(s, base, now, l) ==
    \A i \in 1 .. Len(s) : s[i].rpc <= now /\ now - s[i].rpc <= l - (base + i)

LineLags ==
    /\ Len(buffer) + Len(answer) + Len(request) <= late + Waiting
    /\ Lagging(buffer, 0, rpc, late + Waiting)
    /\ Lagging(answer, Len(buffer), rpc, late + Waiting)
    /\ Lagging(request, Len(buffer) + Len(answer), rpc, late + Waiting)

\* So are the replies that a pull has gathered, and those that were handed over.
Within(s, now, l) == \A i \in 1 .. Len(s) : s[i].rpc <= now /\ now - s[i].rpc <= l
RepliesLag ==
    /\ pc # "idle" => Within(reply, rpc, late)
    /\ Within(called.frames, called.rpc, late)

\* While no answer was late, a push is as far as its next request or answer says,
\* unless the board has refused a frame of it.
Reached(k) == rpc \in refused \/ taken = [rpc |-> rpc, part |-> k]
Acknowledged == Reached(n + 1) /\ (n + 1 = PushFrames => rpc \in executed \cup refused)
PushInStep ==
    late = 0 /\ pc = "push" =>
        /\ \A i \in 1 .. Len(request) :
              /\ request[i].kind \in {"push", "bad"}
              /\ request[i].kind = "push" => request[i].part = n + 1 /\ (n = 0 \/ Reached(n))
        /\ \A i \in 1 .. Len(answer) : answer[i].kind # "bad" => Acknowledged
        /\ \A i \in 1 .. Len(buffer) : buffer[i].kind # "bad" => Acknowledged
PushDone ==
    late = 0 /\ called.kind = "push" /\ called.rpc # 0 => called.rpc \in executed \cup refused

IInv == LineLags /\ RepliesLag /\ PushInStep /\ PushDone

-----------------------------------------------------------------------------
\* A sequence with another first element.
LEMMA ExceptFirst ==
    ASSUME NEW S, NEW s \in Seq(S), s # <<>>, NEW e \in S
    PROVE  /\ [s EXCEPT ![1] = e] \in Seq(S)
           /\ Len([s EXCEPT ![1] = e]) = Len(s)
           /\ \A i \in 1 .. Len(s) : [s EXCEPT ![1] = e][i] = IF i = 1 THEN e ELSE s[i]
<1>1. Len(s) \in Nat \ {0}
    BY EmptySeq, SMT
<1> QED
    BY <1>1, ExceptSeq, SMT

\* A damaged frame keeps all but its kind, and the others are as they were.
LEMMA DamageReply ==
    ASSUME NEW s \in Seq(Reply), s # <<>>
    PROVE  LET t == [s EXCEPT ![1].kind = "bad"]
           IN  /\ t \in Seq(Reply) /\ Len(t) = Len(s)
               /\ \A i \in 1 .. Len(s) : t[i].rpc = s[i].rpc /\ t[i].kind \in {s[i].kind, "bad"}
<1>1. s[1] \in Reply
    BY EmptySeq, SMT
<1> DEFINE e == [s[1] EXCEPT !.kind = "bad"]
<1>2. e \in Reply /\ e.rpc = s[1].rpc /\ e.kind = "bad"
    BY <1>1 DEF Reply
<1>3. [s EXCEPT ![1].kind = "bad"] = [s EXCEPT ![1] = e]
    OBVIOUS
<1> HIDE DEF e
<1>4. /\ [s EXCEPT ![1] = e] \in Seq(Reply)
      /\ Len([s EXCEPT ![1] = e]) = Len(s)
      /\ \A i \in 1 .. Len(s) : [s EXCEPT ![1] = e][i] = IF i = 1 THEN e ELSE s[i]
    BY <1>2, ExceptFirst
<1> QED
    BY <1>2, <1>3, <1>4, Zenon

LEMMA DamageRequest ==
    ASSUME NEW s \in Seq(Request), s # <<>>
    PROVE  LET t == [s EXCEPT ![1].kind = "bad"]
           IN  /\ t \in Seq(Request) /\ Len(t) = Len(s)
               /\ \A i \in 1 .. Len(s) : /\ t[i].rpc = s[i].rpc /\ t[i].part = s[i].part
                                         /\ t[i].kind \in {s[i].kind, "bad"}
<1>1. s[1] \in Request
    BY EmptySeq, SMT
<1> DEFINE e == [s[1] EXCEPT !.kind = "bad"]
<1>2. e \in Request /\ e.rpc = s[1].rpc /\ e.part = s[1].part /\ e.kind = "bad"
    BY <1>1 DEF Request
<1>3. [s EXCEPT ![1].kind = "bad"] = [s EXCEPT ![1] = e]
    OBVIOUS
<1> HIDE DEF e
<1>4. /\ [s EXCEPT ![1] = e] \in Seq(Request)
      /\ Len([s EXCEPT ![1] = e]) = Len(s)
      /\ \A i \in 1 .. Len(s) : [s EXCEPT ![1] = e][i] = IF i = 1 THEN e ELSE s[i]
    BY <1>2, ExceptFirst
<1> QED
    BY <1>2, <1>3, <1>4, Zenon

\* What was read is the first frame, and the others have moved up by k places; all
\* but the first of them are as they were.
LEMMA ReadFrameFacts ==
    ASSUME TypeOK, ReadFrame
    PROVE  /\ Len(buffer) \in Nat \ {0} /\ Head(buffer) = buffer[1] /\ buffer[1] \in Reply
           /\ buffer' \in Seq(Reply) /\ Len(buffer') \in Nat
           /\ \E k \in 1 .. Len(buffer) :
                 /\ Len(buffer') = Len(buffer) - k
                 /\ \A i \in 1 .. Len(buffer') : buffer'[i].rpc = buffer[i + k].rpc
<1>1. buffer \in Seq(Reply) /\ buffer # <<>>
    BY DEF TypeOK, ReadFrame
<1>2. Len(buffer) \in Nat \ {0} /\ Head(buffer) = buffer[1] /\ buffer[1] \in Reply
    BY <1>1, EmptySeq, SMT
<1>3. PICK k \in 1 .. Len(buffer) :
         LET rest == SubSeq(buffer, k + 1, Len(buffer))
         IN  \/ buffer' = rest
             \/ rest # <<>> /\ buffer' = [rest EXCEPT ![1].kind = "bad"]
    BY Zenon DEF ReadFrame
<1> DEFINE rest == SubSeq(buffer, k + 1, Len(buffer))
<1>4. /\ rest \in Seq(Reply) /\ Len(rest) = Len(buffer) - k
      /\ \A i \in 1 .. Len(rest) : rest[i] = buffer[i + k]
    BY <1>1, <1>2, SMT
<1>7. buffer' = rest \/ (rest # <<>> /\ buffer' = [rest EXCEPT ![1].kind = "bad"])
    BY <1>3, Zenon
<1> HIDE DEF rest
<1>5. /\ buffer' \in Seq(Reply) /\ Len(buffer') = Len(rest)
      /\ \A i \in 1 .. Len(rest) : buffer'[i].rpc = rest[i].rpc
    BY <1>4, <1>7, DamageReply, Zenon
<1>6. \A i \in 1 .. Len(buffer') : buffer'[i].rpc = buffer[i + k].rpc
    BY <1>4, <1>5, Zenon
<1>8. Len(buffer') \in Nat
    BY <1>5, LenProperties
<1> QED
    BY <1>2, <1>4, <1>5, <1>6, <1>8

-----------------------------------------------------------------------------
(* The types, one lemma for each action.                                   *)

LEMMA InitTypes == Init => TInv
<1> SUFFICES ASSUME Init PROVE TInv
    OBVIOUS
<1>1. <<>> \in Seq(Reply) /\ <<>> \in Seq(Request)
    BY EmptySeq
<1>2. called \in [rpc : 0 .. MaxRpc, kind : Kind, frames : Seq(Reply)]
    BY <1>1, BoundAssumption DEF Init, Kind
<1>3. taken \in [rpc : 0 .. MaxRpc, part : 0 .. PushFrames]
    BY BoundAssumption, FramesAssumption DEF Init
<1>4. /\ rpc \in 0 .. MaxRpc /\ n \in 0 .. MaxFrames + PushFrames /\ serving \in 0 .. MaxRpc
      /\ faults \in 0 .. MaxFaults /\ late \in 0 .. MaxFaults + MaxRpc
    BY BoundAssumption, FramesAssumption DEF Init
<1>5. TypeOK
    BY <1>1, <1>2, <1>3, <1>4, Zenon DEF Init, TypeOK
<1>6. Progress
    BY DEF Init, Progress, Waiting
<1> QED
    BY <1>5, <1>6 DEF TInv

\* The frame that a transaction sends.
LEMMA SendFrameFacts ==
    ASSUME NEW r \in Rpc, NEW kind \in {"first", "more", "push"}, NEW part \in 1 .. PushFrames,
           request \in Seq(Request), SendFrame(r, kind, part)
    PROVE  /\ request' \in Seq(Request) /\ Len(request') = Len(request) + 1
           /\ \A i \in 1 .. Len(request) : request'[i] = request[i]
           /\ request'[Len(request) + 1] = [rpc |-> r, kind |-> kind, part |-> part]
<1>1. [rpc |-> r, kind |-> kind, part |-> part] \in Request
    BY DEF Request
<1> QED
    BY <1>1, AppendProperties DEF SendFrame

LEMMA BeginTypes ==
    ASSUME TInv, NEW kind \in Kind, Begin(kind)
    PROVE  TInv'
<1>1. rpc' \in Rpc /\ rpc' \in 0 .. MaxRpc /\ rpc' = rpc + 1 /\ n' = 0 /\ rpc' # 0
    BY BoundAssumption DEF TInv, TypeOK, Begin, Rpc
<1>2. 1 \in 1 .. PushFrames /\ 0 \in 0 .. MaxFrames + PushFrames
    BY FramesAssumption
<1>3. request' \in Seq(Request)
    BY <1>1, <1>2, SendFrameFacts, Zenon DEF TInv, TypeOK, Begin
<1>4. TypeOK'
    <2>1. reply' \in Seq(Reply)
        BY EmptySeq DEF Begin
    <2>2. pc' \in Kind \cup {"idle"}
        BY DEF Begin
    <2> QED
        BY <1>1, <1>2, <1>3, <2>1, <2>2, Zenon DEF TInv, TypeOK, Begin, board
<1>5. Progress'
    <2>1. pc' # "idle" /\ Waiting' = 1 /\ Waiting = 0
        BY DEF Begin, Waiting, Kind
    <2> QED
        BY <1>1, <2>1, FramesAssumption DEF TInv, TypeOK, Progress, Begin
<1> QED
    BY <1>4, <1>5 DEF TInv

\* What a transaction has after a frame is of its types; the frame is in Reply.
LEMMA PullReplyTypes ==
    ASSUME TInv, PullReply
    PROVE  TInv'
<1> DEFINE f == Head(buffer)
<1>1. /\ f \in Reply /\ buffer' \in Seq(Reply) /\ Len(buffer) \in Nat \ {0}
    BY ReadFrameFacts, Zenon DEF TInv, PullReply
<1>2. /\ pc = "pull" /\ rpc \in Rpc /\ rpc \in 0 .. MaxRpc /\ n \in Nat /\ n < MaxFrames
      /\ late \in Nat /\ faults \in 0 .. MaxFaults /\ late <= faults + rpc - 1
    BY DEF TInv, TypeOK, Progress, PullReply, Rpc, Waiting
<1>3. reply \in Seq(Reply) /\ Append(reply, f) \in Seq(Reply)
    BY <1>1, AppendProperties, Zenon DEF TInv, TypeOK
<1>4. 1 \in 1 .. PushFrames
    BY FramesAssumption
<1> HIDE DEF f
<1>5. /\ UNCHANGED <<rpc, board, answer, faults>>
      /\ \/ pc' = "idle" /\ UNCHANGED <<n, reply, request, called, late>>
         \/ /\ called' = [rpc |-> rpc, kind |-> pc, frames |-> Append(reply, f)]
            /\ pc' = "idle" /\ UNCHANGED <<n, reply, request, late>>
         \/ /\ SendFrame(rpc, "more", 1) /\ late' = late + 1
            /\ pc' = "idle" /\ UNCHANGED <<n, reply, called>>
         \/ /\ n + 1 < MaxFrames
            /\ n' = n + 1 /\ reply' = Append(reply, f)
            /\ SendFrame(rpc, "more", 1)
            /\ UNCHANGED <<pc, rpc, called, late>>
    BY Zenon DEF PullReply, End, f
<1>6. request' \in Seq(Request)
    BY <1>2, <1>4, <1>5, SendFrameFacts, Zenon DEF TInv, TypeOK
<1>7. reply' \in Seq(Reply) /\ pc' \in Kind \cup {"idle"}
    BY <1>2, <1>3, <1>5, Zenon DEF TInv, TypeOK
<1>8. called' \in [rpc : 0 .. MaxRpc, kind : Kind, frames : Seq(Reply)]
    <2>1. [rpc |-> rpc, kind |-> pc, frames |-> Append(reply, f)]
              \in [rpc : 0 .. MaxRpc, kind : Kind, frames : Seq(Reply)]
        BY <1>2, <1>3 DEF Kind
    <2> QED
        BY <1>5, <2>1, Zenon DEF TInv, TypeOK
<1>9. n' \in 0 .. MaxFrames + PushFrames /\ (pc' = "idle" \/ (pc' = "pull" /\ n' < MaxFrames))
    BY <1>2, <1>5, FramesAssumption
<1>10. late' <= faults' + rpc' - Waiting'
    <2>1. CASE pc' = "idle"
        <3>1. late' \in {late, late + 1} /\ Waiting' = 0
            BY <1>5, <2>1 DEF Waiting
        <3> QED
            BY <1>2, <1>5, <3>1
    <2>2. CASE pc' # "idle"
        <3>1. late' = late /\ Waiting' = 1
            BY <1>5, <2>2 DEF Waiting
        <3> QED
            BY <1>2, <1>5, <3>1
    <2> QED
        BY <2>1, <2>2
<1>11. late' \in 0 .. MaxFaults + MaxRpc
    <2>1. late' \in Nat /\ Waiting' \in {0, 1}
        BY <1>2, <1>5 DEF Waiting
    <2> QED
        BY <1>2, <1>5, <1>10, <2>1, BoundAssumption
<1>12. TypeOK'
    BY <1>1, <1>2, <1>5, <1>6, <1>7, <1>8, <1>9, <1>11, Zenon DEF TInv, TypeOK, board
<1>13. Progress'
    <2>1. rpc' # 0
        BY <1>2, <1>5 DEF Rpc
    <2> QED
        BY <1>9, <1>10, <2>1 DEF Progress
<1> QED
    BY <1>12, <1>13 DEF TInv

LEMMA PushReplyTypes ==
    ASSUME TInv, PushReply
    PROVE  TInv'
<1> DEFINE f == Head(buffer)
<1>1. /\ f \in Reply /\ buffer' \in Seq(Reply) /\ Len(buffer) \in Nat \ {0}
    BY ReadFrameFacts, Zenon DEF TInv, PushReply, PushAck
<1>2. /\ pc = "push" /\ rpc \in Rpc /\ rpc \in 0 .. MaxRpc /\ n \in Nat /\ n < PushFrames
      /\ late \in Nat /\ faults \in 0 .. MaxFaults /\ late <= faults + rpc - 1
    BY DEF TInv, TypeOK, Progress, PushReply, PushAck, Rpc, Waiting
<1>3. <<f>> \in Seq(Reply)
    BY <1>1
<1> HIDE DEF f
<1>5. /\ UNCHANGED <<rpc, reply, board, answer, faults, late>>
      /\ \/ pc' = "idle" /\ UNCHANGED <<n, request, called>>
         \/ /\ called' = [rpc |-> rpc, kind |-> pc, frames |-> <<f>>]
            /\ pc' = "idle" /\ UNCHANGED <<n, request>>
         \/ /\ n + 1 # PushFrames
            /\ n' = n + 1
            /\ SendFrame(rpc, "push", n + 2)
            /\ UNCHANGED <<pc, rpc, reply, called>>
    BY Zenon DEF PushReply, PushAck, End, f
<1>6. request' \in Seq(Request)
    <2>1. n + 1 # PushFrames => n + 2 \in 1 .. PushFrames
        BY <1>2, FramesAssumption
    <2> QED
        BY <1>2, <1>5, <2>1, SendFrameFacts, Zenon DEF TInv, TypeOK
<1>7. called' \in [rpc : 0 .. MaxRpc, kind : Kind, frames : Seq(Reply)]
    <2>1. [rpc |-> rpc, kind |-> pc, frames |-> <<f>>]
              \in [rpc : 0 .. MaxRpc, kind : Kind, frames : Seq(Reply)]
        BY <1>2, <1>3 DEF Kind
    <2>2. called' \in {called, [rpc |-> rpc, kind |-> pc, frames |-> <<f>>]}
        BY <1>5, Zenon
    <2>3. called \in [rpc : 0 .. MaxRpc, kind : Kind, frames : Seq(Reply)]
        BY DEF TInv, TypeOK
    <2> QED
        BY <2>1, <2>2, <2>3, Zenon
<1>8. /\ n' \in 0 .. MaxFrames + PushFrames /\ pc' \in Kind \cup {"idle"}
      /\ pc' = "idle" \/ (pc' = "push" /\ n' < PushFrames)
    BY <1>2, <1>5, FramesAssumption DEF Kind
<1>9. late' <= faults' + rpc' - Waiting'
    <2>1. late' = late /\ faults' = faults /\ rpc' = rpc
        BY <1>5
    <2>2. rpc \in Nat /\ faults \in Nat
        BY <1>2, BoundAssumption
    <2>3. Waiting' = 0 \/ Waiting' = 1
        BY DEF Waiting
    <2>4. late \in Nat /\ late <= faults + rpc - 1
        BY <1>2
    <2> QED
        BY <2>1, <2>2, <2>3, <2>4
<1>10. Progress'
    <2>1. rpc' # 0
        BY <1>2, <1>5 DEF Rpc
    <2> QED
        BY <1>8, <1>9, <2>1 DEF Progress
<1>11. TypeOK'
    BY <1>1, <1>2, <1>5, <1>6, <1>7, <1>8, Zenon DEF TInv, TypeOK, board
<1> QED
    BY <1>10, <1>11 DEF TInv

LEMMA TimeOutTypes ==
    ASSUME TInv, TimeOut
    PROVE  TInv'
<1>1. /\ \/ UNCHANGED <<faults, late>>
         \/ faults < MaxFaults /\ faults' = faults + 1 /\ late' = late + 1
      /\ pc' = "idle" /\ UNCHANGED <<rpc, n, reply, board, request, answer, buffer, called>>
    BY Zenon DEF TimeOut, End
<1>2. Progress'
    BY <1>1 DEF TInv, TypeOK, Progress, Waiting, TimeOut
<1>3. faults' \in 0 .. MaxFaults /\ late' \in 0 .. MaxFaults + MaxRpc
    <2>1. /\ faults \in 0 .. MaxFaults /\ late \in Nat /\ rpc \in 0 .. MaxRpc
          /\ late <= faults + rpc - 1
        BY DEF TInv, TypeOK, Progress, Waiting, TimeOut
    <2>2. late' = late \/ (late' = late + 1 /\ late' <= faults' + rpc)
        BY <1>1, <2>1
    <2> QED
        BY <1>1, <2>1, <2>2, BoundAssumption
<1>4. TypeOK'
    BY <1>1, <1>3, Zenon DEF TInv, TypeOK, board
<1> QED
    BY <1>2, <1>4 DEF TInv

LEMMA ServeTypes ==
    ASSUME TInv, Serve
    PROVE  TInv'
<1> DEFINE f == Head(request)
<1>1. f \in Request /\ request' \in Seq(Request)
    <2>1. request \in Seq(Request) /\ request # <<>>
        BY DEF TInv, TypeOK, Serve
    <2> QED
        BY <2>1, HeadTailProperties DEF Serve
<1>2. f.rpc \in Rpc /\ f.rpc \in 0 .. MaxRpc /\ f.part \in 0 .. PushFrames
    BY <1>1, FramesAssumption DEF Request, Rpc
<1> HIDE DEF f
<1>3. /\ serving' \in {serving, f.rpc, 0}
      /\ taken' \in {taken, [rpc |-> f.rpc, part |-> f.part]}
      /\ executed' \in {executed, executed \cup {f.rpc}}
      /\ refused' \in {refused, refused \cup {f.rpc}}
      /\ UNCHANGED answer \/ \E kind \in {"more", "last", "ack", "nack", "bad"} : Respond(f.rpc, kind)
      /\ UNCHANGED <<host, buffer, faults, late, called>>
    BY DEF Serve, f
<1>4. answer' \in Seq(Reply)
    <2>1. \A kind \in {"more", "last", "ack", "nack", "bad"} : [rpc |-> f.rpc, kind |-> kind] \in Reply
        BY <1>2 DEF Reply
    <2>2. \A kind \in {"more", "last", "ack", "nack", "bad"} :
             Append(answer, [rpc |-> f.rpc, kind |-> kind]) \in Seq(Reply)
        BY <2>1, AppendProperties, Zenon DEF TInv, TypeOK
    <2> QED
        BY <1>3, <2>2, Zenon DEF TInv, TypeOK, Respond
<1>5. serving' \in 0 .. MaxRpc /\ taken' \in [rpc : 0 .. MaxRpc, part : 0 .. PushFrames]
    <2>1. serving \in 0 .. MaxRpc /\ taken \in [rpc : 0 .. MaxRpc, part : 0 .. PushFrames]
        BY DEF TInv, TypeOK
    <2>2. 0 \in 0 .. MaxRpc
        BY BoundAssumption
    <2>3. [rpc |-> f.rpc, part |-> f.part] \in [rpc : 0 .. MaxRpc, part : 0 .. PushFrames]
        BY <1>2
    <2>4. serving' \in {serving, f.rpc, 0} /\ taken' \in {taken, [rpc |-> f.rpc, part |-> f.part]}
        BY <1>3, Zenon
    <2> QED
        BY <1>2, <2>1, <2>2, <2>3, <2>4, Zenon
<1>6. executed' \subseteq Rpc /\ refused' \subseteq Rpc
    BY <1>2, <1>3 DEF TInv, TypeOK
<1>7. TypeOK'
    BY <1>1, <1>3, <1>4, <1>5, <1>6, Zenon DEF TInv, TypeOK, host
<1>8. Progress'
    BY <1>3 DEF TInv, Progress, host, Waiting
<1> QED
    BY <1>7, <1>8 DEF TInv

LEMMA ArriveTypes ==
    ASSUME TInv, Arrive
    PROVE  TInv'
<1>1. answer \in Seq(Reply) /\ answer # <<>> /\ buffer \in Seq(Reply)
    BY DEF TInv, TypeOK, Arrive
<1>2. answer' \in Seq(Reply) /\ buffer' \in Seq(Reply)
    BY <1>1, HeadTailProperties, AppendProperties, Zenon DEF Arrive
<1>3. TypeOK'
    BY <1>2, Zenon DEF TInv, TypeOK, Arrive, host, board
<1>4. Progress'
    BY DEF TInv, Progress, Arrive, host, Waiting
<1> QED
    BY <1>3, <1>4 DEF TInv

LEMMA DamageTypes ==
    ASSUME TInv, Damage
    PROVE  TInv'
<1>1. request' \in Seq(Request) /\ answer' \in Seq(Reply)
    <2>1. \/ UNCHANGED request
          \/ request # <<>> /\ request' = [request EXCEPT ![1].kind = "bad"]
        BY DEF Damage
    <2>2. \/ UNCHANGED answer
          \/ answer # <<>> /\ answer' = [answer EXCEPT ![1].kind = "bad"]
        BY DEF Damage
    <2>3. request \in Seq(Request) /\ answer \in Seq(Reply)
        BY DEF TInv, TypeOK
    <2> QED
        BY <2>1, <2>2, <2>3, DamageRequest, DamageReply, Zenon
<1>2. faults' \in 0 .. MaxFaults /\ faults' = faults + 1
    <2>1. faults \in 0 .. MaxFaults
        BY Zenon DEF TInv, TypeOK
    <2>2. faults < MaxFaults /\ faults' = faults + 1
        BY Zenon DEF Damage
    <2> QED
        BY <2>1, <2>2, BoundAssumption
<1>3. TypeOK'
    BY <1>1, <1>2, Zenon DEF TInv, TypeOK, Damage, host, board
<1>4. Progress'
    <2>1. UNCHANGED <<pc, rpc, n, late>>
        BY Zenon DEF Damage, host
    <2>2. /\ late \in Nat /\ faults \in Nat /\ faults' = faults + 1
          /\ rpc \in Nat /\ Waiting \in Nat
        BY <1>2, BoundAssumption DEF TInv, TypeOK, Waiting
    <2>3. Progress
        BY Zenon DEF TInv
    <2>4. Waiting' = Waiting
        BY <2>1 DEF Waiting
    <2>5. late' <= faults' + rpc' - Waiting'
        BY <2>1, <2>2, <2>3, <2>4 DEF Progress
    <2> QED
        BY <2>1, <2>3, <2>5, Zenon DEF Progress
<1> QED
    BY <1>3, <1>4 DEF TInv

LEMMA NextTypes == TInv /\ [Next]_vars => TInv'
<1> SUFFICES ASSUME TInv, [Next]_vars PROVE TInv'
    OBVIOUS
<1>1. CASE Next
    BY <1>1, BeginTypes, PullReplyTypes, PushReplyTypes, TimeOutTypes, ServeTypes, ArriveTypes,
       DamageTypes, Zenon DEF Next, Host
<1>2. CASE UNCHANGED vars
    <2>1. TypeOK'
        BY <1>2, Zenon DEF TInv, TypeOK, vars, host, board
    <2>2. Progress'
        BY <1>2 DEF TInv, Progress, Waiting, vars, host
    <2> QED
        BY <2>1, <2>2 DEF TInv
<1> QED
    BY <1>1, <1>2

-----------------------------------------------------------------------------
(* The line: how far behind its frames are.                                *)

LEMMA ReplyRpcs == ASSUME NEW s \in Seq(Reply) PROVE Rpcs(s)
<1>1. Len(s) \in Nat /\ \A i \in 1 .. Len(s) : s[i] \in Reply
    BY LenProperties, ElementOfSeq
<1> QED
    BY <1>1 DEF Rpcs, Reply, Rpc

LEMMA RequestRpcs == ASSUME NEW s \in Seq(Request) PROVE Rpcs(s)
<1>1. Len(s) \in Nat /\ \A i \in 1 .. Len(s) : s[i] \in Request
    BY LenProperties, ElementOfSeq
<1> QED
    BY <1>1 DEF Rpcs, Request, Rpc

\* The first d of the frames are gone, and those before them have become more or fewer.
LEMMA LaggingMoves ==
    ASSUME NEW s, NEW t, Rpcs(s), Rpcs(t), NEW d \in Nat, Len(t) = Len(s) - d,
           \A i \in 1 .. Len(t) : t[i].rpc = s[i + d].rpc,
           NEW base \in Nat, NEW base2 \in Nat, NEW now \in Nat, NEW now2 \in Nat,
           NEW l \in Nat, NEW l2 \in Nat,
           Lagging(s, base, now, l),
           now <= now2, (now2 - now) + (l - (base + d)) <= l2 - base2
    PROVE  Lagging(t, base2, now2, l2)
<1> SUFFICES ASSUME NEW i \in 1 .. Len(t)
             PROVE  t[i].rpc <= now2 /\ now2 - t[i].rpc <= l2 - (base2 + i)
    BY DEF Lagging
<1>1. i + d \in 1 .. Len(s) /\ t[i].rpc = s[i + d].rpc
    BY DEF Rpcs
<1>2. s[i + d].rpc \in Nat
    BY <1>1 DEF Rpcs
<1>3. s[i + d].rpc <= now /\ now - s[i + d].rpc <= l - (base + (i + d))
    BY <1>1 DEF Lagging
<1>4. i \in Nat
    BY DEF Rpcs
<1>5. s[i + d].rpc <= now2 /\ now2 - s[i + d].rpc <= l2 - (base2 + i)
    <2> DEFINE x == s[i + d].rpc
    <2>1. x \in Nat /\ x <= now /\ now - x <= l - (base + (i + d))
        BY <1>2, <1>3
    <2> HIDE DEF x
    <2>2. x <= now2 /\ now2 - x <= l2 - (base2 + i)
        BY <2>1, <1>4
    <2> QED
        BY <2>2 DEF x
<1> QED
    BY <1>1, <1>5

\* The same frames, seen from another RPC or behind others.
LEMMA LaggingOn ==
    ASSUME NEW s, Rpcs(s),
           NEW base \in Nat, NEW base2 \in Nat, NEW now \in Nat, NEW now2 \in Nat,
           NEW l \in Nat, NEW l2 \in Nat,
           Lagging(s, base, now, l),
           now <= now2, (now2 - now) + (l - base) <= l2 - base2
    PROVE  Lagging(s, base2, now2, l2)
BY DEF Lagging, Rpcs

\* One frame more.
LEMMA LaggingGrows ==
    ASSUME NEW s, NEW t, Rpcs(s), Rpcs(t), Len(t) = Len(s) + 1,
           \A i \in 1 .. Len(s) : t[i].rpc = s[i].rpc,
           NEW base \in Nat, NEW now \in Nat, NEW l \in Nat,
           Lagging(s, base, now, l),
           t[Len(s) + 1].rpc <= now, now - t[Len(s) + 1].rpc <= l - (base + Len(s) + 1)
    PROVE  Lagging(t, base, now, l)
<1> SUFFICES ASSUME NEW i \in 1 .. Len(t)
             PROVE  t[i].rpc <= now /\ now - t[i].rpc <= l - (base + i)
    BY DEF Lagging
<1>1. Len(s) \in Nat
    BY DEF Rpcs
<1>2. CASE i \in 1 .. Len(s)
    BY <1>2 DEF Lagging
<1>3. CASE i = Len(s) + 1
    BY <1>1, <1>3
<1> QED
    BY <1>1, <1>2, <1>3

\* The same frames; only their kinds may have changed.
LEMMA LaggingSame ==
    ASSUME NEW s, NEW t, Len(t) = Len(s), \A i \in 1 .. Len(s) : t[i].rpc = s[i].rpc,
           NEW base, NEW now, NEW l, Lagging(s, base, now, l)
    PROVE  Lagging(t, base, now, l)
BY DEF Lagging

LEMMA WithinGrows ==
    ASSUME NEW s, NEW t, Rpcs(s), Rpcs(t), Len(t) = Len(s) + 1,
           \A i \in 1 .. Len(s) : t[i].rpc = s[i].rpc,
           NEW now \in Nat, NEW l \in Nat, Within(s, now, l),
           t[Len(s) + 1].rpc <= now, now - t[Len(s) + 1].rpc <= l
    PROVE  Within(t, now, l)
<1> SUFFICES ASSUME NEW i \in 1 .. Len(t) PROVE t[i].rpc <= now /\ now - t[i].rpc <= l
    BY DEF Within
<1>1. i \in 1 .. Len(s) \/ i = Len(s) + 1
    BY DEF Rpcs
<1> QED
    BY <1>1 DEF Within

LEMMA WithinLater ==
    ASSUME NEW s, Rpcs(s), NEW now \in Nat, NEW l \in Nat, NEW l2 \in Nat, l <= l2, Within(s, now, l)
    PROVE  Within(s, now, l2)
BY DEF Within, Rpcs

LEMMA LineFacts ==
    ASSUME TInv
    PROVE  /\ Rpcs(buffer) /\ Rpcs(answer) /\ Rpcs(request) /\ Rpcs(reply) /\ Rpcs(called.frames)
           /\ Len(buffer) \in Nat /\ Len(answer) \in Nat /\ Len(request) \in Nat
           /\ rpc \in Nat /\ late \in Nat /\ called.rpc \in Nat
           /\ Waiting = 0 \/ Waiting = 1
           /\ late + Waiting \in Nat
<1>1. /\ buffer \in Seq(Reply) /\ answer \in Seq(Reply) /\ reply \in Seq(Reply)
      /\ called.frames \in Seq(Reply) /\ request \in Seq(Request)
    BY DEF TInv, TypeOK
<1>2. Rpcs(buffer) /\ Rpcs(answer) /\ Rpcs(request) /\ Rpcs(reply) /\ Rpcs(called.frames)
    BY <1>1, ReplyRpcs, RequestRpcs, Zenon
<1>3. rpc \in Nat /\ late \in Nat /\ called.rpc \in Nat
    BY BoundAssumption DEF TInv, TypeOK
<1>4. Waiting = 0 \/ Waiting = 1
    BY DEF Waiting
<1>5. late + Waiting \in Nat
    BY <1>3, <1>4
<1> QED
    BY <1>2, <1>3, <1>4, <1>5, Zenon DEF Rpcs

LEMMA BeginLags ==
    ASSUME TInv, LineLags, NEW kind \in Kind, Begin(kind)
    PROVE  LineLags'
<1> DEFINE l == late + Waiting
<1>1. TInv'
    BY BeginTypes
<1>2. rpc' = rpc + 1 /\ late' = late /\ Waiting = 0 /\ Waiting' = 1 /\ late' + Waiting' = l + 1
      /\ UNCHANGED <<buffer, answer>>
    BY LineFacts DEF Begin, Waiting, Kind
<1>3. /\ Rpcs(buffer) /\ Rpcs(answer) /\ Rpcs(request) /\ rpc \in Nat /\ l \in Nat
      /\ rpc + 1 \in Nat /\ l + 1 \in Nat
      /\ Len(buffer) \in Nat /\ Len(answer) \in Nat /\ Len(request) \in Nat
    BY LineFacts
<1>4. Rpcs(request')
    BY <1>1, RequestRpcs, Zenon DEF TInv, TypeOK
<1>5. /\ Len(request') = Len(request) + 1
      /\ \A i \in 1 .. Len(request) : request'[i] = request[i]
      /\ request'[Len(request) + 1].rpc = rpc + 1
    <2> DEFINE sent == IF kind = "pull" THEN "first" ELSE "push"
    <2>1. rpc' \in Rpc /\ 1 \in 1 .. PushFrames
        BY <1>2, <1>3, FramesAssumption, BoundAssumption DEF Begin, Rpc
    <2>2. request \in Seq(Request) /\ SendFrame(rpc', sent, 1)
        BY Zenon DEF TInv, TypeOK, Begin
    <2>3. sent \in {"first", "more", "push"}
        OBVIOUS
    <2> HIDE DEF sent
    <2>4. /\ Len(request') = Len(request) + 1
          /\ \A i \in 1 .. Len(request) : request'[i] = request[i]
          /\ request'[Len(request) + 1] = [rpc |-> rpc', kind |-> sent, part |-> 1]
        BY <2>1, <2>2, <2>3, SendFrameFacts, Zenon
    <2>5. request'[Len(request) + 1].rpc = rpc'
        BY <2>4
    <2> QED
        BY <1>2, <2>4, <2>5, Zenon
<1> HIDE DEF l
<1>6. /\ Len(buffer) + Len(answer) + Len(request) <= l
      /\ Lagging(buffer, 0, rpc, l) /\ Lagging(answer, Len(buffer), rpc, l)
      /\ Lagging(request, Len(buffer) + Len(answer), rpc, l)
    BY DEF LineLags, l
<1>7. Lagging(buffer, 0, rpc + 1, l + 1)
    <2>1. Rpcs(buffer) /\ rpc \in Nat /\ l \in Nat /\ Lagging(buffer, 0, rpc, l)
        BY <1>3, <1>6
    <2> QED
        BY <2>1 DEF Lagging, Rpcs
<1>8. Lagging(answer, Len(buffer), rpc + 1, l + 1)
    <2>1. /\ Rpcs(answer) /\ rpc \in Nat /\ l \in Nat /\ Len(buffer) \in Nat
          /\ Lagging(answer, Len(buffer), rpc, l)
        BY <1>3, <1>6
    <2>2. rpc <= rpc + 1 /\ ((rpc + 1) - rpc) + (l - Len(buffer)) <= (l + 1) - Len(buffer)
        BY <2>1
    <2>3. rpc + 1 \in Nat /\ l + 1 \in Nat
        BY <2>1
    <2> QED
        BY <2>1, <2>2, <2>3, LaggingOn, Zenon
<1>9. Lagging(request', Len(buffer) + Len(answer), rpc + 1, l + 1)
    <2> DEFINE base == Len(buffer) + Len(answer)
    <2>1. /\ base \in Nat /\ rpc + 1 \in Nat /\ l + 1 \in Nat
          /\ rpc <= rpc + 1 /\ ((rpc + 1) - rpc) + (l - base) <= (l + 1) - base
          /\ base + Len(request) <= l
        BY <1>3, <1>6
    <2>2. /\ request'[Len(request) + 1].rpc <= rpc + 1
          /\ (rpc + 1) - request'[Len(request) + 1].rpc <= (l + 1) - (base + Len(request) + 1)
        BY <1>3, <1>5, <2>1
    <2>3. \A i \in 1 .. Len(request) : request'[i].rpc = request[i].rpc
        BY <1>5
    <2> HIDE DEF base
    <2>4. Lagging(request, base, rpc + 1, l + 1)
        BY <1>3, <1>6, <2>1, LaggingOn, Zenon DEF base
    <2>5. Lagging(request', base, rpc + 1, l + 1)
        BY <1>3, <1>4, <1>5, <2>1, <2>2, <2>3, <2>4, LaggingGrows, Zenon
    <2> QED
        BY <2>5 DEF base
<1>10. Len(buffer) + Len(answer) + Len(request') <= l + 1
    BY <1>3, <1>5, <1>6
<1> QED
    BY <1>2, <1>7, <1>8, <1>9, <1>10, Zenon DEF LineLags

\* A transaction that has read a frame either ends, or asks for another and either
\* waits for it or leaves it behind as a late one.
LEMMA ReadLags ==
    ASSUME TInv, TInv', LineLags, ReadFrame, pc # "idle", UNCHANGED <<rpc, answer>>,
           late + Waiting <= (late' + Waiting') + 1,
           \/ UNCHANGED request
           \/ /\ late' + Waiting' = late + Waiting
              /\ \E kind \in {"first", "more", "push"}, part \in 1 .. PushFrames :
                    SendFrame(rpc, kind, part)
    PROVE  LineLags'
<1> DEFINE l == late + Waiting
           m == late' + Waiting'
<1>1. /\ Rpcs(buffer) /\ Rpcs(answer) /\ Rpcs(request) /\ rpc \in Nat /\ l \in Nat
      /\ Len(buffer) \in Nat /\ Len(answer) \in Nat /\ Len(request) \in Nat
    BY LineFacts
<1>2. Rpcs(buffer') /\ Rpcs(request') /\ Len(buffer') \in Nat
    BY ReplyRpcs, RequestRpcs, Zenon DEF TInv, TypeOK, Rpcs
<1>3. m \in Nat
    <2>1. late' \in Nat /\ (Waiting' = 0 \/ Waiting' = 1)
        BY BoundAssumption DEF TInv, TypeOK, Waiting
    <2> QED
        BY <2>1
<1>4. PICK k \in 1 .. Len(buffer) :
         /\ Len(buffer') = Len(buffer) - k
         /\ \A i \in 1 .. Len(buffer') : buffer'[i].rpc = buffer[i + k].rpc
    BY ReadFrameFacts DEF TInv
<1>5. k \in Nat /\ l <= m + 1 /\ 1 <= k
    <2>1. k \in Nat /\ 1 <= k
        BY <1>1, <1>4
    <2>2. l <= m + 1
        OBVIOUS
    <2> QED
        BY <2>1, <2>2
<1>6. \/ UNCHANGED request
      \/ /\ m = l /\ Len(request') = Len(request) + 1
         /\ \A i \in 1 .. Len(request) : request'[i].rpc = request[i].rpc
         /\ request'[Len(request) + 1].rpc = rpc
    <2>1. ASSUME NEW kind \in {"first", "more", "push"}, NEW part \in 1 .. PushFrames,
                 SendFrame(rpc, kind, part)
          PROVE  /\ Len(request') = Len(request) + 1
                 /\ \A i \in 1 .. Len(request) : request'[i].rpc = request[i].rpc
                 /\ request'[Len(request) + 1].rpc = rpc
        <3>1. request \in Seq(Request) /\ rpc \in Rpc
            BY DEF TInv, TypeOK, Progress, Rpc
        <3>2. /\ Len(request') = Len(request) + 1
              /\ \A i \in 1 .. Len(request) : request'[i] = request[i]
              /\ request'[Len(request) + 1] = [rpc |-> rpc, kind |-> kind, part |-> part]
            BY <2>1, <3>1, SendFrameFacts, Zenon
        <3>3. request'[Len(request) + 1].rpc = rpc
            BY <3>2
        <3> QED
            BY <3>2, <3>3, Zenon
    <2> QED
        BY <2>1, Zenon
<1> HIDE DEF l, m
<1>7. /\ Len(buffer) + Len(answer) + Len(request) <= l
      /\ Lagging(buffer, 0, rpc, l) /\ Lagging(answer, Len(buffer), rpc, l)
      /\ Lagging(request, Len(buffer) + Len(answer), rpc, l)
    BY DEF LineLags, l
<1> DEFINE base == Len(buffer) + Len(answer)
           base2 == Len(buffer') + Len(answer)
<1>8. /\ base \in Nat /\ base2 \in Nat /\ 0 \in Nat /\ rpc <= rpc
      /\ (rpc - rpc) + (l - (0 + k)) <= m - 0
      /\ (rpc - rpc) + (l - Len(buffer)) <= m - Len(buffer')
      /\ (rpc - rpc) + (l - base) <= m - base2
    BY <1>1, <1>2, <1>3, <1>4, <1>5
<1>9. Lagging(buffer', 0, rpc, m)
    BY <1>1, <1>2, <1>3, <1>4, <1>5, <1>7, <1>8, LaggingMoves, Zenon
<1>10. Lagging(answer, Len(buffer'), rpc, m)
    BY <1>1, <1>2, <1>3, <1>7, <1>8, LaggingOn, Zenon
<1>11. Lagging(request', base2, rpc, m)
    <2>1. Lagging(request, base2, rpc, m)
        <3> HIDE DEF base2
        <3> QED
            BY <1>1, <1>3, <1>7, <1>8, LaggingOn, Zenon
    <2>2. CASE UNCHANGED request
        BY <2>1, <2>2, Zenon
    <2>3. CASE request' # request
        <3>1. /\ request'[Len(request) + 1].rpc <= rpc
              /\ rpc - request'[Len(request) + 1].rpc <= m - (base2 + Len(request) + 1)
            BY <1>1, <1>2, <1>3, <1>4, <1>5, <1>6, <1>7, <2>3
        <3> HIDE DEF base2
        <3> QED
            BY <1>1, <1>2, <1>3, <1>6, <1>8, <2>1, <2>3, <3>1, LaggingGrows, Zenon
    <2> QED
        BY <2>2, <2>3, Zenon
<1>12. Len(buffer') + Len(answer) + Len(request') <= m
    BY <1>1, <1>2, <1>3, <1>4, <1>5, <1>6, <1>7
<1>13. answer' = answer
    OBVIOUS
<1> QED
    BY <1>9, <1>10, <1>11, <1>12, <1>13, Zenon DEF LineLags, m

\* What a transaction does with a frame, in the disjuncts of the code.
LEMMA PullSteps ==
    ASSUME PullReply
    PROVE  /\ pc = "pull" /\ ReadFrame /\ UNCHANGED <<rpc, board, answer, faults>>
           /\ \/ pc' = "idle" /\ UNCHANGED <<request, called, late>>
              \/ /\ called' = [rpc |-> rpc, kind |-> pc, frames |-> Append(reply, Head(buffer))]
                 /\ pc' = "idle" /\ UNCHANGED <<request, late>>
              \/ /\ SendFrame(rpc, "more", 1) /\ late' = late + 1
                 /\ pc' = "idle" /\ UNCHANGED called
              \/ /\ reply' = Append(reply, Head(buffer)) /\ SendFrame(rpc, "more", 1)
                 /\ UNCHANGED <<pc, called, late>>
BY Zenon DEF PullReply, End

LEMMA PushSteps ==
    ASSUME PushReply
    PROVE  /\ pc = "push" /\ ReadFrame /\ UNCHANGED <<rpc, reply, board, answer, faults, late>>
           /\ \/ pc' = "idle" /\ UNCHANGED <<request, called>>
              \/ /\ Head(buffer).kind # "bad" /\ n + 1 = PushFrames
                 /\ called' = [rpc |-> rpc, kind |-> pc, frames |-> <<Head(buffer)>>]
                 /\ pc' = "idle" /\ UNCHANGED request
              \/ /\ Head(buffer).kind # "bad" /\ n + 1 # PushFrames
                 /\ n' = n + 1 /\ SendFrame(rpc, "push", n + 2)
                 /\ UNCHANGED <<pc, called>>
BY Zenon DEF PushReply, PushAck, End

LEMMA PullLags ==
    ASSUME TInv, LineLags, PullReply
    PROVE  LineLags'
<1>1. TInv'
    BY PullReplyTypes
<1>2. pc # "idle" /\ ReadFrame /\ UNCHANGED <<rpc, answer>>
    BY PullSteps
<1>3. Waiting = 1 /\ late \in Nat
    BY <1>2, LineFacts DEF Waiting
<1>4. 1 \in 1 .. PushFrames
    BY FramesAssumption
<1>5. CASE pc' = "idle" /\ UNCHANGED <<request, late>>
    <2>1. late + Waiting <= (late' + Waiting') + 1
        BY <1>3, <1>5 DEF Waiting
    <2> QED
        BY <1>1, <1>2, <1>5, <2>1, ReadLags, Zenon
<1>6. CASE SendFrame(rpc, "more", 1) /\ late' = late + 1 /\ pc' = "idle"
    <2>1. late' + Waiting' = late + Waiting
        BY <1>3, <1>6 DEF Waiting
    <2>2. late + Waiting <= (late' + Waiting') + 1
        BY <1>3, <2>1
    <2> QED
        BY <1>1, <1>2, <1>4, <1>6, <2>1, <2>2, ReadLags, Zenon
<1>7. CASE SendFrame(rpc, "more", 1) /\ UNCHANGED <<pc, late>>
    <2>1. late' + Waiting' = late + Waiting
        BY <1>7 DEF Waiting
    <2>2. late + Waiting <= (late' + Waiting') + 1
        BY <1>3, <2>1
    <2> QED
        BY <1>1, <1>2, <1>4, <1>7, <2>1, <2>2, ReadLags, Zenon
<1> QED
    BY <1>5, <1>6, <1>7, PullSteps, Zenon

LEMMA PushLags ==
    ASSUME TInv, LineLags, PushReply
    PROVE  LineLags'
<1>1. TInv'
    BY PushReplyTypes
<1>2. pc # "idle" /\ ReadFrame /\ UNCHANGED <<rpc, answer, late>>
    BY PushSteps
<1>3. Waiting = 1 /\ late \in Nat
    BY <1>2, LineFacts DEF Waiting
<1>4. CASE pc' = "idle" /\ UNCHANGED request
    <2>1. late + Waiting <= (late' + Waiting') + 1
        BY <1>2, <1>3, <1>4 DEF Waiting
    <2> QED
        BY <1>1, <1>2, <1>4, <2>1, ReadLags, Zenon
<1>5. CASE n + 1 # PushFrames /\ SendFrame(rpc, "push", n + 2) /\ UNCHANGED pc
    <2>1. late' + Waiting' = late + Waiting
        BY <1>2, <1>5 DEF Waiting
    <2>2. late + Waiting <= (late' + Waiting') + 1
        BY <1>3, <2>1
    <2>3. n + 2 \in 1 .. PushFrames
        <3>1. n \in Nat /\ n < PushFrames
            BY FramesAssumption, PushSteps DEF TInv, TypeOK, Progress
        <3> QED
            BY <1>5, <3>1, FramesAssumption
    <2> QED
        BY <1>1, <1>2, <1>5, <2>1, <2>2, <2>3, ReadLags, Zenon
<1> QED
    BY <1>4, <1>5, PushSteps, Zenon

LEMMA TimeOutLags ==
    ASSUME TInv, LineLags, TimeOut
    PROVE  LineLags'
<1>1. /\ pc # "idle" /\ pc' = "idle" /\ buffer = <<>>
      /\ UNCHANGED <<rpc, request, answer, buffer>>
      /\ \/ request = <<>> /\ answer = <<>> /\ UNCHANGED late
         \/ late' = late + 1
    BY Zenon DEF TimeOut, End
<1>2. Waiting = 1 /\ Waiting' = 0 /\ late \in Nat
    BY <1>1, LineFacts DEF Waiting
<1>3. CASE late' = late + 1
    <2>1. late' + Waiting' = late + Waiting
        BY <1>2, <1>3
    <2> QED
        BY <1>1, <2>1, Zenon DEF LineLags
<1>4. CASE request = <<>> /\ answer = <<>> /\ UNCHANGED late
    <2>1. Len(request) = 0 /\ Len(answer) = 0 /\ Len(buffer) = 0
        BY <1>1, <1>4
    <2>2. /\ Lagging(buffer', 0, rpc', late' + Waiting')
          /\ Lagging(answer', Len(buffer'), rpc', late' + Waiting')
          /\ Lagging(request', Len(buffer') + Len(answer'), rpc', late' + Waiting')
        BY <1>1, <2>1 DEF Lagging
    <2>3. Len(buffer') + Len(answer') + Len(request') <= late' + Waiting'
        BY <1>1, <1>2, <1>4, <2>1
    <2> QED
        BY <2>2, <2>3 DEF LineLags
<1> QED
    BY <1>1, <1>3, <1>4, Zenon

\* The first of a sequence is taken away, and one is appended to another.
LEMMA TailRpcs ==
    ASSUME NEW S, NEW s \in Seq(S), s # <<>>
    PROVE  /\ Len(s) \in Nat \ {0} /\ Head(s) = s[1] /\ s[1] \in S
           /\ Len(Tail(s)) = Len(s) - 1
           /\ \A i \in 1 .. Len(Tail(s)) : Tail(s)[i].rpc = s[i + 1].rpc
<1>1. Len(s) \in Nat \ {0} /\ Head(s) = s[1] /\ s[1] \in S
    BY EmptySeq, SMT
<1>2. /\ Len(Tail(s)) = Len(s) - 1
      /\ \A i \in 1 .. Len(Tail(s)) : Tail(s)[i] = s[i + 1]
    BY HeadTailProperties
<1> QED
    BY <1>1, <1>2, Zenon

LEMMA AppendRpcs ==
    ASSUME NEW S, NEW s \in Seq(S), NEW e \in S
    PROVE  /\ Len(Append(s, e)) = Len(s) + 1
           /\ Append(s, e)[Len(s) + 1].rpc = e.rpc
           /\ \A i \in 1 .. Len(s) : Append(s, e)[i].rpc = s[i].rpc
<1>1. /\ Len(Append(s, e)) = Len(s) + 1 /\ Append(s, e)[Len(s) + 1] = e
      /\ \A i \in 1 .. Len(s) : Append(s, e)[i] = s[i]
    BY AppendProperties
<1> QED
    BY <1>1, Zenon

\* One sequence hands its first frame to the end of the one before it, which keeps
\* its place on the line; or drops it.
LEMMA HandOver ==
    ASSUME NEW s, NEW t, NEW s2, NEW t2, Rpcs(s), Rpcs(t), Rpcs(s2), Rpcs(t2),
           NEW base \in Nat, NEW now \in Nat, NEW l \in Nat,
           Lagging(s, base, now, l), Lagging(t, base + Len(s), now, l),
           Len(t) # 0, Len(t2) = Len(t) - 1, \A i \in 1 .. Len(t2) : t2[i].rpc = t[i + 1].rpc,
           \/ s2 = s
           \/ /\ Len(s2) = Len(s) + 1 /\ s2[Len(s) + 1].rpc = t[1].rpc
              /\ \A i \in 1 .. Len(s) : s2[i].rpc = s[i].rpc
    PROVE  Lagging(s2, base, now, l) /\ Lagging(t2, base + Len(s2), now, l)
<1>1. Len(s) \in Nat /\ Len(t) \in Nat /\ Len(s2) \in Nat /\ Len(s2) <= Len(s) + 1
    BY DEF Rpcs
<1>2. t[1].rpc <= now /\ now - t[1].rpc <= l - (base + Len(s) + 1)
    BY <1>1 DEF Lagging
<1>3. Lagging(s2, base, now, l)
    <2>1. CASE s2 = s
        BY <2>1
    <2>2. CASE /\ Len(s2) = Len(s) + 1 /\ s2[Len(s) + 1].rpc = t[1].rpc
               /\ \A i \in 1 .. Len(s) : s2[i].rpc = s[i].rpc
        BY <1>2, <2>2, LaggingGrows, Zenon
    <2> QED
        BY <2>1, <2>2
<1>4. /\ base + Len(s) \in Nat /\ base + Len(s2) \in Nat /\ 1 \in Nat /\ now <= now
      /\ (now - now) + (l - ((base + Len(s)) + 1)) <= l - (base + Len(s2))
    BY <1>1
<1>5. Lagging(t2, base + Len(s2), now, l)
    BY <1>4, LaggingMoves, Zenon
<1> QED
    BY <1>3, <1>5

LEMMA ServeLags ==
    ASSUME TInv, LineLags, Serve
    PROVE  LineLags'
<1> DEFINE l == late + Waiting
<1>1. TInv'
    BY ServeTypes
<1>2. /\ Rpcs(buffer) /\ Rpcs(answer) /\ Rpcs(request) /\ rpc \in Nat /\ l \in Nat
      /\ Len(buffer) \in Nat /\ Len(answer) \in Nat /\ Len(request) \in Nat
      /\ Rpcs(answer') /\ Rpcs(request')
    <2>1. Rpcs(answer') /\ Rpcs(request')
        BY <1>1, ReplyRpcs, RequestRpcs, Zenon DEF TInv, TypeOK
    <2> QED
        BY <2>1, LineFacts
<1>3. request \in Seq(Request) /\ request # <<>> /\ request' = Tail(request)
    BY DEF TInv, TypeOK, Serve
<1>4. /\ Len(request) # 0 /\ Head(request) = request[1] /\ request[1] \in Request
      /\ Len(request') = Len(request) - 1
      /\ \A i \in 1 .. Len(request') : request'[i].rpc = request[i + 1].rpc
    BY <1>3, TailRpcs
<1>5. \/ answer' = answer
      \/ /\ Len(answer') = Len(answer) + 1 /\ answer'[Len(answer) + 1].rpc = request[1].rpc
         /\ \A i \in 1 .. Len(answer) : answer'[i].rpc = answer[i].rpc
    <2>1. \/ answer' = answer
          \/ \E kind \in {"more", "last", "ack", "nack", "bad"} : Respond(request[1].rpc, kind)
        BY <1>4 DEF Serve
    <2>2. ASSUME NEW kind \in {"more", "last", "ack", "nack", "bad"}, Respond(request[1].rpc, kind)
          PROVE  /\ Len(answer') = Len(answer) + 1 /\ answer'[Len(answer) + 1].rpc = request[1].rpc
                 /\ \A i \in 1 .. Len(answer) : answer'[i].rpc = answer[i].rpc
        <3> DEFINE e == [rpc |-> request[1].rpc, kind |-> kind]
        <3>1. e \in Reply /\ e.rpc = request[1].rpc
            BY <1>4 DEF Request, Reply
        <3>2. answer \in Seq(Reply) /\ answer' = Append(answer, e)
            BY <2>2 DEF TInv, TypeOK, Respond
        <3> HIDE DEF e
        <3>3. /\ Len(Append(answer, e)) = Len(answer) + 1
              /\ Append(answer, e)[Len(answer) + 1].rpc = e.rpc
              /\ \A i \in 1 .. Len(answer) : Append(answer, e)[i].rpc = answer[i].rpc
            BY <3>1, <3>2, AppendRpcs, Zenon
        <3> QED
            BY <3>1, <3>2, <3>3
    <2> QED
        BY <2>1, <2>2, Zenon
<1>6. UNCHANGED <<buffer, rpc, late>> /\ late' + Waiting' = l
    BY DEF Serve, host, Waiting
<1> HIDE DEF l
<1>7. /\ Len(buffer) + Len(answer) + Len(request) <= l
      /\ Lagging(buffer, 0, rpc, l) /\ Lagging(answer, Len(buffer), rpc, l)
      /\ Lagging(request, Len(buffer) + Len(answer), rpc, l)
    BY DEF LineLags, l
<1>8. Lagging(answer', Len(buffer), rpc, l) /\ Lagging(request', Len(buffer) + Len(answer'), rpc, l)
    BY <1>2, <1>4, <1>5, <1>7, HandOver, Zenon
<1>9. Len(buffer) + Len(answer') + Len(request') <= l
    BY <1>2, <1>4, <1>5, <1>7
<1> QED
    BY <1>6, <1>7, <1>8, <1>9, Zenon DEF LineLags

LEMMA ArriveLags ==
    ASSUME TInv, LineLags, Arrive
    PROVE  LineLags'
<1> DEFINE l == late + Waiting
<1>1. TInv'
    BY ArriveTypes
<1>2. /\ Rpcs(buffer) /\ Rpcs(answer) /\ rpc \in Nat /\ l \in Nat /\ 0 \in Nat
      /\ Len(buffer) \in Nat /\ Len(answer) \in Nat /\ Len(request) \in Nat
      /\ Rpcs(answer') /\ Rpcs(buffer')
    <2>1. Rpcs(answer') /\ Rpcs(buffer')
        BY <1>1, ReplyRpcs, Zenon DEF TInv, TypeOK
    <2> QED
        BY <2>1, LineFacts
<1>3. /\ answer \in Seq(Reply) /\ answer # <<>> /\ answer' = Tail(answer)
      /\ buffer \in Seq(Reply) /\ buffer' = Append(buffer, Head(answer))
    BY DEF TInv, TypeOK, Arrive
<1>4. /\ Len(answer) # 0 /\ Head(answer) = answer[1] /\ answer[1] \in Reply
      /\ Len(answer') = Len(answer) - 1
      /\ \A i \in 1 .. Len(answer') : answer'[i].rpc = answer[i + 1].rpc
    BY <1>3, TailRpcs
<1>5. /\ Len(buffer') = Len(buffer) + 1 /\ buffer'[Len(buffer) + 1].rpc = answer[1].rpc
      /\ \A i \in 1 .. Len(buffer) : buffer'[i].rpc = buffer[i].rpc
    <2> DEFINE e == answer[1]
    <2>1. buffer' = Append(buffer, e) /\ buffer \in Seq(Reply) /\ e \in Reply
        BY <1>3, <1>4
    <2> HIDE DEF e
    <2>2. /\ Len(Append(buffer, e)) = Len(buffer) + 1
          /\ Append(buffer, e)[Len(buffer) + 1].rpc = e.rpc
          /\ \A i \in 1 .. Len(buffer) : Append(buffer, e)[i].rpc = buffer[i].rpc
        BY <2>1, AppendRpcs, Zenon
    <2> QED
        BY <2>1, <2>2 DEF e
<1>6. UNCHANGED <<request, rpc, late>> /\ late' + Waiting' = l
    BY DEF Arrive, host, Waiting
<1> HIDE DEF l
<1>7. /\ Len(buffer) + Len(answer) + Len(request) <= l
      /\ Lagging(buffer, 0, rpc, l) /\ Lagging(answer, 0 + Len(buffer), rpc, l)
      /\ Lagging(request, Len(buffer) + Len(answer), rpc, l)
    <2>1. 0 + Len(buffer) = Len(buffer)
        BY <1>2
    <2> QED
        BY <2>1 DEF LineLags, l
<1>8. Lagging(buffer', 0, rpc, l) /\ Lagging(answer', 0 + Len(buffer'), rpc, l)
    BY <1>2, <1>4, <1>5, <1>7, HandOver, Zenon
<1>9. /\ Len(buffer') + Len(answer') = Len(buffer) + Len(answer)
      /\ 0 + Len(buffer') = Len(buffer')
    BY <1>2, <1>4, <1>5
<1> QED
    BY <1>6, <1>7, <1>8, <1>9, Zenon DEF LineLags

LEMMA DamageLags ==
    ASSUME TInv, LineLags, Damage
    PROVE  LineLags'
<1>1. request \in Seq(Request) /\ answer \in Seq(Reply)
    BY DEF TInv, TypeOK
<1>2. Len(request') = Len(request) /\ \A i \in 1 .. Len(request) : request'[i].rpc = request[i].rpc
    <2>1. UNCHANGED request \/ (request # <<>> /\ request' = [request EXCEPT ![1].kind = "bad"])
        BY DEF Damage
    <2> QED
        BY <1>1, <2>1, DamageRequest, Zenon
<1>3. Len(answer') = Len(answer) /\ \A i \in 1 .. Len(answer) : answer'[i].rpc = answer[i].rpc
    <2>1. UNCHANGED answer \/ (answer # <<>> /\ answer' = [answer EXCEPT ![1].kind = "bad"])
        BY DEF Damage
    <2> QED
        BY <1>1, <2>1, DamageReply, Zenon
<1>4. UNCHANGED <<buffer, rpc, late>> /\ late' + Waiting' = late + Waiting
    BY DEF Damage, host, Waiting
<1> QED
    BY <1>2, <1>3, <1>4, LaggingSame, Zenon DEF LineLags

LEMMA NextLags == TInv /\ LineLags /\ [Next]_vars => LineLags'
<1> SUFFICES ASSUME TInv, LineLags, [Next]_vars PROVE LineLags'
    OBVIOUS
<1>1. CASE Next
    BY <1>1, BeginLags, PullLags, PushLags, TimeOutLags, ServeLags, ArriveLags, DamageLags,
       Zenon DEF Next, Host
<1>2. CASE UNCHANGED vars
    <2>1. /\ UNCHANGED <<buffer, answer, request, rpc, late>>
          /\ late' + Waiting' = late + Waiting
        BY <1>2 DEF vars, host, Waiting
    <2> QED
        BY <2>1, Zenon DEF LineLags
<1> QED
    BY <1>1, <1>2

-----------------------------------------------------------------------------
(* The replies that a pull gathers, and that are handed over.              *)

LEMMA FirstLags ==
    ASSUME TInv, LineLags, ReadFrame, pc # "idle"
    PROVE  /\ Head(buffer) \in Reply /\ Head(buffer).rpc \in Nat
           /\ Head(buffer).rpc <= rpc /\ rpc - Head(buffer).rpc <= late
<1>1. Len(buffer) \in Nat \ {0} /\ Head(buffer) = buffer[1] /\ buffer[1] \in Reply
    BY ReadFrameFacts DEF TInv
<1>2. buffer[1].rpc \in Nat
    BY <1>1 DEF Reply, Rpc
<1>3. Waiting = 1 /\ late \in Nat /\ rpc \in Nat
    BY LineFacts DEF Waiting
<1>4. buffer[1].rpc <= rpc /\ rpc - buffer[1].rpc <= (late + Waiting) - (0 + 1)
    <2>1. 1 \in 1 .. Len(buffer)
        BY <1>1
    <2> QED
        BY <2>1, Zenon DEF LineLags, Lagging
<1>5. rpc - buffer[1].rpc <= late
    BY <1>2, <1>3, <1>4
<1> QED
    BY <1>1, <1>2, <1>4, <1>5, Zenon

LEMMA PullWithin ==
    ASSUME TInv, LineLags, RepliesLag, PullReply
    PROVE  RepliesLag'
<1> DEFINE f == Head(buffer)
           handed == Append(reply, f)
<1>1. pc = "pull" /\ pc # "idle" /\ ReadFrame /\ UNCHANGED rpc
    BY PullSteps
<1>2. f \in Reply /\ f.rpc \in Nat /\ f.rpc <= rpc /\ rpc - f.rpc <= late
    BY <1>1, FirstLags, Zenon
<1>3. /\ reply \in Seq(Reply) /\ Rpcs(reply) /\ Rpcs(called.frames) /\ rpc \in Nat /\ late \in Nat
      /\ called.rpc \in Nat /\ late + 1 \in Nat /\ late <= late + 1
    BY LineFacts DEF TInv, TypeOK
<1>4. Within(reply, rpc, late) /\ Within(called.frames, called.rpc, late)
    BY <1>1 DEF RepliesLag
<1> HIDE DEF f
<1>5. /\ handed \in Seq(Reply) /\ Len(handed) = Len(reply) + 1 /\ handed[Len(reply) + 1].rpc = f.rpc
      /\ \A i \in 1 .. Len(reply) : handed[i].rpc = reply[i].rpc
    <2>1. handed \in Seq(Reply)
        BY <1>2, <1>3, AppendProperties, Zenon
    <2> QED
        BY <1>2, <1>3, <2>1, AppendRpcs, ZenonT(40)
<1>6. /\ \/ pc' = "idle" /\ UNCHANGED <<called, late>>
         \/ pc' = "idle" /\ called' = [rpc |-> rpc, kind |-> pc, frames |-> handed] /\ UNCHANGED late
         \/ pc' = "idle" /\ late' = late + 1 /\ UNCHANGED called
         \/ reply' = handed /\ UNCHANGED <<called, late>>
    BY PullSteps, Zenon DEF f
<1> HIDE DEF handed
<1>7. Within(handed, rpc, late)
    <2>1. Rpcs(handed)
        BY <1>5, ReplyRpcs, Zenon
    <2>2. handed[Len(reply) + 1].rpc <= rpc /\ rpc - handed[Len(reply) + 1].rpc <= late
        BY <1>2, <1>5
    <2> QED
        BY <1>3, <1>4, <1>5, <2>1, <2>2, WithinGrows, Zenon
<1>8. Within(called'.frames, called'.rpc, late')
    <2>1. Within(called.frames, called.rpc, late + 1)
        BY <1>3, <1>4, WithinLater, Zenon
    <2>2. CASE called' = [rpc |-> rpc, kind |-> pc, frames |-> handed] /\ UNCHANGED late
        BY <1>7, <2>2
    <2> QED
        BY <1>4, <1>6, <2>1, <2>2, Zenon
<1>9. pc' # "idle" => Within(reply', rpc', late')
    BY <1>1, <1>6, <1>7, Zenon
<1> QED
    BY <1>8, <1>9, Zenon DEF RepliesLag

LEMMA PushWithin ==
    ASSUME TInv, LineLags, RepliesLag, PushReply
    PROVE  RepliesLag'
<1> DEFINE f == Head(buffer)
<1>1. pc = "push" /\ pc # "idle" /\ ReadFrame /\ UNCHANGED <<rpc, reply, late>>
    BY PushSteps
<1>2. f \in Reply /\ f.rpc \in Nat /\ f.rpc <= rpc /\ rpc - f.rpc <= late
    BY <1>1, FirstLags, Zenon
<1>3. Within(reply, rpc, late) /\ Within(called.frames, called.rpc, late)
    BY <1>1 DEF RepliesLag
<1> HIDE DEF f
<1>4. called' = called \/ called' = [rpc |-> rpc, kind |-> pc, frames |-> <<f>>]
    BY PushSteps, Zenon DEF f
<1>5. Within(<<f>>, rpc, late)
    BY <1>2 DEF Within
<1>6. Within(called'.frames, called'.rpc, late')
    <2>1. CASE called' = called
        BY <1>1, <1>3, <2>1
    <2>2. CASE called' = [rpc |-> rpc, kind |-> pc, frames |-> <<f>>]
        <3>1. called'.frames = <<f>> /\ called'.rpc = rpc /\ late' = late
            BY <1>1, <2>2
        <3> QED
            BY <1>5, <3>1, Zenon
    <2> QED
        BY <1>4, <2>1, <2>2
<1> QED
    BY <1>1, <1>3, <1>6, Zenon DEF RepliesLag

LEMMA NextWithin == TInv /\ LineLags /\ RepliesLag /\ [Next]_vars => RepliesLag'
<1> SUFFICES ASSUME TInv, LineLags, RepliesLag, [Next]_vars PROVE RepliesLag'
    OBVIOUS
<1>1. ASSUME NEW kind \in Kind, Begin(kind) PROVE RepliesLag'
    <2>1. reply' = <<>> /\ UNCHANGED <<called, late>>
        BY <1>1 DEF Begin
    <2>2. Within(reply', rpc', late')
        BY <2>1 DEF Within
    <2> QED
        BY <2>1, <2>2, Zenon DEF RepliesLag
<1>2. CASE TimeOut
    <2>1. pc' = "idle" /\ UNCHANGED called /\ (late' = late \/ late' = late + 1)
        BY <1>2, Zenon DEF TimeOut, End
    <2>2. Within(called.frames, called.rpc, late + 1)
        <3>1. Rpcs(called.frames) /\ called.rpc \in Nat /\ late \in Nat
            BY LineFacts
        <3>2. late + 1 \in Nat /\ late <= late + 1
            BY <3>1
        <3> QED
            BY <3>1, <3>2, WithinLater, Zenon DEF RepliesLag
    <2> QED
        BY <2>1, <2>2, Zenon DEF RepliesLag
<1>3. CASE UNCHANGED <<host, called, late>>
    BY <1>3, Zenon DEF RepliesLag, host
<1>4. Serve \/ Arrive \/ Damage \/ UNCHANGED vars => UNCHANGED <<host, called, late>>
    BY Zenon DEF Serve, Arrive, Damage, vars, host
<1> QED
    BY <1>1, <1>2, <1>3, <1>4, PullWithin, PushWithin, Zenon DEF Next, Host

-----------------------------------------------------------------------------
(* A push keeps in step with the board while no answer was late.           *)

LEMMA OneFrame ==
    ASSUME TInv, LineLags, late = 0
    PROVE  /\ Len(buffer) + Len(answer) + Len(request) <= Waiting
           /\ Waiting = 0 \/ Waiting = 1
           /\ Len(buffer) \in Nat /\ Len(answer) \in Nat /\ Len(request) \in Nat
<1>1. 0 + Waiting = Waiting
    BY LineFacts
<1> QED
    BY <1>1, LineFacts DEF LineLags

LEMMA BeginInStep ==
    ASSUME TInv, LineLags, NEW kind \in Kind, Begin(kind)
    PROVE  PushInStep'
<1> SUFFICES ASSUME late' = 0, pc' = "push" PROVE PushInStep'
    BY Zenon DEF PushInStep
<1>1. /\ pc = "idle" /\ kind = "push" /\ n' = 0 /\ rpc' = rpc + 1 /\ UNCHANGED <<late, answer, buffer>>
      /\ SendFrame(rpc', IF kind = "pull" THEN "first" ELSE "push", 1)
    BY DEF Begin
<1>2. Len(buffer) = 0 /\ Len(answer) = 0 /\ Len(request) = 0
    <2>1. Waiting = 0
        BY <1>1 DEF Waiting
    <2> QED
        BY <1>1, <2>1, OneFrame
<1>3. rpc' \in Rpc /\ 1 \in 1 .. PushFrames
    BY <1>1, FramesAssumption, BoundAssumption DEF TInv, TypeOK, Begin, Rpc
<1>4. /\ Len(request') = Len(request) + 1
      /\ request'[Len(request) + 1] = [rpc |-> rpc', kind |-> "push", part |-> 1]
    <2>1. SendFrame(rpc', "push", 1) /\ request \in Seq(Request)
        BY <1>1 DEF TInv, TypeOK
    <2>2. "push" \in {"first", "more", "push"}
        OBVIOUS
    <2> QED
        BY <1>3, <2>1, <2>2, SendFrameFacts, Zenon
<1>5. Len(request') = 1 /\ request'[1] = [rpc |-> rpc', kind |-> "push", part |-> 1]
    BY <1>2, <1>4
<1>6. \A i \in 1 .. Len(request') :
         /\ request'[i].kind \in {"push", "bad"}
         /\ request'[i].kind = "push" => request'[i].part = n' + 1 /\ (n' = 0 \/ Reached(n)')
    BY <1>1, <1>5
<1>7. /\ \A i \in 1 .. Len(answer') : answer'[i].kind # "bad" => Acknowledged'
      /\ \A i \in 1 .. Len(buffer') : buffer'[i].kind # "bad" => Acknowledged'
    BY <1>1, <1>2
<1> QED
    BY <1>6, <1>7, Zenon DEF PushInStep

LEMMA PushReads ==
    ASSUME TInv, LineLags, PushInStep, PushDone, PushReply
    PROVE  PushInStep' /\ PushDone'
<1>1. /\ pc = "push" /\ pc # "idle" /\ ReadFrame
      /\ UNCHANGED <<rpc, reply, board, answer, faults, late>>
    BY PushSteps
<1> SUFFICES ASSUME late = 0 PROVE PushInStep' /\ PushDone'
    BY <1>1, Zenon DEF PushInStep, PushDone
<1>2. /\ Len(buffer) \in Nat \ {0} /\ Head(buffer) = buffer[1] /\ Len(buffer') \in Nat
      /\ \E k \in 1 .. Len(buffer) : Len(buffer') = Len(buffer) - k
    BY <1>1, ReadFrameFacts, Zenon DEF TInv
<1>3. Len(buffer) = 1 /\ Len(answer) = 0 /\ Len(request) = 0 /\ Len(buffer') = 0
    BY <1>2, OneFrame
<1>4. Head(buffer).kind # "bad" => Acknowledged
    <2>1. 1 \in 1 .. Len(buffer)
        BY <1>3
    <2> QED
        BY <1>1, <1>2, <2>1, Zenon DEF PushInStep
<1>5. UNCHANGED <<taken, executed, refused>>
    BY <1>1 DEF board
<1>6. PushDone'
    <2>1. CASE called' = called
        BY <1>1, <1>5, <2>1 DEF PushDone
    <2>2. CASE /\ Head(buffer).kind # "bad" /\ n + 1 = PushFrames
               /\ called' = [rpc |-> rpc, kind |-> pc, frames |-> <<Head(buffer)>>]
        <3>1. rpc \in executed \cup refused /\ called'.rpc = rpc
            BY <1>4, <2>2 DEF Acknowledged
        <3> QED
            BY <1>5, <3>1, Zenon DEF PushDone
    <2> QED
        BY <2>1, <2>2, PushSteps, Zenon
<1>7. PushInStep'
    <2>1. CASE pc' = "idle"
        BY <2>1, Zenon DEF PushInStep
    <2>2. CASE /\ Head(buffer).kind # "bad" /\ n + 1 # PushFrames
               /\ n' = n + 1 /\ SendFrame(rpc, "push", n + 2)
        <3>1. n \in Nat /\ n + 2 \in 1 .. PushFrames /\ rpc \in Rpc
            BY <1>1, <2>2, FramesAssumption DEF TInv, TypeOK, Progress, Rpc
        <3>2. /\ Len(request') = Len(request) + 1
              /\ request'[Len(request) + 1] = [rpc |-> rpc, kind |-> "push", part |-> n + 2]
            <4>1. "push" \in {"first", "more", "push"} /\ request \in Seq(Request)
                BY DEF TInv, TypeOK
            <4> QED
                BY <2>2, <3>1, <4>1, SendFrameFacts, Zenon
        <3>3. Len(request') = 1 /\ request'[1] = [rpc |-> rpc, kind |-> "push", part |-> n + 2]
            BY <1>3, <3>2
        <3>4. Reached(n)'
            BY <1>1, <1>4, <1>5, <2>2, Zenon DEF Acknowledged, Reached
        <3>5. \A i \in 1 .. Len(request') :
                 /\ request'[i].kind \in {"push", "bad"}
                 /\ request'[i].kind = "push" => request'[i].part = n' + 1 /\ (n' = 0 \/ Reached(n)')
            BY <2>2, <3>1, <3>3, <3>4
        <3>6. /\ \A i \in 1 .. Len(answer') : answer'[i].kind # "bad" => Acknowledged'
              /\ \A i \in 1 .. Len(buffer') : buffer'[i].kind # "bad" => Acknowledged'
            BY <1>1, <1>3
        <3> QED
            BY <3>5, <3>6, Zenon DEF PushInStep
    <2> QED
        BY <2>1, <2>2, PushSteps, Zenon
<1> QED
    BY <1>6, <1>7

LEMMA ServeInStep ==
    ASSUME TInv, LineLags, PushInStep, Serve
    PROVE  PushInStep'
<1> DEFINE f == Head(request)
<1>1. UNCHANGED <<pc, rpc, n, late, buffer>>
    BY DEF Serve, host
<1> SUFFICES ASSUME late = 0, pc = "push" PROVE PushInStep'
    BY <1>1, Zenon DEF PushInStep
<1>2. request \in Seq(Request) /\ request # <<>> /\ request' = Tail(request)
    BY DEF TInv, TypeOK, Serve
<1>3. /\ Len(request) \in Nat \ {0} /\ f = request[1] /\ f \in Request
      /\ Len(request') = Len(request) - 1
    BY <1>2, TailRpcs
<1>4. Waiting = 1 /\ rpc \in Nat /\ n \in Nat
    BY BoundAssumption, FramesAssumption DEF TInv, TypeOK, Waiting
<1>5. Len(request) = 1 /\ Len(answer) = 0 /\ Len(buffer) = 0 /\ Len(request') = 0
    BY <1>3, <1>4, OneFrame
<1>6. 1 \in 1 .. Len(request)
    BY <1>5
<1>7. f.rpc = rpc
    <2>1. f.rpc \in Nat
        BY <1>3 DEF Request, Rpc
    <2>2. f.rpc <= rpc /\ rpc - f.rpc <= (late + Waiting) - (Len(buffer) + Len(answer) + 1)
        BY <1>3, <1>6, Zenon DEF LineLags, Lagging
    <2> QED
        BY <1>4, <1>5, <2>1, <2>2
<1>8. f.kind \in {"push", "bad"} /\ (f.kind = "push" => f.part = n + 1 /\ (n = 0 \/ Reached(n)))
    BY <1>3, <1>6, Zenon DEF PushInStep
<1> HIDE DEF f
<1>9. answer' = answer \/ Acknowledged'
    <2>1. CASE /\ f.kind = "push"
               /\ taken' = [rpc |-> f.rpc, part |-> f.part]
               /\ executed' = IF f.part = PushFrames THEN executed \cup {f.rpc} ELSE executed
        <3>1. taken' = [rpc |-> rpc, part |-> n + 1] /\ (n + 1 = PushFrames => rpc \in executed')
            BY <1>7, <1>8, <2>1
        <3> QED
            BY <1>1, <3>1, Zenon DEF Acknowledged, Reached
    <2>2. CASE refused' = refused \cup {f.rpc}
        <3>1. rpc' \in refused'
            BY <1>1, <1>7, <2>2
        <3> QED
            BY <3>1, Zenon DEF Acknowledged, Reached
    <2>3. CASE /\ f.kind = "push" /\ f.part > 1 /\ taken # [rpc |-> f.rpc, part |-> f.part - 1]
               /\ UNCHANGED refused
        <3>1. f.part = n + 1 /\ f.part - 1 = n /\ n # 0
            BY <1>4, <1>8, <2>3
        <3>2. rpc \in refused
            BY <1>7, <1>8, <2>3, <3>1, Zenon DEF Reached
        <3>3. rpc' \in refused'
            BY <1>1, <2>3, <3>2, Zenon
        <3> QED
            BY <3>3, Zenon DEF Acknowledged, Reached
    <2>4. f.kind # "first" /\ f.kind # "more"
        BY <1>8
    <2>5. /\ f.kind # "bad" => f.kind = "push"
          /\ f.kind = "bad" => f.kind # "push"
        BY <1>8
    <2>6. \/ /\ f.kind = "push"
             /\ taken' = [rpc |-> f.rpc, part |-> f.part]
             /\ executed' = IF f.part = PushFrames THEN executed \cup {f.rpc} ELSE executed
          \/ answer' = answer
          \/ refused' = refused \cup {f.rpc}
          \/ /\ f.kind = "push" /\ f.part > 1 /\ taken # [rpc |-> f.rpc, part |-> f.part - 1]
             /\ UNCHANGED refused
        BY <2>4, <2>5, Zenon DEF Serve, f
    <2> QED
        BY <2>1, <2>2, <2>3, <2>6, Zenon
<1>10. \A i \in 1 .. Len(request') :
          /\ request'[i].kind \in {"push", "bad"}
          /\ request'[i].kind = "push" => request'[i].part = n' + 1 /\ (n' = 0 \/ Reached(n)')
    BY <1>5
<1>11. \A i \in 1 .. Len(answer') : answer'[i].kind # "bad" => Acknowledged'
    <2>1. CASE answer' = answer
        BY <1>5, <2>1
    <2> QED
        BY <1>9, <2>1, Zenon
<1>12. \A i \in 1 .. Len(buffer') : buffer'[i].kind # "bad" => Acknowledged'
    BY <1>1, <1>5
<1> QED
    BY <1>10, <1>11, <1>12, Zenon DEF PushInStep

LEMMA ArriveInStep ==
    ASSUME TInv, PushInStep, Arrive
    PROVE  PushInStep'
<1>1. UNCHANGED <<pc, rpc, n, late, request, taken, executed, refused>>
    BY DEF Arrive, host, board
<1> SUFFICES ASSUME late = 0, pc = "push" PROVE PushInStep'
    BY <1>1, Zenon DEF PushInStep
<1>2. /\ answer \in Seq(Reply) /\ answer # <<>> /\ answer' = Tail(answer)
      /\ buffer \in Seq(Reply) /\ buffer' = Append(buffer, Head(answer))
    BY DEF TInv, TypeOK, Arrive
<1>3. /\ Len(answer) \in Nat \ {0} /\ Head(answer) = answer[1] /\ Head(answer) \in Reply
      /\ Len(answer') = Len(answer) - 1
    BY <1>2, TailRpcs
<1>4. \A i \in 1 .. Len(answer') : answer'[i] = answer[i + 1]
    BY <1>2, HeadTailProperties
<1>5. /\ Len(buffer') = Len(buffer) + 1 /\ buffer'[Len(buffer) + 1] = Head(answer)
      /\ \A i \in 1 .. Len(buffer) : buffer'[i] = buffer[i]
    BY <1>2, <1>3, AppendProperties
<1>6. Acknowledged' = Acknowledged
    BY <1>1 DEF Acknowledged, Reached
<1>7. \A i \in 1 .. Len(answer') : answer'[i].kind # "bad" => Acknowledged'
    <2> SUFFICES ASSUME NEW i \in 1 .. Len(answer'), answer'[i].kind # "bad" PROVE Acknowledged
        BY <1>6, Zenon
    <2>1. i + 1 \in 1 .. Len(answer)
        BY <1>3
    <2> QED
        BY <1>4, <2>1, Zenon DEF PushInStep
<1>8. \A i \in 1 .. Len(buffer') : buffer'[i].kind # "bad" => Acknowledged'
    <2> SUFFICES ASSUME NEW i \in 1 .. Len(buffer'), buffer'[i].kind # "bad" PROVE Acknowledged
        BY <1>6, Zenon
    <2>1. i \in 1 .. Len(buffer) \/ i = Len(buffer) + 1
        <3>1. Len(buffer) \in Nat
            BY <1>2, LenProperties
        <3> QED
            BY <1>5, <3>1
    <2>2. CASE i \in 1 .. Len(buffer)
        BY <1>5, <2>2, Zenon DEF PushInStep
    <2>3. CASE i = Len(buffer) + 1
        <3>1. 1 \in 1 .. Len(answer) /\ answer[1].kind # "bad"
            BY <1>3, <1>5, <2>3
        <3> QED
            BY <3>1, Zenon DEF PushInStep
    <2> QED
        BY <2>1, <2>2, <2>3
<1>9. Reached(n)' = Reached(n)
    BY <1>1 DEF Reached
<1>10. \A i \in 1 .. Len(request') :
          /\ request'[i].kind \in {"push", "bad"}
          /\ request'[i].kind = "push" => request'[i].part = n' + 1 /\ (n' = 0 \/ Reached(n)')
    BY <1>1, <1>9 DEF PushInStep
<1> QED
    BY <1>7, <1>8, <1>10, Zenon DEF PushInStep

LEMMA DamageInStep ==
    ASSUME TInv, PushInStep, Damage
    PROVE  PushInStep'
<1>1. UNCHANGED <<pc, rpc, n, late, buffer, taken, executed, refused>>
    BY DEF Damage, host, board
<1> SUFFICES ASSUME late = 0, pc = "push" PROVE PushInStep'
    BY <1>1, Zenon DEF PushInStep
<1>2. request \in Seq(Request) /\ answer \in Seq(Reply)
    BY DEF TInv, TypeOK
<1>3. /\ Len(request') = Len(request)
      /\ \A i \in 1 .. Len(request) : /\ request'[i].part = request[i].part
                                      /\ request'[i].kind \in {request[i].kind, "bad"}
    <2>1. UNCHANGED request \/ (request # <<>> /\ request' = [request EXCEPT ![1].kind = "bad"])
        BY DEF Damage
    <2> QED
        BY <1>2, <2>1, DamageRequest, Zenon
<1>4. /\ Len(answer') = Len(answer)
      /\ \A i \in 1 .. Len(answer) : answer'[i].kind \in {answer[i].kind, "bad"}
    <2>1. UNCHANGED answer \/ (answer # <<>> /\ answer' = [answer EXCEPT ![1].kind = "bad"])
        BY DEF Damage
    <2> QED
        BY <1>2, <2>1, DamageReply, Zenon
<1>5. Acknowledged' = Acknowledged /\ Reached(n)' = Reached(n)
    BY <1>1 DEF Acknowledged, Reached
<1>6. /\ \A i \in 1 .. Len(request) :
            /\ request[i].kind \in {"push", "bad"}
            /\ request[i].kind = "push" => request[i].part = n + 1 /\ (n = 0 \/ Reached(n))
      /\ \A i \in 1 .. Len(answer) : answer[i].kind # "bad" => Acknowledged
      /\ \A i \in 1 .. Len(buffer) : buffer[i].kind # "bad" => Acknowledged
    BY Zenon DEF PushInStep
<1>7. \A i \in 1 .. Len(request') :
         /\ request'[i].kind \in {"push", "bad"}
         /\ request'[i].kind = "push" => request'[i].part = n' + 1 /\ (n' = 0 \/ Reached(n)')
    <2> TAKE i \in 1 .. Len(request')
    <2>1. /\ i \in 1 .. Len(request) /\ request'[i].part = request[i].part
          /\ request'[i].kind = request[i].kind \/ request'[i].kind = "bad"
        BY <1>3
    <2>2. "bad" # "push" /\ "bad" \in {"push", "bad"}
        OBVIOUS
    <2> QED
        BY <1>1, <1>5, <1>6, <2>1, <2>2, Zenon
<1>8. /\ \A i \in 1 .. Len(answer') : answer'[i].kind # "bad" => Acknowledged'
      /\ \A i \in 1 .. Len(buffer') : buffer'[i].kind # "bad" => Acknowledged'
    <2>1. \A i \in 1 .. Len(answer) : answer'[i].kind = answer[i].kind \/ answer'[i].kind = "bad"
        BY <1>4
    <2> QED
        BY <1>1, <1>4, <1>5, <1>6, <2>1, Zenon
<1> QED
    BY <1>7, <1>8, Zenon DEF PushInStep

LEMMA NextPush ==
    TInv /\ LineLags /\ PushInStep /\ PushDone /\ [Next]_vars => PushInStep' /\ PushDone'
<1> SUFFICES ASSUME TInv, LineLags, PushInStep, PushDone, [Next]_vars
             PROVE  PushInStep' /\ PushDone'
    OBVIOUS
<1>1. ASSUME NEW kind \in Kind, Begin(kind) PROVE PushInStep' /\ PushDone'
    <2>1. UNCHANGED <<late, called, executed, refused>>
        BY <1>1 DEF Begin, board
    <2> QED
        BY <1>1, <2>1, BeginInStep, Zenon DEF PushDone
<1>2. CASE PullReply
    <2>1. /\ pc = "pull" /\ UNCHANGED <<executed, refused>>
          /\ pc' = "idle" \/ pc' = pc
          /\ late' = late \/ late' = late + 1
          /\ called' = called \/ called'.kind = pc
        BY <1>2, PullSteps DEF board
    <2>2. late' = 0 => late = 0
        BY <2>1, LineFacts
    <2>3. "idle" # "push" /\ "pull" # "push"
        OBVIOUS
    <2> QED
        BY <2>1, <2>2, <2>3, Zenon DEF PushInStep, PushDone
<1>3. CASE TimeOut
    <2>1. /\ pc' = "idle" /\ UNCHANGED <<called, board>> /\ (late' = late \/ late' = late + 1)
        BY <1>3, Zenon DEF TimeOut, End
    <2>2. late' = 0 => late = 0
        BY <2>1, LineFacts
    <2>3. "idle" # "push"
        OBVIOUS
    <2> QED
        BY <2>1, <2>2, <2>3, Zenon DEF PushInStep, PushDone, board
<1>4. CASE Serve
    <2>1. UNCHANGED <<late, called>> /\ executed \subseteq executed' /\ refused \subseteq refused'
        <3>1. /\ executed' = executed \/ executed' = executed \cup {Head(request).rpc}
              /\ refused' = refused \/ refused' = refused \cup {Head(request).rpc}
            BY <1>4 DEF Serve
        <3> QED
            BY <1>4, <3>1 DEF Serve
    <2>2. PushDone'
        BY <2>1 DEF PushDone
    <2> QED
        BY <1>4, <2>2, ServeInStep
<1>5. CASE Arrive \/ Damage
    <2>1. UNCHANGED <<late, called, executed, refused>>
        BY <1>5, Zenon DEF Arrive, Damage, board
    <2> QED
        BY <1>5, <2>1, ArriveInStep, DamageInStep, Zenon DEF PushDone
<1>6. CASE UNCHANGED vars
    BY <1>6, Zenon DEF PushInStep, PushDone, Acknowledged, Reached, vars, host, board
<1> QED
    BY <1>1, <1>2, <1>3, <1>4, <1>5, <1>6, PushReads, Zenon DEF Next, Host

LEMMA InitInv == Init => TInv /\ IInv
<1> SUFFICES ASSUME Init PROVE TInv /\ IInv
    OBVIOUS
<1>1. Len(buffer) = 0 /\ Len(answer) = 0 /\ Len(request) = 0 /\ Waiting = 0 /\ late = 0
    BY DEF Init, Waiting
<1>2. LineLags
    BY <1>1 DEF LineLags, Lagging
<1>3. pc = "idle" /\ called.frames = <<>> /\ called.rpc = 0 /\ called.kind = "pull"
    BY DEF Init
<1>4. RepliesLag
    BY <1>3 DEF RepliesLag, Within
<1>5. PushInStep /\ PushDone
    BY <1>3, Zenon DEF PushInStep, PushDone
<1> QED
    BY <1>2, <1>4, <1>5, InitTypes DEF IInv

\* Every variable keeps its type: no push sends more frames than it has, and a late
\* answer is counted once for each fault or finished transaction at most.
THEOREM TypeCorrect == Spec => []TypeOK
<1>1. Spec => []TInv
    BY InitTypes, NextTypes, PTL DEF Spec
<1> QED
    BY <1>1, PTL DEF TInv

\* Whatever is damaged, refused or late, a callback is handed the answer to its own
\* RPC or to one at most as many RPCs back as answers were late; and if none was, a
\* push whose callback is called has been executed unless the board refused it.
THEOREM Timely == Spec => []TimelyReplies
<1>1. TInv /\ IInv /\ [Next]_vars => (TInv /\ IInv)'
    BY NextTypes, NextLags, NextWithin, NextPush, Zenon DEF IInv
<1>2. Spec => [](TInv /\ IInv)
    BY <1>1, InitInv, PTL DEF Spec
<1>3. RepliesLag /\ PushDone => TimelyReplies
    <2> SUFFICES ASSUME RepliesLag, PushDone PROVE TimelyReplies
        OBVIOUS
    <2>1. \A r \in Replies : r <= called.rpc /\ called.rpc - r <= late
        BY Zenon DEF RepliesLag, Within, Replies
    <2> QED
        BY <2>1, Zenon DEF TimelyReplies, PushDone
<1> QED
    BY <1>2, <1>3, PTL DEF IInv
=============================================================================
