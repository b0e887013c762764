--------------------------- MODULE TransportFraming ---------------------------
(***************************************************************************)
(* One RPC on the serial line: the pull and push transactions of           *)
(* TransportFraming (core/transport/cpp/transport_framing.cpp), which the  *)
(* queue thread of TransportQueue runs one after the other.                *)
(*                                                                         *)
(* Frames are whole: COBS and the CRC turn a damaged frame into one that   *)
(* is bad.  A reply names the RPC and the request it answers, which the    *)
(* code cannot see: it sees the kind of the frame.  The board is external: *)
(* it serves requests in order and answers each with one frame, unless it  *)
(* was damaged; the answer may come after the host has stopped waiting.    *)
(***************************************************************************)
EXTENDS Naturals, Sequences

CONSTANTS MaxFrames,  \* RPC_V1_MAX_FRAMES, the replies that one pull asks for
          PushFrames, \* frames of a push
          MaxRpc,     \* bound: RPCs carried out
          MaxFaults   \* bound: frames damaged, and answers that come too late

ASSUME FramesAssumption == MaxFrames \in Nat \ {0} /\ PushFrames \in Nat \ {0}
ASSUME BoundAssumption == MaxRpc \in Nat /\ MaxFaults \in Nat

VARIABLES pc,       \* "idle", or the kind of the transaction that waits for a frame
          rpc,      \* the number of the last RPC
          n,        \* replies it has received
          reply,    \* rpc_reply: the replies to this pull, without their header
          request,  \* frames on the way to the board
          answer,   \* frames on the way back
          buffer,   \* frames that have arrived and have not been read
          serving,  \* the board: the pull it can continue, 0 for none
          taken,    \* the board: frames of the push it is taking, and of which RPC
          executed, \* the board: the pushes it has taken completely
          faults,   \* bound: number of faults
          late,     \* history: requests whose answer the host did not wait for
          refused,  \* history: pushes of which the board has refused a frame
          called    \* history: the last call of a callback, its RPC, the kind of
                    \* the RPC and the frames handed to it

host == <<pc, rpc, n, reply>>
board == <<serving, taken, executed, refused>>
vars == <<host, board, request, answer, buffer, faults, late, called>>

Rpc == 1 .. MaxRpc
Kind == {"pull", "push"}
Request == [rpc : Rpc, kind : {"first", "more", "push", "bad"}, part : 1 .. PushFrames]
Reply == [rpc : Rpc, kind : {"more", "last", "ack", "nack", "bad"}]

TypeOK == /\ pc \in Kind \cup {"idle"}
          /\ rpc \in 0 .. MaxRpc
          /\ n \in 0 .. MaxFrames + PushFrames
          /\ reply \in Seq(Reply)
          /\ request \in Seq(Request)
          /\ answer \in Seq(Reply)
          /\ buffer \in Seq(Reply)
          /\ serving \in 0 .. MaxRpc
          /\ taken \in [rpc : 0 .. MaxRpc, part : 0 .. PushFrames]
          /\ executed \subseteq Rpc
          /\ faults \in 0 .. MaxFaults
          /\ late \in 0 .. MaxFaults + MaxRpc
          /\ refused \subseteq Rpc
          /\ called \in [rpc : 0 .. MaxRpc, kind : Kind, frames : Seq(Reply)]

Init == /\ pc = "idle" /\ rpc = 0 /\ n = 0 /\ reply = <<>>
        /\ request = <<>> /\ answer = <<>> /\ buffer = <<>>
        /\ serving = 0 /\ taken = [rpc |-> 0, part |-> 0] /\ executed = {}
        /\ faults = 0 /\ late = 0 /\ refused = {}
        /\ called = [rpc |-> 0, kind |-> "pull", frames |-> <<>>]

-----------------------------------------------------------------------------
(* The host.                                                               *)

\* sendFramedData.
SendFrame(r, kind, part) ==
    request' = Append(request, [rpc |-> r, kind |-> kind, part |-> part])

Begin(kind) ==
    /\ pc = "idle" /\ rpc < MaxRpc
    /\ pc' = kind /\ rpc' = rpc + 1 /\ n' = 0 /\ reply' = <<>>
    /\ SendFrame(rpc', IF kind = "pull" THEN "first" ELSE "push", 1)
    /\ UNCHANGED <<board, answer, buffer, faults, late, called>>

End(success) == pc' = "idle" /\ UNCHANGED <<rpc, n, reply>>

\* Mutant of ReadFrame: the frame stays in the buffer.
PeekFrame == buffer # <<>> /\ UNCHANGED buffer

\* receiveFramedData returns the first frame that has arrived.  The bytes behind it
\* that the same read returned are lost: some whole frames and maybe the beginning
\* of one, whose rest is read later as a bad frame.
ReadFrame ==
    /\ buffer # <<>>
    /\ \E k \in 1 .. Len(buffer) :
          LET rest == SubSeq(buffer, k + 1, Len(buffer))
          IN  \/ buffer' = rest
              \/ rest # <<>> /\ buffer' = [rest EXCEPT ![1].kind = "bad"]

\* doPullTransactionV1 has received a frame.  It asks for one more after the last
\* that it takes, and reports a success without a callback.
PullReply ==
    /\ pc = "pull"
    /\ ReadFrame
    /\ LET f == Head(buffer)
       IN  \/ /\ f.kind \notin {"more", "last"}
              /\ End(FALSE) /\ UNCHANGED <<request, called, late>>
           \/ /\ f.kind = "last"
              /\ called' = [rpc |-> rpc, kind |-> pc, frames |-> Append(reply, f)]
              /\ End(TRUE) /\ UNCHANGED <<request, late>>
           \/ /\ f.kind = "more" /\ n + 1 = MaxFrames
              /\ SendFrame(rpc, "more", 1) /\ late' = late + 1
              /\ End(TRUE) /\ UNCHANGED called
           \/ /\ f.kind = "more" /\ n + 1 < MaxFrames
              /\ n' = n + 1 /\ reply' = Append(reply, f)
              /\ SendFrame(rpc, "more", 1)
              /\ UNCHANGED <<pc, rpc, called, late>>
    /\ UNCHANGED <<board, answer, faults>>

\* doPushTransactionV1 has received a frame and sends the next if there is one.
\* What handlePushAckV1 says of its kind is not used.
PushAck(isLast) ==
    /\ pc = "push"
    /\ ReadFrame
    /\ LET f == Head(buffer)
       IN  \/ /\ f.kind = "bad"
              /\ End(FALSE) /\ UNCHANGED <<request, called>>
           \/ /\ f.kind # "bad" /\ isLast
              /\ called' = [rpc |-> rpc, kind |-> pc, frames |-> <<f>>]
              /\ End(TRUE) /\ UNCHANGED request
           \/ /\ f.kind # "bad" /\ ~isLast
              /\ n' = n + 1
              /\ SendFrame(rpc, "push", n + 2)
              /\ UNCHANGED <<pc, rpc, reply, called>>
    /\ UNCHANGED <<board, answer, faults, late>>

\* Mutant of PushReply: sends one frame more than the push has.
PushOneMore == PushAck(n = PushFrames)

PushReply == PushAck(n + 1 = PushFrames)

\* Mutant of TimeOut: gives up only an answer that is on its way.
TimeOutLate ==
    /\ pc # "idle" /\ buffer = <<>> /\ answer # <<>>
    /\ faults < MaxFaults
    /\ faults' = faults + 1 /\ late' = late + 1
    /\ End(FALSE)
    /\ UNCHANGED <<board, request, answer, buffer, called>>

\* select times out: nothing has arrived, because it was lost or it is late.
TimeOut ==
    /\ pc # "idle" /\ buffer = <<>>
    /\ IF request = <<>> /\ answer = <<>> THEN UNCHANGED <<faults, late>>
       ELSE /\ faults < MaxFaults
            /\ faults' = faults + 1 /\ late' = late + 1
    /\ End(FALSE)
    /\ UNCHANGED <<board, request, answer, buffer, called>>

-----------------------------------------------------------------------------
(* The board and the line, external.                                       *)

Respond(r, kind) == answer' = Append(answer, [rpc |-> r, kind |-> kind])

\* The board takes a frame.  A pull starts or goes on with a frame that may be the
\* last; a frame of a push is acknowledged; to a damaged frame, or one it does not
\* expect, it answers that it refuses it, or not at all.
Serve ==
    /\ request # <<>>
    /\ request' = Tail(request)
    /\ LET f == Head(request)
       IN  \/ /\ f.kind = "first" \/ (f.kind = "more" /\ serving = f.rpc)
              /\ \/ serving' = f.rpc /\ Respond(f.rpc, "more")
                 \/ serving' = 0 /\ Respond(f.rpc, "last")
              /\ UNCHANGED <<taken, executed, refused>>
           \/ /\ f.kind = "push"
              /\ f.part = 1 \/ taken = [rpc |-> f.rpc, part |-> f.part - 1]
              /\ taken' = [rpc |-> f.rpc, part |-> f.part]
              /\ executed' = IF f.part = PushFrames THEN executed \cup {f.rpc} ELSE executed
              /\ Respond(f.rpc, "ack")
              /\ UNCHANGED <<serving, refused>>
           \/ /\ \/ f.kind = "bad" \/ (f.kind = "more" /\ serving # f.rpc)
                 \/ f.kind = "push" /\ f.part > 1
                                    /\ taken # [rpc |-> f.rpc, part |-> f.part - 1]
              /\ \/ UNCHANGED answer /\ UNCHANGED refused
                 \/ Respond(f.rpc, "nack") /\ refused' = refused \cup {f.rpc}
                 \/ f.kind = "push" /\ Respond(f.rpc, "ack") /\ UNCHANGED refused
              /\ UNCHANGED <<serving, taken, executed>>
    /\ UNCHANGED <<host, buffer, faults, late, called>>

\* A frame of the board arrives.
Arrive ==
    /\ answer # <<>>
    /\ answer' = Tail(answer) /\ buffer' = Append(buffer, Head(answer))
    /\ UNCHANGED <<host, board, request, faults, late, called>>

\* A frame is damaged, on its way to the board or back.
Damage ==
    /\ faults < MaxFaults /\ faults' = faults + 1
    /\ \/ request # <<>> /\ request' = [request EXCEPT ![1].kind = "bad"] /\ UNCHANGED answer
       \/ answer # <<>> /\ answer' = [answer EXCEPT ![1].kind = "bad"] /\ UNCHANGED request
    /\ UNCHANGED <<host, board, buffer, late, called>>

Host == PullReply \/ PushReply \/ TimeOut
Next == Host \/ (\E kind \in Kind : Begin(kind)) \/ Serve \/ Arrive \/ Damage

Spec == Init /\ [][Next]_vars
LiveSpec == Spec /\ WF_vars(Host) /\ WF_vars(Serve) /\ WF_vars(Arrive)

-----------------------------------------------------------------------------
(* Properties.                                                             *)

Replies == {called.frames[i].rpc : i \in 1 .. Len(called.frames)}

\* A callback is handed the answer to its own RPC, unless answers came too late: each
\* of them puts the replies at most one RPC further behind, and damaged frames never
\* do.  As long as none was late, a push that the board refused no frame of has been
\* executed when its callback is called.
TimelyReplies ==
    /\ \A r \in Replies : r <= called.rpc /\ called.rpc - r <= late
    /\ late = 0 /\ called.kind = "push" /\ called.rpc # 0
          => called.rpc \in executed \cup refused

\* Every transaction ends, whatever the board does and whatever is lost.
TransactionsEnd == pc # "idle" ~> pc = "idle"
=============================================================================
