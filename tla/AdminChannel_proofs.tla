------------------------- MODULE AdminChannel_proofs -------------------------
(***************************************************************************)
(* Proofs about AdminChannel: its types, and that no client takes a late   *)
(* answer for the one it polls for.  AckIsOwn speaks of the answers taken. *)
(* They are the right ones because of what a REQ socket that may send, and *)
(* a client that polls, can have on the line: nothing, and nothing but the *)
(* request polled for.                                                     *)
(***************************************************************************)
EXTENDS AdminChannel, TLAPS

OneRequest(c) ==
    /\ socket[c] = "ready" => line[c] = Silent
    /\ poll[c] # "none" => /\ socket[c] = "waiting"
                           /\ line[c] = Silent \/ (line[c].asked /\ line[c].what = poll[c])

AInv == TypeOK /\ AckIsOwn /\ \A c \in Client : OneRequest(c)

-----------------------------------------------------------------------------
\* A step that changes only what belongs to one client, and keeps the types of that.
StepOf(c) ==
    /\ pc' = [pc EXCEPT ![c] = pc'[c]] /\ mode' = [mode EXCEPT ![c] = mode'[c]]
    /\ poll' = [poll EXCEPT ![c] = poll'[c]] /\ socket' = [socket EXCEPT ![c] = socket'[c]]
    /\ line' = [line EXCEPT ![c] = line'[c]] /\ connected' = [connected EXCEPT ![c] = connected'[c]]
    /\ got' = [got EXCEPT ![c] = got'[c]]
    /\ server' \in {"up", "down"} /\ faults' \in 0 .. MaxFaults

TypesOf(c) ==
    /\ pc'[c] \in {"off", "check", "sleep", "pull", "up", "ask"}
    /\ mode'[c] \in {"once", "limited", "forever"}
    /\ poll'[c] \in Request \cup {"none"}
    /\ socket'[c] \in {"ready", "waiting"}
    /\ line'[c] \in Message \cup {Silent}
    /\ connected'[c] \in BOOLEAN
    /\ got'[c] \in [asked : BOOLEAN, what : Request, answer : Request]
    /\ poll'[c] # "none" <=> pc'[c] \in {"check", "ask"}

\* A function that takes another value of its range at one client keeps its type.
LEMMA SetOne ==
    ASSUME NEW S, NEW c \in Client, NEW f \in [Client -> S], NEW g, g = [f EXCEPT ![c] = g[c]],
           g[c] \in S
    PROVE  g \in [Client -> S]
<1> DEFINE v == g[c]
<1>1. g = [f EXCEPT ![c] = v] /\ v \in S
    OBVIOUS
<1> HIDE DEF v
<1> QED
    BY <1>1

\* Such a step keeps the invariant if it does for that client.
LEMMA StepOfOne ==
    ASSUME AInv, NEW c \in Client, StepOf(c), TypesOf(c),
           got'[c].asked /\ got'[c].answer = got'[c].what, OneRequest(c)'
    PROVE  AInv'
<1>1. \A d \in Client \ {c} :
         /\ pc'[d] = pc[d] /\ mode'[d] = mode[d] /\ poll'[d] = poll[d] /\ socket'[d] = socket[d]
         /\ line'[d] = line[d] /\ connected'[d] = connected[d] /\ got'[d] = got[d]
    BY DEF AInv, TypeOK, StepOf
<1>2. TypeOK'
    <2>1. /\ pc' \in [Client -> {"off", "check", "sleep", "pull", "up", "ask"}]
          /\ mode' \in [Client -> {"once", "limited", "forever"}]
        BY SetOne, Zenon DEF AInv, TypeOK, StepOf, TypesOf
    <2>2. poll' \in [Client -> Request \cup {"none"}]
        <3>1. poll \in [Client -> Request \cup {"none"}] /\ poll'[c] \in Request \cup {"none"}
            BY Zenon DEF AInv, TypeOK, TypesOf
        <3>2. poll' = [poll EXCEPT ![c] = poll'[c]]
            BY Zenon DEF StepOf
        <3> QED
            BY <3>1, <3>2, SetOne, Zenon
    <2>7. socket' \in [Client -> {"ready", "waiting"}]
        <3>1. socket \in [Client -> {"ready", "waiting"}] /\ socket'[c] \in {"ready", "waiting"}
            BY Zenon DEF AInv, TypeOK, TypesOf
        <3>2. socket' = [socket EXCEPT ![c] = socket'[c]]
            BY Zenon DEF StepOf
        <3> QED
            BY <3>1, <3>2, SetOne, Zenon
    <2>3. line' \in [Client -> Message \cup {Silent}]
        <3>1. line \in [Client -> Message \cup {Silent}] /\ line'[c] \in Message \cup {Silent}
            BY Zenon DEF AInv, TypeOK, TypesOf
        <3>2. line' = [line EXCEPT ![c] = line'[c]]
            BY Zenon DEF StepOf
        <3> QED
            BY <3>1, <3>2, SetOne, Zenon
    <2>6. connected' \in [Client -> BOOLEAN]
        <3>1. connected \in [Client -> BOOLEAN] /\ connected'[c] \in BOOLEAN
            BY Zenon DEF AInv, TypeOK, TypesOf
        <3>2. connected' = [connected EXCEPT ![c] = connected'[c]]
            BY Zenon DEF StepOf
        <3> QED
            BY <3>1, <3>2, SetOne, Zenon
    <2>5. got' \in [Client -> [asked : BOOLEAN, what : Request, answer : Request]]
        BY SetOne, Zenon DEF AInv, TypeOK, StepOf, TypesOf
    <2>4. \A d \in Client : poll'[d] # "none" <=> pc'[d] \in {"check", "ask"}
        <3> TAKE d \in Client
        <3>1. CASE d = c
            BY <3>1, Zenon DEF TypesOf
        <3>2. CASE d # c
            BY <1>1, <3>2, Zenon DEF AInv, TypeOK
        <3> QED
            BY <3>1, <3>2
    <2> QED
        BY <2>1, <2>2, <2>3, <2>4, <2>5, <2>6, <2>7, Zenon DEF TypeOK, StepOf
<1>3. AckIsOwn'
    BY <1>1, Zenon DEF AInv, AckIsOwn
<1>4. \A d \in Client : OneRequest(d)'
    <2> TAKE d \in Client
    <2>1. CASE d = c
        BY <2>1
    <2>2. CASE d # c
        BY <1>1, <2>2, Zenon DEF AInv, OneRequest
    <2> QED
        BY <2>1, <2>2
<1> QED
    BY <1>2, <1>3, <1>4 DEF AInv

\* What is known of a client before its step.
LEMMA ClientFacts ==
    ASSUME AInv, NEW c \in Client
    PROVE  /\ pc[c] \in {"off", "check", "sleep", "pull", "up", "ask"}
           /\ mode[c] \in {"once", "limited", "forever"}
           /\ poll[c] \in Request \cup {"none"}
           /\ socket[c] \in {"ready", "waiting"}
           /\ line[c] \in Message \cup {Silent}
           /\ connected[c] \in BOOLEAN
           /\ got[c] \in [asked : BOOLEAN, what : Request, answer : Request]
           /\ poll[c] # "none" <=> pc[c] \in {"check", "ask"}
           /\ got[c].asked /\ got[c].answer = got[c].what
           /\ socket[c] = "ready" => line[c] = Silent
           /\ poll[c] # "none" => socket[c] = "waiting"
           /\ poll[c] # "none" => line[c] = Silent \/ (line[c].asked /\ line[c].what = poll[c])
BY Zenon DEF AInv, TypeOK, AckIsOwn, OneRequest

-----------------------------------------------------------------------------
(* The server.                                                             *)

\* When the server stops, requests are lost or stay where they are.
LEMMA StopStep ==
    ASSUME AInv, Stop, UNCHANGED client, faults' \in 0 .. MaxFaults
    PROVE  AInv'
<1>1. line' \in [Client -> Message \cup {Silent}] /\ server' = "down"
    BY DEF Stop
<1>2. \A c \in Client : line'[c] = line[c] \/ line'[c] = Silent
    BY DEF Stop
<1>3. TypeOK'
    BY <1>1, Zenon DEF AInv, TypeOK, client
<1>4. AckIsOwn'
    BY Zenon DEF AInv, AckIsOwn, client
<1>5. \A c \in Client : OneRequest(c)'
    BY <1>2, Zenon DEF AInv, OneRequest, client
<1> QED
    BY <1>3, <1>4, <1>5 DEF AInv

LEMMA AnswerStep ==
    ASSUME AInv, NEW c \in Client, Answer(c)
    PROVE  AInv'
<1>1. line'[c] = [line[c] EXCEPT !.at = "client"] /\ line[c].at = "server"
    BY DEF Answer, AInv, TypeOK
<1>2. line[c] \in Message
    BY <1>1, ClientFacts DEF Silent
<1>3. line'[c] \in Message /\ line'[c].asked = line[c].asked /\ line'[c].what = line[c].what
    BY <1>1, <1>2 DEF Message
<1>4. line[c] # Silent
    BY <1>1 DEF Silent
<1>5. UNCHANGED <<server, faults, pc, mode, poll, socket, connected, got>>
    BY DEF Answer, client
<1>6. TypesOf(c)
    BY <1>3, <1>5, ClientFacts, Zenon DEF TypesOf
<1>7. StepOf(c)
    BY <1>1, <1>5 DEF StepOf, Answer, AInv, TypeOK
<1>8. OneRequest(c)'
    BY <1>3, <1>4, <1>5, ClientFacts, Zenon DEF OneRequest
<1> QED
    BY <1>5, <1>6, <1>7, <1>8, ClientFacts, StepOfOne, Zenon

LEMMA KilledStep ==
    ASSUME AInv, NEW c \in Client, Killed(c)
    PROVE  AInv'
BY StopStep, Zenon DEF Killed, AInv, TypeOK

LEMMA CrashStep ==
    ASSUME AInv, Crash
    PROVE  AInv'
<1>1. faults' \in 0 .. MaxFaults
    BY FaultsAssumption DEF Crash, Fault, AInv, TypeOK
<1> QED
    BY <1>1, StopStep, Zenon DEF Crash

LEMMA ServerStartupStep ==
    ASSUME AInv, ServerStartup
    PROVE  AInv'
<1>1. TypeOK'
    BY Zenon DEF AInv, TypeOK, ServerStartup, client
<1>2. AckIsOwn' /\ \A c \in Client : OneRequest(c)'
    BY Zenon DEF AInv, AckIsOwn, OneRequest, ServerStartup, client
<1> QED
    BY <1>1, <1>2 DEF AInv

-----------------------------------------------------------------------------
(* The clients.                                                            *)

\* A request is on the line, and the client polls for it.
LEMMA PostedFacts ==
    ASSUME AInv, NEW c \in Client, NEW r \in Request, Posted(c, r)
    PROVE  /\ poll' = [poll EXCEPT ![c] = poll'[c]] /\ socket' = [socket EXCEPT ![c] = socket'[c]]
           /\ line' = [line EXCEPT ![c] = line'[c]]
           /\ poll'[c] = r /\ r # "none" /\ socket'[c] = "waiting" /\ socket'[c] # "ready"
           /\ line'[c] \in Message /\ line'[c].asked /\ line'[c].what = r
           /\ OneRequest(c)'
<1>1. poll'[c] = r /\ socket'[c] = "waiting" /\ line'[c] = [at |-> "server", what |-> r, asked |-> TRUE]
    BY DEF Posted, AInv, TypeOK
<1>2. /\ poll' = [poll EXCEPT ![c] = poll'[c]] /\ socket' = [socket EXCEPT ![c] = socket'[c]]
      /\ line' = [line EXCEPT ![c] = line'[c]]
    BY <1>1, Zenon DEF Posted
<1>3. r # "none" /\ "waiting" # "ready"
    BY DEF Request
<1>4. line'[c] \in Message /\ line'[c].asked /\ line'[c].what = r
    BY <1>1 DEF Message
<1>5. OneRequest(c)'
    BY <1>1, <1>3, <1>4, Zenon DEF OneRequest
<1> QED
    BY <1>1, <1>2, <1>3, <1>4, <1>5, Zenon

\* What becomes of a client whose request has been answered, or has not.
LEMMA ReturnedFacts ==
    ASSUME AInv, NEW c \in Client, NEW r, NEW ok \in BOOLEAN, Returned(c, r, ok)
    PROVE  /\ pc' = [pc EXCEPT ![c] = pc'[c]] /\ connected' = [connected EXCEPT ![c] = connected'[c]]
           /\ pc'[c] \in {"off", "sleep", "pull", "up"}
           /\ connected'[c] \in BOOLEAN
<1>1. connected' = [connected EXCEPT ![c] = connected'[c]] /\ connected'[c] \in BOOLEAN
    <2>1. (ok /\ r # "kill") \in BOOLEAN
        OBVIOUS
    <2>2. connected'[c] = (ok /\ r # "kill")
        BY Zenon DEF Returned, AInv, TypeOK
    <2> QED
        BY <2>1, <2>2, Zenon DEF Returned
<1>2. pc'[c] \in {"off", "sleep", "pull", "up"} /\ pc' = [pc EXCEPT ![c] = pc'[c]]
    <2> DEFINE next == CASE pc[c] = "check" /\ ok -> IF c \in SameUser THEN "pull" ELSE "off"
                         [] pc[c] = "check" /\ ~ok -> IF mode[c] = "once" THEN "off" ELSE "sleep"
                         [] r = "kill" -> "off"
                         [] OTHER -> "up"
    <2>1. next \in {"off", "sleep", "pull", "up"}
        OBVIOUS
    <2>2. pc' = [pc EXCEPT ![c] = next]
        BY Zenon DEF Returned
    <2> HIDE DEF next
    <2>3. pc'[c] = next
        BY <2>2, Zenon DEF AInv, TypeOK
    <2> QED
        BY <2>1, <2>2, <2>3, Zenon
<1> QED
    BY <1>1, <1>2

LEMMA ReceiveStep ==
    ASSUME AInv, NEW c \in Client, Receive(c)
    PROVE  AInv'
<1> DEFINE taken == [asked |-> line[c].asked, what |-> poll[c], answer |-> line[c].what]
<1>1. /\ poll[c] # "none" /\ poll[c] \in Request /\ line[c].asked /\ line[c].what = poll[c]
      /\ line[c] \in Message
    <2>1. line[c] # Silent
        BY DEF Receive, Silent
    <2>2. poll[c] # "none"
        BY Zenon DEF Receive
    <2> QED
        BY <2>1, <2>2, ClientFacts
<1>2. taken \in [asked : BOOLEAN, what : Request, answer : Request] /\ taken.asked /\ taken.answer = taken.what
    BY <1>1 DEF Message
<1>3. /\ pc' = [pc EXCEPT ![c] = pc'[c]] /\ connected' = [connected EXCEPT ![c] = connected'[c]]
      /\ pc'[c] \in {"off", "sleep", "pull", "up"} /\ connected'[c] \in BOOLEAN
    <2>1. (poll[c] = "ping" \/ line[c].what = poll[c]) \in BOOLEAN
        OBVIOUS
    <2> QED
        BY <2>1, ReturnedFacts, Zenon DEF Receive
<1> HIDE DEF taken
<1>4. /\ got' = [got EXCEPT ![c] = taken] /\ poll' = [poll EXCEPT ![c] = "none"]
      /\ socket' = [socket EXCEPT ![c] = "ready"] /\ line' = [line EXCEPT ![c] = Silent]
      /\ UNCHANGED <<server, faults, mode>>
    BY Zenon DEF Receive, taken
<1>5. got'[c] = taken /\ poll'[c] = "none" /\ socket'[c] = "ready" /\ line'[c] = Silent /\ mode'[c] = mode[c]
    BY <1>4, Zenon DEF AInv, TypeOK
<1>6. StepOf(c)
    <2>1. mode' = [mode EXCEPT ![c] = mode'[c]]
        BY <1>4 DEF AInv, TypeOK
    <2> QED
        BY <1>3, <1>4, <1>5, <2>1, Zenon DEF StepOf, AInv, TypeOK
<1>7. TypesOf(c)
    <2>1. pc'[c] \notin {"check", "ask"} /\ pc'[c] \in {"off", "check", "sleep", "pull", "up", "ask"}
          /\ socket'[c] \in {"ready", "waiting"}
        BY <1>3, <1>5
    <2> QED
        BY <1>2, <1>3, <1>5, <2>1, ClientFacts, Zenon DEF TypesOf
<1>8. OneRequest(c)'
    BY <1>5, Zenon DEF OneRequest
<1> QED
    BY <1>2, <1>5, <1>6, <1>7, <1>8, StepOfOne, Zenon

LEMMA TimedOutStep ==
    ASSUME AInv, NEW c \in Client, TimedOut(c)
    PROVE  AInv'
<1>1. /\ pc' = [pc EXCEPT ![c] = pc'[c]] /\ connected' = [connected EXCEPT ![c] = connected'[c]]
      /\ pc'[c] \in {"off", "sleep", "pull", "up"} /\ connected'[c] \in BOOLEAN
    <2>1. FALSE \in BOOLEAN
        OBVIOUS
    <2> QED
        BY <2>1, ReturnedFacts, Zenon DEF TimedOut
<1>2. poll' = [poll EXCEPT ![c] = "none"] /\ UNCHANGED <<server, line, mode, socket, got>>
    BY Zenon DEF TimedOut
<1>3. poll'[c] = "none"
    BY <1>2, Zenon DEF AInv, TypeOK
<1>4. faults' \in 0 .. MaxFaults
    BY FaultsAssumption DEF TimedOut, Fault, AInv, TypeOK
<1>5. StepOf(c)
    <2>1. /\ mode' = [mode EXCEPT ![c] = mode'[c]] /\ socket' = [socket EXCEPT ![c] = socket'[c]]
          /\ line' = [line EXCEPT ![c] = line'[c]] /\ got' = [got EXCEPT ![c] = got'[c]]
        BY <1>2 DEF AInv, TypeOK
    <2> QED
        BY <1>1, <1>2, <1>3, <1>4, <2>1, Zenon DEF StepOf, AInv, TypeOK
<1>6. TypesOf(c)
    <2>1. pc'[c] \notin {"check", "ask"} /\ pc'[c] \in {"off", "check", "sleep", "pull", "up", "ask"}
        BY <1>1
    <2> QED
        BY <1>1, <1>2, <1>3, <2>1, ClientFacts, Zenon DEF TypesOf
<1>7. OneRequest(c)'
    BY <1>2, <1>3, ClientFacts, Zenon DEF OneRequest
<1> QED
    BY <1>2, <1>5, <1>6, <1>7, ClientFacts, StepOfOne, Zenon

\* Startup and Retry: a ping through a new socket.
LEMMA PingStep ==
    ASSUME AInv, NEW c \in Client, Posted(c, "ping"), pc' = [pc EXCEPT ![c] = "check"],
           mode' = [mode EXCEPT ![c] = mode'[c]], mode'[c] \in {"once", "limited", "forever"},
           UNCHANGED <<server, faults, connected, got>>
    PROVE  AInv'
<1>1. "ping" \in Request /\ "check" \in {"check", "ask"}
      /\ "check" \in {"off", "check", "sleep", "pull", "up", "ask"} /\ "waiting" \in {"ready", "waiting"}
    BY DEF Request
<1>2. /\ poll' = [poll EXCEPT ![c] = poll'[c]] /\ socket' = [socket EXCEPT ![c] = socket'[c]]
      /\ line' = [line EXCEPT ![c] = line'[c]]
      /\ poll'[c] = "ping" /\ "ping" # "none" /\ socket'[c] = "waiting" /\ line'[c] \in Message
      /\ OneRequest(c)'
    BY <1>1, PostedFacts, Zenon
<1>3. pc'[c] = "check"
    BY Zenon DEF AInv, TypeOK
<1>4. StepOf(c)
    <2>1. /\ connected' = [connected EXCEPT ![c] = connected'[c]] /\ got' = [got EXCEPT ![c] = got'[c]]
          /\ pc' = [pc EXCEPT ![c] = pc'[c]]
        BY <1>3 DEF AInv, TypeOK
    <2> QED
        BY <1>2, <2>1, Zenon DEF StepOf, AInv, TypeOK
<1>5. TypesOf(c)
    BY <1>1, <1>2, <1>3, ClientFacts, Zenon DEF TypesOf
<1> QED
    BY <1>2, <1>4, <1>5, ClientFacts, StepOfOne, Zenon

\* A client that neither polls nor begins to changes only its pc and connected.
LEMMA QuietStep ==
    ASSUME AInv, NEW c \in Client, pc[c] \notin {"check", "ask"},
           pc' = [pc EXCEPT ![c] = pc'[c]], pc'[c] \in {"off", "sleep", "pull", "up"},
           connected' = [connected EXCEPT ![c] = connected'[c]], connected'[c] \in BOOLEAN,
           server' \in {"up", "down"}, faults' \in 0 .. MaxFaults,
           UNCHANGED <<line, mode, poll, socket, got>>
    PROVE  AInv'
<1>1. StepOf(c)
    <2>1. /\ mode' = [mode EXCEPT ![c] = mode'[c]] /\ socket' = [socket EXCEPT ![c] = socket'[c]]
          /\ line' = [line EXCEPT ![c] = line'[c]] /\ got' = [got EXCEPT ![c] = got'[c]]
          /\ poll' = [poll EXCEPT ![c] = poll'[c]]
        BY DEF AInv, TypeOK
    <2> QED
        BY <2>1, Zenon DEF StepOf
<1>2. TypesOf(c)
    <2>1. pc'[c] \notin {"check", "ask"} /\ pc'[c] \in {"off", "check", "sleep", "pull", "up", "ask"}
        OBVIOUS
    <2> QED
        BY <2>1, ClientFacts, Zenon DEF TypesOf
<1>3. OneRequest(c)'
    BY ClientFacts, Zenon DEF OneRequest
<1> QED
    BY <1>1, <1>2, <1>3, ClientFacts, StepOfOne, Zenon

LEMMA AskStep ==
    ASSUME AInv, NEW c \in Client, NEW r \in Request, Ask(c, r)
    PROVE  AInv'
<1>1. pc[c] = "up" /\ pc[c] \notin {"check", "ask"} /\ UNCHANGED <<server, mode, got>>
    BY DEF Ask
<1>2. faults' \in 0 .. MaxFaults
    BY FaultsAssumption DEF Ask, Fault, AInv, TypeOK
<1>3. poll[c] = "none"
    BY <1>1, ClientFacts, Zenon
<1>4. CASE Posted(c, r)
    <2>1. /\ poll' = [poll EXCEPT ![c] = poll'[c]] /\ socket' = [socket EXCEPT ![c] = socket'[c]]
          /\ line' = [line EXCEPT ![c] = line'[c]]
          /\ poll'[c] = r /\ r # "none" /\ socket'[c] = "waiting" /\ line'[c] \in Message
          /\ OneRequest(c)'
        BY <1>4, PostedFacts, Zenon
    <2>2. pc' = [pc EXCEPT ![c] = "ask"] /\ UNCHANGED connected
        BY <2>1, Zenon DEF Ask
    <2>3. pc'[c] = "ask"
        BY <2>2, Zenon DEF AInv, TypeOK
    <2>4. StepOf(c)
        <3>1. /\ connected' = [connected EXCEPT ![c] = connected'[c]]
              /\ got' = [got EXCEPT ![c] = got'[c]] /\ mode' = [mode EXCEPT ![c] = mode'[c]]
              /\ pc' = [pc EXCEPT ![c] = pc'[c]]
            BY <1>1, <2>2, <2>3 DEF AInv, TypeOK
        <3> QED
            BY <1>1, <1>2, <2>1, <3>1, Zenon DEF StepOf, AInv, TypeOK
    <2>5. TypesOf(c)
        <3>1. /\ "ask" \in {"check", "ask"} /\ "ask" \in {"off", "check", "sleep", "pull", "up", "ask"}
              /\ "waiting" \in {"ready", "waiting"}
            OBVIOUS
        <3> QED
            BY <1>1, <2>1, <2>2, <2>3, <3>1, ClientFacts, Zenon DEF TypesOf
    <2> QED
        BY <1>1, <2>1, <2>4, <2>5, ClientFacts, StepOfOne, Zenon
<1>5. CASE UNCHANGED <<poll, socket, line>>
    <2>1. Returned(c, r, FALSE)
        BY <1>3, <1>5, Zenon DEF Ask
    <2>2. /\ pc' = [pc EXCEPT ![c] = pc'[c]] /\ connected' = [connected EXCEPT ![c] = connected'[c]]
          /\ pc'[c] \in {"off", "sleep", "pull", "up"} /\ connected'[c] \in BOOLEAN
        <3>1. FALSE \in BOOLEAN
            OBVIOUS
        <3> QED
            BY <2>1, <3>1, ReturnedFacts, Zenon
    <2>3. server' \in {"up", "down"}
        BY <1>1 DEF AInv, TypeOK
    <2> QED
        BY <1>1, <1>2, <1>5, <2>2, <2>3, QuietStep, Zenon
<1>6. Posted(c, r) \/ UNCHANGED <<poll, socket, line>>
    BY Zenon DEF Ask, Send
<1> QED
    BY <1>4, <1>5, <1>6

LEMMA StartupStep ==
    ASSUME AInv, NEW c \in Client, Startup(c)
    PROVE  AInv'
<1>1. PICK m \in {"once", "limited", "forever"} : mode' = [mode EXCEPT ![c] = m]
    BY Zenon DEF Startup
<1>2. mode'[c] = m
    BY <1>1, Zenon DEF AInv, TypeOK
<1> QED
    BY <1>1, <1>2, PingStep, Zenon DEF Startup, Send

LEMMA RetryStep ==
    ASSUME AInv, NEW c \in Client, Retry(c)
    PROVE  AInv'
<1>1. mode' = mode /\ mode[c] \in {"once", "limited", "forever"} /\ mode = [mode EXCEPT ![c] = mode[c]]
    BY ClientFacts DEF Retry, AInv, TypeOK
<1> QED
    BY <1>1, PingStep, Zenon DEF Retry, Send

LEMMA QuietSteps ==
    ASSUME AInv, NEW c \in Client, Deadline(c) \/ FirstStatus(c) \/ Shutdown(c)
    PROVE  AInv'
<1>1. pc[c] \notin {"check", "ask"}
    BY DEF Deadline, FirstStatus, Shutdown
<1>2. pc'[c] \in {"off", "sleep", "pull", "up"} /\ pc' = [pc EXCEPT ![c] = pc'[c]]
    BY DEF Deadline, FirstStatus, Shutdown, AInv, TypeOK
<1>3. UNCHANGED <<server, faults, line, mode, poll, socket, got>>
    BY Zenon DEF Deadline, FirstStatus, Shutdown
<1>4. connected'[c] \in BOOLEAN /\ connected' = [connected EXCEPT ![c] = connected'[c]]
    <2>1. connected[c] \in BOOLEAN /\ FALSE \in BOOLEAN /\ connected = [connected EXCEPT ![c] = connected[c]]
        BY ClientFacts DEF AInv, TypeOK
    <2>2. CASE connected' = connected
        BY <2>1, <2>2, Zenon
    <2>3. CASE connected' = [connected EXCEPT ![c] = FALSE]
        <3>1. connected'[c] = FALSE
            BY <2>3, Zenon DEF AInv, TypeOK
        <3> QED
            BY <2>1, <2>3, <3>1, Zenon
    <2> QED
        BY <2>2, <2>3, Zenon DEF Deadline, FirstStatus, Shutdown
<1>5. server' \in {"up", "down"} /\ faults' \in 0 .. MaxFaults
    BY <1>3, Zenon DEF AInv, TypeOK
<1> QED
    BY <1>1, <1>2, <1>3, <1>4, <1>5, QuietStep, Zenon

-----------------------------------------------------------------------------
LEMMA InitInv == Init => AInv
<1> SUFFICES ASSUME Init PROVE AInv
    OBVIOUS
<1>1. TypeOK
    <2>1. /\ server \in {"up", "down"} /\ faults \in 0 .. MaxFaults
          /\ pc \in [Client -> {"off", "check", "sleep", "pull", "up", "ask"}]
          /\ mode \in [Client -> {"once", "limited", "forever"}]
          /\ poll \in [Client -> Request \cup {"none"}]
          /\ socket \in [Client -> {"ready", "waiting"}]
        BY FaultsAssumption DEF Init
    <2>2. /\ line \in [Client -> Message \cup {Silent}]
          /\ got \in [Client -> [asked : BOOLEAN, what : Request, answer : Request]]
        BY DEF Init, Request
    <2>3. connected \in [Client -> BOOLEAN]
        BY DEF Init
    <2>4. \A c \in Client : poll[c] # "none" <=> pc[c] \in {"check", "ask"}
        BY DEF Init
    <2> QED
        BY <2>1, <2>2, <2>3, <2>4, Zenon DEF TypeOK
<1>2. AckIsOwn
    BY DEF Init, AckIsOwn
<1>3. \A c \in Client : OneRequest(c)
    BY Zenon DEF Init, OneRequest
<1> QED
    BY <1>1, <1>2, <1>3 DEF AInv

LEMMA NextInv == AInv /\ [Next]_vars => AInv'
<1> SUFFICES ASSUME AInv, [Next]_vars PROVE AInv'
    OBVIOUS
<1>1. CASE UNCHANGED vars
    <2>1. TypeOK'
        BY <1>1, Zenon DEF AInv, TypeOK, vars, client
    <2>2. AckIsOwn' /\ \A c \in Client : OneRequest(c)'
        BY <1>1, Zenon DEF AInv, AckIsOwn, OneRequest, vars, client
    <2> QED
        BY <2>1, <2>2 DEF AInv
<1>2. CASE Next
    BY <1>2, CrashStep, ServerStartupStep, AnswerStep, KilledStep, ReceiveStep, TimedOutStep,
       RetryStep, StartupStep, QuietSteps, AskStep, Zenon DEF Next, ClientStep
<1> QED
    BY <1>1, <1>2

LEMMA Invariance == Spec => []AInv
BY InitInv, NextInv, PTL DEF Spec

\* Every variable keeps its type, and a client polls exactly when it is in an operation
\* that waits for an answer.
THEOREM TypeCorrect == Spec => []TypeOK
BY Invariance, PTL DEF AInv

\* For any clients, however often the server crashes and requests time out, the answer
\* that a client takes is the one to the request that it has just made.
THEOREM OwnAnswer == Spec => []AckIsOwn
BY Invariance, PTL DEF AInv
=============================================================================
