----------------------------- MODULE AdminChannel -----------------------------
(***************************************************************************)
(* The admin channel between StretchBodyClient and StretchBodyServer       *)
(* (core/client_server.py) and the startup of a client, which is built on  *)
(* it: a ping that is answered is what makes a client connected.           *)
(*                                                                         *)
(* ZMQ is external.  A REQ socket cannot send before it has received the   *)
(* answer to what it sent last, so it has one request on the line at most, *)
(* and one whose answer never comes is of no more use.  What the line of a *)
(* closed socket still carries reaches nobody.                             *)
(***************************************************************************)
EXTENDS Naturals

CONSTANTS Client,
          SameUser,  \* the clients that may use this server
          MaxFaults  \* bound: crashes and kills of the server, answers too late

ASSUME UserAssumption == SameUser \subseteq Client
ASSUME FaultsAssumption == MaxFaults \in Nat

VARIABLES server,    \* "up" or "down"
          faults,    \* bound: number of faults
          pc,        \* the operation that each client is in, "off" or "up" if none
          mode,      \* block_timeout_s of its startup
          poll,      \* the request it polls for, "none" if it does not
          socket,    \* its REQ socket: "ready" to send, or "waiting" for an answer
          line,      \* what is on the way to the server or back, and what it is to
          connected, \* _server_connected
          got        \* history: the request its last answer was taken for, and was to

client == <<pc, mode, poll, socket, connected, got>>
vars == <<server, faults, line, client>>

Request == {"ping", "free_up_control", "kill"}
\* asked is false when the client has given up the request and has asked another.
Message == [at : {"server", "client"}, what : Request, asked : BOOLEAN]
Silent == [at |-> "nowhere", what |-> "ping", asked |-> FALSE]

TypeOK == /\ server \in {"up", "down"}
          /\ faults \in 0 .. MaxFaults
          /\ pc \in [Client -> {"off", "check", "sleep", "pull", "up", "ask"}]
          /\ mode \in [Client -> {"once", "limited", "forever"}]
          /\ poll \in [Client -> Request \cup {"none"}]
          /\ socket \in [Client -> {"ready", "waiting"}]
          /\ line \in [Client -> Message \cup {Silent}]
          /\ connected \in [Client -> BOOLEAN]
          /\ got \in [Client -> [asked : BOOLEAN, what : Request, answer : Request]]
          /\ \A c \in Client : poll[c] # "none" <=> pc[c] \in {"check", "ask"}

Init == /\ server = "down" /\ faults = 0
        /\ pc = [c \in Client |-> "off"]
        /\ mode = [c \in Client |-> "once"]
        /\ poll = [c \in Client |-> "none"]
        /\ socket = [c \in Client |-> "ready"]
        /\ line = [c \in Client |-> Silent]
        /\ connected = [c \in Client |-> FALSE]
        /\ got = [c \in Client |-> [asked |-> TRUE, what |-> "ping", answer |-> "ping"]]

Fault == faults < MaxFaults /\ faults' = faults + 1

-----------------------------------------------------------------------------
(* The server.                                                             *)

\* dispatch_admin_messages: a request is carried out and answered.
Answer(c) == /\ server = "up" /\ line[c].at = "server" /\ line[c].what # "kill"
             /\ line' = [line EXCEPT ![c].at = "client"]
             /\ UNCHANGED <<server, faults, client>>

\* A kill stops the server; its socket is closed when the answer is to be sent.
\* What other clients have asked is lost, or waits in their sockets for the next server.
Stop == /\ server' = "down"
        /\ line' \in {l \in [Client -> Message \cup {Silent}] :
                        \A c \in Client : l[c] \in IF line[c].at = "server" THEN {line[c], Silent}
                                                   ELSE {line[c]}}

Killed(c) == /\ server = "up" /\ line[c].at = "server" /\ line[c].what = "kill"
             /\ Stop /\ line'[c] = Silent
             /\ UNCHANGED <<faults, client>>

Crash == server = "up" /\ Fault /\ Stop /\ UNCHANGED client

ServerStartup == server = "down" /\ server' = "up" /\ UNCHANGED <<faults, line, client>>

-----------------------------------------------------------------------------
(* _do_send_recv_admin_str of a client.                                    *)

Posted(c, r) == /\ poll' = [poll EXCEPT ![c] = r]
                /\ socket' = [socket EXCEPT ![c] = "waiting"]
                /\ line' = [line EXCEPT ![c] = [at |-> "server", what |-> r, asked |-> TRUE]]

\* Mutant of Send: polls though the socket could not send.
SendRegardless(c, r, new) ==
    IF new \/ socket[c] = "ready" THEN Posted(c, r)
    ELSE /\ poll' = [poll EXCEPT ![c] = r]
         /\ line' = [line EXCEPT ![c].asked = FALSE]
         /\ UNCHANGED socket

\* A new socket sends.  One that waits for an answer raises: the client polls for nothing.
Send(c, r, new) == IF new \/ socket[c] = "ready" THEN Posted(c, r)
                   ELSE UNCHANGED <<poll, socket, line>>

\* What check_connection, startup and free_up_control do with the answer to r, or with
\* none.  After a kill the client stops, whatever was answered.
Returned(c, r, ok) ==
    /\ connected' = [connected EXCEPT ![c] = ok /\ r # "kill"]
    /\ pc' = [pc EXCEPT ![c] = CASE pc[c] = "check" /\ ok -> IF c \in SameUser THEN "pull" ELSE "off"
                                 [] pc[c] = "check" /\ ~ok -> IF mode[c] = "once" THEN "off" ELSE "sleep"
                                 [] r = "kill" -> "off"
                                 [] OTHER -> "up"]

Receive(c) ==
    /\ poll[c] # "none" /\ line[c].at = "client"
    /\ Returned(c, poll[c], poll[c] = "ping" \/ line[c].what = poll[c])
    /\ got' = [got EXCEPT ![c] = [asked |-> line[c].asked, what |-> poll[c],
                                   answer |-> line[c].what]]
    /\ poll' = [poll EXCEPT ![c] = "none"]
    /\ socket' = [socket EXCEPT ![c] = "ready"]
    /\ line' = [line EXCEPT ![c] = Silent]
    /\ UNCHANGED <<server, faults, mode>>

\* Mutant of TimedOut: None is taken for an answer of which nothing is known.
TimedOutUnnoticed(c) ==
    /\ poll[c] # "none" /\ line[c].at # "client"
    /\ poll' = [poll EXCEPT ![c] = "none"]
    /\ UNCHANGED <<server, faults, line, pc, mode, socket, connected, got>>

\* The poll ends without an answer: there is no server, or it is late.
TimedOut(c) ==
    /\ poll[c] # "none" /\ line[c].at # "client"
    /\ IF server = "up" /\ line[c].at = "server" THEN Fault ELSE UNCHANGED faults
    /\ Returned(c, poll[c], FALSE)
    /\ poll' = [poll EXCEPT ![c] = "none"]
    /\ UNCHANGED <<server, line, mode, socket, got>>

-----------------------------------------------------------------------------
(* startup, and the requests of a client that has started.                 *)

Startup(c) == /\ pc[c] \in {"off", "up"}
              /\ \E m \in {"once", "limited", "forever"} : mode' = [mode EXCEPT ![c] = m]
              /\ pc' = [pc EXCEPT ![c] = "check"]
              /\ Send(c, "ping", TRUE)
              /\ UNCHANGED <<server, faults, connected, got>>

\* Mutant of Retry: the socket is not replaced.
RetrySameSocket(c) == /\ pc[c] = "sleep"
                      /\ Send(c, "ping", FALSE)
                      /\ pc' = [pc EXCEPT ![c] = IF poll'[c] = "none" THEN "sleep" ELSE "check"]
                      /\ UNCHANGED <<server, faults, mode, connected, got>>

\* "start fresh each retry": with a new socket.
Retry(c) == /\ pc[c] = "sleep"
            /\ Send(c, "ping", TRUE)
            /\ pc' = [pc EXCEPT ![c] = "check"]
            /\ UNCHANGED <<server, faults, mode, connected, got>>

Deadline(c) == /\ pc[c] = "sleep" /\ mode[c] = "limited"
               /\ pc' = [pc EXCEPT ![c] = "off"]
               /\ UNCHANGED <<server, faults, line, mode, poll, socket, connected, got>>

\* The blocking pull_status at the end of SubsystemClient.startup.
FirstStatus(c) == /\ pc[c] = "pull" /\ server = "up"
                  /\ pc' = [pc EXCEPT ![c] = "up"]
                  /\ UNCHANGED <<server, faults, line, mode, poll, socket, connected, got>>

\* Only a ping is sent when the client is not connected.  A kill is counted as a fault.
Ask(c, r) == /\ pc[c] = "up" /\ (r = "ping" \/ connected[c])
             /\ IF r = "kill" THEN Fault ELSE UNCHANGED faults
             /\ Send(c, r, FALSE)
             /\ IF poll'[c] = "none" THEN Returned(c, r, FALSE)
                ELSE pc' = [pc EXCEPT ![c] = "ask"] /\ UNCHANGED connected
             /\ UNCHANGED <<server, mode, got>>

Shutdown(c) == /\ pc[c] = "up"
               /\ pc' = [pc EXCEPT ![c] = "off"]
               /\ connected' = [connected EXCEPT ![c] = FALSE]
               /\ UNCHANGED <<server, faults, line, mode, poll, socket, got>>

ClientStep(c) == Receive(c) \/ TimedOut(c) \/ Retry(c) \/ Deadline(c) \/ FirstStatus(c)

Next == \/ Crash \/ ServerStartup
        \/ \E c \in Client : \/ Answer(c) \/ Killed(c)
                            \/ ClientStep(c) \/ Startup(c) \/ Shutdown(c)
                            \/ \E r \in Request : Ask(c, r)

\* The server is started again, it answers every admin request in one of its cycles, and
\* every poll and sleep of a client ends.
Fairness == /\ WF_vars(ServerStartup)
            /\ \A c \in Client : WF_vars(Answer(c) \/ Killed(c)) /\ WF_vars(ClientStep(c))

Spec == Init /\ [][Next]_vars /\ Fairness

-----------------------------------------------------------------------------
(* Properties.                                                             *)

\* The answer that a client takes is the one to the request it has just made, also after
\* requests that timed out: never a late one, which would say that control was freed.
AckIsOwn == \A c \in Client : got[c].asked /\ got[c].answer = got[c].what

\* A startup returns, and one that waits for ever for the server returns connected, if
\* the server is there at last and the client may use it.
StartupEnds ==
    \A c \in Client : /\ pc[c] = "check" ~> pc[c] \in {"off", "up"}
                      /\ pc[c] = "check" /\ mode[c] = "forever" /\ c \in SameUser
                            ~> pc[c] = "up" /\ connected[c]
=============================================================================
