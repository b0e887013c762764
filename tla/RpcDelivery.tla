----------------------------- MODULE RpcDelivery -----------------------------
(***************************************************************************)
(* What Transport.do_rpc and load_rpc_results promise about the RPCs a     *)
(* device issues to its board (core/transport/transport.py): they reach    *)
(* the wire in the order they were issued, each once; and the callback of  *)
(* an RPC is called at most once, only after the board has acknowledged    *)
(* that RPC, and with the reply to it.                                     *)
(***************************************************************************)
EXTENDS Naturals, Sequences

VARIABLES issued,  \* RPCs 1 .. issued were issued
          done,    \* RPCs 1 .. done were carried out, or failed
          acked,   \* the RPCs the board acknowledged
          log      \* the calls of callbacks: whose it is, which reply it gets

vars == <<issued, done, acked, log>>

Call == [cb : Nat, reply : Nat]

Init == issued = 0 /\ done = 0 /\ acked = {} /\ log = <<>>

Issue == /\ issued' = issued + 1
         /\ UNCHANGED <<done, acked, log>>

CarryOut == /\ done < issued
            /\ done' = done + 1
            /\ acked' \in {acked, acked \cup {done'}}
            /\ UNCHANGED <<issued, log>>

CallBack(r) == /\ r \in acked
               /\ \A k \in DOMAIN log : log[k].cb # r
               /\ log' = Append(log, [cb |-> r, reply |-> r])
               /\ UNCHANGED <<issued, done, acked>>

Next == Issue \/ CarryOut \/ \E r \in 1 .. issued : CallBack(r)

Spec == Init /\ [][Next]_vars
=============================================================================
