------------------------------ MODULE KVCalls ------------------------------
(***************************************************************************)
(* What the front ends and the SMTP server may rely on when they call the  *)
(* storage client, without targets, pools, sockets or retries.  A call     *)
(* takes effect while it is open, perhaps more than once.  Success means   *)
(* that it did.  Failure means nothing: the effect may have happened, or   *)
(* may happen later, when a request the client gave up is still on its way *)
(* to a node.  The handlers of Mail, Drive, Session and Smtp are modelled  *)
(* on top of these outcomes, with the effect inside the call.              *)
(***************************************************************************)
CONSTANTS Workers, Rows, Ops, Nil, Stored

VARIABLES
    cell,    \* cell[r]: the value stored for row r, or Nil
    call,    \* call[w]: the operation of w's call, or Nil before it
    open,    \* the workers whose call has not returned
    took,    \* the workers whose write has taken effect
    adrift,  \* the workers that gave up a request that a node may still serve
    result   \* result[w]: "none", "ok", "missing" or "failed"

cvars == <<cell, call, open, took, adrift, result>>

\* An operation changes its row when the stored value is the one it expects.
Matches(op) == op.kind # "get" /\ (op.kind = "cput" => cell[op.row] = op.exp)

Init ==
    /\ cell = Stored
    /\ call = [w \in Workers |-> Nil]
    /\ open = {} /\ took = {} /\ adrift = {}
    /\ result = [w \in Workers |-> "none"]

Issue(w, op) ==
    /\ call[w] = Nil
    /\ call' = [call EXCEPT ![w] = op]
    /\ open' = open \cup {w}
    /\ UNCHANGED <<cell, took, adrift, result>>

TakeEffect(w) ==
    /\ w \in open \cup adrift
    /\ Matches(call[w])
    /\ cell' = [cell EXCEPT ![call[w].row] = call[w].val]
    /\ took' = took \cup {w}
    /\ UNCHANGED <<call, open, adrift, result>>

GiveUp(w) ==
    /\ w \in open
    /\ adrift' = adrift \cup {w}
    /\ UNCHANGED <<cell, call, open, took, result>>

Return(w, res) ==
    /\ w \in open
    /\ res = "ok" => call[w].kind = "get" \/ w \in took
    /\ res = "missing" => call[w].kind = "get"
    /\ open' = open \ {w}
    /\ result' = [result EXCEPT ![w] = res]
    /\ UNCHANGED <<cell, call, took, adrift>>

Next ==
    \E w \in Workers :
        \/ \E op \in Ops : Issue(w, op)
        \/ TakeEffect(w)
        \/ GiveUp(w)
        \/ \E res \in {"ok", "missing", "failed"} : Return(w, res)

Spec == Init /\ [][Next]_cvars
=============================================================================
