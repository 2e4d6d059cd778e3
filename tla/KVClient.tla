------------------------------ MODULE KVClient ------------------------------
(***************************************************************************)
(* The storage client of one front end or SMTP server process              *)
(* (frontend/src/kv_client.h).  All worker threads share one target and    *)
(* one connection pool.  Before a call a worker asks the coordinator for   *)
(* the primary of its row and installs it as the target; another worker,   *)
(* whose row lives elsewhere, may install its own before the first one     *)
(* takes a connection.  A call that fails in any way, a lost answer and a  *)
(* refusal alike, is repeated.                                             *)
(*                                                                         *)
(* Around the client: the coordinator's table of primaries, which may      *)
(* change at any time, and nodes that serve the requests of a connection   *)
(* in order, whether or not the client still listens.  The storage behind  *)
(* the primaries is one logical cell per row: that replicas and elections  *)
(* keep it so is the subject of Replication and Coordinator.               *)
(***************************************************************************)
EXTENDS Naturals, Sequences, FiniteSets

CONSTANTS
    Workers,   \* threads of the process, one call each
    Nodes, Rows, Vals, Nil,
    First,     \* the node the process is configured with
    Homes,     \* Homes[r]: the primary of r's tablet at the start
    Stored,    \* Stored[r]: what is stored for r at the start
    Ops,       \* the calls a worker may make
    Conns,     \* identities for connections, as many as can exist at a time
    Attempts,  \* kAttempts, 8 in the code
    MaxMoves,  \* bound: changes of primary
    MaxFaults  \* bound: failures of the network, the coordinator or a quorum

ASSUME HomeAssumption ==
    First \in Nodes /\ Homes \in [Rows -> Nodes] /\ Stored \in [Rows -> Vals \cup {Nil}]
ASSUME NilAssumption == Nil \notin Nodes \cup Conns
ASSUME OpsAssumption ==
    Ops \subseteq [kind : {"put", "put_status", "cput", "del", "get"}, row : Rows,
                   exp : Vals \cup {Nil}, val : Vals \cup {Nil}]
ASSUME KVBoundAssumption ==
    /\ Attempts \in Nat \ {0}
    /\ MaxMoves \in Nat
    /\ MaxFaults \in Nat
    /\ Conns \subseteq Nat
    /\ IsFiniteSet(Conns) /\ IsFiniteSet(Workers)

VARIABLES
    primary,  \* the coordinator's table
    moves,    \* changes of primary so far
    cell,     \* cell[r]: what is stored
    current,  \* current_: the shared target
    node,     \* the node_ of the present pool_
    idle,     \* connections in the present pool_
    mine,     \* workers whose connection came from the present pool_
    at,       \* at[c]: the node connection c leads to, Nil if c is unused
    inq,      \* inq[c]: requests the node has not served
    outq,     \* outq[c]: answers the client has not read
    pc,       \* pc[w]: where worker w is in exec_row or get_status
    call,     \* call[w]: its operation
    att,      \* att[w]: attempts made
    held,     \* held[w]: the connection it has borrowed, or Nil
    seen,     \* seen[w]: the node it looked up, or the target it rebuilds for
    result,   \* result[w]: what the call returned
    faults,   \* failures so far
    took,     \* history: workers whose write has been applied
    adrift    \* history: workers that gave up an answer

pool   == <<current, node, idle, mine>>
net    == <<at, inq, outq>>
worker == <<pc, call, att, held, seen, result>>
table  == <<primary, moves>>
ghosts == <<faults, took, adrift>>
vars   == <<table, cell, pool, net, worker, ghosts>>

\* Requests and answers carry the worker and the attempt they belong to.
Tag(w) == [w |-> w, att |-> att[w]]

\* Something outside the process fails.
Fault == faults < MaxFaults /\ faults' = faults + 1

Open == {w \in Workers : pc[w] \notin {"idle", "done"}}

Init ==
    /\ primary = Homes /\ moves = 0
    /\ cell = Stored
    /\ current = First /\ node = First /\ idle = {} /\ mine = {}
    /\ at = [c \in Conns |-> Nil]
    /\ inq = [c \in Conns |-> <<>>] /\ outq = [c \in Conns |-> <<>>]
    /\ pc = [w \in Workers |-> "idle"]
    /\ call = [w \in Workers |-> Nil]
    /\ att = [w \in Workers |-> 0]
    /\ held = [w \in Workers |-> Nil]
    /\ seen = [w \in Workers |-> Nil]
    /\ result = [w \in Workers |-> "none"]
    /\ faults = 0 /\ took = {} /\ adrift = {}

-----------------------------------------------------------------------------
(* The pool. *)

\* pool_ becomes a new object for n; the connections of the old one are closed
\* when its last borrower drops it.
FreshPool(n) ==
    /\ node' = n /\ idle' = {} /\ mine' = {}
    /\ at' = [c \in Conns |-> IF c \in idle THEN Nil ELSE at[c]]

\* ::close: what the node has not served yet it may still serve.
Close(c) ==
    /\ at' = [at EXCEPT ![c] = IF inq[c] = <<>> THEN Nil ELSE @]
    /\ outq' = [outq EXCEPT ![c] = <<>>]
    /\ UNCHANGED inq

\* ConnectionPool::release, into the pool the connection was taken from.
Release(w) ==
    /\ IF w \in mine
       THEN idle' = idle \cup {held[w]} /\ UNCHANGED at
       ELSE at' = [at EXCEPT ![held[w]] = Nil] /\ UNCHANGED idle
    /\ mine' = mine \ {w}

Finish(w, res) ==
    /\ pc' = [pc EXCEPT ![w] = "done"]
    /\ result' = [result EXCEPT ![w] = res]

-----------------------------------------------------------------------------
(* exec_row, exec_row_write and get_status. *)

Issue(w, op) ==
    /\ pc[w] = "idle"
    /\ pc' = [pc EXCEPT ![w] = "lookup"]
    /\ call' = [call EXCEPT ![w] = op]
    /\ UNCHANGED <<table, cell, pool, net, att, held, seen, result, ghosts>>

\* LOOKUP answers with the row's primary.
lookup_primary(w) ==
    /\ pc[w] = "lookup"
    /\ seen' = [seen EXCEPT ![w] = primary[call[w].row]]
    /\ pc' = [pc EXCEPT ![w] = "install"]
    /\ UNCHANGED <<table, cell, pool, net, call, att, held, result, ghosts>>

\* Variant: one attempt too many.
AfterRefreshLate(w) ==
    IF att[w] > Attempts THEN Finish(w, "failed")
    ELSE pc' = [pc EXCEPT ![w] = "borrow"] /\ UNCHANGED result

\* The loop ends when the attempts are used up, after one more refresh.
AfterRefresh(w) ==
    IF att[w] = Attempts THEN Finish(w, "failed")
    ELSE pc' = [pc EXCEPT ![w] = "borrow"] /\ UNCHANGED result

\* No lookup succeeded: a write gives up before its first attempt, a read and
\* a repeated write go on with the target there is.
LookupFails(w) ==
    /\ pc[w] = "lookup"
    /\ Fault
    /\ IF att[w] = 0 /\ call[w].kind # "get" THEN Finish(w, "failed")
       ELSE AfterRefresh(w)
    /\ UNCHANGED <<table, cell, pool, net, call, att, held, seen, took, adrift>>

\* install_target: under mu_, a new pool unless the target is the same.
install_target(w) ==
    /\ pc[w] = "install"
    /\ IF current = seen[w] THEN UNCHANGED <<pool, at>>
       ELSE current' = seen[w] /\ FreshPool(seen[w])
    /\ AfterRefresh(w)
    /\ UNCHANGED <<table, cell, inq, outq, call, att, held, seen, ghosts>>

\* snapshot_pool and borrow, an idle connection or a new one, and the request.
Borrow(w) ==
    /\ pc[w] = "borrow"
    /\ \E c \in Conns :
          /\ IF idle = {} THEN at[c] = Nil /\ \A d \in Conns : at[d] = Nil => c <= d
             ELSE c \in idle
          /\ idle' = idle \ {c}
          /\ at' = [at EXCEPT ![c] = node]
          /\ held' = [held EXCEPT ![w] = c]
          /\ inq' = [inq EXCEPT ![c] = Append(@, Tag(w))]
    /\ mine' = mine \cup {w}
    /\ pc' = [pc EXCEPT ![w] = "wait"]
    /\ UNCHANGED <<table, cell, current, node, outq, call, att, seen, result, ghosts>>

\* The target cannot be reached: the attempt is over without a request.
BorrowFails(w) ==
    /\ pc[w] = "borrow"
    /\ idle = {}
    /\ Fault
    /\ att' = [att EXCEPT ![w] = @ + 1]
    /\ pc' = [pc EXCEPT ![w] = "lookup"]
    /\ UNCHANGED <<table, cell, pool, net, call, held, seen, result, took, adrift>>

-----------------------------------------------------------------------------
(* Answers. *)

\* What ends a call: any success, "not found" for a read, and "no quorum" for
\* put_status.  Everything else is repeated.
Final(op, ans) ==
    \/ ans = "ok"
    \/ ans = "missing" /\ op.kind = "get"
    \/ ans = "noquorum" /\ op.kind = "put_status"

\* Variant: a write without a quorum is taken for done.
OutcomeHopeful(ans) == IF ans = "noquorum" THEN "ok" ELSE ans

Outcome(ans) == IF ans = "noquorum" THEN "failed" ELSE ans

ReadFinal(w) ==
    /\ pc[w] = "wait" /\ outq[held[w]] # <<>>
    /\ LET ans == Head(outq[held[w]]).ans IN
          /\ Final(call[w], ans)
          /\ Finish(w, Outcome(ans))
    /\ outq' = [outq EXCEPT ![held[w]] = Tail(@)]
    /\ Release(w)
    /\ held' = [held EXCEPT ![w] = Nil]
    /\ UNCHANGED <<table, cell, current, node, inq, call, att, seen, ghosts>>

\* Variant: the connection goes back to the pool.
RetryReleases(w) ==
    /\ Release(w)
    /\ held' = [held EXCEPT ![w] = Nil]
    /\ pc' = [pc EXCEPT ![w] = "rebuild"]
    /\ UNCHANGED <<table, cell, current, node, inq, outq, call, att, seen, result, took>>

\* The connection is closed, and the pool is rebuilt before the next attempt.
Retry(w) ==
    /\ Close(held[w])
    /\ held' = [held EXCEPT ![w] = Nil]
    /\ mine' = mine \ {w}
    /\ pc' = [pc EXCEPT ![w] = "rebuild"]
    /\ UNCHANGED <<table, cell, current, node, idle, call, att, seen, result, took>>

ReadRefusal(w) ==
    /\ pc[w] = "wait" /\ outq[held[w]] # <<>>
    /\ ~Final(call[w], Head(outq[held[w]]).ans)
    /\ Retry(w)
    /\ UNCHANGED <<faults, adrift>>

\* The timeout of the socket, or a connection that breaks.
AnswerLost(w) ==
    /\ pc[w] = "wait"
    /\ Fault
    /\ adrift' = adrift \cup {w}
    /\ Retry(w)

\* rebuild_current_pool, first half: the target is read under mu_.
RebuildStart(w) ==
    /\ pc[w] = "rebuild"
    /\ seen' = [seen EXCEPT ![w] = current]
    /\ pc' = [pc EXCEPT ![w] = "swap"]
    /\ UNCHANGED <<table, cell, pool, net, call, att, held, result, ghosts>>

\* Variant: without the same_node test.
RebuildSwapBlind(w) ==
    /\ pc[w] = "swap"
    /\ FreshPool(seen[w])
    /\ att' = [att EXCEPT ![w] = @ + 1]
    /\ pc' = [pc EXCEPT ![w] = "lookup"]
    /\ UNCHANGED <<table, cell, current, inq, outq, call, held, seen, result, ghosts>>

\* Variant: the attempt is not counted.
RebuildSwapUncounted(w) ==
    /\ pc[w] = "swap"
    /\ IF current = seen[w] THEN FreshPool(seen[w]) ELSE UNCHANGED <<node, idle, mine, at>>
    /\ pc' = [pc EXCEPT ![w] = "lookup"]
    /\ UNCHANGED <<table, cell, current, inq, outq, call, att, held, seen, result, ghosts>>

\* Second half: the new pool is installed if the target is still the same.
RebuildSwap(w) ==
    /\ pc[w] = "swap"
    /\ IF current = seen[w] THEN FreshPool(seen[w]) ELSE UNCHANGED <<node, idle, mine, at>>
    /\ att' = [att EXCEPT ![w] = @ + 1]
    /\ pc' = [pc EXCEPT ![w] = "lookup"]
    /\ UNCHANGED <<table, cell, current, inq, outq, call, held, seen, result, ghosts>>

-----------------------------------------------------------------------------
(* Nodes and the coordinator. *)

Holders(c) == {w \in Workers : held[w] = c}

\* The node takes the next request of c and sends its answer, which nobody
\* reads if the client has closed c.
Answered(c, ans) ==
    /\ inq' = [inq EXCEPT ![c] = Tail(@)]
    /\ IF Holders(c) = {} /\ c \notin idle
       THEN /\ at' = [at EXCEPT ![c] = IF Tail(inq[c]) = <<>> THEN Nil ELSE @]
            /\ UNCHANGED outq
       ELSE /\ outq' = [outq EXCEPT ![c] = Append(@, [tag |-> Head(inq[c]), ans |-> ans])]
            /\ UNCHANGED at
    /\ UNCHANGED <<table, pool, worker, adrift>>

\* handle_request at the primary of the row.
Serve(c) ==
    /\ inq[c] # <<>>
    /\ UNCHANGED faults
    /\ LET w == Head(inq[c]).w
           op == call[w]
       IN  /\ at[c] = primary[op.row]
           /\ \/ /\ op.kind = "get"
                 /\ Answered(c, IF cell[op.row] = Nil THEN "missing" ELSE "ok")
                 /\ UNCHANGED <<cell, took>>
              \/ /\ op.kind # "get" /\ (op.kind = "cput" => cell[op.row] = op.exp)
                 /\ cell' = [cell EXCEPT ![op.row] = op.val]
                 /\ took' = took \cup {w}
                 /\ Answered(c, "ok")
              \/ /\ op.kind = "cput" /\ cell[op.row] # op.exp
                 /\ Answered(c, "error")
                 /\ UNCHANGED <<cell, took>>

\* At any other node: "row not hosted", or not the primary.  A replica answers
\* a read from its own rows, which may be behind.
ServeElsewhere(c) ==
    /\ inq[c] # <<>>
    /\ at[c] # primary[call[Head(inq[c]).w].row]
    /\ \/ Answered(c, "error")
       \/ /\ call[Head(inq[c]).w].kind = "get"
          /\ \E ans \in {"ok", "missing"} : Answered(c, ans)
    /\ UNCHANGED <<cell, took, faults>>

\* Variant: the write stays.
ServeNoQuorumStays(c) ==
    /\ inq[c] # <<>>
    /\ LET w == Head(inq[c]).w IN
          /\ call[w].kind # "get" /\ at[c] = primary[call[w].row]
          /\ cell' = [cell EXCEPT ![call[w].row] = call[w].val]
          /\ took' = took \cup {w}
    /\ Fault
    /\ Answered(c, "noquorum")

\* A write that finds no quorum is undone before it is answered.  A refused
\* compare-and-put and a delete of nothing need none.
ServeNoQuorum(c) ==
    /\ inq[c] # <<>>
    /\ LET op == call[Head(inq[c]).w] IN
          /\ op.kind # "get" /\ at[c] = primary[op.row]
          /\ op.kind = "cput" => cell[op.row] = op.exp
          /\ op.kind = "del" => cell[op.row] # Nil
    /\ Fault
    /\ Answered(c, "noquorum")
    /\ UNCHANGED <<cell, took>>

\* The coordinator elects another primary for a row's tablet.
Elect(r, n) ==
    /\ moves < MaxMoves
    /\ primary[r] # n
    /\ primary' = [primary EXCEPT ![r] = n]
    /\ moves' = moves + 1
    /\ UNCHANGED <<cell, pool, net, worker, ghosts>>

-----------------------------------------------------------------------------
Step(w) ==
    \/ lookup_primary(w) \/ LookupFails(w) \/ install_target(w)
    \/ Borrow(w) \/ BorrowFails(w)
    \/ ReadFinal(w) \/ ReadRefusal(w) \/ AnswerLost(w)
    \/ RebuildStart(w) \/ RebuildSwap(w)

Node(c) == Serve(c) \/ ServeElsewhere(c) \/ ServeNoQuorum(c)

Next ==
    \/ \E w \in Workers : Step(w) \/ \E op \in Ops : Issue(w, op)
    \/ \E c \in Conns : Node(c)
    \/ \E r \in Rows, n \in Nodes : Elect(r, n)

Spec == Init /\ [][Next]_vars

\* Threads run, and a node goes on reading the connections it has accepted.
FairSpec ==
    /\ Spec
    /\ \A w \in Workers : WF_vars(Step(w))
    /\ \A c \in Conns : WF_vars(Node(c))

-----------------------------------------------------------------------------
(* Properties. *)

\* The variables have their types, a worker that waits holds a connection, and
\* no two of them share one (ConnectionPool::borrow).
TypeOK ==
    /\ primary \in [Rows -> Nodes] /\ moves \in 0..MaxMoves
    /\ cell \in [Rows -> Vals \cup {Nil}]
    /\ current \in Nodes /\ node \in Nodes /\ idle \subseteq Conns /\ mine \subseteq Workers
    /\ at \in [Conns -> Nodes \cup {Nil}]
    /\ pc \in [Workers -> {"idle", "lookup", "install", "borrow", "wait",
                           "rebuild", "swap", "done"}]
    /\ call \in [Workers -> Ops \cup {Nil}]
    /\ att \in [Workers -> 0..Attempts]
    /\ held \in [Workers -> Conns \cup {Nil}]
    /\ \A w \in Workers : pc[w] = "wait" <=> held[w] # Nil
    /\ seen \in [Workers -> Nodes \cup {Nil}]
    /\ result \in [Workers -> {"none", "ok", "missing", "failed"}]
    /\ faults \in 0..MaxFaults /\ took \subseteq Workers /\ adrift \subseteq Workers

\* The pool belongs to the target, whatever install_target and
\* rebuild_current_pool of several workers do in between, and so do the
\* connections that are given back to it.
PoolOfTarget == node = current /\ \A c \in idle : at[c] = current

\* A worker that waits on a connection can only read the answer to the request
\* of its present attempt: no answer of an earlier request, its own or another
\* worker's, is still to come on it.
OwnAnswers ==
    \A w \in Workers : pc[w] = "wait" =>
        /\ Holders(held[w]) = {w} /\ held[w] \notin idle
        /\ \A i \in DOMAIN inq[held[w]] : inq[held[w]][i] = Tag(w)
        /\ \A i \in DOMAIN outq[held[w]] : outq[held[w]][i].tag = Tag(w)

\* A write that is reported as failed had no effect, unless one of its answers
\* was lost: a refusal is never the echo of the call's own success.
FailedMeansRefused ==
    \A w \in Workers : result[w] = "failed" /\ w \notin adrift => w \notin took

\* The client keeps the promise of KVCalls.
Calls == INSTANCE KVCalls WITH open <- Open
ImplementsCalls == Calls!Spec

\* Every call returns.
CallsReturn == \A w \in Workers : w \in Open ~> w \notin Open

-----------------------------------------------------------------------------
(* The inductive invariant of KVClientProofs. *)
Answers == {"ok", "missing", "error", "noquorum"}
Tags == [w : Workers, att : Nat]
Replies == [tag : Tags, ans : Answers]

\* Requests and answers have their types; a thread in a call has an operation, one
\* that installs or rebuilds has a node, and one that will make an attempt has one left.
FlowType ==
    /\ inq \in [Conns -> Seq(Tags)] /\ outq \in [Conns -> Seq(Replies)]
    /\ \A w \in Workers :
          /\ pc[w] # "idle" \/ w \in adrift => call[w] \in Ops
          /\ pc[w] # "done" => result[w] = "none"
          /\ pc[w] \in {"install", "swap"} => seen[w] \in Nodes
          /\ pc[w] \in {"borrow", "wait", "rebuild", "swap"} => att[w] < Attempts

\* A connection is unused and empty, or idle and empty, or held by one thread, or
\* closed with requests that its node has not served.
Separate ==
    /\ \A w, v \in Workers : held[w] # Nil /\ held[w] = held[v] => w = v
    /\ \A w \in Workers : held[w] # Nil => held[w] \notin idle /\ at[held[w]] # Nil
    /\ \A c \in Conns : at[c] = Nil \/ c \in idle => inq[c] = <<>> /\ outq[c] = <<>>

\* A thread that took its connection from the present pool has one to the target.
Borrowed == \A w \in mine : held[w] # Nil /\ at[held[w]] = current

\* A held connection has the request of the present attempt or the answer to it.
OneRequest ==
    \A w \in Workers : held[w] # Nil =>
        \/ inq[held[w]] = <<Tag(w)>> /\ outq[held[w]] = <<>>
        \/ /\ inq[held[w]] = <<>>
           /\ \E a \in Answers : outq[held[w]] = <<[tag |-> Tag(w), ans |-> a]>>

\* The requests on closed connections are of threads that gave up an answer, and
\* nobody waits for what is answered there.
NoStray ==
    \A c \in Conns : (\A w \in Workers : held[w] # c) =>
        /\ outq[c] = <<>>
        /\ \A i \in DOMAIN inq[c] : inq[c][i].w \in adrift

\* A write that took effect, of a thread that gave up no answer, has been answered
\* with success or is about to be.
NoEcho ==
    \A w \in took \ adrift :
        \/ pc[w] = "done" /\ result[w] = "ok"
        \/ pc[w] = "wait" /\ outq[held[w]] = <<[tag |-> Tag(w), ans |-> "ok"]>>

ClientInv ==
    /\ TypeOK /\ FlowType /\ PoolOfTarget
    /\ Separate /\ Borrowed /\ OneRequest /\ NoStray /\ NoEcho

\* What an answer stands for: success of a write, that it took effect; "not found",
\* that the call is a read.
Justified(w, a) ==
    /\ a = "ok" => call[w].kind = "get" \/ w \in took
    /\ a = "missing" => call[w].kind = "get"

\* For the refinement of KVCalls: the answers to be read are justified.
Acked ==
    \A w \in Workers :
        /\ pc[w] = "idle" => call[w] = Nil
        /\ held[w] # Nil /\ outq[held[w]] # <<>> => Justified(w, Head(outq[held[w]]).ans)
=============================================================================
