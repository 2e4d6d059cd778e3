--------------------------- MODULE KVClientProofs ---------------------------
(***************************************************************************)
(* Proofs about KVClient for every number of threads, nodes, rows,         *)
(* connections, attempts, changes of primary and failures: the types, that *)
(* the pool is the target's, that no thread reads the answer to another    *)
(* request, that a refused write had no effect, and that the client        *)
(* implements KVCalls.                                                     *)
(***************************************************************************)
EXTENDS KVClient, TLAPS

\* A sequence of one element.
LEMMA OneElement ==
    ASSUME NEW x
    PROVE  /\ Append(<<>>, x) = <<x>> /\ Tail(<<x>>) = <<>> /\ Head(<<x>>) = x
           /\ <<x>> # <<>> /\ DOMAIN <<x>> = {1} /\ <<x>>[1] = x
  OBVIOUS

\* The answer in a sequence of one.
LEMMA OneAnswer ==
    ASSUME NEW t, NEW u, NEW a, NEW b,
           <<[tag |-> t, ans |-> a]>> = <<[tag |-> u, ans |-> b]>>
    PROVE  a = b
<1>1. [tag |-> t, ans |-> a] = [tag |-> u, ans |-> b]
  BY OneElement
<1>2. [tag |-> t, ans |-> a].ans = a /\ [tag |-> u, ans |-> b].ans = b
  OBVIOUS
<1> QED BY <1>1, <1>2

\* The invariant holds when a process starts.
LEMMA InitInv == Init => ClientInv
<1> SUFFICES ASSUME Init PROVE ClientInv
  OBVIOUS
<1> USE NilAssumption, HomeAssumption, KVBoundAssumption DEF Init
<1>1. TypeOK
  BY DEF TypeOK
<1>2. FlowType
  BY DEF FlowType
<1>3. PoolOfTarget /\ Separate
  BY DEF PoolOfTarget, Separate
<1>4. Borrowed /\ OneRequest /\ NoStray /\ NoEcho
  BY DEF Borrowed, OneRequest, NoStray, NoEcho
<1> QED BY <1>1, <1>2, <1>3, <1>4 DEF ClientInv

-----------------------------------------------------------------------------
(* Steps that leave pool and connections alone. *)

\* What they preserve: nobody who holds a connection goes on to another attempt.
LEMMA QuietPool ==
    ASSUME ClientInv, UNCHANGED <<pool, net, held, took, adrift>>,
           \A v \in Workers : held[v] # Nil => att'[v] = att[v]
    PROVE  PoolOfTarget' /\ Separate' /\ Borrowed' /\ OneRequest' /\ NoStray'
<1> USE DEF ClientInv, pool, net
<1>1. PoolOfTarget' /\ Separate' /\ Borrowed' /\ NoStray'
  BY DEF PoolOfTarget, Separate, Borrowed, NoStray
<1>2. OneRequest'
  BY DEF OneRequest, Tag
<1> QED BY <1>1, <1>2

\* A thread that is not waiting and not done cannot have taken effect unless it
\* gave up an answer, so its step leaves NoEcho alone.
LEMMA QuietEcho ==
    ASSUME ClientInv, NEW w \in Workers, pc[w] \notin {"wait", "done"},
           \A v \in Workers \ {w} : pc'[v] = pc[v] /\ result'[v] = result[v] /\ att'[v] = att[v],
           UNCHANGED <<outq, held, took, adrift>>
    PROVE  NoEcho'
<1>1. took \subseteq Workers /\ w \notin took \ adrift
  BY DEF ClientInv, TypeOK, NoEcho
<1> QED BY <1>1 DEF ClientInv, NoEcho, Tag

\* A worker starts a call.
LEMMA IssueInv ==
    ASSUME ClientInv, NEW w \in Workers, NEW op \in Ops, Issue(w, op)
    PROVE  ClientInv'
<1> USE DEF Issue, table, pool, net, worker, ghosts
<1>1. TypeOK'
  BY DEF ClientInv, TypeOK
<1>2. FlowType'
  BY DEF ClientInv, TypeOK, FlowType
<1>3. PoolOfTarget' /\ Separate' /\ Borrowed' /\ OneRequest' /\ NoStray'
  BY QuietPool
<1>4. NoEcho'
  BY QuietEcho DEF ClientInv, TypeOK
<1> QED BY <1>1, <1>2, <1>3, <1>4 DEF ClientInv

\* The coordinator answers with the row's primary.
LEMMA LookupInv ==
    ASSUME ClientInv, NEW w \in Workers, lookup_primary(w)
    PROVE  ClientInv'
<1> USE DEF lookup_primary, table, pool, net, worker, ghosts
<1>0. call[w].row \in Rows /\ primary[call[w].row] \in Nodes
  BY OpsAssumption DEF ClientInv, TypeOK, FlowType
<1>1. TypeOK'
  BY <1>0 DEF ClientInv, TypeOK
<1>2. FlowType'
  BY <1>0 DEF ClientInv, TypeOK, FlowType
<1>3. PoolOfTarget' /\ Separate' /\ Borrowed' /\ OneRequest' /\ NoStray'
  BY QuietPool
<1>4. NoEcho'
  BY QuietEcho DEF ClientInv, TypeOK
<1> QED BY <1>1, <1>2, <1>3, <1>4 DEF ClientInv

\* The lookup fails: the call is over, or goes on with the target there is.
LEMMA LookupFailsInv ==
    ASSUME ClientInv, NEW w \in Workers, LookupFails(w)
    PROVE  ClientInv'
<1> USE KVBoundAssumption DEF LookupFails, AfterRefresh, Finish, Fault, table, pool, net, worker, ghosts
<1>1. TypeOK'
  BY DEF ClientInv, TypeOK
<1>2. FlowType'
  <2>1. \A v \in Workers \ {w} : pc'[v] = pc[v] /\ result'[v] = result[v]
    BY DEF ClientInv, TypeOK
  <2>2. \/ pc'[w] = "done"
        \/ pc'[w] = "borrow" /\ result'[w] = result[w] /\ att[w] # Attempts
    BY DEF ClientInv, TypeOK
  <2>3. att[w] # Attempts => att[w] < Attempts
    BY DEF ClientInv, TypeOK
  <2> QED BY <2>1, <2>2, <2>3 DEF ClientInv, FlowType
<1>3. PoolOfTarget' /\ Separate' /\ Borrowed' /\ OneRequest' /\ NoStray'
  BY QuietPool
<1>4. NoEcho'
  BY QuietEcho DEF ClientInv, TypeOK
<1> QED BY <1>1, <1>2, <1>3, <1>4 DEF ClientInv

\* The target cannot be reached, which costs one of the attempts left.
LEMMA BorrowFailsInv ==
    ASSUME ClientInv, NEW w \in Workers, BorrowFails(w)
    PROVE  ClientInv'
<1> USE KVBoundAssumption DEF BorrowFails, Fault, table, pool, net, worker, ghosts
<1>1. TypeOK'
  BY DEF ClientInv, TypeOK, FlowType
<1>2. FlowType'
  BY DEF ClientInv, TypeOK, FlowType
<1>3. PoolOfTarget' /\ Separate' /\ Borrowed' /\ OneRequest' /\ NoStray'
  BY QuietPool DEF ClientInv, TypeOK
<1>4. NoEcho'
  BY QuietEcho DEF ClientInv, TypeOK
<1> QED BY <1>1, <1>2, <1>3, <1>4 DEF ClientInv

\* rebuild_current_pool reads the target.
LEMMA RebuildStartInv ==
    ASSUME ClientInv, NEW w \in Workers, RebuildStart(w)
    PROVE  ClientInv'
<1> USE DEF RebuildStart, table, pool, net, worker, ghosts
<1>1. TypeOK'
  BY DEF ClientInv, TypeOK
<1>2. FlowType'
  BY DEF ClientInv, TypeOK, FlowType
<1>3. PoolOfTarget' /\ Separate' /\ Borrowed' /\ OneRequest' /\ NoStray'
  BY QuietPool
<1>4. NoEcho'
  BY QuietEcho DEF ClientInv, TypeOK
<1> QED BY <1>1, <1>2, <1>3, <1>4 DEF ClientInv

\* The coordinator's table changes; the client does not notice.
LEMMA ElectInv ==
    ASSUME ClientInv, NEW r \in Rows, NEW n \in Nodes, Elect(r, n)
    PROVE  ClientInv'
<1> USE DEF Elect, table, pool, net, worker, ghosts
<1>1. TypeOK'
  BY KVBoundAssumption DEF ClientInv, TypeOK
<1>2. FlowType'
  BY DEF ClientInv, FlowType
<1>3. PoolOfTarget' /\ Separate' /\ Borrowed' /\ OneRequest' /\ NoStray'
  BY QuietPool
<1>4. NoEcho'
  BY DEF ClientInv, NoEcho, Tag
<1> QED BY <1>1, <1>2, <1>3, <1>4 DEF ClientInv

-----------------------------------------------------------------------------
(* A new pool. *)

\* A pool of its own for the new target: no connection of the old one is idle in it.
LEMMA FreshPoolInv ==
    ASSUME ClientInv, NEW n \in Nodes, FreshPool(n), current' = n,
           UNCHANGED <<inq, outq, held, adrift>>,
           \A v \in Workers : held[v] # Nil => att'[v] = att[v]
    PROVE  PoolOfTarget' /\ Separate' /\ Borrowed' /\ OneRequest' /\ NoStray'
<1> USE DEF ClientInv, FreshPool
<1>1. PoolOfTarget' /\ Borrowed'
  BY DEF PoolOfTarget, Borrowed
<1>2. Separate'
  BY DEF Separate, TypeOK
<1>3. OneRequest'
  BY DEF OneRequest, Tag
<1>4. NoStray'
  BY DEF NoStray
<1> QED BY <1>1, <1>2, <1>3, <1>4

\* install_target replaces the pool together with the target.
LEMMA InstallInv ==
    ASSUME ClientInv, NEW w \in Workers, install_target(w)
    PROVE  ClientInv'
<1> USE KVBoundAssumption DEF install_target, AfterRefresh, Finish, table, pool, net, worker, ghosts
<1>0. seen[w] \in Nodes
  BY DEF ClientInv, FlowType
<1>1. TypeOK'
  BY <1>0 DEF ClientInv, TypeOK, FreshPool
<1>2. FlowType'
  <2>1. \A v \in Workers \ {w} : pc'[v] = pc[v] /\ result'[v] = result[v]
    BY DEF ClientInv, TypeOK
  <2>2. \/ pc'[w] = "done"
        \/ pc'[w] = "borrow" /\ result'[w] = result[w] /\ att[w] # Attempts
    BY DEF ClientInv, TypeOK
  <2>3. att[w] # Attempts => att[w] < Attempts
    BY DEF ClientInv, TypeOK
  <2> QED BY <2>1, <2>2, <2>3 DEF ClientInv, FlowType
<1>3. PoolOfTarget' /\ Separate' /\ Borrowed' /\ OneRequest' /\ NoStray'
  BY <1>0, QuietPool, FreshPoolInv
<1>4. NoEcho'
  BY QuietEcho DEF ClientInv, TypeOK
<1> QED BY <1>1, <1>2, <1>3, <1>4 DEF ClientInv

\* rebuild_current_pool replaces the pool only if the target is the one it read.
LEMMA RebuildSwapInv ==
    ASSUME ClientInv, NEW w \in Workers, RebuildSwap(w)
    PROVE  ClientInv'
<1> USE KVBoundAssumption DEF RebuildSwap, table, pool, net, worker, ghosts
<1>0. seen[w] \in Nodes /\ held[w] = Nil
  BY DEF ClientInv, FlowType, TypeOK
<1>1. TypeOK'
  <2>1. att' \in [Workers -> 0..Attempts]
    <3>1. att[w] + 1 \in 0..Attempts
      BY DEF ClientInv, TypeOK, FlowType
    <3> QED BY <3>1 DEF ClientInv, TypeOK
  <2>2. /\ node' \in Nodes /\ idle' \subseteq Conns /\ mine' \subseteq Workers
        /\ at' \in [Conns -> Nodes \cup {Nil}]
    BY <1>0 DEF ClientInv, TypeOK, FreshPool
  <2>3. /\ pc' \in [Workers -> {"idle", "lookup", "install", "borrow", "wait",
                                "rebuild", "swap", "done"}]
        /\ \A v \in Workers : pc'[v] = "wait" <=> held[v] # Nil
    BY <1>0 DEF ClientInv, TypeOK
  <2> QED BY <2>1, <2>2, <2>3 DEF ClientInv, TypeOK
<1>2. FlowType'
  BY DEF ClientInv, TypeOK, FlowType
<1>3. \A v \in Workers : held[v] # Nil => att'[v] = att[v]
  BY <1>0 DEF ClientInv, TypeOK
<1>4. PoolOfTarget' /\ Separate' /\ Borrowed' /\ OneRequest' /\ NoStray'
  <2>1. CASE current = seen[w]
    BY <1>0, <1>3, <2>1, FreshPoolInv
  <2>2. CASE current # seen[w]
    BY <1>3, <2>2, QuietPool
  <2> QED BY <2>1, <2>2
<1>5. NoEcho'
  BY QuietEcho DEF ClientInv, TypeOK
<1> QED BY <1>1, <1>2, <1>4, <1>5 DEF ClientInv
-----------------------------------------------------------------------------
(* Requests and answers. *)

\* What a thread that waits knows: its connection is one that nobody else holds, and
\* has its request or the answer to it.
LEMMA Waiting ==
    ASSUME ClientInv, NEW w \in Workers, held[w] # Nil
    PROVE  /\ pc[w] = "wait" /\ held[w] \in Conns /\ held[w] \notin idle /\ at[held[w]] # Nil
           /\ \A v \in Workers \ {w} : held[v] # held[w]
           /\ call[w] \in Ops /\ result[w] = "none"
           /\ \/ inq[held[w]] = <<Tag(w)>> /\ outq[held[w]] = <<>>
              \/ /\ inq[held[w]] = <<>>
                 /\ \E a \in Answers : outq[held[w]] = <<[tag |-> Tag(w), ans |-> a]>>
<1>1. pc[w] = "wait" /\ held[w] \in Conns
  BY DEF ClientInv, TypeOK
<1>2. held[w] \notin idle /\ at[held[w]] # Nil /\ \A v \in Workers \ {w} : held[v] # held[w]
  BY DEF ClientInv, Separate
<1>3. call[w] \in Ops /\ result[w] = "none"
  BY <1>1 DEF ClientInv, FlowType
<1> QED BY <1>1, <1>2, <1>3 DEF ClientInv, OneRequest

\* A thread takes an idle connection or opens one, and sends its request.
LEMMA BorrowInv ==
    ASSUME ClientInv, NEW w \in Workers, Borrow(w)
    PROVE  ClientInv'
<1> USE DEF Borrow, table, ghosts
<1>0. held[w] = Nil /\ w \notin mine /\ Tag(w) \in Tags
  BY NilAssumption, KVBoundAssumption DEF ClientInv, TypeOK, Borrowed, Tag, Tags
<1>1. PICK c \in Conns :
          /\ at[c] = Nil \/ c \in idle
          /\ idle' = idle \ {c}
          /\ at' = [at EXCEPT ![c] = node]
          /\ held' = [held EXCEPT ![w] = c]
          /\ inq' = [inq EXCEPT ![c] = Append(@, Tag(w))]
  OBVIOUS
<1>2. inq[c] = <<>> /\ outq[c] = <<>> /\ \A v \in Workers : held[v] # c
  BY <1>1, NilAssumption DEF ClientInv, Separate, TypeOK
<1>3. inq'[c] = <<Tag(w)>> /\ at'[c] = node /\ held'[w] = c /\ c # Nil /\ node # Nil
  BY <1>1, <1>2, OneElement, NilAssumption DEF ClientInv, TypeOK, FlowType
<1>4. /\ \A d \in Conns \ {c} : inq'[d] = inq[d] /\ at'[d] = at[d]
      /\ \A v \in Workers \ {w} : held'[v] = held[v] /\ pc'[v] = pc[v]
  BY <1>1 DEF ClientInv, TypeOK, FlowType
<1>5. TypeOK'
  BY <1>1, <1>3 DEF ClientInv, TypeOK
<1>6. FlowType'
  <2>1. inq' \in [Conns -> Seq(Tags)]
    BY <1>0, <1>1 DEF ClientInv, FlowType
  <2> QED BY <2>1 DEF ClientInv, FlowType, TypeOK
<1>7. PoolOfTarget' /\ Borrowed'
  BY <1>0, <1>1, <1>2, <1>3, <1>4 DEF ClientInv, PoolOfTarget, Borrowed, TypeOK
<1>8. Separate'
  BY <1>1, <1>2, <1>3, <1>4 DEF ClientInv, Separate, TypeOK
<1>t. \A v \in Workers : Tag(v)' = Tag(v)
  BY DEF Tag
<1>9. OneRequest'
  <2>1. \A v \in Workers \ {w} : held[v] # Nil => held[v] \in Conns \ {c}
    BY <1>2 DEF ClientInv, TypeOK
  <2> SUFFICES ASSUME NEW v \in Workers, held'[v] # Nil
               PROVE  \/ inq'[held'[v]] = <<Tag(v)'>> /\ outq'[held'[v]] = <<>>
                      \/ /\ inq'[held'[v]] = <<>>
                         /\ \E e \in Answers : outq'[held'[v]] = <<[tag |-> Tag(v)', ans |-> e]>>
    BY DEF OneRequest
  <2>2. CASE v = w
    BY <1>2, <1>3, <1>t, <2>2
  <2>3. CASE v # w
    <3>1. held'[v] = held[v] /\ inq'[held[v]] = inq[held[v]] /\ outq' = outq
      BY <1>4, <2>1, <2>3
    <3> QED BY <1>t, <3>1 DEF ClientInv, OneRequest
  <2> QED BY <2>2, <2>3
<1>10. NoStray'
  <2> SUFFICES ASSUME NEW d \in Conns, \A v \in Workers : held'[v] # d
               PROVE  outq'[d] = <<>> /\ \A i \in DOMAIN inq'[d] : inq'[d][i].w \in adrift'
    BY DEF NoStray
  <2>1. d # c /\ \A v \in Workers : held[v] # d
    BY <1>0, <1>3, <1>4, NilAssumption
  <2> QED BY <1>4, <2>1 DEF ClientInv, NoStray
<1>11. NoEcho'
  <2>1. w \notin took \ adrift
    BY DEF ClientInv, NoEcho
  <2>2. \A v \in took \ adrift : v \in Workers \ {w}
    BY <2>1 DEF ClientInv, TypeOK
  <2> QED BY <1>4, <1>t, <2>2 DEF ClientInv, NoEcho
<1> QED BY <1>5, <1>6, <1>7, <1>8, <1>9, <1>10, <1>11 DEF ClientInv

\* A thread reads the answer that ends its call and gives the connection back.
LEMMA ReadFinalInv ==
    ASSUME ClientInv, NEW w \in Workers, ReadFinal(w)
    PROVE  ClientInv'
<1> DEFINE c == held[w]
<1>0. held[w] # Nil
  BY DEF ReadFinal, ClientInv, TypeOK
<1>1. PICK a \in Answers : outq[c] = <<[tag |-> Tag(w), ans |-> a]>> /\ inq[c] = <<>>
  BY <1>0, Waiting DEF ReadFinal
<1>2. c \in Conns /\ c \notin idle /\ at[c] # Nil /\ \A v \in Workers \ {w} : held[v] # c
  BY <1>0, Waiting
<1>3. /\ Final(call[w], a) /\ Finish(w, Outcome(a))
      /\ outq' = [outq EXCEPT ![c] = Tail(@)] /\ Release(w)
      /\ held' = [held EXCEPT ![w] = Nil]
      /\ UNCHANGED <<primary, moves, cell, current, node, inq, call, att, seen, faults, took, adrift>>
  BY <1>1, OneElement DEF ReadFinal, table, ghosts
<1>4. Outcome(a) \in {"ok", "missing", "failed"} /\ (a = "ok" => Outcome(a) = "ok")
  BY <1>3 DEF Outcome, Final, Answers
<1>5. /\ outq'[c] = <<>> /\ \A d \in Conns \ {c} : outq'[d] = outq[d]
      /\ held'[w] = Nil /\ pc'[w] = "done" /\ result'[w] = Outcome(a)
      /\ \A v \in Workers \ {w} : held'[v] = held[v] /\ pc'[v] = pc[v] /\ result'[v] = result[v]
  BY <1>1, <1>2, <1>3, OneElement DEF ClientInv, TypeOK, FlowType, Finish
<1>6. /\ mine' = mine \ {w}
      /\ \/ w \in mine /\ idle' = idle \cup {c} /\ at' = at
         \/ w \notin mine /\ idle' = idle /\ at' = [at EXCEPT ![c] = Nil]
  BY <1>3 DEF Release
<1>7. \A d \in Conns \ {c} : at'[d] = at[d] /\ (d \in idle' <=> d \in idle)
  BY <1>2, <1>6 DEF ClientInv, TypeOK
<1>8. TypeOK'
  <2>1. /\ idle' \subseteq Conns /\ mine' \subseteq Workers
        /\ at' \in [Conns -> Nodes \cup {Nil}]
    BY <1>2, <1>6 DEF ClientInv, TypeOK
  <2>2. /\ pc' \in [Workers -> {"idle", "lookup", "install", "borrow", "wait",
                                "rebuild", "swap", "done"}]
        /\ held' \in [Workers -> Conns \cup {Nil}]
        /\ result' \in [Workers -> {"none", "ok", "missing", "failed"}]
    BY <1>3, <1>4 DEF ClientInv, TypeOK, Finish
  <2>3. \A v \in Workers : pc'[v] = "wait" <=> held'[v] # Nil
    BY <1>5 DEF ClientInv, TypeOK
  <2> QED BY <1>3, <2>1, <2>2, <2>3 DEF ClientInv, TypeOK
<1>9. FlowType'
  <2>1. outq' \in [Conns -> Seq(Replies)]
    <3>1. Tail(outq[c]) = <<>> /\ <<>> \in Seq(Replies)
      BY <1>1, OneElement
    <3> QED BY <1>3, <3>1 DEF ClientInv, FlowType
  <2>2. call[w] \in Ops
    BY <1>0, Waiting
  <2> QED BY <1>3, <1>5, <2>1, <2>2 DEF ClientInv, FlowType
<1>10. PoolOfTarget' /\ Borrowed'
  BY <1>2, <1>3, <1>5, <1>6, <1>7 DEF ClientInv, PoolOfTarget, Borrowed, TypeOK
<1>11. Separate'
  BY <1>1, <1>2, <1>3, <1>5, <1>6, <1>7 DEF ClientInv, Separate, TypeOK
<1>t. \A v \in Workers : Tag(v)' = Tag(v)
  BY <1>3 DEF Tag
<1>12. OneRequest'
  <2>1. \A v \in Workers \ {w} : held[v] # Nil => held[v] \in Conns \ {c}
    BY <1>2 DEF ClientInv, TypeOK
  <2> SUFFICES ASSUME NEW v \in Workers, held'[v] # Nil
               PROVE  \/ inq'[held'[v]] = <<Tag(v)'>> /\ outq'[held'[v]] = <<>>
                      \/ /\ inq'[held'[v]] = <<>>
                         /\ \E e \in Answers : outq'[held'[v]] = <<[tag |-> Tag(v)', ans |-> e]>>
    BY DEF OneRequest
  <2>3. v # w /\ held'[v] = held[v] /\ inq' = inq /\ outq'[held[v]] = outq[held[v]]
    BY <1>3, <1>5, <2>1
  <2> QED BY <1>t, <2>3 DEF ClientInv, OneRequest
<1>13. NoStray'
  BY <1>1, <1>2, <1>3, <1>5 DEF ClientInv, NoStray
<1>14. NoEcho'
  <2>1. w \in took \ adrift => a = "ok"
    <3>1. pc[w] = "wait"
      BY <1>0, Waiting
    <3>2. w \in took \ adrift => outq[c] = <<[tag |-> Tag(w), ans |-> "ok"]>>
      BY <3>1 DEF ClientInv, NoEcho
    <3> QED BY <1>1, <3>2, OneAnswer
  <2>2. \A v \in took \ adrift : v \in Workers
    BY DEF ClientInv, TypeOK
  <2>3. \A v \in Workers \ {w} : pc[v] = "wait" => held[v] \in Conns \ {c}
    BY <1>2 DEF ClientInv, TypeOK
  <2> SUFFICES ASSUME NEW v \in took \ adrift
               PROVE  \/ pc'[v] = "done" /\ result'[v] = "ok"
                      \/ pc'[v] = "wait" /\ outq'[held'[v]] = <<[tag |-> Tag(v)', ans |-> "ok"]>>
    BY <1>3 DEF NoEcho
  <2>4. CASE v = w
    BY <1>4, <1>5, <2>1, <2>4
  <2>5. CASE v # w
    BY <1>5, <1>t, <2>2, <2>3, <2>5 DEF ClientInv, NoEcho
  <2> QED BY <2>4, <2>5
<1> QED BY <1>8, <1>9, <1>10, <1>11, <1>12, <1>13, <1>14 DEF ClientInv

\* A thread closes its connection and goes on to rebuild the pool, after an answer
\* that was no success or because it gave the answer up.
LEMMA RetryInv ==
    ASSUME ClientInv, NEW w \in Workers, pc[w] = "wait", Retry(w),
           faults' \in 0..MaxFaults,
           \/ adrift' = adrift \cup {w}
           \/ adrift' = adrift /\ inq[held[w]] = <<>> /\ w \notin took \ adrift
    PROVE  ClientInv'
<1> DEFINE c == held[w]
<1>0. held[w] # Nil
  BY DEF ClientInv, TypeOK
<1>1. /\ c \in Conns /\ c \notin idle /\ at[c] # Nil /\ \A v \in Workers \ {w} : held[v] # c
      /\ call[w] \in Ops /\ result[w] = "none"
  BY <1>0, Waiting
<1>2. inq[c] = <<>> \/ inq[c] = <<Tag(w)>>
  BY <1>0, Waiting
<1>3. /\ at' = [at EXCEPT ![c] = IF inq[c] = <<>> THEN Nil ELSE @]
      /\ outq' = [outq EXCEPT ![c] = <<>>]
      /\ held' = [held EXCEPT ![w] = Nil] /\ mine' = mine \ {w}
      /\ pc' = [pc EXCEPT ![w] = "rebuild"]
      /\ UNCHANGED <<primary, moves, cell, current, node, idle, inq, call, att, seen, result, took>>
  BY DEF Retry, Close, table
<1>4. /\ outq'[c] = <<>> /\ \A d \in Conns \ {c} : outq'[d] = outq[d] /\ at'[d] = at[d]
      /\ held'[w] = Nil /\ pc'[w] = "rebuild" /\ (at'[c] = Nil => inq[c] = <<>>)
      /\ \A v \in Workers \ {w} : held'[v] = held[v] /\ pc'[v] = pc[v]
  BY <1>1, <1>3 DEF ClientInv, TypeOK, FlowType
<1>5. TypeOK'
  <2>1. adrift' \subseteq Workers /\ mine' \subseteq Workers
    BY <1>3 DEF ClientInv, TypeOK
  <2>2. /\ at' \in [Conns -> Nodes \cup {Nil}]
        /\ pc' \in [Workers -> {"idle", "lookup", "install", "borrow", "wait",
                                "rebuild", "swap", "done"}]
        /\ held' \in [Workers -> Conns \cup {Nil}]
    BY <1>3 DEF ClientInv, TypeOK
  <2>3. \A v \in Workers : pc'[v] = "wait" <=> held'[v] # Nil
    BY <1>4 DEF ClientInv, TypeOK
  <2> QED BY <1>3, <2>1, <2>2, <2>3 DEF ClientInv, TypeOK
<1>6. FlowType'
  <2>1. outq' \in [Conns -> Seq(Replies)]
    <3>1. <<>> \in Seq(Replies)
      OBVIOUS
    <3> QED BY <1>3, <3>1 DEF ClientInv, FlowType
  <2> QED BY <1>1, <1>3, <1>4, <2>1 DEF ClientInv, FlowType
<1>7. PoolOfTarget' /\ Borrowed'
  BY <1>1, <1>3, <1>4 DEF ClientInv, PoolOfTarget, Borrowed, TypeOK
<1>8. Separate'
  BY <1>1, <1>3, <1>4 DEF ClientInv, Separate, TypeOK
<1>9. OneRequest'
  <2>1. \A v \in Workers \ {w} : held[v] # Nil => held[v] \in Conns \ {c}
    BY <1>1 DEF ClientInv, TypeOK
  <2>2. \A v \in Workers : Tag(v)' = Tag(v)
    BY <1>3 DEF Tag
  <2> SUFFICES ASSUME NEW v \in Workers, held'[v] # Nil
               PROVE  \/ inq'[held'[v]] = <<Tag(v)'>> /\ outq'[held'[v]] = <<>>
                      \/ /\ inq'[held'[v]] = <<>>
                         /\ \E e \in Answers : outq'[held'[v]] = <<[tag |-> Tag(v)', ans |-> e]>>
    BY DEF OneRequest
  <2>3. v # w /\ held'[v] = held[v] /\ inq' = inq /\ outq'[held[v]] = outq[held[v]]
    BY <1>3, <1>4, <2>1
  <2> QED BY <2>2, <2>3 DEF ClientInv, OneRequest
<1>10. NoStray'
  <2>1. ASSUME NEW i \in DOMAIN inq[c] PROVE inq[c][i].w \in adrift'
    BY <1>2, OneElement DEF Tag
  <2>2. ASSUME NEW d \in Conns \ {c}, \A v \in Workers : held'[v] # d
        PROVE  \A v \in Workers : held[v] # d
    BY <1>4, <2>2
  <2> QED BY <1>3, <1>4, <2>1, <2>2 DEF ClientInv, NoStray
<1>11. NoEcho'
  <2>1. w \notin took \ adrift'
    OBVIOUS
  <2>2. \A v \in took \ adrift' : v \in Workers \ {w} /\ v \in took \ adrift
    BY <2>1 DEF ClientInv, TypeOK
  <2>3. \A v \in Workers \ {w} : pc[v] = "wait" => held[v] \in Conns \ {c}
    BY <1>1 DEF ClientInv, TypeOK
  <2> QED BY <1>3, <1>4, <2>2, <2>3 DEF ClientInv, NoEcho, Tag
<1> QED BY <1>5, <1>6, <1>7, <1>8, <1>9, <1>10, <1>11 DEF ClientInv

\* An answer that was no success is not the answer to a write that took effect.
LEMMA ReadRefusalInv ==
    ASSUME ClientInv, NEW w \in Workers, ReadRefusal(w)
    PROVE  ClientInv'
<1>0. pc[w] = "wait" /\ held[w] # Nil
  BY DEF ReadRefusal, ClientInv, TypeOK
<1>1. PICK a \in Answers :
          outq[held[w]] = <<[tag |-> Tag(w), ans |-> a]>> /\ inq[held[w]] = <<>>
  BY <1>0, Waiting DEF ReadRefusal
<1>2. a # "ok"
  BY <1>1, OneElement DEF ReadRefusal, Final
<1>3. w \notin took \ adrift
  BY <1>0, <1>1, <1>2, OneAnswer DEF ClientInv, NoEcho
<1>4. faults' \in 0..MaxFaults
  BY DEF ReadRefusal, ClientInv, TypeOK
<1> QED BY <1>0, <1>1, <1>3, <1>4, RetryInv DEF ReadRefusal

\* An answer that is given up leaves its request adrift.
LEMMA AnswerLostInv ==
    ASSUME ClientInv, NEW w \in Workers, AnswerLost(w)
    PROVE  ClientInv'
<1>1. faults' \in 0..MaxFaults
  BY KVBoundAssumption DEF AnswerLost, Fault, ClientInv, TypeOK
<1> QED BY <1>1, RetryInv DEF AnswerLost

-----------------------------------------------------------------------------
(* Nodes. *)

\* The thread behind the next request of a connection has an operation, and holds
\* the connection or gave the answer up.
LEMMA Requester ==
    ASSUME ClientInv, NEW c \in Conns, inq[c] # <<>>
    PROVE  /\ Head(inq[c]).w \in Workers /\ call[Head(inq[c]).w] \in Ops
           /\ \/ /\ held[Head(inq[c]).w] = c /\ inq[c] = <<Tag(Head(inq[c]).w)>>
                 /\ outq[c] = <<>>
              \/ /\ Head(inq[c]).w \in adrift /\ outq[c] = <<>>
                 /\ \A v \in Workers : held[v] # c
<1>1. inq[c] \in Seq(Tags) /\ c # Nil
  BY NilAssumption DEF ClientInv, FlowType
<1>2. Head(inq[c]) \in Tags /\ 1 \in DOMAIN inq[c] /\ Head(inq[c]) = inq[c][1]
  BY <1>1
<1>3. Head(inq[c]).w \in Workers
  BY <1>2 DEF Tags
<1>4. CASE \E v \in Workers : held[v] = c
  <2>1. PICK v \in Workers : held[v] = c
    BY <1>4
  <2>2. inq[c] = <<Tag(v)>> /\ outq[c] = <<>> /\ call[v] \in Ops
    BY <1>1, <2>1, Waiting
  <2>3. Head(inq[c]).w = v
    BY <2>2, OneElement DEF Tag
  <2> QED BY <1>3, <2>1, <2>2, <2>3
<1>5. CASE \A v \in Workers : held[v] # c
  <2>1. Head(inq[c]).w \in adrift /\ outq[c] = <<>>
    BY <1>2, <1>5 DEF ClientInv, NoStray
  <2> QED BY <1>3, <1>5, <2>1 DEF ClientInv, FlowType
<1> QED BY <1>4, <1>5

\* A node's step: it takes one request and answers it.  A write that takes effect is
\* answered with success.
LEMMA AnsweredInv ==
    ASSUME ClientInv, NEW c \in Conns, inq[c] # <<>>, NEW a \in Answers, Answered(c, a),
           cell' \in [Rows -> Vals \cup {Nil}], faults' \in 0..MaxFaults,
           \/ took' = took
           \/ took' = took \cup {Head(inq[c]).w} /\ a = "ok"
    PROVE  ClientInv'
<1> DEFINE w == Head(inq[c]).w
<1>0. w \in Workers
  BY Requester
<1>1. UNCHANGED <<primary, moves, current, node, idle, mine, pc, call, att, held, seen, result, adrift>>
  BY DEF Answered, table, pool, worker
<1>2. inq' = [inq EXCEPT ![c] = Tail(@)]
  BY DEF Answered
<1>3. Tail(inq[c]) \in Seq(Tags) /\ Head(inq[c]) \in Tags
  BY DEF ClientInv, FlowType
<1>4. inq' \in [Conns -> Seq(Tags)] /\ inq'[c] = Tail(inq[c])
      /\ \A d \in Conns \ {c} : inq'[d] = inq[d]
  BY <1>2, <1>3 DEF ClientInv, FlowType
<1>5. c # Nil /\ c \notin idle /\ at[c] # Nil
  BY NilAssumption DEF ClientInv, Separate
<1>6. CASE held[w] = c /\ inq[c] = <<Tag(w)>> /\ outq[c] = <<>>
  <2>1. /\ outq' = [outq EXCEPT ![c] = Append(@, [tag |-> Head(inq[c]), ans |-> a])]
        /\ at' = at
    BY <1>0, <1>6 DEF Answered, Holders
  <2>2. outq' \in [Conns -> Seq(Replies)]
    <3>1. [tag |-> Head(inq[c]), ans |-> a] \in Replies
      BY <1>3 DEF Replies
    <3> QED BY <2>1, <3>1 DEF ClientInv, FlowType
  <2>3. outq'[c] = <<[tag |-> Tag(w), ans |-> a]>> /\ inq'[c] = <<>>
        /\ \A d \in Conns \ {c} : outq'[d] = outq[d]
    <3>1. Head(inq[c]) = Tag(w) /\ Tail(inq[c]) = <<>>
      BY <1>6, OneElement
    <3>2. outq'[c] = Append(outq[c], [tag |-> Head(inq[c]), ans |-> a])
          /\ \A d \in Conns \ {c} : outq'[d] = outq[d]
      BY <2>1 DEF ClientInv, FlowType
    <3> QED BY <1>4, <1>6, <3>1, <3>2, OneElement
  <2>4. \A v \in Workers \ {w} : held[v] # c
    BY <1>0, <1>5, <1>6 DEF ClientInv, Separate
  <2>5. TypeOK'
    BY <1>0, <1>1, <2>1 DEF ClientInv, TypeOK
  <2>6. FlowType'
    BY <1>1, <1>4, <2>2 DEF ClientInv, FlowType
  <2>7. PoolOfTarget' /\ Borrowed'
    BY <1>1, <2>1 DEF ClientInv, PoolOfTarget, Borrowed
  <2>8. Separate'
    BY <1>1, <1>4, <1>5, <2>1, <2>3 DEF ClientInv, Separate
  <2>9. OneRequest'
    <3>1. \A v \in Workers \ {w} : held[v] # Nil => held[v] \in Conns \ {c}
      BY <2>4 DEF ClientInv, TypeOK
    <3>2. \A v \in Workers : Tag(v)' = Tag(v)
      BY <1>1 DEF Tag
    <3> QED BY <1>0, <1>1, <1>4, <1>6, <2>3, <3>1, <3>2 DEF ClientInv, OneRequest
  <2>10. NoStray'
    BY <1>0, <1>1, <1>4, <1>6, <2>3 DEF ClientInv, NoStray
  <2>11. NoEcho'
    <3>0. \A v : Tag(v)' = Tag(v)
      BY <1>1 DEF Tag
    <3>1. pc[w] = "wait"
      BY <1>0, <1>5, <1>6 DEF ClientInv, TypeOK
    <3>2. w \notin took \ adrift
      BY <1>6, <3>1, OneElement DEF ClientInv, NoEcho
    <3>3. ASSUME NEW v \in took' \ adrift', v # w
          PROVE  /\ v \in took \ adrift /\ v \in Workers
                 /\ pc[v] = "wait" => held[v] \in Conns \ {c}
      BY <1>1, <2>4, <3>3 DEF ClientInv, TypeOK
    <3>4. w \in took' \ adrift' => a = "ok"
      BY <1>1, <3>2
    <3> QED BY <1>1, <1>6, <2>3, <3>0, <3>1, <3>3, <3>4 DEF ClientInv, NoEcho
  <2> QED BY <2>5, <2>6, <2>7, <2>8, <2>9, <2>10, <2>11 DEF ClientInv
<1>7. CASE w \in adrift /\ outq[c] = <<>> /\ \A v \in Workers : held[v] # c
  <2>1. /\ at' = [at EXCEPT ![c] = IF Tail(inq[c]) = <<>> THEN Nil ELSE @]
        /\ outq' = outq
    BY <1>5, <1>7 DEF Answered, Holders
  <2>2. /\ at'[c] = Nil => Tail(inq[c]) = <<>>
        /\ \A d \in Conns \ {c} : at'[d] = at[d]
        /\ at' \in [Conns -> Nodes \cup {Nil}]
    BY <1>5, <2>1 DEF ClientInv, TypeOK
  <2>3. \A v \in Workers : held[v] # Nil => held[v] \in Conns \ {c}
    BY <1>7 DEF ClientInv, TypeOK
  <2>4. TypeOK'
    BY <1>0, <1>1, <2>2 DEF ClientInv, TypeOK
  <2>5. FlowType'
    BY <1>1, <1>4, <2>1 DEF ClientInv, FlowType
  <2>6. PoolOfTarget' /\ Borrowed'
    BY <1>1, <1>5, <2>2, <2>3 DEF ClientInv, PoolOfTarget, Borrowed, TypeOK
  <2>7. Separate'
    BY <1>1, <1>4, <1>5, <1>7, <2>1, <2>2, <2>3 DEF ClientInv, Separate
  <2>8. OneRequest'
    BY <1>1, <1>4, <2>1, <2>3 DEF ClientInv, OneRequest, Tag
  <2>9. NoStray'
    <3>1. ASSUME NEW i \in DOMAIN inq'[c] PROVE inq'[c][i].w \in adrift
      <4>1. i + 1 \in DOMAIN inq[c] /\ inq'[c][i] = inq[c][i + 1]
        BY <1>4 DEF ClientInv, FlowType
      <4> QED BY <1>7, <4>1 DEF ClientInv, NoStray
    <3> QED BY <1>1, <1>4, <1>7, <2>1, <3>1 DEF ClientInv, NoStray
  <2>10. NoEcho'
    BY <1>1, <1>7, <2>1 DEF ClientInv, NoEcho, Tag
  <2> QED BY <2>4, <2>5, <2>6, <2>7, <2>8, <2>9, <2>10 DEF ClientInv
<1> QED BY <1>6, <1>7, Requester

\* A node serves a request as the primary, as another node, or without a quorum.
LEMMA NodeInv ==
    ASSUME ClientInv, NEW c \in Conns, Node(c)
    PROVE  ClientInv'
<1> DEFINE op == call[Head(inq[c]).w]
<1>0. inq[c] # <<>>
  BY DEF Node, Serve, ServeElsewhere, ServeNoQuorum
<1>1. op \in Ops /\ op.row \in Rows /\ op.val \in Vals \cup {Nil}
  BY <1>0, Requester, OpsAssumption
<1>2. cell \in [Rows -> Vals \cup {Nil}] /\ faults \in 0..MaxFaults
  BY DEF ClientInv, TypeOK
<1>3. CASE Serve(c)
  <2>1. CASE Answered(c, IF cell[op.row] = Nil THEN "missing" ELSE "ok") /\ UNCHANGED <<cell, took, faults>>
    BY <1>0, <1>2, <2>1, AnsweredInv DEF Answers
  <2>2. CASE /\ cell' = [cell EXCEPT ![op.row] = op.val] /\ took' = took \cup {Head(inq[c]).w}
             /\ Answered(c, "ok") /\ faults' = faults
    <3>1. cell' \in [Rows -> Vals \cup {Nil}]
      BY <1>1, <1>2, <2>2
    <3> QED BY <1>0, <1>2, <2>2, <3>1, AnsweredInv DEF Answers
  <2>3. CASE Answered(c, "error") /\ UNCHANGED <<cell, took, faults>>
    BY <1>0, <1>2, <2>3, AnsweredInv DEF Answers
  <2> QED BY <1>3, <2>1, <2>2, <2>3 DEF Serve
<1>4. CASE ServeElsewhere(c)
  <2>1. PICK a \in Answers : Answered(c, a)
    BY <1>4 DEF ServeElsewhere, Answers
  <2> QED BY <1>0, <1>2, <1>4, <2>1, AnsweredInv DEF ServeElsewhere
<1>5. CASE ServeNoQuorum(c)
  <2>1. Answered(c, "noquorum") /\ cell' = cell /\ took' = took /\ faults' \in 0..MaxFaults
    BY <1>2, <1>5, KVBoundAssumption DEF ServeNoQuorum, Fault
  <2> QED BY <1>0, <1>2, <2>1, AnsweredInv DEF Answers
<1> QED BY <1>3, <1>4, <1>5 DEF Node

-----------------------------------------------------------------------------
(* The theorems. *)

\* Every step of a thread, a node or the coordinator preserves the invariant.
LEMMA NextInv == ClientInv /\ [Next]_vars => ClientInv'
<1> SUFFICES ASSUME ClientInv, [Next]_vars PROVE ClientInv'
  OBVIOUS
<1>1. CASE \E w \in Workers : Step(w)
  BY <1>1, LookupInv, LookupFailsInv, InstallInv, BorrowInv, BorrowFailsInv, ReadFinalInv,
     ReadRefusalInv, AnswerLostInv, RebuildStartInv, RebuildSwapInv DEF Step
<1>2. CASE \E w \in Workers, op \in Ops : Issue(w, op)
  BY <1>2, IssueInv
<1>3. CASE \E c \in Conns : Node(c)
  BY <1>3, NodeInv
<1>4. CASE \E r \in Rows, n \in Nodes : Elect(r, n)
  BY <1>4, ElectInv
<1>5. CASE UNCHANGED vars
  BY <1>5 DEF ClientInv, TypeOK, FlowType, PoolOfTarget, Separate, Borrowed, OneRequest, NoStray,
     NoEcho, Tag, vars, pool, net, worker, table, ghosts
<1> QED BY <1>1, <1>2, <1>3, <1>4, <1>5 DEF Next

\* The invariant holds always.
THEOREM ClientInvariant == Spec => []ClientInv
  BY InitInv, NextInv, PTL DEF Spec

\* The variables always have their types, and exactly the threads that wait hold a
\* connection: exec_row gives back or closes what it borrowed on every path.
THEOREM ClientTypes == Spec => []TypeOK
<1>1. ClientInv => TypeOK
  BY DEF ClientInv
<1> QED BY <1>1, ClientInvariant, PTL

\* The pool is the target's, however install_target and rebuild_current_pool of any
\* number of threads interleave.
THEOREM PoolBelongs == Spec => []PoolOfTarget
<1>1. ClientInv => PoolOfTarget
  BY DEF ClientInv
<1> QED BY <1>1, ClientInvariant, PTL

\* No thread ever reads the answer to another request, of its own or of another thread.
THEOREM AnswersAreOwn == Spec => []OwnAnswers
<1>1. ClientInv => OwnAnswers
  <2> SUFFICES ASSUME ClientInv, NEW w \in Workers, pc[w] = "wait"
               PROVE  /\ Holders(held[w]) = {w} /\ held[w] \notin idle
                      /\ \A i \in DOMAIN inq[held[w]] : inq[held[w]][i] = Tag(w)
                      /\ \A i \in DOMAIN outq[held[w]] : outq[held[w]][i].tag = Tag(w)
    BY DEF OwnAnswers
  <2>1. held[w] # Nil
    BY DEF ClientInv, TypeOK
  <2>2. Holders(held[w]) = {w} /\ held[w] \notin idle
    BY <2>1, Waiting DEF Holders
  <2>3. \A i \in DOMAIN inq[held[w]] : inq[held[w]][i] = Tag(w)
    BY <2>1, Waiting, OneElement
  <2>4. \A i \in DOMAIN outq[held[w]] : outq[held[w]][i].tag = Tag(w)
    <3>1. CASE outq[held[w]] = <<>>
      BY <3>1
    <3>2. CASE \E a \in Answers : outq[held[w]] = <<[tag |-> Tag(w), ans |-> a]>>
      <4>1. PICK a \in Answers : outq[held[w]] = <<[tag |-> Tag(w), ans |-> a]>>
        BY <3>2
      <4> QED BY <4>1, OneElement
    <3> QED BY <2>1, <3>1, <3>2, Waiting
  <2> QED BY <2>2, <2>3, <2>4
<1> QED BY <1>1, ClientInvariant, PTL

\* A write that is reported as failed and lost no answer never took effect, for any
\* number of attempts: exec_row_write repeats refusals only.
THEOREM RefusedHadNoEffect == Spec => []FailedMeansRefused
<1>1. ClientInv => FailedMeansRefused
  BY DEF ClientInv, TypeOK, FlowType, NoEcho, FailedMeansRefused
<1> QED BY <1>1, ClientInvariant, PTL

-----------------------------------------------------------------------------
(* The refinement of KVCalls. *)

\* Steps that leave the answers alone.
LEMMA QuietAcked ==
    ASSUME Acked, outq' = outq, held' = held, took' = took,
           \A v \in Workers : pc'[v] = "idle" => pc[v] = "idle" /\ call'[v] = call[v],
           \A v \in Workers : held[v] # Nil => call'[v] = call[v]
    PROVE  Acked'
  BY DEF Acked, Justified

\* Steps of a thread that leave it without an answer to read.
LEMMA DroppedAcked ==
    ASSUME Acked, ClientInv, NEW w \in Workers, UNCHANGED <<call, took>>, pc'[w] # "idle",
           held'[w] = Nil \/ outq'[held'[w]] = <<>>,
           \A v \in Workers \ {w} :
               /\ held'[v] = held[v] /\ pc'[v] = pc[v]
               /\ held[v] # Nil => outq'[held[v]] = outq[held[v]]
    PROVE  Acked'
  BY DEF Acked, Justified

\* A node's answer is justified by what it does.
LEMMA AnsweredAcked ==
    ASSUME Acked, ClientInv, NEW c \in Conns, inq[c] # <<>>, NEW a \in Answers, Answered(c, a),
           took \subseteq took',
           a = "ok" => call[Head(inq[c]).w].kind = "get" \/ Head(inq[c]).w \in took',
           a = "missing" => call[Head(inq[c]).w].kind = "get"
    PROVE  Acked'
<1> DEFINE w == Head(inq[c]).w
<1>0. w \in Workers /\ UNCHANGED <<pc, call, held>> /\ c # Nil
  BY Requester, NilAssumption DEF Answered, worker
<1>1. \A v \in Workers : v # w => held[v] # c
  BY <1>0, Requester DEF ClientInv, Separate
<1>2. ASSUME NEW v \in Workers, held[v] # Nil, held[v] # c PROVE outq'[held[v]] = outq[held[v]]
  BY <1>2 DEF Answered, ClientInv, FlowType, TypeOK
<1>3. ASSUME held[w] = c PROVE outq'[c] = <<[tag |-> Head(inq[c]), ans |-> a]>>
  <2>1. outq[c] = <<>>
    BY Requester
  <2>2. outq'[c] = Append(outq[c], [tag |-> Head(inq[c]), ans |-> a])
    BY <1>0, <1>3 DEF Answered, Holders, ClientInv, FlowType
  <2> QED BY <2>1, <2>2, OneElement
<1>4. held[w] = c => Head(outq'[c]).ans = a
  BY <1>3, OneElement
<1> SUFFICES ASSUME NEW v \in Workers
             PROVE  /\ pc[v] = "idle" => call[v] = Nil
                    /\ held[v] # Nil /\ outq'[held[v]] # <<>>
                         => Justified(v, Head(outq[held[v]]).ans)'
  BY <1>0 DEF Acked
<1>5. pc[v] = "idle" => call[v] = Nil
  BY DEF Acked
<1>6. CASE held[v] = c
  BY <1>0, <1>1, <1>4, <1>5, <1>6 DEF Justified
<1>7. CASE held[v] # c
  BY <1>0, <1>2, <1>5, <1>7 DEF Acked, Justified
<1> QED BY <1>6, <1>7

\* Every answer a thread may read is justified.
LEMMA NextAcked == ClientInv /\ Acked /\ [Next]_vars => Acked'
<1> SUFFICES ASSUME ClientInv, Acked, [Next]_vars PROVE Acked'
  OBVIOUS
<1>1. ASSUME NEW w \in Workers, Step(w) PROVE Acked'
  <2>1. CASE lookup_primary(w) \/ LookupFails(w) \/ install_target(w)
             \/ BorrowFails(w) \/ RebuildStart(w) \/ RebuildSwap(w)
    <3>1. UNCHANGED <<outq, held, took, call>>
      BY <2>1 DEF lookup_primary, LookupFails, install_target, BorrowFails, RebuildStart,
         RebuildSwap, net, ghosts
    <3>2. \A v \in Workers : pc'[v] = "idle" => pc[v] = "idle"
      BY <2>1 DEF lookup_primary, LookupFails, install_target, BorrowFails, RebuildStart,
         RebuildSwap, AfterRefresh, Finish, ClientInv, TypeOK
    <3> QED BY <3>1, <3>2, QuietAcked
  <2>2. CASE Borrow(w)
    <3>1. PICK c \in Conns : (at[c] = Nil \/ c \in idle) /\ held' = [held EXCEPT ![w] = c]
      BY <2>2 DEF Borrow
    <3>2. outq[c] = <<>> /\ held'[w] = c
      BY <3>1 DEF ClientInv, Separate, TypeOK
    <3>3. UNCHANGED <<call, took, outq>> /\ pc'[w] # "idle"
          /\ \A v \in Workers \ {w} : held'[v] = held[v] /\ pc'[v] = pc[v]
      BY <2>2, <3>1 DEF Borrow, ghosts, ClientInv, TypeOK
    <3> QED BY <3>2, <3>3, DroppedAcked
  <2>3. CASE ReadFinal(w) \/ ReadRefusal(w) \/ AnswerLost(w)
    <3>1. held[w] # Nil /\ \A v \in Workers \ {w} : held[v] # held[w]
      BY <2>3, Waiting DEF ReadFinal, ReadRefusal, AnswerLost, ClientInv, TypeOK
    <3>2. UNCHANGED <<call, took>> /\ held' = [held EXCEPT ![w] = Nil]
      BY <2>3 DEF ReadFinal, ReadRefusal, AnswerLost, Retry, ghosts
    <3>3. pc'[w] # "idle" /\ \A v \in Workers \ {w} : pc'[v] = pc[v]
      BY <2>3 DEF ReadFinal, ReadRefusal, AnswerLost, Retry, Finish, ClientInv, TypeOK
    <3>4. \A d \in Conns \ {held[w]} : outq'[d] = outq[d]
      BY <2>3 DEF ReadFinal, ReadRefusal, AnswerLost, Retry, Close, ClientInv, FlowType
    <3>5. held'[w] = Nil /\ \A v \in Workers \ {w} : held'[v] = held[v]
      BY <3>2 DEF ClientInv, TypeOK
    <3>6. \A v \in Workers : held[v] # Nil => held[v] \in Conns
      BY DEF ClientInv, TypeOK
    <3> QED BY <3>1, <3>2, <3>3, <3>4, <3>5, <3>6, DroppedAcked
  <2> QED BY <1>1, <2>1, <2>2, <2>3 DEF Step
<1>2. ASSUME NEW w \in Workers, NEW op \in Ops, Issue(w, op) PROVE Acked'
  <2>1. held[w] = Nil /\ pc'[w] # "idle"
    BY <1>2 DEF Issue, ClientInv, TypeOK
  <2>2. \A v \in Workers \ {w} : call'[v] = call[v] /\ pc'[v] = pc[v]
    BY <1>2 DEF Issue, ClientInv, TypeOK
  <2> QED BY <1>2, <2>1, <2>2, QuietAcked DEF Issue, net, ghosts
<1>3. ASSUME NEW c \in Conns, Node(c) PROVE Acked'
  <2>0. inq[c] # <<>>
    BY <1>3 DEF Node, Serve, ServeElsewhere, ServeNoQuorum
  <2>1. CASE Serve(c)
    BY <2>0, <2>1, AnsweredAcked DEF Serve, Answers
  <2>2. CASE ServeElsewhere(c)
    BY <2>0, <2>2, AnsweredAcked DEF ServeElsewhere, Answers
  <2>3. CASE ServeNoQuorum(c)
    BY <2>0, <2>3, AnsweredAcked DEF ServeNoQuorum, Answers
  <2> QED BY <1>3, <2>1, <2>2, <2>3 DEF Node
<1>4. CASE \E r \in Rows, n \in Nodes : Elect(r, n)
  BY <1>4, QuietAcked DEF Elect, net, worker, ghosts
<1>5. CASE UNCHANGED vars
  BY <1>5, QuietAcked DEF vars, net, worker, ghosts
<1> QED BY <1>1, <1>2, <1>3, <1>4, <1>5 DEF Next

\* A step of the client is a step of KVCalls or changes nothing there.
LEMMA StepRefines ==
    ClientInv /\ Acked /\ [Next]_vars => [Calls!Next]_(Calls!cvars)
<1> SUFFICES ASSUME ClientInv, Acked, [Next]_vars
             PROVE  Calls!Next \/ UNCHANGED <<cell, call, Open, took, adrift, result>>
  BY DEF Calls!cvars
<1> USE DEF table, ghosts
<1>0. pc \in [Workers -> {"idle", "lookup", "install", "borrow", "wait", "rebuild", "swap", "done"}]
  BY DEF ClientInv, TypeOK
<1>1. ASSUME NEW w \in Workers, Step(w)
      PROVE  Calls!Next \/ UNCHANGED <<cell, call, Open, took, adrift, result>>
  <2>0. w \in Open
    BY <1>0, <1>1 DEF Step, Open, lookup_primary, LookupFails, install_target, Borrow, BorrowFails,
       ReadFinal, ReadRefusal, AnswerLost, RebuildStart, RebuildSwap
  <2>1. ASSUME NEW res \in {"ok", "missing", "failed"}, Finish(w, res),
               res = "ok" => call[w].kind = "get" \/ w \in took,
               res = "missing" => call[w].kind = "get",
               UNCHANGED <<cell, call, took, adrift>>
        PROVE  Calls!Next
    <3>1. Open' = Open \ {w}
      BY <1>0, <2>1 DEF Open, Finish
    <3>2. Calls!Return(w, res)
      BY <2>0, <2>1, <3>1 DEF Calls!Return, Finish
    <3> QED BY <3>2 DEF Calls!Next
  <2>2. ASSUME NEW q \in {"lookup", "install", "borrow", "wait", "rebuild", "swap"},
               pc' = [pc EXCEPT ![w] = q]
        PROVE  Open' = Open
    BY <1>0, <2>0, <2>2 DEF Open
  <2>3. ASSUME AfterRefresh(w), UNCHANGED <<cell, call, took, adrift>>
        PROVE  Calls!Next \/ UNCHANGED <<cell, call, Open, took, adrift, result>>
    BY <2>1, <2>2, <2>3 DEF AfterRefresh
  <2>4. CASE lookup_primary(w)
    BY <2>2, <2>4 DEF lookup_primary
  <2>5. CASE LookupFails(w)
    BY <2>1, <2>3, <2>5 DEF LookupFails
  <2>6. CASE install_target(w)
    BY <2>3, <2>6 DEF install_target
  <2>7. CASE Borrow(w)
    BY <2>2, <2>7 DEF Borrow
  <2>8. CASE BorrowFails(w)
    BY <2>2, <2>8 DEF BorrowFails
  <2>9. CASE ReadFinal(w)
    <3> DEFINE a == Head(outq[held[w]]).ans
    <3>1. Final(call[w], a) /\ Finish(w, Outcome(a)) /\ UNCHANGED <<cell, call, took, adrift>>
      BY <2>9 DEF ReadFinal
    <3>2. Justified(w, a)
      BY <2>9 DEF ReadFinal, Acked, ClientInv, TypeOK
    <3>3. /\ Outcome(a) \in {"ok", "missing", "failed"}
          /\ Outcome(a) = "ok" => a = "ok"
          /\ Outcome(a) = "missing" => a = "missing"
      BY <3>1 DEF Final, Outcome
    <3> QED BY <2>1, <3>1, <3>2, <3>3 DEF Justified
  <2>10. CASE ReadRefusal(w)
    BY <2>2, <2>10 DEF ReadRefusal, Retry
  <2>11. CASE AnswerLost(w)
    <3>1. Open' = Open
      BY <2>2, <2>11 DEF AnswerLost, Retry
    <3>2. Calls!GiveUp(w)
      BY <2>0, <2>11, <3>1 DEF AnswerLost, Retry, Calls!GiveUp
    <3> QED BY <3>2 DEF Calls!Next
  <2>12. CASE RebuildStart(w)
    BY <2>2, <2>12 DEF RebuildStart
  <2>13. CASE RebuildSwap(w)
    BY <2>2, <2>13 DEF RebuildSwap
  <2> QED BY <1>1, <2>4, <2>5, <2>6, <2>7, <2>8, <2>9, <2>10, <2>11, <2>12, <2>13 DEF Step
<1>2. ASSUME NEW w \in Workers, NEW op \in Ops, Issue(w, op) PROVE Calls!Next
  <2>1. Open' = Open \cup {w}
    BY <1>0, <1>2 DEF Issue, Open
  <2>2. Calls!Issue(w, op)
    BY <1>2, <2>1 DEF Issue, Acked, Calls!Issue
  <2> QED BY <2>2 DEF Calls!Next
<1>3. ASSUME NEW c \in Conns, Node(c)
      PROVE  Calls!Next \/ UNCHANGED <<cell, call, Open, took, adrift, result>>
  <2> DEFINE w == Head(inq[c]).w
  <2>0. inq[c] # <<>> /\ UNCHANGED <<pc, call, adrift, result>>
    BY <1>3 DEF Node, Serve, ServeElsewhere, ServeNoQuorum, Answered, worker
  <2>1. Open' = Open
    BY <2>0 DEF Open
  <2>2. w \in Workers /\ w \in Open \cup adrift
    BY <2>0, Requester, NilAssumption DEF ClientInv, TypeOK, Open
  <2>3. CASE cell' = cell /\ took' = took
    BY <2>0, <2>1, <2>3
  <2>4. CASE /\ call[w].kind # "get" /\ (call[w].kind = "cput" => cell[call[w].row] = call[w].exp)
             /\ cell' = [cell EXCEPT ![call[w].row] = call[w].val] /\ took' = took \cup {w}
    <3>1. Calls!TakeEffect(w)
      BY <2>0, <2>1, <2>2, <2>4 DEF Calls!TakeEffect, Calls!Matches
    <3> QED BY <2>2, <3>1 DEF Calls!Next
  <2> QED BY <1>3, <2>3, <2>4 DEF Node, Serve, ServeElsewhere, ServeNoQuorum
<1>4. CASE \E r \in Rows, n \in Nodes : Elect(r, n)
  BY <1>4 DEF Elect, worker, Open
<1>5. CASE UNCHANGED vars
  BY <1>5 DEF vars, worker, Open
<1> QED BY <1>1, <1>2, <1>3, <1>4, <1>5 DEF Next

\* The client implements KVCalls: whatever threads, pools, retries and elections do, a
\* call takes effect only while it is open or after its answer was given up, and success
\* is reported only for a write that took effect.
THEOREM ClientImplementsCalls == Spec => ImplementsCalls
<1>1. Init => Calls!Init /\ Acked
  BY DEF Init, Calls!Init, Acked, Open
<1> QED BY <1>1, InitInv, NextInv, NextAcked, StepRefines, PTL DEF Spec, ImplementsCalls, Calls!Spec
=============================================================================
