---------------------------- MODULE Coordinator ----------------------------
(***************************************************************************)
(* The coordinator (coordinator/src/coordinator.cc) and the nodes of one   *)
(* tablet: heartbeats, the failure and the recovery of a node, the first   *)
(* configuration of the roles, the fence of LOOKUP, and client writes that *)
(* follow a LOOKUP to whatever node it named.                              *)
(*                                                                         *)
(* The heartbeat thread, the set-up thread and the threads of the clients  *)
(* share the node table and the tablet's node list; every remote call is a *)
(* step of its own.  A node's tablet is its log, the operations it has     *)
(* applied in order: Replication.tla looks inside a forwarded write and a  *)
(* sync, which are single steps here.                                      *)
(***************************************************************************)
EXTENDS Integers, Sequences, SequencesExt, FiniteSets, FiniteSetsExt

CONSTANTS
    Nodes,      \* the nodes that host the tablet
    First,      \* the node the configuration names first
    Requests,   \* client writes, each of a cell of its own
    Old,        \* a write answered OK before the cluster was last started, or
                \* Nil when the tablet is empty
    Nil,        \* no node, no request
    Early,      \* what does not wait until the coordinator answers READY with
                \* OK: "write" (clients), "kill" (kills of nodes)
    Restarts,   \* when a dead node may start again: "never", "noticed" (the
                \* coordinator has marked it down) or "any"
    SlowLookup, \* whether a LOOKUP may store the answer to its probe after the
                \* heartbeat thread has marked the node down
    MissThresh, \* hb_miss_thresh
    MaxRounds,  \* rounds of the first configuration
    MaxCrash,   \* bound: kills of nodes
    MaxLost     \* bound: calls to a live node that fail

ASSUME NodeAssumption == /\ First \in Nodes /\ IsFiniteSet(Nodes)
                         /\ Nil \notin Nodes \cup Requests /\ Old \in Requests \cup {Nil}
ASSUME BoundAssumption ==
    /\ MissThresh \in Nat \ {0} /\ MaxRounds \in Nat \ {0}
    /\ MaxCrash \in Nat /\ MaxLost \in Nat
    /\ SlowLookup \in BOOLEAN
    /\ Early \subseteq {"write", "kill"} /\ Restarts \in {"never", "noticed", "any"}

VARIABLES
    proc,    \* proc[n]: the process of node n: up, pid, is_primary_, replicas_
             \* and the log of its tablet, which outlives the process
    view,    \* view[n]: what nodes_ says of n
    head,    \* node_ids[0]: the primary in the coordinator's table
    hb,      \* the heartbeat thread: its copy of the table, of the nodes still
             \* to ping, newly_dead and newly_live
    job,     \* job[t]: the reconfiguration thread t works on
    round,   \* rounds of the first configuration so far
    req,     \* req[r]: the client that issues r and the thread that serves it
    crashes, lost \* kills and lost calls so far

vars == <<proc, view, head, hb, job, round, req, crashes, lost>>

Threads == {"hb", "setup"}

Lsn(n) == Len(proc[n].log)

-----------------------------------------------------------------------------
(* Remote calls. *)

\* A call to n is answered: n runs.
Reached(n) == proc[n].up /\ UNCHANGED lost

\* A call to n is not answered: n does not run, or the answer does not come
\* within the socket's timeout, whether or not n did what it was told.
Missed(n) == \/ ~proc[n].up /\ UNCHANGED lost
             \/ proc[n].up /\ lost < MaxLost /\ lost' = lost + 1

-----------------------------------------------------------------------------
(* The nodes. *)

\* clear_replicas destroys the entries that the forwarding thread of a request
\* on node n still points to.
Freed(n) == [r \in Requests |-> IF req[r].pc = "send" /\ req[r].node = n
                                THEN [req[r] EXCEPT !.freed = TRUE] ELSE req[r]]

\* BECOME_PRIMARY on node n.
become_primary(n) ==
    /\ proc' = [proc EXCEPT ![n].prim = TRUE, ![n].reps = {}]
    /\ req' = Freed(n)

\* ADD_REPLICA on node n.
add_replica(n, f) == proc' = [proc EXCEPT ![n].reps = @ \cup {f}]

\* What a sync from log p can make of log f: nothing at the same LSN, the
\* missing entries or all of the log when f is behind, all of it when f is ahead.
Synced(f, p) ==
    IF Len(f) = Len(p) THEN {f}
    ELSE IF Len(f) < Len(p) THEN {f \o SubSeq(p, Len(f) + 1, Len(p)), p}
    ELSE {p}

\* BECOME_SECONDARY on node n: it is demoted at once, and then syncs from p.
become_secondary(n, p, synced) ==
    /\ req' = Freed(n)
    /\ \E l \in (IF synced THEN Synced(proc[n].log, proc[p].log)
                           ELSE {proc[n].log}) :
          proc' = [proc EXCEPT ![n].prim = FALSE, ![n].reps = {}, ![n].log = l]

\* The process of n ends, and with it the threads that serve requests there.
Stop(n) ==
    /\ proc' = [proc EXCEPT ![n].up = FALSE, ![n].prim = FALSE, ![n].reps = {}]
    /\ req' = [r \in Requests |->
                  IF req[r].pc \in {"queued", "send"} /\ req[r].node = n
                  THEN [req[r] EXCEPT !.pc = "done", !.result = "unknown"]
                  ELSE req[r]]
    /\ crashes < MaxCrash /\ crashes' = crashes + 1

\* READY is answered with OK: the set-up thread has ended.
Ready == round = MaxRounds /\ job["setup"].kind = "none"

Crash(n) ==
    /\ proc[n].up /\ (Ready \/ "kill" \in Early)
    /\ Stop(n)
    /\ UNCHANGED <<view, head, hb, job, round, lost>>

\* A node started without --replica is a secondary until it is promoted.
Restart(n) ==
    /\ ~proc[n].up
    /\ Restarts = "any" \/ (Restarts = "noticed" /\ ~view[n].alive)
    /\ proc' = [proc EXCEPT ![n].up = TRUE, ![n].pid = @ + 1]
    /\ UNCHANGED <<view, head, hb, job, round, req, crashes, lost>>

-----------------------------------------------------------------------------
(* The node table. *)

Max0(S) == Max(S \cup {0})

\* tablet_max_known_lsn, over any set of nodes.
MaxKnown(v, S) == Max0({v[n].lsn : n \in S})

\* refresh_node_lsn_now: what a probe that is answered now makes of an entry.
Fresh(n) == [alive |-> TRUE, down |-> FALSE, missed |-> 0,
             lsn |-> Lsn(n), pid |-> proc[n].pid]

\* cache_refreshed_node
cache_refreshed_node(n, e) == view' = [view EXCEPT ![n] = e]

-----------------------------------------------------------------------------
(* The heartbeat thread. *)

NoJob == [kind |-> "none", pc |-> "", subj |-> Nil, prim |-> Nil, cands |-> {},
          ask |-> {}, lsn |-> [n \in Nodes |-> 0], fol |-> [n \in Nodes |-> {}],
          max |-> 0, todo |-> {}, cur |-> Nil, ok |-> TRUE]

\* The table as load_config leaves it, and a thread between two rounds.
Configured == [alive |-> TRUE, down |-> FALSE, missed |-> 0, lsn |-> 0, pid |-> 0]
NoRound == [snap |-> <<>>, dead |-> {}, live |-> {}]
Pinged == DOMAIN hb.snap = {}

\* The next round starts with a copy of the table.
Snapshot ==
    /\ hb = NoRound /\ job["hb"] = NoJob
    /\ hb' = [NoRound EXCEPT !.snap = view]
    /\ UNCHANGED <<proc, view, head, job, round, req, lost, crashes>>

\* ping_node: the entry, and whether the node has just failed or come back.
ping_node(n, old, ok) ==
    LET m == IF old.missed < MissThresh THEN old.missed + 1 ELSE MissThresh
    IN  IF ok
        THEN LET down == old.down /\ old.alive
             IN  [entry |-> [Fresh(n) EXCEPT !.down = down],
                  failed |-> FALSE,
                  back |-> \/ old.down /\ ~down
                           \/ /\ old.alive /\ ~old.down
                              /\ old.pid > 0 /\ old.pid # proc[n].pid]
        ELSE LET failed == old.alive /\ m >= MissThresh
             IN  [entry |-> IF failed THEN [old EXCEPT !.missed = m, !.down = TRUE,
                                                       !.alive = FALSE]
                            ELSE [old EXCEPT !.missed = m],
                  failed |-> failed, back |-> FALSE]

\* One node of the round is pinged, and its entry, computed from the copy,
\* replaces what the table has by now.
Ping(n) ==
    /\ n \in DOMAIN hb.snap
    /\ \E ok \in BOOLEAN :
          LET p == ping_node(n, hb.snap[n], ok)
          IN  /\ IF ok THEN Reached(n) ELSE Missed(n)
              /\ view' = [view EXCEPT ![n] = p.entry]
              /\ hb' = [hb EXCEPT
                            !.snap = [m \in DOMAIN @ \ {n} |-> @[m]],
                            !.dead = IF p.failed THEN @ \cup {n} ELSE @,
                            !.live = IF p.back THEN @ \cup {n} ELSE @]
    /\ UNCHANGED <<proc, head, job, round, req, crashes>>

Alive(n) == view[n].alive

\* Begin a job: whom to ask, in the pairs <<candidate, node>>, and what the
\* table said when the plan was made.
Job(kind, subj, prim, cands, ask, max) ==
    [NoJob EXCEPT !.kind = kind, !.pc = "probe", !.subj = subj, !.prim = prim,
                  !.cands = cands, !.ask = ask, !.max = max,
                  !.lsn = [n \in Nodes |-> view[n].lsn]]

\* Mutant: the failure of any node starts an election.
handle_node_failure_Elect(d) ==
    LET others == {n \in Nodes \ {d} : Alive(n)}
    IN  /\ Pinged /\ d \in hb.dead /\ job["hb"] = NoJob /\ others # {}
        /\ hb' = [hb EXCEPT !.dead = @ \ {d}]
        /\ job' = [job EXCEPT !["hb"] = Job("elect", d, Nil, others, others \X others,
                                           MaxKnown(view, Nodes))]
        /\ UNCHANGED <<proc, view, head, round, req, lost, crashes>>

\* handle_node_failure, the plan: the replica list of a live primary is to be
\* rebuilt, or else a primary elected among the other live nodes.
handle_node_failure(d) ==
    LET others == {n \in Nodes \ {d} : Alive(n)}
    IN  /\ Pinged /\ d \in hb.dead /\ job["hb"] = NoJob
        /\ hb' = [hb EXCEPT !.dead = @ \ {d}]
        /\ job' = [job EXCEPT !["hb"] =
              IF head # d /\ Alive(head)
              THEN Job("rebuild", d, head, {head}, {head} \X others, 0)
              ELSE IF others = {} THEN NoJob
              ELSE Job("elect", d, Nil, others, others \X others,
                       MaxKnown(view, Nodes))]
        /\ UNCHANGED <<proc, view, head, round, req, lost, crashes>>

\* handle_node_recovery, the plan.  What it decides is decided again from fresh
\* probes; it leaves whom to probe, and the highest LSN of the live nodes.  The
\* primary is probed again at the end if its first probe failed; that of the node
\* itself, when it is still the primary in the table, would not change the outcome.
handle_node_recovery(l) ==
    LET peers == {n \in Nodes \ {l} : Alive(n)}
    IN  /\ Pinged /\ hb.dead = {} /\ l \in hb.live /\ job["hb"] = NoJob
        /\ hb' = [hb EXCEPT !.live = @ \ {l}]
        /\ job' = [job EXCEPT !["hb"] =
              Job("recover", l, IF Alive(head) THEN head ELSE Nil, {l},
                  ({l} \X (peers \cup {l})) \cup ({head} \X ({head} \cap peers)),
                  MaxKnown(view, peers \cup {l}))]
        /\ UNCHANGED <<proc, view, head, round, req, lost, crashes>>

\* configure_initial_tablet_roles, which run starts once a node is alive: a round
\* begins with probes of the live nodes.
configure_initial_tablet_roles ==
    LET live == {n \in Nodes : Alive(n)}
    IN  /\ job["setup"] = NoJob /\ round < MaxRounds /\ (round = 0 => live # {})
        /\ round' = round + 1
        /\ job' = [job EXCEPT !["setup"] =
              Job("setup", First, Nil, live, {<<n, n>> : n \in live}, 0)]
        /\ UNCHANGED <<proc, view, head, hb, req, lost, crashes>>

-----------------------------------------------------------------------------
(* The steps of a job. *)

Done(t) == job' = [job EXCEPT ![t] = NoJob]

\* A candidate is probed before its followers and one candidate after the other.
MayProbe(j, c, n) ==
    /\ <<c, n>> \in j.ask
    /\ n = c \/ <<c, c>> \notin j.ask
    /\ \A q \in j.ask : q[1] = c \/ <<q[1], q[1]>> \in j.ask
    /\ j.kind = "recover" /\ c # j.subj => \A q \in j.ask : q[1] = c

\* Mutant: a primary is counted among its followers.
ProbeOk_Self(t, c, n) ==
    /\ Reached(n)
    /\ cache_refreshed_node(n, Fresh(n))
    /\ job' = [job EXCEPT ![t].ask = @ \ {<<c, n>>}, ![t].lsn[n] = Lsn(n),
                          ![t].fol[c] = @ \cup {n}]

\* The probe <<c, n>> is answered.
ProbeOk(t, c, n) ==
    /\ Reached(n)
    /\ cache_refreshed_node(n, Fresh(n))
    /\ job' = [job EXCEPT
          ![t].ask = @ \ (IF job[t].kind = "recover" THEN {<<c, n>>, <<n, n>>}
                                                     ELSE {<<c, n>>}),
          ![t].lsn[n] = IF c # n /\ job[t].kind = "elect" THEN @ ELSE Lsn(n),
          ![t].fol[c] = IF c # n THEN @ \cup {n} ELSE @,
          ![t].max = IF Lsn(n) > @ THEN Lsn(n) ELSE @]

\* It is not: a follower is left out, a candidate with all its followers.  A
\* rebuild without its primary and a recovery without its node are given up.
ProbeFailed(t, c, n) ==
    LET j == job[t]
    IN  /\ Missed(n)
        /\ UNCHANGED view
        /\ IF c # n \/ j.kind = "setup"
           THEN job' = [job EXCEPT ![t].ask = @ \ {<<c, n>>}]
           ELSE IF c # j.subj /\ j.kind = "recover"
           THEN job' = [job EXCEPT ![t].ask = @ \ {<<c, n>>}, ![t].prim = Nil]
           ELSE IF j.kind = "elect"
           THEN job' = [job EXCEPT ![t].ask = {q \in @ : q[1] # c},
                                   ![t].cands = @ \ {c}]
           ELSE Done(t)

Probe(t, c, n) ==
    /\ job[t].pc = "probe" /\ MayProbe(job[t], c, n)
    /\ ProbeOk(t, c, n) \/ ProbeFailed(t, c, n)
    /\ UNCHANGED <<proc, head, hb, round, req, crashes>>

\* The job goes on with a primary, to be promoted or not, and its followers.
GoOn(t, pc, p, followers) ==
    job' = [job EXCEPT ![t].pc = pc, ![t].prim = p, ![t].todo = followers,
                       ![t].ask = {}]

\* Mutants: an election takes the first live node; a node that is back is never
\* promoted.
ChooseElected_Any(t) ==
    /\ job[t].kind = "elect"
    /\ \E c \in job[t].cands : GoOn(t, "promote", c, job[t].fol[c])
ChooseRecovered_Follow(t) ==
    /\ job[t].kind = "recover"
    /\ IF job[t].prim \in {Nil, job[t].subj} THEN Done(t)
       ELSE GoOn(t, "sync", job[t].prim, {job[t].subj})

\* An election takes a candidate none of the LSNs known exceeds, whichever of
\* them comes first, or none.
ChooseElected(t) ==
    LET fit == {c \in job[t].cands : job[t].lsn[c] >= job[t].max}
    IN  /\ job[t].kind = "elect"
        /\ \/ fit = {} /\ Done(t)
           \/ \E c \in fit : GoOn(t, "promote", c, job[t].fol[c])

\* A node that is back is left alone when a node that is not the primary knows
\* more, follows a primary that knows as much, and is promoted otherwise.
ChooseRecovered(t) ==
    LET j    == job[t]
        l    == j.subj
        plsn == IF j.prim = Nil THEN 0 ELSE j.lsn[j.prim]
    IN  /\ j.kind = "recover"
        /\ IF j.lsn[l] < j.max /\ (j.prim = Nil \/ plsn < j.max) THEN Done(t)
           ELSE IF j.prim \notin {Nil, l} /\ plsn >= j.lsn[l]
           THEN GoOn(t, "sync", j.prim, {l})
           ELSE GoOn(t, "promote", l, j.fol[l])

\* The first configuration waits until every live node can be reached on its
\* replication port, and takes the highest LSN, preferably the node named first.
ChooseFirst(t) ==
    LET j    == job[t]
        best == {n \in j.cands : \A m \in j.cands : j.lsn[m] <= j.lsn[n]}
    IN  /\ j.kind = "setup"
        /\ IF j.cands = {} \/ \E n \in j.cands : ~proc[n].up THEN Done(t)
           ELSE \E n \in (IF j.subj \in best THEN {j.subj} ELSE best) :
                    job' = [job EXCEPT ![t].pc = "promote", ![t].prim = n,
                                       ![t].todo = j.cands \ {n},
                                       ![t].ok = j.cands = Nodes]

Choose(t) ==
    /\ job[t].pc = "probe" /\ job[t].ask = {}
    /\ \/ /\ job[t].kind = "rebuild"
          /\ GoOn(t, "promote", job[t].prim, job[t].fol[job[t].prim])
       \/ ChooseElected(t) \/ ChooseRecovered(t) \/ ChooseFirst(t)
    /\ UNCHANGED <<proc, view, head, hb, round, req, lost, crashes>>

\* promote_node: BECOME_PRIMARY.  When it fails, an election tries the next
\* candidate, a recovery ends, a rebuild skips its followers, and the first
\* configuration goes on to its followers.
promote_node(t) ==
    LET j == job[t]
    IN  /\ j.pc = "promote"
        /\ \/ /\ Reached(j.prim) /\ become_primary(j.prim)
              /\ job' = [job EXCEPT ![t].pc = "sync"]
           \/ /\ Missed(j.prim)
              /\ \/ UNCHANGED <<proc, req>>
                 \/ proc[j.prim].up /\ become_primary(j.prim)
              /\ CASE j.kind = "elect" ->
                        job' = [job EXCEPT ![t].pc = "probe",
                                           ![t].cands = @ \ {j.prim}]
                   [] j.kind = "recover" -> Done(t)
                   [] j.kind = "rebuild" ->
                        job' = [job EXCEPT ![t].pc = "sync", ![t].todo = {}]
                   [] j.kind = "setup" ->
                        job' = [job EXCEPT ![t].pc = "sync", ![t].ok = FALSE]
        /\ UNCHANGED <<view, head, hb, round, crashes>>

\* A node that is back is to follow the primary: one failed call ends that.
Following(j) == j.kind = "recover" /\ j.prim # j.subj

\* A follower is left out of the replica list.
SkipFollower(t, f) ==
    IF Following(job[t])
    THEN Done(t)
    ELSE job' = [job EXCEPT ![t].pc = "sync", ![t].todo = @ \ {f},
                            ![t].cur = Nil, ![t].ok = FALSE]

\* demote_and_sync_node: BECOME_SECONDARY to a follower.
demote_and_sync_node(t, f) ==
    LET p == job[t].prim
    IN  /\ job[t].pc = "sync" /\ f \in job[t].todo
        /\ \/ /\ Reached(f) /\ proc[p].up /\ become_secondary(f, p, TRUE)
              /\ job' = [job EXCEPT ![t].pc = "add", ![t].cur = f]
           \/ /\ Reached(f) /\ ~proc[p].up /\ become_secondary(f, p, FALSE)
              /\ SkipFollower(t, f)
           \/ /\ Missed(f)
              /\ \/ UNCHANGED <<proc, req>>
                 \/ proc[f].up /\ become_secondary(f, p, proc[p].up)
              /\ SkipFollower(t, f)
        /\ UNCHANGED <<view, head, hb, round, crashes>>

\* add_replica_to_primary: ADD_REPLICA to the primary.
add_replica_to_primary(t) ==
    LET j == job[t]
    IN  /\ j.pc = "add"
        /\ \/ /\ Reached(j.prim) /\ add_replica(j.prim, j.cur)
              /\ job' = [job EXCEPT ![t].pc = "sync", ![t].todo = @ \ {j.cur},
                                    ![t].cur = Nil]
           \/ /\ Missed(j.prim)
              /\ \/ UNCHANGED proc
                 \/ proc[j.prim].up /\ add_replica(j.prim, j.cur)
              /\ SkipFollower(t, j.cur)
        /\ UNCHANGED <<view, head, hb, round, req, crashes>>

\* The end of a job.  An elected primary becomes node_ids[0].
CommitElected(j) ==
    /\ j.kind = "elect"
    /\ head' = j.prim /\ view' = [view EXCEPT ![j.prim].alive = TRUE]
    /\ UNCHANGED round

\* A primary whose list was rebuilt stays it.
CommitRebuilt(j) ==
    /\ j.kind = "rebuild"
    /\ view' = [view EXCEPT ![j.prim].alive = TRUE]
    /\ UNCHANGED <<head, round>>

\* A node that is back becomes node_ids[0] when it was promoted.
CommitRecovered(j) ==
    /\ j.kind = "recover"
    /\ head' = IF Following(j) THEN head ELSE j.prim
    /\ view' = [view EXCEPT ![j.subj].alive = TRUE]
    /\ UNCHANGED round

\* The first configuration is stored if every call succeeded, and the rounds end.
CommitFirst(j) ==
    /\ j.kind = "setup"
    /\ head' = IF j.ok THEN j.prim ELSE head
    /\ round' = IF j.ok THEN MaxRounds ELSE round
    /\ UNCHANGED view

Commit(t) ==
    /\ job[t].pc = "sync" /\ job[t].todo = {}
    /\ \/ CommitElected(job[t]) \/ CommitRebuilt(job[t])
       \/ CommitRecovered(job[t]) \/ CommitFirst(job[t])
    /\ Done(t)
    /\ UNCHANGED <<proc, hb, req, lost, crashes>>

-----------------------------------------------------------------------------
(* A client: LOOKUP, then a write to the node it names. *)

Idle == [pc |-> "new", node |-> Nil, got |-> Nil, lsn |-> 0, left |-> {},
         acked |-> 0, need |-> 0, undo |-> FALSE, freed |-> FALSE,
         result |-> "none"]

Again(r) == req' = [req EXCEPT ![r] = Idle]

\* handle_lookup copies the table's primary and, if it is marked alive, probes it.
handle_lookup(r) ==
    /\ req[r].pc = "new" /\ (Ready \/ "write" \in Early)
    /\ Alive(head) /\ Reached(head)
    /\ req' = [req EXCEPT ![r].pc = "probed", ![r].node = head,
                          ![r].got = Fresh(head)]
    /\ UNCHANGED <<proc, view, head, hb, job, round, crashes>>

\* It then stores what it learnt and answers, unless another LSN in the table is
\* higher, also after a second probe.
LookupAnswer(r) ==
    LET n  == req[r].node
        v1 == [view EXCEPT ![n] = req[r].got]
        v2 == [view EXCEPT ![n] = Fresh(n)]
        target == req' = [req EXCEPT ![r].pc = "target", ![r].got = Nil]
    IN  /\ req[r].pc = "probed"
        /\ \/ ~SlowLookup /\ ~Alive(n) /\ Again(r) /\ UNCHANGED view
           \/ /\ SlowLookup \/ Alive(n)
              /\ IF v1[n].lsn >= MaxKnown(v1, Nodes) THEN target /\ view' = v1
                 ELSE IF ~proc[n].up THEN Again(r) /\ view' = v1
                 ELSE /\ view' = v2
                      /\ IF Lsn(n) >= MaxKnown(v2, Nodes) THEN target ELSE Again(r)
        /\ UNCHANGED <<proc, head, hb, job, round, lost, crashes>>

\* is_primary() is read, and then the thread waits for primary_write_mu_.
CheckRole(r) ==
    LET n == req[r].node
    IN  /\ req[r].pc = "target"
        /\ IF proc[n].up /\ proc[n].prim
           THEN req' = [req EXCEPT ![r].pc = "queued"] ELSE Again(r)
        /\ UNCHANGED <<proc, view, head, hb, job, round, lost, crashes>>

Locked(n) == \E r \in Requests : req[r].pc = "send" /\ req[r].node = n

\* The tablet's write, or its undoing, and forward_to_all: the list of replicas
\* is copied and the remote acknowledgements a majority needs are counted.  A
\* node without replicas needs none.
AppendEntry(r, undo) ==
    LET n == req[r].node
        need == (Cardinality(proc[n].reps) + 1) \div 2
    IN  /\ proc' = [proc EXCEPT ![n].log = Append(@, [op |-> r, undo |-> undo])]
        /\ req' = [req EXCEPT ![r] =
              IF need = 0
              THEN [Idle EXCEPT !.pc = "done", !.result = IF undo THEN "no quorum"
                                                                  ELSE "alone"]
              ELSE [Idle EXCEPT !.pc = "send", !.node = n, !.lsn = Lsn(n) + 1,
                                !.left = proc[n].reps, !.need = need, !.undo = undo]]

replicated_put(r) ==
    /\ req[r].pc = "queued" /\ ~Locked(req[r].node)
    /\ AppendEntry(r, FALSE)
    /\ UNCHANGED <<view, head, hb, job, round, lost, crashes>>

\* Mutant: an operation that is sent again is applied again.
Applied_Again(log, l, e) == Append(log, e)

\* A replica acknowledges an LSN it has, applies the next one and refuses a gap.
Accepts(log, l) == l <= Len(log) + 1
Applied(log, l, e) == IF l = Len(log) + 1 THEN Append(log, e) ELSE log

\* One replica of forward_to_all: the operation is accepted; or the replica is
\* told to sync from this node, which demotes it, and the operation is sent
\* again; or neither is acknowledged, whether or not the operation is applied.
forward_to_replica(r, f) ==
    LET n == req[r].node
        e == [op |-> r, undo |-> req[r].undo]
        sent(rs, a) == req' = [rs EXCEPT ![r].left = @ \ {f},
                                         ![r].acked = @ + IF a THEN 1 ELSE 0]
    IN  /\ req[r].pc = "send" /\ f \in req[r].left
        /\ \/ /\ Reached(f) /\ Accepts(proc[f].log, req[r].lsn)
              /\ proc' = [proc EXCEPT ![f].log = Applied(@, req[r].lsn, e)]
              /\ sent(req, TRUE)
           \/ /\ proc[f].up
              /\ IF Accepts(proc[f].log, req[r].lsn)
                 THEN lost < MaxLost /\ lost' = lost + 1 ELSE UNCHANGED lost
              /\ \E l \in Synced(proc[f].log, proc[n].log) :
                    /\ proc' = [proc EXCEPT ![f].prim = FALSE, ![f].reps = {},
                                            ![f].log = Applied(l, req[r].lsn, e)]
                    /\ sent(Freed(f), Accepts(l, req[r].lsn))
           \/ /\ Missed(f) \/ (req[r].freed /\ UNCHANGED lost)
              /\ sent(req, FALSE)
              /\ \/ UNCHANGED proc
                 \/ /\ proc[f].up /\ Accepts(proc[f].log, req[r].lsn)
                    /\ proc' = [proc EXCEPT ![f].log = Applied(@, req[r].lsn, e)]
        /\ UNCHANGED <<view, head, hb, job, round, crashes>>

\* The entry of the replica has been destroyed: the process may die of it.
UseAfterFree(r) ==
    /\ req[r].pc = "send" /\ req[r].freed /\ req[r].left # {}
    /\ Stop(req[r].node)
    /\ UNCHANGED <<view, head, hb, job, round, lost>>

\* The loop has ended: OK, or the old value is written under a new LSN and
\* forwarded in the same way before the write is answered with an error.
Conclude(r) ==
    LET finish(res) ==
            /\ req' = [req EXCEPT ![r] = [Idle EXCEPT !.pc = "done", !.result = res]]
            /\ UNCHANGED proc
    IN  /\ req[r].pc = "send" /\ req[r].left = {}
        /\ \/ req[r].undo /\ finish("no quorum")
           \/ ~req[r].undo /\ req[r].acked >= req[r].need /\ finish("ok")
           \/ ~req[r].undo /\ req[r].acked < req[r].need /\ AppendEntry(r, TRUE)
        /\ UNCHANGED <<view, head, hb, job, round, lost, crashes>>

-----------------------------------------------------------------------------
Majorities == {Q \in SUBSET Nodes : 2 * Cardinality(Q) > Cardinality(Nodes)}

\* All processes have just been started.  A write that was answered OK before
\* is in the logs of a majority.
Init ==
    /\ \E Q \in Majorities :
          proc = [n \in Nodes |->
                     [up |-> TRUE, pid |-> 1, prim |-> FALSE, reps |-> {},
                      log |-> IF Old # Nil /\ n \in Q
                              THEN <<[op |-> Old, undo |-> FALSE]>> ELSE <<>>]]
    /\ view = [n \in Nodes |-> Configured]
    /\ head = First /\ round = 0
    /\ hb = NoRound /\ job = [t \in Threads |-> NoJob]
    /\ req = [r \in Requests |->
                 IF r = Old THEN [Idle EXCEPT !.pc = "done", !.result = "ok"]
                 ELSE Idle]
    /\ crashes = 0 /\ lost = 0

JobStep(t) ==
    \/ \E c, n \in Nodes : Probe(t, c, n)
    \/ Choose(t) \/ promote_node(t)
    \/ \E f \in Nodes : demote_and_sync_node(t, f)
    \/ add_replica_to_primary(t) \/ Commit(t)

Heartbeat ==
    \/ Snapshot
    \/ \E n \in Nodes : Ping(n) \/ handle_node_failure(n) \/ handle_node_recovery(n)
    \/ JobStep("hb")

Setup == configure_initial_tablet_roles \/ JobStep("setup")

Serve(r) ==
    \/ CheckRole(r) \/ replicated_put(r) \/ Conclude(r)
    \/ \E f \in Nodes : forward_to_replica(r, f)

Client(r) == handle_lookup(r) \/ LookupAnswer(r) \/ Serve(r) \/ UseAfterFree(r)

Next ==
    \/ Heartbeat \/ Setup
    \/ \E r \in Requests : Client(r)
    \/ \E n \in Nodes : Crash(n) \/ Restart(n)

\* The threads of the coordinator go on: their sleeps and the waits on their
\* sockets end.  So do the threads of the nodes, and a LOOKUP under way.
Fairness == /\ WF_vars(Heartbeat) /\ WF_vars(Setup)
            /\ \A r \in Requests : WF_vars(LookupAnswer(r)) /\ WF_vars(Serve(r))

Spec     == Init /\ [][Next]_vars
FairSpec == Spec /\ Fairness

-----------------------------------------------------------------------------
(* Properties. *)

Entry == [op : Requests, undo : BOOLEAN]
TableEntry == [alive : BOOLEAN, down : BOOLEAN, missed : 0..MissThresh,
               lsn : Nat, pid : 0..(MaxCrash + 1)]

\* Every variable has its type; a job of the heartbeat thread runs between two
\* rounds of pings; no node replicates to itself or while it is down; a thread
\* serves a request only while its process runs.
TypeOK ==
    /\ proc \in [Nodes -> [up : BOOLEAN, pid : 1..(MaxCrash + 1), prim : BOOLEAN,
                           reps : SUBSET Nodes, log : Seq(Entry)]]
    /\ \A n \in Nodes : n \notin proc[n].reps /\ (~proc[n].up => proc[n].reps = {})
    /\ view \in [Nodes -> TableEntry] /\ head \in Nodes /\ round \in 0..MaxRounds
    /\ DOMAIN hb.snap \cup hb.dead \cup hb.live \subseteq Nodes
    /\ \A n \in DOMAIN hb.snap : hb.snap[n] \in TableEntry
    /\ ~Pinged => job["hb"] = NoJob
    /\ \A t \in Threads :
          /\ job[t].kind \in {"none", "rebuild", "elect", "recover", "setup"}
          /\ job[t].pc \in {"", "probe", "promote", "sync", "add"}
          /\ job[t].pc \in {"promote", "sync", "add"} => job[t].prim \in Nodes
          /\ job[t].pc = "add" => job[t].cur \in job[t].todo
    /\ \A r \in Requests :
          /\ req[r].pc \in {"new", "probed", "target", "queued", "send", "done"}
          /\ req[r].pc \in {"queued", "send"} => proc[req[r].node].up
          /\ req[r].left \subseteq Nodes /\ req[r].acked <= Cardinality(Nodes)
    /\ crashes \in 0..MaxCrash /\ lost \in 0..MaxLost

\* The operations that a log makes visible: those not undone later.
Visible(log) ==
    {r \in Requests : \E i \in DOMAIN log :
        /\ log[i] = [op |-> r, undo |-> FALSE]
        /\ \A k \in i..Len(log) : log[k] # [op |-> r, undo |-> TRUE]}

\* The node that LOOKUP names takes writes and answers reads as the primary.
Serving == proc[head].up /\ proc[head].prim

\* A write that a majority of the nodes acknowledged is visible on the node that
\* serves the tablet, whichever node has become that by now.
QuorumVisible ==
    Serving /\ job["hb"] = NoJob =>
        \A r \in Requests : req[r].result = "ok" => r \in Visible(proc[head].log)

\* The replicas of the node that serves the tablet have applied, in the same
\* order, the first operations of those it has applied: LSNs can be compared.
ReplicasAgree ==
    Serving => \A f \in proc[head].reps : IsPrefix(proc[f].log, proc[head].log)

\* A primary that serves the tablet is neither demoted nor replaced while its
\* process runs.
NoFailback ==
    [][Serving /\ proc'[head].up => proc'[head].prim /\ head' = head]_vars

\* Once all nodes stay up, the tablet has a primary again, and keeps it.
ServesAgain == <>[](\A n \in Nodes : proc[n].up) => <>[]Serving

\* Once all nodes stay up, they are all replicas of the primary again.
Rejoins == <>[](\A n \in Nodes : proc[n].up) =>
               <>[](Serving /\ proc[head].reps = Nodes \ {head})
=============================================================================
