---------------------------- MODULE Replication ----------------------------
(***************************************************************************)
(* The replication of one tablet (kvstore/src/replication.h and the        *)
(* REPLICATE, SYNC_FROM and BECOME_SECONDARY handlers of server.cc) while  *)
(* one node stays its primary: client writes under primary_write_mu_,      *)
(* forwarding with a quorum, refused, lost and late messages, the repair   *)
(* of a lagging replica, the rollback of a write without a quorum, and     *)
(* replicas that are killed and restarted.                                 *)
(*                                                                         *)
(* A node's tablet is what Tablet.tla shows it to be: a durable map, an    *)
(* LSN, a checkpoint version and the log entries since the checkpoint.     *)
(***************************************************************************)
EXTENDS Integers, Sequences, FiniteSets

CONSTANTS
    Nodes,      \* the nodes that host the tablet
    P,          \* the primary
    Requests,   \* client write requests, one connection thread each
    Keys, Vals, \* cells, each in a row that exists, and values
    Nil,        \* an absent cell, a DELETE, no thread
    CoordSync,  \* whether the coordinator may tell replicas to sync
    SlowSync,   \* whether a repair may time out while the replica still loads
    MaxCrash,   \* bound: kills of replicas
    MaxVer,     \* bound: checkpoints per node
    MaxLate     \* bound: requests left on closed connections at a time

ASSUME NodeAssumption == P \in Nodes /\ IsFiniteSet(Nodes)
ASSUME NilAssumption  == Nil \notin Vals /\ Nil \notin Requests
ASSUME BoundAssumption == MaxCrash \in Nat /\ MaxVer \in Nat /\ MaxLate \in Nat

Replicas == Nodes \ {P}

Contents == [Keys -> Vals \cup {Nil}]
Entry    == [key : Keys, val : Vals \cup {Nil}]
Empty    == [k \in Keys |-> Nil]

\* What clients ask for: replicated_put, replicated_cput, replicated_delete.
Ops ==    [kind : {"put"}, key : Keys, exp : {Nil}, val : Vals]
     \cup [kind : {"cput"}, key : Keys, exp : Vals, val : Vals]
     \cup [kind : {"delete"}, key : Keys, exp : {Nil}, val : {Nil}]

VARIABLES
    up,       \* up[n]: the process of node n runs
    tab,      \* tab[n]: contents, LSN, checkpoint version, log since then
    mid,      \* the primary has counted an operation that it has not applied
              \* yet: "no", "put", or "row" when it also holds the row's lock
    lock,     \* the request that holds primary_write_mu_, or Nil
    req,      \* req[r]: the state of the thread that serves request r
    late,     \* REPLICATE messages on connections the primary has given up
    syncs,    \* syncs of replicas: SYNC_FROM sent, or its answer not yet loaded
    crashes,  \* kills so far
    past      \* history: past[i + 1] is the contents the primary had at LSN i

vars == <<up, tab, mid, lock, req, late, syncs, crashes, past>>

-----------------------------------------------------------------------------
(* The tablet of a node. *)

Apply(c, e) == [c EXCEPT ![e.key] = e.val]

\* A write or a replicated operation: log entry, LSN and contents.
Write(t, e) == [t EXCEPT !.cells = Apply(@, e), !.lsn = @ + 1,
                         !.wal = Append(@, e)]

\* checkpoint_locked: a new version, and an empty log.
Checkpoint(t) == [t EXCEPT !.ver = @ + 1, !.wal = <<>>]

\* load_snapshot_blob: the contents, LSN and version sent, then a checkpoint.
LoadSnapshot(s) ==
    [cells |-> s.cells, lsn |-> s.lsn, ver |-> s.ver + 1, wal |-> <<>>]

\* wal_delta_after: the entries above LSN l, labelled by counting back.
DeltaAfter(t, l) ==
    LET oldest == t.lsn - Len(t.wal) + 1
        skip   == IF l < oldest THEN 0 ELSE l - oldest + 1
    IN  [first |-> oldest + skip, entries |-> SubSeq(t.wal, skip + 1, Len(t.wal))]

\* apply_wal_delta_blob: known entries are skipped, and a gap is an error.
DeltaFits(t, d) == d.entries = <<>> \/ d.first <= t.lsn + 1

WriteAll(t, new) ==
    LET F[i \in 0..Len(new)] == IF i = 0 THEN t ELSE Write(F[i - 1], new[i])
    IN  F[Len(new)]

LoadDelta(t, d) ==
    IF d.entries = <<>> \/ ~DeltaFits(t, d) THEN t
    ELSE WriteAll(t, SubSeq(d.entries, t.lsn - d.first + 2, Len(d.entries)))

\* build_sync_response: what the primary sends to a requester at version v and
\* LSN l, a delta or a snapshot whose rows are yet to be copied.
build_sync_response(t, v, l) ==
    LET d        == DeltaAfter(t, l)
        delta    == [kind |-> "delta", blob |-> d]
        snapshot == [kind |-> "copying",
                     blob |-> [cells |-> Empty, lsn |-> t.lsn, ver |-> t.ver]]
    IN  IF \/ l = t.lsn
           \/ v = t.ver /\ l < t.lsn /\ d.entries # <<>> /\ d.first = l + 1
        THEN delta ELSE snapshot

\* Mutants: a gap is acknowledged; a gap is applied.
AcceptsGap(t, l) == TRUE
ReplicateGap(t, l, e) == IF l > t.lsn THEN Write(t, e) ELSE t

\* apply_replicate_put / _delete: an old LSN is acknowledged and ignored, the
\* next one is applied, and a gap is refused.
Accepts(t, l) == l <= t.lsn + 1
Replicate(t, l, e) == IF l = t.lsn + 1 THEN Write(t, e) ELSE t

-----------------------------------------------------------------------------
(* The thread of a client request on the primary. *)

Idle == [pc |-> "new", op |-> Nil, old |-> Nil, lsn |-> 0, entry |-> Nil,
         left |-> {}, target |-> Nil, acked |-> 0, need |-> 0,
         undo |-> FALSE, result |-> "none"]

Finish(r, res, l) == [Idle EXCEPT !.pc = "done", !.op = req[r].op,
                                  !.lsn = l, !.result = res]

\* is_primary() is read before primary_write_mu_ is taken.
Submit(r, o) ==
    /\ req[r].pc = "new"
    /\ req' = [req EXCEPT ![r].pc = "queued", ![r].op = o]
    /\ UNCHANGED <<up, tab, mid, lock, late, syncs, crashes, past>>

\* The tablet's log entry and LSN; the rows follow in UpdateRows.  put takes
\* the row's lock only then; cput and del hold it throughout.
WriteLog(r, e, undo) ==
    /\ tab' = [tab EXCEPT ![P] = [Write(@, e) EXCEPT !.cells = tab[P].cells]]
    /\ mid' = IF e.val = Nil \/ (~undo /\ req[r].op.kind = "cput")
              THEN "row" ELSE "put"
    /\ past' = Append(past, Apply(tab[P].cells, e))
    /\ lock' = r
    /\ req' = [req EXCEPT ![r] = [Idle EXCEPT
                  !.pc = "rows", !.op = req[r].op, !.old = tab[P].cells[e.key],
                  !.lsn = tab[P].lsn + 1, !.entry = e, !.undo = undo]]
    /\ UNCHANGED <<up, late, syncs, crashes>>

\* The write lock is taken.  A compare-and-put that does not match and the
\* delete of an absent cell return without a write.
Start(r) ==
    LET o   == req[r].op
        now == tab[P].cells[o.key]
        ret(res) == /\ req' = [req EXCEPT ![r] = Finish(r, res, 0)]
                    /\ UNCHANGED <<up, tab, mid, lock, late, syncs,
                                   crashes, past>>
    IN  /\ req[r].pc = "queued" /\ lock = Nil
        /\ \/ o.kind = "cput" /\ now # o.exp /\ ret("mismatch")
           \/ o.kind = "delete" /\ now = Nil /\ ret("ok")
           \/ /\ o.kind = "cput" => now = o.exp
              /\ o.kind = "delete" => now # Nil
              /\ WriteLog(r, [key |-> o.key, val |-> o.val], FALSE)

\* The rows are updated, and forward_to_all copies the list of replicas and
\* works out how many of them have to acknowledge.
UpdateRows(r) ==
    /\ req[r].pc = "rows"
    /\ tab' = [tab EXCEPT ![P].cells = Apply(@, req[r].entry)]
    /\ mid' = "no"
    /\ req' = [req EXCEPT ![r].pc = "send", ![r].left = Replicas,
                          ![r].need = (Cardinality(Replicas) + 1) \div 2]
    /\ UNCHANGED <<up, lock, late, syncs, crashes, past>>

\* forward_to_replica succeeds: the replica has applied the operation, or has
\* it already, and its acknowledgement arrives.
Delivered(r, n) ==
    /\ up[n] /\ Accepts(tab[n], req[r].lsn)
    /\ tab' = [tab EXCEPT ![n] = Replicate(@, req[r].lsn, req[r].entry)]
    /\ req' = [req EXCEPT ![r].pc = "send", ![r].left = @ \ {n},
                          ![r].target = Nil, ![r].acked = @ + 1]
    /\ UNCHANGED late

\* forward_to_replica fails: the replica cannot be reached or refuses a gap, or
\* it does not answer in time and finds the message on its socket later.
NotDelivered(r, n, retried) ==
    /\ \/ UNCHANGED late
       \/ /\ up[n] /\ Cardinality(late) < MaxLate
          /\ late' = late \cup {[to |-> n, lsn |-> req[r].lsn,
                                 entry |-> req[r].entry]}
    /\ req' = IF retried
              THEN [req EXCEPT ![r].pc = "send", ![r].left = @ \ {n},
                               ![r].target = Nil]
              ELSE [req EXCEPT ![r].pc = "repair", ![r].target = n]
    /\ UNCHANGED tab

forward_to_replica(r, n) ==
    /\ req[r].pc = "send" /\ n \in req[r].left
    /\ Delivered(r, n) \/ NotDelivered(r, n, FALSE)
    /\ UNCHANGED <<up, mid, lock, syncs, crashes, past>>

\* The second attempt, after a repair.
forward_again(r) ==
    /\ req[r].pc = "again"
    /\ Delivered(r, req[r].target) \/ NotDelivered(r, req[r].target, TRUE)
    /\ UNCHANGED <<up, mid, lock, syncs, crashes, past>>

\* The replica is told to sync, and asks with the version and the LSN it has.
\* A sync the coordinator ordered belongs to no request (Nil).
Ask(n, r) ==
    /\ up[n]
    /\ \A s \in syncs : <<s.node, s.req>> # <<n, r>>
    /\ syncs' = syncs \cup {[node |-> n, req |-> r, kind |-> "asked",
                            blob |-> [ver |-> tab[n].ver, lsn |-> tab[n].lsn]]}

GiveUp(r) == req' = [req EXCEPT ![r].pc = "send", ![r].target = Nil,
                                ![r].left = @ \ {req[r].target}]

\* resync_replica_from_self: BECOME_SECONDARY to the replica, which syncs from
\* this primary, or cannot be reached or cannot connect back.
resync_replica_from_self(r) ==
    /\ req[r].pc = "repair"
    /\ \/ /\ Ask(req[r].target, r)
          /\ req' = [req EXCEPT ![r].pc = "syncing"]
       \/ GiveUp(r) /\ UNCHANGED syncs
    /\ UNCHANGED <<up, tab, mid, lock, late, crashes, past>>

\* The coordinator tells a replica to sync (demote_and_sync_node).
become_secondary_and_sync(n) ==
    /\ CoordSync
    /\ Ask(n, Nil)
    /\ UNCHANGED <<up, tab, mid, lock, req, late, crashes, past>>

\* The primary answers SYNC_FROM.  A delta waits for wal_mu_.  A snapshot does
\* not: it copies the LSN and the version and then, in a step of its own, the
\* rows, which may lag that LSN or be ahead of it; only a row's lock holds it
\* up.
Answer(s) ==
    LET resp == build_sync_response(tab[P], s.blob.ver, s.blob.lsn)
    IN  /\ s.kind = "asked" /\ (resp.kind = "delta" => mid = "no")
        /\ syncs' = (syncs \ {s}) \cup
                        {[s EXCEPT !.kind = resp.kind, !.blob = resp.blob]}
        /\ UNCHANGED <<up, tab, mid, lock, req, late, crashes, past>>

snapshot_blob(s) ==
    /\ s.kind = "copying" /\ mid # "row"
    /\ syncs' = (syncs \ {s}) \cup
                    {[s EXCEPT !.kind = "snapshot", !.blob.cells = tab[P].cells]}
    /\ UNCHANGED <<up, tab, mid, lock, req, late, crashes, past>>

\* A request still waits for the report of this sync.
Awaited(s) == /\ s.req # Nil
              /\ req[s.req].pc = "syncing" /\ req[s.req].target = s.node

\* Mutant: the repair waits for the report without a timeout.
RepairTimeout_Never(r) == FALSE /\ UNCHANGED vars

\* The repair waits 120 s for the replica's report; the replica goes on.
RepairTimeout(r) ==
    /\ SlowSync /\ req[r].pc = "syncing"
    /\ GiveUp(r)
    /\ UNCHANGED <<up, tab, mid, lock, late, syncs, crashes, past>>

\* The replica loads the answer and reports.  The report to a repair may also
\* be lost.
Load(s) ==
    LET n  == s.node
        ok == s.kind = "delta" => DeltaFits(tab[n], s.blob)
    IN  /\ up[n] /\ s.kind \in {"delta", "snapshot"}
        /\ tab' = [tab EXCEPT ![n] = IF s.kind = "snapshot"
                                     THEN LoadSnapshot(s.blob)
                                     ELSE LoadDelta(@, s.blob)]
        /\ syncs' = syncs \ {s}
        /\ IF Awaited(s)
           THEN \/ ok /\ req' = [req EXCEPT ![s.req].pc = "again"]
                \/ GiveUp(s.req)
           ELSE UNCHANGED req
        /\ UNCHANGED <<up, mid, lock, late, crashes, past>>

\* Mutants: the lock is kept; the old value is forgotten.
Return_Locked(r, res, l) ==
    /\ req' = [req EXCEPT ![r] = Finish(r, res, l)]
    /\ lock' = r
UndoEntry_Delete(r) == [key |-> req[r].entry.key, val |-> Nil]

\* The request is answered and primary_write_mu_ released.
Return(r, res, l) ==
    /\ req' = [req EXCEPT ![r] = Finish(r, res, l)]
    /\ lock' = Nil

\* The compensating operation: the value read before the write, or a delete.
UndoEntry(r) == [key |-> req[r].entry.key, val |-> req[r].old]

\* The loop over the replicas has ended.  Without a quorum the old value is
\* written under a new LSN and forwarded in the same way.
Conclude(r) ==
    /\ req[r].pc = "send" /\ req[r].left = {}
    /\ \/ /\ req[r].acked >= req[r].need /\ ~req[r].undo
          /\ Return(r, "ok", req[r].lsn)
          /\ UNCHANGED <<up, tab, mid, late, syncs, crashes, past>>
       \/ /\ req[r].acked < req[r].need /\ ~req[r].undo
          /\ WriteLog(r, UndoEntry(r), TRUE)
       \/ /\ req[r].undo
          /\ Return(r, "no quorum", 0)
          /\ UNCHANGED <<up, tab, mid, late, syncs, crashes, past>>

-----------------------------------------------------------------------------
(* The nodes. *)

\* A replica's thread finds a message on a connection the primary has closed.
HandleLate(m) ==
    /\ up[m.to]
    /\ tab' = [tab EXCEPT ![m.to] = Replicate(@, m.lsn, m.entry)]
    /\ late' = late \ {m}
    /\ UNCHANGED <<up, mid, lock, req, syncs, crashes, past>>

\* checkpoint_loop, on any node; wal_mu_ keeps it out of a write.
AutoCheckpoint(n) ==
    /\ up[n] /\ tab[n].ver < MaxVer /\ (n = P => mid = "no")
    /\ tab' = [tab EXCEPT ![n] = Checkpoint(@)]
    /\ UNCHANGED <<up, mid, lock, req, late, syncs, crashes, past>>

\* A replica is killed: what it has on disk is what it had in memory.  Threads
\* that were loading an answer or handling a message are gone, and a repair
\* that waits for a report reads the end of the connection.
Crash(n) ==
    /\ n # P /\ up[n] /\ crashes < MaxCrash
    /\ up' = [up EXCEPT ![n] = FALSE]
    /\ crashes' = crashes + 1
    /\ late' = {m \in late : m.to # n}
    /\ syncs' = {s \in syncs : s.node # n}
    /\ req' = [r \in Requests |->
                  IF req[r].pc = "syncing" /\ req[r].target = n
                  THEN [req[r] EXCEPT !.pc = "send", !.left = @ \ {n},
                                      !.target = Nil]
                  ELSE req[r]]
    /\ UNCHANGED <<tab, mid, lock, past>>

Restart(n) ==
    /\ ~up[n]
    /\ up' = [up EXCEPT ![n] = TRUE]
    /\ UNCHANGED <<tab, mid, lock, req, late, syncs, crashes, past>>

-----------------------------------------------------------------------------
Init ==
    /\ up = [n \in Nodes |-> TRUE]
    /\ tab = [n \in Nodes |-> [cells |-> Empty, lsn |-> 0, ver |-> 0,
                               wal |-> <<>>]]
    /\ mid = "no" /\ lock = Nil
    /\ req = [r \in Requests |-> Idle]
    /\ late = {} /\ syncs = {} /\ crashes = 0
    /\ past = <<Empty>>

Thread(r) ==
    \/ Start(r) \/ UpdateRows(r) \/ Conclude(r)
    \/ \E n \in Replicas : forward_to_replica(r, n)
    \/ resync_replica_from_self(r) \/ RepairTimeout(r) \/ forward_again(r)

Next ==
    \/ \E r \in Requests, o \in Ops : Submit(r, o)
    \/ \E r \in Requests : Thread(r)
    \/ \E s \in syncs : Answer(s) \/ snapshot_blob(s) \/ Load(s)
    \/ \E m \in late : HandleLate(m)
    \/ \E n \in Nodes : AutoCheckpoint(n) \/ Crash(n) \/ Restart(n)
    \/ \E n \in Replicas : become_secondary_and_sync(n)

\* A thread of the primary that can go on does: every wait on a socket ends, by
\* an answer or a timeout, and primary_write_mu_ is held for finitely many of them.
Fairness == \A r \in Requests : WF_vars(Thread(r))

Spec     == Init /\ [][Next]_vars
FairSpec == Spec /\ Fairness

-----------------------------------------------------------------------------
(* Properties. *)

Tablets == [cells : Contents, lsn : Nat, ver : Nat, wal : Seq(Entry)]

Threads ==
    [pc : {"new", "queued", "rows", "send", "repair", "syncing", "again", "done"},
     op : Ops \cup {Nil}, old : Vals \cup {Nil}, lsn : Nat, entry : Entry \cup {Nil},
     left : SUBSET Replicas, target : Replicas \cup {Nil}, acked : Nat, need : Nat,
     undo : BOOLEAN, result : {"none", "ok", "mismatch", "no quorum"}]

Messages == [to : Replicas, lsn : Nat, entry : Entry]

\* A sync carries the question, a snapshot or a delta.
Syncs ==
    LET Of(kinds, blobs) == [node : Replicas, req : Requests \cup {Nil},
                             kind : kinds, blob : blobs]
    IN       Of({"asked"}, [ver : Nat, lsn : Nat])
        \cup Of({"copying", "snapshot"}, [cells : Contents, lsn : Nat, ver : Nat])
        \cup Of({"delta"}, [first : Int, entries : Seq(Entry)])

\* A request holds primary_write_mu_.
Busy(r) == req[r].pc \in {"rows", "send", "repair", "syncing", "again"}

\* Every variable has its type, and primary_write_mu_ has the owner the
\* threads' positions say.
TypeOK ==
    /\ up \in [Nodes -> BOOLEAN] /\ mid \in {"no", "put", "row"}
    /\ tab \in [Nodes -> Tablets]
    /\ lock \in Requests \cup {Nil}
    /\ req \in [Requests -> Threads]
    /\ \A r \in Requests :
          /\ Busy(r) <=> lock = r
          /\ Busy(r) => req[r].entry \in Entry
          /\ req[r].pc # "new" => req[r].op \in Ops
          /\ req[r].pc \in {"repair", "syncing", "again"} => req[r].target \in req[r].left
    /\ late \subseteq Messages
    /\ syncs \subseteq Syncs
    /\ crashes \in 0..MaxCrash /\ past \in Seq(Contents)

\* A replica at LSN l has exactly the contents the primary had at LSN l,
\* whatever was refused, lost, repeated, late, repaired or rolled back on the
\* way: an LSN names one state.
ReplicaExact ==
    \A n \in Replicas :
        /\ tab[n].lsn <= tab[P].lsn
        /\ tab[n].cells = past[tab[n].lsn + 1]

\* A write that was answered OK is on a majority of the nodes, then and ever
\* after.
AckedOnQuorum ==
    \A r \in Requests :
        req[r].result = "ok" =>
            2 * Cardinality({n \in Nodes : tab[n].lsn >= req[r].lsn})
                > Cardinality(Nodes)

\* Between writes the primary shows exactly the writes that were answered OK:
\* one that got no quorum has been undone, and has undone nothing else.
OnlyAcked ==
    lock = Nil => \A k \in Keys :
        LET won == {r \in Requests : /\ req[r].result = "ok" /\ req[r].lsn > 0
                                     /\ req[r].op.key = k}
        IN  tab[P].cells[k] =
                IF won = {} THEN Nil
                ELSE req[CHOOSE r \in won :
                            \A q \in won : req[q].lsn <= req[r].lsn].op.val

-----------------------------------------------------------------------------
(* The inductive invariants behind them. *)

\* Operation l, whose log entry is e, took the primary from one state of its
\* history to the next.
IsStep(l, e) == /\ l \in 1..tab[P].lsn
                /\ past[l + 1] = Apply(past[l], e)

\* The history has one state per LSN, the primary shows the last one unless it
\* is still applying an operation, and the operations that are on their way,
\* in the log, in a thread or on a closed connection, are steps of it.
HistoryInv ==
    /\ Len(past) = tab[P].lsn + 1
    /\ Len(tab[P].wal) <= tab[P].lsn
    /\ \A i \in 1..Len(tab[P].wal) :
          IsStep(tab[P].lsn - Len(tab[P].wal) + i, tab[P].wal[i])
    /\ mid = "no" => tab[P].cells = past[tab[P].lsn + 1]
    /\ \A r \in Requests :
          /\ lock = r => req[r].lsn = tab[P].lsn /\ IsStep(req[r].lsn, req[r].entry)
          /\ req[r].pc = "rows" => /\ mid # "no"
                                   /\ tab[P].cells = past[tab[P].lsn]
    /\ mid # "no" => \E r \in Requests : req[r].pc = "rows"
    /\ \A m \in late : IsStep(m.lsn, m.entry)

\* The request q wrote the cell k and was answered OK.
Won(q, k) == req[q].result = "ok" /\ req[q].lsn > 0 /\ req[q].op.key = k

\* The value of the cell k if the request that holds the lock is undone.
Undone(k) ==
    IF \E r \in Requests : lock = r /\ req[r].entry.key = k
    THEN IF req[lock].undo THEN req[lock].entry.val ELSE req[lock].old
    ELSE tab[P].cells[k]

\* That is the value of the acknowledged write to k with the highest LSN.
AckedCell(k) ==
    /\ (\A q \in Requests : ~Won(q, k)) => Undone(k) = Nil
    /\ \A r \in Requests :
          Won(r, k) /\ (\A q \in Requests : Won(q, k) => req[q].lsn <= req[r].lsn)
              => Undone(k) = req[r].op.val

\* What has been answered and what is under way: the request that holds the
\* lock has the highest LSN of all, and its value is in its cell once its rows
\* are written.
AckedInv ==
    /\ \A r \in Requests :
          /\ req[r].pc # "done" => req[r].result = "none"
          /\ req[r].result = "ok" => req[r].lsn <= tab[P].lsn
          /\ req[r].result = "ok" /\ lock # Nil => req[r].lsn < tab[P].lsn
          /\ lock = r /\ ~req[r].undo => /\ req[r].entry.key = req[r].op.key
                                         /\ req[r].entry.val = req[r].op.val
          /\ lock = r /\ req[r].pc # "rows" =>
                tab[P].cells[req[r].entry.key] = req[r].entry.val
    /\ \A k \in Keys : AckedCell(k)

\* No sync outlives the repair that asked for it, and none was asked for by the
\* coordinator.
AllAwaited == \A s \in syncs : Awaited(s)

\* A replica runs one sync for a request at a time.
OneSync == \A s, t \in syncs : s.node = t.node /\ s.req = t.req => s = t

\* What an awaited sync carries is a part of the history up to now.
SyncInv ==
    \A s \in syncs :
        /\ s.kind \in {"copying", "snapshot"} => s.blob.lsn = tab[P].lsn
        /\ s.kind = "snapshot" => s.blob.cells = past[tab[P].lsn + 1]
        /\ s.kind = "delta" => \A i \in 1..Len(s.blob.entries) :
                                  IsStep(s.blob.first + i - 1, s.blob.entries[i])

\* The replicas the request under way has counted have its operation.
CountInv ==
    \A r \in Requests : lock = r =>
        /\ req[r].acked <= Cardinality({n \in Replicas \ req[r].left :
                                            tab[n].lsn >= req[r].lsn})
        /\ req[r].pc = "rows" => req[r].acked = 0
        /\ req[r].pc # "rows" => req[r].need = (Cardinality(Replicas) + 1) \div 2

\* Every write that has passed the role check is answered, with a quorum or
\* without, whatever the replicas do.
Answered == \A r \in Requests : req[r].pc = "queued" ~> req[r].pc = "done"
=============================================================================
