------------------------ MODULE CoordinatorProofs ------------------------
(***************************************************************************)
(* Proofs about Coordinator: its types, for all constants, and, for a      *)
(* cluster of any size in which dead nodes stay dead and at most one call  *)
(* to a live node is lost (FewFaults), that a serving primary stays, that  *)
(* its replicas have prefixes of its log, and that what a majority         *)
(* acknowledged is visible on whichever node serves (FewKills).            *)
(*                                                                         *)
(* Each action is first described by the facts the invariants need of it   *)
(* (Pings, Probes, Chosen, Promotes, Demotes, Adds, Commits, Writes,       *)
(* Forwards, Ends), from which the invariants are then proved one on top   *)
(* of the other: TypeInv, AwakeInv, StartInv, ServeInv, AgreeInv, ListInv, *)
(* FullInv and AckInv.                                                     *)
(***************************************************************************)
EXTENDS Coordinator, FiniteSetTheorems, WellFoundedInduction, TLAPS

-----------------------------------------------------------------------------
(* Numbers and sequences. *)

LessNat == {ss \in Nat \X Nat : ss[1] < ss[2]}

\* A nonempty set of naturals has a least element.
LEMMA LeastNat ==
    ASSUME NEW T \in SUBSET Nat, T # {}
    PROVE  \E x \in T : \A y \in T : x <= y
<1>1. IsWellFoundedOn(LessNat, Nat)
  BY NatLessThanWellFounded, Zenon DEF OpToRel, LessNat
<1>2. PICK x \in T : \A y \in T : ~(<<y, x>> \in LessNat)
  BY <1>1, WFMin
<1>3. \A y \in T : y < x => <<y, x>> \in LessNat
  BY DEF LessNat
<1>4. ASSUME NEW y \in T PROVE x <= y
  <2>1. x \in Nat /\ y \in Nat
    OBVIOUS
  <2>2. ~(y < x)
    BY <1>2, <1>3
  <2> QED BY <2>1, <2>2
<1> QED BY <1>4

\* A set that holds 0 and the successor of each member holds every natural.
LEMMA Induct ==
    ASSUME NEW S, 0 \in S, \A i \in Nat : i \in S => i + 1 \in S
    PROVE  Nat \subseteq S
<1> SUFFICES ASSUME Nat \ S # {} PROVE FALSE
  OBVIOUS
<1>1. PICK x \in Nat \ S : \A y \in Nat \ S : x <= y
  BY LeastNat
<1>2. x # 0 /\ x - 1 \in Nat /\ x - 1 < x /\ (x - 1) + 1 = x
  BY <1>1
<1>3. x - 1 \in S
  BY <1>1, <1>2
<1> QED BY <1>1, <1>2, <1>3

\* A number for each node: there is a bound.
LEMMA Bounded ==
    ASSUME NEW f \in [Nodes -> Nat]
    PROVE  \E u \in Nat : \A n \in Nodes : f[n] <= u
<1>1. PICK k \in Nat : ExistsSurjection(1..k, Nodes)
  BY FS_NatSurjection, NodeAssumption
<1>2. PICK g \in [1..k -> Nodes] : \A n \in Nodes : \E i \in 1..k : g[i] = n
  BY <1>1 DEF ExistsSurjection, Surjection
<1> DEFINE S == {i \in Nat : i <= k => \E u \in Nat : \A j \in 1..i : f[g[j]] <= u}
<1>3. 0 \in S
  <2>1. \A j \in 1..0 : f[g[j]] <= 0
    OBVIOUS
  <2> QED BY <2>1
<1>4. ASSUME NEW i \in Nat, i \in S PROVE i + 1 \in S
  <2> SUFFICES ASSUME i + 1 <= k PROVE \E u \in Nat : \A j \in 1..(i + 1) : f[g[j]] <= u
    OBVIOUS
  <2>1. PICK u \in Nat : \A j \in 1..i : f[g[j]] <= u
    BY <1>4
  <2>2. i + 1 \in 1..k
    OBVIOUS
  <2>3. f[g[i + 1]] \in Nat
    BY <2>2, <1>2
  <2>4. PICK v \in Nat : v >= u /\ v >= f[g[i + 1]]
    BY <2>3
  <2>5. ASSUME NEW j \in 1..(i + 1) PROVE f[g[j]] <= v
    <3>1. j \in 1..i \/ j = i + 1
      OBVIOUS
    <3>2. f[g[j]] \in Nat
      BY <1>2
    <3> QED BY <2>1, <2>4, <3>1, <3>2
  <2> QED BY <2>5
<1>5. Nat \subseteq S
  <2> HIDE DEF S
  <2> QED BY <1>3, <1>4, Induct
<1>6. PICK u \in Nat : \A j \in 1..k : f[g[j]] <= u
  <2>1. k \in S
    <3> HIDE DEF S
    <3> QED BY <1>5
  <2>2. k <= k
    OBVIOUS
  <2> QED BY <2>1, <2>2
<1> QED BY <1>2, <1>6

\* What the largest LSN known is.
LEMMA MaxKnownFacts ==
    ASSUME NEW v \in [Nodes -> TableEntry], NEW S \in SUBSET Nodes
    PROVE  /\ MaxKnown(v, S) \in Nat
           /\ \A n \in S : v[n].lsn <= MaxKnown(v, S)
<1> DEFINE X == {v[n].lsn : n \in S} \cup {0}
<1>1. \A n \in Nodes : v[n].lsn \in Nat
  BY DEF TableEntry
<1>2. PICK u \in Nat : \A n \in Nodes : [m \in Nodes |-> v[m].lsn][n] <= u
  <2>1. [m \in Nodes |-> v[m].lsn] \in [Nodes -> Nat]
    BY <1>1
  <2> QED BY <2>1, Bounded
<1> DEFINE T == {b \in Nat : \A x \in X : x <= b}
<1>3. T \in SUBSET Nat /\ u \in T /\ X \subseteq Nat /\ 0 \in X
  BY <1>1, <1>2
<1>4. PICK b \in T : \A y \in T : b <= y
  <2> HIDE DEF T
  <2> QED BY <1>3, LeastNat
<1>5. b \in X
  <2> SUFFICES ASSUME b \notin X PROVE FALSE
    OBVIOUS
  <2>1. b \in Nat /\ \A x \in X : x <= b
    BY <1>4
  <2>2. b # 0
    OBVIOUS
  <2>3. \A x \in X : x <= b - 1
    <3> HIDE DEF X
    <3> QED BY <2>1, <1>3
  <2>4. b - 1 \in T
    BY <2>1, <2>2, <2>3
  <2> QED BY <2>1, <2>4, <1>4
<1>6. b \in Nat /\ \A x \in X : b >= x
  <2>1. b \in Nat /\ \A x \in X : x <= b
    BY <1>4
  <2> HIDE DEF X
  <2> QED BY <2>1, <1>3
<1>7. Max(X) \in X /\ \A x \in X : Max(X) >= x
  <2> HIDE DEF X
  <2> QED BY <1>5, <1>6 DEF Max
<1>8. MaxKnown(v, S) = Max(X)
  BY DEF MaxKnown, Max0
<1>9. \A n \in S : v[n].lsn \in X
  OBVIOUS
<1> HIDE DEF X
<1> QED BY <1>3, <1>7, <1>8, <1>9

\* A prefix, entry by entry.
LEMMA PrefixFacts ==
    ASSUME NEW S, NEW s \in Seq(S), NEW t \in Seq(S)
    PROVE  IsPrefix(s, t) <=> Len(s) <= Len(t) /\ \A i \in 1..Len(s) : s[i] = t[i]
<1>1. Len(s) \in Nat /\ Len(t) \in Nat /\ s \in [1..Len(s) -> S] /\ t \in [1..Len(t) -> S]
  OBVIOUS
<1>2. SubSeq(s, 1, Len(s)) = s
  OBVIOUS
<1>3. ASSUME Len(s) <= Len(t)
      PROVE  /\ SubSeq(t, 1, Len(s)) \in Seq(S) /\ Len(SubSeq(t, 1, Len(s))) = Len(s)
             /\ \A i \in 1..Len(s) : SubSeq(t, 1, Len(s))[i] = t[i]
  BY <1>1, <1>3
<1>4. ASSUME IsPrefix(s, t) PROVE Len(s) <= Len(t) /\ \A i \in 1..Len(s) : s[i] = t[i]
  BY <1>2, <1>3, <1>4 DEF IsPrefix
<1>5. ASSUME Len(s) <= Len(t), \A i \in 1..Len(s) : s[i] = t[i] PROVE IsPrefix(s, t)
  <2> DEFINE u == SubSeq(t, 1, Len(s))
  <2>1. u \in Seq(S) /\ Len(u) = Len(s) /\ \A i \in 1..Len(s) : u[i] = s[i]
    BY <1>3, <1>5
  <2> HIDE DEF u
  <2>2. u = s
    BY <2>1, <1>1
  <2> QED BY <1>2, <1>5, <2>2 DEF IsPrefix, u
<1> QED BY <1>4, <1>5

-----------------------------------------------------------------------------
(* Types. *)

ProcType == [up : BOOLEAN, pid : 1..(MaxCrash + 1), prim : BOOLEAN,
             reps : SUBSET Nodes, log : Seq(Entry)]
SnapType == UNION {[D -> TableEntry] : D \in SUBSET Nodes}
HbType == [snap : SnapType, dead : SUBSET Nodes, live : SUBSET Nodes]
JobType ==
    [kind : {"none", "rebuild", "elect", "recover", "setup"},
     pc : {"", "probe", "promote", "sync", "add"},
     subj : Nodes \cup {Nil}, prim : Nodes \cup {Nil}, cands : SUBSET Nodes,
     ask : SUBSET (Nodes \X Nodes), lsn : [Nodes -> Nat], fol : [Nodes -> SUBSET Nodes],
     max : Nat, todo : SUBSET Nodes, cur : Nodes \cup {Nil}, ok : BOOLEAN]
ReqType ==
    [pc : {"new", "probed", "target", "queued", "send", "done"},
     node : Nodes \cup {Nil}, got : TableEntry \cup {Nil}, lsn : Nat,
     left : SUBSET Nodes, acked : Nat, need : Nat, undo : BOOLEAN, freed : BOOLEAN,
     result : {"none", "ok", "alone", "no quorum", "unknown"}]

\* The nodes: restarts are counted by the kills before them.
ProcInv ==
    /\ proc \in [Nodes -> ProcType] /\ crashes \in 0..MaxCrash
    /\ \A n \in Nodes :
          /\ n \notin proc[n].reps /\ (~proc[n].up => proc[n].reps = {})
          /\ proc[n].pid <= crashes + (IF proc[n].up THEN 1 ELSE 0)

\* The coordinator's table and the heartbeat round.
TableInv ==
    /\ view \in [Nodes -> TableEntry] /\ head \in Nodes /\ round \in 0..MaxRounds
    /\ hb \in HbType /\ lost \in 0..MaxLost

\* A job knows its primary when it calls it, which is not one of its followers.
JobGood(j) ==
    /\ j \in JobType
    /\ j.kind = "none" => j = NoJob
    /\ j # NoJob => j.pc # ""
    /\ j.pc \in {"promote", "sync", "add"} \/ j.kind = "rebuild" => j.prim \in Nodes
    /\ j.kind = "recover" => j.subj \in Nodes
    /\ j.prim \notin j.todo
    /\ j.pc = "add" => j.cur \in j.todo
    /\ \A c \in Nodes : c \notin j.fol[c]

JobInv ==
    /\ job \in [Threads -> JobType] /\ \A t \in Threads : JobGood(job[t])
    /\ ~Pinged => job["hb"] = NoJob

\* A request that waits for a node has one; no replica acknowledges twice.
ReqGood(q) ==
    /\ q \in ReqType
    /\ q.pc \in {"probed", "target", "queued", "send"} => q.node \in Nodes
    /\ q.pc = "probed" => q.got \in TableEntry
    /\ q.acked + Cardinality(q.left) <= Cardinality(Nodes)

ReqInv ==
    /\ req \in [Requests -> ReqType]
    /\ \A r \in Requests : ReqGood(req[r])
    /\ \A r \in Requests : req[r].pc \in {"queued", "send"} => proc[req[r].node].up

TypeInv == ProcInv /\ TableInv /\ JobInv /\ ReqInv

\* The invariant of the proofs contains the type invariant of the model.
LEMMA InvTypeOK == TypeInv => TypeOK
<1> SUFFICES ASSUME TypeInv PROVE TypeOK
  OBVIOUS
<1>1. /\ proc \in [Nodes -> [up : BOOLEAN, pid : 1..(MaxCrash + 1), prim : BOOLEAN,
                           reps : SUBSET Nodes, log : Seq(Entry)]]
      /\ \A n \in Nodes : n \notin proc[n].reps /\ (~proc[n].up => proc[n].reps = {})
      /\ crashes \in 0..MaxCrash
  BY DEF TypeInv, ProcInv, ProcType
<1>2. /\ view \in [Nodes -> TableEntry] /\ head \in Nodes /\ round \in 0..MaxRounds
      /\ lost \in 0..MaxLost /\ hb \in HbType
  BY DEF TypeInv, TableInv
<1>3. PICK D \in SUBSET Nodes : hb.snap \in [D -> TableEntry]
  BY <1>2 DEF HbType, SnapType
<1>4. /\ DOMAIN hb.snap \cup hb.dead \cup hb.live \subseteq Nodes
      /\ \A n \in DOMAIN hb.snap : hb.snap[n] \in TableEntry
  BY <1>2, <1>3 DEF HbType
<1>5. /\ ~Pinged => job["hb"] = NoJob
      /\ \A t \in Threads :
          /\ job[t].kind \in {"none", "rebuild", "elect", "recover", "setup"}
          /\ job[t].pc \in {"", "probe", "promote", "sync", "add"}
          /\ job[t].pc \in {"promote", "sync", "add"} => job[t].prim \in Nodes
          /\ job[t].pc = "add" => job[t].cur \in job[t].todo
  BY DEF TypeInv, JobInv, JobGood, JobType
<1>6. ASSUME NEW r \in Requests
      PROVE  /\ req[r].pc \in {"new", "probed", "target", "queued", "send", "done"}
             /\ req[r].pc \in {"queued", "send"} => proc[req[r].node].up
             /\ req[r].left \subseteq Nodes /\ req[r].acked <= Cardinality(Nodes)
  <2>1. ReqGood(req[r]) /\ (req[r].pc \in {"queued", "send"} => proc[req[r].node].up)
    BY DEF TypeInv, ReqInv
  <2>2. req[r].left \in SUBSET Nodes /\ req[r].acked \in Nat
    BY <2>1 DEF ReqGood, ReqType
  <2>3. Cardinality(req[r].left) \in Nat /\ Cardinality(Nodes) \in Nat
    BY <2>2, FS_Subset, FS_CardinalityType, NodeAssumption
  <2>4. req[r].acked + Cardinality(req[r].left) <= Cardinality(Nodes)
    BY <2>1 DEF ReqGood
  <2>5. req[r].acked <= Cardinality(Nodes)
    BY <2>2, <2>3, <2>4
  <2>6. req[r].pc \in {"new", "probed", "target", "queued", "send", "done"}
    BY <2>1 DEF ReqGood, ReqType
  <2> QED BY <2>1, <2>2, <2>5, <2>6
<1> QED BY <1>1, <1>2, <1>4, <1>5, <1>6 DEF TypeOK

\* An entry that a probe yields.
LEMMA FreshType ==
    ASSUME ProcInv, NEW n \in Nodes
    PROVE  Fresh(n) \in TableEntry /\ Lsn(n) \in Nat /\ Fresh(n).lsn = Lsn(n)
           /\ Fresh(n).alive /\ ~Fresh(n).down /\ Fresh(n).missed = 0
           /\ Fresh(n).pid = proc[n].pid
<1>1. proc[n] \in ProcType
  BY DEF ProcInv
<1>2. Lsn(n) \in Nat /\ proc[n].pid \in 0..(MaxCrash + 1)
  BY <1>1, BoundAssumption DEF ProcType, Lsn
<1> QED BY <1>2, BoundAssumption DEF Fresh, TableEntry

\* A thread without a reconfiguration has a job of the right shape.
LEMMA NoJobType == JobGood(NoJob) /\ NoJob.kind = "none" /\ NoJob.pc = ""
  BY NodeAssumption DEF NoJob, JobGood, JobType

\* A call changes the count of lost calls by one at most.
LEMMA CallTypes ==
    ASSUME lost \in 0..MaxLost, NEW n, Reached(n) \/ Missed(n)
    PROVE  lost' \in 0..MaxLost /\ (lost' = lost \/ (proc[n].up /\ lost' = lost + 1 /\ lost < MaxLost))
  BY BoundAssumption DEF Reached, Missed

-----------------------------------------------------------------------------
(* What happens on the nodes. *)

\* Only node n is touched, and its process stays what it is.
Touches(n) ==
    /\ proc' \in [Nodes -> ProcType]
    /\ \A m \in Nodes \ {n} : proc'[m] = proc[m]
    /\ proc'[n].up = proc[n].up /\ proc'[n].pid = proc[n].pid

\* Requests only learn that their replicas are gone.
Marks ==
    /\ req' \in [Requests -> ReqType]
    /\ \A r \in Requests :
          /\ req'[r].pc = req[r].pc /\ req'[r].node = req[r].node /\ req'[r].got = req[r].got
          /\ req'[r].lsn = req[r].lsn /\ req'[r].left = req[r].left
          /\ req'[r].acked = req[r].acked /\ req'[r].need = req[r].need
          /\ req'[r].undo = req[r].undo /\ req'[r].result = req[r].result

\* rs are the requests as they are, except that some have learnt that.
Like(rs) ==
    /\ rs \in [Requests -> ReqType]
    /\ \A r \in Requests :
          /\ rs[r].pc = req[r].pc /\ rs[r].node = req[r].node /\ rs[r].got = req[r].got
          /\ rs[r].lsn = req[r].lsn /\ rs[r].left = req[r].left
          /\ rs[r].acked = req[r].acked /\ rs[r].need = req[r].need
          /\ rs[r].undo = req[r].undo /\ rs[r].result = req[r].result

\* clear_replicas tells the sending requests of a node, and changes nothing else.
LEMMA FreedLike ==
    ASSUME ReqInv, NEW n
    PROVE  Like(Freed(n)) /\ Like(req)
<1>1. ASSUME NEW r \in Requests
      PROVE  /\ Freed(n)[r] \in ReqType
             /\ Freed(n)[r].pc = req[r].pc /\ Freed(n)[r].node = req[r].node
             /\ Freed(n)[r].got = req[r].got /\ Freed(n)[r].lsn = req[r].lsn
             /\ Freed(n)[r].left = req[r].left /\ Freed(n)[r].acked = req[r].acked
             /\ Freed(n)[r].need = req[r].need /\ Freed(n)[r].undo = req[r].undo
             /\ Freed(n)[r].result = req[r].result
  <2>1. req[r] \in ReqType
    BY DEF ReqInv
  <2> DEFINE q == [req[r] EXCEPT !.freed = TRUE]
  <2>2. /\ q \in ReqType /\ q.pc = req[r].pc /\ q.node = req[r].node /\ q.got = req[r].got
        /\ q.lsn = req[r].lsn /\ q.left = req[r].left /\ q.acked = req[r].acked
        /\ q.need = req[r].need /\ q.undo = req[r].undo /\ q.result = req[r].result
    BY <2>1 DEF ReqType
  <2>3. Freed(n)[r] = q \/ Freed(n)[r] = req[r]
    BY DEF Freed
  <2> HIDE DEF q
  <2> QED BY <2>1, <2>2, <2>3
<1>2. Freed(n) = [r \in Requests |-> Freed(n)[r]]
  BY DEF Freed
<1>3. Freed(n) \in [Requests -> ReqType]
  BY <1>1, <1>2
<1> QED BY <1>1, <1>3 DEF Like, ReqInv

\* The same, as the effect of a step on the requests.
LEMMA FreedMarks ==
    ASSUME ReqInv, NEW n, req' = Freed(n)
    PROVE  Marks
  BY FreedLike DEF Like, Marks

\* Requests that change no more than that stay good as long as no process ends.
LEMMA MarksReq ==
    ASSUME ReqInv, Marks \/ req' = req, \A n \in Nodes : proc[n].up => proc'[n].up
    PROVE  ReqInv'
<1>1. ASSUME NEW r \in Requests
      PROVE  ReqGood(req'[r]) /\ (req'[r].pc \in {"queued", "send"} => proc'[req'[r].node].up)
  <2>1. ReqGood(req[r]) /\ (req[r].pc \in {"queued", "send"} => proc[req[r].node].up)
    BY DEF ReqInv
  <2>2. req[r].pc \in {"queued", "send"} => req[r].node \in Nodes
    BY <2>1 DEF ReqGood
  <2>3. CASE req' = req
    BY <2>1, <2>2, <2>3
  <2>4. CASE Marks
    <3>1. ReqGood(req'[r])
      BY <2>1, <2>4 DEF Marks, ReqGood
    <3> QED BY <3>1, <2>1, <2>2, <2>4 DEF Marks
  <2> QED BY <2>3, <2>4
<1>2. req' \in [Requests -> ReqType]
  BY DEF Marks, ReqInv
<1> QED BY <1>1, <1>2 DEF ReqInv

\* BECOME_PRIMARY changes one node, whose log stays.
LEMMA BecomePrimary ==
    ASSUME ProcInv, ReqInv, NEW n \in Nodes, become_primary(n)
    PROVE  /\ Touches(n) /\ Marks
           /\ proc'[n].prim /\ proc'[n].reps = {} /\ proc'[n].log = proc[n].log
<1>1. proc \in [Nodes -> ProcType] /\ proc[n] \in ProcType
  BY DEF ProcInv
<1> DEFINE p == [proc[n] EXCEPT !.prim = TRUE, !.reps = {}]
<1>2. /\ p \in ProcType /\ p.prim /\ p.reps = {} /\ p.log = proc[n].log
      /\ p.up = proc[n].up /\ p.pid = proc[n].pid
  BY <1>1 DEF ProcType
<1>3. proc' = [proc EXCEPT ![n] = p]
  BY <1>1 DEF become_primary
<1> HIDE DEF p
<1>4. Marks
  BY FreedMarks DEF become_primary
<1> QED BY <1>1, <1>2, <1>3, <1>4 DEF Touches

\* ADD_REPLICA changes the list of one node.
LEMMA AddReplica ==
    ASSUME ProcInv, NEW n \in Nodes, NEW f \in Nodes, add_replica(n, f)
    PROVE  /\ Touches(n) /\ proc'[n].prim = proc[n].prim /\ proc'[n].log = proc[n].log
           /\ proc'[n].reps = proc[n].reps \cup {f}
<1>1. proc \in [Nodes -> ProcType] /\ proc[n] \in ProcType
  BY DEF ProcInv
<1> DEFINE p == [proc[n] EXCEPT !.reps = @ \cup {f}]
<1>2. /\ p \in ProcType /\ p.prim = proc[n].prim /\ p.reps = proc[n].reps \cup {f}
      /\ p.log = proc[n].log /\ p.up = proc[n].up /\ p.pid = proc[n].pid
  BY <1>1 DEF ProcType
<1>3. proc' = [proc EXCEPT ![n] = p]
  BY <1>1 DEF add_replica
<1> HIDE DEF p
<1> QED BY <1>1, <1>2, <1>3 DEF Touches

\* What a sync makes of a log.
LEMMA SyncedType ==
    ASSUME NEW f \in Seq(Entry), NEW p \in Seq(Entry), NEW l \in Synced(f, p)
    PROVE  /\ l \in Seq(Entry)
           /\ Len(f) = Len(p) => l = f
           /\ Len(l) = Len(p)
           /\ IsPrefix(f, p) => l = p
<1>1. Len(f) \in Nat /\ Len(p) \in Nat
  OBVIOUS
<1>2. CASE Len(f) = Len(p)
  <2>1. l = f
    BY <1>2 DEF Synced
  <2>2. IsPrefix(f, p) => f = p
    BY <1>2, PrefixFacts
  <2> QED BY <1>2, <2>1, <2>2
<1>3. CASE Len(f) < Len(p)
  <2> DEFINE x == SubSeq(p, Len(f) + 1, Len(p))
  <2>1. /\ x \in Seq(Entry) /\ Len(x) = Len(p) - Len(f)
        /\ \A i \in 1..(Len(p) - Len(f)) : x[i] = p[Len(f) + i]
    BY <1>1, <1>3
  <2>2. l = f \o x \/ l = p
    BY <1>1, <1>3 DEF Synced
  <2> HIDE DEF x
  <2> DEFINE y == f \o x
  <2>3. /\ y \in Seq(Entry) /\ Len(y) = Len(p)
        /\ \A i \in 1..Len(f) : y[i] = f[i]
        /\ \A i \in 1..(Len(p) - Len(f)) : y[Len(f) + i] = x[i]
    BY <2>1, <1>1
  <2> HIDE DEF y
  <2>4. ASSUME IsPrefix(f, p) PROVE y = p
    <3>1. \A i \in 1..Len(f) : f[i] = p[i]
      BY <2>4, PrefixFacts
    <3>2. ASSUME NEW i \in 1..Len(p) PROVE y[i] = p[i]
      <4>1. i \in 1..Len(f) \/ i - Len(f) \in 1..(Len(p) - Len(f))
        BY <1>1
      <4>2. Len(f) + (i - Len(f)) = i
        BY <1>1
      <4> QED BY <4>1, <4>2, <3>1, <2>1, <2>3
    <3>3. Len(y) = Len(p) /\ y \in Seq(Entry)
      BY <2>3
    <3> QED BY <3>2, <3>3
  <2>5. l = y \/ l = p
    BY <2>2 DEF y
  <2> QED BY <1>3, <1>1, <2>3, <2>4, <2>5
<1>4. CASE Len(f) > Len(p)
  <2>1. l = p
    BY <1>1, <1>4 DEF Synced
  <2> QED BY <2>1, <1>1, <1>4
<1> QED BY <1>1, <1>2, <1>3, <1>4

\* BECOME_SECONDARY changes one node, whose log stays or comes from a sync.
LEMMA BecomeSecondary ==
    ASSUME ProcInv, ReqInv, NEW n \in Nodes, NEW p \in Nodes, NEW s \in BOOLEAN,
           become_secondary(n, p, s)
    PROVE  /\ Touches(n) /\ Marks
           /\ ~proc'[n].prim /\ proc'[n].reps = {}
           /\ \/ proc'[n].log = proc[n].log
              \/ s /\ proc'[n].log \in Synced(proc[n].log, proc[p].log)
<1>1. proc \in [Nodes -> ProcType] /\ proc[n] \in ProcType /\ proc[p] \in ProcType
  BY DEF ProcInv
<1>2. PICK l \in (IF s THEN Synced(proc[n].log, proc[p].log) ELSE {proc[n].log}) :
         proc' = [proc EXCEPT ![n].prim = FALSE, ![n].reps = {}, ![n].log = l]
  BY DEF become_secondary
<1>3. proc[n].log \in Seq(Entry) /\ proc[p].log \in Seq(Entry)
  BY <1>1 DEF ProcType
<1>4. l \in Seq(Entry)
  BY <1>2, <1>3, SyncedType
<1> DEFINE q == [proc[n] EXCEPT !.prim = FALSE, !.reps = {}, !.log = l]
<1>5. /\ q \in ProcType /\ q.prim = FALSE /\ q.reps = {} /\ q.log = l
      /\ q.up = proc[n].up /\ q.pid = proc[n].pid
  BY <1>1, <1>4 DEF ProcType
<1>6. proc' = [proc EXCEPT ![n] = q]
  BY <1>1, <1>2
<1> HIDE DEF q
<1>7. Marks
  BY FreedMarks DEF become_secondary
<1>8. proc'[n] = q
  BY <1>1, <1>6
<1>9. Touches(n)
  BY <1>1, <1>5, <1>6, <1>8 DEF Touches
<1> QED BY <1>2, <1>5, <1>7, <1>8, <1>9

\* The process of a node ends.
Ends(n) ==
    /\ proc' \in [Nodes -> ProcType] /\ req' \in [Requests -> ReqType]
    /\ \A m \in Nodes \ {n} : proc'[m] = proc[m]
    /\ ~proc'[n].up /\ ~proc'[n].prim /\ proc'[n].reps = {}
    /\ proc'[n].pid = proc[n].pid /\ proc'[n].log = proc[n].log
    /\ crashes < MaxCrash /\ crashes' = crashes + 1
    /\ \A r \in Requests :
          IF req[r].pc \in {"queued", "send"} /\ req[r].node = n
          THEN /\ req'[r].pc = "done" /\ req'[r].result = "unknown"
               /\ req'[r].left = req[r].left /\ req'[r].acked = req[r].acked
          ELSE req'[r] = req[r]

\* The end of a process ends the requests it serves, and leaves its log.
LEMMA StopEnds ==
    ASSUME ProcInv, ReqInv, NEW n \in Nodes, Stop(n)
    PROVE  Ends(n)
<1>1. proc \in [Nodes -> ProcType] /\ proc[n] \in ProcType
  BY DEF ProcInv
<1> DEFINE p == [proc[n] EXCEPT !.up = FALSE, !.prim = FALSE, !.reps = {}]
<1>2. /\ p \in ProcType /\ p.prim = FALSE /\ p.up = FALSE /\ p.reps = {}
      /\ p.log = proc[n].log /\ p.pid = proc[n].pid
  BY <1>1 DEF ProcType
<1>3. proc' = [proc EXCEPT ![n] = p]
  BY <1>1 DEF Stop
<1> HIDE DEF p
<1>4. /\ proc' \in [Nodes -> ProcType] /\ \A m \in Nodes \ {n} : proc'[m] = proc[m]
      /\ ~proc'[n].up /\ ~proc'[n].prim /\ proc'[n].reps = {}
      /\ proc'[n].pid = proc[n].pid /\ proc'[n].log = proc[n].log
  BY <1>1, <1>2, <1>3
<1> DEFINE q(r) == [req[r] EXCEPT !.pc = "done", !.result = "unknown"]
<1>5. ASSUME NEW r \in Requests
      PROVE  /\ req[r] \in ReqType
             /\ q(r) \in ReqType /\ q(r).pc = "done" /\ q(r).result = "unknown"
             /\ q(r).left = req[r].left /\ q(r).acked = req[r].acked
  <2>1. req[r] \in ReqType
    BY DEF ReqInv
  <2>2. q(r) \in ReqType
    BY <2>1 DEF ReqType
  <2>3. /\ q(r).pc = "done" /\ q(r).result = "unknown"
        /\ q(r).left = req[r].left /\ q(r).acked = req[r].acked
    BY <2>1 DEF ReqType
  <2> QED BY <2>1, <2>2, <2>3
<1>6. req' = [r \in Requests |->
                  IF req[r].pc \in {"queued", "send"} /\ req[r].node = n
                  THEN q(r) ELSE req[r]]
  BY DEF Stop
<1> HIDE DEF q
<1>7. req' \in [Requests -> ReqType]
  BY <1>5, <1>6
<1>8. \A r \in Requests :
          IF req[r].pc \in {"queued", "send"} /\ req[r].node = n
          THEN /\ req'[r].pc = "done" /\ req'[r].result = "unknown"
               /\ req'[r].left = req[r].left /\ req'[r].acked = req[r].acked
          ELSE req'[r] = req[r]
  BY <1>5, <1>6
<1> QED BY <1>4, <1>7, <1>8 DEF Ends, Stop

-----------------------------------------------------------------------------
(* What happens to a request. *)

\* A request that starts again has the right shape.
LEMMA IdleType ==
    /\ Idle \in ReqType /\ Idle.pc = "new" /\ Idle.left = {} /\ Idle.acked = 0
    /\ Idle.result = "none" /\ Idle.node = Nil /\ Idle.undo = FALSE
  BY DEF Idle, ReqType

\* A request without replicas to wait for is good.
LEMMA EmptyGood ==
    ASSUME NEW q \in ReqType, q.left = {}, q.acked = 0,
           q.pc \in {"probed", "target", "queued", "send"} => q.node \in Nodes,
           q.pc = "probed" => q.got \in TableEntry
    PROVE  ReqGood(q)
<1>1. Cardinality({}) = 0 /\ Cardinality(Nodes) \in Nat
  BY FS_EmptySet, FS_CardinalityType, NodeAssumption
<1>2. 0 + 0 <= Cardinality(Nodes)
  BY <1>1
<1> QED BY <1>1, <1>2 DEF ReqGood

\* Only request r changes, to a good request that is queued or sent at a live
\* node or nowhere.
LEMMA OneRequest ==
    ASSUME ReqInv, NEW r \in Requests, NEW q, req' = [req EXCEPT ![r] = q], ReqGood(q),
           q.pc \in {"queued", "send"} => proc'[q.node].up,
           \A n \in Nodes : proc[n].up => proc'[n].up
    PROVE  ReqInv'
<1>1. req \in [Requests -> ReqType] /\ q \in ReqType
  BY DEF ReqInv, ReqGood
<1>2. req'[r] = q /\ \A s \in Requests \ {r} : req'[s] = req[s]
  BY <1>1
<1>3. req' \in [Requests -> ReqType]
  BY <1>1
<1>4. \A s \in Requests \ {r} : ReqGood(req[s]) /\ (req[s].pc \in {"queued", "send"} => proc[req[s].node].up)
  BY DEF ReqInv
<1>5. \A s \in Requests \ {r} : req[s].pc \in {"queued", "send"} => req[s].node \in Nodes
  BY <1>4 DEF ReqGood
<1>6. \A s \in Requests : ReqGood(req'[s])
  BY <1>2, <1>4
<1>7. \A s \in Requests : req'[s].pc \in {"queued", "send"} => proc'[req'[s].node].up
  BY <1>2, <1>4, <1>5
<1> QED BY <1>3, <1>6, <1>7 DEF ReqInv

\* Request r writes an entry on its node n and is answered, or waits for
\* replicas.
Writes(r, n, undo) ==
    /\ Touches(n)
    /\ proc'[n].prim = proc[n].prim /\ proc'[n].reps = proc[n].reps
    /\ proc'[n].log = Append(proc[n].log, [op |-> r, undo |-> undo])
    /\ \A s \in Requests \ {r} : req'[s] = req[s]
    /\ req'[r].left \in {{}, proc[n].reps} /\ req'[r].acked = 0
    /\ \/ /\ req'[r].pc = "done" /\ req'[r].result = IF undo THEN "no quorum" ELSE "alone"
       \/ /\ req'[r].pc = "send" /\ req'[r].node = n /\ req'[r].lsn = Lsn(n) + 1
          /\ req'[r].need >= 1 /\ req'[r].undo = undo /\ req'[r].result = "none"
          /\ req'[r].need = (Cardinality(proc[n].reps) + 1) \div 2

SendReq(n, l, R, k, u) == [Idle EXCEPT !.pc = "send", !.node = n, !.lsn = l, !.left = R,
                                       !.need = k, !.undo = u]

\* So has a request whose thread sends the operation.
LEMMA SendType ==
    ASSUME NEW n \in Nodes, NEW l \in Nat, NEW R \in SUBSET Nodes, NEW k \in Nat,
           NEW u \in BOOLEAN
    PROVE  /\ SendReq(n, l, R, k, u) \in ReqType /\ SendReq(n, l, R, k, u).pc = "send"
           /\ SendReq(n, l, R, k, u).left = R /\ SendReq(n, l, R, k, u).acked = 0
           /\ SendReq(n, l, R, k, u).node = n /\ SendReq(n, l, R, k, u).lsn = l
           /\ SendReq(n, l, R, k, u).need = k /\ SendReq(n, l, R, k, u).undo = u
           /\ SendReq(n, l, R, k, u).result = "none"
  BY DEF SendReq, Idle, ReqType

\* A write or its undoing: one entry, and the replicas to send it to.
LEMMA AppendWrites ==
    ASSUME ProcInv, ReqInv, NEW r \in Requests, NEW n \in Nodes, n = req[r].node,
           proc[n].up, NEW undo \in BOOLEAN, AppendEntry(r, undo)
    PROVE  Writes(r, n, undo) /\ ReqInv'
<1> DEFINE need == (Cardinality(proc[n].reps) + 1) \div 2
           e == [op |-> r, undo |-> undo]
           a == [Idle EXCEPT !.pc = "done", !.result = IF undo THEN "no quorum" ELSE "alone"]
           b == [Idle EXCEPT !.pc = "send", !.node = n, !.lsn = Lsn(n) + 1,
                             !.left = proc[n].reps, !.need = need, !.undo = undo]
           q == IF need = 0 THEN a ELSE b
<1>1. proc \in [Nodes -> ProcType] /\ proc[n] \in ProcType
  BY DEF ProcInv
<1>2. proc[n].log \in Seq(Entry) /\ proc[n].reps \in SUBSET Nodes /\ Lsn(n) \in Nat
  BY <1>1 DEF ProcType, Lsn
<1>3. /\ Cardinality(proc[n].reps) \in Nat /\ Cardinality(Nodes) \in Nat
      /\ Cardinality(proc[n].reps) <= Cardinality(Nodes)
  BY <1>2, FS_Subset, FS_CardinalityType, NodeAssumption
<1>4. need \in Nat
  BY <1>3
<1>5. e \in Entry
  BY DEF Entry
<1>6. Append(proc[n].log, e) \in Seq(Entry)
  BY <1>2, <1>5
<1> DEFINE p == [proc[n] EXCEPT !.log = Append(@, e)]
<1>7. /\ p \in ProcType /\ p.prim = proc[n].prim /\ p.reps = proc[n].reps
      /\ p.log = Append(proc[n].log, e) /\ p.up = proc[n].up /\ p.pid = proc[n].pid
  BY <1>1, <1>6 DEF ProcType
<1>8. proc' = [proc EXCEPT ![n] = p]
  BY <1>1 DEF AppendEntry
<1>9. req' = [req EXCEPT ![r] = q]
  BY DEF AppendEntry
<1>10. /\ a \in ReqType /\ a.pc = "done" /\ a.left = {} /\ a.acked = 0
       /\ a.result = IF undo THEN "no quorum" ELSE "alone"
  BY DEF Idle, ReqType
<1> HIDE DEF need
<1>11. /\ b \in ReqType /\ b.pc = "send" /\ b.left = proc[n].reps /\ b.acked = 0
       /\ b.node = n /\ b.lsn = Lsn(n) + 1 /\ b.need = need /\ b.undo = undo
       /\ b.result = "none"
  <2>1. Lsn(n) + 1 \in Nat
    BY <1>2
  <2>2. b = SendReq(n, Lsn(n) + 1, proc[n].reps, need, undo)
    BY DEF SendReq
  <2> HIDE DEF b
  <2> QED BY <1>2, <1>4, <2>1, <2>2, SendType
<1> HIDE DEF p, a, b
<1>12. ReqGood(a)
  BY <1>10, EmptyGood
<1>13. ReqGood(b)
  <2>1. b.acked + Cardinality(b.left) <= Cardinality(Nodes)
    BY <1>3, <1>11
  <2> QED BY <1>11, <2>1 DEF ReqGood
<1>14. Touches(n) /\ proc'[n] = p
  BY <1>1, <1>7, <1>8 DEF Touches
<1>15. \A m \in Nodes : proc[m].up => proc'[m].up
  BY <1>14 DEF Touches
<1>16. ReqGood(q) /\ (q.pc \in {"queued", "send"} => proc'[q.node].up)
  BY <1>10, <1>11, <1>12, <1>13, <1>15
<1>17. ReqInv'
  BY <1>9, <1>15, <1>16, OneRequest
<1>18. req \in [Requests -> ReqType]
  BY DEF ReqInv
<1>19. req'[r] = q /\ \A s \in Requests \ {r} : req'[s] = req[s]
  BY <1>9, <1>18
<1>20. (need # 0 => need >= 1) /\ need = (Cardinality(proc[n].reps) + 1) \div 2
  BY <1>4 DEF need
<1>21. /\ req'[r].left \in {{}, proc[n].reps} /\ req'[r].acked = 0
       /\ \/ /\ req'[r].pc = "done" /\ req'[r].result = IF undo THEN "no quorum" ELSE "alone"
          \/ /\ req'[r].pc = "send" /\ req'[r].node = n /\ req'[r].lsn = Lsn(n) + 1
             /\ req'[r].need >= 1 /\ req'[r].undo = undo /\ req'[r].result = "none"
             /\ req'[r].need = (Cardinality(proc[n].reps) + 1) \div 2
  BY <1>10, <1>11, <1>19, <1>20
<1> QED BY <1>7, <1>14, <1>17, <1>19, <1>21 DEF Writes

\* Request r is done with replica f: the operation is in its log, or is not.
Forwards(r, f) ==
    LET e == [op |-> r, undo |-> req[r].undo]
    IN  /\ Touches(f)
        /\ \/ proc'[f] = proc[f] /\ req'[r].acked = req[r].acked
           \/ /\ \/ /\ proc'[f].prim = proc[f].prim /\ proc'[f].reps = proc[f].reps
                    /\ Accepts(proc[f].log, req[r].lsn)
                    /\ proc'[f].log = Applied(proc[f].log, req[r].lsn, e)
                 \/ /\ ~proc'[f].prim /\ proc'[f].reps = {}
                    /\ \E l \in Synced(proc[f].log, proc[req[r].node].log) :
                          /\ proc'[f].log = Applied(l, req[r].lsn, e)
                          /\ req'[r].acked # req[r].acked => Accepts(l, req[r].lsn)
              /\ proc[f].up
        /\ lost' = lost \/ (lost < MaxLost /\ lost' = lost + 1)
        /\ req' \in [Requests -> ReqType]
        /\ req'[r].left = req[r].left \ {f}
        /\ req'[r].acked \in {req[r].acked, req[r].acked + 1}
        /\ \A s \in Requests :
              /\ req'[s].pc = req[s].pc /\ req'[s].node = req[s].node /\ req'[s].got = req[s].got
              /\ req'[s].lsn = req[s].lsn /\ req'[s].need = req[s].need
              /\ req'[s].undo = req[s].undo /\ req'[s].result = req[s].result
              /\ s # r => req'[s].left = req[s].left /\ req'[s].acked = req[s].acked

\* The thread of r is done with f.
LEMMA SentFacts ==
    ASSUME ReqInv, NEW r \in Requests, NEW f \in Nodes, f \in req[r].left,
           NEW rs, Like(rs), NEW k \in {0, 1},
           req' = [rs EXCEPT ![r].left = @ \ {f}, ![r].acked = @ + k],
           \A n \in Nodes : proc[n].up => proc'[n].up
    PROVE  /\ ReqInv'
           /\ req' \in [Requests -> ReqType]
           /\ req'[r].left = req[r].left \ {f} /\ req'[r].acked = req[r].acked + k
           /\ \A s \in Requests :
              /\ req'[s].pc = req[s].pc /\ req'[s].node = req[s].node /\ req'[s].got = req[s].got
              /\ req'[s].lsn = req[s].lsn /\ req'[s].need = req[s].need
              /\ req'[s].undo = req[s].undo /\ req'[s].result = req[s].result
              /\ s # r => req'[s].left = req[s].left /\ req'[s].acked = req[s].acked
<1>1. rs \in [Requests -> ReqType] /\ rs[r] \in ReqType
  BY DEF Like
<1> DEFINE q == [rs[r] EXCEPT !.left = @ \ {f}, !.acked = @ + k]
<1>2. rs[r].left \in SUBSET Nodes /\ rs[r].acked \in Nat
  BY <1>1 DEF ReqType
<1>3. rs[r].acked + k \in Nat
  BY <1>2
<1>4. /\ q \in ReqType /\ q.left = rs[r].left \ {f} /\ q.acked = rs[r].acked + k
      /\ q.pc = rs[r].pc /\ q.node = rs[r].node /\ q.got = rs[r].got /\ q.lsn = rs[r].lsn
      /\ q.need = rs[r].need /\ q.undo = rs[r].undo /\ q.result = rs[r].result
  BY <1>1, <1>2, <1>3 DEF ReqType
<1>5. req' = [rs EXCEPT ![r] = q]
  BY <1>1
<1> HIDE DEF q
<1>6. req' \in [Requests -> ReqType] /\ req'[r] = q /\ \A s \in Requests \ {r} : req'[s] = rs[s]
  BY <1>1, <1>4, <1>5
<1>7. /\ req'[r].left = req[r].left \ {f} /\ req'[r].acked = req[r].acked + k
      /\ \A s \in Requests :
              /\ req'[s].pc = req[s].pc /\ req'[s].node = req[s].node /\ req'[s].got = req[s].got
              /\ req'[s].lsn = req[s].lsn /\ req'[s].need = req[s].need
              /\ req'[s].undo = req[s].undo /\ req'[s].result = req[s].result
              /\ s # r => req'[s].left = req[s].left /\ req'[s].acked = req[s].acked
  BY <1>4, <1>6 DEF Like
<1>8. ASSUME NEW s \in Requests
      PROVE  ReqGood(req'[s]) /\ (req'[s].pc \in {"queued", "send"} => proc'[req'[s].node].up)
  <2>1. ReqGood(req[s]) /\ (req[s].pc \in {"queued", "send"} => proc[req[s].node].up)
    BY DEF ReqInv
  <2>2. req[s].pc \in {"queued", "send"} => req[s].node \in Nodes
    BY <2>1 DEF ReqGood
  <2>3. req[s].left \in SUBSET Nodes /\ req[s].acked \in Nat /\ req'[s] \in ReqType
    BY <2>1, <1>6 DEF ReqGood, ReqType
  <2>4. /\ IsFiniteSet(req[s].left) /\ Cardinality(req[s].left) \in Nat
        /\ Cardinality(Nodes) \in Nat
    BY <2>3, FS_Subset, FS_CardinalityType, NodeAssumption
  <2>5. s = r => Cardinality(req[s].left \ {f}) = Cardinality(req[s].left) - 1
    BY <2>4, FS_RemoveElement
  <2>6. req[s].acked + Cardinality(req[s].left) <= Cardinality(Nodes)
    BY <2>1 DEF ReqGood
  <2>7. req'[s].acked + Cardinality(req'[s].left) <= Cardinality(Nodes)
    <3>1. CASE s = r
      <4>1. Cardinality(req'[s].left) = Cardinality(req[s].left) - 1
        BY <3>1, <1>7, <2>5
      <4>2. req'[s].acked = req[s].acked + k
        BY <3>1, <1>7
      <4> QED BY <4>1, <4>2, <2>3, <2>4, <2>6
    <3>2. CASE s # r
      BY <3>2, <1>7, <2>6
    <3> QED BY <3>1, <3>2
  <2>8. ReqGood(req'[s])
    BY <2>1, <2>3, <2>7, <1>7 DEF ReqGood
  <2> QED BY <2>1, <2>2, <2>8, <1>7
<1>9. ReqInv'
  BY <1>6, <1>8 DEF ReqInv
<1> QED BY <1>6, <1>7, <1>9

\* An operation that is applied is in the log.
LEMMA AppliedType ==
    ASSUME NEW l \in Seq(Entry), NEW k \in Nat, NEW e \in Entry
    PROVE  /\ Applied(l, k, e) \in Seq(Entry)
           /\ Len(Applied(l, k, e)) >= Len(l)
           /\ Accepts(l, k) => Len(Applied(l, k, e)) >= k
           /\ Applied(l, k, e) = l \/ (k = Len(l) + 1 /\ Applied(l, k, e) = Append(l, e))
  BY DEF Applied, Accepts

\* forward_to_all at one replica: what becomes of the replica and of the request.
LEMMA ForwardFacts ==
    ASSUME ProcInv, ReqInv, TableInv, NEW r \in Requests, NEW f \in Nodes,
           forward_to_replica(r, f)
    PROVE  Forwards(r, f) /\ ReqInv'
<1> DEFINE n == req[r].node
           e == [op |-> r, undo |-> req[r].undo]
           lsn == req[r].lsn
           Sent(rs, a) == req' = [rs EXCEPT ![r].left = @ \ {f},
                                            ![r].acked = @ + IF a THEN 1 ELSE 0]
<1>1. req[r].pc = "send" /\ f \in req[r].left
  BY DEF forward_to_replica
<1>2. ReqGood(req[r]) /\ req[r] \in ReqType
  BY DEF ReqInv
<1>3. n \in Nodes /\ lsn \in Nat /\ e \in Entry /\ req[r].acked \in Nat
  BY <1>1, <1>2 DEF ReqGood, ReqType, Entry
<1>4. proc \in [Nodes -> ProcType] /\ proc[n] \in ProcType /\ proc[f] \in ProcType
  BY <1>3 DEF ProcInv
<1>5. proc[n].log \in Seq(Entry) /\ proc[f].log \in Seq(Entry)
  BY <1>4 DEF ProcType
<1>6. lost \in 0..MaxLost
  BY DEF TableInv
<1>7. ASSUME NEW rs, Like(rs), NEW a \in BOOLEAN, Sent(rs, a), Touches(f)
      PROVE  /\ ReqInv' /\ req' \in [Requests -> ReqType]
             /\ req'[r].left = req[r].left \ {f}
             /\ req'[r].acked \in {req[r].acked, req[r].acked + 1}
             /\ (~a <=> req'[r].acked = req[r].acked)
             /\ \A s \in Requests :
              /\ req'[s].pc = req[s].pc /\ req'[s].node = req[s].node /\ req'[s].got = req[s].got
              /\ req'[s].lsn = req[s].lsn /\ req'[s].need = req[s].need
              /\ req'[s].undo = req[s].undo /\ req'[s].result = req[s].result
              /\ s # r => req'[s].left = req[s].left /\ req'[s].acked = req[s].acked
  <2>1. PICK k \in {0, 1} : k = IF a THEN 1 ELSE 0
    OBVIOUS
  <2>2. req' = [rs EXCEPT ![r].left = @ \ {f}, ![r].acked = @ + k]
    BY <1>7, <2>1
  <2>3. \A m \in Nodes : proc[m].up => proc'[m].up
    BY <1>7 DEF Touches
  <2>4. k = 0 <=> req[r].acked + k = req[r].acked
    BY <1>3
  <2> HIDE DEF Sent
  <2>5. /\ ReqInv' /\ req' \in [Requests -> ReqType]
        /\ req'[r].left = req[r].left \ {f} /\ req'[r].acked = req[r].acked + k
        /\ \A s \in Requests :
              /\ req'[s].pc = req[s].pc /\ req'[s].node = req[s].node /\ req'[s].got = req[s].got
              /\ req'[s].lsn = req[s].lsn /\ req'[s].need = req[s].need
              /\ req'[s].undo = req[s].undo /\ req'[s].result = req[s].result
              /\ s # r => req'[s].left = req[s].left /\ req'[s].acked = req[s].acked
    BY <1>1, <1>7, <2>2, <2>3, SentFacts
  <2>6. /\ req'[r].acked \in {req[r].acked, req[r].acked + 1}
        /\ (~a <=> req'[r].acked = req[r].acked)
    BY <2>1, <2>4, <2>5, <1>3
  <2> QED BY <2>5, <2>6
<1>8. Like(req) /\ Like(Freed(f))
  BY FreedLike
<1>9. CASE /\ Reached(f) /\ Accepts(proc[f].log, lsn)
           /\ proc' = [proc EXCEPT ![f].log = Applied(@, lsn, e)] /\ Sent(req, TRUE)
  <2> DEFINE p == [proc[f] EXCEPT !.log = Applied(@, lsn, e)]
  <2>1. /\ p \in ProcType /\ p.prim = proc[f].prim /\ p.reps = proc[f].reps
        /\ p.log = Applied(proc[f].log, lsn, e) /\ p.up = proc[f].up /\ p.pid = proc[f].pid
    BY <1>3, <1>4, <1>5, AppliedType DEF ProcType
  <2>2. proc' = [proc EXCEPT ![f] = p]
    BY <1>4, <1>9
  <2> HIDE DEF p
  <2>3. Touches(f) /\ proc'[f] = p
    BY <1>4, <2>1, <2>2 DEF Touches
  <2>4. proc[f].up /\ lost' = lost
    BY <1>9 DEF Reached
  <2> HIDE DEF Sent
  <2> QED BY <1>7, <1>8, <1>9, <2>1, <2>3, <2>4 DEF Forwards
<1>10. ASSUME proc[f].up, lost' = lost \/ (lost < MaxLost /\ lost' = lost + 1),
              NEW l \in Synced(proc[f].log, proc[n].log),
              proc' = [proc EXCEPT ![f].prim = FALSE, ![f].reps = {},
                                   ![f].log = Applied(l, lsn, e)],
              Sent(Freed(f), Accepts(l, lsn))
       PROVE Forwards(r, f) /\ ReqInv'
  <2>0. l \in Seq(Entry)
    BY <1>5, <1>10, SyncedType
  <2> DEFINE p == [proc[f] EXCEPT !.prim = FALSE, !.reps = {}, !.log = Applied(l, lsn, e)]
  <2>1. /\ p \in ProcType /\ p.prim = FALSE /\ p.reps = {}
        /\ p.log = Applied(l, lsn, e) /\ p.up = proc[f].up /\ p.pid = proc[f].pid
    BY <1>3, <1>4, <2>0, AppliedType DEF ProcType
  <2>2. proc' = [proc EXCEPT ![f] = p]
    BY <1>4, <1>10
  <2> HIDE DEF p
  <2>3. Touches(f) /\ proc'[f] = p
    BY <1>4, <2>1, <2>2 DEF Touches
  <2>4. Accepts(l, lsn) \in BOOLEAN
    BY DEF Accepts
  <2> HIDE DEF Sent
  <2> QED BY <1>7, <1>8, <1>10, <2>1, <2>3, <2>4 DEF Forwards
<1>11. CASE /\ Missed(f) \/ (req[r].freed /\ UNCHANGED lost)
            /\ Sent(req, FALSE)
            /\ \/ UNCHANGED proc
               \/ /\ proc[f].up /\ Accepts(proc[f].log, lsn)
                  /\ proc' = [proc EXCEPT ![f].log = Applied(@, lsn, e)]
  <2>1. lost' = lost \/ (lost < MaxLost /\ lost' = lost + 1)
    BY <1>6, <1>11, CallTypes
  <2>2. CASE UNCHANGED proc
    <3>1. Touches(f) /\ proc'[f] = proc[f]
      BY <2>2, <1>4 DEF Touches
    <3> HIDE DEF Sent
    <3> QED BY <1>7, <1>8, <1>11, <2>1, <3>1 DEF Forwards
  <2>3. CASE /\ proc[f].up /\ Accepts(proc[f].log, lsn)
             /\ proc' = [proc EXCEPT ![f].log = Applied(@, lsn, e)]
    <3> DEFINE p == [proc[f] EXCEPT !.log = Applied(@, lsn, e)]
    <3>1. /\ p \in ProcType /\ p.prim = proc[f].prim /\ p.reps = proc[f].reps
          /\ p.log = Applied(proc[f].log, lsn, e) /\ p.up = proc[f].up /\ p.pid = proc[f].pid
      BY <1>3, <1>4, <1>5, AppliedType DEF ProcType
    <3>2. proc' = [proc EXCEPT ![f] = p]
      BY <1>4, <2>3
    <3> HIDE DEF p
    <3>3. Touches(f) /\ proc'[f] = p
      BY <1>4, <3>1, <3>2 DEF Touches
    <3> HIDE DEF Sent
    <3> QED BY <1>7, <1>8, <1>11, <2>1, <2>3, <3>1, <3>3 DEF Forwards
  <2> QED BY <1>11, <2>2, <2>3
<1>12. \/ /\ Reached(f) /\ Accepts(proc[f].log, lsn)
          /\ proc' = [proc EXCEPT ![f].log = Applied(@, lsn, e)] /\ Sent(req, TRUE)
       \/ /\ proc[f].up
          /\ IF Accepts(proc[f].log, lsn)
             THEN lost < MaxLost /\ lost' = lost + 1 ELSE UNCHANGED lost
          /\ \E l \in Synced(proc[f].log, proc[n].log) :
                /\ proc' = [proc EXCEPT ![f].prim = FALSE, ![f].reps = {},
                                        ![f].log = Applied(l, lsn, e)]
                /\ Sent(Freed(f), Accepts(l, lsn))
       \/ /\ Missed(f) \/ (req[r].freed /\ UNCHANGED lost)
          /\ Sent(req, FALSE)
          /\ \/ UNCHANGED proc
             \/ /\ proc[f].up /\ Accepts(proc[f].log, lsn)
                /\ proc' = [proc EXCEPT ![f].log = Applied(@, lsn, e)]
  BY DEF forward_to_replica
<1> HIDE DEF Sent, e, lsn, n
<1> QED BY <1>9, <1>10, <1>11, <1>12

-----------------------------------------------------------------------------
(* The type invariant is preserved. *)

\* A step that changes one node and keeps its shape keeps the nodes' invariant.
LEMMA TouchProc ==
    ASSUME ProcInv, NEW n \in Nodes, Touches(n), crashes' = crashes,
           n \notin proc'[n].reps, ~proc[n].up => proc'[n].reps = {}
    PROVE  ProcInv'
<1>1. ASSUME NEW m \in Nodes
      PROVE  /\ m \notin proc'[m].reps /\ (~proc'[m].up => proc'[m].reps = {})
             /\ proc'[m].pid <= crashes' + (IF proc'[m].up THEN 1 ELSE 0)
  <2>1. /\ m \notin proc[m].reps /\ (~proc[m].up => proc[m].reps = {})
        /\ proc[m].pid <= crashes + (IF proc[m].up THEN 1 ELSE 0)
    BY DEF ProcInv
  <2>2. proc'[m].up = proc[m].up /\ proc'[m].pid = proc[m].pid
    BY DEF Touches
  <2>3. m # n => proc'[m] = proc[m]
    BY DEF Touches
  <2> QED BY <2>1, <2>2, <2>3
<1> QED BY <1>1 DEF ProcInv, Touches

\* A step that changes the job of one thread keeps the jobs' invariant.
LEMMA OneJob ==
    ASSUME JobInv, NEW t \in Threads, NEW j, JobGood(j), job' = [job EXCEPT ![t] = j],
           hb' = hb, job[t] # NoJob \/ t = "setup"
    PROVE  JobInv'
<1>1. job \in [Threads -> JobType] /\ j \in JobType
  BY DEF JobInv, JobGood
<1>2. job' \in [Threads -> JobType] /\ job'[t] = j /\ \A s \in Threads \ {t} : job'[s] = job[s]
  BY <1>1
<1>3. \A s \in Threads : JobGood(job'[s])
  BY <1>2 DEF JobInv
<1>4. Pinged' <=> Pinged
  BY DEF Pinged
<1>5. ~Pinged => job["hb"] = NoJob
  BY DEF JobInv
<1>6. ~Pinged' => job'["hb"] = NoJob
  BY <1>2, <1>4, <1>5 DEF Threads
<1> QED BY <1>2, <1>3, <1>6 DEF JobInv

NodeSets == SUBSET Nodes
PairSets == SUBSET (Nodes \X Nodes)
JobKinds == {"rebuild", "elect", "recover", "setup"}
MaybeNode == Nodes \cup {Nil}

\* A job that begins.
LEMMA JobStart ==
    ASSUME TableInv, NEW kd \in JobKinds, NEW s \in Nodes,
           NEW p \in MaybeNode, NEW C \in NodeSets,
           NEW A \in PairSets, NEW m \in Nat, kd = "rebuild" => p \in Nodes
    PROVE  /\ JobGood(Job(kd, s, p, C, A, m)) /\ Job(kd, s, p, C, A, m).kind = kd
           /\ Job(kd, s, p, C, A, m).pc = "probe" /\ Job(kd, s, p, C, A, m).subj = s
           /\ Job(kd, s, p, C, A, m).prim = p /\ Job(kd, s, p, C, A, m).cands = C
           /\ Job(kd, s, p, C, A, m).ask = A /\ Job(kd, s, p, C, A, m).max = m
           /\ Job(kd, s, p, C, A, m).ok
           /\ \A n \in Nodes : Job(kd, s, p, C, A, m).lsn[n] = view[n].lsn
<1> DEFINE L == [n \in Nodes |-> view[n].lsn]
<1>1. L \in [Nodes -> Nat]
  BY DEF TableInv, TableEntry
<1>2. NoJob \in JobType /\ NoJob.kind = "none" /\ NoJob.pc = "" /\ NoJob.todo = {} /\ NoJob.ok
      /\ NoJob.fol = [n \in Nodes |-> {}]
  BY NoJobType DEF JobGood, NoJob
<1> DEFINE j == Job(kd, s, p, C, A, m)
<1>3. j = [NoJob EXCEPT !.kind = kd, !.pc = "probe", !.subj = s, !.prim = p,
                  !.cands = C, !.ask = A, !.max = m, !.lsn = L]
  BY DEF Job
<1>4. \A n \in Nodes : L[n] = view[n].lsn
  OBVIOUS
<1> HIDE DEF L, j
<1>5. /\ j \in JobType /\ j.kind = kd /\ j.pc = "probe" /\ j.subj = s /\ j.prim = p
      /\ j.cands = C /\ j.ask = A /\ j.max = m /\ j.lsn = L /\ j.todo = {} /\ j.ok
      /\ j.fol = [n \in Nodes |-> {}]
  BY <1>1, <1>2, <1>3 DEF JobType, NodeSets, PairSets, JobKinds, MaybeNode
<1>6. j # NoJob
  BY <1>2, <1>5 DEF JobKinds
<1>7. JobGood(j)
  BY <1>5, <1>6 DEF JobGood, JobKinds
<1> QED BY <1>4, <1>5, <1>7 DEF j

\* The table and the requests, with the other variables.
LEMMA TypeParts ==
    ASSUME TypeInv
    PROVE  /\ ProcInv /\ TableInv /\ JobInv /\ ReqInv
           /\ proc \in [Nodes -> ProcType] /\ view \in [Nodes -> TableEntry]
           /\ job \in [Threads -> JobType] /\ req \in [Requests -> ReqType]
           /\ head \in Nodes /\ "hb" \in Threads /\ "setup" \in Threads
           /\ lost \in 0..MaxLost /\ round \in 0..MaxRounds /\ hb \in HbType
  BY DEF TypeInv, ProcInv, TableInv, JobInv, ReqInv, Threads

\* Requests that do not change keep their invariant.
LEMMA SameReq ==
    ASSUME ReqInv, req' = req, proc' = proc
    PROVE  ReqInv'
  BY DEF ReqInv

\* Nodes that do not change keep theirs.
LEMMA SameProc ==
    ASSUME ProcInv, proc' = proc, crashes' = crashes
    PROVE  ProcInv'
  BY DEF ProcInv

\* The copy of the table, node by node.
LEMMA HbFields ==
    ASSUME hb \in HbType
    PROVE  /\ hb.snap \in [DOMAIN hb.snap -> TableEntry] /\ DOMAIN hb.snap \in SUBSET Nodes
           /\ hb.dead \in SUBSET Nodes /\ hb.live \in SUBSET Nodes
<1>1. PICK D \in SUBSET Nodes : hb.snap \in [D -> TableEntry]
  BY DEF HbType, SnapType
<1>2. DOMAIN hb.snap = D
  BY <1>1
<1> QED BY <1>1, <1>2 DEF HbType

\* The heartbeat thread copies the table.
LEMMA SnapshotTypes ==
    ASSUME TypeInv, Snapshot
    PROVE  /\ TypeInv' /\ hb'.snap = view /\ hb'.dead = {} /\ hb'.live = {}
           /\ hb.dead = {} /\ DOMAIN hb.snap = {} /\ job["hb"] = NoJob
<1>1. hb = NoRound /\ hb' = [NoRound EXCEPT !.snap = view] /\ job["hb"] = NoJob
  BY DEF Snapshot
<1>2. view \in SnapType
  BY TypeParts DEF SnapType
<1>3. hb' \in HbType /\ hb'.snap = view /\ hb'.dead = {} /\ hb'.live = {}
  BY <1>1, <1>2 DEF HbType, NoRound
<1>4. hb.dead = {} /\ DOMAIN hb.snap = {}
  BY <1>1 DEF NoRound
<1>5. ProcInv' /\ ReqInv'
  BY TypeParts, SameProc, SameReq DEF Snapshot
<1>6. TableInv'
  BY TypeParts, <1>3 DEF TableInv, Snapshot
<1>7. JobInv'
  BY TypeParts, <1>1 DEF JobInv, Snapshot
<1> QED BY <1>1, <1>3, <1>4, <1>5, <1>6, <1>7 DEF TypeInv

\* One more ping that was missed.
Count(old) == IF old.missed < MissThresh THEN old.missed + 1 ELSE MissThresh

\* Node n is pinged, its entry becomes e, and it is found to have failed or to
\* be back.
Pings(n, ok, e) ==
    LET old == hb.snap[n]
        down == old.alive /\ Count(old) >= MissThresh
    IN  /\ n \in DOMAIN hb.snap /\ e \in TableEntry
        /\ view' = [view EXCEPT ![n] = e]
        /\ hb' \in HbType /\ DOMAIN hb'.snap = DOMAIN hb.snap \ {n}
        /\ \A m \in DOMAIN hb'.snap : hb'.snap[m] = hb.snap[m]
        /\ ok => /\ Reached(n) /\ e.alive /\ e.missed = 0 /\ e.lsn = Lsn(n)
                 /\ e.pid = proc[n].pid /\ (e.down <=> old.down /\ old.alive)
                 /\ hb'.dead = hb.dead
                 /\ \/ hb'.live = hb.live
                    \/ /\ old.down \/ (old.pid > 0 /\ old.pid # proc[n].pid)
                       /\ hb'.live = hb.live \cup {n}
        /\ ~ok => /\ Missed(n) /\ e.lsn = old.lsn /\ e.pid = old.pid
                  /\ e.missed = Count(old) /\ hb'.live = hb.live
                  /\ IF down THEN ~e.alive /\ e.down /\ hb'.dead = hb.dead \cup {n}
                     ELSE e.alive = old.alive /\ e.down = old.down /\ hb'.dead = hb.dead

\* A ping: the entry it computes from the copy, and who has failed or come back.
LEMMA PingFacts ==
    ASSUME TypeInv, NEW n \in Nodes, Ping(n)
    PROVE  \E ok \in BOOLEAN, e \in TableEntry : Pings(n, ok, e)
<1> DEFINE old == hb.snap[n]
           m == Count(old)
           down == old.alive /\ m >= MissThresh
<1>1. PICK ok \in BOOLEAN :
        /\ IF ok THEN Reached(n) ELSE Missed(n)
        /\ view' = [view EXCEPT ![n] = ping_node(n, old, ok).entry]
        /\ hb' = [hb EXCEPT
                      !.snap = [k \in DOMAIN @ \ {n} |-> @[k]],
                      !.dead = IF ping_node(n, old, ok).failed THEN @ \cup {n} ELSE @,
                      !.live = IF ping_node(n, old, ok).back THEN @ \cup {n} ELSE @]
  BY DEF Ping
<1>2. hb \in HbType /\ n \in DOMAIN hb.snap /\ ProcInv
  BY TypeParts DEF Ping
<1>3. /\ hb.snap \in [DOMAIN hb.snap -> TableEntry] /\ DOMAIN hb.snap \in SUBSET Nodes
      /\ hb.dead \in SUBSET Nodes /\ hb.live \in SUBSET Nodes
  BY <1>2, HbFields
<1>4. old \in TableEntry
  BY <1>2, <1>3
<1>5. m \in 0..MissThresh
  BY <1>4, BoundAssumption DEF Count, TableEntry
<1>6. /\ Fresh(n) \in TableEntry /\ Fresh(n).lsn = Lsn(n) /\ Fresh(n).alive
      /\ Fresh(n).missed = 0 /\ Fresh(n).pid = proc[n].pid
  BY <1>2, FreshType
<1> DEFINE a == [Fresh(n) EXCEPT !.down = old.down /\ old.alive]
           b == [old EXCEPT !.missed = m, !.down = TRUE, !.alive = FALSE]
           c == [old EXCEPT !.missed = m]
<1>7. /\ a \in TableEntry /\ a.lsn = Lsn(n) /\ a.alive /\ a.missed = 0 /\ a.pid = proc[n].pid
      /\ a.down = (old.down /\ old.alive)
  <2> HIDE DEF old
  <2> QED BY <1>4, <1>6 DEF TableEntry
<1>8. /\ b \in TableEntry /\ b.lsn = old.lsn /\ ~b.alive /\ b.missed = m /\ b.pid = old.pid
      /\ b.down
  <2> HIDE DEF old, m
  <2> QED BY <1>4, <1>5 DEF TableEntry
<1>9. /\ c \in TableEntry /\ c.lsn = old.lsn /\ c.alive = old.alive /\ c.missed = m
      /\ c.pid = old.pid /\ c.down = old.down
  <2> HIDE DEF old, m
  <2> QED BY <1>4, <1>5 DEF TableEntry
<1> DEFINE S == [k \in DOMAIN hb.snap \ {n} |-> hb.snap[k]]
<1>10. S \in SnapType /\ DOMAIN S = DOMAIN hb.snap \ {n} /\ \A k \in DOMAIN S : S[k] = hb.snap[k]
  BY <1>3 DEF SnapType
<1> HIDE DEF S
<1>11. ASSUME NEW D \in {hb.dead, hb.dead \cup {n}}, NEW L \in {hb.live, hb.live \cup {n}},
              hb' = [hb EXCEPT !.snap = S, !.dead = D, !.live = L]
       PROVE  /\ hb' \in HbType /\ DOMAIN hb'.snap = DOMAIN hb.snap \ {n}
              /\ \A k \in DOMAIN hb'.snap : hb'.snap[k] = hb.snap[k]
              /\ hb'.dead = D /\ hb'.live = L
  <2>1. hb'.snap = S /\ hb'.dead = D /\ hb'.live = L /\ hb' \in HbType
    BY <1>2, <1>3, <1>10, <1>11 DEF HbType
  <2> QED BY <2>1, <1>10
<1>12. CASE ok
  <2>1. ping_node(n, old, ok).entry = a /\ ~ping_node(n, old, ok).failed
        /\ (ping_node(n, old, ok).back => old.down \/ (old.pid > 0 /\ old.pid # proc[n].pid))
    BY <1>12 DEF ping_node
  <2> DEFINE L == IF ping_node(n, old, ok).back THEN hb.live \cup {n} ELSE hb.live
  <2>2. hb' = [hb EXCEPT !.snap = S, !.dead = hb.dead, !.live = L]
    BY <1>1, <1>2, <2>1 DEF S, HbType
  <2>3. L \in {hb.live, hb.live \cup {n}} /\ hb.dead \in {hb.dead, hb.dead \cup {n}}
    OBVIOUS
  <2>4. view' = [view EXCEPT ![n] = a]
    BY <1>1, <2>1
  <2>5. /\ hb' \in HbType /\ DOMAIN hb'.snap = DOMAIN hb.snap \ {n}
        /\ \A k \in DOMAIN hb'.snap : hb'.snap[k] = hb.snap[k]
        /\ hb'.dead = hb.dead /\ hb'.live = L
    <3> HIDE DEF L
    <3> QED BY <2>2, <2>3, <1>11
  <2>6. \/ hb'.live = hb.live
        \/ /\ old.down \/ (old.pid > 0 /\ old.pid # proc[n].pid)
           /\ hb'.live = hb.live \cup {n}
    BY <2>1, <2>5
  <2> HIDE DEF a, L
  <2>7. Pings(n, TRUE, a)
    BY <1>1, <1>2, <1>7, <1>12, <2>4, <2>5, <2>6 DEF Pings
  <2> QED BY <1>7, <2>7
<1>13. CASE ~ok
  <2> DEFINE e == IF down THEN b ELSE c
             D == IF down THEN hb.dead \cup {n} ELSE hb.dead
  <2>1. ping_node(n, old, ok) = [entry |-> e, failed |-> down, back |-> FALSE]
    BY <1>13 DEF ping_node, Count
  <2>2. hb' = [hb EXCEPT !.snap = S, !.dead = D, !.live = hb.live]
    <3> HIDE DEF e, down, old
    <3> QED BY <1>1, <1>2, <2>1 DEF S, HbType, old
  <2>3. D \in {hb.dead, hb.dead \cup {n}} /\ hb.live \in {hb.live, hb.live \cup {n}}
    OBVIOUS
  <2>4. view' = [view EXCEPT ![n] = e]
    <3> HIDE DEF e
    <3> QED BY <1>1, <2>1
  <2>5. /\ hb' \in HbType /\ DOMAIN hb'.snap = DOMAIN hb.snap \ {n}
        /\ \A k \in DOMAIN hb'.snap : hb'.snap[k] = hb.snap[k]
        /\ hb'.dead = D /\ hb'.live = hb.live
    <3> HIDE DEF D
    <3> QED BY <2>2, <2>3, <1>11
  <2>6. /\ e \in TableEntry /\ e.lsn = old.lsn /\ e.pid = old.pid /\ e.missed = m
        /\ IF down THEN ~e.alive /\ e.down /\ hb'.dead = hb.dead \cup {n}
           ELSE e.alive = old.alive /\ e.down = old.down /\ hb'.dead = hb.dead
    <3> HIDE DEF b, c, down
    <3> QED BY <1>8, <1>9, <2>5
  <2> HIDE DEF e, D
  <2>7. Pings(n, FALSE, e)
    BY <1>1, <1>2, <1>13, <2>4, <2>5, <2>6 DEF Pings
  <2> QED BY <2>6, <2>7
<1> QED BY <1>12, <1>13

\* It leaves every variable in its type.
LEMMA PingTypes ==
    ASSUME TypeInv, NEW n \in Nodes, Ping(n)
    PROVE  TypeInv'
<1>1. PICK ok \in BOOLEAN, e \in TableEntry : Pings(n, ok, e)
  BY PingFacts
<1>2. Reached(n) \/ Missed(n)
  BY <1>1 DEF Pings
<1>3. lost' \in 0..MaxLost
  BY <1>2, TypeParts, CallTypes
<1>4. view' \in [Nodes -> TableEntry] /\ hb' \in HbType
  BY <1>1, TypeParts DEF Pings
<1>5. TableInv'
  BY <1>3, <1>4, TypeParts DEF TableInv, Ping
<1>6. ProcInv' /\ ReqInv'
  BY TypeParts, SameProc, SameReq DEF Ping
<1>7. ~Pinged
  BY <1>1 DEF Pings, Pinged
<1>8. JobInv'
  BY <1>7, TypeParts DEF JobInv, Ping
<1> QED BY <1>5, <1>6, <1>8 DEF TypeInv

\* The heartbeat thread takes a job.
LEMMA HbJob ==
    ASSUME TypeInv, Pinged, NEW j, JobGood(j), job' = [job EXCEPT !["hb"] = j],
           hb' \in HbType, hb'.snap = hb.snap,
           UNCHANGED <<proc, view, head, round, req, lost, crashes>>
    PROVE  TypeInv'
<1>1. Pinged'
  BY DEF Pinged
<1>2. job' \in [Threads -> JobType] /\ job'["hb"] = j /\ job'["setup"] = job["setup"]
  BY TypeParts DEF JobGood, Threads
<1>3. JobInv'
  BY <1>1, <1>2, TypeParts DEF JobInv, Threads
<1>4. ProcInv' /\ ReqInv' /\ TableInv'
  BY TypeParts, SameProc, SameReq DEF TableInv
<1> QED BY <1>3, <1>4 DEF TypeInv

\* handle_node_failure plans a rebuild, an election or nothing.
LEMMA FailureFacts ==
    ASSUME TypeInv, NEW d \in Nodes, handle_node_failure(d)
    PROVE  /\ TypeInv' /\ Pinged /\ d \in hb.dead /\ job["hb"] = NoJob
           /\ hb'.dead = hb.dead \ {d} /\ hb'.live = hb.live /\ hb'.snap = hb.snap
           /\ job'["setup"] = job["setup"]
           /\ \/ job'["hb"] = NoJob
              \/ /\ head # d /\ Alive(head)
                 /\ job'["hb"].kind = "rebuild" /\ job'["hb"].prim = head
                 /\ job'["hb"].pc = "probe"
              \/ /\ head = d \/ ~Alive(head)
                 /\ LET j == job'["hb"]
                        others == {n \in Nodes \ {d} : Alive(n)}
                    IN  /\ j.kind = "elect" /\ j.pc = "probe" /\ j.cands = others
                        /\ j.ask = others \X others /\ j.max = MaxKnown(view, Nodes)
<1> DEFINE others == {n \in Nodes \ {d} : Alive(n)}
           j == IF head # d /\ Alive(head)
                THEN Job("rebuild", d, head, {head}, {head} \X others, 0)
                ELSE IF others = {} THEN NoJob
                ELSE Job("elect", d, Nil, others, others \X others, MaxKnown(view, Nodes))
<1>1. /\ Pinged /\ d \in hb.dead /\ job["hb"] = NoJob
      /\ hb' = [hb EXCEPT !.dead = @ \ {d}] /\ job' = [job EXCEPT !["hb"] = j]
      /\ UNCHANGED <<proc, view, head, round, req, lost, crashes>>
  BY DEF handle_node_failure
<1>2. hb \in HbType /\ hb.dead \in SUBSET Nodes
  BY TypeParts, HbFields
<1>3. /\ hb' \in HbType /\ hb'.dead = hb.dead \ {d} /\ hb'.live = hb.live
      /\ hb'.snap = hb.snap
  BY <1>1, <1>2 DEF HbType
<1>4. MaxKnown(view, Nodes) \in Nat
  BY TypeParts, MaxKnownFacts
<1>5. others \in NodeSets /\ others \X others \in PairSets /\ head \in Nodes
      /\ TableInv /\ {head} \X others \in PairSets /\ {head} \in NodeSets
      /\ Nil \in MaybeNode /\ head \in MaybeNode /\ "elect" \in JobKinds /\ "rebuild" \in JobKinds
  BY TypeParts DEF NodeSets, PairSets, MaybeNode, JobKinds
<1> DEFINE a == Job("rebuild", d, head, {head}, {head} \X others, 0)
           b == Job("elect", d, Nil, others, others \X others, MaxKnown(view, Nodes))
<1>6. JobGood(a) /\ a.kind = "rebuild" /\ a.prim = head /\ a.pc = "probe"
  <2> HIDE DEF others
  <2> QED BY <1>5, JobStart
<1>7. /\ JobGood(b) /\ b.kind = "elect" /\ b.pc = "probe" /\ b.cands = others
      /\ b.ask = others \X others /\ b.max = MaxKnown(view, Nodes)
  <2> DEFINE A == others \X others
             M == MaxKnown(view, Nodes)
  <2>1. A \in PairSets /\ M \in Nat
    BY <1>4, <1>5
  <2>2. b = Job("elect", d, Nil, others, A, M)
    OBVIOUS
  <2> HIDE DEF others, A, M, b
  <2>3. /\ JobGood(b) /\ b.kind = "elect" /\ b.pc = "probe" /\ b.cands = others
        /\ b.ask = A /\ b.max = M
    BY <1>5, <2>1, <2>2, JobStart
  <2> QED BY <2>3 DEF A, M
<1>8. j = IF head # d /\ Alive(head) THEN a ELSE IF others = {} THEN NoJob ELSE b
  OBVIOUS
<1> HIDE DEF a, b, j
<1>9. JobGood(j)
  <2> HIDE DEF others
  <2> QED BY <1>6, <1>7, <1>8, NoJobType
<1>10. TypeInv'
  BY <1>1, <1>3, <1>9, HbJob
<1>11. job'["hb"] = j /\ job'["setup"] = job["setup"]
  BY <1>1, TypeParts
<1> QED BY <1>1, <1>3, <1>6, <1>7, <1>8, <1>10, <1>11

\* handle_node_recovery plans for a node that is back.
LEMMA RecoveryTypes ==
    ASSUME TypeInv, NEW l \in Nodes, handle_node_recovery(l)
    PROVE  TypeInv' /\ l \in hb.live
<1> DEFINE peers == {n \in Nodes \ {l} : Alive(n)}
           p == IF Alive(head) THEN head ELSE Nil
           A == ({l} \X (peers \cup {l})) \cup ({head} \X ({head} \cap peers))
           j == Job("recover", l, p, {l}, A, MaxKnown(view, peers \cup {l}))
<1>1. /\ Pinged /\ l \in hb.live
      /\ hb' = [hb EXCEPT !.live = @ \ {l}] /\ job' = [job EXCEPT !["hb"] = j]
      /\ UNCHANGED <<proc, view, head, round, req, lost, crashes>>
  BY DEF handle_node_recovery
<1>2. hb \in HbType /\ hb.live \in SUBSET Nodes
  BY TypeParts, HbFields
<1>3. hb' \in HbType /\ hb'.snap = hb.snap
  BY <1>1, <1>2 DEF HbType
<1>4. head \in Nodes /\ peers \cup {l} \in SUBSET Nodes /\ p \in Nodes \cup {Nil} /\ TableInv
  BY TypeParts
<1>5. MaxKnown(view, peers \cup {l}) \in Nat
  <2> HIDE DEF peers
  <2> QED BY <1>4, TypeParts, MaxKnownFacts
<1>6. /\ A \in PairSets /\ {l} \in NodeSets /\ p \in MaybeNode /\ "recover" \in JobKinds
  BY <1>4 DEF NodeSets, PairSets, MaybeNode, JobKinds
<1>7. JobGood(j)
  <2> HIDE DEF A, peers, p
  <2> QED BY <1>4, <1>5, <1>6, JobStart
<1> HIDE DEF j
<1> QED BY <1>1, <1>3, <1>7, HbJob

\* A round of the first configuration starts with all live nodes.
LEMMA ConfigureFacts ==
    ASSUME TypeInv, configure_initial_tablet_roles
    PROVE  /\ TypeInv' /\ job["setup"] = NoJob /\ round < MaxRounds /\ round' = round + 1
           /\ job'["hb"] = job["hb"]
           /\ LET j == job'["setup"]
                  live == {n \in Nodes : Alive(n)}
              IN  /\ j.kind = "setup" /\ j.pc = "probe" /\ j.subj = First /\ j.cands = live
                  /\ j.ask = {<<n, n>> : n \in live} /\ j.ok
                  /\ \A n \in Nodes : j.lsn[n] = view[n].lsn
<1> DEFINE live == {n \in Nodes : Alive(n)}
           j == Job("setup", First, Nil, live, {<<n, n>> : n \in live}, 0)
<1>1. /\ job["setup"] = NoJob /\ round < MaxRounds /\ round' = round + 1
      /\ job' = [job EXCEPT !["setup"] = j]
      /\ UNCHANGED <<proc, view, head, hb, req, lost, crashes>>
  BY DEF configure_initial_tablet_roles
<1>2. /\ TableInv /\ live \in NodeSets /\ {<<n, n>> : n \in live} \in PairSets
      /\ Nil \in MaybeNode /\ "setup" \in JobKinds
  BY TypeParts DEF NodeSets, PairSets, MaybeNode, JobKinds
<1>3. /\ JobGood(j) /\ j.kind = "setup" /\ j.pc = "probe" /\ j.subj = First /\ j.cands = live
      /\ j.ask = {<<n, n>> : n \in live} /\ j.ok
      /\ \A n \in Nodes : j.lsn[n] = view[n].lsn
  <2> DEFINE A == {<<n, n>> : n \in live}
  <2>1. A \in PairSets /\ First \in Nodes /\ 0 \in Nat
    BY <1>2, NodeAssumption
  <2>2. j = Job("setup", First, Nil, live, A, 0)
    OBVIOUS
  <2> HIDE DEF live, A, j
  <2>3. /\ JobGood(j) /\ j.kind = "setup" /\ j.pc = "probe" /\ j.subj = First /\ j.cands = live
        /\ j.ask = A /\ j.ok /\ \A n \in Nodes : j.lsn[n] = view[n].lsn
    BY <1>2, <2>1, <2>2, JobStart
  <2> QED BY <2>3 DEF A
<1> HIDE DEF j
<1>4. JobInv'
  BY <1>1, <1>3, TypeParts, OneJob
<1>5. ProcInv' /\ ReqInv'
  BY <1>1, TypeParts, SameProc, SameReq
<1>6. TableInv'
  BY <1>1, TypeParts, BoundAssumption DEF TableInv
<1>7. job'["setup"] = j /\ job'["hb"] = job["hb"]
  BY <1>1, TypeParts
<1> QED BY <1>1, <1>3, <1>4, <1>5, <1>6, <1>7 DEF TypeInv

\* What all steps of a job leave alone.
Kept(j, k) == k.kind = j.kind /\ k.subj = j.subj

\* The probe <<c, n>> of job j ends and leaves job k.
Answered(j, k, c, n) ==
    /\ Kept(j, k) /\ k.pc = j.pc /\ k.cands = j.cands /\ k.ok = j.ok /\ k.prim = j.prim
    /\ j.kind # "recover" => k.ask = j.ask \ {<<c, n>>}
    /\ \A m \in Nodes \ {n} : k.lsn[m] = j.lsn[m]
    /\ k.lsn[n] = IF c # n /\ j.kind = "elect" THEN j.lsn[n] ELSE Lsn(n)
    /\ k.max >= j.max /\ k.max >= Lsn(n)

Unanswered(j, k, c, n) ==
    \/ k = NoJob /\ j.kind \notin {"elect", "setup"}
    \/ /\ Kept(j, k) /\ k.pc = j.pc /\ k.ok = j.ok
       /\ j.kind # "recover" => k.prim = j.prim
       /\ k.lsn = j.lsn /\ k.max = j.max
       /\ IF c = n /\ j.kind = "elect"
          THEN k.ask = {q \in j.ask : q[1] # c} /\ k.cands = j.cands \ {c}
          ELSE k.ask = j.ask \ {<<c, n>>} /\ k.cands = j.cands

\* A probe that is answered: what the job knows now.
LEMMA ProbeOkJob ==
    ASSUME ProcInv, NEW j, JobGood(j), j # NoJob, NEW c \in Nodes, NEW n \in Nodes,
           NEW k, k = [j EXCEPT
             !.ask = @ \ (IF j.kind = "recover" THEN {<<c, n>>, <<n, n>>} ELSE {<<c, n>>}),
             !.lsn[n] = IF c # n /\ j.kind = "elect" THEN @ ELSE Lsn(n),
             !.fol[c] = IF c # n THEN @ \cup {n} ELSE @,
             !.max = IF Lsn(n) > @ THEN Lsn(n) ELSE @]
    PROVE  JobGood(k) /\ Answered(j, k, c, n)
<1> DEFINE A == j.ask \ (IF j.kind = "recover" THEN {<<c, n>>, <<n, n>>} ELSE {<<c, n>>})
           L == [j.lsn EXCEPT ![n] = IF c # n /\ j.kind = "elect" THEN @ ELSE Lsn(n)]
           F == [j.fol EXCEPT ![c] = IF c # n THEN @ \cup {n} ELSE @]
           M == IF Lsn(n) > j.max THEN Lsn(n) ELSE j.max
<1>1. j \in JobType /\ Lsn(n) \in Nat
  BY FreshType DEF JobGood
<1>2. /\ j.ask \in SUBSET (Nodes \X Nodes) /\ j.lsn \in [Nodes -> Nat]
      /\ j.fol \in [Nodes -> SUBSET Nodes] /\ j.max \in Nat
  BY <1>1 DEF JobType
<1>3. /\ A \in SUBSET (Nodes \X Nodes) /\ L \in [Nodes -> Nat]
      /\ F \in [Nodes -> SUBSET Nodes] /\ M \in Nat /\ M >= j.max /\ M >= Lsn(n)
  BY <1>1, <1>2
<1>4. /\ \A m \in Nodes \ {n} : L[m] = j.lsn[m]
      /\ L[n] = IF c # n /\ j.kind = "elect" THEN j.lsn[n] ELSE Lsn(n)
  BY <1>2
<1>5. \A x \in Nodes : x \notin F[x]
  BY <1>2 DEF JobGood
<1>6. j.kind # "recover" => A = j.ask \ {<<c, n>>}
  OBVIOUS
<1>7. k = [j EXCEPT !.ask = A, !.lsn = L, !.fol = F, !.max = M]
  BY <1>1 DEF JobType
<1> HIDE DEF A, L, F, M
<1>8. /\ k \in JobType /\ k.kind = j.kind /\ k.pc = j.pc /\ k.subj = j.subj /\ k.prim = j.prim
      /\ k.cands = j.cands /\ k.ask = A /\ k.lsn = L /\ k.fol = F /\ k.max = M
      /\ k.todo = j.todo /\ k.cur = j.cur /\ k.ok = j.ok
  <2>1. k \in JobType
    BY <1>1, <1>3, <1>7, ZenonT(60) DEF JobType
  <2>2. /\ k.kind = j.kind /\ k.pc = j.pc /\ k.subj = j.subj /\ k.prim = j.prim
        /\ k.cands = j.cands /\ k.todo = j.todo /\ k.cur = j.cur /\ k.ok = j.ok
    BY <1>1, <1>7 DEF JobType
  <2>3. k.ask = A /\ k.lsn = L /\ k.fol = F /\ k.max = M
    BY <1>1, <1>7 DEF JobType
  <2> QED BY <2>1, <2>2, <2>3
<1>9. JobGood(k)
  BY <1>5, <1>8, NoJobType DEF JobGood
<1> QED BY <1>3, <1>4, <1>6, <1>8, <1>9 DEF Answered, Kept

FailedJob(j, c, n) ==
    IF c # n \/ j.kind = "setup" THEN [j EXCEPT !.ask = @ \ {<<c, n>>}]
    ELSE IF c # j.subj /\ j.kind = "recover"
    THEN [j EXCEPT !.ask = @ \ {<<c, n>>}, !.prim = Nil]
    ELSE IF j.kind = "elect"
    THEN [j EXCEPT !.ask = {q \in @ : q[1] # c}, !.cands = @ \ {c}]
    ELSE NoJob

\* A probe that is not: who is left out, or that the job is given up.
LEMMA ProbeFailedJob ==
    ASSUME ProcInv, NEW j, JobGood(j), j # NoJob, NEW c \in Nodes, NEW n \in Nodes,
           NEW k, k = FailedJob(j, c, n),
           j.pc = "probe"
    PROVE  JobGood(k) /\ Unanswered(j, k, c, n)
<1>1. j \in JobType
  BY DEF JobGood
<1>2. j.ask \in SUBSET (Nodes \X Nodes) /\ j.cands \in SUBSET Nodes
  BY <1>1 DEF JobType
<1> DEFINE A == j.ask \ {<<c, n>>}
           B == {q \in j.ask : q[1] # c}
           C == j.cands \ {c}
<1>3. A \in SUBSET (Nodes \X Nodes) /\ B \in SUBSET (Nodes \X Nodes) /\ C \in SUBSET Nodes
  BY <1>2
<1>4. CASE c # n \/ j.kind = "setup"
  <2>1. k = [j EXCEPT !.ask = A]
    BY <1>4 DEF FailedJob
  <2> HIDE DEF A, B, C
  <2>2. /\ k \in JobType /\ k.kind = j.kind /\ k.pc = j.pc /\ k.subj = j.subj /\ k.prim = j.prim
        /\ k.cands = j.cands /\ k.ask = A /\ k.lsn = j.lsn /\ k.fol = j.fol /\ k.max = j.max
        /\ k.todo = j.todo /\ k.cur = j.cur /\ k.ok = j.ok
    BY <1>1, <1>3, <2>1 DEF JobType
  <2>3. JobGood(k)
    BY <2>2, NoJobType DEF JobGood
  <2>4. ~(c = n /\ j.kind = "elect")
    BY <1>4
  <2> QED BY <2>2, <2>3, <2>4 DEF Unanswered, Kept, A
<1>5. CASE ~(c # n \/ j.kind = "setup") /\ c # j.subj /\ j.kind = "recover"
  <2>1. k = [j EXCEPT !.ask = A, !.prim = Nil]
    BY <1>5 DEF FailedJob
  <2> HIDE DEF A, B, C
  <2>2. /\ k \in JobType /\ k.kind = j.kind /\ k.pc = j.pc /\ k.subj = j.subj /\ k.prim = Nil
        /\ k.cands = j.cands /\ k.ask = A /\ k.lsn = j.lsn /\ k.fol = j.fol /\ k.max = j.max
        /\ k.todo = j.todo /\ k.cur = j.cur /\ k.ok = j.ok
    BY <1>1, <1>3, <2>1 DEF JobType
  <2>3. Nil \notin j.todo
    BY <1>1, NodeAssumption DEF JobType
  <2>4. JobGood(k)
    BY <1>5, <2>2, <2>3, NoJobType DEF JobGood
  <2> QED BY <1>5, <2>2, <2>4 DEF Unanswered, Kept, A
<1>6. CASE ~(c # n \/ j.kind = "setup") /\ j.kind = "elect"
  <2>1. k = [j EXCEPT !.ask = B, !.cands = C]
    BY <1>6 DEF FailedJob
  <2> HIDE DEF A, B, C
  <2>2. /\ k \in JobType /\ k.kind = j.kind /\ k.pc = j.pc /\ k.subj = j.subj /\ k.prim = j.prim
        /\ k.cands = C /\ k.ask = B /\ k.lsn = j.lsn /\ k.fol = j.fol /\ k.max = j.max
        /\ k.todo = j.todo /\ k.cur = j.cur /\ k.ok = j.ok
    BY <1>1, <1>3, <2>1 DEF JobType
  <2>3. JobGood(k)
    BY <2>2, NoJobType DEF JobGood
  <2> QED BY <1>6, <2>2, <2>3 DEF Unanswered, Kept, B, C
<1>7. CASE ~(c # n \/ j.kind = "setup") /\ ~(c # j.subj /\ j.kind = "recover") /\ j.kind # "elect"
  <2>1. k = NoJob
    BY <1>7 DEF FailedJob
  <2> QED BY <1>7, <2>1, NoJobType DEF Unanswered
<1> QED BY <1>4, <1>5, <1>6, <1>7

\* The probe <<c, n>> of thread t.
Probes(t, c, n) ==
    /\ job[t].pc = "probe" /\ job[t] # NoJob /\ MayProbe(job[t], c, n)
    /\ \A s \in Threads \ {t} : job'[s] = job[s]
    /\ \/ /\ Reached(n) /\ view' = [view EXCEPT ![n] = Fresh(n)]
          /\ Answered(job[t], job'[t], c, n)
       \/ /\ Missed(n) /\ view' = view
          /\ Unanswered(job[t], job'[t], c, n)

\* A probe of either thread.
LEMMA ProbeFacts ==
    ASSUME TypeInv, NEW t \in Threads, NEW c \in Nodes, NEW n \in Nodes, Probe(t, c, n)
    PROVE  TypeInv' /\ Probes(t, c, n)
<1> DEFINE j == job[t]
<1>1. j.pc = "probe" /\ JobGood(j) /\ ProcInv /\ job \in [Threads -> JobType]
  BY TypeParts DEF Probe, JobInv
<1>2. j # NoJob
  BY <1>1, NoJobType
<1>3. \E k : /\ JobGood(k) /\ job' = [job EXCEPT ![t] = k]
             /\ \/ /\ Reached(n) /\ view' = [view EXCEPT ![n] = Fresh(n)] /\ Answered(j, k, c, n)
                \/ /\ Missed(n) /\ view' = view /\ Unanswered(j, k, c, n)
  <2>1. CASE ProbeOk(t, c, n)
    <3> DEFINE k == [j EXCEPT
             !.ask = @ \ (IF j.kind = "recover" THEN {<<c, n>>, <<n, n>>} ELSE {<<c, n>>}),
             !.lsn[n] = IF c # n /\ j.kind = "elect" THEN @ ELSE Lsn(n),
             !.fol[c] = IF c # n THEN @ \cup {n} ELSE @,
             !.max = IF Lsn(n) > @ THEN Lsn(n) ELSE @]
    <3>1. job' = [job EXCEPT ![t] = k]
      BY <2>1, <1>1, ZenonT(60) DEF ProbeOk
    <3>2. JobGood(k) /\ Answered(j, k, c, n)
      BY <1>1, <1>2, ProbeOkJob
    <3> HIDE DEF k
    <3> QED BY <2>1, <3>1, <3>2 DEF ProbeOk, cache_refreshed_node
  <2>2. CASE ProbeFailed(t, c, n)
    <3> DEFINE k == FailedJob(j, c, n)
    <3>1. job' = [job EXCEPT ![t] = k]
      BY <2>2, <1>1 DEF ProbeFailed, Done, FailedJob
    <3>2. JobGood(k) /\ Unanswered(j, k, c, n)
      BY <1>1, <1>2, ProbeFailedJob
    <3> HIDE DEF k
    <3> QED BY <2>2, <3>1, <3>2 DEF ProbeFailed
  <2> QED BY <2>1, <2>2 DEF Probe
<1>4. PICK k : /\ JobGood(k) /\ job' = [job EXCEPT ![t] = k]
             /\ \/ /\ Reached(n) /\ view' = [view EXCEPT ![n] = Fresh(n)] /\ Answered(j, k, c, n)
                \/ /\ Missed(n) /\ view' = view /\ Unanswered(j, k, c, n)
  BY <1>3
<1>5. job'[t] = k /\ \A s \in Threads \ {t} : job'[s] = job[s]
  BY <1>1, <1>4
<1>6. JobInv'
  BY <1>2, <1>4, TypeParts, OneJob DEF Probe
<1>7. ProcInv' /\ ReqInv'
  BY TypeParts, SameProc, SameReq DEF Probe
<1>8. lost' \in 0..MaxLost
  BY <1>4, TypeParts, CallTypes
<1>9. view' \in [Nodes -> TableEntry]
  BY <1>1, <1>4, TypeParts, FreshType
<1>10. TableInv'
  BY <1>8, <1>9, TypeParts DEF TableInv, Probe
<1>11. Probes(t, c, n)
  BY <1>1, <1>2, <1>4, <1>5 DEF Probes, Probe
<1> QED BY <1>6, <1>7, <1>10, <1>11 DEF TypeInv

\* Job j goes on as k with primary p, to be promoted or not.
GoneOn(j, k, pc, p) ==
    /\ Kept(j, k) /\ k.pc = pc /\ k.prim = p /\ k.ask = {} /\ k.cands = j.cands
    /\ k.lsn = j.lsn /\ k.max = j.max

WithPrimary(j, pc, p, F, ok) ==
    [j EXCEPT !.pc = pc, !.prim = p, !.todo = F, !.ask = {}, !.ok = ok]

\* A job that goes on with a primary and followers has the right shape.
LEMMA GoOnJob ==
    ASSUME NEW j, JobGood(j), j # NoJob, NEW pc \in {"promote", "sync"}, NEW p \in Nodes,
           NEW F \in NodeSets, p \notin F, NEW ok \in BOOLEAN,
           NEW k, k = WithPrimary(j, pc, p, F, ok)
    PROVE  JobGood(k) /\ GoneOn(j, k, pc, p) /\ k.ok = ok /\ k.todo = F
<1>1. j \in JobType
  BY DEF JobGood
<1>2. /\ k \in JobType /\ k.kind = j.kind /\ k.pc = pc /\ k.subj = j.subj /\ k.prim = p
      /\ k.cands = j.cands /\ k.ask = {} /\ k.lsn = j.lsn /\ k.fol = j.fol /\ k.max = j.max
      /\ k.todo = F /\ k.cur = j.cur /\ k.ok = ok
  BY <1>1 DEF JobType, NodeSets, WithPrimary
<1>3. JobGood(k)
  BY <1>2, NoJobType DEF JobGood
<1> QED BY <1>2, <1>3 DEF GoneOn, Kept

\* Job j ends, or goes on as k.
Chosen(j, k) ==
    \/ /\ k = NoJob
       /\ j.kind = "setup" => j.cands = {} \/ \E n \in j.cands : ~proc[n].up
    \/ /\ j.kind = "rebuild" /\ GoneOn(j, k, "promote", j.prim)
    \/ /\ j.kind = "elect" /\ \E c \in j.cands : j.lsn[c] >= j.max /\ GoneOn(j, k, "promote", c)
    \/ /\ j.kind = "recover" /\ \E p \in Nodes : GoneOn(j, k, "promote", p) \/ GoneOn(j, k, "sync", p)
    \/ /\ j.kind = "setup" /\ \A n \in j.cands : proc[n].up
       /\ \E n \in j.cands :
             /\ GoneOn(j, k, "promote", n) /\ k.ok = (j.cands = Nodes) /\ k.todo = j.cands \ {n}
             /\ \A m \in j.cands : j.lsn[m] <= j.lsn[n]
             /\ (j.subj \in j.cands /\ \A m \in j.cands : j.lsn[m] <= j.lsn[j.subj]) => n = j.subj

\* The step that makes it go on.
LEMMA GoOnFacts ==
    ASSUME JobInv, NEW t \in Threads, job[t] # NoJob, NEW pc \in {"promote", "sync"},
           NEW p \in Nodes, NEW F \in NodeSets, p \notin F, GoOn(t, pc, p, F)
    PROVE  \E k : /\ JobGood(k) /\ job' = [job EXCEPT ![t] = k]
                  /\ GoneOn(job[t], k, pc, p)
<1> DEFINE j == job[t]
           k == WithPrimary(j, pc, p, F, j.ok)
<1>1. JobGood(j) /\ j \in JobType /\ job \in [Threads -> JobType]
  BY DEF JobInv
<1>2. j.ok \in BOOLEAN
  BY <1>1 DEF JobType
<1>3. job' = [job EXCEPT ![t] = k]
  <2>1. [j EXCEPT !.pc = pc, !.prim = p, !.todo = F, !.ask = {}] = k
    BY <1>1 DEF JobType, WithPrimary
  <2>2. job' = [job EXCEPT ![t] = [j EXCEPT !.pc = pc, !.prim = p, !.todo = F, !.ask = {}]]
    BY <1>1 DEF GoOn
  <2> QED BY <2>1, <2>2
<1>4. JobGood(k) /\ GoneOn(j, k, pc, p)
  BY <1>1, <1>2, GoOnJob
<1> HIDE DEF k
<1> QED BY <1>3, <1>4

\* A step of thread t changes its job from j to k, and not the rounds of pings.
Steps(t, k) ==
    /\ JobGood(k) /\ job' = [job EXCEPT ![t] = k] /\ job'[t] = k
    /\ \A s \in Threads \ {t} : job'[s] = job[s]

\* A step of one thread's job leaves the other thread's alone.
LEMMA StepsFacts ==
    ASSUME JobInv, NEW t \in Threads, NEW k, JobGood(k), job' = [job EXCEPT ![t] = k],
           hb' = hb, job[t] # NoJob
    PROVE  Steps(t, k) /\ JobInv'
<1>1. job \in [Threads -> JobType]
  BY DEF JobInv
<1>2. JobInv'
  BY OneJob
<1> QED BY <1>1, <1>2 DEF Steps

\* So does the end of a job.
LEMMA DoneFacts ==
    ASSUME JobInv, NEW t \in Threads, Done(t), hb' = hb, job[t] # NoJob
    PROVE  Steps(t, NoJob) /\ JobInv'
  BY StepsFacts, NoJobType DEF Done

\* The choice of a primary, for each kind of job.
LEMMA ChosenFacts ==
    ASSUME TypeInv, NEW t \in Threads, Choose(t)
    PROVE  \E x : JobGood(x) /\ job' = [job EXCEPT ![t] = x] /\ Chosen(job[t], x)
<1> DEFINE j == job[t]
<1>1. /\ j.pc = "probe" /\ j.ask = {} /\ JobGood(j) /\ j \in JobType /\ JobInv
      /\ job \in [Threads -> JobType]
      /\ UNCHANGED <<proc, view, head, hb, round, req, lost, crashes>>
  BY TypeParts DEF Choose, JobInv
<1>2. j # NoJob
  BY <1>1, NoJobType
<1>3. /\ j.prim \in Nodes \cup {Nil} /\ j.cands \in SUBSET Nodes /\ j.fol \in [Nodes -> NodeSets]
      /\ j.lsn \in [Nodes -> Nat] /\ j.max \in Nat /\ j.subj \in Nodes \cup {Nil}
  BY <1>1 DEF JobType, NodeSets
<1>4. \A c \in Nodes : c \notin j.fol[c] /\ j.fol[c] \in NodeSets
  BY <1>1, <1>3 DEF JobGood
<1>5. ASSUME NEW k, JobGood(k), job' = [job EXCEPT ![t] = k], Chosen(j, k)
      PROVE  \E x : JobGood(x) /\ job' = [job EXCEPT ![t] = x] /\ Chosen(j, x)
  BY <1>5
<1>6. CASE j.kind = "rebuild" /\ GoOn(t, "promote", j.prim, j.fol[j.prim])
  <2>1. j.prim \in Nodes
    BY <1>1, <1>6 DEF JobGood
  <2>2. PICK k : /\ JobGood(k) /\ job' = [job EXCEPT ![t] = k]
                 /\ GoneOn(job[t], k, "promote", j.prim)
    BY <1>1, <1>2, <1>4, <1>6, <2>1, GoOnFacts
  <2>3. Chosen(j, k)
    BY <1>6, <2>2 DEF Chosen
  <2> QED BY <1>5, <2>2, <2>3
<1>7. CASE ChooseElected(t)
  <2>1. j.kind = "elect"
    BY <1>7 DEF ChooseElected
  <2>2. CASE Done(t)
    <3>1. Chosen(j, NoJob)
      BY <2>1 DEF Chosen
    <3> QED BY <1>5, <2>2, <3>1, NoJobType DEF Done
  <2>3. CASE ~Done(t)
    <3>1. PICK c \in j.cands : j.lsn[c] >= j.max /\ GoOn(t, "promote", c, j.fol[c])
      BY <1>7, <2>3 DEF ChooseElected
    <3>2. c \in Nodes
      BY <1>3, <3>1
    <3>3. PICK k : /\ JobGood(k) /\ job' = [job EXCEPT ![t] = k]
                   /\ GoneOn(job[t], k, "promote", c)
      BY <1>1, <1>2, <1>4, <3>1, <3>2, GoOnFacts
    <3>4. Chosen(j, k)
      BY <2>1, <3>1, <3>3 DEF Chosen
    <3> QED BY <1>5, <3>3, <3>4
  <2> QED BY <2>2, <2>3
<1>8. CASE ChooseRecovered(t)
  <2>1. j.kind = "recover"
    BY <1>8 DEF ChooseRecovered
  <2>2. j.subj \in Nodes
    BY <1>1, <2>1 DEF JobGood
  <2>3. CASE Done(t)
    <3>1. Chosen(j, NoJob)
      BY <2>1 DEF Chosen
    <3> QED BY <1>5, <2>3, <3>1, NoJobType DEF Done
  <2>4. CASE j.prim \notin {Nil, j.subj} /\ GoOn(t, "sync", j.prim, {j.subj})
    <3>1. j.prim \in Nodes /\ {j.subj} \in NodeSets /\ j.prim \notin {j.subj}
      BY <1>3, <2>2, <2>4 DEF NodeSets
    <3>2. PICK k : /\ JobGood(k) /\ job' = [job EXCEPT ![t] = k]
                   /\ GoneOn(job[t], k, "sync", j.prim)
      BY <1>1, <1>2, <2>4, <3>1, GoOnFacts
    <3>3. Chosen(j, k)
      BY <2>1, <3>1, <3>2 DEF Chosen
    <3> QED BY <1>5, <3>2, <3>3
  <2>5. CASE GoOn(t, "promote", j.subj, j.fol[j.subj])
    <3>1. PICK k : /\ JobGood(k) /\ job' = [job EXCEPT ![t] = k]
                   /\ GoneOn(job[t], k, "promote", j.subj)
      BY <1>1, <1>2, <1>4, <2>2, <2>5, GoOnFacts
    <3>2. Chosen(j, k)
      BY <2>1, <2>2, <3>1 DEF Chosen
    <3> QED BY <1>5, <3>1, <3>2
  <2> QED BY <1>8, <2>3, <2>4, <2>5 DEF ChooseRecovered
<1>9. CASE ChooseFirst(t)
  <2> DEFINE best == {n \in j.cands : \A m \in j.cands : j.lsn[m] <= j.lsn[n]}
  <2>1. j.kind = "setup"
    BY <1>9 DEF ChooseFirst
  <2>2. CASE j.cands = {} \/ \E n \in j.cands : ~proc[n].up
    <3>1. Chosen(j, NoJob)
      BY <2>2 DEF Chosen
    <3>2. Done(t)
      BY <1>9, <2>2 DEF ChooseFirst
    <3> QED BY <1>5, <3>1, <3>2, NoJobType DEF Done
  <2>3. CASE ~(j.cands = {} \/ \E n \in j.cands : ~proc[n].up)
    <3>1. PICK n \in (IF j.subj \in best THEN {j.subj} ELSE best) :
             job' = [job EXCEPT ![t].pc = "promote", ![t].prim = n,
                                ![t].todo = j.cands \ {n}, ![t].ok = j.cands = Nodes]
      BY <1>9, <2>3 DEF ChooseFirst
    <3>2. /\ n \in j.cands /\ n \in Nodes /\ \A m \in j.cands : j.lsn[m] <= j.lsn[n]
          /\ (j.subj \in j.cands /\ \A m \in j.cands : j.lsn[m] <= j.lsn[j.subj]) => n = j.subj
      BY <1>3, <3>1
    <3>3. j.cands \ {n} \in NodeSets /\ (j.cands = Nodes) \in BOOLEAN /\ n \notin j.cands \ {n}
      BY <1>3 DEF NodeSets
    <3> DEFINE F == j.cands \ {n}
               ok == j.cands = Nodes
               k == WithPrimary(j, "promote", n, F, ok)
    <3>4. job' = [job EXCEPT ![t] = k]
      <4>1. job' = [job EXCEPT ![t] = [j EXCEPT !.pc = "promote", !.prim = n, !.todo = F, !.ok = ok]]
        BY <1>1, <3>1
      <4> HIDE DEF F, ok
      <4>2. [j EXCEPT !.pc = "promote", !.prim = n, !.todo = F, !.ok = ok] = k
        BY <1>1 DEF JobType, WithPrimary
      <4> QED BY <4>1, <4>2
    <3>5. JobGood(k) /\ GoneOn(j, k, "promote", n) /\ k.ok = ok /\ k.todo = F
      <4>1. F \in NodeSets /\ ok \in BOOLEAN /\ n \notin F
        BY <3>3
      <4> HIDE DEF F, ok
      <4> QED BY <1>1, <1>2, <3>2, <4>1, GoOnJob
    <3> HIDE DEF k
    <3>6. Chosen(j, k)
      BY <2>1, <2>3, <3>2, <3>5 DEF Chosen
    <3> QED BY <1>5, <3>4, <3>5, <3>6
  <2> QED BY <2>2, <2>3
<1> QED BY <1>6, <1>7, <1>8, <1>9 DEF Choose

\* The step that chooses changes nothing but the job.
LEMMA ChooseFacts ==
    ASSUME TypeInv, NEW t \in Threads, Choose(t)
    PROVE  /\ TypeInv' /\ job[t].pc = "probe" /\ job[t].ask = {} /\ job[t] # NoJob
           /\ \A s \in Threads \ {t} : job'[s] = job[s]
           /\ Chosen(job[t], job'[t])
<1>1. /\ job[t].pc = "probe" /\ job[t].ask = {} /\ JobInv
      /\ UNCHANGED <<proc, view, head, hb, round, req, lost, crashes>>
  BY TypeParts DEF Choose
<1>2. job[t] # NoJob
  BY <1>1, NoJobType
<1>3. PICK k : JobGood(k) /\ job' = [job EXCEPT ![t] = k] /\ Chosen(job[t], k)
  BY ChosenFacts
<1>4. Steps(t, k) /\ JobInv'
  BY <1>1, <1>2, <1>3, StepsFacts
<1>5. ProcInv' /\ ReqInv' /\ TableInv'
  BY <1>1, TypeParts, SameProc, SameReq DEF TableInv
<1> QED BY <1>1, <1>2, <1>3, <1>4, <1>5 DEF TypeInv, Steps

\* The calls of a job change these parts of it.
Turned(j, pc, C, T, u, ok) ==
    [j EXCEPT !.pc = pc, !.cands = C, !.todo = T, !.cur = u, !.ok = ok]

TurnsTo(j, k, pc, C, T, ok) ==
    /\ Kept(j, k) /\ k.pc = pc /\ k.prim = j.prim /\ k.ask = j.ask /\ k.cands = C
    /\ k.lsn = j.lsn /\ k.max = j.max /\ k.todo = T /\ k.ok = ok

\* A job that turns to its next call has the right shape.
LEMMA TurnedJob ==
    ASSUME NEW j, JobGood(j), j # NoJob, j.prim \in Nodes, NEW pc \in {"probe", "sync", "add"},
           NEW C \in NodeSets, NEW T \in NodeSets, j.prim \notin T, NEW u \in MaybeNode,
           pc = "add" => u \in T, NEW ok \in BOOLEAN,
           NEW k, k = Turned(j, pc, C, T, u, ok)
    PROVE  JobGood(k) /\ TurnsTo(j, k, pc, C, T, ok) /\ k.cur = u
<1>1. j \in JobType
  BY DEF JobGood
<1>2. /\ k \in JobType /\ k.kind = j.kind /\ k.pc = pc /\ k.subj = j.subj /\ k.prim = j.prim
      /\ k.cands = C /\ k.ask = j.ask /\ k.lsn = j.lsn /\ k.fol = j.fol /\ k.max = j.max
      /\ k.todo = T /\ k.cur = u /\ k.ok = ok
  BY <1>1 DEF JobType, NodeSets, MaybeNode, Turned
<1>3. JobGood(k)
  BY <1>2, NoJobType DEF JobGood
<1> QED BY <1>2, <1>3 DEF TurnsTo, Kept

\* The updates of the model's actions are such turns.
LEMMA TurnedForms ==
    ASSUME NEW j \in JobType, NEW f, NEW T
    PROVE  /\ [j EXCEPT !.pc = "sync"] = Turned(j, "sync", j.cands, j.todo, j.cur, j.ok)
           /\ [j EXCEPT !.pc = "probe", !.cands = @ \ {f}]
                 = Turned(j, "probe", j.cands \ {f}, j.todo, j.cur, j.ok)
           /\ [j EXCEPT !.pc = "sync", !.todo = {}]
                 = Turned(j, "sync", j.cands, {}, j.cur, j.ok)
           /\ [j EXCEPT !.pc = "sync", !.ok = FALSE]
                 = Turned(j, "sync", j.cands, j.todo, j.cur, FALSE)
           /\ [j EXCEPT !.pc = "sync", !.todo = @ \ {f}, !.cur = Nil, !.ok = FALSE]
                 = Turned(j, "sync", j.cands, j.todo \ {f}, Nil, FALSE)
           /\ [j EXCEPT !.pc = "add", !.cur = f]
                 = Turned(j, "add", j.cands, j.todo, f, j.ok)
           /\ [j EXCEPT !.pc = "sync", !.todo = @ \ {f}, !.cur = Nil]
                 = Turned(j, "sync", j.cands, j.todo \ {f}, Nil, j.ok)
<1>1. [j EXCEPT !.pc = "sync"] = Turned(j, "sync", j.cands, j.todo, j.cur, j.ok)
  BY DEF JobType, Turned
<1>2. [j EXCEPT !.pc = "probe", !.cands = @ \ {f}]
                 = Turned(j, "probe", j.cands \ {f}, j.todo, j.cur, j.ok)
  BY DEF JobType, Turned
<1>3. [j EXCEPT !.pc = "sync", !.todo = {}] = Turned(j, "sync", j.cands, {}, j.cur, j.ok)
  BY DEF JobType, Turned
<1>4. [j EXCEPT !.pc = "sync", !.ok = FALSE]
                 = Turned(j, "sync", j.cands, j.todo, j.cur, FALSE)
  BY DEF JobType, Turned
<1>5. [j EXCEPT !.pc = "sync", !.todo = @ \ {f}, !.cur = Nil, !.ok = FALSE]
                 = Turned(j, "sync", j.cands, j.todo \ {f}, Nil, FALSE)
  BY DEF JobType, Turned
<1>6. [j EXCEPT !.pc = "add", !.cur = f] = Turned(j, "add", j.cands, j.todo, f, j.ok)
  BY DEF JobType, Turned
<1>7. [j EXCEPT !.pc = "sync", !.todo = @ \ {f}, !.cur = Nil]
                 = Turned(j, "sync", j.cands, j.todo \ {f}, Nil, j.ok)
  BY DEF JobType, Turned
<1> QED BY <1>1, <1>2, <1>3, <1>4, <1>5, <1>6, <1>7

\* A node is made the primary, or left as it is.
Promoted(p) ==
    /\ proc[p].up /\ Touches(p) /\ Marks
    /\ proc'[p].prim /\ proc'[p].reps = {} /\ proc'[p].log = proc[p].log

\* Job j goes on as k after the call to its primary.
Promotes(j, k) ==
    \/ /\ Reached(j.prim) /\ Promoted(j.prim) /\ TurnsTo(j, k, "sync", j.cands, j.todo, j.ok)
    \/ /\ Missed(j.prim) /\ (UNCHANGED <<proc, req>> \/ Promoted(j.prim))
       /\ \/ j.kind = "recover" /\ k = NoJob
          \/ j.kind = "elect" /\ TurnsTo(j, k, "probe", j.cands \ {j.prim}, j.todo, j.ok)
          \/ j.kind = "rebuild" /\ TurnsTo(j, k, "sync", j.cands, {}, j.ok)
          \/ j.kind = "setup" /\ TurnsTo(j, k, "sync", j.cands, j.todo, FALSE)

\* promote_node: the job after BECOME_PRIMARY, acknowledged or not.
LEMMA PromotesJob ==
    ASSUME TypeInv, NEW t \in Threads, promote_node(t)
    PROVE  \E k : JobGood(k) /\ job' = [job EXCEPT ![t] = k] /\ Promotes(job[t], k)
<1> DEFINE j == job[t]
           p == j.prim
<1>1. /\ j.pc = "promote" /\ JobGood(j) /\ j \in JobType /\ job \in [Threads -> JobType]
      /\ ProcInv /\ ReqInv
  BY TypeParts DEF promote_node, JobInv
<1>2. j # NoJob /\ j.kind \in {"rebuild", "elect", "recover", "setup"}
  BY <1>1, NoJobType DEF JobGood, JobType
<1>3. p \in Nodes /\ p \notin j.todo /\ j.prim \in Nodes /\ j.prim \notin j.todo
  BY <1>1 DEF JobGood
<1>4. /\ j.cands \in NodeSets /\ j.cands \ {p} \in NodeSets /\ j.todo \in NodeSets
      /\ {} \in NodeSets /\ j.cur \in MaybeNode /\ j.ok \in BOOLEAN
  BY <1>1 DEF JobType, NodeSets, MaybeNode
<1>5. become_primary(p) /\ proc[p].up => Promoted(p)
  BY <1>1, <1>3, BecomePrimary DEF Promoted
<1> HIDE DEF p
<1>6. CASE /\ Reached(p) /\ become_primary(p) /\ job' = [job EXCEPT ![t].pc = "sync"]
  <2> DEFINE k == Turned(j, "sync", j.cands, j.todo, j.cur, j.ok)
  <2>1. job' = [job EXCEPT ![t] = k]
    BY <1>1, <1>6, TurnedForms
  <2>2. JobGood(k) /\ TurnsTo(j, k, "sync", j.cands, j.todo, j.ok)
    BY <1>1, <1>2, <1>3, <1>4, TurnedJob
  <2>3. Promotes(j, k)
    BY <1>5, <1>6, <2>2 DEF Promotes, p, Reached
  <2> QED BY <2>1, <2>2, <2>3
<1>7. ASSUME Missed(p), UNCHANGED <<proc, req>> \/ (proc[p].up /\ become_primary(p))
      PROVE  Missed(j.prim) /\ (UNCHANGED <<proc, req>> \/ Promoted(j.prim))
  BY <1>5, <1>7 DEF p
<1>8. CASE /\ Missed(p) /\ (UNCHANGED <<proc, req>> \/ (proc[p].up /\ become_primary(p)))
           /\ j.kind = "elect" /\ job' = [job EXCEPT ![t].pc = "probe", ![t].cands = @ \ {p}]
  <2> DEFINE k == Turned(j, "probe", j.cands \ {p}, j.todo, j.cur, j.ok)
  <2>1. job' = [job EXCEPT ![t] = k]
    <3>1. job' = [job EXCEPT ![t] = [j EXCEPT !.pc = "probe", !.cands = @ \ {p}]]
      BY <1>1, <1>8
    <3> QED BY <1>1, <3>1, TurnedForms
  <2> DEFINE C == j.cands \ {p}
  <2>2. JobGood(k) /\ TurnsTo(j, k, "probe", C, j.todo, j.ok)
    <3>1. k = Turned(j, "probe", C, j.todo, j.cur, j.ok) /\ C \in NodeSets
      BY <1>4
    <3> HIDE DEF k, C
    <3> QED BY <1>1, <1>2, <1>3, <1>4, <3>1, TurnedJob
  <2> HIDE DEF k
  <2>3. Promotes(j, k)
    BY <1>7, <1>8, <2>2 DEF Promotes, p
  <2> QED BY <2>1, <2>2, <2>3
<1>9. CASE /\ Missed(p) /\ (UNCHANGED <<proc, req>> \/ (proc[p].up /\ become_primary(p)))
           /\ j.kind = "recover" /\ Done(t)
  <2>1. Promotes(j, NoJob)
    BY <1>7, <1>9 DEF Promotes
  <2> QED BY <1>9, <2>1, NoJobType DEF Done
<1>10. CASE /\ Missed(p) /\ (UNCHANGED <<proc, req>> \/ (proc[p].up /\ become_primary(p)))
            /\ j.kind = "rebuild" /\ job' = [job EXCEPT ![t].pc = "sync", ![t].todo = {}]
  <2> DEFINE k == Turned(j, "sync", j.cands, {}, j.cur, j.ok)
  <2>1. job' = [job EXCEPT ![t] = k]
    <3>1. job' = [job EXCEPT ![t] = [j EXCEPT !.pc = "sync", !.todo = {}]]
      BY <1>1, <1>10
    <3> QED BY <1>1, <3>1, TurnedForms
  <2>2. JobGood(k) /\ TurnsTo(j, k, "sync", j.cands, {}, j.ok)
    BY <1>1, <1>2, <1>3, <1>4, TurnedJob
  <2> HIDE DEF k
  <2>3. Promotes(j, k)
    BY <1>7, <1>10, <2>2 DEF Promotes
  <2> QED BY <2>1, <2>2, <2>3
<1>11. CASE /\ Missed(p) /\ (UNCHANGED <<proc, req>> \/ (proc[p].up /\ become_primary(p)))
            /\ j.kind = "setup" /\ job' = [job EXCEPT ![t].pc = "sync", ![t].ok = FALSE]
  <2> DEFINE k == Turned(j, "sync", j.cands, j.todo, j.cur, FALSE)
  <2>1. job' = [job EXCEPT ![t] = k]
    <3>1. job' = [job EXCEPT ![t] = [j EXCEPT !.pc = "sync", !.ok = FALSE]]
      BY <1>1, <1>11
    <3> QED BY <1>1, <3>1, TurnedForms
  <2>2. JobGood(k) /\ TurnsTo(j, k, "sync", j.cands, j.todo, FALSE)
    <3> DEFINE no == FALSE
    <3>1. k = Turned(j, "sync", j.cands, j.todo, j.cur, no) /\ no \in BOOLEAN
      OBVIOUS
    <3> HIDE DEF k, no
    <3>2. JobGood(k) /\ TurnsTo(j, k, "sync", j.cands, j.todo, no)
      BY <1>1, <1>2, <1>3, <1>4, <3>1, TurnedJob
    <3> QED BY <3>2 DEF no
  <2> HIDE DEF k
  <2>3. Promotes(j, k)
    BY <1>7, <1>11, <2>2 DEF Promotes
  <2> QED BY <2>1, <2>2, <2>3
<1>12. \/ /\ Reached(p) /\ become_primary(p) /\ job' = [job EXCEPT ![t].pc = "sync"]
       \/ /\ Missed(p) /\ (UNCHANGED <<proc, req>> \/ (proc[p].up /\ become_primary(p)))
          /\ \/ j.kind = "elect" /\ job' = [job EXCEPT ![t].pc = "probe", ![t].cands = @ \ {p}]
             \/ j.kind = "recover" /\ Done(t)
             \/ j.kind = "rebuild" /\ job' = [job EXCEPT ![t].pc = "sync", ![t].todo = {}]
             \/ j.kind = "setup" /\ job' = [job EXCEPT ![t].pc = "sync", ![t].ok = FALSE]
  BY <1>2 DEF promote_node, p
<1> QED BY <1>6, <1>8, <1>9, <1>10, <1>11, <1>12

\* promote_node, the whole step.
LEMMA PromoteFacts ==
    ASSUME TypeInv, NEW t \in Threads, promote_node(t)
    PROVE  /\ TypeInv' /\ job[t].pc = "promote" /\ job[t] # NoJob /\ job[t].prim \in Nodes
           /\ \A s \in Threads \ {t} : job'[s] = job[s]
           /\ Promotes(job[t], job'[t])
<1> DEFINE j == job[t]
<1>1. /\ j.pc = "promote" /\ JobGood(j) /\ ProcInv /\ ReqInv /\ JobInv
      /\ UNCHANGED <<view, head, hb, round, crashes>>
  BY TypeParts DEF promote_node, JobInv
<1>2. j # NoJob /\ j.prim \in Nodes
  BY <1>1, NoJobType DEF JobGood
<1>3. PICK k : JobGood(k) /\ job' = [job EXCEPT ![t] = k] /\ Promotes(j, k)
  BY PromotesJob
<1>4. Steps(t, k) /\ JobInv'
  BY <1>1, <1>2, <1>3, StepsFacts
<1>5. (Reached(j.prim) \/ Missed(j.prim)) /\ (UNCHANGED <<proc, req>> \/ Promoted(j.prim))
  BY <1>3 DEF Promotes
<1>6. lost' \in 0..MaxLost
  BY <1>5, TypeParts, CallTypes
<1>7. TableInv'
  BY <1>1, <1>6, TypeParts DEF TableInv
<1>8. ProcInv' /\ ReqInv'
  <2>1. CASE UNCHANGED <<proc, req>>
    BY <1>1, <2>1, SameProc, SameReq
  <2>2. CASE Promoted(j.prim)
    <3>1. ProcInv'
      BY <1>1, <1>2, <2>2, TouchProc DEF Promoted
    <3>2. \A n \in Nodes : proc[n].up => proc'[n].up
      BY <2>2 DEF Promoted, Touches
    <3> QED BY <1>1, <2>2, <3>1, <3>2, MarksReq DEF Promoted
  <2> QED BY <1>5, <2>1, <2>2
<1> QED BY <1>1, <1>2, <1>3, <1>4, <1>7, <1>8 DEF TypeInv, Steps

\* A follower is left out.
Skips(j, k, f) ==
    \/ j.kind = "recover" /\ k = NoJob
    \/ TurnsTo(j, k, "sync", j.cands, j.todo \ {f}, FALSE)

\* A follower that cannot be reached is left out.
LEMMA SkipFacts ==
    ASSUME JobInv, NEW t \in Threads, NEW f, job[t].pc \in {"sync", "add"},
           SkipFollower(t, f)
    PROVE  \E k : JobGood(k) /\ job' = [job EXCEPT ![t] = k] /\ Skips(job[t], k, f)
<1> DEFINE j == job[t]
<1>1. JobGood(j) /\ j \in JobType /\ job \in [Threads -> JobType]
  BY DEF JobInv
<1>2. CASE Following(j)
  <2>1. Done(t) /\ Skips(j, NoJob, f)
    BY <1>2 DEF SkipFollower, Skips, Following
  <2> QED BY <2>1, NoJobType DEF Done
<1>3. CASE ~Following(j)
  <2> DEFINE T == j.todo \ {f}
             no == FALSE
             k == Turned(j, "sync", j.cands, T, Nil, no)
  <2>1. job' = [job EXCEPT ![t] = k]
    <3>1. job' = [job EXCEPT ![t] = [j EXCEPT !.pc = "sync", !.todo = @ \ {f}, !.cur = Nil,
                                              !.ok = FALSE]]
      BY <1>1, <1>3 DEF SkipFollower
    <3> QED BY <1>1, <3>1, TurnedForms
  <2>2. /\ j # NoJob /\ j.prim \in Nodes /\ j.cands \in NodeSets /\ T \in NodeSets
        /\ j.prim \notin T /\ Nil \in MaybeNode /\ no \in BOOLEAN
    BY <1>1, NoJobType DEF JobGood, JobType, NodeSets, MaybeNode
  <2>3. JobGood(k) /\ TurnsTo(j, k, "sync", j.cands, T, no)
    <3>1. k = Turned(j, "sync", j.cands, T, Nil, no)
      OBVIOUS
    <3> HIDE DEF k, T, no
    <3> QED BY <1>1, <2>2, <3>1, TurnedJob
  <2>4. Skips(j, k, f)
    <3> HIDE DEF k
    <3> QED BY <2>3 DEF Skips
  <2> HIDE DEF k
  <2> QED BY <2>1, <2>3, <2>4
<1> QED BY <1>2, <1>3

\* Node f is made a secondary and has synced from p, or has not.
Demoted(f, p) ==
    /\ proc[f].up /\ Touches(f) /\ Marks
    /\ ~proc'[f].prim /\ proc'[f].reps = {}
    /\ \/ proc'[f].log = proc[f].log
       \/ proc[p].up /\ proc'[f].log \in Synced(proc[f].log, proc[p].log)

\* Job j goes on as k after the call to follower f.
Demotes(j, k, f) ==
    /\ UNCHANGED <<proc, req>> \/ Demoted(f, j.prim)
    /\ \/ /\ Reached(f) /\ proc[j.prim].up
          /\ TurnsTo(j, k, "add", j.cands, j.todo, j.ok) /\ k.cur = f
       \/ /\ (Reached(f) /\ ~proc[j.prim].up) \/ Missed(f)
          /\ Skips(j, k, f)

\* demote_and_sync_node: the job after BECOME_SECONDARY.
LEMMA DemotesJob ==
    ASSUME TypeInv, NEW t \in Threads, NEW f \in Nodes, demote_and_sync_node(t, f)
    PROVE  \E k : JobGood(k) /\ job' = [job EXCEPT ![t] = k] /\ Demotes(job[t], k, f)
<1> DEFINE j == job[t]
           p == j.prim
<1>1. /\ j.pc = "sync" /\ f \in j.todo /\ JobGood(j) /\ j \in JobType
      /\ job \in [Threads -> JobType] /\ ProcInv /\ ReqInv /\ JobInv
  BY TypeParts DEF demote_and_sync_node, JobInv
<1>2. j # NoJob /\ p \in Nodes /\ p \notin j.todo
  BY <1>1, NoJobType DEF JobGood
<1>3. /\ j.cands \in NodeSets /\ j.todo \in NodeSets /\ f \in MaybeNode /\ j.ok \in BOOLEAN
  BY <1>1 DEF JobType, NodeSets, MaybeNode
<1>4. ASSUME NEW s \in BOOLEAN, s => proc[p].up, proc[f].up, become_secondary(f, p, s)
      PROVE  Demoted(f, p)
  <2>1. /\ Touches(f) /\ Marks /\ ~proc'[f].prim /\ proc'[f].reps = {}
        /\ \/ proc'[f].log = proc[f].log
           \/ s /\ proc'[f].log \in Synced(proc[f].log, proc[p].log)
    BY <1>1, <1>2, <1>4, BecomeSecondary
  <2> QED BY <1>4, <2>1 DEF Demoted
<1>5. CASE /\ Reached(f) /\ proc[p].up /\ become_secondary(f, p, TRUE)
           /\ job' = [job EXCEPT ![t].pc = "add", ![t].cur = f]
  <2>1. Demoted(f, p)
    <3> DEFINE yes == TRUE
    <3>1. become_secondary(f, p, yes) /\ yes \in BOOLEAN
      BY <1>5
    <3> HIDE DEF yes
    <3> QED BY <1>4, <1>5, <3>1 DEF Reached
  <2> DEFINE k == Turned(j, "add", j.cands, j.todo, f, j.ok)
  <2>2. job' = [job EXCEPT ![t] = k]
    <3>1. job' = [job EXCEPT ![t] = [j EXCEPT !.pc = "add", !.cur = f]]
      BY <1>1, <1>5
    <3> QED BY <1>1, <3>1, TurnedForms
  <2>3. JobGood(k) /\ TurnsTo(j, k, "add", j.cands, j.todo, j.ok) /\ k.cur = f
    BY <1>1, <1>2, <1>3, TurnedJob
  <2> HIDE DEF k
  <2>4. Demotes(j, k, f)
    BY <1>5, <2>1, <2>3 DEF Demotes
  <2> QED BY <2>2, <2>3, <2>4
<1>6. CASE /\ Reached(f) /\ ~proc[p].up /\ become_secondary(f, p, FALSE)
           /\ SkipFollower(t, f)
  <2>1. Demoted(f, p)
    <3> DEFINE no == FALSE
    <3>1. become_secondary(f, p, no) /\ no \in BOOLEAN /\ ~no
      BY <1>6
    <3> HIDE DEF no
    <3> QED BY <1>4, <1>6, <3>1 DEF Reached
  <2>2. PICK k : JobGood(k) /\ job' = [job EXCEPT ![t] = k] /\ Skips(j, k, f)
    BY <1>1, <1>6, SkipFacts
  <2>3. Demotes(j, k, f)
    BY <1>6, <2>1, <2>2 DEF Demotes
  <2> QED BY <2>2, <2>3
<1>7. CASE /\ Missed(f)
           /\ \/ UNCHANGED <<proc, req>>
              \/ proc[f].up /\ become_secondary(f, p, proc[p].up)
           /\ SkipFollower(t, f)
  <2>1. UNCHANGED <<proc, req>> \/ Demoted(f, p)
    <3>1. proc[p].up \in BOOLEAN
      BY <1>1, <1>2 DEF ProcInv, ProcType
    <3> QED BY <1>4, <1>7, <3>1
  <2>2. PICK k : JobGood(k) /\ job' = [job EXCEPT ![t] = k] /\ Skips(j, k, f)
    BY <1>1, <1>7, SkipFacts
  <2>3. Demotes(j, k, f)
    BY <1>7, <2>1, <2>2 DEF Demotes
  <2> QED BY <2>2, <2>3
<1> QED BY <1>5, <1>6, <1>7 DEF demote_and_sync_node

\* demote_and_sync_node, the whole step.
LEMMA DemoteFacts ==
    ASSUME TypeInv, NEW t \in Threads, NEW f \in Nodes, demote_and_sync_node(t, f)
    PROVE  /\ TypeInv' /\ job[t].pc = "sync" /\ job[t] # NoJob /\ job[t].prim \in Nodes
           /\ f \in job[t].todo /\ f # job[t].prim
           /\ \A s \in Threads \ {t} : job'[s] = job[s]
           /\ Demotes(job[t], job'[t], f)
<1> DEFINE j == job[t]
<1>1. /\ j.pc = "sync" /\ f \in j.todo /\ JobGood(j) /\ ProcInv /\ ReqInv /\ JobInv
      /\ UNCHANGED <<view, head, hb, round, crashes>>
  BY TypeParts DEF demote_and_sync_node, JobInv
<1>2. j # NoJob /\ j.prim \in Nodes /\ f # j.prim
  BY <1>1, NoJobType DEF JobGood
<1>3. PICK k : JobGood(k) /\ job' = [job EXCEPT ![t] = k] /\ Demotes(j, k, f)
  BY DemotesJob
<1>4. Steps(t, k) /\ JobInv'
  BY <1>1, <1>2, <1>3, StepsFacts
<1>5. (Reached(f) \/ Missed(f)) /\ (UNCHANGED <<proc, req>> \/ Demoted(f, j.prim))
  BY <1>3 DEF Demotes
<1>6. lost' \in 0..MaxLost
  BY <1>5, TypeParts, CallTypes
<1>7. TableInv'
  BY <1>1, <1>6, TypeParts DEF TableInv
<1>8. ProcInv' /\ ReqInv'
  <2>1. CASE UNCHANGED <<proc, req>>
    BY <1>1, <2>1, SameProc, SameReq
  <2>2. CASE Demoted(f, j.prim)
    <3>1. ProcInv'
      BY <1>1, <2>2, TouchProc DEF Demoted
    <3>2. \A n \in Nodes : proc[n].up => proc'[n].up
      BY <2>2 DEF Demoted, Touches
    <3> QED BY <1>1, <2>2, <3>1, <3>2, MarksReq DEF Demoted
  <2> QED BY <1>5, <2>1, <2>2
<1> QED BY <1>1, <1>2, <1>3, <1>4, <1>7, <1>8 DEF TypeInv, Steps

\* Node p counts f among its replicas.
Added(p, f) ==
    /\ proc[p].up /\ Touches(p) /\ proc'[p].prim = proc[p].prim
    /\ proc'[p].log = proc[p].log /\ proc'[p].reps = proc[p].reps \cup {f}

\* Job j goes on as k after its follower is added.
Adds(j, k) ==
    /\ proc' = proc \/ Added(j.prim, j.cur)
    /\ \/ /\ Reached(j.prim) /\ Added(j.prim, j.cur)
          /\ TurnsTo(j, k, "sync", j.cands, j.todo \ {j.cur}, j.ok)
       \/ Missed(j.prim) /\ Skips(j, k, j.cur)

\* add_replica_to_primary, the whole step.
LEMMA AddFacts ==
    ASSUME TypeInv, NEW t \in Threads, add_replica_to_primary(t)
    PROVE  /\ TypeInv' /\ job[t].pc = "add" /\ job[t] # NoJob /\ job[t].prim \in Nodes
           /\ job[t].cur \in Nodes /\ job[t].cur # job[t].prim
           /\ \A s \in Threads \ {t} : job'[s] = job[s]
           /\ Adds(job[t], job'[t])
<1> DEFINE j == job[t]
           p == j.prim
           f == j.cur
<1>1. /\ j.pc = "add" /\ JobGood(j) /\ j \in JobType /\ ProcInv /\ ReqInv /\ JobInv
      /\ job \in [Threads -> JobType]
      /\ UNCHANGED <<view, head, hb, round, req, crashes>>
  BY TypeParts DEF add_replica_to_primary, JobInv
<1>2. j # NoJob /\ p \in Nodes /\ f \in Nodes /\ f # p
  BY <1>1, NoJobType DEF JobGood, JobType
<1>3. add_replica(p, f) /\ proc[p].up => Added(p, f)
  BY <1>1, <1>2, AddReplica DEF Added
<1>4. \E k : JobGood(k) /\ job' = [job EXCEPT ![t] = k] /\ Adds(j, k)
  <2>1. CASE /\ Reached(p) /\ add_replica(p, f)
             /\ job' = [job EXCEPT ![t].pc = "sync", ![t].todo = @ \ {f}, ![t].cur = Nil]
    <3> DEFINE T == j.todo \ {f}
               k == Turned(j, "sync", j.cands, T, Nil, j.ok)
    <3>1. job' = [job EXCEPT ![t] = k]
      <4>1. job' = [job EXCEPT ![t] = [j EXCEPT !.pc = "sync", !.todo = @ \ {f}, !.cur = Nil]]
        BY <1>1, <2>1
      <4> QED BY <1>1, <4>1, TurnedForms
    <3>2. /\ j.cands \in NodeSets /\ T \in NodeSets /\ p \notin T /\ Nil \in MaybeNode
          /\ j.ok \in BOOLEAN
      BY <1>1 DEF JobGood, JobType, NodeSets, MaybeNode
    <3>3. JobGood(k) /\ TurnsTo(j, k, "sync", j.cands, T, j.ok)
      <4>1. k = Turned(j, "sync", j.cands, T, Nil, j.ok)
        OBVIOUS
      <4> HIDE DEF k, T
      <4> QED BY <1>1, <1>2, <3>2, <4>1, TurnedJob
    <3> HIDE DEF k
    <3>4. Adds(j, k)
      BY <1>3, <2>1, <3>3 DEF Adds, Reached
    <3> QED BY <3>1, <3>3, <3>4
  <2>2. CASE /\ Missed(p) /\ (UNCHANGED proc \/ (proc[p].up /\ add_replica(p, f)))
             /\ SkipFollower(t, f)
    <3>1. PICK k : JobGood(k) /\ job' = [job EXCEPT ![t] = k] /\ Skips(j, k, f)
      BY <1>1, <2>2, SkipFacts
    <3>2. Adds(j, k)
      BY <1>3, <2>2, <3>1 DEF Adds
    <3> QED BY <3>1, <3>2
  <2> QED BY <2>1, <2>2 DEF add_replica_to_primary
<1>5. PICK k : JobGood(k) /\ job' = [job EXCEPT ![t] = k] /\ Adds(j, k)
  BY <1>4
<1>6. Steps(t, k) /\ JobInv'
  BY <1>1, <1>2, <1>5, StepsFacts
<1>7. (Reached(p) \/ Missed(p)) /\ (proc' = proc \/ Added(p, f))
  BY <1>5 DEF Adds
<1>8. lost' \in 0..MaxLost
  BY <1>7, TypeParts, CallTypes
<1>9. TableInv'
  BY <1>1, <1>8, TypeParts DEF TableInv
<1>10. ProcInv' /\ ReqInv'
  <2>1. CASE proc' = proc
    BY <1>1, <2>1, SameProc, SameReq
  <2>2. CASE Added(p, f)
    <3>1. p \notin proc'[p].reps
      BY <1>1, <1>2, <2>2 DEF Added, ProcInv
    <3>2. ProcInv'
      BY <1>1, <1>2, <2>2, <3>1, TouchProc DEF Added
    <3>3. \A n \in Nodes : proc[n].up => proc'[n].up
      BY <2>2 DEF Added, Touches
    <3> QED BY <1>1, <2>2, <3>2, <3>3, MarksReq
  <2> QED BY <1>7, <2>1, <2>2
<1> QED BY <1>1, <1>2, <1>5, <1>6, <1>9, <1>10 DEF TypeInv, Steps

\* The table is told that node n is alive.
Revives(n) ==
    /\ view' \in [Nodes -> TableEntry]
    /\ \A m \in Nodes \ {n} : view'[m] = view[m]
    /\ view'[n].alive /\ view'[n].down = view[n].down /\ view'[n].missed = view[n].missed
    /\ view'[n].lsn = view[n].lsn /\ view'[n].pid = view[n].pid

\* Marking a node alive in the table.
LEMMA RevivesFacts ==
    ASSUME TableInv, NEW n \in Nodes, view' = [view EXCEPT ![n].alive = TRUE]
    PROVE  Revives(n)
<1>1. view \in [Nodes -> TableEntry] /\ view[n] \in TableEntry
  BY DEF TableInv
<1> DEFINE e == [view[n] EXCEPT !.alive = TRUE]
<1>2. /\ e \in TableEntry /\ e.alive /\ e.down = view[n].down /\ e.missed = view[n].missed
      /\ e.lsn = view[n].lsn /\ e.pid = view[n].pid
  BY <1>1 DEF TableEntry
<1>3. view' = [view EXCEPT ![n] = e]
  BY <1>1
<1> HIDE DEF e
<1> QED BY <1>1, <1>2, <1>3 DEF Revives

\* Job j is over.
Commits(j) ==
    \/ j.kind = "elect" /\ head' = j.prim /\ Revives(j.prim) /\ round' = round
    \/ j.kind = "rebuild" /\ head' = head /\ Revives(j.prim) /\ round' = round
    \/ /\ j.kind = "recover" /\ head' \in {head, j.prim} /\ Revives(j.subj) /\ round' = round
    \/ /\ j.kind = "setup" /\ head' = (IF j.ok THEN j.prim ELSE head) /\ view' = view
       /\ round' = (IF j.ok THEN MaxRounds ELSE round)

\* The end of a job: the primary in the table, and the rounds.
LEMMA CommitFacts ==
    ASSUME TypeInv, NEW t \in Threads, Commit(t)
    PROVE  /\ TypeInv' /\ job[t].pc = "sync" /\ job[t].todo = {} /\ job[t] # NoJob
           /\ job[t].prim \in Nodes /\ job'[t] = NoJob
           /\ \A s \in Threads \ {t} : job'[s] = job[s]
           /\ Commits(job[t])
<1> DEFINE j == job[t]
<1>1. /\ j.pc = "sync" /\ j.todo = {} /\ JobGood(j) /\ j \in JobType /\ TableInv /\ JobInv
      /\ Done(t) /\ UNCHANGED <<proc, hb, req, lost, crashes>>
  BY TypeParts DEF Commit, JobInv
<1>2. j # NoJob /\ j.prim \in Nodes
  BY <1>1, NoJobType DEF JobGood
<1>3. Steps(t, NoJob) /\ JobInv'
  BY <1>1, <1>2, DoneFacts
<1>4. Commits(j)
  <2>1. CASE CommitElected(j)
    BY <1>1, <1>2, <2>1, RevivesFacts DEF CommitElected, Commits
  <2>2. CASE CommitRebuilt(j)
    BY <1>1, <1>2, <2>2, RevivesFacts DEF CommitRebuilt, Commits
  <2>3. CASE CommitRecovered(j)
    <3>1. j.subj \in Nodes
      BY <1>1, <2>3 DEF CommitRecovered, JobGood
    <3> QED BY <1>1, <2>3, <3>1, RevivesFacts DEF CommitRecovered, Commits
  <2>4. CASE CommitFirst(j)
    BY <2>4 DEF CommitFirst, Commits
  <2> QED BY <2>1, <2>2, <2>3, <2>4 DEF Commit
<1>5. view' \in [Nodes -> TableEntry] /\ head' \in Nodes /\ round' \in 0..MaxRounds
  BY <1>1, <1>2, <1>4, BoundAssumption DEF Commits, Revives, TableInv
<1>6. ProcInv' /\ ReqInv' /\ TableInv'
  BY <1>1, <1>5, TypeParts, SameProc, SameReq DEF TableInv
<1> QED BY <1>1, <1>2, <1>3, <1>4, <1>6 DEF TypeInv, Steps

-----------------------------------------------------------------------------
(* The clients' steps, the kills and the restarts. *)

\* Only request r changes.
Only(r) == \A s \in Requests \ {r} : req'[s] = req[s]

\* Request r goes on.
GoesOn(r, pc, n) ==
    /\ req'[r].pc = pc /\ req'[r].node = n /\ req'[r].result = req[r].result
    /\ req'[r].undo = req[r].undo

\* A client that starts again has a fresh request.
LEMMA AgainFacts ==
    ASSUME ReqInv, NEW r \in Requests, Again(r), proc' = proc
    PROVE  ReqInv' /\ Only(r) /\ req'[r] = Idle
<1>1. ReqGood(Idle) /\ Idle.pc \notin {"queued", "send"}
  BY IdleType, EmptyGood
<1>2. req' = [req EXCEPT ![r] = Idle] /\ req \in [Requests -> ReqType]
  BY DEF Again, ReqInv
<1>3. ReqInv'
  BY <1>1, <1>2, OneRequest
<1> QED BY <1>2, <1>3 DEF Only

\* Request r has its own next step and node.
MovedReq(q, pc, n, e) == [q EXCEPT !.pc = pc, !.node = n, !.got = e]

\* A request that goes on to its next step.
LEMMA MovedFacts ==
    ASSUME ReqInv, NEW r \in Requests, NEW pc \in {"probed", "target", "queued"},
           NEW n \in Nodes, NEW e, e \in TableEntry \/ (pc # "probed" /\ e = Nil),
           req' = [req EXCEPT ![r] = MovedReq(req[r], pc, n, e)],
           pc = "queued" => proc[n].up, proc' = proc
    PROVE  ReqInv' /\ Only(r) /\ GoesOn(r, pc, n) /\ req'[r].got = e
<1> DEFINE q == MovedReq(req[r], pc, n, e)
<1>1. req[r] \in ReqType /\ ReqGood(req[r]) /\ req \in [Requests -> ReqType]
  BY DEF ReqInv
<1>2. /\ q \in ReqType /\ q.pc = pc /\ q.node = n /\ q.got = e /\ q.result = req[r].result
      /\ q.undo = req[r].undo /\ q.left = req[r].left /\ q.acked = req[r].acked
  BY <1>1 DEF ReqType, MovedReq
<1> HIDE DEF q
<1>3. ReqGood(q)
  BY <1>1, <1>2 DEF ReqGood
<1>4. req' = [req EXCEPT ![r] = q]
  BY DEF q
<1>5. ReqInv'
  BY <1>2, <1>3, <1>4, OneRequest
<1>6. req'[r] = q /\ Only(r)
  BY <1>1, <1>4 DEF Only
<1> QED BY <1>2, <1>5, <1>6 DEF GoesOn

\* handle_lookup, its probe.
LEMMA LookupFacts ==
    ASSUME TypeInv, NEW r \in Requests, handle_lookup(r)
    PROVE  /\ TypeInv' /\ Only(r) /\ GoesOn(r, "probed", head) /\ req'[r].got = Fresh(head)
           /\ req[r].pc = "new" /\ Alive(head) /\ Reached(head)
<1>1. /\ req[r].pc = "new" /\ Alive(head) /\ Reached(head)
      /\ UNCHANGED <<proc, view, head, hb, job, round, crashes>>
  BY DEF handle_lookup
<1>2. head \in Nodes /\ Fresh(head) \in TableEntry
  BY TypeParts, FreshType
<1>3. req' = [req EXCEPT ![r] = MovedReq(req[r], "probed", head, Fresh(head))]
  BY TypeParts DEF handle_lookup, MovedReq
<1>4. ReqInv' /\ Only(r) /\ GoesOn(r, "probed", head) /\ req'[r].got = Fresh(head)
  BY <1>1, <1>2, <1>3, TypeParts, MovedFacts
<1>5. lost' \in 0..MaxLost
  BY <1>1, TypeParts DEF Reached
<1>6. ProcInv' /\ TableInv' /\ JobInv'
  BY <1>1, <1>5, TypeParts, SameProc DEF TableInv, JobInv, Pinged
<1> QED BY <1>1, <1>4, <1>6 DEF TypeInv

\* The answer of LOOKUP to r, with the entry it leaves in the table.
Answers(r) ==
    /\ \/ view' = view
       \/ view' = [view EXCEPT ![req[r].node] = req[r].got]
       \/ proc[req[r].node].up /\ view' = [view EXCEPT ![req[r].node] = Fresh(req[r].node)]
    /\ req'[r] = Idle \/ GoesOn(r, "target", req[r].node)

\* handle_lookup, its answer.
LEMMA AnswerFacts ==
    ASSUME TypeInv, NEW r \in Requests, LookupAnswer(r)
    PROVE  TypeInv' /\ Only(r) /\ req[r].pc = "probed" /\ Answers(r)
<1> DEFINE n == req[r].node
           v1 == [view EXCEPT ![n] = req[r].got]
           v2 == [view EXCEPT ![n] = Fresh(n)]
           target == req' = [req EXCEPT ![r].pc = "target", ![r].got = Nil]
<1>1. /\ req[r].pc = "probed" /\ ReqGood(req[r]) /\ req[r] \in ReqType
      /\ UNCHANGED <<proc, head, hb, job, round, lost, crashes>>
  BY TypeParts DEF LookupAnswer, ReqInv
<1>2. n \in Nodes /\ req[r].got \in TableEntry /\ Fresh(n) \in TableEntry
  BY <1>1, TypeParts, FreshType DEF ReqGood
<1>3. Again(r) \/ target
  BY DEF LookupAnswer
<1>4. view' = view \/ view' = v1 \/ (proc[n].up /\ view' = v2)
  BY DEF LookupAnswer
<1>5. CASE Again(r)
  <2>1. ReqInv' /\ Only(r) /\ req'[r] = Idle
    BY <1>1, <1>5, TypeParts, AgainFacts
  <2>2. view' \in [Nodes -> TableEntry]
    BY <1>2, <1>4, TypeParts
  <2>3. ProcInv' /\ TableInv' /\ JobInv'
    BY <1>1, <2>2, TypeParts, SameProc DEF TableInv, JobInv, Pinged
  <2> QED BY <1>1, <1>4, <2>1, <2>3 DEF TypeInv, Answers
<1>6. CASE target
  <2>1. req' = [req EXCEPT ![r] = MovedReq(req[r], "target", n, Nil)]
    <3>1. req' = [req EXCEPT ![r] = [req[r] EXCEPT !.pc = "target", !.got = Nil]]
      BY <1>6, TypeParts
    <3>2. [req[r] EXCEPT !.pc = "target", !.got = Nil] = MovedReq(req[r], "target", n, Nil)
      BY <1>1 DEF ReqType, MovedReq
    <3> QED BY <3>1, <3>2
  <2>2. ReqInv' /\ Only(r) /\ GoesOn(r, "target", n)
    BY <1>1, <1>2, <2>1, TypeParts, MovedFacts
  <2>3. view' \in [Nodes -> TableEntry]
    BY <1>2, <1>4, TypeParts
  <2>4. ProcInv' /\ TableInv' /\ JobInv'
    BY <1>1, <2>3, TypeParts, SameProc DEF TableInv, JobInv, Pinged
  <2> QED BY <1>1, <1>4, <2>2, <2>4 DEF TypeInv, Answers
<1> QED BY <1>3, <1>5, <1>6

\* The role is checked, and the thread waits for its turn.
LEMMA RoleFacts ==
    ASSUME TypeInv, NEW r \in Requests, CheckRole(r)
    PROVE  /\ TypeInv' /\ Only(r) /\ req[r].pc = "target"
           /\ req'[r] = Idle \/ (GoesOn(r, "queued", req[r].node) /\ proc[req[r].node].up)
<1> DEFINE n == req[r].node
<1>1. /\ req[r].pc = "target" /\ ReqGood(req[r]) /\ req[r] \in ReqType
      /\ UNCHANGED <<proc, view, head, hb, job, round, lost, crashes>>
  BY TypeParts DEF CheckRole, ReqInv
<1>2. n \in Nodes
  BY <1>1 DEF ReqGood
<1>3. ProcInv' /\ TableInv' /\ JobInv'
  BY <1>1, TypeParts, SameProc DEF TableInv, JobInv, Pinged
<1>4. CASE Again(r)
  BY <1>1, <1>3, <1>4, TypeParts, AgainFacts DEF TypeInv
<1>5. CASE proc[n].up /\ req' = [req EXCEPT ![r].pc = "queued"]
  <2>1. req' = [req EXCEPT ![r] = MovedReq(req[r], "queued", n, req[r].got)]
    <3>1. req' = [req EXCEPT ![r] = [req[r] EXCEPT !.pc = "queued"]]
      BY <1>5, TypeParts
    <3>2. [req[r] EXCEPT !.pc = "queued"] = MovedReq(req[r], "queued", n, req[r].got)
      BY <1>1 DEF ReqType, MovedReq
    <3> QED BY <3>1, <3>2
  <2>2. req[r].got \in TableEntry \/ req[r].got = Nil
    BY <1>1 DEF ReqType
  <2>3. ReqInv' /\ Only(r) /\ GoesOn(r, "queued", n)
    <3> DEFINE e == req[r].got
    <3>1. req' = [req EXCEPT ![r] = MovedReq(req[r], "queued", n, e)]
      BY <2>1
    <3>2. (e \in TableEntry \/ ("queued" # "probed" /\ e = Nil)) /\ proc' = proc /\ ReqInv
      BY <1>1, <2>2, TypeParts
    <3> HIDE DEF e
    <3> QED BY <1>2, <1>5, <3>1, <3>2, MovedFacts
  <2> QED BY <1>1, <1>3, <1>5, <2>3 DEF TypeInv
<1> QED BY <1>4, <1>5 DEF CheckRole

\* A write or its undoing, the whole step.
LEMMA WriteFacts ==
    ASSUME TypeInv, NEW r \in Requests, NEW undo \in BOOLEAN,
           req[r].pc \in {"queued", "send"}, AppendEntry(r, undo),
           UNCHANGED <<view, head, hb, job, round, lost, crashes>>
    PROVE  TypeInv' /\ req[r].node \in Nodes /\ proc[req[r].node].up /\ Writes(r, req[r].node, undo)
<1> DEFINE n == req[r].node
<1>1. n \in Nodes /\ proc[n].up
  BY TypeParts DEF ReqInv, ReqGood
<1>2. Writes(r, n, undo) /\ ReqInv'
  BY <1>1, TypeParts, AppendWrites
<1>3. n \notin proc'[n].reps
  BY <1>1, <1>2, TypeParts DEF Writes, ProcInv
<1>4. ProcInv'
  BY <1>1, <1>2, <1>3, TypeParts, TouchProc DEF Writes
<1>5. TableInv' /\ JobInv'
  BY TypeParts DEF TableInv, JobInv, Pinged
<1> QED BY <1>1, <1>2, <1>4, <1>5 DEF TypeInv

\* One replica of forward_to_all, the whole step.
LEMMA ForwardTypes ==
    ASSUME TypeInv, NEW r \in Requests, NEW f \in Nodes, forward_to_replica(r, f)
    PROVE  TypeInv' /\ Forwards(r, f) /\ req[r].pc = "send" /\ f \in req[r].left
<1>1. Forwards(r, f) /\ ReqInv'
  BY TypeParts, ForwardFacts
<1>2. /\ req[r].pc = "send" /\ f \in req[r].left
      /\ UNCHANGED <<view, head, hb, job, round, crashes>>
  BY DEF forward_to_replica
<1>3. Touches(f) /\ (proc'[f] = proc[f] \/ proc'[f].reps = proc[f].reps \/ proc'[f].reps = {})
  BY <1>1 DEF Forwards
<1>4. f \notin proc'[f].reps /\ (~proc[f].up => proc'[f].reps = {})
  BY <1>3, TypeParts DEF ProcInv
<1>5. ProcInv'
  BY <1>2, <1>3, <1>4, TypeParts, TouchProc
<1>6. lost' \in 0..MaxLost
  <2>1. lost' = lost \/ (lost < MaxLost /\ lost' = lost + 1)
    BY <1>1 DEF Forwards
  <2> QED BY <2>1, TypeParts, BoundAssumption
<1>7. TableInv' /\ JobInv'
  BY <1>2, <1>6, TypeParts DEF TableInv, JobInv, Pinged
<1> QED BY <1>1, <1>2, <1>5, <1>7 DEF TypeInv

\* The end of a process leaves every variable in its type.
LEMMA EndsTypes ==
    ASSUME TypeInv, NEW n \in Nodes, Ends(n), UNCHANGED <<view, head, hb, job, round, lost>>
    PROVE  TypeInv'
<1>1. TableInv' /\ JobInv'
  BY TypeParts DEF TableInv, JobInv, Pinged
<1>2. crashes \in 0..MaxCrash /\ crashes' = crashes + 1 /\ crashes' \in 0..MaxCrash
  BY TypeParts, BoundAssumption DEF ProcInv, Ends
<1>3. ASSUME NEW m \in Nodes
      PROVE  /\ m \notin proc'[m].reps /\ (~proc'[m].up => proc'[m].reps = {})
             /\ proc'[m].pid <= crashes' + (IF proc'[m].up THEN 1 ELSE 0)
  <2>1. /\ m \notin proc[m].reps /\ (~proc[m].up => proc[m].reps = {})
        /\ proc[m].pid <= crashes + (IF proc[m].up THEN 1 ELSE 0)
        /\ proc[m].pid \in Nat
    BY TypeParts, BoundAssumption DEF ProcInv, ProcType
  <2>2. m # n => proc'[m] = proc[m]
    BY DEF Ends
  <2>3. m = n => ~proc'[m].up /\ proc'[m].reps = {} /\ proc'[m].pid = proc[m].pid
    BY DEF Ends
  <2> QED BY <2>1, <2>2, <2>3, <1>2
<1>4. ProcInv'
  BY <1>2, <1>3 DEF ProcInv, Ends
<1>5. ASSUME NEW r \in Requests
      PROVE  ReqGood(req'[r]) /\ (req'[r].pc \in {"queued", "send"} => proc'[req'[r].node].up)
  <2>1. ReqGood(req[r]) /\ (req[r].pc \in {"queued", "send"} => proc[req[r].node].up)
    BY TypeParts DEF ReqInv
  <2>2. CASE req[r].pc \in {"queued", "send"} /\ req[r].node = n
    <3>1. /\ req'[r].pc = "done" /\ req'[r].left = req[r].left /\ req'[r].acked = req[r].acked
          /\ req'[r] \in ReqType
      BY <2>2 DEF Ends
    <3> QED BY <2>1, <3>1 DEF ReqGood
  <2>3. CASE ~(req[r].pc \in {"queued", "send"} /\ req[r].node = n)
    <3>1. req'[r] = req[r]
      BY <2>3 DEF Ends
    <3>2. req[r].pc \in {"queued", "send"} => proc'[req[r].node] = proc[req[r].node]
      BY <2>1, <2>3 DEF Ends, ReqGood
    <3> QED BY <2>1, <3>1, <3>2
  <2> QED BY <2>2, <2>3
<1>6. ReqInv'
  BY <1>5 DEF ReqInv, Ends
<1> QED BY <1>1, <1>4, <1>6 DEF TypeInv

\* A kill ends a process.
LEMMA CrashFacts ==
    ASSUME TypeInv, NEW n \in Nodes, Crash(n)
    PROVE  TypeInv' /\ Ends(n)
  BY TypeParts, StopEnds, EndsTypes DEF Crash

\* So may the use of a replica entry that has been destroyed.
LEMMA FreeFacts ==
    ASSUME TypeInv, NEW r \in Requests, UseAfterFree(r)
    PROVE  TypeInv' /\ req[r].node \in Nodes /\ Ends(req[r].node) /\ req[r].pc = "send"
<1>1. req[r].pc = "send" /\ Stop(req[r].node) /\ UNCHANGED <<view, head, hb, job, round, lost>>
  BY DEF UseAfterFree
<1>2. req[r].node \in Nodes
  BY <1>1, TypeParts DEF ReqInv, ReqGood
<1> QED BY <1>1, <1>2, TypeParts, StopEnds, EndsTypes

\* The answer to request r, when every replica has been told.
LEMMA ConcludeFacts ==
    ASSUME TypeInv, NEW r \in Requests, Conclude(r)
    PROVE  /\ TypeInv' /\ req[r].pc = "send" /\ req[r].left = {}
           /\ \/ /\ Only(r) /\ proc' = proc /\ req'[r].pc = "done"
                 /\ \/ req[r].undo /\ req'[r].result = "no quorum"
                    \/ /\ ~req[r].undo /\ req[r].acked >= req[r].need
                       /\ req'[r].result = "ok"
              \/ ~req[r].undo /\ Writes(r, req[r].node, TRUE)
<1>1. req[r].pc = "send" /\ req[r].left = {} /\ UNCHANGED <<view, head, hb, job, round, lost, crashes>>
  BY DEF Conclude
<1>2. ASSUME NEW res \in {"ok", "no quorum"}, proc' = proc,
             req' = [req EXCEPT ![r] = [Idle EXCEPT !.pc = "done", !.result = res]]
      PROVE  TypeInv' /\ Only(r) /\ req'[r].pc = "done" /\ req'[r].result = res
  <2> DEFINE q == [Idle EXCEPT !.pc = "done", !.result = res]
  <2>1. q \in ReqType /\ q.pc = "done" /\ q.result = res /\ q.left = {} /\ q.acked = 0
    BY DEF Idle, ReqType
  <2>2. req' = [req EXCEPT ![r] = q]
    BY <1>2
  <2> HIDE DEF q
  <2>3. ReqGood(q)
    BY <2>1, EmptyGood
  <2>4. ReqInv'
    BY <1>2, <2>1, <2>2, <2>3, TypeParts, OneRequest
  <2>5. Only(r) /\ req'[r] = q
    BY <2>2, TypeParts DEF Only
  <2>6. ProcInv' /\ TableInv' /\ JobInv'
    BY <1>1, <1>2, TypeParts, SameProc DEF TableInv, JobInv, Pinged
  <2> QED BY <2>1, <2>4, <2>5, <2>6 DEF TypeInv
<1>3. CASE /\ req[r].undo /\ UNCHANGED proc
           /\ req' = [req EXCEPT ![r] = [Idle EXCEPT !.pc = "done", !.result = "no quorum"]]
  BY <1>1, <1>2, <1>3
<1>4. CASE /\ ~req[r].undo /\ req[r].acked >= req[r].need /\ UNCHANGED proc
           /\ req' = [req EXCEPT ![r] = [Idle EXCEPT !.pc = "done", !.result = "ok"]]
  BY <1>1, <1>2, <1>4
<1>5. CASE ~req[r].undo /\ AppendEntry(r, TRUE)
  <2> DEFINE yes == TRUE
  <2>1. yes \in BOOLEAN /\ AppendEntry(r, yes)
    BY <1>5
  <2> HIDE DEF yes
  <2>2. TypeInv' /\ Writes(r, req[r].node, yes)
    BY <1>1, <2>1, WriteFacts
  <2> QED BY <1>1, <1>5, <2>2 DEF yes
<1> QED BY <1>3, <1>4, <1>5 DEF Conclude

\* replicated_put: the first write of a request.
LEMMA PutFacts ==
    ASSUME TypeInv, NEW r \in Requests, replicated_put(r)
    PROVE  /\ TypeInv' /\ req[r].pc = "queued" /\ ~Locked(req[r].node)
           /\ req[r].node \in Nodes /\ proc[req[r].node].up /\ Writes(r, req[r].node, FALSE)
<1> DEFINE no == FALSE
<1>1. /\ req[r].pc = "queued" /\ ~Locked(req[r].node) /\ AppendEntry(r, no)
      /\ no \in BOOLEAN /\ UNCHANGED <<view, head, hb, job, round, lost, crashes>>
  BY DEF replicated_put
<1> HIDE DEF no
<1>2. TypeInv' /\ req[r].node \in Nodes /\ proc[req[r].node].up /\ Writes(r, req[r].node, no)
  BY <1>1, WriteFacts
<1> QED BY <1>1, <1>2 DEF no

\* A restart leaves every variable in its type.
LEMMA RestartTypes ==
    ASSUME TypeInv, NEW n \in Nodes, Restart(n)
    PROVE  TypeInv' /\ Restarts # "never"
<1>1. /\ ~proc[n].up /\ proc' = [proc EXCEPT ![n].up = TRUE, ![n].pid = @ + 1]
      /\ UNCHANGED <<view, head, hb, job, round, req, crashes, lost>>
      /\ Restarts # "never"
  BY DEF Restart
<1>2. proc \in [Nodes -> ProcType] /\ proc[n] \in ProcType /\ crashes \in 0..MaxCrash
  BY TypeParts DEF ProcInv
<1>3. proc[n].pid \in 1..(MaxCrash + 1) /\ proc[n].pid <= crashes
  BY <1>1, <1>2, TypeParts, BoundAssumption DEF ProcInv, ProcType
<1> DEFINE p == [proc[n] EXCEPT !.up = TRUE, !.pid = @ + 1]
<1>4. proc[n].pid + 1 \in 1..(MaxCrash + 1)
  BY <1>2, <1>3, BoundAssumption
<1>5. /\ p \in ProcType /\ p.up /\ p.pid = proc[n].pid + 1 /\ p.reps = proc[n].reps
  BY <1>2, <1>4 DEF ProcType
<1>6. proc' = [proc EXCEPT ![n] = p]
  BY <1>1, <1>2
<1> HIDE DEF p
<1>7. proc' \in [Nodes -> ProcType] /\ proc'[n] = p /\ \A m \in Nodes \ {n} : proc'[m] = proc[m]
  BY <1>2, <1>5, <1>6
<1>8. ASSUME NEW m \in Nodes
      PROVE  /\ m \notin proc'[m].reps /\ (~proc'[m].up => proc'[m].reps = {})
             /\ proc'[m].pid <= crashes' + (IF proc'[m].up THEN 1 ELSE 0)
  <2>1. /\ m \notin proc[m].reps /\ (~proc[m].up => proc[m].reps = {})
        /\ proc[m].pid <= crashes + (IF proc[m].up THEN 1 ELSE 0)
    BY TypeParts DEF ProcInv
  <2>2. p.pid <= crashes + 1
    BY <1>2, <1>3, <1>5
  <2> QED BY <1>1, <1>5, <1>7, <2>1, <2>2
<1>9. ProcInv'
  BY <1>1, <1>2, <1>7, <1>8 DEF ProcInv
<1>10. \A m \in Nodes : proc[m].up => proc'[m].up
  BY <1>5, <1>7
<1>11. ReqInv'
  BY <1>1, <1>10, TypeParts, MarksReq
<1>12. TableInv' /\ JobInv'
  BY <1>1, TypeParts DEF TableInv, JobInv, Pinged
<1> QED BY <1>1, <1>9, <1>11, <1>12 DEF TypeInv

\* Init has the types of the invariant.
LEMMA InitTypes == Init => TypeInv
<1> SUFFICES ASSUME Init PROVE TypeInv
  OBVIOUS
<1>1. PICK Q \in Majorities :
          proc = [n \in Nodes |->
                     [up |-> TRUE, pid |-> 1, prim |-> FALSE, reps |-> {},
                      log |-> IF Old # Nil /\ n \in Q
                              THEN <<[op |-> Old, undo |-> FALSE]>> ELSE <<>>]]
  BY DEF Init
<1>2. ASSUME NEW n \in Nodes
      PROVE  proc[n] \in ProcType /\ proc[n].up /\ proc[n].pid = 1 /\ proc[n].reps = {}
  <2> DEFINE l == IF Old # Nil /\ n \in Q THEN <<[op |-> Old, undo |-> FALSE]>> ELSE <<>>
  <2>1. l \in Seq(Entry)
    <3> DEFINE e == [op |-> Old, undo |-> FALSE]
    <3>1. Old # Nil => e \in Entry
      BY NodeAssumption DEF Entry
    <3>2. l = <<e>> \/ l = <<>>
      OBVIOUS
    <3>3. l = <<>> \/ Old # Nil
      OBVIOUS
    <3> HIDE DEF e, l
    <3>4. <<>> \in Seq(Entry) /\ (e \in Entry => <<e>> \in Seq(Entry))
      OBVIOUS
    <3> QED BY <3>1, <3>2, <3>3, <3>4
  <2>2. proc[n] = [up |-> TRUE, pid |-> 1, prim |-> FALSE, reps |-> {}, log |-> l]
    BY <1>1
  <2> HIDE DEF l
  <2>3. 1 \in 1..(MaxCrash + 1)
    BY BoundAssumption
  <2> QED BY <2>1, <2>2, <2>3 DEF ProcType
<1>3. proc \in [Nodes -> ProcType]
  BY <1>1, <1>2
<1>4. crashes = 0 /\ lost = 0 /\ head = First /\ round = 0 /\ hb = NoRound
      /\ view = [n \in Nodes |-> Configured] /\ job = [t \in Threads |-> NoJob]
  BY DEF Init
<1>5. ProcInv
  BY <1>2, <1>3, <1>4, BoundAssumption DEF ProcInv
<1>6. Configured \in TableEntry
  BY BoundAssumption DEF Configured, TableEntry
<1>7. hb \in HbType /\ DOMAIN hb.snap = {}
  <2>1. <<>> \in SnapType
    <3>1. <<>> \in [{} -> TableEntry]
      BY DOMAIN <<>> = {}
    <3> QED BY <3>1 DEF SnapType
  <2> QED BY <1>4, <2>1 DEF HbType, NoRound
<1>8. TableInv
  BY <1>4, <1>6, <1>7, NodeAssumption, BoundAssumption DEF TableInv
<1>9. JobInv
  BY <1>4, NoJobType DEF JobInv, JobGood, Threads
<1> DEFINE q == [Idle EXCEPT !.pc = "done", !.result = "ok"]
<1>10. req = [r \in Requests |-> IF r = Old THEN q ELSE Idle]
  BY DEF Init
<1>11. q \in ReqType /\ q.pc = "done" /\ q.left = {} /\ q.acked = 0
  BY DEF Idle, ReqType
<1> HIDE DEF q
<1>12. ReqGood(q) /\ ReqGood(Idle)
  BY <1>11, IdleType, EmptyGood
<1>13. ReqInv
  BY <1>10, <1>11, <1>12, IdleType DEF ReqInv
<1> QED BY <1>5, <1>8, <1>9, <1>13 DEF TypeInv

\* Every step keeps the types.
LEMMA NextTypes == TypeInv /\ [Next]_vars => TypeInv'
<1> SUFFICES ASSUME TypeInv, [Next]_vars PROVE TypeInv'
  OBVIOUS
<1>1. ASSUME NEW t \in Threads, JobStep(t) PROVE TypeInv'
  <2>1. ASSUME NEW c \in Nodes, NEW n \in Nodes, Probe(t, c, n) PROVE TypeInv'
    BY <2>1, ProbeFacts
  <2>2. ASSUME NEW f \in Nodes, demote_and_sync_node(t, f) PROVE TypeInv'
    BY <2>2, DemoteFacts
  <2> QED BY <1>1, <2>1, <2>2, ChooseFacts, PromoteFacts, AddFacts, CommitFacts DEF JobStep
<1>2. ASSUME Heartbeat PROVE TypeInv'
  <2>1. ASSUME NEW n \in Nodes, Ping(n) \/ handle_node_failure(n) \/ handle_node_recovery(n)
        PROVE  TypeInv'
    BY <2>1, PingTypes, FailureFacts, RecoveryTypes
  <2>2. "hb" \in Threads
    BY DEF Threads
  <2> QED BY <1>1, <1>2, <2>1, <2>2, SnapshotTypes DEF Heartbeat
<1>3. ASSUME Setup PROVE TypeInv'
  <2>1. "setup" \in Threads
    BY DEF Threads
  <2> QED BY <1>1, <1>3, <2>1, ConfigureFacts DEF Setup
<1>4. ASSUME NEW r \in Requests, Client(r) PROVE TypeInv'
  <2>1. ASSUME NEW f \in Nodes, forward_to_replica(r, f) PROVE TypeInv'
    BY <2>1, ForwardTypes
  <2> QED BY <1>4, <2>1, LookupFacts, AnswerFacts, RoleFacts, PutFacts, ConcludeFacts,
             FreeFacts DEF Client, Serve
<1>5. ASSUME NEW n \in Nodes, Crash(n) \/ Restart(n) PROVE TypeInv'
  BY <1>5, CrashFacts, RestartTypes
<1>6. CASE UNCHANGED vars
  <2>1. UNCHANGED <<proc, view, head, hb, job, round, req, crashes, lost>>
    BY <1>6 DEF vars
  <2> QED BY <2>1, TypeParts, SameProc, SameReq DEF TypeInv, TableInv, JobInv, Pinged
<1> QED BY <1>2, <1>3, <1>4, <1>5, <1>6 DEF Next

\* Every variable of the coordinator's model always has its type.
THEOREM CoordinatorTypes == Spec => []TypeOK
<1>1. Init => TypeInv
  BY InitTypes
<1>2. TypeInv /\ [Next]_vars => TypeInv'
  BY NextTypes
<1>3. TypeInv => TypeOK
  BY InvTypeOK
<1> QED BY <1>1, <1>2, <1>3, PTL DEF Spec

-----------------------------------------------------------------------------
(* Few faults: no node is started again, and at most one call to a live node *)
(* fails, too few to mark it down or to use up the rounds of the first       *)
(* configuration.  Any number of nodes may be killed once READY is answered  *)
(* with OK, and clients write only from then on.                             *)

FewFaults ==
    /\ Restarts = "never" /\ Early = {}
    /\ MaxLost <= 1 /\ MaxLost < MissThresh /\ MaxLost < MaxRounds

Up(n) == proc[n].up

\* What every step leaves: a dead node stays dead, and calls are lost one by one.
Onward ==
    /\ \A n \in Nodes : (proc'[n].up => proc[n].up) /\ proc'[n].pid = proc[n].pid
    /\ lost \in Nat /\ lost' \in Nat /\ lost <= lost' /\ lost' <= MaxLost

\* Steps that change one node and lose at most one call.
LEMMA TouchesOnward ==
    ASSUME TypeInv, TypeInv', proc' = proc \/ \E n \in Nodes : Touches(n),
           lost' = lost \/ lost' = lost + 1
    PROVE  Onward
<1>1. \A n \in Nodes : (proc'[n].up => proc[n].up) /\ proc'[n].pid = proc[n].pid
  BY DEF Touches
<1>2. lost \in 0..MaxLost /\ lost' \in 0..MaxLost
  BY DEF TypeInv, TableInv
<1> QED BY <1>1, <1>2, BoundAssumption DEF Onward

\* Without restarts every step is such a step.
LEMMA NextOnward ==
    ASSUME FewFaults, TypeInv, [Next]_vars
    PROVE  Onward
<1>0. TypeInv'
  BY NextTypes
<1>1. ASSUME NEW n, Reached(n) \/ Missed(n) PROVE lost' = lost \/ lost' = lost + 1
  BY <1>1, TypeParts, CallTypes
<1>2. ASSUME proc' = proc, lost' = lost PROVE Onward
  BY <1>0, <1>2, TouchesOnward
<1>3. ASSUME NEW t \in Threads, JobStep(t) PROVE Onward
  <2>1. ASSUME NEW c \in Nodes, NEW n \in Nodes, Probe(t, c, n) PROVE Onward
    <3>1. proc' = proc /\ (Reached(n) \/ Missed(n))
      BY <2>1 DEF Probe, ProbeOk, ProbeFailed
    <3> QED BY <1>0, <1>1, <3>1, TouchesOnward
  <2>2. ASSUME NEW f \in Nodes, demote_and_sync_node(t, f) PROVE Onward
    <3>1. Demotes(job[t], job'[t], f)
      BY <2>2, DemoteFacts
    <3>2. (proc' = proc \/ Touches(f)) /\ (Reached(f) \/ Missed(f))
      BY <3>1 DEF Demotes, Demoted
    <3> QED BY <1>0, <1>1, <3>2, TouchesOnward
  <2>3. CASE Choose(t)
    BY <1>2, <2>3 DEF Choose
  <2>4. CASE Commit(t)
    BY <1>2, <2>4 DEF Commit
  <2>5. CASE promote_node(t)
    <3>1. Promotes(job[t], job'[t]) /\ job[t].prim \in Nodes
      BY <2>5, PromoteFacts
    <3>2. /\ proc' = proc \/ Touches(job[t].prim)
          /\ Reached(job[t].prim) \/ Missed(job[t].prim)
      BY <3>1 DEF Promotes, Promoted
    <3> QED BY <1>0, <1>1, <3>1, <3>2, TouchesOnward
  <2>6. CASE add_replica_to_primary(t)
    <3>1. Adds(job[t], job'[t]) /\ job[t].prim \in Nodes
      BY <2>6, AddFacts
    <3>2. /\ proc' = proc \/ Touches(job[t].prim)
          /\ Reached(job[t].prim) \/ Missed(job[t].prim)
      BY <3>1 DEF Adds, Added
    <3> QED BY <1>0, <1>1, <3>1, <3>2, TouchesOnward
  <2> QED BY <1>3, <2>1, <2>2, <2>3, <2>4, <2>5, <2>6 DEF JobStep
<1>4. ASSUME NEW n \in Nodes, Ends(n), lost' = lost PROVE Onward
  <2>1. \A m \in Nodes : (proc'[m].up => proc[m].up) /\ proc'[m].pid = proc[m].pid
    BY <1>4 DEF Ends
  <2>2. lost \in 0..MaxLost
    BY TypeParts
  <2> QED BY <1>4, <2>1, <2>2, BoundAssumption DEF Onward
<1>5. ASSUME NEW n \in Nodes,
             Ping(n) \/ handle_node_failure(n) \/ handle_node_recovery(n) PROVE Onward
  <2>1. CASE Ping(n)
    <3>1. proc' = proc /\ (Reached(n) \/ Missed(n))
      BY <2>1 DEF Ping
    <3> QED BY <1>0, <1>1, <3>1, TouchesOnward
  <2>2. CASE handle_node_failure(n) \/ handle_node_recovery(n)
    BY <1>2, <2>2 DEF handle_node_failure, handle_node_recovery
  <2> QED BY <1>5, <2>1, <2>2
<1>6. ASSUME NEW r \in Requests, Client(r) PROVE Onward
  <2>1. ASSUME NEW f \in Nodes, forward_to_replica(r, f) PROVE Onward
    <3>1. Forwards(r, f)
      BY <2>1, ForwardTypes
    <3>2. Touches(f) /\ (lost' = lost \/ lost' = lost + 1)
      BY <3>1 DEF Forwards
    <3> QED BY <1>0, <3>2, TouchesOnward
  <2>2. CASE handle_lookup(r) \/ LookupAnswer(r) \/ CheckRole(r)
    BY <1>2, <2>2 DEF handle_lookup, Reached, LookupAnswer, CheckRole
  <2>3. CASE replicated_put(r)
    <3>1. Touches(req[r].node) /\ req[r].node \in Nodes /\ lost' = lost
      BY <2>3, PutFacts DEF Writes, replicated_put
    <3> QED BY <1>0, <3>1, TouchesOnward
  <2>4. CASE Conclude(r)
    <3>1. req[r].pc = "send" /\ lost' = lost /\ (proc' = proc \/ Touches(req[r].node))
      BY <2>4, ConcludeFacts DEF Writes, Conclude
    <3>2. req[r].node \in Nodes
      BY <3>1, TypeParts DEF ReqInv, ReqGood
    <3> QED BY <1>0, <3>1, <3>2, TouchesOnward
  <2>5. CASE UseAfterFree(r)
    BY <1>4, <2>5, FreeFacts DEF UseAfterFree
  <2> QED BY <1>6, <2>1, <2>2, <2>3, <2>4, <2>5 DEF Client, Serve
<1>7. ASSUME NEW n \in Nodes, Crash(n) PROVE Onward
  BY <1>4, <1>7, CrashFacts DEF Crash
<1>8. ASSUME NEW n \in Nodes, Restart(n) PROVE FALSE
  BY <1>8 DEF Restart, FewFaults
<1>9. CASE UNCHANGED vars
  BY <1>2, <1>9 DEF vars
<1>10. CASE Snapshot \/ configure_initial_tablet_roles
  BY <1>2, <1>10 DEF Snapshot, configure_initial_tablet_roles
<1>11. "hb" \in Threads /\ "setup" \in Threads
  BY DEF Threads
<1> QED BY <1>3, <1>5, <1>6, <1>7, <1>8, <1>9, <1>10, <1>11 DEF Next, Heartbeat, Setup

-----------------------------------------------------------------------------
(* The coordinator never takes a live node for dead. *)

\* An entry of the table about a node that runs.
Well(e) == e.alive /\ ~e.down /\ e.missed <= lost

AwakeInv ==
    /\ hb.live = {}
    /\ \A n \in Nodes :
          /\ proc[n].pid = 1 /\ view[n].pid \in {0, 1}
          /\ n \in DOMAIN hb.snap => hb.snap[n].pid \in {0, 1}
          /\ Up(n) => /\ n \notin hb.dead /\ Well(view[n])
                      /\ n \in DOMAIN hb.snap => Well(hb.snap[n])
    /\ \A r \in Requests : req[r].pc = "probed" =>
          /\ req[r].got.alive /\ ~req[r].got.down /\ req[r].got.missed = 0
          /\ req[r].got.pid = 1

\* No request learns more than the probe of its LOOKUP said.
OldProbes == \A r \in Requests : req'[r].pc = "probed" =>
                 req[r].pc = "probed" /\ req'[r].got = req[r].got

\* The table changes for node n only, and stays right.
LEMMA AwakeEntry ==
    ASSUME TypeInv, TypeInv', AwakeInv, Onward, OldProbes, NEW n \in Nodes,
           hb'.live = {}, \A m \in Nodes \ {n} : view'[m] = view[m],
           view'[n].pid \in {0, 1}, proc'[n].up => view'[n].alive /\ ~view'[n].down
                                                  /\ view'[n].missed <= lost',
           \A m \in DOMAIN hb'.snap : m \in DOMAIN hb.snap /\ hb'.snap[m] = hb.snap[m],
           \A m \in hb'.dead : m \in hb.dead \/ ~proc'[m].up
    PROVE  AwakeInv'
<1>1. ASSUME NEW m \in Nodes
      PROVE  /\ proc'[m].pid = 1 /\ view'[m].pid \in {0, 1}
             /\ m \in DOMAIN hb'.snap => hb'.snap[m].pid \in {0, 1}
             /\ proc'[m].up => /\ m \notin hb'.dead /\ (view'[m].alive /\ ~view'[m].down
                                                        /\ view'[m].missed <= lost')
                               /\ m \in DOMAIN hb'.snap =>
                                    (hb'.snap[m].alive /\ ~hb'.snap[m].down
                                     /\ hb'.snap[m].missed <= lost')
  <2>1. /\ proc[m].pid = 1 /\ view[m].pid \in {0, 1}
        /\ m \in DOMAIN hb.snap => hb.snap[m].pid \in {0, 1}
        /\ proc[m].up => /\ m \notin hb.dead /\ (view[m].alive /\ ~view[m].down
                                                 /\ view[m].missed <= lost)
                         /\ m \in DOMAIN hb.snap =>
                              (hb.snap[m].alive /\ ~hb.snap[m].down
                               /\ hb.snap[m].missed <= lost)
    BY DEF AwakeInv, Up, Well
  <2>2. view[m].missed \in Nat /\ (m \in DOMAIN hb.snap => hb.snap[m].missed \in Nat)
    <3>1. view[m] \in TableEntry /\ (m \in DOMAIN hb.snap => hb.snap[m] \in TableEntry)
      BY TypeParts, HbFields
    <3> QED BY <3>1, BoundAssumption DEF TableEntry
  <2>3. lost \in Nat /\ lost' \in Nat /\ lost <= lost' /\ (proc'[m].up => proc[m].up)
        /\ proc'[m].pid = proc[m].pid
    BY DEF Onward
  <2>4. view[m].missed <= lost => view[m].missed <= lost'
    BY <2>2, <2>3
  <2>5. m \in DOMAIN hb.snap /\ hb.snap[m].missed <= lost => hb.snap[m].missed <= lost'
    BY <2>2, <2>3
  <2>6. m # n => view'[m] = view[m]
    OBVIOUS
  <2> QED BY <2>1, <2>3, <2>4, <2>5, <2>6
<1>2. ASSUME NEW r \in Requests, req'[r].pc = "probed"
      PROVE  /\ req'[r].got.alive /\ ~req'[r].got.down /\ req'[r].got.missed = 0
             /\ req'[r].got.pid = 1
  BY <1>2 DEF AwakeInv, OldProbes
<1> QED BY <1>1, <1>2 DEF AwakeInv, Up, Well

\* The table and the heartbeat round stay as they are.
LEMMA AwakeSame ==
    ASSUME TypeInv, TypeInv', AwakeInv, Onward, OldProbes, view' = view, hb' = hb
    PROVE  AwakeInv'
<1>1. head \in Nodes /\ hb.live = {} /\ view[head].pid \in {0, 1}
  BY TypeParts DEF AwakeInv
<1>2. proc'[head].up => view[head].alive /\ ~view[head].down /\ view[head].missed <= lost'
  <2>1. view[head].missed \in Nat
    BY TypeParts, BoundAssumption DEF TableEntry
  <2> QED BY <1>1, <2>1 DEF AwakeInv, Onward, Up, Well
<1> QED BY <1>1, <1>2, AwakeEntry

\* Every step keeps a node that runs alive in the table.
LEMMA AwakeNext ==
    ASSUME FewFaults, TypeInv, AwakeInv, [Next]_vars
    PROVE  AwakeInv'
<1>0. TypeInv' /\ Onward
  BY NextTypes, NextOnward
<1>1. ASSUME view' = view, hb' = hb, OldProbes PROVE AwakeInv'
  BY <1>0, <1>1, AwakeSame
<1>2. CASE UNCHANGED vars
  BY <1>1, <1>2 DEF vars, OldProbes
<1>3. CASE Snapshot
  <2>1. /\ hb'.snap = view /\ hb'.dead = {} /\ hb'.live = {} /\ view' = view /\ proc' = proc
        /\ req' = req /\ lost' = lost
    BY <1>3, SnapshotTypes DEF Snapshot
  <2>2. DOMAIN view = Nodes
    BY TypeParts
  <2> QED BY <2>1, <2>2 DEF AwakeInv, Up, Well
<1>4. ASSUME NEW n \in Nodes, Ping(n) PROVE AwakeInv'
  <2>1. PICK ok \in BOOLEAN, e \in TableEntry : Pings(n, ok, e)
    BY <1>4, PingFacts
  <2>2. OldProbes /\ proc' = proc
    BY <1>4 DEF Ping, OldProbes
  <2>3. view'[n] = e /\ \A m \in Nodes \ {n} : view'[m] = view[m]
    BY <2>1, TypeParts DEF Pings
  <2>4. \A m \in DOMAIN hb'.snap : m \in DOMAIN hb.snap /\ hb'.snap[m] = hb.snap[m]
    BY <2>1 DEF Pings
  <2> DEFINE old == hb.snap[n]
  <2>5. n \in DOMAIN hb.snap /\ old \in TableEntry
    BY <2>1, TypeParts, HbFields DEF Pings
  <2>6. old.missed \in Nat /\ old.pid \in {0, 1} /\ proc[n].pid = 1 /\ hb.live = {}
    BY <2>5, BoundAssumption DEF TableEntry, AwakeInv
  <2>7. Up(n) => old.alive /\ ~old.down /\ old.missed <= lost
    BY <2>5 DEF AwakeInv, Well
  <2>8. CASE ok
    <3>1. Up(n)
      BY <2>1, <2>8 DEF Pings, Reached, Up
    <3>2. /\ e.alive /\ e.missed = 0 /\ e.pid = 1 /\ ~e.down /\ hb'.dead = hb.dead
          /\ hb'.live = {}
      BY <2>1, <2>6, <2>7, <2>8, <3>1 DEF Pings
    <3>3. 0 <= lost'
      BY <1>0 DEF Onward
    <3> QED BY <1>0, <2>2, <2>3, <2>4, <3>2, <3>3, AwakeEntry
  <2>9. CASE ~ok
    <3>1. Missed(n) /\ e.pid = old.pid /\ e.missed = Count(old) /\ hb'.live = {}
      BY <2>1, <2>6, <2>9 DEF Pings
    <3>2. CASE Up(n)
      <4>1. lost < MaxLost /\ lost' = lost + 1 /\ lost \in Nat
        BY <1>0, <3>1, <3>2 DEF Missed, Up, Onward
      <4>2. Count(old) = old.missed + 1 /\ Count(old) <= lost' /\ ~(Count(old) >= MissThresh)
        BY <2>6, <2>7, <3>2, <4>1, BoundAssumption DEF Count, FewFaults
      <4>3. e.alive /\ ~e.down /\ hb'.dead = hb.dead
        BY <2>1, <2>7, <2>9, <3>2, <4>2 DEF Pings
      <4> QED BY <1>0, <2>2, <2>3, <2>4, <2>6, <3>1, <4>2, <4>3, AwakeEntry
    <3>3. CASE ~Up(n)
      <4>1. ~proc'[n].up
        BY <2>2, <3>3 DEF Up
      <4>2. hb'.dead = hb.dead \/ hb'.dead = hb.dead \cup {n}
        BY <2>1, <2>9 DEF Pings
      <4> QED BY <1>0, <2>2, <2>3, <2>4, <2>6, <3>1, <4>1, <4>2, AwakeEntry
    <3> QED BY <3>2, <3>3
  <2> QED BY <2>8, <2>9
<1>5. ASSUME NEW n \in Nodes, handle_node_failure(n) PROVE AwakeInv'
  <2>1. hb'.dead = hb.dead \ {n} /\ hb'.live = hb.live /\ hb'.snap = hb.snap
    BY <1>5, FailureFacts
  <2>2. view' = view /\ proc' = proc /\ req' = req /\ lost' = lost
    BY <1>5 DEF handle_node_failure
  <2> QED BY <2>1, <2>2 DEF AwakeInv, Up, Well
<1>6. ASSUME NEW n \in Nodes, handle_node_recovery(n) PROVE AwakeInv'
  BY <1>6, RecoveryTypes DEF AwakeInv
<1>7. CASE configure_initial_tablet_roles
  BY <1>1, <1>7 DEF configure_initial_tablet_roles, OldProbes
<1>8. ASSUME NEW t \in Threads, JobStep(t) PROVE AwakeInv'
  <2>1. ASSUME NEW c \in Nodes, NEW n \in Nodes, Probe(t, c, n) PROVE AwakeInv'
    <3>1. Probes(t, c, n) /\ hb' = hb /\ OldProbes
      BY <2>1, ProbeFacts DEF Probe, OldProbes
    <3>2. CASE view' = view
      BY <1>1, <3>1, <3>2
    <3>3. CASE view' = [view EXCEPT ![n] = Fresh(n)]
      <4>1. view'[n] = Fresh(n) /\ \A m \in Nodes \ {n} : view'[m] = view[m]
        BY <3>3, TypeParts
      <4>2. Fresh(n).alive /\ ~Fresh(n).down /\ Fresh(n).missed = 0 /\ Fresh(n).pid = 1
        BY TypeParts, FreshType DEF AwakeInv
      <4>3. 0 <= lost' /\ hb.live = {}
        BY <1>0 DEF Onward, AwakeInv
      <4> QED BY <1>0, <3>1, <4>1, <4>2, <4>3, AwakeEntry
    <3> QED BY <3>1, <3>2, <3>3 DEF Probes
  <2>2. ASSUME NEW f \in Nodes, demote_and_sync_node(t, f) PROVE AwakeInv'
    <3>1. UNCHANGED <<proc, req>> \/ Demoted(f, job[t].prim)
      BY <2>2, DemoteFacts DEF Demotes
    <3>2. view' = view /\ hb' = hb /\ OldProbes
      BY <2>2, <3>1 DEF demote_and_sync_node, OldProbes, Demoted, Marks
    <3> QED BY <1>1, <3>2
  <2>3. CASE Choose(t)
    BY <1>1, <2>3 DEF Choose, OldProbes
  <2>4. CASE promote_node(t)
    <3>1. UNCHANGED <<proc, req>> \/ Promoted(job[t].prim)
      BY <2>4, PromoteFacts DEF Promotes
    <3>2. view' = view /\ hb' = hb /\ OldProbes
      BY <2>4, <3>1 DEF promote_node, OldProbes, Promoted, Marks
    <3> QED BY <1>1, <3>2
  <2>5. CASE add_replica_to_primary(t)
    BY <1>1, <2>5 DEF add_replica_to_primary, OldProbes
  <2>6. CASE Commit(t)
    <3>1. OldProbes /\ hb' = hb /\ Commits(job[t]) /\ job[t].prim \in Nodes
          /\ (job[t].kind = "recover" => job[t].subj \in Nodes)
      BY <2>6, CommitFacts, TypeParts DEF Commit, OldProbes, JobInv, JobGood
    <3>2. ASSUME NEW n \in Nodes, Revives(n) PROVE AwakeInv'
      <4>1. /\ view[n].pid \in {0, 1} /\ hb.live = {}
            /\ proc[n].up => ~view[n].down /\ view[n].missed <= lost
        BY DEF AwakeInv, Up, Well
      <4>2. view[n].missed \in Nat
        BY TypeParts, BoundAssumption DEF TableEntry
      <4>3. proc'[n].up => ~view[n].down /\ view[n].missed <= lost'
        BY <1>0, <4>1, <4>2 DEF Onward
      <4> QED BY <1>0, <3>1, <3>2, <4>1, <4>3, AwakeEntry DEF Revives
    <3> QED BY <1>1, <3>1, <3>2 DEF Commits
  <2> QED BY <1>8, <2>1, <2>2, <2>3, <2>4, <2>5, <2>6 DEF JobStep
<1>9. ASSUME NEW r \in Requests, Client(r) PROVE AwakeInv'
  <2>1. ASSUME NEW f \in Nodes, forward_to_replica(r, f) PROVE AwakeInv'
    <3>1. Forwards(r, f)
      BY <2>1, ForwardTypes
    <3>2. view' = view /\ hb' = hb /\ OldProbes
      BY <2>1, <3>1 DEF forward_to_replica, OldProbes, Forwards
    <3> QED BY <1>1, <3>2
  <2>2. CASE handle_lookup(r)
    <3>1. /\ Only(r) /\ req'[r].got = Fresh(head) /\ view' = view /\ hb' = hb /\ proc' = proc
          /\ lost' = lost
      BY <2>2, LookupFacts DEF handle_lookup, Reached
    <3>2. head \in Nodes
      BY TypeParts
    <3>3. /\ Fresh(head).alive /\ ~Fresh(head).down /\ Fresh(head).missed = 0
          /\ Fresh(head).pid = 1
      BY <3>2, TypeParts, FreshType DEF AwakeInv
    <3>4. ASSUME NEW s \in Requests, req'[s].pc = "probed"
          PROVE  /\ req'[s].got.alive /\ ~req'[s].got.down /\ req'[s].got.missed = 0
                 /\ req'[s].got.pid = 1
      BY <3>1, <3>3, <3>4 DEF Only, AwakeInv
    <3> QED BY <3>1, <3>4 DEF AwakeInv, Up, Well
  <2>3. CASE LookupAnswer(r)
    <3> DEFINE n == req[r].node
    <3>1. Only(r) /\ req[r].pc = "probed" /\ Answers(r) /\ hb' = hb
      BY <2>3, AnswerFacts DEF LookupAnswer
    <3>2. n \in Nodes /\ hb.live = {}
      BY <3>1, TypeParts DEF ReqInv, ReqGood, AwakeInv
    <3>3. OldProbes
      BY <3>1, IdleType DEF Only, Answers, GoesOn, OldProbes
    <3>4. ASSUME NEW e, view' = [view EXCEPT ![n] = e], e.alive, ~e.down, e.missed = 0, e.pid = 1
          PROVE  AwakeInv'
      <4>1. view'[n] = e /\ \A m \in Nodes \ {n} : view'[m] = view[m]
        BY <3>2, <3>4, TypeParts
      <4>2. 0 <= lost'
        BY <1>0 DEF Onward
      <4> QED BY <1>0, <3>1, <3>2, <3>3, <3>4, <4>1, <4>2, AwakeEntry
    <3>5. CASE view' = view
      BY <1>1, <3>1, <3>3, <3>5
    <3>6. CASE view' = [view EXCEPT ![n] = req[r].got]
      BY <3>1, <3>4, <3>6 DEF AwakeInv
    <3>7. CASE view' = [view EXCEPT ![n] = Fresh(n)]
      <4>1. Fresh(n).alive /\ ~Fresh(n).down /\ Fresh(n).missed = 0 /\ Fresh(n).pid = 1
        BY <3>2, TypeParts, FreshType DEF AwakeInv
      <4> QED BY <3>4, <3>7, <4>1
    <3> QED BY <3>1, <3>5, <3>6, <3>7 DEF Answers
  <2>4. CASE CheckRole(r)
    <3>1. /\ Only(r) /\ view' = view /\ hb' = hb
          /\ req'[r] = Idle \/ GoesOn(r, "queued", req[r].node)
      BY <2>4, RoleFacts DEF CheckRole
    <3>2. OldProbes
      BY <3>1, IdleType DEF Only, GoesOn, OldProbes
    <3> QED BY <1>1, <3>1, <3>2
  <2>5. CASE replicated_put(r)
    <3>1. Writes(r, req[r].node, FALSE) /\ view' = view /\ hb' = hb
      BY <2>5, PutFacts DEF replicated_put
    <3>2. OldProbes
      BY <3>1 DEF Writes, OldProbes
    <3> QED BY <1>1, <3>1, <3>2
  <2>6. CASE Conclude(r)
    <3>1. view' = view /\ hb' = hb /\ ((Only(r) /\ req'[r].pc = "done") \/ Writes(r, req[r].node, TRUE))
      BY <2>6, ConcludeFacts DEF Conclude
    <3>2. OldProbes
      BY <3>1 DEF Writes, Only, OldProbes
    <3> QED BY <1>1, <3>1, <3>2
  <2>7. CASE UseAfterFree(r)
    <3>1. Ends(req[r].node) /\ view' = view /\ hb' = hb
      BY <2>7, FreeFacts DEF UseAfterFree
    <3>2. OldProbes
      BY <3>1 DEF Ends, OldProbes
    <3> QED BY <1>1, <3>1, <3>2
  <2> QED BY <1>9, <2>1, <2>2, <2>3, <2>4, <2>5, <2>6, <2>7 DEF Client, Serve
<1>10. ASSUME NEW n \in Nodes, Crash(n) PROVE AwakeInv'
  <2>1. Ends(n) /\ view' = view /\ hb' = hb
    BY <1>10, CrashFacts DEF Crash
  <2>2. OldProbes
    BY <2>1 DEF Ends, OldProbes
  <2> QED BY <1>1, <2>1, <2>2
<1>11. ASSUME NEW n \in Nodes, Restart(n) PROVE FALSE
  BY <1>11 DEF Restart, FewFaults
<1>12. "hb" \in Threads /\ "setup" \in Threads
  BY DEF Threads
<1> QED BY <1>2, <1>3, <1>4, <1>5, <1>6, <1>7, <1>8, <1>9, <1>10, <1>11, <1>12
        DEF Next, Heartbeat, Setup

-----------------------------------------------------------------------------
(* Before READY is answered with OK. *)

OldEntry == [op |-> Old, undo |-> FALSE]

\* No node knows more than n.
Longest(n) == \A m \in Nodes : Up(m) => Lsn(m) <= Lsn(n)

\* All nodes run, and have nothing but the old write, on a majority.
Quiet ==
    /\ head = First /\ crashes = 0
    /\ job["hb"] = NoJob /\ job["setup"].kind \in {"none", "setup"}
    /\ \A r \in Requests : /\ req[r].pc \in {"new", "done"}
                           /\ req[r].result = "ok" => r = Old
    /\ \A n \in Nodes :
          /\ Up(n) /\ view[n].lsn <= Lsn(n)
          /\ n \in DOMAIN hb.snap => hb.snap[n].lsn <= Lsn(n)
          /\ proc[n].log = <<>> \/ (Old # Nil /\ proc[n].log = <<OldEntry>>)
    /\ Old # Nil => \E Q \in Majorities : \A n \in Q : Lsn(n) >= 1

\* What the job knows of node n is what n has, or n is still to be asked.
Right(j, n) == <<n, n>> \in j.ask \/ j.lsn[n] = Lsn(n)

\* The set-up thread looks for its primary.
Looking ==
    LET j == job["setup"]
    IN  /\ \A n \in Nodes : j.lsn[n] <= Lsn(n)
        /\ round >= 2 => \A n \in Nodes : Right(j, n)
        /\ lost < MaxLost => \A n \in Nodes : Right(j, n)
        /\ \E w \in Nodes : \A n \in Nodes \ {w} : Right(j, n)
        /\ j.ok

\* Each round of the first configuration but the last one has lost a call.  The
\* first node is promoted only if no node knows more, and is then taken again.
Configuring ==
    LET j == job["setup"]
    IN  /\ j = NoJob => lost >= round
        /\ j # NoJob => /\ lost + 1 >= round /\ (~j.ok => lost >= round) /\ round >= 1
                        /\ j.subj = First /\ j.cands = Nodes
                        /\ j.pc = "probe" => Looking
                        /\ j.pc # "probe" => /\ Longest(j.prim)
                                             /\ proc[First].prim => j.prim = First
        /\ proc[First].prim => Longest(First) /\ round >= 1
        /\ proc[First].prim /\ j # NoJob /\ j.pc = "probe" => round >= 2

StartInv == ~Ready => Quiet /\ Configuring

\* The set-up thread has work exactly until READY.
LEMMA ReadyFacts ==
    ASSUME TypeInv
    PROVE  /\ Ready => round = MaxRounds /\ job["setup"] = NoJob
           /\ job["setup"] = NoJob /\ round = MaxRounds => Ready
  BY TypeParts, NoJobType DEF Ready, JobInv, JobGood

\* READY is never taken back.
LEMMA ReadyStays ==
    ASSUME TypeInv, Ready, [Next]_vars
    PROVE  /\ Ready' /\ round' = round /\ job'["setup"] = NoJob
           /\ ~configure_initial_tablet_roles /\ ~JobStep("setup")
<1>1. round = MaxRounds /\ job["setup"] = NoJob
  BY ReadyFacts
<1>2. ~configure_initial_tablet_roles
  BY <1>1, BoundAssumption DEF configure_initial_tablet_roles
<1>3. ~JobStep("setup")
  <2>1. job["setup"].pc = ""
    BY <1>1, NoJobType
  <2> QED BY <2>1 DEF JobStep, Probe, Choose, promote_node, demote_and_sync_node,
                      add_replica_to_primary, Commit
<1>4. round' = round /\ job'["setup"] = job["setup"]
  <2>1. CASE UNCHANGED vars
    BY <2>1 DEF vars
  <2>2. CASE Snapshot
    BY <2>2 DEF Snapshot
  <2>3. ASSUME NEW n \in Nodes, Ping(n) \/ handle_node_failure(n) \/ handle_node_recovery(n)
                                \/ Crash(n) \/ Restart(n)
        PROVE  round' = round /\ job'["setup"] = job["setup"]
    BY <2>3, TypeParts
       DEF Ping, handle_node_failure, handle_node_recovery, Crash, Restart
  <2>4. CASE JobStep("hb")
    <3>1. ASSUME NEW c \in Nodes, NEW n \in Nodes, Probe("hb", c, n)
          PROVE  round' = round /\ job'["setup"] = job["setup"]
      BY <3>1, TypeParts, ProbeFacts DEF Probe, Probes, Threads
    <3>2. ASSUME NEW f \in Nodes, demote_and_sync_node("hb", f)
          PROVE  round' = round /\ job'["setup"] = job["setup"]
      BY <3>2, TypeParts, DemoteFacts DEF demote_and_sync_node, Threads
    <3>3. CASE Choose("hb")
      BY <3>3, TypeParts, ChooseFacts DEF Choose, Threads
    <3>4. CASE promote_node("hb")
      BY <3>4, TypeParts, PromoteFacts DEF promote_node, Threads
    <3>5. CASE add_replica_to_primary("hb")
      BY <3>5, TypeParts, AddFacts DEF add_replica_to_primary, Threads
    <3>6. CASE Commit("hb")
      <4>1. job'["setup"] = job["setup"] /\ Commits(job["hb"])
        BY <3>6, TypeParts, CommitFacts DEF Threads
      <4> QED BY <1>1, <4>1 DEF Commits
    <3> QED BY <2>4, <3>1, <3>2, <3>3, <3>4, <3>5, <3>6 DEF JobStep
  <2>5. ASSUME NEW r \in Requests, Client(r)
        PROVE  round' = round /\ job'["setup"] = job["setup"]
    BY <2>5 DEF Client, Serve, handle_lookup, LookupAnswer, CheckRole, replicated_put,
                Conclude, forward_to_replica, UseAfterFree
  <2> QED BY <1>2, <1>3, <2>1, <2>2, <2>3, <2>4, <2>5 DEF Next, Heartbeat, Setup
<1> QED BY <1>1, <1>2, <1>3, <1>4 DEF Ready

\* Until then only these steps are taken.
LEMMA QuietSteps ==
    ASSUME FewFaults, TypeInv, AwakeInv, Quiet, ~Ready, [Next]_vars
    PROVE  \/ UNCHANGED vars \/ Snapshot \/ \E n \in Nodes : Ping(n)
           \/ configure_initial_tablet_roles \/ JobStep("setup")
<1>1. ASSUME NEW n \in Nodes, handle_node_failure(n) PROVE FALSE
  <2>1. n \in hb.dead
    BY <1>1, FailureFacts
  <2> QED BY <2>1 DEF AwakeInv, Quiet
<1>2. ASSUME NEW n \in Nodes, handle_node_recovery(n) PROVE FALSE
  BY <1>2, RecoveryTypes DEF AwakeInv
<1>3. ~JobStep("hb")
  <2>1. job["hb"].pc = ""
    BY NoJobType DEF Quiet
  <2> QED BY <2>1 DEF JobStep, Probe, Choose, promote_node, demote_and_sync_node,
                      add_replica_to_primary, Commit
<1>4. ASSUME NEW r \in Requests, Client(r) PROVE FALSE
  <2>1. req[r].pc \in {"new", "done"}
    BY DEF Quiet
  <2> QED BY <1>4, <2>1 DEF Client, Serve, handle_lookup, LookupAnswer, CheckRole,
             replicated_put, Conclude, forward_to_replica, UseAfterFree, FewFaults
<1>5. ASSUME NEW n \in Nodes, Crash(n) \/ Restart(n) PROVE FALSE
  BY <1>5 DEF Crash, Restart, FewFaults
<1> QED BY <1>1, <1>2, <1>3, <1>4, <1>5 DEF Next, Heartbeat, Setup

\* Logs before READY are prefixes of one another.
LEMMA QuietLogs ==
    ASSUME TypeInv, Quiet, NEW n \in Nodes
    PROVE  /\ proc[n].log \in Seq(Entry) /\ Lsn(n) \in {0, 1}
           /\ Lsn(n) = 1 => proc[n].log = <<OldEntry>> /\ Old # Nil
           /\ \A m \in Nodes : Lsn(n) <= Lsn(m) => IsPrefix(proc[n].log, proc[m].log)
<1>1. \A m \in Nodes : proc[m].log \in Seq(Entry)
  BY TypeParts DEF ProcType
<1>2. \A m \in Nodes : proc[m].log = <<>> \/ (Old # Nil /\ proc[m].log = <<OldEntry>>)
  BY DEF Quiet
<1> DEFINE e == OldEntry
<1> HIDE DEF e
<1>3. \A m \in Nodes : proc[m].log = <<>> \/ (Old # Nil /\ proc[m].log = <<e>>)
  BY <1>2 DEF e
<1>4. \A m \in Nodes : Lsn(m) = Len(proc[m].log)
  BY DEF Lsn
<1>5. ASSUME NEW m \in Nodes
      PROVE  Lsn(m) \in {0, 1} /\ (Lsn(m) = 1 => proc[m].log = <<e>> /\ Old # Nil)
             /\ (Lsn(m) = 0 => proc[m].log = <<>>)
  <2>1. Len(<<>>) = 0 /\ Len(<<e>>) = 1
    OBVIOUS
  <2>2. CASE proc[m].log = <<>>
    BY <1>4, <2>1, <2>2
  <2>3. CASE Old # Nil /\ proc[m].log = <<e>>
    <3>1. Lsn(m) = 1
      <4>1. Lsn(m) = Len(proc[m].log)
        BY <1>4
      <4> QED BY <2>1, <2>3, <4>1
    <3> QED BY <2>3, <3>1
  <2> QED BY <1>3, <2>2, <2>3
<1>6. ASSUME NEW m \in Nodes, Lsn(n) <= Lsn(m) PROVE IsPrefix(proc[n].log, proc[m].log)
  <2>1. Len(proc[n].log) <= Len(proc[m].log)
    BY <1>6 DEF Lsn
  <2>2. \A i \in 1..Len(proc[n].log) : proc[n].log[i] = proc[m].log[i]
    <3>1. CASE Lsn(n) = 0
      <4>1. Len(proc[n].log) = 0
        BY <3>1 DEF Lsn
      <4> QED BY <4>1
    <3>2. CASE Lsn(n) = 1
      BY <1>5, <1>6, <3>2
    <3> QED BY <1>5, <3>1, <3>2
  <2> QED BY <1>1, <2>1, <2>2, PrefixFacts
<1> QED BY <1>1, <1>5, <1>6 DEF e

\* A node that all candidates' LSNs allow knows as much as any node, although one
\* probe may have been lost: a majority has the old write.
LEMMA BestLongest ==
    ASSUME TypeInv, Quiet, NEW j, j = job["setup"], Looking, j.ask = {}, NEW p \in Nodes,
           \A m \in Nodes : j.lsn[m] <= j.lsn[p]
    PROVE  Longest(p)
<1>0. j \in JobType
  BY TypeParts
<1>1. \A n \in Nodes : /\ Lsn(n) \in {0, 1} /\ j.lsn[n] \in Nat /\ j.lsn[n] <= Lsn(n)
                       /\ (Lsn(n) = 1 => Old # Nil)
  BY <1>0, QuietLogs DEF Looking, JobType
<1>2. PICK w \in Nodes : \A n \in Nodes \ {w} : Right(j, n)
  BY DEF Looking
<1>3. \A n \in Nodes \ {w} : j.lsn[n] = Lsn(n)
  BY <1>2 DEF Right
<1>4. ASSUME NEW m \in Nodes, Lsn(m) = 1 PROVE Lsn(p) = 1
  <2>1. CASE m # w
    <3>1. j.lsn[m] = 1
      BY <1>3, <1>4, <2>1
    <3>2. j.lsn[p] >= 1
      BY <1>1, <3>1
    <3> QED BY <1>1, <3>2
  <2>2. CASE m = w
    <3>1. PICK Q \in Majorities : \A n \in Q : Lsn(n) >= 1
      BY <1>1, <1>4 DEF Quiet
    <3>2. CASE \E x \in Q : x # w
      <4>1. PICK x \in Q : x # w
        BY <3>2
      <4>2. x \in Nodes /\ Lsn(x) = 1
        BY <1>1, <3>1, <4>1 DEF Majorities
      <4>3. j.lsn[x] = 1
        BY <1>3, <4>1, <4>2
      <4>4. j.lsn[p] >= 1
        BY <1>1, <4>2, <4>3
      <4> QED BY <1>1, <4>4
    <3>3. CASE Q \subseteq {w}
      <4>1. IsFiniteSet({w}) /\ Cardinality({w}) = 1
        BY FS_Singleton
      <4>2. Cardinality(Q) <= 1 /\ Cardinality(Q) \in Nat
        BY <3>3, <4>1, FS_Subset, FS_CardinalityType
      <4>3. Cardinality(Nodes) \in Nat /\ 2 * Cardinality(Q) > Cardinality(Nodes)
        BY NodeAssumption, FS_CardinalityType DEF Majorities
      <4>4. Cardinality(Nodes) <= 1
        BY <4>2, <4>3
      <4>5. p = w
        <5>1. {p, w} \subseteq Nodes /\ IsFiniteSet(Nodes)
          BY NodeAssumption
        <5>2. Cardinality({p, w}) <= Cardinality(Nodes)
          BY <5>1, FS_Subset
        <5>3. p # w => Cardinality({p, w}) = 2
          <6>1. {p, w} = {w} \cup {p}
            OBVIOUS
          <6>2. p \notin {w} => Cardinality({w} \cup {p}) = Cardinality({w}) + 1
            BY <4>1, FS_AddElement
          <6> QED BY <4>1, <6>1, <6>2
        <5> QED BY <4>3, <4>4, <5>2, <5>3
      <4> QED BY <1>4, <2>2, <4>5
    <3> QED BY <3>2, <3>3
  <2> QED BY <2>1, <2>2
<1> QED BY <1>1, <1>4 DEF Longest

\* The nodes may learn the old write, and nothing else happens.
LEMMA QuietKeep ==
    ASSUME TypeInv, TypeInv', Quiet,
           UNCHANGED <<head, hb, view, crashes>>, job'["hb"] = job["hb"],
           job'["setup"].kind \in {"none", "setup"}, req' = req \/ Marks,
           \A n \in Nodes : proc'[n].up = proc[n].up /\ \E m \in Nodes :
                    proc'[n].log = proc[m].log /\ Lsn(n) <= Lsn(m)
    PROVE  Quiet'
<1>1. \A n \in Nodes : Len(proc[n].log) \in Nat /\ Len(proc'[n].log) \in Nat
  <2>1. proc \in [Nodes -> ProcType] /\ proc' \in [Nodes -> ProcType]
    BY DEF TypeInv, ProcInv
  <2>2. \A n \in Nodes : proc[n].log \in Seq(Entry) /\ proc'[n].log \in Seq(Entry)
    BY <2>1 DEF ProcType
  <2> QED BY <2>2
<1>2. ASSUME NEW n \in Nodes
      PROVE  /\ proc'[n].up /\ Len(proc'[n].log) >= Len(proc[n].log)
             /\ proc'[n].log = <<>> \/ (Old # Nil /\ proc'[n].log = <<OldEntry>>)
  <2>1. PICK m \in Nodes : proc'[n].log = proc[m].log /\ Lsn(n) <= Lsn(m)
    OBVIOUS
  <2> QED BY <1>1, <2>1 DEF Quiet, Up, Lsn
<1>3. \A n \in Nodes : view[n].lsn \in Nat /\ (n \in DOMAIN hb.snap => hb.snap[n].lsn \in Nat)
  BY TypeParts, HbFields DEF TableEntry
<1>4. ASSUME NEW n \in Nodes
      PROVE  /\ view'[n].lsn <= Len(proc'[n].log)
             /\ n \in DOMAIN hb'.snap => hb'.snap[n].lsn <= Len(proc'[n].log)
  <2>1. /\ view[n].lsn <= Len(proc[n].log)
        /\ n \in DOMAIN hb.snap => hb.snap[n].lsn <= Len(proc[n].log)
    BY DEF Quiet, Lsn
  <2> QED BY <1>1, <1>2, <1>3, <2>1
<1>5. Old # Nil => \E Q \in Majorities : \A n \in Q : Len(proc'[n].log) >= 1
  <2> SUFFICES ASSUME Old # Nil PROVE \E Q \in Majorities : \A n \in Q : Len(proc'[n].log) >= 1
    OBVIOUS
  <2>1. PICK Q \in Majorities : \A n \in Q : Len(proc[n].log) >= 1
    BY DEF Quiet, Lsn
  <2>2. Q \subseteq Nodes
    BY DEF Majorities
  <2>3. \A n \in Q : Len(proc'[n].log) >= 1
    BY <1>1, <1>2, <2>1, <2>2
  <2> QED BY <2>3
<1>6. \A r \in Requests : req'[r].pc \in {"new", "done"} /\ (req'[r].result = "ok" => r = Old)
  BY DEF Marks, Quiet
<1> QED BY <1>2, <1>4, <1>5, <1>6 DEF Quiet, Up, Lsn

\* The set-up thread is at work: its calls fail only by being lost.
LEMMA SetupJob ==
    ASSUME TypeInv, ~Ready, Quiet, Configuring, job["setup"] # NoJob
    PROVE  /\ job["setup"] \in JobType /\ JobGood(job["setup"]) /\ job["setup"].kind = "setup"
           /\ lost \in Nat /\ lost + 1 >= round /\ round \in Nat
           /\ \A n \in Nodes : Missed(n) => lost' = lost + 1 /\ lost < MaxLost
           /\ \A n \in Nodes : Reached(n) => lost' = lost
           /\ \A n \in Nodes : Lsn(n) \in Nat
<1>1. job["setup"] \in JobType /\ JobGood(job["setup"])
  BY TypeParts DEF JobInv
<1>2. job["setup"].kind = "setup"
  BY <1>1 DEF Quiet, JobGood
<1>3. lost \in Nat /\ round \in Nat /\ lost + 1 >= round
  BY TypeParts, BoundAssumption DEF Configuring
<1>4. \A n \in Nodes : Missed(n) => lost' = lost + 1 /\ lost < MaxLost
  BY DEF Missed, Quiet, Up
<1>5. \A n \in Nodes : Lsn(n) \in Nat
  BY QuietLogs
<1> QED BY <1>1, <1>2, <1>3, <1>4, <1>5 DEF Reached

\* A probe of the set-up thread learns the LSN of its node.
LEMMA SetupProbe ==
    ASSUME FewFaults, TypeInv, TypeInv', ~Ready, Quiet, Configuring, NEW c \in Nodes, NEW n \in Nodes,
           Probe("setup", c, n)
    PROVE  Quiet' /\ Configuring'
<1> DEFINE j == job["setup"]
           k == job'["setup"]
<1>1. /\ j.pc = "probe" /\ j # NoJob /\ job'["hb"] = job["hb"] /\ Probes("setup", c, n)
      /\ UNCHANGED <<proc, head, hb, round, req, crashes>>
  BY ProbeFacts DEF Probe, Probes, Threads
<1>2. /\ j \in JobType /\ JobGood(j) /\ j.kind = "setup" /\ lost \in Nat /\ round \in Nat
      /\ lost + 1 >= round /\ \A x \in Nodes : Lsn(x) \in Nat
      /\ Missed(n) => lost' = lost + 1 /\ lost < MaxLost
      /\ Reached(n) => lost' = lost
  BY <1>1, SetupJob
<1>3. /\ round >= 1 /\ j.subj = First /\ j.cands = Nodes /\ Looking
      /\ proc[First].prim => Longest(First) /\ round >= 2
  BY <1>1 DEF Configuring
<1>4. /\ k.kind = "setup" /\ k.subj = First /\ k.cands = Nodes /\ k.pc = "probe" /\ k.ok = j.ok
      /\ k.ask = j.ask \ {<<c, n>>}
      /\ \A m \in Nodes \ {n} : k.lsn[m] = j.lsn[m]
      /\ \/ /\ Reached(n) /\ view' = [view EXCEPT ![n] = Fresh(n)] /\ k.lsn[n] = Lsn(n)
         \/ /\ Missed(n) /\ view' = view /\ k.lsn[n] = j.lsn[n]
  BY <1>1, <1>2, <1>3 DEF Probes, Answered, Unanswered, Kept
<1>5. j.ok /\ \A m \in Nodes : j.lsn[m] <= Lsn(m)
  BY <1>3 DEF Looking
<1>6. ASSUME NEW x, x = k
      PROVE  /\ \A m \in Nodes : x.lsn[m] <= Lsn(m)
             /\ round >= 2 => \A m \in Nodes : Right(x, m)
             /\ lost' < MaxLost => \A m \in Nodes : Right(x, m)
             /\ \E w \in Nodes : \A m \in Nodes \ {w} : Right(x, m)
             /\ x.ok
  <2>1. \A m \in Nodes \ {n} : Right(j, m) => Right(x, m)
    BY <1>4, <1>6 DEF Right
  <2>2. \A m \in Nodes : x.lsn[m] <= Lsn(m)
    BY <1>2, <1>4, <1>5, <1>6
  <2>3. CASE Reached(n) /\ k.lsn[n] = Lsn(n)
    <3>1. \A m \in Nodes : Right(j, m) => Right(x, m)
      BY <1>6, <2>1, <2>3 DEF Right
    <3> QED BY <1>2, <1>3, <1>4, <1>5, <1>6, <2>2, <2>3, <3>1 DEF Looking
  <2>4. CASE Missed(n)
    <3>1. lost' = lost + 1 /\ lost < MaxLost /\ ~(lost' < MaxLost) /\ ~(round >= 2)
      BY <1>2, <2>4, BoundAssumption DEF FewFaults
    <3>2. \A m \in Nodes : Right(j, m)
      BY <1>3, <3>1 DEF Looking
    <3> QED BY <1>4, <1>5, <1>6, <2>1, <2>2, <3>1, <3>2
  <2> QED BY <1>4, <2>3, <2>4
<1>7. Looking'
  BY <1>1, <1>6 DEF Looking, Right, Lsn
<1>8. lost' \in Nat /\ lost' + 1 >= round /\ k # NoJob /\ k.ok
  <2>1. lost' = lost \/ lost' = lost + 1
    BY <1>2, <1>4
  <2>2. lost' \in Nat /\ lost' + 1 >= round
    BY <1>2, <2>1
  <2> QED BY <1>4, <1>5, <2>2, NoJobType
<1>9. Configuring'
  BY <1>1, <1>3, <1>4, <1>7, <1>8 DEF Configuring, Longest, Lsn, Up
<1>10. \A m \in Nodes : view'[m].lsn <= Lsn(m)
  BY <1>2, <1>4, TypeParts, FreshType DEF Quiet
<1>11. Quiet'
  BY <1>1, <1>4, <1>10 DEF Quiet, Up, Lsn
<1> QED BY <1>9, <1>11

\* The set-up thread chooses a node that knows most.
LEMMA SetupChoose ==
    ASSUME FewFaults, TypeInv, TypeInv', ~Ready, Quiet, Configuring, Choose("setup")
    PROVE  Quiet' /\ Configuring'
<1> DEFINE j == job["setup"]
           k == job'["setup"]
<1>1. /\ j.pc = "probe" /\ j # NoJob /\ j.ask = {} /\ job'["hb"] = job["hb"] /\ Chosen(j, k)
      /\ UNCHANGED <<proc, view, head, hb, round, req, lost, crashes>>
  BY ChooseFacts DEF Choose, Threads
<1>2. /\ j \in JobType /\ JobGood(j) /\ j.kind = "setup" /\ lost \in Nat /\ round \in Nat
      /\ lost + 1 >= round /\ \A x \in Nodes : Lsn(x) \in Nat
  BY <1>1, SetupJob
<1>3. /\ round >= 1 /\ j.subj = First /\ j.cands = Nodes /\ Looking
      /\ proc[First].prim => Longest(First) /\ round >= 2
  BY <1>1 DEF Configuring
<1>4. Nodes # {} /\ First \in Nodes /\ \A n \in Nodes : proc[n].up
  BY NodeAssumption DEF Quiet, Up
<1>5. PICK n \in Nodes :
             /\ GoneOn(j, k, "promote", n) /\ k.ok = (j.cands = Nodes)
             /\ \A m \in Nodes : j.lsn[m] <= j.lsn[n]
             /\ (\A m \in Nodes : j.lsn[m] <= j.lsn[First]) => n = First
  BY <1>1, <1>2, <1>3, <1>4 DEF Chosen
<1>6. /\ k.kind = "setup" /\ k.subj = First /\ k.cands = Nodes /\ k.pc = "promote"
      /\ k.prim = n /\ k.ok
  BY <1>2, <1>3, <1>5 DEF GoneOn, Kept
<1>7. Longest(n)
  BY <1>1, <1>3, <1>5, BestLongest
<1>8. proc[First].prim => n = First
  <2> SUFFICES ASSUME proc[First].prim PROVE \A m \in Nodes : j.lsn[m] <= j.lsn[First]
    BY <1>5
  <2>1. \A m \in Nodes : j.lsn[m] = Lsn(m)
    BY <1>1, <1>3 DEF Looking, Right
  <2>2. \A m \in Nodes : Lsn(m) <= Lsn(First)
    BY <1>3, <1>4 DEF Longest, Up
  <2> QED BY <1>4, <2>1, <2>2
<1>9. k # NoJob
  BY <1>6, NoJobType
<1> HIDE DEF k
<1>10. k = job'["setup"]
  BY DEF k
<1>11. Longest(n)'
  BY <1>1, <1>7 DEF Longest, Up, Lsn
<1>12. Configuring'
  BY <1>1, <1>2, <1>3, <1>6, <1>8, <1>9, <1>10, <1>11 DEF Configuring, Longest, Lsn, Up
<1>13. Quiet'
  BY <1>1, <1>6, <1>10 DEF Quiet, Up, Lsn
<1> QED BY <1>12, <1>13

\* What a call of the set-up thread leaves of its job, its logs and its count.
LEMMA SetupCall ==
    ASSUME TypeInv, TypeInv', ~Ready, Quiet, Configuring, job["setup"] # NoJob,
           job["setup"].pc # "probe", job'["setup"].pc # "probe", job'["setup"] # NoJob,
           Kept(job["setup"], job'["setup"]), job'["setup"].cands = Nodes,
           job'["setup"].prim = job["setup"].prim, job'["hb"] = job["hb"],
           UNCHANGED <<head, hb, view, crashes, round>>, req' = req \/ Marks,
           lost' \in Nat, lost' + 1 >= round, ~job'["setup"].ok => lost' >= round,
           \A n \in Nodes : proc'[n].up = proc[n].up,
           \A n \in Nodes : proc'[n].log = proc[n].log \/ proc'[n].log = proc[job["setup"].prim].log,
           proc'[job["setup"].prim].log = proc[job["setup"].prim].log,
           proc'[First].prim => proc[First].prim \/ First = job["setup"].prim
    PROVE  Quiet' /\ Configuring'
<1> DEFINE j == job["setup"]
           k == job'["setup"]
           p == j.prim
<1>1. /\ j.kind = "setup" /\ JobGood(j) /\ \A n \in Nodes : Lsn(n) \in Nat
  BY SetupJob
<1>2. j.pc # "" /\ p \in Nodes
  BY <1>1 DEF JobGood, JobType
<1>3. /\ round >= 1 /\ j.subj = First /\ Longest(p) /\ (proc[First].prim => p = First)
      /\ (proc[First].prim => Longest(First))
  BY DEF Configuring
<1>4. k.kind = "setup" /\ k.subj = First
  BY <1>1, <1>3 DEF Kept
<1>5. \A n \in Nodes : proc[n].up /\ Lsn(n) <= Lsn(p)
  BY <1>3 DEF Longest, Quiet, Up
<1>6. Quiet'
  <2>1. ASSUME NEW n \in Nodes
        PROVE  \E m \in Nodes : proc'[n].log = proc[m].log /\ Lsn(n) <= Lsn(m)
    <3>1. CASE proc'[n].log = proc[n].log
      BY <1>1, <3>1
    <3>2. CASE proc'[n].log = proc[p].log
      BY <1>2, <1>5, <3>2
    <3> QED BY <3>1, <3>2
  <2> QED BY <1>4, <2>1, QuietKeep
<1>7. \A n \in Nodes : Len(proc'[n].log) <= Len(proc'[p].log)
  BY <1>1, <1>2, <1>5 DEF Lsn
<1>8. proc'[First].prim => p = First
  BY <1>3
<1> HIDE DEF j, k, p
<1>9. \A n \in Nodes : Len(proc'[n].log) <= Len(proc'[k.prim].log)
  BY <1>7 DEF j, k, p
<1>10. (\A m \in Nodes : Up(m) => Lsn(m) <= Lsn(job["setup"].prim))'
  BY <1>9 DEF k, Lsn
<1>11. proc'[First].prim => \A n \in Nodes : Len(proc'[n].log) <= Len(proc'[First].log)
  BY <1>7, <1>8
<1>12. proc'[First].prim => k.prim = First
  BY <1>8 DEF j, k, p
<1>13. Configuring'
  BY <1>3, <1>4, <1>10, <1>11, <1>12 DEF Configuring, Longest, Up, Lsn, k
<1> QED BY <1>6, <1>13

\* The node chosen is promoted.
LEMMA SetupPromote ==
    ASSUME FewFaults, TypeInv, TypeInv', ~Ready, Quiet, Configuring, promote_node("setup")
    PROVE  Quiet' /\ Configuring'
<1> DEFINE j == job["setup"]
           k == job'["setup"]
           p == j.prim
<1>1. /\ j.pc = "promote" /\ j # NoJob /\ p \in Nodes /\ job'["hb"] = job["hb"] /\ Promotes(j, k)
      /\ UNCHANGED <<view, head, hb, round, crashes>>
  BY PromoteFacts DEF promote_node, Threads
<1>2. /\ j.kind = "setup" /\ lost \in Nat /\ round \in Nat /\ lost + 1 >= round
      /\ \A n \in Nodes : Missed(n) => lost' = lost + 1 /\ lost < MaxLost
      /\ \A n \in Nodes : Reached(n) => lost' = lost
  BY <1>1, SetupJob
<1>3. j.cands = Nodes /\ (~j.ok => lost >= round)
  BY <1>1 DEF Configuring
<1>4. /\ Kept(j, k) /\ k.pc = "sync" /\ k.cands = Nodes /\ k.prim = p
      /\ \/ Reached(p) /\ k.ok = j.ok
         \/ Missed(p) /\ ~k.ok
      /\ UNCHANGED <<proc, req>> \/ Promoted(p)
  BY <1>1, <1>2, <1>3 DEF Promotes, TurnsTo
<1>5. lost' \in Nat /\ lost' + 1 >= round /\ (~k.ok => lost' >= round)
  BY <1>1, <1>2, <1>3, <1>4
<1>6. /\ \A n \in Nodes : proc'[n].up = proc[n].up /\ proc'[n].log = proc[n].log
      /\ req' = req \/ Marks
      /\ proc'[First].prim => proc[First].prim \/ First = p
  BY <1>4, NodeAssumption DEF Promoted, Touches
<1>7. k # NoJob
  BY <1>4, NoJobType
<1> QED BY <1>1, <1>4, <1>5, <1>6, <1>7, SetupCall

\* The others sync from it.
LEMMA SetupDemote ==
    ASSUME FewFaults, TypeInv, TypeInv', ~Ready, Quiet, Configuring, NEW f \in Nodes,
           demote_and_sync_node("setup", f)
    PROVE  Quiet' /\ Configuring'
<1> DEFINE j == job["setup"]
           k == job'["setup"]
           p == j.prim
<1>1. /\ j.pc = "sync" /\ j # NoJob /\ p \in Nodes /\ f # p /\ job'["hb"] = job["hb"]
      /\ Demotes(j, k, f) /\ UNCHANGED <<view, head, hb, round, crashes>>
  BY DemoteFacts DEF demote_and_sync_node, Threads
<1>2. /\ j.kind = "setup" /\ lost \in Nat /\ round \in Nat /\ lost + 1 >= round
      /\ \A n \in Nodes : Missed(n) => lost' = lost + 1 /\ lost < MaxLost
      /\ \A n \in Nodes : Reached(n) => lost' = lost
  BY <1>1, SetupJob
<1>3. /\ j.cands = Nodes /\ (~j.ok => lost >= round) /\ proc[p].up /\ Lsn(f) <= Lsn(p)
  BY <1>1 DEF Configuring, Quiet, Up, Longest
<1>4. /\ Kept(j, k) /\ k.pc \in {"sync", "add"} /\ k.cands = Nodes /\ k.prim = p
      /\ \/ Reached(f) /\ k.ok = j.ok
         \/ Missed(f) /\ ~k.ok
      /\ UNCHANGED <<proc, req>> \/ Demoted(f, p)
  BY <1>1, <1>2, <1>3 DEF Demotes, Skips, TurnsTo
<1>5. lost' \in Nat /\ lost' + 1 >= round /\ (~k.ok => lost' >= round)
  BY <1>1, <1>2, <1>3, <1>4
<1>6. ASSUME NEW l \in Synced(proc[f].log, proc[p].log) PROVE l = proc[p].log
  <2>1. proc[f].log \in Seq(Entry) /\ proc[p].log \in Seq(Entry)
        /\ IsPrefix(proc[f].log, proc[p].log)
    BY <1>1, <1>3, QuietLogs
  <2> QED BY <2>1, SyncedType
<1>7. /\ \A n \in Nodes : proc'[n].up = proc[n].up
      /\ \A n \in Nodes : proc'[n].log = proc[n].log \/ proc'[n].log = proc[p].log
      /\ proc'[p].log = proc[p].log /\ (req' = req \/ Marks)
      /\ proc'[First].prim => proc[First].prim
  BY <1>1, <1>4, <1>6, NodeAssumption DEF Demoted, Touches
<1>8. k # NoJob /\ k.pc # "probe"
  BY <1>4, NoJobType
<1> QED BY <1>1, <1>4, <1>5, <1>7, <1>8, SetupCall

\* They are added to its list.
LEMMA SetupAdd ==
    ASSUME FewFaults, TypeInv, TypeInv', ~Ready, Quiet, Configuring,
           add_replica_to_primary("setup")
    PROVE  Quiet' /\ Configuring'
<1> DEFINE j == job["setup"]
           k == job'["setup"]
           p == j.prim
<1>1. /\ j.pc = "add" /\ j # NoJob /\ p \in Nodes /\ job'["hb"] = job["hb"]
      /\ Adds(j, k) /\ UNCHANGED <<view, head, hb, round, req, crashes>>
  BY AddFacts DEF add_replica_to_primary, Threads
<1>2. /\ j.kind = "setup" /\ lost \in Nat /\ round \in Nat /\ lost + 1 >= round
      /\ \A n \in Nodes : Missed(n) => lost' = lost + 1 /\ lost < MaxLost
      /\ \A n \in Nodes : Reached(n) => lost' = lost
  BY <1>1, SetupJob
<1>3. j.cands = Nodes /\ (~j.ok => lost >= round)
  BY <1>1 DEF Configuring
<1>4. /\ Kept(j, k) /\ k.pc = "sync" /\ k.cands = Nodes /\ k.prim = p
      /\ \/ Reached(p) /\ k.ok = j.ok
         \/ Missed(p) /\ ~k.ok
      /\ proc' = proc \/ Added(p, j.cur)
  BY <1>1, <1>2, <1>3 DEF Adds, Skips, TurnsTo
<1>5. lost' \in Nat /\ lost' + 1 >= round /\ (~k.ok => lost' >= round)
  BY <1>1, <1>2, <1>3, <1>4
<1>6. /\ \A n \in Nodes : proc'[n].up = proc[n].up /\ proc'[n].log = proc[n].log
      /\ proc'[First].prim => proc[First].prim
  BY <1>1, <1>4, NodeAssumption DEF Added, Touches
<1>7. k # NoJob
  BY <1>4, NoJobType
<1> QED BY <1>1, <1>4, <1>5, <1>6, <1>7, SetupCall

\* The round that lost no call stores its primary.
LEMMA SetupCommit ==
    ASSUME FewFaults, TypeInv, TypeInv', ~Ready, Quiet, Configuring, Commit("setup")
    PROVE  /\ ~Ready' => Quiet' /\ Configuring'
           /\ Ready' => /\ head' = job["setup"].prim /\ head' \in Nodes /\ Longest(head')
                        /\ proc[First].prim => head' = First
           /\ job'["hb"] = NoJob
<1> DEFINE j == job["setup"]
<1>1. /\ j.pc = "sync" /\ j # NoJob /\ j.prim \in Nodes /\ job'["hb"] = job["hb"]
      /\ job'["setup"] = NoJob /\ Commits(j)
      /\ UNCHANGED <<proc, hb, req, lost, crashes>>
  BY CommitFacts DEF Commit, Threads
<1>2. j.kind = "setup" /\ lost \in Nat /\ round \in Nat
  BY <1>1, SetupJob
<1>3. /\ ~j.ok => lost >= round
      /\ Longest(j.prim) /\ (proc[First].prim => j.prim = First)
      /\ (proc[First].prim => Longest(First) /\ round >= 1)
  BY <1>1 DEF Configuring
<1>4. view' = view /\ head' = (IF j.ok THEN j.prim ELSE head) /\ round' = (IF j.ok THEN MaxRounds ELSE round)
  BY <1>1, <1>2 DEF Commits
<1>5. Ready' <=> round' = MaxRounds
  BY <1>1, NoJobType DEF Ready
<1>6. CASE j.ok
  BY <1>1, <1>3, <1>4, <1>5, <1>6 DEF Quiet
<1>7. CASE ~j.ok
  <2>1. lost <= MaxLost /\ MaxLost < MaxRounds
    BY TypeParts, BoundAssumption DEF FewFaults
  <2>2. ~Ready'
    BY <1>2, <1>3, <1>4, <1>5, <1>7, <2>1, BoundAssumption
  <2>3. Configuring'
    BY <1>1, <1>3, <1>4, <1>7, NoJobType DEF Configuring, Longest, Up, Lsn
  <2>4. Quiet'
    BY <1>1, <1>4, <1>7, NoJobType DEF Quiet, Up, Lsn
  <2> QED BY <1>1, <2>2, <2>3, <2>4 DEF Quiet
<1> QED BY <1>6, <1>7

\* A further round is only started after one that lost a call.
LEMMA SetupConfigure ==
    ASSUME FewFaults, TypeInv, TypeInv', AwakeInv, ~Ready, Quiet, Configuring,
           configure_initial_tablet_roles
    PROVE  Quiet' /\ Configuring' /\ ~Ready'
<1> DEFINE k == job'["setup"]
           live == {n \in Nodes : Alive(n)}
<1>1. /\ job["setup"] = NoJob /\ round' = round + 1 /\ job'["hb"] = job["hb"]
      /\ k.kind = "setup" /\ k.pc = "probe" /\ k.subj = First /\ k.cands = live
      /\ k.ask = {<<n, n>> : n \in live} /\ k.ok
      /\ \A n \in Nodes : k.lsn[n] = view[n].lsn
      /\ UNCHANGED <<proc, view, head, hb, req, lost, crashes>>
  BY ConfigureFacts DEF configure_initial_tablet_roles
<1>2. live = Nodes
  BY DEF AwakeInv, Quiet, Well, Alive, Up
<1>3. lost \in Nat /\ round \in Nat /\ lost >= round /\ k # NoJob
  <2>1. lost >= round
    BY <1>1 DEF Configuring
  <2>2. lost \in Nat /\ round \in Nat
    BY TypeParts, BoundAssumption
  <2>3. k # NoJob
    BY <1>1, NoJobType
  <2> QED BY <2>1, <2>2, <2>3
<1>4. proc[First].prim => Longest(First) /\ round >= 1
  BY DEF Configuring
<1>5. /\ \A n \in Nodes : <<n, n>> \in k.ask
      /\ \A n \in Nodes : k.lsn[n] <= Lsn(n)
  BY <1>1, <1>2 DEF Quiet
<1> HIDE DEF k
<1>6. k = job'["setup"] /\ First \in Nodes
  BY NodeAssumption DEF k
<1>7. Looking'
  BY <1>1, <1>5, <1>6 DEF Looking, Right, Lsn
<1>8. Configuring'
  <2>1. lost' + 1 >= round' /\ round' >= 1 /\ (proc'[First].prim => round' >= 2)
    BY <1>1, <1>3, <1>4
  <2>2. proc'[First].prim => Longest(First)'
    BY <1>1, <1>4 DEF Longest, Up, Lsn
  <2>3. job'["setup"].cands = Nodes /\ job'["setup"].ok /\ job'["setup"] # NoJob
        /\ job'["setup"].pc = "probe" /\ job'["setup"].subj = First
    BY <1>1, <1>2, <1>3, <1>6
  <2> QED BY <2>1, <2>2, <2>3, <1>7 DEF Configuring
<1>9. Quiet'
  BY <1>1, <1>6 DEF Quiet, Up, Lsn
<1>10. ~Ready'
  BY <1>1, <1>6 DEF Ready
<1> QED BY <1>8, <1>9, <1>10

\* The set-up thread does nothing, and the table stays behind the nodes.
LEMMA SetupIdle ==
    ASSUME TypeInv, TypeInv', Quiet, Configuring, Onward,
           UNCHANGED <<proc, head, job, round, req, crashes>>,
           \A n \in Nodes : /\ view'[n].lsn <= Lsn(n)
                            /\ n \in DOMAIN hb'.snap => hb'.snap[n].lsn <= Lsn(n)
    PROVE  Quiet' /\ Configuring'
<1>1. Quiet'
  BY DEF Quiet, Up, Lsn
<1>2. /\ lost \in Nat /\ lost' \in Nat /\ lost <= lost' /\ MaxLost \in Nat /\ round \in Nat
      /\ round' = round
  BY TypeParts, BoundAssumption DEF Onward
<1>3. Looking => Looking'
  <2>1. lost' < MaxLost => lost < MaxLost
    BY <1>2
  <2> QED BY <2>1 DEF Looking, Right, Lsn
<1>4. (lost >= round => lost' >= round') /\ (lost + 1 >= round => lost' + 1 >= round')
  <2>1. \A a, b, c \in Nat : a <= b => (a >= c => b >= c) /\ (a + 1 >= c => b + 1 >= c)
    OBVIOUS
  <2>2. (lost >= round => lost' >= round) /\ (lost + 1 >= round => lost' + 1 >= round)
    BY <1>2, <2>1
  <2> QED BY <1>2, <2>2
<1>5. \A n : Longest(n) <=> Longest(n)'
  BY DEF Longest, Up, Lsn
<1>6. Longest(job["setup"].prim) => Longest(job["setup"].prim)'
  BY DEF Longest, Up, Lsn
<1>7. Configuring'
  BY <1>3, <1>4, <1>5, <1>6 DEF Configuring
<1> QED BY <1>1, <1>7

\* Every step before READY keeps the invariant.
LEMMA StartNext ==
    ASSUME FewFaults, TypeInv, AwakeInv, StartInv, [Next]_vars
    PROVE  StartInv'
<1> SUFFICES ASSUME ~Ready' PROVE Quiet' /\ Configuring'
  BY DEF StartInv
<1>0. TypeInv' /\ Onward
  BY NextTypes, NextOnward
<1>1. ~Ready
  BY ReadyStays
<1>2. Quiet /\ Configuring
  BY <1>1 DEF StartInv
<1>3. CASE UNCHANGED vars
  BY <1>0, <1>2, <1>3, SetupIdle DEF vars, Quiet
<1>4. CASE Snapshot
  <2>1. hb'.snap = view /\ view' = view /\ DOMAIN view = Nodes
    BY <1>4, SnapshotTypes, TypeParts DEF Snapshot
  <2>2. UNCHANGED <<proc, head, job, round, req, crashes>>
    BY <1>4 DEF Snapshot
  <2>3. \A n \in Nodes : /\ view'[n].lsn <= Lsn(n)
                         /\ n \in DOMAIN hb'.snap => hb'.snap[n].lsn <= Lsn(n)
    BY <1>2, <2>1 DEF Quiet
  <2> QED BY <1>0, <1>2, <2>2, <2>3, SetupIdle
<1>5. ASSUME NEW n \in Nodes, Ping(n) PROVE Quiet' /\ Configuring'
  <2>1. PICK ok \in BOOLEAN, e \in TableEntry : Pings(n, ok, e)
    BY <1>5, PingFacts
  <2>2. UNCHANGED <<proc, head, job, round, req, crashes>>
    BY <1>5 DEF Ping
  <2>3. view'[n] = e /\ \A m \in Nodes \ {n} : view'[m] = view[m]
    BY <2>1, TypeParts DEF Pings
  <2>4. Lsn(n) \in Nat /\ e.lsn <= Lsn(n)
    BY <1>2, <2>1, QuietLogs DEF Pings, Quiet
  <2>5. \A m \in DOMAIN hb'.snap : m \in DOMAIN hb.snap /\ hb'.snap[m] = hb.snap[m]
    BY <2>1 DEF Pings
  <2>6. \A m \in Nodes : /\ view'[m].lsn <= Lsn(m)
                         /\ m \in DOMAIN hb'.snap => hb'.snap[m].lsn <= Lsn(m)
    BY <1>2, <2>3, <2>4, <2>5 DEF Quiet
  <2> QED BY <1>0, <1>2, <2>2, <2>6, SetupIdle
<1>6. CASE configure_initial_tablet_roles
  BY <1>0, <1>1, <1>2, <1>6, SetupConfigure
<1>7. CASE JobStep("setup")
  BY <1>0, <1>1, <1>2, <1>7, SetupProbe, SetupChoose, SetupPromote, SetupDemote, SetupAdd,
     SetupCommit DEF JobStep
<1> QED BY <1>1, <1>2, <1>3, <1>4, <1>5, <1>6, <1>7, QuietSteps

\* Init satisfies it.
LEMMA StartInit == Init => AwakeInv /\ StartInv
<1> SUFFICES ASSUME Init PROVE AwakeInv /\ StartInv
  OBVIOUS
<1>0. TypeInv
  BY InitTypes
<1>1. PICK Q \in Majorities :
          proc = [n \in Nodes |->
                     [up |-> TRUE, pid |-> 1, prim |-> FALSE, reps |-> {},
                      log |-> IF Old # Nil /\ n \in Q
                              THEN <<[op |-> Old, undo |-> FALSE]>> ELSE <<>>]]
  BY DEF Init
<1> DEFINE l(n) == IF Old # Nil /\ n \in Q THEN <<OldEntry>> ELSE <<>>
<1>2. \A n \in Nodes : proc[n] = [up |-> TRUE, pid |-> 1, prim |-> FALSE, reps |-> {}, log |-> l(n)]
  BY <1>1 DEF OldEntry
<1> HIDE DEF l
<1>3. \A n \in Nodes : /\ proc[n].up /\ proc[n].pid = 1 /\ ~proc[n].prim /\ proc[n].log = l(n)
  <2>1. ASSUME NEW n \in Nodes, NEW x,
               proc[n] = [up |-> TRUE, pid |-> 1, prim |-> FALSE, reps |-> {}, log |-> x]
        PROVE  /\ proc[n].up = TRUE /\ proc[n].pid = 1 /\ proc[n].prim = FALSE
               /\ proc[n].log = x
    BY <2>1
  <2> QED BY <1>2, <2>1
<1>4. /\ crashes = 0 /\ lost = 0 /\ head = First /\ round = 0 /\ hb = NoRound
      /\ view = [n \in Nodes |-> Configured] /\ job = [t \in Threads |-> NoJob]
  BY DEF Init
<1>5. hb.live = {} /\ hb.dead = {} /\ DOMAIN hb.snap = {}
  BY <1>4 DEF NoRound
<1>6. \A n \in Nodes : /\ view[n].pid = 0 /\ view[n].alive /\ ~view[n].down
                       /\ view[n].missed = 0 /\ view[n].lsn = 0
  BY <1>4 DEF Configured
<1> DEFINE q == [Idle EXCEPT !.pc = "done", !.result = "ok"]
<1>7. q.pc = "done"
  BY DEF Idle
<1>8. req = [r \in Requests |-> IF r = Old THEN q ELSE Idle]
  BY DEF Init
<1> HIDE DEF q
<1>9. \A r \in Requests : req[r].pc \in {"new", "done"} /\ (req[r].result = "ok" => r = Old)
  BY <1>7, <1>8, IdleType
<1>10. AwakeInv
  BY <1>3, <1>4, <1>5, <1>6, <1>9 DEF AwakeInv, Up, Well
<1>11. /\ job["hb"] = NoJob /\ job["setup"] = NoJob /\ NoJob.kind = "none" /\ First \in Nodes
  BY <1>4, NoJobType, NodeAssumption DEF Threads
<1>12. \A n \in Nodes : Lsn(n) \in Nat /\ 0 <= Lsn(n)
  BY <1>0, TypeParts, FreshType
<1>13. Old # Nil => \A n \in Q : Lsn(n) >= 1
  <2>1. Q \subseteq Nodes
    BY DEF Majorities
  <2> DEFINE e == OldEntry
  <2> HIDE DEF e
  <2>2. ASSUME Old # Nil, NEW n \in Q PROVE proc[n].log = <<e>>
    BY <1>3, <2>1, <2>2 DEF l, e
  <2>3. Len(<<e>>) = 1
    OBVIOUS
  <2>4. ASSUME Old # Nil, NEW n \in Q PROVE Lsn(n) >= 1
    <3>1. Len(proc[n].log) = 1
      BY <2>2, <2>3, <2>4
    <3> QED BY <3>1 DEF Lsn
  <2> QED BY <2>4
<1>14. \A n \in Nodes : proc[n].log = <<>> \/ (Old # Nil /\ proc[n].log = <<OldEntry>>)
  BY <1>3 DEF l
<1>15. Quiet
  BY <1>3, <1>4, <1>5, <1>6, <1>9, <1>11, <1>12, <1>13, <1>14 DEF Quiet, Up
<1>16. Configuring
  BY <1>3, <1>4, <1>11 DEF Configuring
<1> QED BY <1>10, <1>15, <1>16 DEF StartInv

-----------------------------------------------------------------------------
(* Once READY is answered with OK. *)

\* Request r has been sent to a node.
Waiting(q) == q.pc \in {"probed", "target", "queued", "send"}

\* A job of the heartbeat thread rebuilds the list of the primary in the table, or
\* elects another one because it is down.  Requests are at the primary, or at a
\* node that is down.
Serves ==
    /\ job["hb"].kind \in {"none", "rebuild", "elect"}
    /\ job["hb"].kind = "rebuild" => job["hb"].prim = head
    /\ job["hb"].kind = "elect" => ~Up(head)
    /\ \A r \in Requests :
          /\ Waiting(req[r]) => req[r].node = head \/ ~Up(req[r].node)
          /\ req[r].pc = "send" => head \notin req[r].left

ServeInv == Ready => Serves

\* From then on only these steps are taken.
LEMMA ReadySteps ==
    ASSUME FewFaults, TypeInv, AwakeInv, Ready, [Next]_vars
    PROVE  \/ UNCHANGED vars \/ Snapshot \/ \E n \in Nodes : Ping(n)
           \/ \E d \in Nodes : handle_node_failure(d)
           \/ JobStep("hb")
           \/ \E r \in Requests : Client(r)
           \/ \E n \in Nodes : Crash(n)
<1>1. ~configure_initial_tablet_roles /\ ~JobStep("setup")
  BY ReadyStays
<1>2. \A n \in Nodes : ~Restart(n)
  BY RestartTypes DEF FewFaults
<1>3. \A n \in Nodes : ~handle_node_recovery(n)
  BY RecoveryTypes DEF AwakeInv
<1> QED BY <1>1, <1>2, <1>3 DEF Next, Heartbeat, Setup

\* The requests stay where they are, and the job, if it goes on, what it is.
LEMMA ServeKeep ==
    ASSUME TypeInv, TypeInv', Serves, Onward, head' = head,
           job'["hb"].kind \in {"none", job["hb"].kind},
           job'["hb"].kind = "rebuild" => job'["hb"].prim = job["hb"].prim,
           \A r \in Requests :
              /\ Waiting(req'[r]) => \/ Waiting(req[r]) /\ req'[r].node = req[r].node
                                     \/ req'[r].node = head
              /\ req'[r].pc = "send" => head \notin req'[r].left
    PROVE  Serves'
<1>1. \A n \in Nodes : ~Up(n) => ~Up(n)'
  BY DEF Onward, Up
<1>2. head \in Nodes /\ \A r \in Requests : Waiting(req[r]) => req[r].node \in Nodes
  BY TypeParts DEF ReqInv, ReqGood, Waiting
<1>3. \A r \in Requests : /\ Waiting(req'[r]) => req'[r].node = head' \/ ~Up(req[r].node)'
                          /\ req'[r].pc = "send" => head' \notin req'[r].left
  BY <1>1, <1>2 DEF Serves, Up
<1>4. \A r \in Requests : Waiting(req[r])' <=> Waiting(req'[r])
  BY DEF Waiting
<1>5. /\ job'["hb"].kind \in {"none", "rebuild", "elect"}
      /\ job'["hb"].kind = "rebuild" => job'["hb"].prim = head'
      /\ job'["hb"].kind = "elect" => ~Up(head)'
  BY <1>1, <1>2 DEF Serves, Up
<1> QED BY <1>3, <1>4, <1>5 DEF Serves

\* The requests as they are, or told that their replicas are gone.
LEMMA ServeReqs ==
    ASSUME Serves, req' = req \/ Marks
    PROVE  \A r \in Requests :
              /\ Waiting(req'[r]) => Waiting(req[r]) /\ req'[r].node = req[r].node
              /\ req'[r].pc = "send" => head \notin req'[r].left
BY DEF Serves, Marks, Waiting

\* The jobs the heartbeat thread can have without restarts.
LEMMA HbJobKinds ==
    ASSUME TypeInv, Serves
    PROVE  /\ job["hb"] \in JobType /\ JobGood(job["hb"]) /\ NoJob.kind = "none"
           /\ job["hb"].kind = "none" <=> job["hb"] = NoJob
           /\ job["hb"].kind \in {"none", "rebuild", "elect"}
<1>1. job["hb"] \in JobType /\ JobGood(job["hb"])
  BY TypeParts DEF JobInv
<1> QED BY <1>1, NoJobType DEF JobGood, Serves

\* A step of the heartbeat thread's job: what becomes of the job, of the primary in
\* the table, and of the requests.
LEMMA HbSteps ==
    ASSUME FewFaults, TypeInv, Serves, JobStep("hb")
    PROVE  /\ job["hb"] # NoJob /\ job["hb"].kind \in {"rebuild", "elect"}
           /\ job'["hb"] = NoJob \/ job'["hb"].kind = job["hb"].kind
           /\ job'["hb"].kind = "rebuild" => job'["hb"].prim = job["hb"].prim
           /\ job'["setup"] = job["setup"]
           /\ req' = req \/ Marks
           /\ head' = head \/ (job["hb"].kind = "elect" /\ head' = job["hb"].prim)
           /\ job'["hb"] # NoJob => head' = head
           /\ UNCHANGED <<hb, crashes>>
<1>0. "hb" \in Threads /\ "setup" \in Threads \ {"hb"}
  BY DEF Threads
<1> DEFINE j == job["hb"]
           k == job'["hb"]
<1>a. j \in JobType /\ JobGood(j) /\ NoJob.kind = "none" /\ j.kind \in {"none", "rebuild", "elect"}
      /\ (j.kind = "none" <=> j = NoJob)
  BY HbJobKinds
<1> HIDE DEF j, k
<1>1. ASSUME NEW c \in Nodes, NEW n \in Nodes, Probe("hb", c, n)
      PROVE  /\ j # NoJob /\ (k = NoJob \/ (Kept(j, k) /\ (j.kind # "recover" => k.prim = j.prim)))
             /\ job'["setup"] = job["setup"]
             /\ UNCHANGED <<hb, crashes, head, req>>
  <2>1. Probes("hb", c, n)
    BY <1>0, <1>1, ProbeFacts
  <2>2. UNCHANGED <<hb, crashes, head, req>>
    BY <1>1 DEF Probe
  <2> QED BY <1>0, <2>1, <2>2 DEF Probes, Answered, Unanswered, j, k
<1>2. CASE Choose("hb")
  <2>1. j # NoJob /\ Chosen(j, k) /\ job'["setup"] = job["setup"]
    BY <1>0, <1>2, ChooseFacts DEF j, k
  <2>2. UNCHANGED <<hb, crashes, head, req>>
    BY <1>2 DEF Choose
  <2>3. k = NoJob \/ (Kept(j, k) /\ (j.kind = "rebuild" => k.prim = j.prim))
    BY <2>1 DEF Chosen, GoneOn
  <2> QED BY <1>a, <2>1, <2>2, <2>3 DEF Kept, j, k
<1>3. CASE promote_node("hb")
  <2>1. j # NoJob /\ Promotes(j, k) /\ job'["setup"] = job["setup"]
    BY <1>0, <1>3, PromoteFacts DEF j, k
  <2>2. UNCHANGED <<hb, crashes, head>>
    BY <1>3 DEF promote_node
  <2>3. (req' = req \/ Marks) /\ (k = NoJob \/ (Kept(j, k) /\ k.prim = j.prim))
    BY <2>1 DEF Promotes, Promoted, TurnsTo
  <2> QED BY <1>a, <2>1, <2>2, <2>3 DEF Kept, j, k
<1>4. ASSUME NEW f \in Nodes, demote_and_sync_node("hb", f)
      PROVE  /\ j # NoJob /\ (k = NoJob \/ (Kept(j, k) /\ k.prim = j.prim))
             /\ job'["setup"] = job["setup"] /\ (req' = req \/ Marks)
             /\ UNCHANGED <<hb, crashes, head>>
  <2>1. j # NoJob /\ Demotes(j, k, f) /\ job'["setup"] = job["setup"]
    BY <1>0, <1>4, DemoteFacts DEF j, k
  <2>2. UNCHANGED <<hb, crashes, head>>
    BY <1>4 DEF demote_and_sync_node
  <2> QED BY <2>1, <2>2 DEF Demotes, Demoted, TurnsTo, Skips
<1>5. CASE add_replica_to_primary("hb")
  <2>1. j # NoJob /\ Adds(j, k) /\ job'["setup"] = job["setup"]
    BY <1>0, <1>5, AddFacts DEF j, k
  <2>2. UNCHANGED <<hb, crashes, head, req>>
    BY <1>5 DEF add_replica_to_primary
  <2>3. k = NoJob \/ (Kept(j, k) /\ k.prim = j.prim)
    BY <2>1 DEF Adds, TurnsTo, Skips
  <2> QED BY <1>a, <2>1, <2>2, <2>3 DEF Kept, j, k
<1>6. CASE Commit("hb")
  <2>1. j # NoJob /\ Commits(j) /\ job'["setup"] = job["setup"] /\ k = NoJob
    BY <1>0, <1>6, CommitFacts DEF j, k
  <2>2. UNCHANGED <<hb, crashes, req>>
    BY <1>6 DEF Commit
  <2>3. head' = head \/ (j.kind = "elect" /\ head' = j.prim)
    BY <1>a, <2>1 DEF Commits
  <2> QED BY <1>a, <2>1, <2>2, <2>3 DEF j, k
<1>7. CASE \E c, n \in Nodes : Probe("hb", c, n)
  BY <1>a, <1>1, <1>7 DEF Kept, j, k
<1>8. CASE \E f \in Nodes : demote_and_sync_node("hb", f)
  BY <1>a, <1>4, <1>8 DEF Kept, j, k
<1> QED BY <1>2, <1>3, <1>5, <1>6, <1>7, <1>8 DEF JobStep

\* READY: no request is under way, and the heartbeat thread has no job.
LEMMA ServeStart ==
    ASSUME FewFaults, TypeInv, AwakeInv, StartInv, ~Ready, Ready', [Next]_vars
    PROVE  /\ Serves' /\ Commit("setup") /\ Quiet /\ Configuring /\ TypeInv'
           /\ UNCHANGED <<proc, hb, req, lost, crashes, view>> /\ job'["hb"] = NoJob
           /\ head' = job["setup"].prim /\ head' \in Nodes /\ Longest(head')
           /\ proc[First].prim => head' = First
<1>0. Quiet /\ Configuring /\ TypeInv'
  BY NextTypes DEF StartInv
<1>1. JobStep("setup") \/ configure_initial_tablet_roles
  <2>1. CASE UNCHANGED vars \/ Snapshot \/ \E n \in Nodes : Ping(n)
    <3>1. UNCHANGED <<round, job>>
      BY <2>1 DEF vars, Snapshot, Ping
    <3> QED BY <3>1 DEF Ready
  <2> QED BY <1>0, <2>1, QuietSteps
<1>2. ~configure_initial_tablet_roles
  BY <1>0, SetupConfigure
<1>3. JobStep("setup")
  BY <1>1, <1>2
<1>4. "setup" \in Threads
  BY DEF Threads
<1>5. ASSUME ~Commit("setup") PROVE FALSE
  <2>1. Configuring'
    BY <1>0, <1>3, <1>5, SetupProbe, SetupChoose, SetupPromote, SetupDemote, SetupAdd
       DEF JobStep
  <2>2. job'["setup"].kind = "none" /\ round' = MaxRounds
    BY DEF Ready
  <2>3. JobInv' /\ lost' \in 0..MaxLost
    BY <1>0 DEF TypeInv, TableInv
  <2>4. job'["setup"] = NoJob
    BY <1>4, <2>2, <2>3 DEF JobInv, JobGood
  <2>5. lost' >= MaxRounds
    BY <2>1, <2>2, <2>4 DEF Configuring
  <2> QED BY <2>3, <2>5, BoundAssumption DEF FewFaults
<1>6. Commit("setup")
  BY <1>5
<1>7. /\ head' = job["setup"].prim /\ head' \in Nodes /\ Longest(head')
      /\ proc[First].prim => head' = First
      /\ job'["hb"] = NoJob
  BY <1>0, <1>6, SetupCommit
<1>8. UNCHANGED <<proc, hb, req, lost, crashes>>
  BY <1>6 DEF Commit
<1>9. Serves'
  BY <1>0, <1>7, <1>8, NoJobType DEF Quiet, Serves, Waiting
<1>10. view' = view
  BY <1>0, <1>4, <1>6, SetupJob, CommitFacts DEF Commits
<1> QED BY <1>0, <1>6, <1>7, <1>8, <1>9, <1>10

\* A failure found by the heartbeat thread: the primary in the table is another
\* node that runs, or is down.
LEMMA ServeFailure ==
    ASSUME FewFaults, TypeInv, TypeInv', AwakeInv, Serves, NEW d \in Nodes, handle_node_failure(d)
    PROVE  Serves'
<1>1. UNCHANGED <<proc, head, req>>
  BY DEF handle_node_failure
<1>2. /\ d \in hb.dead
      /\ \/ job'["hb"] = NoJob
         \/ job'["hb"].kind = "rebuild" /\ job'["hb"].prim = head
         \/ (head = d \/ ~Alive(head)) /\ job'["hb"].kind = "elect"
  BY FailureFacts
<1>3. head = d \/ ~Alive(head) => ~Up(head)
  BY <1>2, TypeParts DEF AwakeInv, Alive, Well
<1> QED BY <1>1, <1>2, <1>3, NoJobType DEF Serves, Up, Waiting

\* A step of a rebuild or an election keeps requests at the primary.
LEMMA ServeHb ==
    ASSUME FewFaults, TypeInv, TypeInv', Onward, Serves, JobStep("hb")
    PROVE  Serves'
<1> DEFINE j == job["hb"]
           k == job'["hb"]
<1>1. /\ j # NoJob /\ j.kind \in {"rebuild", "elect"}
      /\ k = NoJob \/ k.kind = j.kind
      /\ k.kind = "rebuild" => k.prim = j.prim
      /\ req' = req \/ Marks
      /\ head' = head \/ (j.kind = "elect" /\ head' = j.prim)
      /\ k # NoJob => head' = head
  BY HbSteps
<1>2. NoJob.kind = "none"
  BY NoJobType
<1>3. \A r \in Requests :
              /\ Waiting(req'[r]) => Waiting(req[r]) /\ req'[r].node = req[r].node
              /\ req'[r].pc = "send" => head \notin req'[r].left
  BY <1>1, ServeReqs
<1>4. CASE head' = head
  <2>1. k.kind \in {"none", j.kind}
    BY <1>1, <1>2
  <2> QED BY <1>1, <1>3, <1>4, <2>1, ServeKeep
<1>5. CASE j.kind = "elect" /\ head' = j.prim /\ head' # head
  <2>1. k = NoJob /\ ~Up(head)
    BY <1>1, <1>5 DEF Serves
  <2>2. \A n \in Nodes : ~Up(n) => ~Up(n)'
    BY DEF Onward, Up
  <2>3. \A r \in Requests : Waiting(req[r]) => req[r].node \in Nodes /\ ~Up(req[r].node)
    BY <2>1, TypeParts DEF ReqInv, ReqGood, Waiting, Serves
  <2>4. \A r \in Requests : req[r].pc # "send"
    BY <2>3, TypeParts DEF ReqInv, Up, Waiting
  <2>5. \A r \in Requests : req'[r].pc # "send"
    BY <1>1, <2>4 DEF Marks
  <2>6. \A r \in Requests : Waiting(req'[r]) => ~Up(req[r].node)'
    BY <1>3, <2>2, <2>3 DEF Up
  <2> QED BY <1>2, <2>1, <2>5, <2>6 DEF Serves, Waiting
<1> QED BY <1>1, <1>4, <1>5

\* The steps of the clients.
LEMMA ServeClient ==
    ASSUME FewFaults, TypeInv, TypeInv', Onward, Serves, NEW r \in Requests, Client(r)
    PROVE  Serves'
<1>0. Client(r) => UNCHANGED <<head, job>>
  BY DEF Client, Serve, handle_lookup, LookupAnswer, CheckRole, replicated_put, Conclude,
         forward_to_replica, UseAfterFree
<1>1. head' = head /\ job' = job
  BY <1>0
<1> DEFINE ok(s) == /\ Waiting(req'[s]) => \/ Waiting(req[s]) /\ req'[s].node = req[s].node
                                           \/ req'[s].node = head
                    /\ req'[s].pc = "send" => head \notin req'[s].left
<1>2. \A s \in Requests : req'[s] = req[s] => ok(s)
  BY DEF Serves
<1>3. SUFFICES \A s \in Requests : ok(s)
  BY <1>1, ServeKeep
<1>4. Only(r) /\ ok(r) => \A s \in Requests : ok(s)
  BY <1>2 DEF Only
<1>6. CASE handle_lookup(r)
  BY <1>4, <1>6, LookupFacts DEF GoesOn
<1>7. CASE LookupAnswer(r)
  BY <1>4, <1>7, AnswerFacts, IdleType DEF GoesOn, Answers, Waiting
<1>8. CASE CheckRole(r)
  BY <1>4, <1>8, RoleFacts, IdleType DEF GoesOn, Waiting
<1>9. ASSUME NEW u, req[r].pc \in {"queued", "send"}, Writes(r, req[r].node, u) PROVE \A s \in Requests : ok(s)
  <2>1. req[r].node = head /\ head \notin proc[head].reps
    BY <1>9, TypeParts DEF ReqInv, ProcInv, Serves, Up, Waiting
  <2>2. Only(r) /\ req'[r].left \in {{}, proc[head].reps}
        /\ (req'[r].pc = "done" \/ req'[r].node = head)
    BY <1>9, <2>1 DEF Writes, Only
  <2> QED BY <1>4, <2>1, <2>2 DEF Waiting
<1>10. CASE replicated_put(r)
  <2> DEFINE no == FALSE
  <2>1. req[r].pc = "queued" /\ Writes(r, req[r].node, no)
    BY <1>10, PutFacts
  <2> HIDE DEF no
  <2> QED BY <1>9, <2>1
<1>11. CASE Conclude(r)
  <2>1. CASE Only(r) /\ req'[r].pc = "done"
    BY <1>4, <2>1 DEF Waiting
  <2> DEFINE yes == TRUE
  <2>2. CASE Writes(r, req[r].node, yes)
    <3>1. req[r].pc = "send"
      BY <1>11, ConcludeFacts
    <3> HIDE DEF yes
    <3> QED BY <1>9, <2>2, <3>1
  <2> QED BY <1>11, <2>1, <2>2, ConcludeFacts
<1>12. ASSUME NEW f \in Nodes, forward_to_replica(r, f) PROVE \A s \in Requests : ok(s)
  <2>1. Forwards(r, f)
    BY <1>12, ForwardTypes
  <2>2. \A s \in Requests : req'[s].left \subseteq req[s].left
    BY <2>1 DEF Forwards
  <2>3. \A s \in Requests : req'[s].pc = req[s].pc /\ req'[s].node = req[s].node
    BY <2>1 DEF Forwards
  <2> QED BY <2>2, <2>3 DEF Serves, Waiting
<1>13. CASE UseAfterFree(r)
  <2>1. PICK n \in Nodes : Ends(n)
    BY <1>13, FreeFacts
  <2>2. \A s \in Requests : req'[s].pc = "done" \/ req'[s] = req[s]
    BY <2>1 DEF Ends
  <2> QED BY <1>2, <2>2 DEF Waiting
<1> QED BY <1>6, <1>7, <1>8, <1>10, <1>11, <1>12, <1>13 DEF Client, Serve

\* Every step keeps requests at the primary or at a node that is down.
LEMMA ServeNext ==
    ASSUME FewFaults, TypeInv, AwakeInv, StartInv, ServeInv, [Next]_vars
    PROVE  ServeInv'
<1> SUFFICES ASSUME Ready' PROVE Serves'
  BY DEF ServeInv
<1>1. TypeInv' /\ Onward
  BY NextTypes, NextOnward
<1>2. CASE ~Ready
  BY <1>2, ServeStart
<1>3. CASE Ready
  <2>1. Serves
    BY <1>3 DEF ServeInv
  <2>2. CASE UNCHANGED vars \/ Snapshot \/ \E n \in Nodes : Ping(n)
    <3>1. UNCHANGED <<proc, head, job, req>>
      BY <2>2 DEF vars, Snapshot, Ping
    <3> QED BY <2>1, <3>1 DEF Serves, Up, Waiting
  <2>3. ASSUME NEW n \in Nodes, Crash(n) PROVE Serves'
    <3>1. UNCHANGED <<head, job>> /\ Ends(n)
      BY <2>3, CrashFacts DEF Crash
    <3>2. \A s \in Requests : req'[s].pc = "done" \/ req'[s] = req[s]
      BY <3>1 DEF Ends
    <3>3. \A s \in Requests :
              /\ Waiting(req'[s]) => \/ Waiting(req[s]) /\ req'[s].node = req[s].node
                                     \/ req'[s].node = head
              /\ req'[s].pc = "send" => head \notin req'[s].left
      BY <2>1, <3>2 DEF Serves, Waiting
    <3> QED BY <1>1, <2>1, <3>1, <3>3, ServeKeep
  <2> QED BY <1>1, <1>3, <2>1, <2>2, <2>3, ReadySteps, ServeFailure, ServeHb, ServeClient
<1> QED BY <1>2, <1>3

\* READY is not answered with OK at the start.
LEMMA ServeInit == Init => ServeInv
BY BoundAssumption DEF Init, ServeInv, Ready

\* The steps of a job that call nodes: a node that is the job's primary, or no
\* follower of it, is not demoted.
LEMMA JobKeepsRole ==
    ASSUME TypeInv, NEW t \in Threads, JobStep(t), NEW n \in Nodes, proc[n].prim,
           job[t].pc # "probe" => job[t].prim = n
    PROVE  proc'[n].prim
<1>1. CASE promote_node(t)
  <2>1. job[t].prim = n /\ Promotes(job[t], job'[t])
    BY <1>1, PromoteFacts
  <2> QED BY <2>1 DEF Promotes, Promoted
<1>2. ASSUME NEW f \in Nodes, demote_and_sync_node(t, f) PROVE proc'[n].prim
  <2>1. n # f /\ Demotes(job[t], job'[t], f)
    BY <1>2, DemoteFacts
  <2> QED BY <2>1 DEF Demotes, Demoted, Touches
<1>3. CASE add_replica_to_primary(t)
  <2>1. job[t].prim = n /\ Adds(job[t], job'[t])
    BY <1>3, AddFacts
  <2> QED BY <2>1 DEF Adds, Added
<1>4. ASSUME proc' = proc PROVE proc'[n].prim
  BY <1>4
<1>5. CASE Choose(t) \/ Commit(t) \/ \E c, m \in Nodes : Probe(t, c, m)
  BY <1>4, <1>5 DEF Choose, Commit, Probe
<1> QED BY <1>1, <1>2, <1>3, <1>5 DEF JobStep

\* No step demotes or replaces a primary that serves and keeps running.
LEMMA HeadStays ==
    ASSUME FewFaults, TypeInv, AwakeInv, StartInv, ServeInv, [Next]_vars, Serving, proc'[head].up
    PROVE  proc'[head].prim /\ head' = head
<1>0. TypeInv' /\ head \in Nodes /\ Up(head) /\ proc[head].prim
  BY NextTypes, TypeParts DEF Serving, Up
<1>a. "setup" \in Threads /\ "hb" \in Threads
  BY DEF Threads
<1>b. UNCHANGED <<proc, head>> => proc'[head].prim /\ head' = head
  BY <1>0
<1>1. CASE ~Ready
  <2>1. Quiet /\ Configuring /\ head = First
    BY <1>1 DEF StartInv, Quiet
  <2>2. CASE JobStep("setup")
    <3> DEFINE j == job["setup"]
    <3>1. j # NoJob
      BY <1>a, <2>2, ProbeFacts, ChooseFacts, PromoteFacts, DemoteFacts, AddFacts, CommitFacts
         DEF JobStep, Probes
    <3>2. j.pc # "probe" => j.prim = head
      BY <1>0, <2>1, <3>1 DEF Configuring
    <3>3. proc'[head].prim
      BY <1>0, <1>a, <2>2, <3>2, JobKeepsRole
    <3>4. CASE Commit("setup")
      <4>1. j.kind = "setup" /\ j.prim = head /\ Commits(j)
        BY <1>0, <1>1, <1>a, <2>1, <3>1, <3>2, <3>4, SetupJob, CommitFacts
      <4> QED BY <3>3, <4>1 DEF Commits
    <3>5. ~Commit("setup") => head' = head
      BY <2>2 DEF JobStep, Probe, Choose, promote_node, demote_and_sync_node,
         add_replica_to_primary
    <3> QED BY <3>3, <3>4, <3>5
  <2>3. CASE UNCHANGED vars \/ Snapshot \/ configure_initial_tablet_roles \/ \E n \in Nodes : Ping(n)
    <3>1. UNCHANGED <<proc, head>>
      BY <2>3 DEF vars, Snapshot, Ping, configure_initial_tablet_roles
    <3> QED BY <1>b, <3>1
  <2> QED BY <1>1, <2>1, <2>2, <2>3, QuietSteps
<1>2. CASE Ready
  <2>1. Serves
    BY <1>2 DEF ServeInv
  <2>2. CASE JobStep("hb")
    <3> DEFINE j == job["hb"]
    <3>1. /\ j.kind \in {"rebuild", "elect"}
          /\ head' = head \/ (j.kind = "elect" /\ head' = j.prim)
      BY <2>1, <2>2, HbSteps
    <3>2. j.kind = "rebuild" /\ j.prim = head /\ head' = head
      BY <1>0, <2>1, <3>1 DEF Serves
    <3> QED BY <1>0, <1>a, <2>2, <3>2, JobKeepsRole
  <2>3. ASSUME NEW n \in Nodes, Ends(n) PROVE proc'[head].prim
    BY <1>0, <2>3 DEF Ends
  <2>4. ASSUME NEW n \in Nodes, Crash(n) PROVE proc'[head].prim /\ head' = head
    BY <2>3, <2>4, CrashFacts DEF Crash
  <2>5. ASSUME NEW r \in Requests, Client(r) PROVE proc'[head].prim /\ head' = head
    <3>0. Client(r) => head' = head
      BY DEF Client, Serve, handle_lookup, LookupAnswer, CheckRole, replicated_put, Conclude,
         forward_to_replica, UseAfterFree
    <3>1. CASE handle_lookup(r) \/ LookupAnswer(r) \/ CheckRole(r)
      <4>1. proc' = proc
        BY <3>1 DEF handle_lookup, LookupAnswer, CheckRole
      <4> QED BY <1>b, <2>5, <3>0, <4>1
    <3>2. ASSUME NEW n \in Nodes, NEW u, Writes(r, n, u) PROVE proc'[head].prim
      BY <1>0, <3>2 DEF Writes, Touches
    <3>3. CASE replicated_put(r)
      <4> DEFINE no == FALSE
      <4>1. req[r].node \in Nodes /\ Writes(r, req[r].node, no)
        BY <3>3, PutFacts
      <4> HIDE DEF no
      <4> QED BY <2>5, <3>0, <3>2, <4>1
    <3>4. CASE Conclude(r)
      <4> DEFINE yes == TRUE
      <4>1. req[r].pc = "send" /\ (proc' = proc \/ Writes(r, req[r].node, yes))
        BY <3>4, ConcludeFacts
      <4>2. req[r].node \in Nodes
        BY <4>1, TypeParts DEF ReqInv, ReqGood
      <4> HIDE DEF yes
      <4> QED BY <1>b, <2>5, <3>0, <3>2, <4>1, <4>2
    <3>5. ASSUME NEW f \in Nodes, forward_to_replica(r, f) PROVE proc'[head].prim
      <4>1. Forwards(r, f) /\ head # f
        BY <2>1, <3>5, ForwardTypes DEF Serves
      <4> QED BY <1>0, <4>1 DEF Forwards, Touches
    <3>6. CASE UseAfterFree(r)
      BY <2>3, <2>5, <3>0, <3>6, FreeFacts
    <3> QED BY <2>5, <3>0, <3>1, <3>3, <3>4, <3>5, <3>6 DEF Client, Serve
  <2>6. CASE UNCHANGED vars \/ Snapshot \/ \E n \in Nodes : Ping(n) \/ handle_node_failure(n)
    <3>1. UNCHANGED <<proc, head>>
      BY <2>6 DEF vars, Snapshot, Ping, handle_node_failure
    <3> QED BY <1>b, <3>1
  <2> QED BY <1>2, <2>2, <2>4, <2>5, <2>6, ReadySteps
<1> QED BY <1>1, <1>2

\* With few faults, a primary that serves the tablet is neither demoted nor
\* replaced while its process runs: handle_node_failure, promote_node and
\* demote_and_sync_node act on another node only once the primary is down.
THEOREM CoordinatorNoFailback == FewFaults => (Spec => NoFailback)
<1> SUFFICES ASSUME FewFaults PROVE Spec => NoFailback
  OBVIOUS
<1> DEFINE Inv == TypeInv /\ AwakeInv /\ StartInv /\ ServeInv
<1>1. Init => Inv
  BY InitTypes, StartInit, ServeInit
<1>2. Inv /\ [Next]_vars => Inv'
  BY NextTypes, AwakeNext, StartNext, ServeNext
<1>3. Inv /\ [Next]_vars =>
         [Serving /\ proc'[head].up => proc'[head].prim /\ head' = head]_vars
  BY HeadStays
<1> HIDE DEF Inv
<1> QED BY <1>1, <1>2, <1>3, PTL DEF Spec, NoFailback

-----------------------------------------------------------------------------
(* Prefixed. *)

\* Being a prefix is a partial order, and two prefixes of a log are comparable.
LEMMA PrefixOrder ==
    ASSUME NEW S, NEW s \in Seq(S), NEW t \in Seq(S), NEW u \in Seq(S)
    PROVE  /\ IsPrefix(s, s)
           /\ IsPrefix(s, t) /\ IsPrefix(t, u) => IsPrefix(s, u)
           /\ IsPrefix(s, u) /\ IsPrefix(t, u) /\ Len(s) <= Len(t) => IsPrefix(s, t)
           /\ IsPrefix(s, t) => Len(s) <= Len(t)
<1>0. Len(s) \in Nat /\ Len(t) \in Nat /\ Len(u) \in Nat
  OBVIOUS
<1>1. IsPrefix(s, s)
  BY <1>0, PrefixFacts
<1>2. IsPrefix(s, t) => Len(s) <= Len(t) /\ \A i \in 1..Len(s) : s[i] = t[i]
  BY PrefixFacts
<1>3. IsPrefix(t, u) => Len(t) <= Len(u) /\ \A i \in 1..Len(t) : t[i] = u[i]
  BY PrefixFacts
<1>4. IsPrefix(s, u) <=> Len(s) <= Len(u) /\ \A i \in 1..Len(s) : s[i] = u[i]
  BY PrefixFacts
<1>5. IsPrefix(s, t) /\ IsPrefix(t, u) => IsPrefix(s, u)
  BY <1>0, <1>2, <1>3, <1>4
<1>6. ASSUME IsPrefix(s, u), IsPrefix(t, u), Len(s) <= Len(t) PROVE IsPrefix(s, t)
  <2>1. \A i \in 1..Len(s) : i \in 1..Len(t)
    BY <1>0, <1>6
  <2>2. \A i \in 1..Len(s) : s[i] = t[i]
    BY <1>3, <1>4, <1>6, <2>1
  <2> QED BY <1>6, <2>2, PrefixFacts
<1> QED BY <1>1, <1>2, <1>5, <1>6

\* A prefix of full length is the log itself.
LEMMA PrefixEqual ==
    ASSUME NEW S, NEW s \in Seq(S), NEW t \in Seq(S), IsPrefix(s, t), Len(s) = Len(t)
    PROVE  s = t
<1>1. \A i \in 1..Len(s) : s[i] = t[i]
  BY PrefixFacts
<1> QED BY <1>1

\* A log that grows keeps its prefixes.
LEMMA PrefixAppend ==
    ASSUME NEW S, NEW s \in Seq(S), NEW t \in Seq(S), NEW e \in S, IsPrefix(s, t)
    PROVE  IsPrefix(s, Append(t, e))
<1>1. /\ Append(t, e) \in Seq(S) /\ Len(Append(t, e)) = Len(t) + 1
      /\ \A i \in 1..Len(t) : Append(t, e)[i] = t[i]
      /\ Len(s) \in Nat /\ Len(t) \in Nat
  OBVIOUS
<1>2. Len(s) <= Len(t) /\ \A i \in 1..Len(s) : s[i] = t[i]
  BY PrefixFacts
<1>3. Len(s) <= Len(Append(t, e)) /\ \A i \in 1..Len(s) : s[i] = Append(t, e)[i]
  BY <1>1, <1>2
<1> QED BY <1>1, <1>3, PrefixFacts

\* A replica that applies the last entry of the primary stays a prefix of it.
LEMMA PrefixApplied ==
    ASSUME NEW f \in Seq(Entry), NEW p \in Seq(Entry), NEW e \in Entry, IsPrefix(f, p),
           NEW l \in Nat, Len(p) = l, l >= 1, p[l] = e
    PROVE  IsPrefix(Applied(f, l, e), p)
<1>1. CASE l = Len(f) + 1
  <2>1. /\ Append(f, e) \in Seq(Entry) /\ Len(Append(f, e)) = Len(f) + 1
        /\ \A i \in 1..Len(f) : Append(f, e)[i] = f[i]
        /\ Append(f, e)[Len(f) + 1] = e
        /\ Len(f) \in Nat
    OBVIOUS
  <2>2. \A i \in 1..Len(f) : f[i] = p[i]
    BY PrefixFacts
  <2>3. \A i \in 1..(Len(f) + 1) : Append(f, e)[i] = p[i]
    BY <1>1, <2>1, <2>2
  <2>4. IsPrefix(Append(f, e), p)
    <3> DEFINE a == Append(f, e)
    <3>1. a \in Seq(Entry) /\ Len(a) <= Len(p) /\ \A i \in 1..Len(a) : a[i] = p[i]
      BY <1>1, <2>1, <2>3
    <3> HIDE DEF a
    <3>2. IsPrefix(a, p)
      BY <3>1, PrefixFacts
    <3> QED BY <3>2 DEF a
  <2> QED BY <1>1, <2>4 DEF Applied
<1>2. CASE l # Len(f) + 1
  BY <1>2 DEF Applied
<1> QED BY <1>1, <1>2

-----------------------------------------------------------------------------
(* The logs of the nodes that run are prefixes of the primary's. *)

\* One write at a time, which is the last entry of the primary in the table.
Sends ==
    \A r \in Requests : req[r].pc = "send" =>
        /\ req[r].lsn = Lsn(head) /\ req[r].lsn >= 1
        /\ proc[head].log[Lsn(head)] = [op |-> r, undo |-> req[r].undo]
        /\ \A q \in Requests : req[q].pc = "send" => q = r

Prefixed == \A n \in Nodes : Up(n) => IsPrefix(proc[n].log, proc[head].log)

\* The elected primary is being given its followers.
Moving == job["hb"].kind = "elect" /\ job["hb"].pc \in {"sync", "add"}

\* The heartbeat thread has missed the primary before the round it is in.
Aware ==
    \/ head \in hb.dead \/ ~view[head].alive
    \/ head \in DOMAIN hb.snap /\ (hb.snap[head].missed >= 1 \/ ~hb.snap[head].alive)

\* What the table then says of the nodes already pinged is what they have.
Known ==
    lost < MaxLost /\ Aware /\ ~Moving =>
        \A n \in Nodes \ DOMAIN hb.snap : Up(n) => view[n].lsn = Lsn(n)

\* What an election knows of candidate c is right, or c is still to be asked.
Fit(c) ==
    \/ <<c, c>> \in job["hb"].ask
    \/ /\ job["hb"].lsn[c] = Lsn(c) /\ c \notin hb.dead
       /\ IsPrefix(proc[c].log, proc[head].log)

Covered(m) == \A n \in Nodes : Up(n) => Lsn(n) <= m

\* An election knows the largest LSN, or will: no more probes will be lost.
Counts ==
    \/ Covered(job["hb"].max)
    \/ /\ lost = MaxLost
       /\ \A n \in Nodes : Up(n) => <<n, n>> \in job["hb"].ask \/ Lsn(n) <= job["hb"].max

Elects ==
    LET j == job["hb"]
    IN  j.kind = "elect" =>
          /\ j.pc \in {"probe", "promote"} => Counts /\ \A c \in j.cands : Fit(c)
          /\ j.pc # "probe" => /\ j.prim \notin hb.dead /\ Longest(j.prim) /\ j.ask = {}
                               /\ IsPrefix(proc[j.prim].log, proc[head].log)

AgreeInv == Ready => Sends /\ Prefixed /\ Known /\ Elects

SameLogs == \A n \in Nodes : proc'[n].log = proc[n].log

\* Logs are sequences of entries, and LSNs their lengths.
LEMMA LogFacts ==
    ASSUME TypeInv
    PROVE  \A n \in Nodes : proc[n].log \in Seq(Entry) /\ Lsn(n) \in Nat /\ Lsn(n) = Len(proc[n].log)
BY TypeParts, FreshType DEF ProcType, Lsn

\* Few calls are lost: a primary that has been missed is down.
LEMMA AwareDown ==
    ASSUME FewFaults, TypeInv, AwakeInv, lost < MaxLost, Aware
    PROVE  ~Up(head) /\ lost = 0 /\ MaxLost = 1 /\ MissThresh >= 2
<1>1. lost \in Nat /\ MaxLost \in Nat /\ MissThresh \in Nat /\ head \in Nodes
  BY TypeParts, BoundAssumption
<1>2. lost = 0 /\ MaxLost = 1 /\ MissThresh >= 2
  BY <1>1 DEF FewFaults
<1>3. head \in DOMAIN hb.snap => hb.snap[head].missed \in Nat
  BY TypeParts, HbFields, BoundAssumption DEF TableEntry
<1>4. ASSUME Up(head) PROVE FALSE
  BY <1>1, <1>2, <1>3, <1>4 DEF AwakeInv, Aware, Well
<1> QED BY <1>2, <1>4

\* There is nothing to know while the primary in the table runs.
LEMMA KnownUp ==
    ASSUME FewFaults, TypeInv, AwakeInv, Up(head)
    PROVE  Known
BY AwareDown DEF Known

\* The logs stay, and so do the requests that send.
LEMMA PrefixKeep ==
    ASSUME Sends, Prefixed, Onward, SameLogs, head' = head, TypeInv,
           \A r \in Requests : req'[r].pc = "send" => /\ req[r].pc = "send" /\ req'[r].lsn = req[r].lsn
                                                      /\ req'[r].undo = req[r].undo
    PROVE  Sends' /\ Prefixed'
<1>0. head \in Nodes
  BY TypeParts
<1>1. proc'[head].log = proc[head].log /\ Lsn(head)' = Lsn(head)
  BY <1>0 DEF SameLogs, Lsn
<1>2. Sends'
  BY <1>1 DEF Sends, Lsn
<1>3. Prefixed'
  BY <1>1 DEF Prefixed, SameLogs, Onward, Up
<1> QED BY <1>2, <1>3

\* What the table says of the nodes stays right when neither changes.
LEMMA KnownKeep ==
    ASSUME Known, Onward, lost' < MaxLost => lost < MaxLost,
           Aware' /\ lost' < MaxLost => Aware, Moving => Moving',
           DOMAIN hb'.snap = DOMAIN hb.snap,
           \A n \in Nodes : proc'[n].up => /\ proc'[n].log = proc[n].log
                                           /\ view'[n].lsn \in {view[n].lsn, Lsn(n)}
    PROVE  Known'
<1>1. \A n \in Nodes : proc'[n].up => proc[n].up /\ Lsn(n)' = Lsn(n)
  BY DEF Onward, Lsn
<1> QED BY <1>1 DEF Known, Up

\* The job of the heartbeat thread waits.
LEMMA ElectKeep ==
    ASSUME TypeInv, Elects, Onward, SameLogs, head' = head, hb' = hb, job'["hb"] = job["hb"]
    PROVE  Elects'
<1>0. head \in Nodes /\ job["hb"] \in JobType /\ JobGood(job["hb"])
  BY TypeParts DEF JobInv
<1>1. \A n \in Nodes : Lsn(n)' = Lsn(n) /\ (Up(n)' => Up(n))
  BY DEF SameLogs, Lsn, Onward, Up
<1>2. lost = MaxLost => lost' = MaxLost
  BY TypeParts, BoundAssumption DEF Onward
<1>3. \A m : Covered(m) => Covered(m)'
  BY <1>1 DEF Covered
<1>4. Counts => Counts'
  BY <1>1, <1>2, <1>3 DEF Counts, Covered, Up, Lsn
<1>5. \A c \in Nodes : Fit(c) => Fit(c)'
  BY <1>0, <1>1 DEF Fit, SameLogs, Lsn
<1>6. \A p \in Nodes : Longest(p) => Longest(p)'
  BY <1>1 DEF Longest, Up, Lsn
<1>7. ASSUME job["hb"].kind = "elect" PROVE job["hb"].cands \subseteq Nodes /\ (job["hb"].pc # "probe" => job["hb"].prim \in Nodes)
  <2>1. job["hb"] # NoJob
    BY <1>7, NoJobType
  <2> QED BY <1>0, <2>1 DEF JobGood, JobType
<1> QED BY <1>0, <1>4, <1>5, <1>6, <1>7 DEF Elects, SameLogs, Longest, Lsn, Up

\* READY: every log is a prefix of that of the primary stored.
LEMMA AgreeStart ==
    ASSUME FewFaults, TypeInv, AwakeInv, StartInv, ~Ready, Ready', [Next]_vars
    PROVE  (Sends /\ Prefixed /\ Known /\ Elects)'
<1>1. /\ Quiet /\ TypeInv' /\ UNCHANGED <<proc, req>> /\ job'["hb"] = NoJob
      /\ head' \in Nodes /\ Longest(head')
  BY ServeStart
<1>2. AwakeInv'
  BY AwakeNext
<1>3. Sends'
  BY <1>1 DEF Quiet, Sends
<1>4. Prefixed'
  <2>1. \A n \in Nodes : Lsn(n) <= Lsn(head')
    BY <1>1 DEF Quiet, Longest
  <2>2. \A n \in Nodes : IsPrefix(proc[n].log, proc[head'].log)
    BY <1>1, <2>1, QuietLogs
  <2> QED BY <1>1, <2>2 DEF Prefixed
<1>5. Up(head)'
  BY <1>1 DEF Quiet, Up
<1>6. Known'
  BY <1>1, <1>2, <1>5, KnownUp, PTL
<1>7. Elects'
  BY <1>1, NoJobType DEF Elects
<1> QED BY <1>3, <1>4, <1>6, <1>7

\* The steps of the heartbeat thread between two jobs.
LEMMA AgreeSnapshot ==
    ASSUME FewFaults, TypeInv, Onward, Sends, Prefixed, Known, Elects, Snapshot
    PROVE  (Sends /\ Prefixed /\ Known /\ Elects)'
<1>1. UNCHANGED <<proc, view, head, job, req>> /\ hb'.snap = view /\ job["hb"] = NoJob
  BY SnapshotTypes DEF Snapshot
<1>2. Sends' /\ Prefixed'
  BY <1>1, PrefixKeep DEF SameLogs
<1>3. DOMAIN hb'.snap = Nodes
  BY <1>1, TypeParts
<1>4. Known'
  BY <1>3 DEF Known
<1>5. Elects'
  BY <1>1, NoJobType DEF Elects
<1> QED BY <1>2, <1>4, <1>5

\* A ping puts the right LSN in the table, or counts a missed one.
LEMMA AgreePing ==
    ASSUME FewFaults, TypeInv, TypeInv', AwakeInv, AwakeInv', Onward, Sends, Prefixed, Known, Elects,
           NEW n \in Nodes, Ping(n)
    PROVE  (Sends /\ Prefixed /\ Known /\ Elects)'
<1>1. UNCHANGED <<proc, head, job, req>>
  BY DEF Ping
<1>2. Sends' /\ Prefixed'
  BY <1>1, PrefixKeep DEF SameLogs
<1>3. n \in DOMAIN hb.snap /\ job["hb"] = NoJob
  BY TypeParts DEF Ping, JobInv, Pinged
<1>4. Elects'
  BY <1>1, <1>3, NoJobType DEF Elects
<1>5. PICK ok \in BOOLEAN, e \in TableEntry : Pings(n, ok, e)
  BY PingFacts
<1>6. /\ view'[n] = e /\ (\A m \in Nodes \ {n} : view'[m] = view[m])
      /\ DOMAIN hb'.snap = DOMAIN hb.snap \ {n}
      /\ \A m \in DOMAIN hb'.snap : hb'.snap[m] = hb.snap[m]
  BY <1>5, TypeParts DEF Pings
<1>7. SUFFICES ASSUME lost' < MaxLost, Aware' PROVE \A m \in Nodes \ DOMAIN hb'.snap : Up(m)' => view'[m].lsn = Lsn(m)'
  BY <1>2, <1>4 DEF Known
<1>8. ~Up(head)' /\ lost' = 0 /\ MaxLost = 1 /\ MissThresh >= 2
  <2>1. (lost < MaxLost)' /\ Aware' /\ TypeInv' /\ AwakeInv' /\ FewFaults
    BY <1>7
  <2>2. (~Up(head) /\ lost = 0 /\ MaxLost = 1 /\ MissThresh >= 2)'
    BY <2>1, AwareDown, PTL
  <2> QED BY <2>2
<1>9. ~Up(head) /\ lost = 0
  BY <1>1, <1>8, TypeParts DEF Onward, Up
<1>10. ~Moving
  BY <1>3, NoJobType DEF Moving
<1>11. Aware
  <2>0. head \in Nodes /\ MissThresh \in Nat
    BY TypeParts, BoundAssumption
  <2>1. CASE n # head
    BY <1>1, <1>5, <1>6, <1>7, <2>0, <2>1 DEF Aware, Pings
  <2>2. CASE n = head
    <3>1. ~ok
      BY <1>5, <1>9, <2>2 DEF Pings, Reached, Up
    <3>2. hb.snap[n] \in TableEntry
      BY <1>3, TypeParts, HbFields
    <3>3. hb.snap[n].missed = 0 /\ hb.snap[n].alive => head \in hb.dead
      <4> SUFFICES ASSUME hb.snap[n].missed = 0, hb.snap[n].alive PROVE head \in hb.dead
        OBVIOUS
      <4>1. Count(hb.snap[n]) = 1
        BY <1>8, <2>0 DEF Count
      <4>2. ~(Count(hb.snap[n]) >= MissThresh)
        BY <1>8, <2>0, <4>1
      <4>3. e.alive /\ hb'.dead = hb.dead
        BY <1>5, <3>1, <4>2 DEF Pings
      <4> QED BY <1>1, <1>6, <1>7, <2>2, <4>3 DEF Aware
    <3> QED BY <1>3, <2>2, <3>2, <3>3 DEF Aware, TableEntry
  <2> QED BY <2>1, <2>2
<1>12. \A m \in Nodes \ DOMAIN hb.snap : Up(m) => view[m].lsn = Lsn(m)
  BY <1>8, <1>9, <1>10, <1>11 DEF Known
<1>13. Up(n) => e.lsn = Lsn(n)
  BY <1>5, <1>8, <1>9 DEF Pings, Missed, Up
<1> QED BY <1>1, <1>6, <1>12, <1>13 DEF Up, Lsn

\* An election begins: the table has the LSN of every node that runs, or every
\* such node will be asked and will answer.
LEMMA AgreeFailure ==
    ASSUME FewFaults, TypeInv, TypeInv', AwakeInv, Onward, Sends, Prefixed, Known, Elects,
           NEW d \in Nodes, handle_node_failure(d)
    PROVE  (Sends /\ Prefixed /\ Known /\ Elects)'
<1>1. UNCHANGED <<proc, view, head, req, lost>>
  BY DEF handle_node_failure
<1>2. Sends' /\ Prefixed'
  BY <1>1, PrefixKeep DEF SameLogs
<1> DEFINE k == job'["hb"]
           others == {n \in Nodes \ {d} : Alive(n)}
<1>3. /\ d \in hb.dead /\ hb'.dead = hb.dead \ {d} /\ hb'.snap = hb.snap /\ DOMAIN hb.snap = {}
      /\ job["hb"] = NoJob
      /\ \/ k = NoJob \/ k.kind = "rebuild"
         \/ /\ head = d \/ ~Alive(head)
            /\ k.kind = "elect" /\ k.pc = "probe" /\ k.cands = others
            /\ k.ask = others \X others /\ k.max = MaxKnown(view, Nodes)
  BY FailureFacts DEF Pinged
<1> HIDE DEF k, others
<1>4. ~Moving
  BY <1>3, NoJobType DEF Moving
<1>5. Aware' => Aware
  BY <1>1, <1>3 DEF Aware
<1>6. Known'
  BY <1>1, <1>3, <1>4, <1>5, KnownKeep
<1>7. ASSUME k.kind = "elect" PROVE Elects'
  <2>1. /\ head = d \/ ~Alive(head)
        /\ k.pc = "probe" /\ k.cands = others
        /\ k.ask = others \X others /\ k.max = MaxKnown(view, Nodes)
    BY <1>3, <1>7, NoJobType
  <2>2. Aware
    BY <1>3, <2>1 DEF Aware, Alive
  <2>3. \A n \in Nodes : Up(n) => n \in others
    BY <1>3 DEF AwakeInv, Alive, Well, others
  <2>4. \A n \in others : <<n, n>> \in k.ask
    BY <2>1
  <2>5. \A n \in Nodes : view[n].lsn <= MaxKnown(view, Nodes)
    BY MaxKnownFacts, TypeParts
  <2>6. CASE lost < MaxLost
    <3>1. \A n \in Nodes : Up(n) => view[n].lsn = Lsn(n)
      BY <1>3, <1>4, <2>2, <2>6 DEF Known
    <3>2. \A n \in Nodes : Up(n)' => Lsn(n)' <= k.max
      BY <1>1, <2>1, <2>5, <3>1 DEF Up, Lsn
    <3>3. Counts'
      BY <3>2 DEF Counts, Covered, k
    <3> QED BY <2>1, <2>4, <3>3 DEF Elects, Fit, k
  <2>7. CASE ~(lost < MaxLost)
    <3>1. lost' = MaxLost
      BY <1>1, <2>7, TypeParts, BoundAssumption
    <3>2. \A n \in Nodes : Up(n)' => <<n, n>> \in k.ask
      BY <1>1, <2>3, <2>4 DEF Up
    <3>3. Counts'
      BY <3>1, <3>2 DEF Counts, k
    <3> QED BY <2>1, <2>4, <3>3 DEF Elects, Fit, k
  <2> QED BY <2>6, <2>7
<1>8. k.kind # "elect" => Elects'
  BY DEF Elects, k
<1> QED BY <1>2, <1>6, <1>7, <1>8

\* What the steps of a job need of Known: the table keeps its LSNs, or learns them.
LEMMA JobKnown ==
    ASSUME TypeInv, Onward, Known, SameLogs, hb' = hb, head' = head,
           \A n \in Nodes : view'[n].lsn \in {view[n].lsn, Lsn(n)},
           view'[head].alive \/ view' = view, Moving => Moving'
    PROVE  Known'
<1>1. lost' < MaxLost => lost < MaxLost
  BY TypeParts, BoundAssumption DEF Onward
<1>2. Aware' => Aware
  BY DEF Aware
<1> QED BY <1>1, <1>2, KnownKeep DEF SameLogs

\* A probe of a rebuild or an election learns the right LSN.
LEMMA AgreeProbe ==
    ASSUME FewFaults, TypeInv, TypeInv', AwakeInv, Onward, Serves, Sends, Prefixed, Known, Elects,
           NEW c \in Nodes, NEW n \in Nodes, Probe("hb", c, n)
    PROVE  (Sends /\ Prefixed /\ Known /\ Elects)'
<1> DEFINE j == job["hb"]
           k == job'["hb"]
<1>1. UNCHANGED <<proc, head, hb, req>> /\ "hb" \in Threads
  BY DEF Probe, Threads
<1>2. Sends' /\ Prefixed'
  BY <1>1, PrefixKeep DEF SameLogs
<1>3. Probes("hb", c, n)
  BY <1>1, ProbeFacts
<1>4. j.pc = "probe" /\ MayProbe(j, c, n) /\ j.kind \in {"none", "rebuild", "elect"}
  BY <1>3, HbJobKinds DEF Probes
<1>5. Fresh(n).lsn = Lsn(n) /\ Fresh(n).alive
  BY FreshType, TypeParts
<1>6. ~Moving
  BY <1>4 DEF Moving
<1>7. /\ \A m \in Nodes : view'[m].lsn \in {view[m].lsn, Lsn(m)}
      /\ Aware' => Aware
  <2>1. CASE view' = view
    BY <1>1, <2>1 DEF Aware
  <2> DEFINE e == Fresh(n)
  <2>2. CASE view' = [view EXCEPT ![n] = e]
    <3> HIDE DEF e
    <3>1. view'[n] = e /\ \A m \in Nodes \ {n} : view'[m] = view[m]
      BY <2>2, TypeParts
    <3>2. e.lsn = Lsn(n) /\ e.alive
      BY <1>5 DEF e
    <3> QED BY <1>1, <3>1, <3>2, TypeParts DEF Aware
  <2> QED BY <1>3, <2>1, <2>2 DEF Probes
<1>8. lost' < MaxLost => lost < MaxLost
  BY TypeParts, BoundAssumption DEF Onward
<1>9. Known'
  BY <1>1, <1>6, <1>7, <1>8, KnownKeep
<1>10. k = NoJob \/ (k.kind = j.kind /\ k.pc = "probe")
  BY <1>3, <1>4 DEF Probes, Answered, Unanswered, Kept
<1>11. ASSUME k.kind = "elect" PROVE Elects'
  <2>1. j.kind = "elect" /\ k.pc = "probe" /\ Counts /\ \A m \in j.cands : Fit(m)
    BY <1>4, <1>10, <1>11, NoJobType DEF Elects
  <2>2. <<c, n>> \in j.ask
    BY <1>4 DEF MayProbe
  <2>3. /\ \A m \in Nodes : Lsn(m)' = Lsn(m) /\ (Up(m)' <=> Up(m))
        /\ head' = head /\ hb' = hb /\ proc' = proc
    BY <1>1 DEF Lsn, Up
  <2>4. CASE Reached(n) /\ Answered(j, k, c, n)
    <3>1. /\ k.cands = j.cands /\ k.ask = j.ask \ {<<c, n>>}
          /\ \A m \in Nodes \ {n} : k.lsn[m] = j.lsn[m]
          /\ k.lsn[n] = IF c # n THEN j.lsn[n] ELSE Lsn(n)
          /\ k.max >= j.max /\ k.max >= Lsn(n)
      BY <2>1, <2>4 DEF Answered
    <3>2. Up(n) /\ n \notin hb.dead /\ IsPrefix(proc[n].log, proc[head].log)
      BY <2>4 DEF Reached, Up, AwakeInv, Prefixed
    <3>3. \A m \in Nodes : m # n => (<<m, m>> \in k.ask <=> <<m, m>> \in j.ask)
      BY <3>1
    <3>4. ASSUME NEW m \in Nodes, Fit(m) PROVE Fit(m)'
      <4>1. CASE m # n
        BY <2>3, <3>1, <3>3, <3>4, <4>1 DEF Fit
      <4>2. CASE m = n
        <5>1. CASE c = n
          BY <2>3, <3>1, <3>2, <4>2, <5>1 DEF Fit
        <5>2. CASE c # n
          <6>1. <<n, n>> \in k.ask <=> <<n, n>> \in j.ask
            BY <3>1, <5>2
          <6> QED BY <2>3, <3>1, <3>4, <4>2, <5>2, <6>1 DEF Fit
        <5> QED BY <5>1, <5>2
      <4> QED BY <4>1, <4>2
    <3>5. k.max \in Nat /\ j.max \in Nat /\ \A m \in Nodes : Lsn(m) \in Nat
      <4>1. job["hb"] \in JobType /\ job'["hb"] \in JobType
        BY <1>1, TypeParts DEF TypeInv, JobInv
      <4> QED BY <4>1, LogFacts DEF JobType
    <3>6. \A m \in Nodes : Lsn(m) <= j.max => Lsn(m) <= k.max
      BY <3>1, <3>5
    <3>7. Lsn(n) <= k.max
      BY <3>1, <3>5
    <3>8. lost = MaxLost => lost' = MaxLost
      BY <2>4 DEF Reached
    <3>9. \A m \in Nodes : <<m, m>> \in j.ask => <<m, m>> \in k.ask \/ Lsn(m) <= k.max
      BY <3>3, <3>7
    <3>10. Counts'
      BY <2>1, <2>3, <3>6, <3>8, <3>9 DEF Counts, Covered
    <3>11. j.cands \subseteq Nodes
      BY HbJobKinds DEF JobType
    <3> QED BY <2>1, <3>1, <3>4, <3>10, <3>11 DEF Elects
  <2>5. CASE Missed(n) /\ Unanswered(j, k, c, n)
    <3>1. /\ k.lsn = j.lsn /\ k.max = j.max
          /\ IF c = n THEN k.ask = {q \in j.ask : q[1] # c} /\ k.cands = j.cands \ {c}
             ELSE k.ask = j.ask \ {<<c, n>>} /\ k.cands = j.cands
      BY <1>10, <1>11, <2>1, <2>5, NoJobType DEF Unanswered
    <3>2. \A m \in Nodes : ~(c = n /\ m = n) => (<<m, m>> \in k.ask <=> <<m, m>> \in j.ask)
      BY <3>1
    <3>3. \A m \in k.cands : m \in j.cands /\ ~(c = n /\ m = n)
      BY <3>1
    <3>4. j.cands \subseteq Nodes
      BY HbJobKinds DEF JobType
    <3>5. \A m \in k.cands : Fit(m)'
      BY <2>1, <2>3, <3>1, <3>2, <3>3, <3>4 DEF Fit
    <3>6. lost = MaxLost => ~Up(n) /\ lost' = MaxLost
      BY <2>5, BoundAssumption DEF Missed, Up
    <3>7. Counts'
      <4>1. CASE Covered(j.max)
        BY <2>3, <3>1, <4>1 DEF Counts, Covered
      <4>2. CASE lost = MaxLost /\ \A m \in Nodes : Up(m) => <<m, m>> \in j.ask \/ Lsn(m) <= j.max
        BY <2>3, <3>1, <3>2, <3>6, <4>2 DEF Counts
      <4> QED BY <2>1, <4>1, <4>2 DEF Counts
    <3> QED BY <2>1, <3>5, <3>7 DEF Elects
  <2> QED BY <1>3, <2>4, <2>5 DEF Probes
<1>12. k.kind # "elect" => Elects'
  BY DEF Elects
<1> QED BY <1>2, <1>9, <1>11, <1>12

\* The candidate chosen knows as much as any node that runs.
LEMMA AgreeChoose ==
    ASSUME FewFaults, TypeInv, TypeInv', AwakeInv, Onward, Serves, Sends, Prefixed, Known, Elects,
           Choose("hb")
    PROVE  (Sends /\ Prefixed /\ Known /\ Elects)'
<1> DEFINE j == job["hb"]
           k == job'["hb"]
<1>1. UNCHANGED <<proc, view, head, hb, req, lost>> /\ "hb" \in Threads
  BY DEF Choose, Threads
<1>2. Sends' /\ Prefixed'
  BY <1>1, PrefixKeep DEF SameLogs
<1>3. j.pc = "probe" /\ j.ask = {} /\ Chosen(j, k) /\ j.kind \in {"none", "rebuild", "elect"}
  BY <1>1, ChooseFacts, HbJobKinds
<1>4. ~Moving
  BY <1>3 DEF Moving
<1>5. Known'
  BY <1>1, <1>4, JobKnown DEF SameLogs
<1>6. ASSUME k.kind = "elect" PROVE Elects'
  <2>1. PICK c \in j.cands : j.kind = "elect" /\ j.lsn[c] >= j.max /\ GoneOn(j, k, "promote", c)
    BY <1>3, <1>6, NoJobType DEF Chosen, GoneOn, Kept
  <2>2. /\ k.pc = "promote" /\ k.prim = c /\ k.ask = {} /\ k.cands = j.cands
        /\ k.lsn = j.lsn /\ k.max = j.max
    BY <2>1 DEF GoneOn
  <2>3. Counts /\ \A m \in j.cands : Fit(m)
    BY <1>3, <2>1 DEF Elects
  <2>4. \A m \in j.cands : j.lsn[m] = Lsn(m) /\ m \notin hb.dead /\ IsPrefix(proc[m].log, proc[head].log)
    BY <1>3, <2>3 DEF Fit
  <2>5. Covered(j.max)
    BY <1>3, <2>3 DEF Counts, Covered
  <2>6. c \in Nodes /\ j.max \in Nat /\ \A n \in Nodes : Lsn(n) \in Nat
    BY HbJobKinds, LogFacts DEF JobType
  <2>7. Lsn(c) >= j.max
    BY <2>1, <2>4
  <2>8. Longest(c)
    <3> SUFFICES ASSUME NEW n \in Nodes, Up(n) PROVE Lsn(n) <= Lsn(c)
      BY DEF Longest
    <3>1. Lsn(n) <= j.max
      BY <2>5 DEF Covered
    <3> QED BY <2>6, <2>7, <3>1
  <2>9. Counts'
    BY <1>1, <2>2, <2>5 DEF Counts, Covered, Up, Lsn
  <2>10. \A m \in k.cands : Fit(m)'
    BY <1>1, <2>2, <2>4 DEF Fit, Lsn
  <2>11. Longest(c)'
    BY <1>1, <2>8 DEF Longest, Up, Lsn
  <2>12. Longest(job["hb"].prim)'
    BY <2>2, <2>11 DEF Longest, Up, Lsn
  <2> QED BY <1>1, <2>2, <2>4, <2>9, <2>10, <2>12 DEF Elects
<1>7. k.kind # "elect" => Elects'
  BY DEF Elects
<1> QED BY <1>2, <1>5, <1>6, <1>7

\* BECOME_PRIMARY leaves the logs alone.
LEMMA AgreePromote ==
    ASSUME FewFaults, TypeInv, TypeInv', AwakeInv, Onward, Serves, Sends, Prefixed, Known, Elects,
           promote_node("hb")
    PROVE  (Sends /\ Prefixed /\ Known /\ Elects)'
<1> DEFINE j == job["hb"]
           k == job'["hb"]
<1>1. UNCHANGED <<view, head, hb>> /\ "hb" \in Threads
  BY DEF promote_node, Threads
<1>2. j.pc = "promote" /\ j.prim \in Nodes /\ Promotes(j, k) /\ j.kind \in {"none", "rebuild", "elect"}
  BY <1>1, PromoteFacts, HbJobKinds
<1>3. SameLogs /\ (req' = req \/ Marks)
  BY <1>2 DEF SameLogs, Promotes, Promoted, Touches
<1>4. Sends' /\ Prefixed'
  BY <1>1, <1>3, PrefixKeep DEF Marks
<1>5. ~Moving
  BY <1>2 DEF Moving
<1>6. Known'
  BY <1>1, <1>3, <1>5, JobKnown
<1>7. ASSUME k.kind = "elect" PROVE Elects'
  <2>1. /\ j.kind = "elect" /\ k.prim = j.prim /\ k.ask = j.ask /\ k.lsn = j.lsn /\ k.max = j.max
        /\ k.pc = "sync" \/ (k.pc = "probe" /\ k.cands \subseteq j.cands)
    BY <1>2, <1>7, NoJobType DEF Promotes, TurnsTo, Kept
  <2>2. /\ Counts /\ (\A c \in j.cands : Fit(c))
        /\ j.prim \notin hb.dead /\ Longest(j.prim) /\ j.ask = {}
        /\ IsPrefix(proc[j.prim].log, proc[head].log)
    BY <1>2, <2>1 DEF Elects
  <2>3. head \in Nodes /\ j.cands \subseteq Nodes
    BY TypeParts, HbJobKinds DEF JobType
  <2>4. \A n \in Nodes : Lsn(n)' = Lsn(n) /\ proc'[n].log = proc[n].log /\ (Up(n)' => Up(n))
    BY <1>3 DEF SameLogs, Lsn, Onward, Up
  <2>5. Covered(j.max)
    BY <2>2 DEF Counts, Covered
  <2>6. Counts'
    BY <2>1, <2>4, <2>5 DEF Counts, Covered
  <2>7. \A c \in j.cands : Fit(c)'
    BY <1>1, <2>1, <2>2, <2>3, <2>4 DEF Fit
  <2>8. Longest(job["hb"].prim)'
    BY <1>2, <2>1, <2>2, <2>4 DEF Longest, Lsn, Up
  <2> QED BY <1>1, <1>2, <2>1, <2>2, <2>3, <2>4, <2>6, <2>7, <2>8 DEF Elects
<1>8. k.kind # "elect" => Elects'
  BY DEF Elects
<1> QED BY <1>4, <1>6, <1>7, <1>8

\* A follower that syncs gets the log of a node whose log its own is a prefix of.
LEMMA DemoteLogs ==
    ASSUME TypeInv, Serves, Prefixed, Elects, NEW f \in Nodes, demote_and_sync_node("hb", f)
    PROVE  LET p == job["hb"].prim
           IN  /\ IsPrefix(proc[p].log, proc[head].log)
               /\ Up(f) => IsPrefix(proc[f].log, proc[p].log)
               /\ \A n \in Nodes \ {f} : proc'[n] = proc[n]
               /\ \A n \in Nodes : proc'[n].up = proc[n].up
               /\ proc'[f].log = proc[f].log \/ (Up(f) /\ Up(p) /\ proc'[f].log = proc[p].log)
               /\ proc'[f].reps \in {proc[f].reps, {}}
               /\ proc'[head].log = proc[head].log /\ proc'[p].log = proc[p].log
<1> DEFINE j == job["hb"]
           k == job'["hb"]
           p == j.prim
<1>1. UNCHANGED <<view, head, hb>> /\ "hb" \in Threads /\ head \in Nodes
  BY TypeParts DEF demote_and_sync_node, Threads
<1>2. /\ j.pc = "sync" /\ p \in Nodes /\ f # p /\ Demotes(j, k, f)
      /\ j.kind \in {"rebuild", "elect"}
  BY <1>1, DemoteFacts, HbJobKinds
<1>5. IsPrefix(proc[p].log, proc[head].log) /\ (Up(f) => IsPrefix(proc[f].log, proc[p].log))
  <2>1. CASE j.kind = "rebuild"
    BY <1>1, <2>1, LogFacts, PrefixOrder DEF Serves, Prefixed
  <2>2. CASE j.kind = "elect"
    <3>1. Longest(p) /\ IsPrefix(proc[p].log, proc[head].log)
      BY <1>2, <2>2 DEF Elects
    <3>2. Up(f) => IsPrefix(proc[f].log, proc[head].log) /\ Len(proc[f].log) <= Len(proc[p].log)
      BY <1>2, <3>1, LogFacts DEF Prefixed, Longest
    <3> QED BY <1>1, <1>2, <3>1, <3>2, LogFacts, PrefixOrder
  <2> QED BY <1>2, <2>1, <2>2
<1>6. /\ \A n \in Nodes \ {f} : proc'[n] = proc[n]
      /\ proc'[f].reps \in {proc[f].reps, {}}
      /\ \A n \in Nodes : proc'[n].up = proc[n].up
      /\ proc'[f].log = proc[f].log \/ (Up(f) /\ Up(p) /\ proc'[f].log = proc[p].log)
  <2>1. CASE UNCHANGED <<proc, req>>
    BY <2>1
  <2>2. CASE Demoted(f, p)
    <3>1. Up(f) /\ Touches(f)
      BY <2>2 DEF Demoted, Up
    <3>2. ASSUME proc[p].up, proc'[f].log \in Synced(proc[f].log, proc[p].log)
          PROVE  proc'[f].log = proc[p].log
      BY <1>2, <1>5, <3>1, <3>2, LogFacts, SyncedType
    <3> QED BY <2>2, <3>1, <3>2 DEF Demoted, Touches, Up
  <2> QED BY <1>2, <2>1, <2>2 DEF Demotes
<1>7. proc'[head].log = proc[head].log /\ proc'[p].log = proc[p].log
  <2>1. CASE f = head
    <3>1. j.kind = "elect" /\ ~Up(f)
      BY <1>2, <2>1 DEF Serves
    <3> QED BY <1>2, <1>6, <2>1, <3>1
  <2> QED BY <1>1, <1>2, <1>6, <2>1
<1> QED BY <1>5, <1>6, <1>7

\* BECOME_SECONDARY gives the follower the log of its primary.
LEMMA AgreeDemote ==
    ASSUME FewFaults, TypeInv, TypeInv', AwakeInv, AwakeInv', Onward, Serves,
           Sends, Prefixed, Known, Elects, NEW f \in Nodes, demote_and_sync_node("hb", f)
    PROVE  (Sends /\ Prefixed /\ Known /\ Elects)'
<1> DEFINE j == job["hb"]
           k == job'["hb"]
           p == j.prim
<1>1. UNCHANGED <<view, head, hb>> /\ "hb" \in Threads /\ head \in Nodes
  BY TypeParts DEF demote_and_sync_node, Threads
<1>2. /\ j.pc = "sync" /\ p \in Nodes /\ f # p /\ Demotes(j, k, f)
      /\ j.kind \in {"rebuild", "elect"}
  BY <1>1, DemoteFacts, HbJobKinds
<1>3. k = NoJob \/ (k.kind = j.kind /\ k.pc \in {"add", "sync"} /\ k.ask = j.ask /\ k.prim = p)
  BY <1>2 DEF Demotes, Skips, TurnsTo, Kept
<1>4. req' = req \/ Marks
  BY <1>2 DEF Demotes, Demoted
<1>5. IsPrefix(proc[p].log, proc[head].log) /\ (Up(f) => IsPrefix(proc[f].log, proc[p].log))
  BY DemoteLogs
<1>6. /\ \A n \in Nodes \ {f} : proc'[n].log = proc[n].log
      /\ \A n \in Nodes : proc'[n].up = proc[n].up
      /\ proc'[f].log = proc[f].log \/ (Up(f) /\ Up(p) /\ proc'[f].log = proc[p].log)
  BY DemoteLogs
<1>7. proc'[head].log = proc[head].log /\ proc'[p].log = proc[p].log
  BY DemoteLogs
<1>8. Sends'
  <2>1. \A r \in Requests : req'[r].pc = req[r].pc /\ req'[r].lsn = req[r].lsn /\ req'[r].undo = req[r].undo
    BY <1>4 DEF Marks
  <2> QED BY <1>1, <1>7, <2>1 DEF Sends, Lsn
<1>9. Prefixed'
  BY <1>1, <1>5, <1>6, <1>7 DEF Prefixed, Up
<1>10. Known'
  <2>1. CASE Up(head)
    <3>1. Up(head)'
      BY <1>1, <1>6, <2>1 DEF Up
    <3> QED BY <3>1, KnownUp, PTL
  <2>2. CASE ~Up(head) /\ j.kind = "rebuild"
    <3>1. SameLogs
      BY <1>6, <2>2 DEF SameLogs, Serves
    <3>2. ~Moving
      BY <2>2 DEF Moving
    <3> QED BY <1>1, <3>1, <3>2, JobKnown
  <2>3. CASE j.kind = "elect"
    <3>1. k # NoJob
      BY <1>2, <2>3, NoJobType DEF Demotes, Skips, TurnsTo, Kept
    <3>2. Moving'
      BY <1>3, <2>3, <3>1 DEF Moving
    <3> QED BY <3>2 DEF Known
  <2> QED BY <1>2, <2>1, <2>2, <2>3
<1>11. ASSUME k.kind = "elect" PROVE Elects'
  <2>1. j.kind = "elect" /\ k.pc \in {"add", "sync"} /\ k.ask = j.ask /\ k.prim = p
    BY <1>3, <1>11, NoJobType
  <2>2. p \notin hb.dead /\ Longest(p) /\ j.ask = {}
    BY <1>2, <2>1 DEF Elects
  <2>3. \A n \in Nodes : proc'[n].log = proc[n].log \/ (n = f /\ Up(f) /\ Up(p) /\ proc'[n].log = proc[p].log)
    BY <1>6
  <2>4. \A n \in Nodes : Lsn(n)' = Lsn(n) \/ Lsn(n)' = Lsn(p)
    BY <2>3 DEF Lsn
  <2>5. Len(proc'[p].log) = Lsn(p) /\ Lsn(p) \in Nat
    BY <1>2, <1>7, LogFacts DEF Lsn
  <2>6. \A n \in Nodes : Up(n)' => Lsn(n)' <= Lsn(p)
    BY <1>6, <2>2, <2>4, <2>5 DEF Longest, Up
  <2>7. Longest(job["hb"].prim)'
    BY <2>1, <2>5, <2>6 DEF Longest, Lsn, Up
  <2> QED BY <1>1, <1>5, <1>7, <2>1, <2>2, <2>7 DEF Elects
<1>12. k.kind # "elect" => Elects'
  BY DEF Elects
<1> QED BY <1>8, <1>9, <1>10, <1>11, <1>12

\* ADD_REPLICA leaves the logs alone.
LEMMA AgreeAdd ==
    ASSUME FewFaults, TypeInv, TypeInv', AwakeInv, Onward, Serves, Sends, Prefixed, Known, Elects,
           add_replica_to_primary("hb")
    PROVE  (Sends /\ Prefixed /\ Known /\ Elects)'
<1> DEFINE j == job["hb"]
           k == job'["hb"]
           p == j.prim
<1>1. UNCHANGED <<view, head, hb, req>> /\ "hb" \in Threads /\ head \in Nodes
  BY TypeParts DEF add_replica_to_primary, Threads
<1>2. /\ j.pc = "add" /\ p \in Nodes /\ Adds(j, k) /\ j.kind \in {"rebuild", "elect"}
  BY <1>1, AddFacts, HbJobKinds
<1>3. k = NoJob \/ (k.kind = j.kind /\ k.pc = "sync" /\ k.ask = j.ask /\ k.prim = p)
  BY <1>2 DEF Adds, Skips, TurnsTo, Kept
<1>4. SameLogs
  BY <1>2 DEF Adds, Added, Touches, SameLogs
<1>5. Sends' /\ Prefixed'
  BY <1>1, <1>4, PrefixKeep
<1>6. Moving => Moving'
  <2> SUFFICES ASSUME j.kind = "elect" PROVE Moving'
    BY DEF Moving
  <2>1. k # NoJob
    BY <1>2, NoJobType DEF Adds, Skips, TurnsTo, Kept
  <2> QED BY <1>3, <2>1 DEF Moving
<1>7. Known'
  BY <1>1, <1>4, <1>6, JobKnown
<1>8. ASSUME k.kind = "elect" PROVE Elects'
  <2>1. j.kind = "elect" /\ k.pc = "sync" /\ k.ask = j.ask /\ k.prim = p
    BY <1>3, <1>8, NoJobType
  <2>2. p \notin hb.dead /\ Longest(p) /\ j.ask = {} /\ IsPrefix(proc[p].log, proc[head].log)
    BY <1>2, <2>1 DEF Elects
  <2>3. Longest(job["hb"].prim)'
    BY <1>2, <1>4, <2>1, <2>2 DEF Longest, Lsn, Up, SameLogs, Onward
  <2> QED BY <1>1, <1>2, <1>4, <2>1, <2>2, <2>3 DEF Elects, SameLogs
<1>9. k.kind # "elect" => Elects'
  BY DEF Elects
<1> QED BY <1>5, <1>7, <1>8, <1>9

\* The elected primary replaces one that is down, and knows as much as any node
\* that runs.
LEMMA AgreeCommit ==
    ASSUME FewFaults, TypeInv, TypeInv', AwakeInv, Onward, Serves, Sends, Prefixed, Known, Elects,
           Commit("hb")
    PROVE  (Sends /\ Prefixed /\ Known /\ Elects)'
<1> DEFINE j == job["hb"]
           p == j.prim
<1>1. UNCHANGED <<proc, hb, req, lost>> /\ "hb" \in Threads /\ head \in Nodes
  BY TypeParts DEF Commit, Threads
<1>2. /\ j.pc = "sync" /\ p \in Nodes /\ Commits(j) /\ j.kind \in {"rebuild", "elect"}
      /\ job'["hb"] = NoJob /\ j # NoJob
  BY <1>1, CommitFacts, HbJobKinds
<1>3. Elects'
  BY <1>2, NoJobType DEF Elects
<1>4. CASE j.kind = "rebuild"
  <2>1. head' = head /\ p = head /\ Revives(head)
    BY <1>2, <1>4 DEF Commits, Serves
  <2>2. Sends' /\ Prefixed'
    BY <1>1, <2>1, PrefixKeep DEF SameLogs
  <2>3. \A n \in Nodes : view'[n].lsn = view[n].lsn
    BY <2>1 DEF Revives
  <2>4. view'[head].alive /\ ~Moving
    BY <1>4, <2>1 DEF Revives, Moving
  <2>5. Known'
    BY <1>1, <2>1, <2>3, <2>4, JobKnown DEF SameLogs
  <2> QED BY <1>3, <2>2, <2>5
<1>5. CASE j.kind = "elect"
  <2>1. /\ head' = p /\ Revives(p) /\ ~Up(head)
        /\ p \notin hb.dead /\ Longest(p) /\ IsPrefix(proc[p].log, proc[head].log)
    BY <1>2, <1>5 DEF Commits, Serves, Elects
  <2>2. \A r \in Requests : req[r].pc # "send"
    BY <2>1, TypeParts DEF ReqInv, ReqGood, Waiting, Serves, Up
  <2>3. Sends'
    BY <1>1, <2>2 DEF Sends
  <2>4. ASSUME NEW n \in Nodes, Up(n) PROVE IsPrefix(proc[n].log, proc[p].log)
    <3>1. IsPrefix(proc[n].log, proc[head].log) /\ Len(proc[n].log) <= Len(proc[p].log)
      BY <1>2, <2>1, <2>4, LogFacts DEF Prefixed, Longest
    <3> QED BY <1>1, <1>2, <2>1, <3>1, LogFacts, PrefixOrder
  <2>5. Prefixed'
    BY <1>1, <2>1, <2>4 DEF Prefixed, Up
  <2>6. DOMAIN hb.snap = {}
    BY <1>2, TypeParts DEF JobInv, Pinged
  <2>7. ~Aware'
    BY <1>1, <2>1, <2>6 DEF Aware, Revives
  <2> QED BY <1>3, <2>3, <2>5, <2>7 DEF Known
<1> QED BY <1>2, <1>4, <1>5

\* A process ends: its log stays.
LEMMA AgreeEnds ==
    ASSUME FewFaults, TypeInv, Onward, Sends, Prefixed, Known, Elects, NEW n \in Nodes, Ends(n),
           UNCHANGED <<view, head, hb, job>>
    PROVE  (Sends /\ Prefixed /\ Known /\ Elects)'
<1>1. SameLogs
  BY DEF Ends, SameLogs
<1>2. \A r \in Requests : req'[r].pc = "done" \/ req'[r] = req[r]
  BY DEF Ends
<1>3. Sends' /\ Prefixed'
  BY <1>1, <1>2, PrefixKeep
<1>4. Known'
  BY <1>1, JobKnown DEF Moving
<1>5. Elects'
  BY <1>1, ElectKeep
<1> QED BY <1>3, <1>4, <1>5

\* A step of a client that writes nothing.
LEMMA AgreeRead ==
    ASSUME FewFaults, TypeInv, TypeInv', AwakeInv, AwakeInv', Onward, Serves,
           Sends, Prefixed, Known, Elects, NEW r \in Requests,
           handle_lookup(r) \/ LookupAnswer(r) \/ CheckRole(r)
    PROVE  (Sends /\ Prefixed /\ Known /\ Elects)'
<1>1. UNCHANGED <<proc, head, hb, job>> /\ head \in Nodes
  BY TypeParts DEF handle_lookup, LookupAnswer, CheckRole
<1>2. Only(r) /\ req'[r].pc # "send"
  BY LookupFacts, AnswerFacts, RoleFacts, IdleType DEF Answers, GoesOn
<1>3. \A s \in Requests : req'[s].pc = "send" => req'[s] = req[s]
  BY <1>2 DEF Only
<1>4. Sends' /\ Prefixed'
  BY <1>1, <1>3, PrefixKeep DEF SameLogs
<1>5. Elects'
  BY <1>1, ElectKeep DEF SameLogs
<1>6. CASE view' = view
  BY <1>1, <1>4, <1>5, <1>6, JobKnown DEF SameLogs, Moving
<1>7. CASE LookupAnswer(r) /\ view' # view
  <2> DEFINE n == req[r].node
  <2>1. req[r].pc = "probed" /\ Answers(r)
    BY <1>7, AnswerFacts
  <2>2. n \in Nodes /\ (n = head \/ ~Up(n))
    BY <2>1, TypeParts DEF ReqInv, ReqGood, Serves, Waiting
  <2>3. CASE Up(head)
    <3>1. Up(head)'
      BY <1>1, <2>3 DEF Up
    <3>2. Known'
      BY <3>1, KnownUp, PTL
    <3> QED BY <1>4, <1>5, <3>2
  <2>4. CASE ~Up(head)
    <3>1. \E e : e.alive /\ view' = [view EXCEPT ![n] = e]
      <4>1. req[r].got.alive /\ Fresh(n).alive
        BY <2>1, <2>2, TypeParts, FreshType DEF AwakeInv
      <4> QED BY <1>7, <2>1, <4>1 DEF Answers
    <3>2. view'[n].alive /\ \A m \in Nodes \ {n} : view'[m] = view[m]
      BY <2>2, <3>1, TypeParts
    <3>3. \A m \in Nodes : proc'[m].up => proc'[m].log = proc[m].log /\ view'[m].lsn \in {view[m].lsn, Lsn(m)}
      BY <1>1, <2>2, <2>4, <3>2 DEF Up
    <3>4. Aware' => Aware
      BY <1>1, <2>2, <3>2 DEF Aware
    <3>5. Moving => Moving'
      BY <1>1 DEF Moving
    <3>6. lost' < MaxLost => lost < MaxLost
      BY TypeParts, BoundAssumption DEF Onward
    <3>7. Known'
      BY <1>1, <3>3, <3>4, <3>5, <3>6, KnownKeep
    <3> QED BY <1>4, <1>5, <3>7
  <2> QED BY <2>3, <2>4
<1> QED BY <1>6, <1>7 DEF handle_lookup, CheckRole

\* A request at a node that runs is at the primary, and no election is on.
LEMMA SendFacts ==
    ASSUME TypeInv, Serves, NEW r \in Requests, req[r].pc \in {"queued", "send"}
    PROVE  /\ req[r].node = head /\ head \in Nodes /\ Up(head)
           /\ job["hb"].kind # "elect" /\ head \notin proc[head].reps
<1>1. req[r].node = head /\ head \in Nodes /\ Up(head)
  BY TypeParts DEF ReqInv, ReqGood, Serves, Up, Waiting
<1> QED BY <1>1, TypeParts DEF Serves, ProcInv

\* The primary writes, and no other request sends.
LEMMA AgreeWrite ==
    ASSUME FewFaults, TypeInv, TypeInv', AwakeInv', Onward, Serves, Sends, Prefixed,
           NEW r \in Requests, req[r].pc \in {"queued", "send"}, NEW u \in BOOLEAN,
           Writes(r, req[r].node, u), UNCHANGED <<head, job>>,
           \A s \in Requests \ {r} : req[s].pc # "send"
    PROVE  (Sends /\ Prefixed /\ Known /\ Elects)'
<1>1. /\ req[r].node = head /\ head \in Nodes /\ Up(head)
      /\ job["hb"].kind # "elect"
  BY SendFacts
<1> DEFINE L == proc[head].log
           e == [op |-> r, undo |-> u]
           l == Append(L, e)
<1>2. e \in Entry /\ L \in Seq(Entry) /\ Lsn(head) = Len(L)
  BY <1>1, LogFacts DEF Entry
<1>3. /\ Touches(head) /\ proc'[head].log = l
      /\ \A s \in Requests \ {r} : req'[s] = req[s]
      /\ req'[r].pc = "done" \/ (req'[r].pc = "send" /\ req'[r].lsn = Lsn(head) + 1 /\ req'[r].undo = u)
  BY <1>1 DEF Writes
<1> HIDE DEF e
<1>4. Len(l) = Len(L) + 1 /\ l[Len(L) + 1] = e /\ Len(L) \in Nat
  BY <1>2
<1> HIDE DEF l
<1>5. Lsn(head)' = Lsn(head) + 1 /\ Lsn(head) \in Nat
  BY <1>2, <1>3, <1>4 DEF Lsn
<1>6. proc'[head].log[Lsn(head)'] = e
  BY <1>2, <1>3, <1>4, <1>5
<1>7. Sends'
  <2>1. \A s \in Requests : req'[s].pc = "send" => s = r
    BY <1>3
  <2>2. ASSUME req'[r].pc = "send"
        PROVE  /\ req'[r].lsn = Lsn(head)' /\ req'[r].lsn >= 1
               /\ proc'[head].log[Lsn(head)'] = [op |-> r, undo |-> req'[r].undo]
    BY <1>3, <1>5, <1>6, <2>2 DEF e
  <2> QED BY <2>1, <2>2 DEF Sends
<1>8. Prefixed'
  <2>1. ASSUME NEW n \in Nodes, n # head, Up(n)' PROVE IsPrefix(proc'[n].log, proc'[head].log)
    <3>1. proc'[n].log = proc[n].log /\ Up(n)
      BY <1>3, <2>1 DEF Touches, Up
    <3>2. IsPrefix(proc[n].log, L) /\ proc[n].log \in Seq(Entry)
      BY <3>1, LogFacts DEF Prefixed
    <3>3. IsPrefix(proc[n].log, l)
      BY <1>2, <3>2, PrefixAppend DEF l
    <3> QED BY <1>3, <3>1, <3>3
  <2>2. IsPrefix(proc'[head].log, proc'[head].log)
    <3>1. l \in Seq(Entry)
      BY <1>2 DEF l
    <3> QED BY <1>3, <3>1, PrefixOrder
  <2> QED BY <2>1, <2>2 DEF Prefixed
<1>9. Up(head)'
  BY <1>1, <1>3 DEF Touches, Up
<1>10. Known'
  BY <1>9, KnownUp, PTL
<1>11. Elects'
  BY <1>1 DEF Elects
<1> QED BY <1>7, <1>8, <1>10, <1>11

\* A replica applies what the primary sends, or syncs from it.
LEMMA ForwardLogs ==
    ASSUME TypeInv, Serves, Sends, Prefixed,
           NEW r \in Requests, NEW f \in Nodes, forward_to_replica(r, f)
    PROVE  /\ head \in Nodes /\ Up(head) /\ f # head /\ job["hb"].kind # "elect"
           /\ proc'[f].log = proc[f].log \/ (Up(f) /\ IsPrefix(proc'[f].log, proc[head].log))
           /\ \A n \in Nodes \ {f} : proc'[n] = proc[n]
           /\ proc'[f].up = proc[f].up /\ proc'[f].reps \in {proc[f].reps, {}}
           /\ \A s \in Requests : /\ req'[s].pc = req[s].pc /\ req'[s].lsn = req[s].lsn
                                  /\ req'[s].undo = req[s].undo
<1>1. Forwards(r, f) /\ req[r].pc = "send" /\ f \in req[r].left /\ f # head
  BY ForwardTypes DEF Serves
<1>2. /\ req[r].node = head /\ head \in Nodes /\ Up(head)
      /\ job["hb"].kind # "elect"
  BY <1>1, SendFacts
<1> DEFINE L == proc[head].log
           e == [op |-> r, undo |-> req[r].undo]
<1>3. /\ L \in Seq(Entry) /\ Len(L) = req[r].lsn /\ req[r].lsn \in Nat /\ req[r].lsn >= 1
      /\ L[req[r].lsn] = e /\ e \in Entry
  <2>1. L \in Seq(Entry) /\ Len(L) = req[r].lsn /\ req[r].lsn \in Nat
    BY <1>1, <1>2, LogFacts DEF Sends
  <2>2. req[r].undo \in BOOLEAN
    BY TypeParts DEF ReqType
  <2> QED BY <1>1, <1>2, <2>1, <2>2 DEF Sends, Entry
<1>4. proc'[f].log = proc[f].log \/ (Up(f) /\ IsPrefix(proc'[f].log, L))
  <2>1. CASE /\ Accepts(proc[f].log, req[r].lsn) /\ proc[f].up
             /\ proc'[f].log = Applied(proc[f].log, req[r].lsn, e)
    <3>1. IsPrefix(proc[f].log, L) /\ proc[f].log \in Seq(Entry) /\ Up(f)
      BY <2>1, LogFacts DEF Prefixed, Up
    <3> HIDE DEF e
    <3> QED BY <1>3, <2>1, <3>1, PrefixApplied
  <2>2. ASSUME proc[f].up, NEW l \in Synced(proc[f].log, L), proc'[f].log = Applied(l, req[r].lsn, e)
        PROVE  Up(f) /\ IsPrefix(proc'[f].log, L)
    <3>1. IsPrefix(proc[f].log, L) /\ proc[f].log \in Seq(Entry) /\ Up(f)
      BY <2>2, LogFacts DEF Prefixed, Up
    <3>2. l = L
      BY <1>3, <3>1, SyncedType
    <3>3. IsPrefix(L, L)
      BY <1>3, PrefixOrder
    <3> HIDE DEF e
    <3> QED BY <1>3, <2>2, <3>1, <3>2, <3>3, PrefixApplied
  <2> QED BY <1>1, <1>2, <2>1, <2>2 DEF Forwards
<1>5. /\ \A n \in Nodes \ {f} : proc'[n] = proc[n]
      /\ proc'[f].up = proc[f].up /\ proc'[f].reps \in {proc[f].reps, {}}
      /\ \A s \in Requests : req'[s].pc = req[s].pc /\ req'[s].lsn = req[s].lsn /\ req'[s].undo = req[s].undo
  BY <1>1 DEF Forwards, Touches
<1> QED BY <1>1, <1>2, <1>4, <1>5

\* A forwarded write leaves the replica with a prefix of the primary's log.
LEMMA AgreeForward ==
    ASSUME FewFaults, TypeInv, TypeInv', AwakeInv', Onward, Serves, Sends, Prefixed,
           NEW r \in Requests, NEW f \in Nodes, forward_to_replica(r, f)
    PROVE  (Sends /\ Prefixed /\ Known /\ Elects)'
<1>0. UNCHANGED <<head, job>>
  BY DEF forward_to_replica
<1>1. /\ head \in Nodes /\ Up(head) /\ f # head /\ job["hb"].kind # "elect"
      /\ proc'[f].log = proc[f].log \/ (Up(f) /\ IsPrefix(proc'[f].log, proc[head].log))
      /\ \A n \in Nodes \ {f} : proc'[n] = proc[n]
      /\ proc'[f].up = proc[f].up
      /\ \A s \in Requests : /\ req'[s].pc = req[s].pc /\ req'[s].lsn = req[s].lsn
                             /\ req'[s].undo = req[s].undo
  BY ForwardLogs
<1>6. proc'[head].log = proc[head].log /\ Lsn(head)' = Lsn(head) /\ Up(head)'
  BY <1>0, <1>1 DEF Lsn, Up
<1>7. Sends'
  BY <1>0, <1>1, <1>6 DEF Sends, Lsn
<1>8. Prefixed'
  BY <1>0, <1>1, <1>6 DEF Prefixed, Up
<1>9. Known'
  BY <1>6, KnownUp, PTL
<1>10. Elects'
  BY <1>0, <1>1 DEF Elects
<1> QED BY <1>7, <1>8, <1>9, <1>10

\* Every step of a client keeps the logs in agreement.
LEMMA AgreeClient ==
    ASSUME FewFaults, TypeInv, TypeInv', AwakeInv, AwakeInv', Onward, Serves,
           Sends, Prefixed, Known, Elects, NEW r \in Requests, Client(r)
    PROVE  (Sends /\ Prefixed /\ Known /\ Elects)'
<1>1. CASE handle_lookup(r) \/ LookupAnswer(r) \/ CheckRole(r)
  BY <1>1, AgreeRead
<1>2. CASE replicated_put(r)
  <2> DEFINE no == FALSE
  <2>1. req[r].pc = "queued" /\ ~Locked(req[r].node) /\ Writes(r, req[r].node, no)
    BY <1>2, PutFacts
  <2>2. no \in BOOLEAN /\ UNCHANGED <<head, job>>
    BY <1>2 DEF replicated_put
  <2> HIDE DEF no
  <2>3. \A s \in Requests : req[s].pc # "send"
    BY <2>1, SendFacts DEF Locked
  <2> QED BY <2>1, <2>2, <2>3, AgreeWrite
<1>3. CASE Conclude(r)
  <2>0. req[r].pc = "send" /\ UNCHANGED <<head, job, view, hb>>
    BY <1>3, ConcludeFacts DEF Conclude
  <2> DEFINE yes == TRUE
  <2>1. CASE Writes(r, req[r].node, yes)
    <3>1. yes \in BOOLEAN
      OBVIOUS
    <3>2. \A s \in Requests \ {r} : req[s].pc # "send"
      BY <2>0 DEF Sends
    <3> HIDE DEF yes
    <3> QED BY <2>0, <2>1, <3>1, <3>2, AgreeWrite
  <2>2. CASE Only(r) /\ proc' = proc /\ req'[r].pc = "done"
    <3>1. Sends' /\ Prefixed'
      BY <2>0, <2>2, PrefixKeep DEF SameLogs, Only
    <3>2. Elects'
      BY <2>0, <2>2, ElectKeep DEF SameLogs
    <3>3. Known'
      BY <2>0, <2>2, JobKnown DEF SameLogs, Moving
    <3> QED BY <3>1, <3>2, <3>3
  <2> QED BY <1>3, <2>1, <2>2, ConcludeFacts
<1>4. ASSUME NEW f \in Nodes, forward_to_replica(r, f) PROVE (Sends /\ Prefixed /\ Known /\ Elects)'
  BY <1>4, AgreeForward
<1>5. CASE UseAfterFree(r)
  <2>1. UNCHANGED <<view, head, hb, job>>
    BY <1>5 DEF UseAfterFree
  <2>2. req[r].node \in Nodes /\ Ends(req[r].node)
    BY <1>5, FreeFacts
  <2> QED BY <2>1, <2>2, AgreeEnds
<1> QED BY <1>1, <1>2, <1>3, <1>4, <1>5 DEF Client, Serve

\* Every step does.
LEMMA AgreeNext ==
    ASSUME FewFaults, TypeInv, AwakeInv, StartInv, ServeInv, AgreeInv, [Next]_vars
    PROVE  AgreeInv'
<1> SUFFICES ASSUME Ready' PROVE (Sends /\ Prefixed /\ Known /\ Elects)'
  BY DEF AgreeInv
<1>1. TypeInv' /\ Onward /\ AwakeInv'
  BY NextTypes, NextOnward, AwakeNext
<1>2. CASE ~Ready
  BY <1>2, AgreeStart
<1>3. CASE Ready
  <2>1. Serves /\ Sends /\ Prefixed /\ Known /\ Elects
    BY <1>3 DEF ServeInv, AgreeInv
  <2>2. CASE UNCHANGED vars
    <3>1. UNCHANGED <<proc, view, head, hb, job, req, lost>>
      BY <2>2 DEF vars
    <3>2. Sends' /\ Prefixed'
      BY <1>1, <2>1, <3>1, PrefixKeep DEF SameLogs
    <3>3. Elects'
      BY <1>1, <2>1, <3>1, ElectKeep DEF SameLogs
    <3>4. Known'
      BY <1>1, <2>1, <3>1, JobKnown DEF SameLogs, Moving
    <3> QED BY <3>2, <3>3, <3>4
  <2>3. CASE Snapshot
    BY <1>1, <2>1, <2>3, AgreeSnapshot
  <2>4. ASSUME NEW n \in Nodes, Ping(n) PROVE (Sends /\ Prefixed /\ Known /\ Elects)'
    BY <1>1, <2>1, <2>4, AgreePing
  <2>5. ASSUME NEW d \in Nodes, handle_node_failure(d) PROVE (Sends /\ Prefixed /\ Known /\ Elects)'
    BY <1>1, <2>1, <2>5, AgreeFailure
  <2>6. CASE JobStep("hb")
    BY <1>1, <2>1, <2>6, AgreeProbe, AgreeChoose, AgreePromote, AgreeDemote, AgreeAdd, AgreeCommit
       DEF JobStep
  <2>7. ASSUME NEW r \in Requests, Client(r) PROVE (Sends /\ Prefixed /\ Known /\ Elects)'
    BY <1>1, <2>1, <2>7, AgreeClient
  <2>8. ASSUME NEW n \in Nodes, Crash(n) PROVE (Sends /\ Prefixed /\ Known /\ Elects)'
    <3>1. UNCHANGED <<view, head, hb, job>> /\ Ends(n)
      BY <2>8, CrashFacts DEF Crash
    <3> QED BY <1>1, <2>1, <3>1, AgreeEnds
  <2> QED BY <1>3, <2>2, <2>3, <2>4, <2>5, <2>6, <2>7, <2>8, ReadySteps
<1> QED BY <1>2, <1>3

\* READY is not answered with OK at the start.
LEMMA AgreeInit == Init => AgreeInv
BY BoundAssumption DEF Init, AgreeInv, Ready

-----------------------------------------------------------------------------
(* The replicas of a primary, those that are down included, follow it. *)

Follows(p) == \A f \in proc[p].reps : IsPrefix(proc[f].log, proc[p].log)

Lists ==
    /\ Follows(head)
    /\ job["hb"].pc = "add" => IsPrefix(proc[job["hb"].cur].log, proc[job["hb"].prim].log)
    /\ Moving => Follows(job["hb"].prim)

ListInv == Ready => Lists

\* The logs stay, and no list grows.
LEMMA ListKeep ==
    ASSUME TypeInv, TypeInv', Serves, Lists, SameLogs, head' = head,
           \A n \in Nodes : proc'[n].reps \subseteq proc[n].reps,
           job'["hb"] = job["hb"] \/ job'["hb"].pc \notin {"add", "sync"}
    PROVE  Lists'
<1>1. head \in Nodes /\ \A n \in Nodes : proc[n].reps \subseteq Nodes
  BY TypeParts DEF ProcType
<1>2. \A n \in Nodes : Follows(n) => Follows(n)'
  BY <1>1 DEF Follows, SameLogs
<1>3. CASE job'["hb"].pc \notin {"add", "sync"}
  BY <1>1, <1>2, <1>3 DEF Lists, Moving, Follows
<1>4. CASE job'["hb"] = job["hb"] /\ job["hb"].pc \in {"add", "sync"}
  <2>1. JobGood(job["hb"]) /\ job["hb"] \in JobType
    BY HbJobKinds
  <2>2. job["hb"].prim \in Nodes /\ (job["hb"].pc = "add" => job["hb"].cur \in Nodes)
    BY <1>4, <2>1 DEF JobGood, JobType
  <2>3. Follows(job["hb"].prim) => Follows(job["hb"].prim)'
    BY <1>1, <1>4, <2>2 DEF Follows, SameLogs
  <2> QED BY <1>1, <1>2, <1>4, <2>2, <2>3 DEF Lists, Moving, SameLogs, Follows
<1> QED BY <1>3, <1>4

\* READY: the replicas of the primary have prefixes of its log.
LEMMA ListStart ==
    ASSUME FewFaults, TypeInv, AwakeInv, StartInv, ~Ready, Ready', [Next]_vars
    PROVE  Lists'
<1>1. /\ Quiet /\ TypeInv' /\ UNCHANGED <<proc, req>> /\ job'["hb"] = NoJob
      /\ head' \in Nodes
  BY ServeStart
<1>2. Prefixed' /\ \A n \in Nodes : Up(n)'
  BY <1>1, AgreeStart DEF Quiet, Up
<1>3. proc[head'].reps \subseteq Nodes
  BY <1>1, TypeParts DEF ProcType
<1>4. Follows(head)'
  BY <1>1, <1>2, <1>3 DEF Follows, Prefixed
<1> QED BY <1>1, <1>4, NoJobType DEF Lists, Moving

\* A node that is promoted has no replicas.
LEMMA ListPromote ==
    ASSUME TypeInv, TypeInv', Serves, Lists, promote_node("hb")
    PROVE  Lists'
<1> DEFINE j == job["hb"]
           k == job'["hb"]
<1>1. head' = head /\ "hb" \in Threads /\ head \in Nodes
  BY TypeParts DEF promote_node, Threads
<1>2. j.pc = "promote" /\ j.prim \in Nodes /\ Promotes(j, k) /\ j.kind \in {"none", "rebuild", "elect"}
  BY <1>1, PromoteFacts, HbJobKinds
<1>3. SameLogs /\ \A n \in Nodes : proc'[n].reps \subseteq proc[n].reps
  BY <1>2 DEF SameLogs, Promotes, Promoted, Touches
<1>4. \A n \in Nodes : proc[n].reps \subseteq Nodes
  BY TypeParts DEF ProcType
<1>5. Follows(head)'
  BY <1>1, <1>3, <1>4 DEF Lists, Follows, SameLogs
<1>6. k.pc # "add"
  BY <1>2, NoJobType DEF Promotes, TurnsTo
<1>7. Moving' => Follows(job["hb"].prim)'
  <2> SUFFICES ASSUME k.kind = "elect", k.pc = "sync" PROVE Follows(job["hb"].prim)'
    BY <1>6 DEF Moving
  <2>1. proc'[k.prim].reps = {}
    BY <1>2, NoJobType DEF Promotes, Promoted, TurnsTo, Kept
  <2> QED BY <2>1 DEF Follows
<1> QED BY <1>5, <1>6, <1>7 DEF Lists

\* A replica is demoted with the log of its primary.
LEMMA ListDemote ==
    ASSUME TypeInv, TypeInv', Serves, Prefixed, Elects, Lists, NEW f \in Nodes,
           demote_and_sync_node("hb", f)
    PROVE  Lists'
<1> DEFINE j == job["hb"]
           k == job'["hb"]
           p == j.prim
<1>1. head' = head /\ "hb" \in Threads /\ head \in Nodes
  BY TypeParts DEF demote_and_sync_node, Threads
<1>2. /\ j.pc = "sync" /\ p \in Nodes /\ f # p /\ Demotes(j, k, f)
      /\ j.kind \in {"rebuild", "elect"}
  BY <1>1, DemoteFacts, HbJobKinds
<1>3. /\ k = NoJob \/ (k.kind = j.kind /\ k.prim = p)
      /\ k.pc = "add" => k.cur = f /\ Up(f)
  BY <1>2, NoJobType DEF Demotes, Skips, TurnsTo, Kept, Reached, Up
<1>4. /\ IsPrefix(proc[p].log, proc[head].log)
      /\ Up(f) => IsPrefix(proc[f].log, proc[p].log)
      /\ \A n \in Nodes \ {f} : proc'[n] = proc[n]
      /\ \A n \in Nodes : proc'[n].up = proc[n].up
      /\ proc'[f].log = proc[f].log \/ (Up(f) /\ Up(p) /\ proc'[f].log = proc[p].log)
      /\ proc'[f].reps \in {proc[f].reps, {}}
      /\ proc'[head].log = proc[head].log /\ proc'[p].log = proc[p].log
  BY DemoteLogs
<1>5. IsPrefix(proc[p].log, proc[p].log)
  BY <1>2, LogFacts, PrefixOrder
<1>6. \A n \in Nodes : proc[n].reps \subseteq Nodes /\ (~proc[n].up => proc[n].reps = {})
  BY TypeParts DEF ProcType, ProcInv
<1>7. Follows(p) => \A n \in proc'[p].reps : IsPrefix(proc'[n].log, proc'[p].log)
  BY <1>2, <1>4, <1>5, <1>6 DEF Follows
<1>8. Follows(head)'
  <2>1. CASE j.kind = "rebuild"
    <3>1. p = head
      BY <2>1 DEF Serves
    <3> QED BY <1>1, <1>7, <3>1 DEF Lists, Follows
  <2>2. CASE j.kind = "elect"
    <3>1. proc[head].reps = {}
      BY <1>1, <1>6, <2>2 DEF Serves, Up
    <3>2. proc'[head].reps = {}
      BY <1>1, <1>4, <3>1
    <3> QED BY <1>1, <3>2 DEF Follows
  <2> QED BY <1>2, <2>1, <2>2
<1>9. k.pc = "add" => IsPrefix(proc'[k.cur].log, proc'[k.prim].log)
  BY <1>3, <1>4, <1>5, NoJobType
<1>10. Moving' => Follows(job["hb"].prim)'
  <2> SUFFICES ASSUME k.kind = "elect" PROVE Follows(job["hb"].prim)'
    BY DEF Moving
  <2>1. j.kind = "elect" /\ k.prim = p
    BY <1>3, NoJobType
  <2>2. Follows(p)
    BY <1>2, <2>1 DEF Lists, Moving
  <2> QED BY <1>7, <2>1, <2>2 DEF Follows
<1> QED BY <1>8, <1>9, <1>10 DEF Lists

\* The follower just synced joins the list.
LEMMA ListAdd ==
    ASSUME TypeInv, TypeInv', Serves, Lists, add_replica_to_primary("hb")
    PROVE  Lists'
<1> DEFINE j == job["hb"]
           k == job'["hb"]
           p == j.prim
<1>1. head' = head /\ "hb" \in Threads /\ head \in Nodes
  BY TypeParts DEF add_replica_to_primary, Threads
<1>2. /\ j.pc = "add" /\ p \in Nodes /\ j.cur \in Nodes /\ Adds(j, k) /\ j.kind \in {"rebuild", "elect"}
  BY <1>1, AddFacts, HbJobKinds
<1>3. k = NoJob \/ (k.kind = j.kind /\ k.pc = "sync" /\ k.prim = p)
  BY <1>2 DEF Adds, Skips, TurnsTo, Kept
<1>4. SameLogs /\ proc'[p].reps \subseteq proc[p].reps \cup {j.cur}
      /\ (proc' # proc => Up(p) /\ \A n \in Nodes \ {p} : proc'[n] = proc[n])
  BY <1>2 DEF Adds, Added, Touches, SameLogs, Up
<1>5. \A n \in Nodes : proc[n].reps \subseteq Nodes
  BY TypeParts DEF ProcType
<1>6. Follows(p) => \A n \in proc'[p].reps : IsPrefix(proc'[n].log, proc'[p].log)
  BY <1>2, <1>4, <1>5 DEF Follows, SameLogs, Lists
<1>7. Follows(head)'
  <2>1. CASE p = head
    BY <1>1, <1>6, <2>1 DEF Lists, Follows
  <2>2. CASE p # head
    BY <1>1, <1>4, <1>5, <2>2 DEF Lists, Follows, SameLogs
  <2> QED BY <2>1, <2>2
<1>8. k.pc # "add"
  BY <1>3, NoJobType
<1>9. Moving' => Follows(job["hb"].prim)'
  <2> SUFFICES ASSUME k.kind = "elect" PROVE Follows(job["hb"].prim)'
    BY DEF Moving
  <2>1. j.kind = "elect" /\ k.prim = p
    BY <1>3, NoJobType
  <2>2. Follows(p)
    BY <1>2, <2>1 DEF Lists, Moving
  <2> QED BY <1>6, <2>1, <2>2 DEF Follows
<1> QED BY <1>7, <1>8, <1>9 DEF Lists

\* Every step of the heartbeat thread's job keeps the lists right.
LEMMA ListHb ==
    ASSUME FewFaults, TypeInv, TypeInv', Serves, Prefixed, Elects, Lists, JobStep("hb")
    PROVE  Lists'
<1> DEFINE j == job["hb"]
           k == job'["hb"]
<1>0. "hb" \in Threads /\ NoJob.pc = "" /\ j.kind \in {"none", "rebuild", "elect"}
  BY NoJobType, HbJobKinds DEF Threads
<1>1. ASSUME NEW c \in Nodes, NEW n \in Nodes, Probe("hb", c, n) PROVE Lists'
  <2>1. UNCHANGED <<proc, head>>
    BY <1>1 DEF Probe
  <2>2. Probes("hb", c, n)
    BY <1>0, <1>1, ProbeFacts
  <2>3. k.pc \notin {"add", "sync"}
    BY <1>0, <2>2 DEF Probes, Answered, Unanswered
  <2> QED BY <2>1, <2>3, ListKeep DEF SameLogs
<1>2. CASE Choose("hb")
  <2>1. UNCHANGED <<proc, head>>
    BY <1>2 DEF Choose
  <2>2. Chosen(j, k)
    BY <1>0, <1>2, ChooseFacts
  <2>3. k.pc \notin {"add", "sync"}
    BY <1>0, <2>2 DEF Chosen, GoneOn
  <2> QED BY <2>1, <2>3, ListKeep DEF SameLogs
<1>3. CASE Commit("hb")
  <2>1. proc' = proc
    BY <1>3 DEF Commit
  <2>2. Commits(j) /\ k = NoJob /\ j.pc = "sync"
    BY <1>0, <1>3, CommitFacts
  <2>3. k.pc \notin {"add", "sync"} /\ ~Moving'
    BY <1>0, <2>2 DEF Moving
  <2>4. Follows(head)'
    <3>1. CASE j.kind = "elect"
      <4>1. head' = j.prim /\ Follows(j.prim)
        BY <2>2, <3>1 DEF Commits, Lists, Moving
      <4> QED BY <2>1, <4>1 DEF Follows
    <3>2. CASE j.kind # "elect"
      <4>1. head' = head
        BY <1>0, <2>2, <3>2 DEF Commits
      <4> QED BY <2>1, <4>1 DEF Follows, Lists
    <3> QED BY <3>1, <3>2
  <2> QED BY <2>3, <2>4 DEF Lists
<1> QED BY <1>1, <1>2, <1>3, ListPromote, ListDemote, ListAdd DEF JobStep

\* Node f follows the primary from now on, or nothing happens to it.
LEMMA ListWrite ==
    ASSUME TypeInv, TypeInv', Serves, Lists, head' = head, job' = job, Up(head),
           proc'[head].reps = proc[head].reps,
           \A n \in Nodes \ {head} : IsPrefix(proc[n].log, proc[head].log)
                                     => IsPrefix(proc'[n].log, proc'[head].log)
    PROVE  Lists'
<1>1. head \in Nodes /\ head \notin proc[head].reps /\ proc[head].reps \subseteq Nodes
  BY TypeParts DEF ProcType, ProcInv
<1>2. Follows(head)'
  BY <1>1 DEF Lists, Follows
<1>3. ~Moving
  BY DEF Moving, Serves
<1>4. ASSUME job["hb"].pc = "add" PROVE IsPrefix(proc'[job["hb"].cur].log, proc'[job["hb"].prim].log)
  <2>1. JobGood(job["hb"]) /\ job["hb"] \in JobType /\ job["hb"].kind \in {"none", "rebuild", "elect"}
        /\ (job["hb"].kind = "none" <=> job["hb"] = NoJob)
    BY HbJobKinds
  <2>2. job["hb"].kind = "rebuild"
    BY <1>4, <2>1, NoJobType DEF Serves
  <2>3. job["hb"].prim = head /\ job["hb"].cur \in Nodes \ {head}
    BY <1>4, <2>1, <2>2 DEF Serves, JobGood, JobType
  <2> QED BY <1>4, <2>3 DEF Lists
<1> QED BY <1>2, <1>3, <1>4 DEF Lists, Moving

\* So does every step of a client.
LEMMA ListClient ==
    ASSUME FewFaults, TypeInv, TypeInv', Serves, Sends, Prefixed, Elects, Lists,
           NEW r \in Requests, Client(r)
    PROVE  Lists'
<1>0. Client(r) => UNCHANGED <<head, job>>
  BY DEF Client, Serve, handle_lookup, LookupAnswer, CheckRole, replicated_put, Conclude,
         forward_to_replica, UseAfterFree
<1>1. head' = head /\ job' = job
  BY <1>0
<1>2. ASSUME proc' = proc PROVE Lists'
  BY <1>1, <1>2, ListKeep DEF SameLogs
<1>3. ASSUME req[r].pc \in {"queued", "send"}, NEW u \in BOOLEAN, Writes(r, req[r].node, u)
      PROVE  Lists'
  <2>1. req[r].node = head /\ head \in Nodes /\ Up(head)
    BY <1>3, SendFacts
  <2> DEFINE e == [op |-> r, undo |-> u]
  <2>2. e \in Entry
    BY DEF Entry
  <2>3. /\ proc'[head].log = Append(proc[head].log, e) /\ proc'[head].reps = proc[head].reps
        /\ \A n \in Nodes \ {head} : proc'[n] = proc[n]
    BY <1>3, <2>1 DEF Writes, Touches
  <2> HIDE DEF e
  <2>4. ASSUME NEW n \in Nodes \ {head}, IsPrefix(proc[n].log, proc[head].log)
        PROVE  IsPrefix(proc'[n].log, proc'[head].log)
    <3>1. proc[n].log \in Seq(Entry) /\ proc[head].log \in Seq(Entry)
      BY <2>1, LogFacts
    <3>2. IsPrefix(proc[n].log, Append(proc[head].log, e))
      BY <2>2, <2>4, <3>1, PrefixAppend
    <3> QED BY <2>3, <3>2
  <2> QED BY <1>1, <2>1, <2>3, <2>4, ListWrite
<1>4. CASE handle_lookup(r) \/ LookupAnswer(r) \/ CheckRole(r)
  BY <1>2, <1>4 DEF handle_lookup, LookupAnswer, CheckRole
<1>5. CASE replicated_put(r)
  <2> DEFINE no == FALSE
  <2>1. req[r].pc = "queued" /\ Writes(r, req[r].node, no) /\ no \in BOOLEAN
    BY <1>5, PutFacts
  <2> HIDE DEF no
  <2> QED BY <1>3, <2>1
<1>6. CASE Conclude(r)
  <2> DEFINE yes == TRUE
  <2>1. req[r].pc = "send" /\ (proc' = proc \/ Writes(r, req[r].node, yes)) /\ yes \in BOOLEAN
    BY <1>6, ConcludeFacts
  <2> HIDE DEF yes
  <2> QED BY <1>2, <1>3, <2>1
<1>7. ASSUME NEW f \in Nodes, forward_to_replica(r, f) PROVE Lists'
  <2>1. /\ head \in Nodes /\ Up(head) /\ f # head
        /\ proc'[f].log = proc[f].log \/ (Up(f) /\ IsPrefix(proc'[f].log, proc[head].log))
        /\ \A n \in Nodes \ {f} : proc'[n] = proc[n]
    BY <1>7, ForwardLogs
  <2>2. proc'[head] = proc[head]
    BY <2>1
  <2>3. \A n \in Nodes \ {head} : IsPrefix(proc[n].log, proc[head].log)
                                     => IsPrefix(proc'[n].log, proc'[head].log)
    BY <2>1, <2>2
  <2> QED BY <1>1, <2>1, <2>2, <2>3, ListWrite
<1>8. CASE UseAfterFree(r)
  <2>1. PICK n \in Nodes : Ends(n)
    BY <1>8, FreeFacts
  <2>2. SameLogs /\ \A m \in Nodes : proc'[m].reps \subseteq proc[m].reps
    BY <2>1 DEF Ends, SameLogs
  <2> QED BY <1>1, <2>2, ListKeep
<1> QED BY <1>4, <1>5, <1>6, <1>7, <1>8 DEF Client, Serve

\* Every step keeps the lists right.
LEMMA ListNext ==
    ASSUME FewFaults, TypeInv, AwakeInv, StartInv, ServeInv, AgreeInv, ListInv, [Next]_vars
    PROVE  ListInv'
<1> SUFFICES ASSUME Ready' PROVE Lists'
  BY DEF ListInv
<1>1. TypeInv'
  BY NextTypes
<1>2. CASE ~Ready
  BY <1>2, ListStart
<1>3. CASE Ready
  <2>1. Serves /\ Sends /\ Prefixed /\ Elects /\ Lists
    BY <1>3 DEF ServeInv, AgreeInv, ListInv
  <2>2. CASE UNCHANGED vars \/ Snapshot \/ \E n \in Nodes : Ping(n)
    <3>1. UNCHANGED <<proc, head, job>>
      BY <2>2 DEF vars, Snapshot, Ping
    <3> QED BY <1>1, <2>1, <3>1, ListKeep DEF SameLogs
  <2>3. ASSUME NEW d \in Nodes, handle_node_failure(d) PROVE Lists'
    <3>1. UNCHANGED <<proc, head>>
      BY <2>3 DEF handle_node_failure
    <3>2. job'["hb"].pc \notin {"add", "sync"}
      BY <2>3, FailureFacts, NoJobType
    <3> QED BY <1>1, <2>1, <3>1, <3>2, ListKeep DEF SameLogs
  <2>4. ASSUME NEW n \in Nodes, Crash(n) PROVE Lists'
    <3>1. UNCHANGED <<head, job>> /\ Ends(n)
      BY <2>4, CrashFacts DEF Crash
    <3>2. SameLogs /\ \A m \in Nodes : proc'[m].reps \subseteq proc[m].reps
      BY <3>1 DEF Ends, SameLogs
    <3> QED BY <1>1, <2>1, <3>1, <3>2, ListKeep
  <2> QED BY <1>1, <1>3, <2>1, <2>2, <2>3, <2>4, ReadySteps, ListHb, ListClient
<1> QED BY <1>2, <1>3

\* READY is not answered with OK at the start.
LEMMA ListInit == Init => ListInv
BY BoundAssumption DEF Init, ListInv, Ready

\* With few faults, the replicas of the node that serves the tablet have applied
\* the first operations of those it has applied, in the same order, whichever
\* node handle_node_failure has made the primary: the LSNs that elections and
\* LOOKUP compare stand for the same operations on every node.
THEOREM CoordinatorReplicasAgree == FewFaults => (Spec => []ReplicasAgree)
<1> SUFFICES ASSUME FewFaults PROVE Spec => []ReplicasAgree
  OBVIOUS
<1> DEFINE Inv == TypeInv /\ AwakeInv /\ StartInv /\ ServeInv /\ AgreeInv /\ ListInv
<1>1. Init => Inv
  BY InitTypes, StartInit, ServeInit, AgreeInit, ListInit
<1>2. Inv /\ [Next]_vars => Inv'
  BY NextTypes, AwakeNext, StartNext, ServeNext, AgreeNext, ListNext
<1>3. Inv => ReplicasAgree
  <2> SUFFICES ASSUME TypeInv, StartInv, ListInv, Serving,
                      NEW f \in proc[head].reps
               PROVE  IsPrefix(proc[f].log, proc[head].log)
    BY DEF ReplicasAgree
  <2>1. CASE Ready
    BY <2>1 DEF ListInv, Lists, Follows
  <2>2. CASE ~Ready
    <3>1. Quiet /\ Longest(First) /\ head = First /\ f \in Nodes /\ head \in Nodes
      BY <2>2, TypeParts DEF StartInv, Configuring, Serving, Quiet, ProcType
    <3>2. Lsn(f) <= Lsn(head)
      BY <3>1 DEF Longest, Quiet
    <3> QED BY <3>1, <3>2, QuietLogs
  <2> QED BY <2>1, <2>2
<1> HIDE DEF Inv
<1> QED BY <1>1, <1>2, <1>3, PTL DEF Spec

-----------------------------------------------------------------------------
(* Until a node is killed, every node is a replica of the primary. *)

\* A round of the first configuration without a failed call: each node is in the
\* list of the primary or still to be added.
Listing ==
    LET j == job["setup"]
    IN  /\ j.pc = "promote" => Nodes \ {j.prim} \subseteq j.todo
        /\ j.pc \in {"sync", "add"} /\ j.ok => Nodes \ {j.prim} \subseteq proc[j.prim].reps \cup j.todo

Full == crashes = 0 => /\ \A n \in Nodes : Up(n)
                       /\ job["hb"] = NoJob /\ proc[head].reps = Nodes \ {head}

FullInv == (~Ready => Listing) /\ (Ready => Full)

\* A step of the set-up thread forgets no node, unless a call is lost.
LEMMA ListingStep ==
    ASSUME FewFaults, TypeInv, TypeInv', StartInv, ~Ready, Listing, JobStep("setup")
    PROVE  Listing'
<1> DEFINE j == job["setup"]
           k == job'["setup"]
<1>0. "setup" \in Threads /\ NoJob.pc = "" /\ Quiet /\ Configuring
  BY NoJobType DEF Threads, StartInv
<1>1. ASSUME NEW c \in Nodes, NEW n \in Nodes, Probe("setup", c, n) PROVE Listing'
  <2>1. Probes("setup", c, n)
    BY <1>0, <1>1, ProbeFacts
  <2>2. k.pc \in {"", "probe"}
    BY <1>0, <2>1 DEF Probes, Answered, Unanswered
  <2> QED BY <2>2 DEF Listing
<1>2. CASE Choose("setup")
  <2>1. Chosen(j, k) /\ j # NoJob
    BY <1>0, <1>2, ChooseFacts
  <2>2. j.kind = "setup" /\ j.cands = Nodes
    BY <1>0, <2>1, SetupJob DEF Configuring
  <2>3. k = NoJob \/ (k.pc = "promote" /\ k.todo = Nodes \ {k.prim})
    BY <2>1, <2>2 DEF Chosen, GoneOn
  <2> QED BY <1>0, <2>3 DEF Listing
<1>3. CASE promote_node("setup")
  <2>1. Promotes(j, k) /\ j # NoJob /\ j.pc = "promote" /\ j.prim \in Nodes
    BY <1>0, <1>3, PromoteFacts
  <2>2. j.kind = "setup"
    BY <1>0, <2>1, SetupJob
  <2>3. k.pc = "sync" /\ k.prim = j.prim /\ k.todo = j.todo
    BY <2>1, <2>2 DEF Promotes, TurnsTo
  <2> QED BY <2>1, <2>3 DEF Listing
<1>4. ASSUME NEW f \in Nodes, demote_and_sync_node("setup", f) PROVE Listing'
  <2>1. /\ Demotes(j, k, f) /\ j # NoJob /\ j.pc = "sync" /\ j.prim \in Nodes /\ f # j.prim
        /\ j.kind = "setup"
    BY <1>0, <1>4, DemoteFacts, SetupJob
  <2>2. proc'[j.prim] = proc[j.prim]
    BY <2>1 DEF Demotes, Demoted, Touches
  <2>3. k.prim = j.prim /\ k.pc \in {"sync", "add"} /\ (k.ok => j.ok /\ k.todo = j.todo)
    BY <2>1 DEF Demotes, Skips, TurnsTo
  <2> QED BY <2>1, <2>2, <2>3 DEF Listing
<1>5. CASE add_replica_to_primary("setup")
  <2>1. /\ Adds(j, k) /\ j # NoJob /\ j.pc = "add" /\ j.prim \in Nodes /\ j.kind = "setup"
    BY <1>0, <1>5, AddFacts, SetupJob
  <2>2. k.prim = j.prim /\ k.pc = "sync"
    BY <2>1 DEF Adds, Skips, TurnsTo
  <2>3. k.ok => /\ j.ok /\ k.todo = j.todo \ {j.cur}
                /\ proc'[j.prim].reps = proc[j.prim].reps \cup {j.cur}
    BY <2>1 DEF Adds, Skips, TurnsTo, Added
  <2> QED BY <2>1, <2>2, <2>3 DEF Listing
<1>6. CASE Commit("setup")
  <2>1. k = NoJob
    BY <1>0, <1>6, CommitFacts
  <2> QED BY <1>0, <2>1 DEF Listing
<1> QED BY <1>1, <1>2, <1>3, <1>4, <1>5, <1>6 DEF JobStep

\* Every step keeps all nodes replicas of the primary, until one is killed.
LEMMA FullNext ==
    ASSUME FewFaults, TypeInv, AwakeInv, StartInv, ServeInv, FullInv, [Next]_vars
    PROVE  FullInv'
<1>1. TypeInv'
  BY NextTypes
<1>2. CASE ~Ready
  <2>0. Quiet /\ Configuring /\ Listing /\ NoJob.pc = ""
    BY <1>2, NoJobType DEF StartInv, FullInv
  <2>1. Listing'
    <3>1. CASE JobStep("setup")
      BY <1>1, <1>2, <2>0, <3>1, ListingStep
    <3>2. CASE configure_initial_tablet_roles
      BY <3>2, ConfigureFacts DEF Listing
    <3>3. CASE UNCHANGED vars \/ Snapshot \/ \E n \in Nodes : Ping(n)
      <4>1. UNCHANGED <<proc, job>>
        BY <3>3 DEF vars, Snapshot, Ping
      <4> QED BY <2>0, <4>1 DEF Listing
    <3> QED BY <1>2, <2>0, <3>1, <3>2, <3>3, QuietSteps
  <2>2. ASSUME Ready' PROVE Full'
    <3> DEFINE j == job["setup"]
    <3>1. /\ Commit("setup") /\ proc' = proc /\ job'["hb"] = NoJob /\ head' = j.prim
          /\ head' \in Nodes
      BY <1>2, <2>2, ServeStart
    <3>2. "setup" \in Threads
      BY DEF Threads
    <3>3. j.pc = "sync" /\ j.todo = {} /\ Commits(j) /\ j # NoJob
      BY <3>1, <3>2, CommitFacts
    <3>4. j.kind = "setup"
      BY <1>2, <2>0, <3>3, SetupJob
    <3>5. j.ok
      <4>1. JobInv' /\ lost' = lost /\ lost \in 0..MaxLost /\ MaxLost < MaxRounds
        BY <1>1, <3>1, TypeParts DEF TypeInv, Commit, FewFaults
      <4>2. round' = MaxRounds
        BY <2>2 DEF Ready
      <4>3. ~j.ok => round' = round /\ lost >= round
        BY <2>0, <3>3, <3>4 DEF Commits, Configuring
      <4> QED BY <4>1, <4>2, <4>3, BoundAssumption
    <3>6. Nodes \ {head'} \subseteq proc[head'].reps
      BY <2>0, <3>1, <3>3, <3>5 DEF Listing
    <3>7. head' \notin proc[head'].reps /\ proc[head'].reps \subseteq Nodes
      BY <3>1, TypeParts DEF ProcInv, ProcType
    <3>8. \A n \in Nodes : Up(n)'
      BY <2>0, <3>1 DEF Quiet, Up
    <3> QED BY <3>1, <3>6, <3>7, <3>8 DEF Full
  <2> QED BY <2>1, <2>2 DEF FullInv
<1>3. CASE Ready
  <2>0. Ready' /\ Serves /\ Full
    BY <1>3, ReadyStays DEF ServeInv, FullInv
  <2>1. SUFFICES ASSUME crashes' = 0 PROVE Full'
    BY <2>0 DEF FullInv, Full
  <2>2. \A n \in Nodes : ~Ends(n)
    BY <2>1, TypeParts, BoundAssumption DEF Ends, ProcInv
  <2>3. \A n \in Nodes : ~Crash(n)
    BY <2>2, CrashFacts
  <2>4. ASSUME crashes = 0, UNCHANGED <<head, job>>,
               \A n \in Nodes : proc'[n].up = proc[n].up,
               proc'[head].reps = proc[head].reps
        PROVE  Full'
    BY <2>0, <2>4 DEF Full, Up
  <2>5. ASSUME NEW r \in Requests, Client(r) PROVE Full'
    <3>0. Client(r) /\ ~UseAfterFree(r) => UNCHANGED <<head, job, crashes>>
      BY DEF Client, Serve, handle_lookup, LookupAnswer, CheckRole, replicated_put, Conclude,
         forward_to_replica
    <3>1. ~UseAfterFree(r)
      BY <2>2, FreeFacts
    <3>2. crashes = 0 /\ UNCHANGED <<head, job>> /\ head \in Nodes
      BY <2>1, <2>5, <3>0, <3>1, TypeParts
    <3>3. CASE proc' = proc
      BY <2>4, <3>2, <3>3
    <3>4. ASSUME NEW n \in Nodes, NEW u, Writes(r, n, u) PROVE Full'
      <4>1. (\A m \in Nodes : proc'[m].up = proc[m].up) /\ proc'[head].reps = proc[head].reps
        BY <3>2, <3>4 DEF Writes, Touches
      <4> QED BY <2>4, <3>2, <4>1
    <3>5. CASE replicated_put(r)
      <4> DEFINE no == FALSE
      <4>1. req[r].node \in Nodes /\ Writes(r, req[r].node, no)
        BY <3>5, PutFacts
      <4> HIDE DEF no
      <4> QED BY <3>4, <4>1
    <3>6. CASE Conclude(r)
      <4> DEFINE yes == TRUE
      <4>1. req[r].pc = "send" /\ (proc' = proc \/ Writes(r, req[r].node, yes))
        BY <3>6, ConcludeFacts
      <4>2. req[r].node \in Nodes
        BY <4>1, TypeParts DEF ReqInv, ReqGood
      <4> HIDE DEF yes
      <4> QED BY <3>3, <3>4, <4>1, <4>2
    <3>7. ASSUME NEW f \in Nodes, forward_to_replica(r, f) PROVE Full'
      <4>1. Forwards(r, f) /\ head # f
        BY <2>0, <3>7, ForwardTypes DEF Serves
      <4>2. (\A m \in Nodes : proc'[m].up = proc[m].up) /\ proc'[head].reps = proc[head].reps
        BY <3>2, <4>1 DEF Forwards, Touches
      <4> QED BY <2>4, <3>2, <4>2
    <3>8. CASE handle_lookup(r) \/ LookupAnswer(r) \/ CheckRole(r)
      BY <3>3, <3>8 DEF handle_lookup, LookupAnswer, CheckRole
    <3> QED BY <2>5, <3>1, <3>5, <3>6, <3>7, <3>8 DEF Client, Serve
  <2>6. CASE UNCHANGED vars \/ Snapshot \/ \E n \in Nodes : Ping(n)
    <3>1. UNCHANGED <<proc, head, job, crashes>>
      BY <2>6 DEF vars, Snapshot, Ping
    <3> QED BY <2>1, <2>4, <3>1
  <2>7. ASSUME NEW d \in Nodes, handle_node_failure(d) PROVE Full'
    <3>1. d \in hb.dead /\ crashes = 0
      BY <2>1, <2>7, FailureFacts DEF handle_node_failure
    <3> QED BY <2>0, <3>1 DEF Full, AwakeInv
  <2>8. CASE JobStep("hb")
    <3>1. job["hb"] # NoJob /\ crashes = 0
      BY <2>0, <2>1, <2>8, HbSteps
    <3> QED BY <2>0, <3>1 DEF Full
  <2> QED BY <1>3, <2>3, <2>5, <2>6, <2>7, <2>8, ReadySteps
<1> QED BY <1>2, <1>3

\* READY is not answered with OK at the start, nor has a round begun.
LEMMA FullInit == Init => FullInv
<1> SUFFICES ASSUME Init PROVE FullInv
  OBVIOUS
<1>1. job["setup"] = NoJob /\ round = 0
  BY DEF Init, Threads
<1> QED BY <1>1, NoJobType, BoundAssumption DEF FullInv, Ready, Listing

-----------------------------------------------------------------------------
(* What a majority acknowledged stays on a node that runs. *)

\* At most two kills, of fewer than half of the nodes.  After a kill the list of the
\* primary is cleared and rebuilt, and while it holds one replica the acknowledgement
\* of that one is enough: a second and a third kill could take both copies.
FewKills == MaxCrash <= 2 /\ 2 * MaxCrash < Cardinality(Nodes)

Write(r) == [op |-> r, undo |-> FALSE]
Undoing(r) == [op |-> r, undo |-> TRUE]

\* The log of n has the entry e.
Has(n, e) == \E i \in 1..Len(proc[n].log) : proc[n].log[i] = e

\* The nodes that run and have the write r, but for those in L.
Holders(r, L) == {n \in Nodes \ L : Up(n) /\ Has(n, Write(r))}

\* An error has been, or will be, the answer to r.
Refused(q) == q.result # "ok" /\ (q.pc = "done" \/ (q.pc = "send" /\ q.undo))

\* A write answered OK is on more nodes than can still be killed; one that is being
\* sent will be, if enough of the replicas left acknowledge it.
Acks ==
    \A r \in Requests :
        /\ req[r].result = "ok" => Cardinality(Holders(r, {})) >= MaxCrash - crashes + 1
        /\ req[r].pc = "send" /\ ~req[r].undo =>
              Cardinality(Holders(r, req[r].left)) + req[r].need >= req[r].acked + MaxCrash - crashes + 1

\* Only a write that is answered with an error is undone.
Undone == \A n \in Nodes, r \in Requests : Up(n) /\ Has(n, Undoing(r)) => Refused(req[r])

AckInv == Ready => Acks /\ Undone

\* Sets of nodes are finite: their sizes.
LEMMA Sizes ==
    ASSUME NEW A, NEW B, A \subseteq Nodes, B \subseteq Nodes
    PROVE  /\ Cardinality(A) \in Nat /\ Cardinality(B) \in Nat
           /\ A \subseteq B => Cardinality(A) <= Cardinality(B)
           /\ \A x \in Nodes : A \ {x} \subseteq B => Cardinality(A) <= Cardinality(B) + 1
           /\ \A x \in Nodes \ A : A \cup {x} \subseteq B => Cardinality(A) + 1 <= Cardinality(B)
           /\ A = {} => Cardinality(A) = 0
<1>1. IsFiniteSet(A) /\ IsFiniteSet(B)
  BY NodeAssumption, FS_Subset
<1>2. Cardinality(A) \in Nat /\ Cardinality(B) \in Nat
  BY <1>1, FS_CardinalityType
<1>3. A \subseteq B => Cardinality(A) <= Cardinality(B)
  BY <1>1, FS_Subset
<1>4. ASSUME NEW x \in Nodes, A \ {x} \subseteq B PROVE Cardinality(A) <= Cardinality(B) + 1
  <2>1. Cardinality(A \ {x}) <= Cardinality(B)
    BY <1>1, <1>4, FS_Subset
  <2>2. Cardinality(A \ {x}) = IF x \in A THEN Cardinality(A) - 1 ELSE Cardinality(A)
    BY <1>1, FS_RemoveElement
  <2>3. Cardinality(A \ {x}) \in Int
    BY <1>2, <2>2
  <2> QED BY <1>2, <2>1, <2>2, <2>3
<1>5. ASSUME NEW x \in Nodes \ A, A \cup {x} \subseteq B PROVE Cardinality(A) + 1 <= Cardinality(B)
  <2>1. Cardinality(A \cup {x}) <= Cardinality(B)
    BY <1>1, <1>5, FS_Subset
  <2>2. Cardinality(A \cup {x}) = Cardinality(A) + 1
    BY <1>1, <1>5, FS_AddElement
  <2> QED BY <2>1, <2>2
<1>6. A = {} => Cardinality(A) = 0
  BY FS_EmptySet
<1> QED BY <1>2, <1>3, <1>4, <1>5, <1>6

\* A log has what a prefix of it has.
LEMMA HasPrefix ==
    ASSUME NEW s \in Seq(Entry), NEW t \in Seq(Entry), IsPrefix(s, t)
    PROVE  \A i \in 1..Len(s) : i \in 1..Len(t) /\ t[i] = s[i]
<1>1. Len(s) <= Len(t) /\ \A i \in 1..Len(s) : s[i] = t[i]
  BY PrefixFacts
<1>2. Len(s) \in Nat /\ Len(t) \in Nat
  OBVIOUS
<1> QED BY <1>1, <1>2

\* What a step makes of the logs: nodes that run only add what another one has.
Grows == \A n \in Nodes : Up(n)' => Up(n) /\ IsPrefix(proc[n].log, proc'[n].log)
Spreads ==
    /\ Grows
    /\ \A n \in Nodes : Up(n)' =>
          \E m \in Nodes : Up(m) /\ IsPrefix(proc'[n].log, proc[m].log)

\* No log changes.
LEMMA SpreadsSame ==
    ASSUME TypeInv, SameLogs, \A n \in Nodes : Up(n)' => Up(n)
    PROVE  Spreads
<1>1. \A n \in Nodes : IsPrefix(proc[n].log, proc[n].log)
  BY LogFacts, PrefixOrder
<1> QED BY <1>1 DEF Spreads, Grows, SameLogs

\* The holders go on to hold the write, but for a node that is killed.
LEMMA HoldersStay ==
    ASSUME TypeInv, TypeInv', Grows, NEW r \in Requests, NEW n \in Nodes, Up(n)',
           Has(n, Write(r))
    PROVE  Has(n, Write(r))'
<1>1. IsPrefix(proc[n].log, proc'[n].log) /\ proc[n].log \in Seq(Entry)
  BY LogFacts DEF Grows
<1>2. proc'[n].log \in Seq(Entry)
  BY DEF TypeInv, ProcInv, ProcType
<1>3. \E i \in 1..Len(proc'[n].log) : proc'[n].log[i] = Write(r)
  <2>1. \A i \in 1..Len(proc[n].log) : /\ i \in 1..Len(proc'[n].log)
                                        /\ proc'[n].log[i] = proc[n].log[i]
    BY <1>1, <1>2, HasPrefix
  <2> QED BY <2>1 DEF Has
<1> QED BY <1>3 DEF Has, Write

\* An undoing that a node has after the step another one had before it.
LEMMA UndoneStays ==
    ASSUME TypeInv, TypeInv', Spreads, Undone,
           \A r \in Requests : Refused(req[r]) => Refused(req'[r])
    PROVE  Undone'
<1> SUFFICES ASSUME NEW n \in Nodes, NEW r \in Requests, Up(n)', Has(n, Undoing(r))'
             PROVE  Refused(req'[r])
  BY DEF Undone, Refused
<1>1. PICK m \in Nodes : Up(m) /\ IsPrefix(proc'[n].log, proc[m].log)
  BY DEF Spreads
<1>2. proc'[n].log \in Seq(Entry) /\ proc[m].log \in Seq(Entry)
  BY LogFacts DEF TypeInv, ProcInv, ProcType
<1>3. \E i \in 1..Len(proc'[n].log) : proc'[n].log[i] = Undoing(r)
  BY DEF Has, Undoing
<1>4. Has(m, Undoing(r))
  <2>1. \A i \in 1..Len(proc'[n].log) : /\ i \in 1..Len(proc[m].log)
                                         /\ proc[m].log[i] = proc'[n].log[i]
    BY <1>1, <1>2, HasPrefix
  <2> QED BY <1>3, <2>1 DEF Has
<1> QED BY <1>1, <1>4 DEF Undone

\* A request is not answered OK, and its copies are not counted, in this step.
Waits(r) ==
    /\ req'[r].result = "ok" => req[r].result = "ok"
    /\ req'[r].pc = "send" => /\ req[r].pc = "send" /\ req'[r].undo = req[r].undo
                              /\ req'[r].left = req[r].left /\ req'[r].acked = req[r].acked
                              /\ req'[r].need = req[r].need
    /\ Refused(req[r]) => Refused(req'[r])

\* No node is killed.
LEMMA AckKeep ==
    ASSUME TypeInv, TypeInv', Acks, Grows, crashes' = crashes,
           \A n \in Nodes : Up(n) => Up(n)', NEW r \in Requests, Waits(r)
    PROVE  /\ req'[r].result = "ok" => Cardinality(Holders(r, {})') >= MaxCrash - crashes' + 1
           /\ req'[r].pc = "send" /\ ~req'[r].undo =>
                 Cardinality(Holders(r, req[r].left)') + req'[r].need >= req'[r].acked + MaxCrash - crashes' + 1
<1>a. crashes \in Nat /\ MaxCrash \in Nat
  BY TypeParts, BoundAssumption DEF ProcInv
<1>b. req[r].acked \in Nat /\ req[r].need \in Nat
  BY TypeParts DEF ReqType
<1>0. crashes \in Nat /\ MaxCrash \in Nat /\ req[r].acked \in Nat /\ req[r].need \in Nat
  BY <1>a, <1>b
<1>2. /\ Holders(r, {}) \subseteq Holders(r, {})'
      /\ Holders(r, {}) \subseteq Nodes /\ Holders(r, {})' \subseteq Nodes
  BY HoldersStay DEF Holders
<1>3. Cardinality(Holders(r, {})) <= Cardinality(Holders(r, {})')
      /\ Cardinality(Holders(r, {})) \in Nat /\ Cardinality(Holders(r, {})') \in Nat
  BY <1>2, Sizes
<1>4. ASSUME req'[r].pc = "send"
      PROVE  /\ Cardinality(Holders(r, req[r].left)) <= Cardinality(Holders(r, req[r].left)')
             /\ Cardinality(Holders(r, req[r].left)) \in Nat
             /\ Cardinality(Holders(r, req[r].left)') \in Nat
  <2>1. req'[r].left = req[r].left
    BY <1>4 DEF Waits
  <2>2. /\ Holders(r, req[r].left) \subseteq Holders(r, req[r].left)'
        /\ Holders(r, req[r].left) \subseteq Nodes /\ Holders(r, req[r].left)' \subseteq Nodes
    BY <2>1, HoldersStay DEF Holders
  <2> QED BY <2>2, Sizes
<1>5. req'[r].result = "ok" => Cardinality(Holders(r, {})') >= MaxCrash - crashes' + 1
  <2>1. req'[r].result = "ok" => Cardinality(Holders(r, {})) >= MaxCrash - crashes + 1
    BY DEF Acks, Waits
  <2> QED BY <1>0, <1>3, <2>1
<1>6. ASSUME req'[r].pc = "send", ~req'[r].undo
      PROVE  Cardinality(Holders(r, req[r].left)') + req'[r].need >= req'[r].acked + MaxCrash - crashes' + 1
  <2>1. /\ Cardinality(Holders(r, req[r].left)) + req[r].need >= req[r].acked + MaxCrash - crashes + 1
        /\ req'[r].need = req[r].need /\ req'[r].acked = req[r].acked
    BY <1>6 DEF Acks, Waits
  <2> QED BY <1>0, <1>4, <1>6, <2>1
<1> QED BY <1>5, <1>6

\* One node is killed: at most one copy is gone, and one kill less is to come.
LEMMA AckEnds ==
    ASSUME TypeInv, TypeInv', Acks, Undone, NEW d \in Nodes, Ends(d)
    PROVE  Acks' /\ Undone'
<1>1. SameLogs /\ (\A n \in Nodes : Up(n)' => Up(n)) /\ (\A n \in Nodes \ {d} : Up(n) => Up(n)')
  BY DEF Ends, SameLogs, Up
<1>2. Spreads /\ Grows
  BY <1>1, SpreadsSame DEF Spreads
<1>3. \A r \in Requests : Waits(r)
  BY DEF Ends, Waits, Refused
<1>4. Undone'
  BY <1>2, <1>3, UndoneStays DEF Waits
<1>5. crashes \in Nat /\ MaxCrash \in Nat /\ crashes' = crashes + 1
  BY TypeParts, BoundAssumption DEF Ends, ProcInv
<1>6. ASSUME NEW r \in Requests, req'[r].result = "ok"
      PROVE  Cardinality(Holders(r, {})') >= MaxCrash - crashes' + 1
  <2>1. Cardinality(Holders(r, {})) >= MaxCrash - crashes + 1
    BY <1>3, <1>6 DEF Acks, Waits
  <2>2. /\ Holders(r, {}) \ {d} \subseteq Holders(r, {})'
        /\ Holders(r, {}) \subseteq Nodes /\ Holders(r, {})' \subseteq Nodes
    BY <1>1, <1>2, HoldersStay DEF Holders
  <2>3. Cardinality(Holders(r, {})) <= Cardinality(Holders(r, {})') + 1
        /\ Cardinality(Holders(r, {})) \in Nat /\ Cardinality(Holders(r, {})') \in Nat
    BY <2>2, Sizes
  <2> QED BY <1>5, <2>1, <2>3
<1>7. ASSUME NEW r \in Requests, req'[r].pc = "send", ~req'[r].undo
      PROVE  Cardinality(Holders(r, req[r].left)') + req'[r].need >= req'[r].acked + MaxCrash - crashes' + 1
  <2>0. req[r].acked \in Nat /\ req[r].need \in Nat
    BY TypeParts DEF ReqType
  <2>1. /\ Cardinality(Holders(r, req[r].left)) + req[r].need >= req[r].acked + MaxCrash - crashes + 1
        /\ req'[r].need = req[r].need /\ req'[r].acked = req[r].acked /\ req'[r].left = req[r].left
    BY <1>3, <1>7 DEF Acks, Waits
  <2>2. /\ Holders(r, req[r].left) \ {d} \subseteq Holders(r, req[r].left)'
        /\ Holders(r, req[r].left) \subseteq Nodes /\ Holders(r, req[r].left)' \subseteq Nodes
    BY <1>1, <1>2, <2>1, HoldersStay DEF Holders
  <2>3. Cardinality(Holders(r, req[r].left)) <= Cardinality(Holders(r, req[r].left)') + 1
        /\ Cardinality(Holders(r, req[r].left)) \in Nat /\ Cardinality(Holders(r, req[r].left)') \in Nat
    BY <2>2, Sizes
  <2> QED BY <1>5, <2>0, <2>1, <2>3
<1>8. Acks'
  BY <1>6, <1>7 DEF Acks
<1> QED BY <1>4, <1>8

\* Nothing is killed, answered or counted in the step.
LEMMA AckSame ==
    ASSUME TypeInv, TypeInv', Acks, Undone, Spreads, crashes' = crashes,
           \A n \in Nodes : Up(n) => Up(n)', \A r \in Requests : Waits(r)
    PROVE  Acks' /\ Undone'
<1>1. Undone'
  BY UndoneStays DEF Waits
<1>2. Acks'
  BY AckKeep DEF Acks, Spreads
<1> QED BY <1>1, <1>2

\* A call of the heartbeat thread: a node that is demoted syncs from one that runs.
LEMMA AckHb ==
    ASSUME FewFaults, TypeInv, TypeInv', Serves, Prefixed, Elects, Acks, Undone, JobStep("hb")
    PROVE  Acks' /\ Undone'
<1>0. "hb" \in Threads /\ (req' = req \/ Marks) /\ crashes' = crashes
  BY HbSteps DEF Threads
<1>1. \A r \in Requests : Waits(r)
  BY <1>0 DEF Waits, Marks, Refused
<1>2. ASSUME SameLogs, \A n \in Nodes : Up(n)' <=> Up(n) PROVE Acks' /\ Undone'
  BY <1>0, <1>1, <1>2, SpreadsSame, AckSame
<1>3. CASE Choose("hb") \/ Commit("hb") \/ \E c, n \in Nodes : Probe("hb", c, n)
  <2>1. proc' = proc
    BY <1>3 DEF Choose, Commit, Probe
  <2> QED BY <1>2, <2>1 DEF SameLogs, Up
<1>4. CASE promote_node("hb")
  <2>1. Promotes(job["hb"], job'["hb"]) /\ job["hb"].prim \in Nodes
    BY <1>0, <1>4, PromoteFacts
  <2>2. SameLogs /\ \A n \in Nodes : Up(n)' <=> Up(n)
    BY <2>1 DEF Promotes, Promoted, Touches, SameLogs, Up
  <2> QED BY <1>2, <2>2
<1>5. CASE add_replica_to_primary("hb")
  <2>1. Adds(job["hb"], job'["hb"]) /\ job["hb"].prim \in Nodes
    BY <1>0, <1>5, AddFacts
  <2>2. SameLogs /\ \A n \in Nodes : Up(n)' <=> Up(n)
    BY <2>1 DEF Adds, Added, Touches, SameLogs, Up
  <2> QED BY <1>2, <2>2
<1>6. ASSUME NEW f \in Nodes, demote_and_sync_node("hb", f) PROVE Acks' /\ Undone'
  <2> DEFINE p == job["hb"].prim
  <2>1. /\ Up(f) => IsPrefix(proc[f].log, proc[p].log)
        /\ \A n \in Nodes \ {f} : proc'[n] = proc[n]
        /\ \A n \in Nodes : proc'[n].up = proc[n].up
        /\ proc'[f].log = proc[f].log \/ (Up(f) /\ Up(p) /\ proc'[f].log = proc[p].log)
        /\ p \in Nodes
    BY <1>0, <1>6, DemoteLogs, DemoteFacts
  <2>2. CASE proc'[f].log = proc[f].log
    BY <1>2, <2>1, <2>2 DEF SameLogs, Up
  <2>3. CASE Up(f) /\ Up(p) /\ proc'[f].log = proc[p].log
    <3>1. \A n \in Nodes : IsPrefix(proc[n].log, proc[n].log)
      BY LogFacts, PrefixOrder
    <3>2. Spreads
      BY <2>1, <2>3, <3>1 DEF Spreads, Grows, Up
    <3> QED BY <1>0, <1>1, <2>1, <3>2, AckSame DEF Up
  <2> QED BY <2>1, <2>2, <2>3
<1> QED BY <1>3, <1>4, <1>5, <1>6 DEF JobStep

\* The acknowledgements a write needs, with the copy of the primary, are more than
\* the kills still to come.
LEMMA Needs ==
    ASSUME FewKills, TypeInv, Full, NEW k \in Nat, k >= 1,
           k = (Cardinality(proc[head].reps) + 1) \div 2
    PROVE  k >= MaxCrash - crashes
<1>0. MaxCrash \in Nat /\ crashes \in Nat /\ MaxCrash <= 2 /\ head \in Nodes
  BY TypeParts, BoundAssumption DEF ProcInv, FewKills
<1>1. CASE crashes = 0
  <2>1. proc[head].reps = Nodes \ {head} /\ IsFiniteSet(Nodes)
    BY <1>1, NodeAssumption DEF Full
  <2>2. Cardinality(Nodes \ {head}) = Cardinality(Nodes) - 1 /\ Cardinality(Nodes) \in Nat
    BY <1>0, <2>1, FS_RemoveElement, FS_CardinalityType
  <2>3. \A c, m \in Nat : 2 * m < c => ((c - 1) + 1) \div 2 >= m
    OBVIOUS
  <2>4. k >= MaxCrash
    BY <1>0, <2>1, <2>2, <2>3 DEF FewKills
  <2> QED BY <1>0, <1>1, <2>4
<1>2. CASE crashes # 0
  BY <1>0, <1>2
<1> QED BY <1>1, <1>2

\* The primary writes or undoes r.
LEMMA AckWrite ==
    ASSUME FewKills, TypeInv, TypeInv', Serves, Full, Acks, Undone,
           NEW r \in Requests, req[r].pc = "queued" \/ (req[r].pc = "send" /\ ~req[r].undo),
           NEW u \in BOOLEAN, Writes(r, req[r].node, u), crashes' = crashes
    PROVE  Acks' /\ Undone'
<1>1. req[r].node = head /\ head \in Nodes /\ Up(head) /\ head \notin proc[head].reps
  BY SendFacts
<1> DEFINE L == proc[head].log
           e == [op |-> r, undo |-> u]
<1>2. e \in Entry /\ L \in Seq(Entry)
  BY <1>1, LogFacts DEF Entry
<1>3. /\ Touches(head) /\ proc'[head].log = Append(L, e)
      /\ \A s \in Requests \ {r} : req'[s] = req[s]
      /\ req'[r].left \in {{}, proc[head].reps} /\ req'[r].acked = 0
      /\ \/ req'[r].pc = "done" /\ req'[r].result = IF u THEN "no quorum" ELSE "alone"
         \/ /\ req'[r].pc = "send" /\ req'[r].need >= 1 /\ req'[r].undo = u
            /\ req'[r].result = "none"
            /\ req'[r].need = (Cardinality(proc[head].reps) + 1) \div 2
  BY <1>1 DEF Writes
<1> HIDE DEF e
<1>4. /\ Len(proc'[head].log) = Len(L) + 1 /\ Len(L) \in Nat /\ IsPrefix(L, proc'[head].log)
      /\ proc'[head].log[Len(L) + 1] = e
      /\ \A i \in 1..Len(L) : proc'[head].log[i] = L[i]
  <2>1. IsPrefix(L, L)
    BY <1>2, PrefixOrder
  <2>2. IsPrefix(L, Append(L, e))
    BY <1>2, <2>1, PrefixAppend
  <2>3. /\ Len(Append(L, e)) = Len(L) + 1 /\ Len(L) \in Nat /\ Append(L, e)[Len(L) + 1] = e
        /\ \A i \in 1..Len(L) : Append(L, e)[i] = L[i]
    BY <1>2
  <2> QED BY <1>3, <2>2, <2>3
<1>5. (\A n \in Nodes : Up(n)' <=> Up(n)) /\ \A n \in Nodes \ {head} : proc'[n] = proc[n]
  BY <1>3 DEF Touches, Up
<1>6. Grows
  <2>1. \A n \in Nodes : IsPrefix(proc[n].log, proc[n].log)
    BY LogFacts, PrefixOrder
  <2> QED BY <1>4, <1>5, <2>1 DEF Grows
<1>7. \A s \in Requests \ {r} : Waits(s)
  BY <1>3 DEF Waits
<1>8. req'[r].result # "ok"
  BY <1>3
<1>9. ASSUME req'[r].pc = "send", ~req'[r].undo
      PROVE  Cardinality(Holders(r, req[r].left)') + req'[r].need >= req'[r].acked + MaxCrash - crashes' + 1
  <2>1. e = Write(r) /\ req'[r].need >= 1 /\ req'[r].need \in Nat
    <3>1. req'[r].need \in Nat
      BY DEF TypeInv, ReqInv, ReqType
    <3> QED BY <1>3, <1>9, <3>1 DEF e, Write
  <2>2. req'[r].need >= MaxCrash - crashes
    BY <1>3, <1>9, <2>1, Needs
  <2>3. \E i \in 1..Len(proc'[head].log) : proc'[head].log[i] = Write(r)
    BY <1>4, <2>1
  <2>4. {} \subseteq Nodes /\ Holders(r, req[r].left)' \subseteq Nodes
    BY DEF Holders
  <2>5. {} \cup {head} \subseteq Holders(r, req[r].left)'
    BY <1>1, <1>3, <1>5, <2>3 DEF Holders, Has, Write
  <2>6. Cardinality(Holders(r, req[r].left)') \in Nat /\ Cardinality(Holders(r, req[r].left)') >= 1
    <3>1. Cardinality({}) = 0
      BY FS_EmptySet
    <3> QED BY <1>1, <2>4, <2>5, <3>1, Sizes
  <2>7. MaxCrash \in Nat /\ crashes \in Nat
    BY TypeParts, BoundAssumption DEF ProcInv
  <2>8. req'[r].acked = 0
    BY <1>3
  <2> QED BY <2>1, <2>2, <2>6, <2>7, <2>8
<1>10. Acks'
  BY <1>5, <1>6, <1>7, <1>8, <1>9, AckKeep DEF Acks
<1>11. Undone'
  <2> SUFFICES ASSUME NEW n \in Nodes, NEW s \in Requests, Up(n)', Has(n, Undoing(s))'
               PROVE  Refused(req'[s])
    BY DEF Undone, Refused
  <2>1. PICK i \in 1..Len(proc'[n].log) : proc'[n].log[i] = Undoing(s)
    BY DEF Has, Undoing
  <2>2. CASE n = head /\ i = Len(L) + 1
    <3>1. s = r /\ u = TRUE
      BY <1>4, <2>1, <2>2 DEF e, Undoing
    <3> QED BY <1>3, <3>1 DEF Refused
  <2>3. CASE ~(n = head /\ i = Len(L) + 1)
    <3>1. i \in 1..Len(proc[n].log) /\ proc[n].log[i] = Undoing(s)
      <4>1. CASE n = head
        BY <1>4, <2>1, <2>3, <4>1
      <4>2. CASE n # head
        <5>1. proc'[n] = proc[n]
          BY <1>5, <4>2
        <5> QED BY <2>1, <5>1
      <4> QED BY <4>1, <4>2
    <3>2. Refused(req[s])
      BY <1>5, <3>1 DEF Undone, Has
    <3>3. s # r
      BY <3>2 DEF Refused
    <3> QED BY <1>3, <3>2, <3>3
  <2> QED BY <2>2, <2>3
<1> QED BY <1>10, <1>11

\* A replica that acknowledges the write of the primary has all that the primary has.
LEMMA ForwardGrows ==
    ASSUME TypeInv, TypeInv', Serves, Sends, Prefixed,
           NEW r \in Requests, NEW f \in Nodes, forward_to_replica(r, f)
    PROVE  /\ Spreads /\ \A n \in Nodes : Up(n)' <=> Up(n)
           /\ req'[r].acked # req[r].acked => Up(f) /\ proc'[f].log = proc[head].log
<1>1. /\ Forwards(r, f) /\ req[r].pc = "send" /\ f \in req[r].left /\ req[r].node = head
      /\ head \in Nodes /\ Up(head) /\ f # head
  BY ForwardTypes, SendFacts DEF Serves
<1>2. /\ proc'[f].log = proc[f].log \/ (Up(f) /\ IsPrefix(proc'[f].log, proc[head].log))
      /\ \A n \in Nodes \ {f} : proc'[n] = proc[n]
      /\ proc'[f].up = proc[f].up
  BY ForwardLogs
<1> DEFINE L == proc[head].log
           F == proc[f].log
           G == proc'[f].log
           e == [op |-> r, undo |-> req[r].undo]
<1>3. /\ L \in Seq(Entry) /\ F \in Seq(Entry) /\ G \in Seq(Entry)
      /\ Len(L) = req[r].lsn /\ req[r].lsn \in Nat
  <2>1. G \in Seq(Entry)
    BY DEF TypeInv, ProcInv, ProcType
  <2> QED BY <1>1, <2>1, LogFacts DEF Sends
<1>4. /\ Len(L) \in Nat /\ Len(F) \in Nat /\ Len(G) \in Nat /\ IsPrefix(F, F) /\ IsPrefix(L, L)
  BY <1>3, PrefixOrder
<1>5. ASSUME Up(f)
      PROVE  /\ IsPrefix(F, L)
             /\ G = L \/ (G = F /\ req'[r].acked = req[r].acked)
  <2>1. IsPrefix(F, L) /\ Len(F) <= Len(L)
    BY <1>3, <1>5, PrefixOrder DEF Prefixed
  <2>2. IsPrefix(G, L) /\ Len(G) <= Len(L)
    BY <1>2, <1>3, <2>1, PrefixOrder
  <2>3. ASSUME Accepts(F, req[r].lsn), G = Applied(F, req[r].lsn, e) PROVE Len(G) = Len(L)
    <3> HIDE DEF e
    <3>1. CASE req[r].lsn = Len(F) + 1
      <4>1. e \in Entry
        BY TypeParts DEF e, Entry, ReqType
      <4>2. G = Append(F, e) /\ Len(Append(F, e)) = Len(F) + 1
        BY <1>3, <2>3, <3>1, <4>1 DEF Applied
      <4> QED BY <1>3, <3>1, <4>2
    <3>2. CASE req[r].lsn # Len(F) + 1
      <4>1. G = F
        BY <2>3, <3>2 DEF Applied
      <4> QED BY <1>3, <1>4, <2>1, <2>3, <3>2, <4>1 DEF Accepts
    <3> QED BY <3>1, <3>2
  <2>4. ASSUME NEW l \in Synced(F, L), G = Applied(l, req[r].lsn, e) PROVE G = L
    <3>1. l = L
      BY <1>3, <2>1, SyncedType
    <3> QED BY <1>3, <1>4, <2>4, <3>1 DEF Applied
  <2>5. (G = F /\ req'[r].acked = req[r].acked) \/ G = L
    <3>1. Len(G) = Len(L) => G = L
      BY <1>3, <2>2, PrefixEqual
    <3> HIDE DEF e
    <3> QED BY <1>1, <2>3, <2>4, <3>1 DEF Forwards, e
  <2> QED BY <2>1, <2>5
<1>6. ~Up(f) => G = F /\ req'[r].acked = req[r].acked
  BY <1>1, <1>2 DEF Forwards, Up
<1>7. \A n \in Nodes : Up(n)' <=> Up(n)
  BY <1>2 DEF Up
<1>8. \A n \in Nodes : IsPrefix(proc[n].log, proc[n].log)
  BY LogFacts, PrefixOrder
<1>9. Spreads
  <2>1. Grows
    BY <1>2, <1>5, <1>6, <1>7, <1>8 DEF Grows
  <2>2. ASSUME NEW n \in Nodes, Up(n)' PROVE \E m \in Nodes : Up(m) /\ IsPrefix(proc'[n].log, proc[m].log)
    <3>1. CASE n = f /\ G = L
      BY <1>1, <1>4, <3>1
    <3>2. CASE proc'[n].log = proc[n].log
      BY <1>7, <1>8, <2>2, <3>2
    <3> QED BY <1>2, <1>5, <1>7, <2>2, <3>1, <3>2
  <2> QED BY <2>1, <2>2 DEF Spreads
<1> QED BY <1>5, <1>6, <1>7, <1>9

\* An acknowledgement counted is one more copy, on a replica that is no longer left.
LEMMA AckForward ==
    ASSUME TypeInv, TypeInv', Serves, Sends, Prefixed, Acks, Undone,
           NEW r \in Requests, NEW f \in Nodes, forward_to_replica(r, f)
    PROVE  Acks' /\ Undone'
<1>0. crashes' = crashes
  BY DEF forward_to_replica
<1>1. /\ Spreads /\ Grows /\ \A n \in Nodes : Up(n)' <=> Up(n)
      /\ req'[r].acked # req[r].acked => Up(f) /\ proc'[f].log = proc[head].log
  BY ForwardGrows DEF Spreads
<1>2. /\ Forwards(r, f) /\ req[r].pc = "send" /\ f \in req[r].left /\ req[r].node = head
      /\ head \in Nodes
  BY ForwardTypes, SendFacts
<1>3. /\ req'[r].left = req[r].left \ {f}
      /\ req'[r].acked \in {req[r].acked, req[r].acked + 1}
      /\ \A s \in Requests :
              /\ req'[s].pc = req[s].pc /\ req'[s].need = req[s].need
              /\ req'[s].undo = req[s].undo /\ req'[s].result = req[s].result
              /\ s # r => req'[s].left = req[s].left /\ req'[s].acked = req[s].acked
  BY <1>2 DEF Forwards
<1>4. \A s \in Requests : Refused(req[s]) => Refused(req'[s])
  BY <1>3 DEF Refused
<1>5. Undone'
  BY <1>1, <1>4, UndoneStays
<1>6. \A s \in Requests \ {r} : Waits(s)
  BY <1>3, <1>4 DEF Waits
<1> DEFINE A == Holders(r, req[r].left)
           B == Holders(r, req[r].left)'
<1>7. A \subseteq Nodes /\ B \subseteq Nodes /\ A \subseteq B /\ f \notin A
  <2>1. A \subseteq B
    BY <1>1, <1>3, HoldersStay DEF Holders
  <2> QED BY <1>2, <2>1 DEF Holders
<1>8. ASSUME ~req[r].undo, req'[r].acked # req[r].acked PROVE f \in B
  <2>1. req[r].lsn \in 1..Len(proc[head].log) /\ proc[head].log[req[r].lsn] = Write(r)
    <3>1. req[r].undo = FALSE
      BY <1>8, TypeParts DEF ReqType
    <3>2. /\ req[r].lsn = Lsn(head) /\ req[r].lsn >= 1
          /\ proc[head].log[Lsn(head)] = [op |-> r, undo |-> req[r].undo]
      BY <1>2 DEF Sends
    <3>3. Lsn(head) = Len(proc[head].log) /\ Lsn(head) \in Nat
      BY <1>2, LogFacts
    <3>4. proc[head].log[req[r].lsn] = Write(r)
      BY <3>1, <3>2 DEF Write
    <3>5. req[r].lsn \in 1..Len(proc[head].log)
      BY <3>2, <3>3
    <3> QED BY <3>4, <3>5
  <2>2. \E i \in 1..Len(proc'[f].log) : proc'[f].log[i] = Write(r)
    BY <1>1, <1>8, <2>1
  <2> QED BY <1>1, <1>3, <1>8, <2>2 DEF Holders, Has, Write
<1> HIDE DEF A, B
<1>9. ASSUME ~req[r].undo PROVE Cardinality(B) + req'[r].need >= req'[r].acked + MaxCrash - crashes' + 1
  <2>1. Cardinality(A) \in Nat /\ Cardinality(B) \in Nat /\ Cardinality(A) <= Cardinality(B)
    BY <1>7, Sizes
  <2>2. req'[r].acked # req[r].acked => Cardinality(A) + 1 <= Cardinality(B)
    BY <1>7, <1>8, <1>9, Sizes
  <2>3. MaxCrash \in Nat /\ crashes \in Nat
    BY TypeParts, BoundAssumption DEF ProcInv
  <2>4. req[r].acked \in Nat /\ req[r].need \in Nat /\ req'[r].need = req[r].need
    BY <1>3, TypeParts DEF ReqType
  <2>5. Cardinality(A) + req[r].need >= req[r].acked + MaxCrash - crashes + 1
    BY <1>2, <1>9 DEF Acks, A
  <2>6. req'[r].acked = req[r].acked \/ req'[r].acked = req[r].acked + 1
    BY <1>3
  <2> QED BY <1>0, <2>1, <2>2, <2>3, <2>4, <2>5, <2>6
<1>10. req'[r].result = "ok" => Cardinality(Holders(r, {})') >= MaxCrash - crashes' + 1
  <2>1. /\ Holders(r, {}) \subseteq Holders(r, {})'
        /\ Holders(r, {}) \subseteq Nodes /\ Holders(r, {})' \subseteq Nodes
    BY <1>1, HoldersStay DEF Holders
  <2>2. /\ Cardinality(Holders(r, {})) <= Cardinality(Holders(r, {})')
        /\ Cardinality(Holders(r, {})) \in Nat /\ Cardinality(Holders(r, {})') \in Nat
    BY <2>1, Sizes
  <2>3. MaxCrash \in Nat /\ crashes \in Nat
    BY TypeParts, BoundAssumption DEF ProcInv
  <2>4. req[r].result = "ok" => Cardinality(Holders(r, {})) >= MaxCrash - crashes + 1
    BY DEF Acks
  <2> QED BY <1>0, <1>3, <2>2, <2>3, <2>4
<1>11. Acks'
  BY <1>0, <1>1, <1>3, <1>6, <1>9, <1>10, AckKeep DEF Acks, B
<1> QED BY <1>5, <1>11

\* Every step of a client keeps the copies of what was acknowledged.
LEMMA AckClient ==
    ASSUME FewKills, TypeInv, TypeInv', Serves, Full, Sends, Prefixed, Acks, Undone,
           NEW r \in Requests, Client(r)
    PROVE  Acks' /\ Undone'
<1>0. ASSUME proc' = proc, \A s \in Requests : Waits(s), crashes' = crashes PROVE Acks' /\ Undone'
  <2>1. SameLogs /\ \A n \in Nodes : Up(n)' <=> Up(n)
    BY <1>0 DEF SameLogs, Up
  <2> QED BY <1>0, <2>1, SpreadsSame, AckSame
<1>1. CASE handle_lookup(r) \/ LookupAnswer(r) \/ CheckRole(r)
  <2>1. UNCHANGED <<proc, crashes>>
    BY <1>1 DEF handle_lookup, LookupAnswer, CheckRole
  <2>2. /\ Only(r) /\ req'[r].pc # "send" /\ req[r].pc \notin {"send", "done"}
        /\ req'[r].result = "ok" => req[r].result = "ok"
    BY <1>1, LookupFacts, AnswerFacts, RoleFacts, IdleType DEF Answers, GoesOn, Idle
  <2>3. \A s \in Requests : Waits(s)
    BY <2>2 DEF Waits, Only, Refused
  <2> QED BY <1>0, <2>1, <2>3
<1>2. CASE replicated_put(r)
  <2> DEFINE no == FALSE
  <2>1. req[r].pc = "queued" /\ Writes(r, req[r].node, no)
    BY <1>2, PutFacts
  <2>2. no \in BOOLEAN /\ UNCHANGED <<crashes>>
    BY <1>2 DEF replicated_put
  <2> HIDE DEF no
  <2> QED BY <2>1, <2>2, AckWrite
<1>3. CASE Conclude(r)
  <2>0. req[r].pc = "send" /\ req[r].left = {} /\ crashes' = crashes
    BY <1>3, ConcludeFacts DEF Conclude
  <2> DEFINE yes == TRUE
  <2>1. CASE ~req[r].undo /\ Writes(r, req[r].node, yes)
    <3>1. yes \in BOOLEAN
      OBVIOUS
    <3> HIDE DEF yes
    <3> QED BY <2>0, <2>1, <3>1, AckWrite
  <2>2. CASE /\ Only(r) /\ proc' = proc /\ req'[r].pc = "done"
             /\ req[r].undo /\ req'[r].result = "no quorum"
    <3>1. \A s \in Requests : Waits(s)
      BY <2>0, <2>2 DEF Waits, Only, Refused
    <3> QED BY <1>0, <2>0, <2>2, <3>1
  <2>3. CASE /\ Only(r) /\ proc' = proc /\ req'[r].pc = "done" /\ ~req[r].undo
             /\ req[r].acked >= req[r].need /\ req'[r].result = "ok"
    <3>1. Spreads /\ Grows /\ \A n \in Nodes : Up(n)' <=> Up(n)
      <4>1. SameLogs /\ \A n \in Nodes : Up(n)' <=> Up(n)
        BY <2>3 DEF SameLogs, Up
      <4> QED BY <4>1, SpreadsSame DEF Spreads
    <3>2. \A s \in Requests \ {r} : Waits(s)
      BY <2>3 DEF Waits, Only
    <3>3. ~Refused(req[r]) /\ \A s \in Requests : Refused(req[s]) => Refused(req'[s])
      BY <2>0, <2>3, <3>2 DEF Refused, Waits
    <3>4. Undone'
      BY <3>1, <3>3, UndoneStays
    <3>5. Cardinality(Holders(r, {})') >= MaxCrash - crashes' + 1
      <4>1. Cardinality(Holders(r, {})) + req[r].need >= req[r].acked + MaxCrash - crashes + 1
        BY <2>0, <2>3 DEF Acks
      <4>2. Holders(r, {})' = Holders(r, {}) /\ Holders(r, {}) \subseteq Nodes
        BY <2>3 DEF Holders, Has, Up, Write
      <4>3. Cardinality(Holders(r, {})) \in Nat
        BY <4>2, Sizes
      <4>4. MaxCrash \in Nat /\ crashes \in Nat
        BY TypeParts, BoundAssumption DEF ProcInv
      <4>5. req[r].acked \in Nat /\ req[r].need \in Nat
        BY TypeParts DEF ReqType
      <4> QED BY <2>0, <2>3, <4>1, <4>2, <4>3, <4>4, <4>5
    <3>6. Acks'
      BY <2>0, <2>3, <3>1, <3>2, <3>5, AckKeep DEF Acks
    <3> QED BY <3>4, <3>6
  <2> QED BY <1>3, <2>1, <2>2, <2>3, ConcludeFacts
<1>4. CASE UseAfterFree(r)
  BY <1>4, FreeFacts, AckEnds
<1> QED BY <1>1, <1>2, <1>3, <1>4, AckForward DEF Client, Serve

\* READY: the only write answered OK is the old one, on a majority.
LEMMA AckStart ==
    ASSUME FewFaults, FewKills, TypeInv, AwakeInv, StartInv, ~Ready, Ready', [Next]_vars
    PROVE  Acks' /\ Undone'
<1>1. Quiet /\ UNCHANGED <<proc, req, crashes>> /\ TypeInv'
  BY ServeStart
<1>2. /\ crashes' = 0 /\ MaxCrash \in Nat
      /\ \A r \in Requests : req'[r].pc \in {"new", "done"} /\ (req'[r].result = "ok" => r = Old)
  BY <1>1, BoundAssumption DEF Quiet
<1>3. \A n \in Nodes : Up(n)' /\ proc'[n].log = proc[n].log
  BY <1>1 DEF Quiet, Up
<1>4. \A n \in Nodes : \A i \in 1..Len(proc[n].log) : proc[n].log[i] = OldEntry
  <2>1. \A n \in Nodes : proc[n].log \in {<<>>, <<OldEntry>>}
    BY <1>1 DEF Quiet
  <2> QED BY <2>1
<1>5. Undone'
  <2> SUFFICES ASSUME NEW n \in Nodes, NEW r \in Requests, Has(n, Undoing(r))' PROVE FALSE
    BY DEF Undone
  <2>1. \E i \in 1..Len(proc[n].log) : proc[n].log[i] = Undoing(r)
    BY <1>3 DEF Has, Undoing
  <2>2. Undoing(r) # OldEntry
    BY DEF Undoing, OldEntry
  <2> QED BY <1>4, <2>1, <2>2
<1>6. ASSUME Old \in Requests PROVE Cardinality(Holders(Old, {})') >= MaxCrash + 1
  <2>1. PICK Q \in Majorities : \A n \in Q : Lsn(n) >= 1
    BY <1>1, <1>6, NodeAssumption DEF Quiet
  <2>2. Q \subseteq Nodes /\ 2 * Cardinality(Q) > Cardinality(Nodes)
    BY DEF Majorities
  <2>3. Q \subseteq Holders(Old, {})' /\ Holders(Old, {})' \subseteq Nodes
    <3>1. ASSUME NEW n \in Q PROVE \E i \in 1..Len(proc'[n].log) : proc'[n].log[i] = Write(Old)
      <4>1. n \in Nodes /\ Lsn(n) >= 1
        BY <2>1, <2>2
      <4>2. proc[n].log = <<OldEntry>>
        BY <1>1, <4>1, QuietLogs
      <4> QED BY <1>3, <4>1, <4>2 DEF OldEntry, Write
    <3> QED BY <1>3, <2>2, <3>1 DEF Holders, Has, Write
  <2>4. /\ Cardinality(Q) \in Nat /\ Cardinality(Holders(Old, {})') \in Nat
        /\ Cardinality(Q) <= Cardinality(Holders(Old, {})')
    BY <2>2, <2>3, Sizes
  <2>5. Cardinality(Nodes) \in Nat
    BY NodeAssumption, FS_CardinalityType
  <2> QED BY <1>2, <2>2, <2>4, <2>5 DEF FewKills
<1>7. Acks'
  BY <1>2, <1>6 DEF Acks
<1> QED BY <1>5, <1>7

\* Every step does.
LEMMA AckNext ==
    ASSUME FewFaults, FewKills, TypeInv, AwakeInv, StartInv, ServeInv, AgreeInv, FullInv, AckInv,
           [Next]_vars
    PROVE  AckInv'
<1>1. TypeInv'
  BY NextTypes
<1>2. CASE ~Ready
  BY <1>2, AckStart DEF AckInv
<1>3. CASE Ready
  <2>0. Serves /\ Sends /\ Prefixed /\ Elects /\ Full /\ Acks /\ Undone
    BY <1>3 DEF ServeInv, AgreeInv, FullInv, AckInv
  <2>1. CASE UNCHANGED vars \/ Snapshot \/ (\E n \in Nodes : Ping(n))
             \/ \E d \in Nodes : handle_node_failure(d)
    <3>1. UNCHANGED <<proc, req, crashes>>
      BY <2>1 DEF vars, Snapshot, Ping, handle_node_failure
    <3>2. SameLogs /\ (\A n \in Nodes : Up(n)' <=> Up(n)) /\ \A r \in Requests : Waits(r)
      BY <3>1 DEF SameLogs, Up, Waits
    <3> QED BY <1>1, <2>0, <3>1, <3>2, SpreadsSame, AckSame DEF AckInv
  <2>2. CASE JobStep("hb")
    BY <1>1, <2>0, <2>2, AckHb DEF AckInv
  <2>3. ASSUME NEW r \in Requests, Client(r) PROVE AckInv'
    BY <1>1, <2>0, <2>3, AckClient DEF AckInv
  <2>4. ASSUME NEW n \in Nodes, Crash(n) PROVE AckInv'
    BY <1>1, <2>0, <2>4, CrashFacts, AckEnds DEF AckInv
  <2> QED BY <1>3, <2>1, <2>2, <2>3, <2>4, ReadySteps
<1> QED BY <1>2, <1>3

\* READY is not answered with OK at the start.
LEMMA AckInit == Init => AckInv
<1>1. Init => ~Ready
  BY BoundAssumption DEF Init, Ready
<1> QED BY <1>1 DEF AckInv

\* A write that a majority of the nodes acknowledged is visible on the node that serves
\* the tablet, whichever of them has been elected by then: it is in the log of a node
\* that runs, of which the log of the primary is a continuation, and is never undone.
THEOREM CoordinatorQuorumVisible == FewFaults /\ FewKills => (Spec => []QuorumVisible)
<1> SUFFICES ASSUME FewFaults, FewKills PROVE Spec => []QuorumVisible
  OBVIOUS
<1> DEFINE Inv == TypeInv /\ AwakeInv /\ StartInv /\ ServeInv /\ AgreeInv /\ FullInv /\ AckInv
<1>1. Init => Inv
  BY InitTypes, StartInit, ServeInit, AgreeInit, FullInit, AckInit
<1>2. Inv /\ [Next]_vars => Inv'
  BY NextTypes, AwakeNext, StartNext, ServeNext, AgreeNext, FullNext, AckNext
<1>3. Inv => QuorumVisible
  <2> SUFFICES ASSUME TypeInv, StartInv, AgreeInv, AckInv, Serving,
                      NEW r \in Requests, req[r].result = "ok"
               PROVE  r \in Visible(proc[head].log)
    BY DEF QuorumVisible
  <2> DEFINE L == proc[head].log
  <2>0. head \in Nodes /\ Up(head) /\ L \in Seq(Entry)
    BY TypeParts, LogFacts DEF Serving, Up
  <2>1. CASE Ready
    <3>1. Prefixed /\ Acks /\ Undone
      BY <2>1 DEF AgreeInv, AckInv
    <3>2. Holders(r, {}) # {}
      <4>1. Cardinality(Holders(r, {})) >= MaxCrash - crashes + 1
        BY <3>1 DEF Acks
      <4>2. MaxCrash \in Nat /\ crashes \in 0..MaxCrash
        BY TypeParts, BoundAssumption DEF ProcInv
      <4>3. Holders(r, {}) = {} => Cardinality(Holders(r, {})) = 0
        BY FS_EmptySet
      <4> QED BY <4>1, <4>2, <4>3
    <3>3. PICK n \in Nodes : Up(n) /\ Has(n, Write(r))
      BY <3>2 DEF Holders
    <3>4. PICK i \in 1..Len(L) : L[i] = Write(r)
      <4>1. proc[n].log \in Seq(Entry) /\ IsPrefix(proc[n].log, L)
        BY <3>1, <3>3, LogFacts DEF Prefixed
      <4>2. \E i \in 1..Len(proc[n].log) : proc[n].log[i] = Write(r)
        BY <3>3 DEF Has
      <4> HIDE DEF L
      <4>3. \A i \in 1..Len(proc[n].log) : i \in 1..Len(L) /\ L[i] = proc[n].log[i]
        BY <2>0, <4>1, HasPrefix
      <4> QED BY <4>2, <4>3
    <3>5. \A k \in 1..Len(L) : L[k] # Undoing(r)
      BY <2>0, <3>1 DEF Undone, Has, Refused
    <3>6. i \in DOMAIN L /\ \A k \in i..Len(L) : L[k] # Undoing(r)
      BY <2>0, <3>4, <3>5
    <3> QED BY <3>4, <3>6 DEF Visible, Write, Undoing
  <2>2. CASE ~Ready
    <3>1. Quiet /\ Longest(First) /\ head = First /\ r = Old
      BY <2>2 DEF StartInv, Configuring, Serving, Quiet
    <3>2. PICK Q \in Majorities : \A n \in Q : Lsn(n) >= 1
      BY <3>1, NodeAssumption DEF Quiet
    <3>3. \E n \in Nodes : Lsn(n) >= 1
      <4>1. Q \subseteq Nodes /\ 2 * Cardinality(Q) > Cardinality(Nodes) /\ Cardinality(Nodes) \in Nat
        BY NodeAssumption, FS_CardinalityType DEF Majorities
      <4>2. Q = {} => Cardinality(Q) = 0
        BY FS_EmptySet
      <4> QED BY <3>2, <4>1, <4>2
    <3>4. Lsn(head) >= 1
      BY <2>0, <3>1, <3>3, LogFacts DEF Longest, Quiet
    <3>5. L = <<OldEntry>>
      BY <2>0, <3>1, <3>4, QuietLogs
    <3>6. L[1] = Write(r) /\ L[1] # Undoing(r) /\ DOMAIN L = 1..1 /\ Len(L) = 1
      BY <3>1, <3>5 DEF OldEntry, Write, Undoing
    <3>7. 1 \in DOMAIN L /\ \A k \in 1..Len(L) : L[k] # Undoing(r)
      BY <3>6
    <3> QED BY <3>6, <3>7 DEF Visible, Write, Undoing
  <2> QED BY <2>1, <2>2
<1> HIDE DEF Inv
<1> QED BY <1>1, <1>2, <1>3, PTL DEF Spec
=============================================================================
