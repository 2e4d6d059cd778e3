------------------------- MODULE ReplicationProofs -------------------------
(***************************************************************************)
(* Proofs about Replication.                                               *)
(***************************************************************************)
EXTENDS Replication, FiniteSetTheorems, WellFoundedInduction, TLAPS

-----------------------------------------------------------------------------
(* Induction over the naturals, with a set instead of a predicate. *)

LessNat == {ss \in Nat \X Nat : ss[1] < ss[2]}

\* The order of the naturals is well-founded.
LEMMA LessNatWellFounded == IsWellFoundedOn(LessNat, Nat)
  BY NatLessThanWellFounded, Zenon DEF OpToRel, LessNat

\* A nonempty set of naturals has a least element.
LEMMA LeastNat ==
    ASSUME NEW T \in SUBSET Nat, T # {}
    PROVE  \E x \in T : \A y \in T : x <= y
<1>1. PICK x \in T : \A y \in T : ~(<<y, x>> \in LessNat)
  BY LessNatWellFounded, WFMin
<1>2. \A y \in T : y < x => <<y, x>> \in LessNat
  BY DEF LessNat
<1>3. ASSUME NEW y \in T PROVE x <= y
  <2>1. x \in Nat /\ y \in Nat
    OBVIOUS
  <2>2. ~(y < x)
    BY <1>1, <1>2
  <2> QED BY <2>1, <2>2
<1> QED BY <1>3

\* A set that holds 0 and the successor of each member below n holds 0..n.
LEMMA Induct ==
    ASSUME NEW n \in Nat, NEW S, 0 \in S,
           \A i \in 0..n - 1 : i \in S => i + 1 \in S
    PROVE  0..n \subseteq S
<1> SUFFICES ASSUME (0..n) \ S # {} PROVE FALSE
  OBVIOUS
<1>1. (0..n) \ S \in SUBSET Nat
  OBVIOUS
<1>2. PICK x \in (0..n) \ S : \A y \in (0..n) \ S : x <= y
  BY <1>1, LeastNat
<1>3. x # 0 /\ x - 1 \in 0..n - 1 /\ x - 1 < x /\ (x - 1) + 1 = x
  BY <1>2
<1>4. x - 1 \in S
  BY <1>2, <1>3
<1> QED BY <1>2, <1>3, <1>4

-----------------------------------------------------------------------------
(* The tablet of a node. *)

\* An operation takes contents to contents.
LEMMA ApplyType ==
    ASSUME NEW c \in Contents, NEW e \in Entry
    PROVE  Apply(c, e) \in Contents
  BY DEF Apply, Contents, Entry

\* A write counts and logs one operation and applies it.
LEMMA WriteEffect ==
    ASSUME NEW t \in Tablets, NEW e \in Entry
    PROVE  /\ Write(t, e) \in Tablets
           /\ Write(t, e).cells = Apply(t.cells, e)
           /\ Write(t, e).lsn = t.lsn + 1
           /\ Write(t, e).ver = t.ver
           /\ Write(t, e).wal = Append(t.wal, e)
<1>1. /\ t = [cells |-> t.cells, lsn |-> t.lsn, ver |-> t.ver, wal |-> t.wal]
      /\ t.cells \in Contents /\ t.lsn \in Nat /\ t.ver \in Nat /\ t.wal \in Seq(Entry)
  BY DEF Tablets
<1>2. Apply(t.cells, e) \in Contents
  BY <1>1, ApplyType
<1>3. Append(t.wal, e) \in Seq(Entry) /\ t.lsn + 1 \in Nat
  BY <1>1
<1>4. /\ Write(t, e).cells = Apply(t.cells, e) /\ Write(t, e).lsn = t.lsn + 1
      /\ Write(t, e).ver = t.ver /\ Write(t, e).wal = Append(t.wal, e)
  BY DEF Write, Tablets
<1>5. Write(t, e) \in Tablets
  BY <1>1, <1>2, <1>3 DEF Write, Tablets
<1> QED BY <1>4, <1>5

\* The end of a sequence.
LEMMA Suffix ==
    ASSUME NEW S, NEW s \in Seq(S), NEW m \in Nat, m >= 1
    PROVE  LET w == SubSeq(s, m, Len(s))
           IN  /\ w \in Seq(S) /\ Len(w) \in Nat
               /\ \A i \in 1..Len(w) : m + i - 1 \in 1..Len(s) /\ w[i] = s[m + i - 1]
<1> DEFINE w == SubSeq(s, m, Len(s))
<1>1. Len(s) \in Nat
  OBVIOUS
<1>2. w \in Seq(S)
  OBVIOUS
<1>3. Len(w) = IF m <= Len(s) THEN Len(s) - m + 1 ELSE 0
  BY <1>1
<1>4. \A i \in 1..Len(w) : w[i] = s[m + i - 1]
  BY <1>1
<1>5. ASSUME NEW i \in 1..Len(w) PROVE m + i - 1 \in 1..Len(s)
  <2> HIDE DEF w
  <2> QED BY <1>1, <1>3
<1> QED BY <1>1, <1>2, <1>3, <1>4, <1>5

\* The loop of apply_wal_delta_blob goes through a sequence of tablets, each a
\* write after the one before.
LEMMA WriteAllLoop ==
    ASSUME NEW t \in Tablets, NEW w \in Seq(Entry)
    PROVE  \E G \in [0..Len(w) -> Tablets] :
              /\ G[0] = t
              /\ \A i \in 1..Len(w) : G[i] = Write(G[i - 1], w[i])
              /\ WriteAll(t, w) = G[Len(w)]
<1> DEFINE N == Len(w)
           Loop(n, G) == /\ G \in [0..n -> Tablets]
                         /\ G[0] = t
                         /\ \A i \in 1..n : G[i] = Write(G[i - 1], w[i])
           S == {n \in Nat : n <= N => \E G : Loop(n, G)}
<1>1. N \in Nat
  OBVIOUS
<1>2. 0 \in S
  <2>1. Loop(0, [i \in 0..0 |-> t])
    OBVIOUS
  <2> QED BY <2>1
<1>3. ASSUME NEW n \in 0..N - 1, n \in S PROVE n + 1 \in S
  <2>1. PICK G : Loop(n, G)
    BY <1>1, <1>3
  <2> DEFINE H == [i \in 0..n + 1 |-> IF i = n + 1 THEN Write(G[n], w[n + 1]) ELSE G[i]]
  <2>2. w[n + 1] \in Entry /\ G[n] \in Tablets
    BY <2>1, <1>1
  <2>3. Write(G[n], w[n + 1]) \in Tablets
    BY <2>2, WriteEffect
  <2>4. H \in [0..n + 1 -> Tablets] /\ H[0] = t
    BY <2>1, <2>3
  <2>5. \A i \in 1..n + 1 : H[i] = Write(H[i - 1], w[i])
    BY <2>1
  <2>6. Loop(n + 1, H)
    BY <2>4, <2>5
  <2> HIDE DEF Loop, H
  <2> QED BY <2>6, <1>1
<1>4. 0..N \subseteq S
  <2> HIDE DEF S, N
  <2> QED BY <1>1, <1>2, <1>3, Induct
<1>5. PICK G : Loop(N, G)
  <2> HIDE DEF Loop
  <2> QED BY <1>1, <1>4
<1>6. G = [i \in 0..N |-> IF i = 0 THEN t ELSE Write(G[i - 1], w[i])]
  <2>1. \A i \in 0..N : G[i] = IF i = 0 THEN t ELSE Write(G[i - 1], w[i])
    BY <1>1, <1>5
  <2> QED BY <1>5, <2>1
<1> DEFINE F == CHOOSE F : F = [i \in 0..Len(w) |-> IF i = 0 THEN t ELSE Write(F[i - 1], w[i])]
<1>7. F = [i \in 0..N |-> IF i = 0 THEN t ELSE Write(F[i - 1], w[i])]
  BY <1>6
<1>8. WriteAll(t, w) = F[N]
  BY DEF WriteAll
<1>9. F[0] = t /\ \A i \in 1..N : F[i] = Write(F[i - 1], w[i])
  <2> HIDE DEF F
  <2> QED BY <1>1, <1>7
<1>10. 0..N \subseteq {i \in 0..N : F[i] = G[i]}
  <2> HIDE DEF F
  <2>1. 0 \in {i \in 0..N : F[i] = G[i]}
    BY <1>9, <1>5, <1>1
  <2>2. ASSUME NEW i \in 0..N - 1, i \in {j \in 0..N : F[j] = G[j]}
        PROVE  i + 1 \in {j \in 0..N : F[j] = G[j]}
    <3>1. i + 1 \in 1..N /\ (i + 1) - 1 = i
      BY <1>1
    <3>2. F[i + 1] = Write(F[i], w[i + 1]) /\ G[i + 1] = Write(G[i], w[i + 1])
      BY <1>9, <1>5, <3>1
    <3> QED BY <2>2, <3>1, <3>2
  <2> HIDE DEF N
  <2> QED BY <2>1, <2>2, <1>1, Induct
<1>11. WriteAll(t, w) = G[N]
  <2> HIDE DEF F
  <2> QED BY <1>8, <1>10, <1>1
<1> QED BY <1>5, <1>11

\* The other changes of a tablet.
LEMMA TabletOps ==
    ASSUME NEW t \in Tablets
    PROVE  /\ Checkpoint(t) \in Tablets
           /\ \A l \in Nat, e \in Entry : Replicate(t, l, e) \in Tablets
           /\ \A s \in [cells : Contents, lsn : Nat, ver : Nat] : LoadSnapshot(s) \in Tablets
           /\ \A d \in [first : Int, entries : Seq(Entry)] : LoadDelta(t, d) \in Tablets
           /\ \A l \in Nat : DeltaAfter(t, l) \in [first : Int, entries : Seq(Entry)]
<1>1. Checkpoint(t) \in Tablets
  <2>1. t.ver + 1 \in Nat /\ <<>> \in Seq(Entry)
    BY DEF Tablets
  <2> QED BY <2>1 DEF Checkpoint, Tablets
<1>2. ASSUME NEW l \in Nat, NEW e \in Entry PROVE Replicate(t, l, e) \in Tablets
  BY WriteEffect DEF Replicate
<1>3. ASSUME NEW s \in [cells : Contents, lsn : Nat, ver : Nat]
      PROVE  LoadSnapshot(s) \in Tablets
  BY DEF LoadSnapshot, Tablets
<1>4. ASSUME NEW d \in [first : Int, entries : Seq(Entry)] PROVE LoadDelta(t, d) \in Tablets
  <2> DEFINE w == SubSeq(d.entries, t.lsn - d.first + 2, Len(d.entries))
  <2>1. CASE d.entries = <<>> \/ ~DeltaFits(t, d)
    BY <2>1 DEF LoadDelta
  <2>2. CASE ~(d.entries = <<>> \/ ~DeltaFits(t, d))
    <3>1. d.first <= t.lsn + 1 /\ t.lsn \in Nat /\ d.first \in Int
      BY <2>2 DEF DeltaFits, Tablets
    <3>2. w \in Seq(Entry)
      BY <3>1
    <3>3. WriteAll(t, w) \in Tablets
      <4> HIDE DEF w
      <4>1. PICK G \in [0..Len(w) -> Tablets] : WriteAll(t, w) = G[Len(w)]
        BY <3>2, WriteAllLoop
      <4> QED BY <3>2, <4>1
    <3> QED BY <2>2, <3>3 DEF LoadDelta
  <2> QED BY <2>1, <2>2
<1>5. ASSUME NEW l \in Nat
      PROVE  DeltaAfter(t, l) \in [first : Int, entries : Seq(Entry)]
  <2> DEFINE oldest == t.lsn - Len(t.wal) + 1
             skip   == IF l < oldest THEN 0 ELSE l - oldest + 1
  <2>1. t.wal \in Seq(Entry) /\ oldest \in Int /\ skip \in Nat
    BY DEF Tablets
  <2>2. SubSeq(t.wal, skip + 1, Len(t.wal)) \in Seq(Entry)
    BY <2>1
  <2>3. DeltaAfter(t, l) = [first |-> oldest + skip,
                            entries |-> SubSeq(t.wal, skip + 1, Len(t.wal))]
    BY DEF DeltaAfter
  <2> HIDE DEF oldest, skip
  <2> QED BY <2>1, <2>2, <2>3
<1> QED BY <1>1, <1>2, <1>3, <1>4, <1>5

\* The answer to a sync is a delta of the log or a snapshot to be copied.
LEMMA ResponseType ==
    ASSUME NEW t \in Tablets, NEW v \in Nat, NEW l \in Nat
    PROVE  LET resp == build_sync_response(t, v, l)
           IN  \/ /\ resp.kind = "delta" /\ resp.blob = DeltaAfter(t, l)
                  /\ resp.blob \in [first : Int, entries : Seq(Entry)]
               \/ /\ resp.kind = "copying"
                  /\ resp.blob \in [cells : Contents, lsn : Nat, ver : Nat]
                  /\ resp.blob.lsn = t.lsn
<1>1. Empty \in Contents
  BY DEF Empty, Contents
<1>2. t.lsn \in Nat /\ t.ver \in Nat
  BY DEF Tablets
<1>3. DeltaAfter(t, l) \in [first : Int, entries : Seq(Entry)]
  BY TabletOps
<1> QED BY <1>1, <1>2, <1>3 DEF build_sync_response

-----------------------------------------------------------------------------
(* Types. *)

\* The invariant holds when the nodes start.
LEMMA InitTypes == Init => TypeOK
<1> SUFFICES ASSUME Init PROVE TypeOK
  OBVIOUS
<1>1. Empty \in Contents
  BY DEF Empty, Contents
<1>2. tab \in [Nodes -> Tablets]
  BY <1>1 DEF Init, Tablets
<1>3. req \in [Requests -> Threads]
  BY DEF Init, Idle, Threads
<1>4. past \in Seq(Contents)
  BY <1>1 DEF Init
<1>5. /\ \A r \in Requests : req[r].pc = "new" /\ lock # r
      /\ lock = Nil /\ mid = "no" /\ late = {} /\ syncs = {} /\ crashes = 0
      /\ up \in [Nodes -> BOOLEAN]
  BY NilAssumption DEF Init, Idle
<1>6. 0 \in 0..MaxCrash
  BY BoundAssumption
<1> QED BY <1>2, <1>3, <1>4, <1>5, <1>6 DEF TypeOK, Busy

\* A client's request arrives.
LEMMA SubmitTypes ==
    ASSUME TypeOK, NEW r \in Requests, NEW o \in Ops, Submit(r, o)
    PROVE  TypeOK'
<1> USE DEF TypeOK, Submit
<1>1. req' \in [Requests -> Threads]
  <2>0. req[r] \in Threads
    OBVIOUS
  <2>1. [req[r] EXCEPT !.pc = "queued", !.op = o] \in Threads
    <3> HIDE DEF TypeOK, Submit
    <3> QED BY <2>0 DEF Threads
  <2> QED BY <2>1
<1>2. /\ req'[r].pc = "queued" /\ req'[r].op = o
      /\ \A q \in Requests : q # r => req'[q] = req[q]
  BY DEF Threads
<1> QED BY <1>1, <1>2 DEF Busy

\* The log entry of a write, or of the operation that undoes it.
LEMMA WriteLogTypes ==
    ASSUME TypeOK, NEW r \in Requests, NEW e \in Entry, NEW undo \in BOOLEAN,
           req[r].pc # "new", lock \in {Nil, r}, WriteLog(r, e, undo)
    PROVE  TypeOK'
<1> USE DEF TypeOK
<1>1. tab[P] \in Tablets /\ tab[P].cells \in Contents /\ tab[P].lsn \in Nat
  BY NodeAssumption DEF Tablets
<1>2. tab' \in [Nodes -> Tablets]
  <2>1. Write(tab[P], e) \in Tablets
    BY <1>1, WriteEffect
  <2>2. [Write(tab[P], e) EXCEPT !.cells = tab[P].cells] \in Tablets
    BY <1>1, <2>1 DEF Tablets
  <2> QED BY <2>2 DEF WriteLog
<1>3. past' \in Seq(Contents)
  BY <1>1, ApplyType DEF WriteLog
<1>4. req' \in [Requests -> Threads]
  <2>1. tab[P].cells[e.key] \in Vals \cup {Nil}
    BY <1>1 DEF Contents, Entry
  <2>2. /\ req[r].op \in Ops \cup {Nil} /\ tab[P].lsn + 1 \in Nat
        /\ {} \in SUBSET Replicas
    <3>1. req[r] \in Threads
      OBVIOUS
    <3> HIDE DEF TypeOK
    <3>2. req[r].op \in Ops \cup {Nil}
      BY <3>1 DEF Threads
    <3>3. tab[P].lsn + 1 \in Nat
      BY <1>1
    <3> QED BY <3>2, <3>3
  <2>3. [Idle EXCEPT !.pc = "rows", !.op = req[r].op, !.old = tab[P].cells[e.key],
                     !.lsn = tab[P].lsn + 1, !.entry = e, !.undo = undo] \in Threads
    BY <2>1, <2>2 DEF Threads, Idle
  <2> QED BY <2>3 DEF WriteLog
<1>5. /\ req'[r].pc = "rows" /\ req'[r].op = req[r].op /\ req'[r].entry = e
      /\ \A q \in Requests : q # r => req'[q] = req[q]
  BY DEF WriteLog, Idle
<1>6. mid' \in {"no", "put", "row"} /\ lock' = r
  BY DEF WriteLog
<1>7. up' = up /\ late' = late /\ syncs' = syncs /\ crashes' = crashes
  BY DEF WriteLog
<1> HIDE DEF TypeOK
<1> QED BY NilAssumption, <1>2, <1>3, <1>4, <1>5, <1>6, <1>7 DEF TypeOK, Busy

\* What the steps of a thread that holds the write lock make of its record.
LEMMA ThreadMoves ==
    ASSUME NEW q \in Threads, NEW n \in Replicas
    PROVE  /\ [q EXCEPT !.pc = "send", !.left = Replicas,
                        !.need = (Cardinality(Replicas) + 1) \div 2] \in Threads
           /\ [q EXCEPT !.pc = "send", !.left = @ \ {n}, !.target = Nil,
                        !.acked = @ + 1] \in Threads
           /\ [q EXCEPT !.pc = "send", !.left = @ \ {n}, !.target = Nil] \in Threads
           /\ [q EXCEPT !.pc = "send", !.target = Nil, !.left = @ \ {n}] \in Threads
           /\ [q EXCEPT !.pc = "repair", !.target = n] \in Threads
           /\ [q EXCEPT !.pc = "syncing"] \in Threads
           /\ [q EXCEPT !.pc = "again"] \in Threads
<1>1. (Cardinality(Replicas) + 1) \div 2 \in Nat
  <2>1. Cardinality(Replicas) \in Nat
    BY NodeAssumption, FS_RemoveElement, FS_CardinalityType DEF Replicas
  <2> QED BY <2>1
<1>2. q.left \ {n} \in SUBSET Replicas /\ q.acked + 1 \in Nat
  <2>1. q.left \in SUBSET Replicas
    BY DEF Threads
  <2>2. q.acked \in Nat
    BY DEF Threads
  <2> QED BY <2>1, <2>2
<1>3. [q EXCEPT !.pc = "send", !.left = Replicas,
                !.need = (Cardinality(Replicas) + 1) \div 2] \in Threads
  BY <1>1 DEF Threads
<1>4. [q EXCEPT !.pc = "send", !.left = @ \ {n}, !.target = Nil,
                !.acked = @ + 1] \in Threads
  BY <1>2 DEF Threads
<1>5. /\ [q EXCEPT !.pc = "send", !.left = @ \ {n}, !.target = Nil] \in Threads
      /\ [q EXCEPT !.pc = "send", !.target = Nil, !.left = @ \ {n}] \in Threads
  BY <1>2 DEF Threads
<1>6. [q EXCEPT !.pc = "repair", !.target = n] \in Threads
  BY DEF Threads
<1>7. [q EXCEPT !.pc = "syncing"] \in Threads /\ [q EXCEPT !.pc = "again"] \in Threads
  BY DEF Threads
<1> QED BY <1>3, <1>4, <1>5, <1>6, <1>7

\* The record of an answered request.
LEMMA FinishType ==
    ASSUME TypeOK, NEW r \in Requests, NEW l \in Nat,
           NEW res \in {"ok", "mismatch", "no quorum"}
    PROVE  /\ Finish(r, res, l) \in Threads /\ Finish(r, res, l).pc = "done"
           /\ Finish(r, res, l).op = req[r].op
           /\ Finish(r, res, l).lsn = l /\ Finish(r, res, l).result = res
<1>1. req[r] \in Threads
  BY DEF TypeOK
<1>2. req[r].op \in Ops \cup {Nil}
  BY <1>1 DEF Threads
<1>3. {} \in SUBSET Replicas
  OBVIOUS
<1>4. Finish(r, res, l) \in Threads
  BY <1>2, <1>3 DEF Finish, Idle, Threads
<1> QED BY <1>4 DEF Finish, Idle

\* A step of the thread that holds the write lock, which keeps it.
LEMMA MoveTypes ==
    ASSUME TypeOK, NEW r \in Requests, lock = r,
           req' \in [Requests -> Threads],
           \A q \in Requests : q # r => req'[q] = req[q],
           req'[r].op = req[r].op, req'[r].entry = req[r].entry, Busy(r)',
           req'[r].pc \in {"repair", "syncing", "again"} => req'[r].target \in req'[r].left,
           tab' \in [Nodes -> Tablets], mid' \in {"no", "put", "row"},
           late' \subseteq Messages, syncs' \subseteq Syncs,
           UNCHANGED <<up, lock, crashes, past>>
    PROVE  TypeOK'
<1>1. Busy(r) /\ req[r].entry \in Entry /\ req[r].pc # "new"
  BY DEF TypeOK, Busy
<1>2. \A q \in Requests : q # r => (Busy(q)' <=> Busy(q))
  BY DEF Busy
<1> QED BY <1>1, <1>2 DEF TypeOK

\* The write lock is taken, and a write may begin.
LEMMA StartTypes ==
    ASSUME TypeOK, NEW r \in Requests, Start(r)
    PROVE  TypeOK'
<1>1. req[r].op \in Ops /\ req[r].pc = "queued" /\ lock = Nil
  BY DEF Start, TypeOK
<1>2. ASSUME NEW res \in {"ok", "mismatch", "no quorum"},
             req' = [req EXCEPT ![r] = Finish(r, res, 0)],
             UNCHANGED <<up, tab, mid, lock, late, syncs, crashes, past>>
      PROVE  TypeOK'
  <2>1. /\ Finish(r, res, 0) \in Threads /\ Finish(r, res, 0).pc = "done"
        /\ Finish(r, res, 0).op = req[r].op
    <3>1. 0 \in Nat
      OBVIOUS
    <3>2. Finish(r, res, 0) \in Threads
      BY <3>1, FinishType
    <3>3. Finish(r, res, 0).pc = "done" /\ Finish(r, res, 0).op = req[r].op
      BY DEF Finish, Idle
    <3> QED BY <3>2, <3>3
  <2>2. req' \in [Requests -> Threads]
    BY <1>2, <2>1 DEF TypeOK
  <2>3. /\ req'[r].pc = "done" /\ req'[r].op = req[r].op
        /\ \A q \in Requests : q # r => req'[q] = req[q]
    BY <1>2, <2>1 DEF TypeOK
  <2>4. ~Busy(r)' /\ \A q \in Requests : q # r => (Busy(q)' <=> Busy(q))
    BY <2>3 DEF Busy
  <2>5. lock # r
    BY <1>1, NilAssumption
  <2> QED BY <1>1, <1>2, <2>2, <2>3, <2>4, <2>5 DEF TypeOK
<1>3. ASSUME WriteLog(r, [key |-> req[r].op.key, val |-> req[r].op.val], FALSE)
      PROVE  TypeOK'
  <2>1. [key |-> req[r].op.key, val |-> req[r].op.val] \in Entry
    BY <1>1 DEF Ops, Entry
  <2> QED BY <1>1, <1>3, <2>1, WriteLogTypes
<1> QED BY <1>2, <1>3 DEF Start

\* The rows of the write are updated.
LEMMA UpdateRowsTypes ==
    ASSUME TypeOK, NEW r \in Requests, UpdateRows(r)
    PROVE  TypeOK'
<1>1. lock = r /\ req[r] \in Threads /\ req[r].entry \in Entry
  BY DEF TypeOK, UpdateRows, Busy
<1>2. [req[r] EXCEPT !.pc = "send", !.left = Replicas,
                     !.need = (Cardinality(Replicas) + 1) \div 2] \in Threads
  <2>1. CASE Replicas = {}
    <3>1. (Cardinality(Replicas) + 1) \div 2 \in Nat
      BY <2>1, FS_EmptySet
    <3> QED BY <1>1, <3>1 DEF Threads
  <2>2. CASE Replicas # {}
    BY <1>1, <2>2, ThreadMoves
  <2> QED BY <2>1, <2>2
<1>3. req' \in [Requests -> Threads]
  BY <1>2 DEF TypeOK, UpdateRows
<1>4. /\ req'[r].op = req[r].op /\ req'[r].entry = req[r].entry /\ req'[r].pc = "send"
      /\ \A q \in Requests : q # r => req'[q] = req[q]
  BY <1>1 DEF UpdateRows, TypeOK, Threads
<1>5. tab' \in [Nodes -> Tablets]
  <2>1. tab[P] \in Tablets /\ Apply(tab[P].cells, req[r].entry) \in Contents
    BY <1>1, NodeAssumption, ApplyType DEF TypeOK, Tablets
  <2>2. [tab[P] EXCEPT !.cells = Apply(@, req[r].entry)] \in Tablets
    BY <2>1 DEF Tablets
  <2> QED BY <2>2 DEF UpdateRows, TypeOK
<1>6. /\ mid' = "no" /\ late' \subseteq Messages /\ syncs' \subseteq Syncs
      /\ UNCHANGED <<up, lock, crashes, past>>
  BY DEF UpdateRows, TypeOK
<1>7. Busy(r)'
  BY <1>4 DEF Busy
<1> QED BY <1>1, <1>3, <1>4, <1>5, <1>6, <1>7, MoveTypes

\* The replica has applied the operation, and says so.
LEMMA DeliveredTypes ==
    ASSUME TypeOK, NEW r \in Requests, lock = r, NEW n \in Replicas, Delivered(r, n),
           UNCHANGED <<up, mid, lock, syncs, crashes, past>>
    PROVE  TypeOK'
<1>1. req[r] \in Threads /\ req[r].lsn \in Nat /\ req[r].entry \in Entry /\ n \in Nodes
  BY DEF TypeOK, Busy, Threads, Replicas
<1>2. [req[r] EXCEPT !.pc = "send", !.left = @ \ {n}, !.target = Nil,
                     !.acked = @ + 1] \in Threads
  BY <1>1, ThreadMoves
<1>3. req' \in [Requests -> Threads]
  BY <1>2 DEF TypeOK, Delivered
<1>4. /\ req'[r].op = req[r].op /\ req'[r].entry = req[r].entry /\ req'[r].pc = "send"
      /\ \A q \in Requests : q # r => req'[q] = req[q]
  BY <1>1 DEF Delivered, TypeOK, Threads
<1>5. tab' \in [Nodes -> Tablets]
  <2>1. Replicate(tab[n], req[r].lsn, req[r].entry) \in Tablets
    BY <1>1, TabletOps DEF TypeOK
  <2> QED BY <2>1 DEF Delivered, TypeOK
<1>6. mid' \in {"no", "put", "row"} /\ late' \subseteq Messages /\ syncs' \subseteq Syncs
  BY DEF Delivered, TypeOK
<1>7. Busy(r)'
  BY <1>4 DEF Busy
<1> QED BY <1>1, <1>3, <1>4, <1>5, <1>6, <1>7, MoveTypes

\* The message is lost, refused or late.
LEMMA NotDeliveredTypes ==
    ASSUME TypeOK, NEW r \in Requests, lock = r, NEW n \in Replicas, NEW retried \in BOOLEAN,
           n \in req[r].left, NotDelivered(r, n, retried),
           UNCHANGED <<up, mid, lock, syncs, crashes, past>>
    PROVE  TypeOK'
<1>1. req[r] \in Threads /\ req[r].lsn \in Nat /\ req[r].entry \in Entry /\ n \in Nodes
  BY DEF TypeOK, Busy, Threads, Replicas
<1>2. late' \subseteq Messages
  <2>1. [to |-> n, lsn |-> req[r].lsn, entry |-> req[r].entry] \in Messages
    BY <1>1 DEF Messages
  <2> QED BY <2>1 DEF NotDelivered, TypeOK
<1>3. /\ [req[r] EXCEPT !.pc = "send", !.left = @ \ {n}, !.target = Nil] \in Threads
      /\ [req[r] EXCEPT !.pc = "repair", !.target = n] \in Threads
  BY <1>1, ThreadMoves
<1>4. req' \in [Requests -> Threads]
  BY <1>3 DEF TypeOK, NotDelivered
<1>5. /\ req'[r].op = req[r].op /\ req'[r].entry = req[r].entry
      /\ \A q \in Requests : q # r => req'[q] = req[q]
      /\ \/ req'[r].pc = "send"
         \/ req'[r].pc = "repair" /\ req'[r].target = n /\ req'[r].left = req[r].left
  BY <1>1 DEF NotDelivered, TypeOK, Threads
<1>6. /\ tab' \in [Nodes -> Tablets] /\ mid' \in {"no", "put", "row"}
      /\ syncs' \subseteq Syncs
  BY DEF NotDelivered, TypeOK
<1>7. Busy(r)'
  BY <1>5 DEF Busy
<1> QED BY <1>1, <1>2, <1>4, <1>5, <1>6, <1>7, MoveTypes

\* The repair of one replica is given up.
LEMMA GiveUpTypes ==
    ASSUME TypeOK, NEW r \in Requests, lock = r, req[r].target \in Replicas, GiveUp(r),
           tab' \in [Nodes -> Tablets], syncs' \subseteq Syncs,
           UNCHANGED <<up, mid, lock, late, crashes, past>>
    PROVE  TypeOK'
<1>1. req[r] \in Threads
  BY DEF TypeOK
<1>2. [req[r] EXCEPT !.pc = "send", !.target = Nil,
                     !.left = @ \ {req[r].target}] \in Threads
  BY <1>1, ThreadMoves
<1>3. req' \in [Requests -> Threads]
  BY <1>2 DEF TypeOK, GiveUp
<1>4. /\ req'[r].op = req[r].op /\ req'[r].entry = req[r].entry /\ req'[r].pc = "send"
      /\ \A q \in Requests : q # r => req'[q] = req[q]
  BY <1>1 DEF GiveUp, TypeOK, Threads
<1>5. mid' \in {"no", "put", "row"} /\ late' \subseteq Messages
  BY DEF TypeOK
<1>6. Busy(r)'
  BY <1>4 DEF Busy
<1> QED BY <1>1, <1>3, <1>4, <1>5, <1>6, MoveTypes

\* The thread goes on, at another position.
LEMMA GoOnTypes ==
    ASSUME TypeOK, NEW r \in Requests, lock = r, req[r].pc # "send", req[r].pc # "rows",
           NEW p \in {"syncing", "again"}, req' = [req EXCEPT ![r].pc = p],
           tab' \in [Nodes -> Tablets], syncs' \subseteq Syncs,
           UNCHANGED <<up, mid, lock, late, crashes, past>>
    PROVE  TypeOK'
<1>1. req[r] \in Threads /\ Busy(r) /\ req[r].target \in req[r].left
  BY DEF TypeOK, Busy
<1>2. [req[r] EXCEPT !.pc = p] \in Threads
  <2>1. req[r].target \in Replicas
    BY <1>1 DEF Threads
  <2> QED BY <1>1, <2>1, ThreadMoves
<1>3. req' \in [Requests -> Threads]
  BY <1>2 DEF TypeOK
<1>4. /\ req'[r].op = req[r].op /\ req'[r].entry = req[r].entry /\ req'[r].pc = p
      /\ req'[r].target = req[r].target /\ req'[r].left = req[r].left
      /\ \A q \in Requests : q # r => req'[q] = req[q]
  BY <1>1 DEF TypeOK, Threads
<1>5. mid' \in {"no", "put", "row"} /\ late' \subseteq Messages
  BY DEF TypeOK
<1>6. Busy(r)'
  BY <1>4 DEF Busy
<1> QED BY <1>1, <1>3, <1>4, <1>5, <1>6, MoveTypes

\* The thread's positions between the rows and the answer.
LEMMA Positions ==
    ASSUME TypeOK, NEW r \in Requests
    PROVE  /\ req[r].pc = "send" => lock = r
           /\ req[r].pc \in {"repair", "syncing", "again"} =>
                 lock = r /\ req[r].target \in req[r].left /\ req[r].target \in Replicas
           /\ req[r].left \subseteq Replicas
<1>1. req[r] \in Threads
  BY DEF TypeOK
<1>2. req[r].left \subseteq Replicas
  BY <1>1 DEF Threads
<1> QED BY <1>2 DEF TypeOK, Busy

\* A replica is asked, and asks the primary.
LEMMA AskTypes ==
    ASSUME TypeOK, NEW n \in Replicas, NEW r \in Requests \cup {Nil}, Ask(n, r)
    PROVE  syncs' \subseteq Syncs
<1>1. tab[n].ver \in Nat /\ tab[n].lsn \in Nat
  BY DEF TypeOK, Tablets, Replicas
<1>2. [node |-> n, req |-> r, kind |-> "asked",
       blob |-> [ver |-> tab[n].ver, lsn |-> tab[n].lsn]] \in Syncs
  BY <1>1 DEF Syncs
<1> QED BY <1>2 DEF Ask, TypeOK

\* The steps of a thread that forwards an operation or repairs a replica.
LEMMA ForwardTypes ==
    ASSUME TypeOK, NEW r \in Requests,
           \/ \E n \in Replicas : forward_to_replica(r, n)
           \/ forward_again(r) \/ resync_replica_from_self(r) \/ RepairTimeout(r)
    PROVE  TypeOK'
<1>1. ASSUME NEW n \in Replicas, forward_to_replica(r, n) PROVE TypeOK'
  BY <1>1, Positions, DeliveredTypes, NotDeliveredTypes DEF forward_to_replica
<1>2. ASSUME forward_again(r) PROVE TypeOK'
  BY <1>2, Positions, DeliveredTypes, NotDeliveredTypes DEF forward_again
<1>3. tab \in [Nodes -> Tablets] /\ syncs \subseteq Syncs
  BY DEF TypeOK
<1>4. ASSUME resync_replica_from_self(r) PROVE TypeOK'
  <2>1. req[r].pc = "repair" /\ lock = r /\ req[r].target \in Replicas
    BY <1>4, Positions DEF resync_replica_from_self
  <2>2. UNCHANGED <<up, tab, mid, lock, late, crashes, past>>
    BY <1>4 DEF resync_replica_from_self
  <2>3. CASE GiveUp(r) /\ UNCHANGED syncs
    BY <1>3, <2>1, <2>2, <2>3, GiveUpTypes
  <2>4. CASE Ask(req[r].target, r) /\ req' = [req EXCEPT ![r].pc = "syncing"]
    BY <1>3, <2>1, <2>2, <2>4, AskTypes, GoOnTypes
  <2> QED BY <1>4, <2>3, <2>4 DEF resync_replica_from_self
<1>5. ASSUME RepairTimeout(r) PROVE TypeOK'
  BY <1>3, <1>5, Positions, GiveUpTypes DEF RepairTimeout
<1> QED BY <1>1, <1>2, <1>4, <1>5

\* The loop over the replicas has ended.
LEMMA ConcludeTypes ==
    ASSUME TypeOK, NEW r \in Requests, Conclude(r)
    PROVE  TypeOK'
<1>1. lock = r /\ req[r].pc = "send" /\ req[r] \in Threads /\ req[r].entry \in Entry
  BY Positions DEF Conclude, TypeOK, Busy
<1>2. req[r].lsn \in Nat /\ req[r].old \in Vals \cup {Nil}
  BY <1>1 DEF Threads
<1>3. ASSUME NEW res \in {"ok", "mismatch", "no quorum"}, NEW l \in Nat, Return(r, res, l),
             UNCHANGED <<up, tab, mid, late, syncs, crashes, past>>
      PROVE  TypeOK'
  <2>1. Finish(r, res, l) \in Threads
    BY FinishType
  <2>2. Finish(r, res, l).pc = "done" /\ Finish(r, res, l).op = req[r].op
    BY DEF Finish, Idle
  <2>3. req' \in [Requests -> Threads]
    BY <1>3, <2>1 DEF TypeOK, Return
  <2>4. /\ req'[r].pc = "done" /\ req'[r].op = req[r].op
        /\ \A q \in Requests : q # r => req'[q] = req[q]
    BY <1>3, <2>2 DEF TypeOK, Return
  <2>5. ~Busy(r)' /\ \A q \in Requests : q # r => (Busy(q)' <=> Busy(q))
    BY <2>4 DEF Busy
  <2>6. lock' = Nil /\ \A q \in Requests : Nil # q
    BY <1>3, NilAssumption DEF Return
  <2>7. \A q \in Requests : q # r => ~Busy(q)
    BY <1>1 DEF TypeOK
  <2> QED BY <1>1, <1>3, <2>3, <2>4, <2>5, <2>6, <2>7 DEF TypeOK
<1>4. CASE Return(r, "ok", req[r].lsn) /\ UNCHANGED <<up, tab, mid, late, syncs, crashes, past>>
  BY <1>2, <1>3, <1>4
<1>5. CASE Return(r, "no quorum", 0) /\ UNCHANGED <<up, tab, mid, late, syncs, crashes, past>>
  <2>1. 0 \in Nat
    OBVIOUS
  <2> QED BY <2>1, <1>3, <1>5
<1>6. CASE WriteLog(r, UndoEntry(r), TRUE)
  <2>1. UndoEntry(r) \in Entry
    BY <1>1, <1>2 DEF UndoEntry, Entry
  <2> QED BY <1>1, <1>6, <2>1, WriteLogTypes
<1> QED BY <1>4, <1>5, <1>6 DEF Conclude

\* The primary's side of a sync.
LEMMA AnswerTypes ==
    ASSUME TypeOK, NEW s \in syncs, Answer(s) \/ snapshot_blob(s)
    PROVE  TypeOK'
<1>1. s \in Syncs /\ tab[P] \in Tablets
  BY NodeAssumption DEF TypeOK
<1>2. CASE Answer(s)
  <2> DEFINE resp == build_sync_response(tab[P], s.blob.ver, s.blob.lsn)
  <2>1. s.blob.ver \in Nat /\ s.blob.lsn \in Nat
    BY <1>1, <1>2 DEF Answer, Syncs
  <2>2. \/ resp.kind = "delta" /\ resp.blob \in [first : Int, entries : Seq(Entry)]
        \/ resp.kind = "copying" /\ resp.blob \in [cells : Contents, lsn : Nat, ver : Nat]
    BY <1>1, <2>1, ResponseType
  <2>3. /\ syncs' = (syncs \ {s}) \cup {[s EXCEPT !.kind = resp.kind, !.blob = resp.blob]}
        /\ UNCHANGED <<up, tab, mid, lock, req, late, crashes, past>>
    BY <1>2 DEF Answer
  <2> HIDE DEF resp
  <2>4. [s EXCEPT !.kind = resp.kind, !.blob = resp.blob] \in Syncs
    BY <1>1, <2>2 DEF Syncs
  <2> QED BY <2>3, <2>4 DEF TypeOK, Busy
<1>3. CASE snapshot_blob(s)
  <2>1. tab[P].cells \in Contents
    BY <1>1 DEF Tablets
  <2>2. s.blob \in [cells : Contents, lsn : Nat, ver : Nat]
    BY <1>1, <1>3 DEF snapshot_blob, Syncs
  <2>3. [s.blob EXCEPT !.cells = tab[P].cells] \in [cells : Contents, lsn : Nat, ver : Nat]
    BY <2>1, <2>2
  <2>4. [s EXCEPT !.kind = "snapshot", !.blob.cells = tab[P].cells] \in Syncs
    BY <1>1, <2>3 DEF Syncs
  <2>5. /\ syncs' = (syncs \ {s}) \cup
                       {[s EXCEPT !.kind = "snapshot", !.blob.cells = tab[P].cells]}
        /\ UNCHANGED <<up, tab, mid, lock, req, late, crashes, past>>
    BY <1>3 DEF snapshot_blob
  <2> QED BY <2>4, <2>5 DEF TypeOK, Busy
<1> QED BY <1>2, <1>3

\* A step that leaves the threads and the write lock alone.
LEMMA NodeTypes ==
    ASSUME TypeOK, tab' \in [Nodes -> Tablets], late' \subseteq late, syncs' \subseteq syncs,
           up' \in [Nodes -> BOOLEAN], crashes' \in 0..MaxCrash,
           UNCHANGED <<mid, lock, req, past>>
    PROVE  TypeOK'
  BY DEF TypeOK, Busy

\* The replica loads the answer.
LEMMA LoadTypes ==
    ASSUME TypeOK, NEW s \in syncs, Load(s)
    PROVE  TypeOK'
<1>1. s \in Syncs /\ s.node \in Replicas
  BY DEF TypeOK, Syncs
<1>2. tab' \in [Nodes -> Tablets]
  <2>1. tab[s.node] \in Tablets
    BY <1>1 DEF TypeOK, Replicas
  <2>2. CASE s.kind = "snapshot"
    <3>1. s.blob \in [cells : Contents, lsn : Nat, ver : Nat]
      BY <1>1, <2>2 DEF Syncs
    <3>2. LoadSnapshot(s.blob) \in Tablets
      BY <2>1, <3>1, TabletOps
    <3> QED BY <2>2, <3>2 DEF Load, TypeOK
  <2>3. CASE s.kind = "delta"
    <3>1. s.blob \in [first : Int, entries : Seq(Entry)]
      BY <1>1, <2>3 DEF Syncs
    <3>2. LoadDelta(tab[s.node], s.blob) \in Tablets
      BY <2>1, <3>1, TabletOps
    <3> QED BY <2>3, <3>2 DEF Load, TypeOK
  <2> QED BY <2>2, <2>3 DEF Load
<1>3. syncs' \subseteq Syncs /\ syncs' \subseteq syncs /\ UNCHANGED <<up, mid, lock, late, crashes, past>>
  BY DEF Load, TypeOK
<1>4. CASE UNCHANGED req
  BY <1>2, <1>3, <1>4, NodeTypes DEF TypeOK
<1>5. CASE Awaited(s) /\ (req' = [req EXCEPT ![s.req].pc = "again"] \/ GiveUp(s.req))
  <2>1. s.req \in Requests /\ req[s.req].pc = "syncing"
    BY <1>1, <1>5 DEF Awaited, Syncs
  <2>2. lock = s.req /\ req[s.req].target \in Replicas
    BY <2>1, Positions
  <2> QED BY <1>2, <1>3, <1>5, <2>1, <2>2, GoOnTypes, GiveUpTypes
<1> QED BY <1>4, <1>5 DEF Load

\* A replica is killed: repairs that wait for it go on.
LEMMA CrashTypes ==
    ASSUME TypeOK, NEW n \in Nodes, Crash(n)
    PROVE  TypeOK'
<1>1. n \in Replicas /\ UNCHANGED <<tab, mid, lock, past>>
  BY DEF Crash, Replicas
<1>2. \A q \in Requests :
         \/ req'[q] = req[q]
         \/ /\ req[q].pc = "syncing"
            /\ req'[q] = [req[q] EXCEPT !.pc = "send", !.left = @ \ {n}, !.target = Nil]
  BY DEF Crash
<1>3. ASSUME NEW q \in Requests PROVE req'[q] \in Threads
  <2>1. req[q] \in Threads
    BY DEF TypeOK
  <2>2. [req[q] EXCEPT !.pc = "send", !.left = @ \ {n}, !.target = Nil] \in Threads
    BY <1>1, <2>1, ThreadMoves
  <2> QED BY <1>2, <2>1, <2>2
<1>4. req' \in [Requests -> Threads]
  BY <1>3 DEF Crash
<1>5. ASSUME NEW q \in Requests
      PROVE  /\ Busy(q)' <=> Busy(q)
             /\ req'[q].entry = req[q].entry /\ req'[q].op = req[q].op
             /\ req'[q] = req[q] \/ (req[q].pc = "syncing" /\ req'[q].pc = "send")
  <2>1. req[q] \in Threads
    BY DEF TypeOK
  <2>2. CASE req'[q] = req[q]
    <3>1. req'[q].pc = req[q].pc /\ req'[q].entry = req[q].entry /\ req'[q].op = req[q].op
      BY <2>2
    <3>2. Busy(q)' <=> Busy(q)
      BY <3>1 DEF Busy
    <3> QED BY <2>2, <3>1, <3>2
  <2>3. CASE /\ req[q].pc = "syncing"
             /\ req'[q] = [req[q] EXCEPT !.pc = "send", !.left = @ \ {n}, !.target = Nil]
    <3>1. req'[q].pc = "send" /\ req'[q].entry = req[q].entry /\ req'[q].op = req[q].op
      BY <2>1, <2>3 DEF Threads
    <3> QED BY <2>3, <3>1 DEF Busy
  <2> QED BY <1>2, <2>2, <2>3
<1>6. late' \subseteq late /\ syncs' \subseteq syncs /\ up' \in [Nodes -> BOOLEAN]
  BY DEF Crash, TypeOK
<1>7. crashes' \in 0..MaxCrash
  <2>1. crashes \in 0..MaxCrash /\ crashes < MaxCrash /\ crashes' = crashes + 1
    BY DEF Crash, TypeOK
  <2> QED BY <2>1, BoundAssumption
<1> QED BY <1>1, <1>4, <1>5, <1>6, <1>7 DEF TypeOK

\* The other steps of the nodes.
LEMMA NodeStepTypes ==
    ASSUME TypeOK,
           \/ \E m \in late : HandleLate(m)
           \/ \E n \in Nodes : AutoCheckpoint(n) \/ Restart(n)
           \/ \E n \in Replicas : become_secondary_and_sync(n)
    PROVE  TypeOK'
<1>1. ASSUME NEW m \in late, HandleLate(m) PROVE TypeOK'
  <2>1. m \in Messages
    BY DEF TypeOK
  <2>2. m.to \in Nodes /\ m.lsn \in Nat /\ m.entry \in Entry
    BY <2>1 DEF Messages, Replicas
  <2>3. Replicate(tab[m.to], m.lsn, m.entry) \in Tablets
    BY <2>2, TabletOps DEF TypeOK
  <2>4. tab' \in [Nodes -> Tablets]
    BY <1>1, <2>3 DEF HandleLate, TypeOK
  <2> QED BY <1>1, <2>4, NodeTypes DEF HandleLate, TypeOK
<1>2. ASSUME NEW n \in Nodes, AutoCheckpoint(n) PROVE TypeOK'
  <2>1. Checkpoint(tab[n]) \in Tablets
    BY TabletOps DEF TypeOK
  <2>2. tab' \in [Nodes -> Tablets]
    BY <1>2, <2>1 DEF AutoCheckpoint, TypeOK
  <2> QED BY <1>2, <2>2, NodeTypes DEF AutoCheckpoint, TypeOK
<1>3. ASSUME NEW n \in Nodes, Restart(n) PROVE TypeOK'
  BY <1>3, NodeTypes DEF Restart, TypeOK
<1>4. ASSUME NEW n \in Replicas, become_secondary_and_sync(n) PROVE TypeOK'
  <2>1. syncs' \subseteq Syncs
    BY <1>4, AskTypes DEF become_secondary_and_sync
  <2> QED BY <1>4, <2>1 DEF become_secondary_and_sync, TypeOK, Busy
<1> QED BY <1>1, <1>2, <1>3, <1>4

\* Every step preserves the types.
LEMMA NextTypes == TypeOK /\ [Next]_vars => TypeOK'
<1> SUFFICES ASSUME TypeOK, [Next]_vars PROVE TypeOK'
  OBVIOUS
<1>1. CASE UNCHANGED vars
  BY <1>1 DEF vars, TypeOK, Busy
<1>2. ASSUME NEW r \in Requests, Thread(r) PROVE TypeOK'
  BY <1>2, StartTypes, UpdateRowsTypes, ConcludeTypes, ForwardTypes DEF Thread
<1>3. ASSUME NEW s \in syncs, Answer(s) \/ snapshot_blob(s) \/ Load(s) PROVE TypeOK'
  BY <1>3, AnswerTypes, LoadTypes
<1>4. ASSUME NEW n \in Nodes, Crash(n) PROVE TypeOK'
  BY <1>4, CrashTypes
<1> QED BY <1>1, <1>2, <1>3, <1>4, SubmitTypes, NodeStepTypes DEF Next

\* Every variable keeps its type, whatever the syncs do, and the write lock
\* belongs to the one thread that is between its log entry and its answer.
THEOREM Types == Spec => []TypeOK
  BY InitTypes, NextTypes, PTL DEF Spec

-----------------------------------------------------------------------------
(* Steps that forward, repair, load and checkpoint.  They leave the history *)
(* and what the threads work on alone.                                      *)

\* The thread q keeps its work, and stays where it was or among the replicas.
Kept(q) ==
    /\ req'[q].op = req[q].op /\ req'[q].old = req[q].old
    /\ req'[q].lsn = req[q].lsn /\ req'[q].entry = req[q].entry
    /\ req'[q].need = req[q].need /\ req'[q].undo = req[q].undo
    /\ req'[q].result = req[q].result
    /\ req'[q].pc = "rows" <=> req[q].pc = "rows"
    /\ req'[q].pc = "done" <=> req[q].pc = "done"

\* The primary keeps its contents, and its log or loses it to a checkpoint.
Carry ==
    /\ UNCHANGED <<mid, lock, past>>
    /\ tab'[P].cells = tab[P].cells /\ tab'[P].lsn = tab[P].lsn
    /\ tab'[P].wal = tab[P].wal \/ tab'[P].wal = <<>>
    /\ \A q \in Requests : Kept(q)

\* The steps of which all this is so.
Background ==
    \/ \E r \in Requests : \/ \E n \in Replicas : forward_to_replica(r, n)
                           \/ forward_again(r) \/ resync_replica_from_self(r)
                           \/ RepairTimeout(r)
    \/ \E s \in syncs : Answer(s) \/ snapshot_blob(s) \/ Load(s)
    \/ \E m \in late : HandleLate(m)
    \/ \E n \in Nodes : AutoCheckpoint(n) \/ Crash(n) \/ Restart(n)
    \/ \E n \in Replicas : become_secondary_and_sync(n)

\* The records that those steps make of a thread's record.
Skips(q, n) ==
    {[q EXCEPT !.pc = "send", !.left = @ \ {n}, !.target = Nil],
     [q EXCEPT !.pc = "send", !.target = Nil, !.left = @ \ {n}],
     [q EXCEPT !.pc = "repair", !.target = n],
     [q EXCEPT !.pc = "syncing"],
     [q EXCEPT !.pc = "again"]}

Moves(q, n) ==
    {[q EXCEPT !.pc = "send", !.left = @ \ {n}, !.target = Nil, !.acked = @ + 1]}
        \cup Skips(q, n)

\* They keep its work.
LEMMA KeptMoves ==
    ASSUME TypeOK, NEW r \in Requests, NEW n,
           req[r].pc \in {"send", "repair", "syncing", "again"},
           req'[r] \in Moves(req[r], n)
    PROVE  Kept(r) /\ req'[r].pc \in {"send", "repair", "syncing", "again"}
<1>1. req[r] \in Threads
  BY DEF TypeOK
<1>2. /\ req'[r].op = req[r].op /\ req'[r].old = req[r].old
      /\ req'[r].lsn = req[r].lsn /\ req'[r].entry = req[r].entry
      /\ req'[r].need = req[r].need /\ req'[r].undo = req[r].undo
      /\ req'[r].result = req[r].result
  BY <1>1 DEF Threads, Moves, Skips
<1>3. req'[r].pc \in {"send", "repair", "syncing", "again"}
  BY <1>1 DEF Threads, Moves, Skips
<1> QED BY <1>2, <1>3 DEF Kept

\* The threads that take no part.
LEMMA KeptSame ==
    ASSUME NEW q, req'[q] = req[q]
    PROVE  Kept(q)
  BY DEF Kept

\* One thread moves, and the others do not.
LEMMA OneMoves ==
    ASSUME TypeOK, NEW r \in Requests, Kept(r),
           \A q \in Requests : q # r => req'[q] = req[q]
    PROVE  \A q \in Requests : Kept(q)
  BY KeptSame

\* Those steps leave the primary and the threads' work alone.
LEMMA BackgroundCarry ==
    ASSUME TypeOK, Background
    PROVE  Carry
<1>0. P \in Nodes /\ P \notin Replicas /\ Replicas \subseteq Nodes
  BY NodeAssumption DEF Replicas
<1>1. ASSUME NEW r \in Requests, NEW n \in Replicas, Delivered(r, n),
             req[r].pc \in {"send", "again"},
             UNCHANGED <<up, mid, lock, syncs, crashes, past>>
      PROVE  Carry
  <2>1. /\ req'[r] = [req[r] EXCEPT !.pc = "send", !.left = @ \ {n}, !.target = Nil,
                                    !.acked = @ + 1]
        /\ \A q \in Requests : q # r => req'[q] = req[q]
    BY <1>1 DEF Delivered, TypeOK
  <2>2. tab'[P] = tab[P]
    BY <1>0, <1>1 DEF Delivered, TypeOK
  <2>3. Kept(r)
    <3>1. req'[r] \in Moves(req[r], n)
      BY <2>1 DEF Moves, Skips
    <3> QED BY <1>1, <3>1, KeptMoves
  <2> QED BY <1>1, <2>1, <2>2, <2>3, OneMoves DEF Carry
<1>2. ASSUME NEW r \in Requests, NEW n \in Replicas, NEW retried \in BOOLEAN,
             NotDelivered(r, n, retried), req[r].pc \in {"send", "again"},
             UNCHANGED <<up, mid, lock, syncs, crashes, past>>
      PROVE  Carry
  <2>1. /\ \/ req'[r] = [req[r] EXCEPT !.pc = "send", !.left = @ \ {n}, !.target = Nil]
           \/ req'[r] = [req[r] EXCEPT !.pc = "repair", !.target = n]
        /\ \A q \in Requests : q # r => req'[q] = req[q]
    BY <1>2 DEF NotDelivered, TypeOK
  <2>2. tab' = tab
    BY <1>2 DEF NotDelivered
  <2>3. Kept(r)
    <3>1. req'[r] \in Moves(req[r], n)
      BY <2>1 DEF Moves, Skips
    <3> QED BY <1>2, <3>1, KeptMoves
  <2> QED BY <1>2, <2>1, <2>2, <2>3, OneMoves DEF Carry
<1>3. ASSUME NEW r \in Requests, GiveUp(r) \/ req' = [req EXCEPT ![r].pc = "again"]
                                           \/ req' = [req EXCEPT ![r].pc = "syncing"],
             req[r].pc \in {"repair", "syncing"},
             UNCHANGED <<mid, lock, past>>, tab'[P] = tab[P]
      PROVE  Carry
  <2>1. /\ \/ \E n : req'[r] = [req[r] EXCEPT !.pc = "send", !.target = Nil, !.left = @ \ {n}]
           \/ req'[r] = [req[r] EXCEPT !.pc = "again"]
           \/ req'[r] = [req[r] EXCEPT !.pc = "syncing"]
        /\ \A q \in Requests : q # r => req'[q] = req[q]
    BY <1>3 DEF GiveUp, TypeOK
  <2>2. Kept(r)
    <3>1. \E n : req'[r] \in Moves(req[r], n)
      BY <2>1 DEF Moves, Skips
    <3> QED BY <1>3, <3>1, KeptMoves
  <2> QED BY <1>3, <2>1, <2>2, OneMoves DEF Carry
<1>4. ASSUME req' = req, UNCHANGED <<mid, lock, past>>, tab'[P] = tab[P] PROVE Carry
  BY <1>4, KeptSame DEF Carry
<1>5. ASSUME NEW r \in Requests, NEW n \in Replicas, forward_to_replica(r, n) PROVE Carry
  BY <1>1, <1>2, <1>5 DEF forward_to_replica
<1>6. ASSUME NEW r \in Requests, forward_again(r) PROVE Carry
  <2>1. req[r].pc = "again" /\ req[r].target \in Replicas
    BY <1>6, Positions DEF forward_again
  <2> QED BY <1>1, <1>2, <1>6, <2>1 DEF forward_again
<1>7. ASSUME NEW r \in Requests, resync_replica_from_self(r) PROVE Carry
  BY <1>3, <1>7 DEF resync_replica_from_self
<1>8. ASSUME NEW r \in Requests, RepairTimeout(r) PROVE Carry
  BY <1>3, <1>8 DEF RepairTimeout
<1>9. ASSUME NEW s \in syncs, Answer(s) \/ snapshot_blob(s) PROVE Carry
  BY <1>4, <1>9 DEF Answer, snapshot_blob
<1>10. ASSUME NEW s \in syncs, Load(s) PROVE Carry
  <2>1. s.node \in Replicas /\ s.req \in Requests \cup {Nil}
    BY DEF TypeOK, Syncs
  <2>2. tab'[P] = tab[P] /\ UNCHANGED <<mid, lock, past>>
    BY <1>0, <1>10, <2>1 DEF Load, TypeOK
  <2> QED BY <1>3, <1>4, <1>10, <2>1, <2>2 DEF Load, Awaited
<1>11. ASSUME NEW m \in late, HandleLate(m) PROVE Carry
  <2>1. m.to \in Replicas
    BY DEF TypeOK, Messages
  <2>2. tab'[P] = tab[P]
    BY <1>0, <1>11, <2>1 DEF HandleLate, TypeOK
  <2> QED BY <1>4, <1>11, <2>2 DEF HandleLate
<1>12. ASSUME NEW n \in Nodes, AutoCheckpoint(n) PROVE Carry
  <2>1. tab'[P] = tab[P] \/ tab'[P] = Checkpoint(tab[P])
    BY <1>0, <1>12 DEF AutoCheckpoint, TypeOK
  <2>2. /\ Checkpoint(tab[P]).cells = tab[P].cells /\ Checkpoint(tab[P]).lsn = tab[P].lsn
        /\ Checkpoint(tab[P]).wal = <<>>
    <3>1. tab[P] \in Tablets
      BY <1>0 DEF TypeOK
    <3> QED BY <3>1 DEF Checkpoint, Tablets
  <2>3. UNCHANGED <<mid, lock, past, req>>
    BY <1>12 DEF AutoCheckpoint
  <2> QED BY <2>1, <2>2, <2>3, KeptSame DEF Carry
<1>13. ASSUME NEW n \in Nodes, Crash(n) PROVE Carry
  <2>1. ASSUME NEW q \in Requests PROVE Kept(q)
    <3>1. \/ req'[q] = req[q]
          \/ /\ req[q].pc = "syncing"
             /\ req'[q] = [req[q] EXCEPT !.pc = "send", !.left = @ \ {n}, !.target = Nil]
      BY <1>13 DEF Crash
    <3>2. req'[q] = req[q] \/ (req[q].pc = "syncing" /\ req'[q] \in Moves(req[q], n))
      BY <3>1 DEF Moves, Skips
    <3> QED BY <3>2, KeptSame, KeptMoves
  <2> QED BY <1>13, <2>1 DEF Crash, Carry
<1>14. ASSUME NEW n \in Nodes, Restart(n) PROVE Carry
  BY <1>4, <1>14 DEF Restart
<1>15. ASSUME NEW n \in Replicas, become_secondary_and_sync(n) PROVE Carry
  BY <1>4, <1>15 DEF become_secondary_and_sync
<1> QED BY <1>5, <1>6, <1>7, <1>8, <1>9, <1>10, <1>11, <1>12, <1>13, <1>14, <1>15
        DEF Background

-----------------------------------------------------------------------------
(* The history of the primary. *)

\* The thread between its log entry and its rows, and nobody else, has the
\* primary in the middle of an operation.
LEMMA Settled ==
    ASSUME TypeOK, HistoryInv, NEW r \in Requests, lock \in {Nil, r}, req[r].pc # "rows"
    PROVE  mid = "no" /\ tab[P].cells = past[tab[P].lsn + 1]
<1>1. \A q \in Requests : req[q].pc = "rows" => lock = q
  BY DEF TypeOK, Busy
<1>2. \A q \in Requests : req[q].pc # "rows"
  BY <1>1, NilAssumption
<1> QED BY <1>2 DEF HistoryInv

\* The numbers of the primary.
LEMMA PrimaryTypes ==
    ASSUME TypeOK
    PROVE  /\ P \in Nodes /\ tab[P] \in Tablets /\ tab[P].lsn \in Nat
           /\ tab[P].cells \in Contents /\ tab[P].wal \in Seq(Entry)
           /\ Len(tab[P].wal) \in Nat /\ past \in Seq(Contents)
  BY NodeAssumption DEF TypeOK, Tablets

\* Only a message that a thread gives up is left on a closed connection.
LEMMA LateGrows ==
    ASSUME Background, NEW m \in late', m \notin late
    PROVE  \E r \in Requests : /\ req[r].pc \in {"send", "again"}
                               /\ m.lsn = req[r].lsn /\ m.entry = req[r].entry
<1>1. ASSUME NEW r \in Requests, NEW n, Delivered(r, n) \/ NotDelivered(r, n, TRUE)
                                         \/ NotDelivered(r, n, FALSE)
      PROVE  m.lsn = req[r].lsn /\ m.entry = req[r].entry
  BY <1>1 DEF Delivered, NotDelivered
<1>2. ASSUME NEW r \in Requests, NEW n \in Replicas, forward_to_replica(r, n)
      PROVE  req[r].pc = "send" /\ m.lsn = req[r].lsn /\ m.entry = req[r].entry
  BY <1>1, <1>2 DEF forward_to_replica
<1>3. ASSUME NEW r \in Requests, forward_again(r)
      PROVE  req[r].pc = "again" /\ m.lsn = req[r].lsn /\ m.entry = req[r].entry
  BY <1>1, <1>3 DEF forward_again
<1>4. ASSUME NEW r \in Requests PROVE ~resync_replica_from_self(r) /\ ~RepairTimeout(r)
  BY DEF resync_replica_from_self, RepairTimeout
<1>5. ASSUME NEW s \in syncs PROVE ~Answer(s) /\ ~snapshot_blob(s) /\ ~Load(s)
  BY DEF Answer, snapshot_blob, Load
<1>6. ASSUME NEW n \in Nodes
      PROVE  /\ ~AutoCheckpoint(n) /\ ~Crash(n) /\ ~Restart(n)
             /\ ~become_secondary_and_sync(n)
  BY DEF AutoCheckpoint, Crash, Restart, become_secondary_and_sync
<1>7. ASSUME NEW k \in late PROVE ~HandleLate(k)
  BY DEF HandleLate
<1>8. Replicas \subseteq Nodes
  BY DEF Replicas
<1> QED BY <1>2, <1>3, <1>4, <1>5, <1>6, <1>7, <1>8 DEF Background

\* Background steps leave the history alone.
LEMMA BackgroundHistory ==
    ASSUME TypeOK, HistoryInv, Background
    PROVE  HistoryInv'
<1>1. Carry
  BY BackgroundCarry
<1>2. \A l, e : IsStep(l, e)' <=> IsStep(l, e)
  BY <1>1 DEF Carry, IsStep
<1>3. ASSUME NEW m \in late' PROVE IsStep(m.lsn, m.entry)
  <2>1. CASE m \in late
    BY <2>1 DEF HistoryInv
  <2>2. CASE m \notin late
    <3>1. PICK r \in Requests :
             /\ req[r].pc \in {"send", "again"}
             /\ m.lsn = req[r].lsn /\ m.entry = req[r].entry
      BY <2>2, LateGrows
    <3>2. lock = r
      BY <3>1, Positions
    <3> QED BY <3>1, <3>2 DEF HistoryInv
  <2> QED BY <2>1, <2>2
<1>4. /\ Len(past') = tab'[P].lsn + 1
      /\ Len(tab'[P].wal) <= tab'[P].lsn
      /\ \A i \in 1..Len(tab'[P].wal) :
            IsStep(tab'[P].lsn - Len(tab'[P].wal) + i, tab'[P].wal[i])
  <2>1. CASE tab'[P].wal = tab[P].wal
    BY <1>1, <2>1 DEF Carry, HistoryInv
  <2>2. CASE tab'[P].wal = <<>>
    <3>1. Len(tab'[P].wal) = 0
      BY <2>2
    <3> QED BY <1>1, <3>1, PrimaryTypes DEF Carry, HistoryInv
  <2> QED BY <1>1, <2>1, <2>2 DEF Carry
<1>5. mid' = "no" => tab'[P].cells = past'[tab'[P].lsn + 1]
  BY <1>1 DEF Carry, HistoryInv
<1>6. ASSUME NEW r \in Requests
      PROVE  /\ lock' = r => req'[r].lsn = tab'[P].lsn /\ IsStep(req'[r].lsn, req'[r].entry)
             /\ req'[r].pc = "rows" => mid' # "no" /\ tab'[P].cells = past'[tab'[P].lsn]
  BY <1>1 DEF Carry, Kept, HistoryInv
<1>7. mid' # "no" => \E r \in Requests : req'[r].pc = "rows"
  BY <1>1 DEF Carry, Kept, HistoryInv
<1> QED BY <1>2, <1>3, <1>4, <1>5, <1>6, <1>7 DEF HistoryInv

\* A new operation extends the history by a step.
LEMMA WriteLogHistory ==
    ASSUME TypeOK, HistoryInv, NEW r \in Requests, NEW e \in Entry, NEW undo \in BOOLEAN,
           lock \in {Nil, r}, req[r].pc # "rows", WriteLog(r, e, undo)
    PROVE  HistoryInv'
<1> DEFINE L == tab[P].lsn
           W == tab[P].wal
<1>1. /\ P \in Nodes /\ tab[P] \in Tablets /\ L \in Nat /\ tab[P].cells \in Contents
      /\ W \in Seq(Entry) /\ past \in Seq(Contents) /\ Len(W) \in Nat
  BY PrimaryTypes
<1>2. /\ Len(past) = L + 1 /\ Len(W) <= L /\ mid = "no" /\ tab[P].cells = past[L + 1]
      /\ \A i \in 1..Len(W) : IsStep(L - Len(W) + i, W[i])
      /\ \A m \in late : IsStep(m.lsn, m.entry)
  BY Settled DEF HistoryInv
<1>3. tab'[P].cells = tab[P].cells /\ tab'[P].lsn = L + 1 /\ tab'[P].wal = Append(W, e)
  <2>1. /\ Write(tab[P], e) \in Tablets /\ Write(tab[P], e).lsn = L + 1
        /\ Write(tab[P], e).wal = Append(W, e)
    BY <1>1, WriteEffect
  <2>2. tab'[P] = [Write(tab[P], e) EXCEPT !.cells = tab[P].cells]
    BY <1>1 DEF WriteLog, TypeOK
  <2> QED BY <2>1, <2>2 DEF Tablets
<1>4. past' = Append(past, Apply(tab[P].cells, e))
  BY DEF WriteLog
<1>5. /\ Len(past') = L + 2 /\ past'[L + 2] = Apply(tab[P].cells, e)
      /\ \A i \in 1..L + 1 : past'[i] = past[i]
  <2>1. Apply(tab[P].cells, e) \in Contents
    BY <1>1, ApplyType
  <2> QED BY <1>1, <1>2, <1>4, <2>1
<1>6. ASSUME NEW l \in Int, NEW f, IsStep(l, f) PROVE IsStep(l, f)'
  <2>1. l \in 1..L /\ past[l + 1] = Apply(past[l], f)
    BY <1>6 DEF IsStep
  <2>2. l \in 1..L + 1 /\ l + 1 \in 1..L + 1
    BY <1>1, <2>1
  <2> QED BY <1>3, <1>5, <2>1, <2>2 DEF IsStep
<1>7. ASSUME NEW l, l = L + 1 PROVE IsStep(l, e)'
  <2>1. L + 1 \in 1..L + 1 /\ (L + 1) + 1 = L + 2
    BY <1>1
  <2>2. past'[(L + 1) + 1] = Apply(past'[L + 1], e)
    BY <1>2, <1>5, <2>1
  <2> QED BY <1>3, <1>7, <2>1, <2>2 DEF IsStep
<1>8. /\ Len(tab'[P].wal) = Len(W) + 1 /\ tab'[P].wal[Len(W) + 1] = e
      /\ \A i \in 1..Len(W) : tab'[P].wal[i] = W[i]
  BY <1>1, <1>3
<1>9. ASSUME NEW i \in 1..Len(W) + 1
      PROVE  IsStep(tab[P].lsn - Len(tab[P].wal) + i, tab[P].wal[i])'
  <2>1. tab'[P].lsn - Len(tab'[P].wal) + i = L - Len(W) + i
    <3>1. tab'[P].lsn = L + 1 /\ Len(tab'[P].wal) = Len(W) + 1 /\ i \in Int
      BY <1>1, <1>3, <1>8
    <3> HIDE DEF L, W
    <3> QED BY <1>1, <3>1
  <2>2. CASE i = Len(W) + 1
    <3>1. L - Len(W) + i = L + 1
      BY <1>1, <2>2
    <3>2. tab'[P].wal[i] = e
      BY <1>8, <2>2
    <3> HIDE DEF L, W
    <3> QED BY <1>7, <2>1, <3>1, <3>2
  <2>3. CASE i # Len(W) + 1
    <3>1. i \in 1..Len(W) /\ L - Len(W) + i \in Int
      BY <1>1, <2>3
    <3>2. tab'[P].wal[i] = W[i]
      BY <1>8, <3>1
    <3> HIDE DEF L, W
    <3> QED BY <1>2, <1>6, <2>1, <3>1, <3>2
  <2> QED BY <2>2, <2>3
<1>10. /\ req'[r].pc = "rows" /\ req'[r].lsn = L + 1 /\ req'[r].entry = e
       /\ \A q \in Requests : q # r => req'[q] = req[q]
       /\ lock' = r /\ mid' # "no" /\ late' = late
  BY DEF WriteLog, Idle, TypeOK
<1>11. \A q \in Requests : q # r => req[q].pc # "rows"
  BY NilAssumption DEF TypeOK, Busy
<1>12. \A m \in late : m.lsn \in Int
  BY DEF TypeOK, Messages
<1>13. \A m \in late' : IsStep(m.lsn, m.entry)'
  BY <1>2, <1>6, <1>10, <1>12
<1>14. /\ Len(past') = tab'[P].lsn + 1
       /\ Len(tab'[P].wal) <= tab'[P].lsn
       /\ \A i \in 1..Len(tab'[P].wal) :
             IsStep(tab[P].lsn - Len(tab[P].wal) + i, tab[P].wal[i])'
  <2> HIDE DEF L, W
  <2>1. Len(past') = tab'[P].lsn + 1 /\ Len(tab'[P].wal) <= tab'[P].lsn
    BY <1>1, <1>2, <1>3, <1>5, <1>8
  <2> QED BY <1>8, <1>9, <2>1
<1>15. tab'[P].cells = past'[tab'[P].lsn]
  BY <1>1, <1>2, <1>3, <1>5
<1>16. req'[r].lsn = tab'[P].lsn /\ IsStep(req[r].lsn, req[r].entry)'
  <2> HIDE DEF L, W
  <2> QED BY <1>3, <1>7, <1>10
<1> HIDE DEF L, W
<1> QED BY <1>10, <1>11, <1>13, <1>14, <1>15, <1>16 DEF HistoryInv

\* The primary reaches the state its history already has.
LEMMA UpdateRowsHistory ==
    ASSUME TypeOK, HistoryInv, NEW r \in Requests, UpdateRows(r)
    PROVE  HistoryInv'
<1>1. /\ P \in Nodes /\ tab[P] \in Tablets /\ tab[P].lsn \in Nat
  BY PrimaryTypes
<1>2. /\ tab'[P].cells = Apply(tab[P].cells, req[r].entry)
      /\ tab'[P].lsn = tab[P].lsn /\ tab'[P].wal = tab[P].wal
  BY <1>1 DEF UpdateRows, TypeOK, Tablets
<1>3. lock = r /\ req[r].pc = "rows" /\ req[r] \in Threads
  BY DEF UpdateRows, TypeOK, Busy
<1>4. /\ req'[r].pc = "send" /\ req'[r].lsn = req[r].lsn /\ req'[r].entry = req[r].entry
      /\ \A q \in Requests : q # r => req'[q] = req[q]
  BY <1>3 DEF UpdateRows, TypeOK, Threads
<1>5. mid' = "no" /\ UNCHANGED <<lock, late, past>>
  BY DEF UpdateRows
<1>6. \A l, f : IsStep(l, f)' <=> IsStep(l, f)
  BY <1>2, <1>5 DEF IsStep
<1>7. tab'[P].cells = past'[tab'[P].lsn + 1]
  BY <1>2, <1>3, <1>5 DEF HistoryInv, IsStep
<1>8. \A q \in Requests : req'[q].pc # "rows"
  BY <1>3, <1>4 DEF TypeOK, Busy
<1>9. \A q \in Requests : lock' = q => /\ req'[q].lsn = tab'[P].lsn
                                       /\ IsStep(req'[q].lsn, req'[q].entry)
  BY <1>2, <1>3, <1>4, <1>5 DEF HistoryInv
<1>10. /\ Len(past') = tab'[P].lsn + 1 /\ Len(tab'[P].wal) <= tab'[P].lsn
       /\ \A i \in 1..Len(tab'[P].wal) :
             IsStep(tab'[P].lsn - Len(tab'[P].wal) + i, tab'[P].wal[i])
       /\ \A m \in late' : IsStep(m.lsn, m.entry)
  BY <1>2, <1>5 DEF HistoryInv
<1> QED BY <1>5, <1>6, <1>7, <1>8, <1>9, <1>10 DEF HistoryInv

\* A step that changes only the record of a thread without the write lock, or
\* takes the lock from it.
LEMMA QuietHistory ==
    ASSUME TypeOK, HistoryInv, NEW r \in Requests, lock \in {Nil, r}, lock' = Nil,
           req[r].pc # "rows", req'[r].pc # "rows",
           \A q \in Requests : q # r => req'[q] = req[q],
           UNCHANGED <<tab, mid, late, past>>
    PROVE  HistoryInv'
<1>1. \A l, f : IsStep(l, f)' <=> IsStep(l, f)
  BY DEF IsStep
<1>2. mid' = "no" /\ tab'[P].cells = past'[tab'[P].lsn + 1]
  BY Settled
<1>3. \A q \in Requests : req'[q].pc # "rows" /\ lock' # q
  BY NilAssumption DEF TypeOK, Busy
<1>4. /\ Len(past') = tab'[P].lsn + 1 /\ Len(tab'[P].wal) <= tab'[P].lsn
      /\ \A i \in 1..Len(tab'[P].wal) :
            IsStep(tab'[P].lsn - Len(tab'[P].wal) + i, tab'[P].wal[i])
      /\ \A m \in late' : IsStep(m.lsn, m.entry)
  BY DEF HistoryInv
<1> QED BY <1>1, <1>2, <1>3, <1>4 DEF HistoryInv

\* A request arrives.
LEMMA SubmitHistory ==
    ASSUME TypeOK, HistoryInv, NEW r \in Requests, NEW o \in Ops, Submit(r, o)
    PROVE  HistoryInv'
<1>1. /\ req[r].pc = "new" /\ req'[r].pc = "queued" /\ lock # r
      /\ \A q \in Requests : q # r => req'[q] = req[q]
      /\ UNCHANGED <<tab, mid, lock, late, past>>
  <2>1. req[r] \in Threads
    BY DEF TypeOK
  <2> QED BY <2>1 DEF Submit, TypeOK, Threads, Busy
<1>2. \A l, f : IsStep(l, f)' <=> IsStep(l, f)
  BY <1>1 DEF IsStep
<1>3. \A q \in Requests : (lock = q \/ req'[q].pc = "rows") => req'[q] = req[q]
  BY <1>1
<1>4. mid' # "no" => \E q \in Requests : req'[q].pc = "rows"
  <2>1. \A q \in Requests : req[q].pc = "rows" => req'[q] = req[q]
    BY <1>1
  <2> QED BY <1>1, <2>1 DEF HistoryInv
<1> QED BY <1>1, <1>2, <1>3, <1>4 DEF HistoryInv

\* The write lock is taken.
LEMMA StartHistory ==
    ASSUME TypeOK, HistoryInv, NEW r \in Requests, Start(r)
    PROVE  HistoryInv'
<1>1. req[r].pc = "queued" /\ lock = Nil /\ req[r].op \in Ops
  BY DEF Start, TypeOK
<1>2. ASSUME NEW res, req' = [req EXCEPT ![r] = Finish(r, res, 0)],
             UNCHANGED <<up, tab, mid, lock, late, syncs, crashes, past>>
      PROVE  HistoryInv'
  <2>1. req'[r].pc = "done" /\ \A q \in Requests : q # r => req'[q] = req[q]
    BY <1>2 DEF Finish, Idle, TypeOK
  <2> QED BY <1>1, <1>2, <2>1, QuietHistory
<1>3. [key |-> req[r].op.key, val |-> req[r].op.val] \in Entry
  BY <1>1 DEF Ops, Entry
<1>4. ASSUME WriteLog(r, [key |-> req[r].op.key, val |-> req[r].op.val], FALSE)
      PROVE  HistoryInv'
  BY <1>1, <1>3, <1>4, WriteLogHistory
<1> QED BY <1>2, <1>4 DEF Start

\* The loop over the replicas has ended.
LEMMA ConcludeHistory ==
    ASSUME TypeOK, HistoryInv, NEW r \in Requests, Conclude(r)
    PROVE  HistoryInv'
<1>1. lock = r /\ req[r].pc = "send" /\ req[r] \in Threads /\ req[r].entry \in Entry
  BY Positions DEF Conclude, TypeOK, Busy
<1>2. ASSUME NEW res, NEW l, Return(r, res, l),
             UNCHANGED <<up, tab, mid, late, syncs, crashes, past>>
      PROVE  HistoryInv'
  <2>1. /\ req'[r].pc = "done" /\ \A q \in Requests : q # r => req'[q] = req[q]
        /\ lock' = Nil
    BY <1>2 DEF Return, Finish, Idle, TypeOK
  <2> QED BY <1>1, <1>2, <2>1, QuietHistory
<1>3. UndoEntry(r) \in Entry
  <2>1. req[r].old \in Vals \cup {Nil}
    BY <1>1 DEF Threads
  <2> QED BY <1>1, <2>1 DEF UndoEntry, Entry
<1>4. ASSUME WriteLog(r, UndoEntry(r), TRUE) PROVE HistoryInv'
  BY <1>1, <1>3, <1>4, WriteLogHistory
<1> QED BY <1>2, <1>4 DEF Conclude

\* The steps that are not in the background.
LEMMA Steps ==
    ASSUME Next
    PROVE  \/ \E r \in Requests, o \in Ops : Submit(r, o)
           \/ \E r \in Requests : Start(r) \/ UpdateRows(r) \/ Conclude(r)
           \/ Background
  BY DEF Next, Thread, Background

\* The history is right at the start.
LEMMA InitHistory == Init => HistoryInv
<1> SUFFICES ASSUME Init PROVE HistoryInv
  OBVIOUS
<1>1. TypeOK
  BY InitTypes
<1>2. /\ tab[P].lsn = 0 /\ tab[P].cells = Empty /\ tab[P].wal = <<>> /\ mid = "no"
      /\ past = <<Empty>> /\ late = {} /\ lock = Nil /\ \A r \in Requests : req[r].pc = "new"
  BY NodeAssumption DEF Init, Idle
<1>3. Len(past) = 1 /\ past[1] = Empty /\ Len(tab[P].wal) = 0 /\ 1..0 = {}
  BY <1>2
<1> QED BY <1>2, <1>3, NilAssumption DEF HistoryInv

\* Every step preserves the history.
LEMMA NextHistory == TypeOK /\ HistoryInv /\ [Next]_vars => HistoryInv'
<1> SUFFICES ASSUME TypeOK, HistoryInv, [Next]_vars PROVE HistoryInv'
  OBVIOUS
<1>1. CASE UNCHANGED vars
  BY <1>1 DEF vars, HistoryInv, IsStep
<1>2. CASE Next
  BY <1>2, Steps, SubmitHistory, StartHistory, UpdateRowsHistory, ConcludeHistory,
     BackgroundHistory
<1> QED BY <1>1, <1>2

\* The primary's log, the requests under way and the late messages are steps of
\* one history, whatever the syncs do.
THEOREM History == Spec => []HistoryInv
  BY InitTypes, NextTypes, InitHistory, NextHistory, PTL DEF Spec

-----------------------------------------------------------------------------
(* The acknowledged writes. *)

\* A cell whose value and winners stay.
LEMMA SameCell ==
    ASSUME NEW k \in Keys, AckedCell(k), Undone(k)' = Undone(k),
           \A q \in Requests : Won(q, k)' <=> Won(q, k),
           \A q \in Requests : Won(q, k) => /\ req'[q].lsn = req[q].lsn
                                            /\ req'[q].op.val = req[q].op.val
    PROVE  AckedCell(k)'
  BY DEF AckedCell

\* Background steps leave the acknowledged writes alone.
LEMMA BackgroundAcked ==
    ASSUME TypeOK, AckedInv, Background
    PROVE  AckedInv'
<1>1. Carry
  BY BackgroundCarry
<1>2. ASSUME NEW r \in Requests
      PROVE  /\ req'[r].pc # "done" => req'[r].result = "none"
             /\ req'[r].result = "ok" => req'[r].lsn <= tab'[P].lsn
             /\ req'[r].result = "ok" /\ lock' # Nil => req'[r].lsn < tab'[P].lsn
             /\ lock' = r /\ ~req'[r].undo => /\ req'[r].entry.key = req'[r].op.key
                                              /\ req'[r].entry.val = req'[r].op.val
             /\ lock' = r /\ req'[r].pc # "rows" =>
                   tab'[P].cells[req'[r].entry.key] = req'[r].entry.val
  BY <1>1 DEF Carry, Kept, AckedInv
<1>3. ASSUME NEW k \in Keys PROVE AckedCell(k)'
  <2>1. \A q \in Requests : /\ Won(q, k)' <=> Won(q, k)
                            /\ req'[q].lsn = req[q].lsn /\ req'[q].op.val = req[q].op.val
    BY <1>1 DEF Carry, Kept, Won
  <2>2. Undone(k)' = Undone(k)
    BY <1>1 DEF Carry, Kept, Undone
  <2> QED BY <2>1, <2>2, SameCell DEF AckedInv
<1> QED BY <1>2, <1>3 DEF AckedInv

\* A step that gives one thread a record without an acknowledged write.
LEMMA QuietAcked ==
    ASSUME TypeOK, AckedInv, NEW r \in Requests,
           \A q \in Requests : q # r => req'[q] = req[q],
           req[r].result # "ok",
           req'[r].result # "ok" \/ req'[r].lsn = 0,
           NEW k \in Keys, Undone(k)' = Undone(k)
    PROVE  AckedCell(k)'
<1>1. \A q \in Requests : Won(q, k)' <=> Won(q, k)
  BY DEF Won
<1>2. \A q \in Requests : Won(q, k) => req'[q] = req[q]
  BY DEF Won
<1> QED BY <1>1, <1>2, SameCell DEF AckedInv

\* A request arrives.
LEMMA SubmitAcked ==
    ASSUME TypeOK, AckedInv, NEW r \in Requests, NEW o \in Ops, Submit(r, o)
    PROVE  AckedInv'
<1>1. /\ req[r].pc = "new" /\ req'[r].pc = "queued" /\ lock # r
      /\ req'[r].result = req[r].result
      /\ \A q \in Requests : q # r => req'[q] = req[q]
      /\ UNCHANGED <<tab, mid, lock, late, past>>
  <2>1. req[r] \in Threads
    BY DEF TypeOK
  <2> QED BY <2>1 DEF Submit, TypeOK, Threads, Busy
<1>2. req[r].result = "none"
  BY <1>1 DEF AckedInv
<1>3. ASSUME NEW k \in Keys PROVE AckedCell(k)'
  <2>1. Undone(k)' = Undone(k)
    BY <1>1 DEF Undone
  <2> QED BY <1>1, <1>2, <2>1, QuietAcked
<1>4. ASSUME NEW q \in Requests
      PROVE  /\ req'[q].pc # "done" => req'[q].result = "none"
             /\ req'[q].result = "ok" => req'[q].lsn <= tab'[P].lsn
             /\ req'[q].result = "ok" /\ lock' # Nil => req'[q].lsn < tab'[P].lsn
             /\ lock' = q /\ ~req'[q].undo => /\ req'[q].entry.key = req'[q].op.key
                                              /\ req'[q].entry.val = req'[q].op.val
             /\ lock' = q /\ req'[q].pc # "rows" =>
                   tab'[P].cells[req'[q].entry.key] = req'[q].entry.val
  <2>1. CASE q = r
    BY <1>1, <1>2, <2>1
  <2>2. CASE q # r
    BY <1>1, <2>2 DEF AckedInv
  <2> QED BY <2>1, <2>2
<1> QED BY <1>3, <1>4 DEF AckedInv

\* A log entry leaves the undone contents as they are: a write remembers the
\* value that it replaces, and the operation that undoes it writes that value.
LEMMA WriteLogAcked ==
    ASSUME TypeOK, AckedInv, NEW r \in Requests, NEW e \in Entry, NEW undo \in BOOLEAN,
           req[r].pc \in {"queued", "send"}, lock \in {Nil, r}, WriteLog(r, e, undo),
           ~undo => lock = Nil /\ e.key = req[r].op.key /\ e.val = req[r].op.val,
           undo  => lock = r /\ ~req[r].undo /\ e = UndoEntry(r)
    PROVE  AckedInv'
<1>1. /\ P \in Nodes /\ tab[P] \in Tablets /\ tab[P].lsn \in Nat
      /\ tab[P].cells \in Contents
  BY PrimaryTypes
<1>2. tab'[P].cells = tab[P].cells /\ tab'[P].lsn = tab[P].lsn + 1
  <2>1. Write(tab[P], e) \in Tablets /\ Write(tab[P], e).lsn = tab[P].lsn + 1
    BY <1>1, WriteEffect
  <2>2. tab'[P] = [Write(tab[P], e) EXCEPT !.cells = tab[P].cells]
    BY <1>1 DEF WriteLog, TypeOK
  <2> QED BY <2>1, <2>2 DEF Tablets
<1>3. /\ req'[r].pc = "rows" /\ req'[r].entry = e /\ req'[r].undo = undo
      /\ req'[r].old = tab[P].cells[e.key] /\ req'[r].op = req[r].op
      /\ req'[r].result = "none"
      /\ \A q \in Requests : q # r => req'[q] = req[q]
      /\ lock' = r
  BY DEF WriteLog, Idle, TypeOK
<1>4. req[r].result = "none"
  BY DEF AckedInv
<1>5. ASSUME NEW k \in Keys PROVE AckedCell(k)'
  <2>1. Undone(k)' = IF e.key = k THEN (IF undo THEN e.val ELSE tab[P].cells[e.key])
                     ELSE tab[P].cells[k]
    BY <1>2, <1>3 DEF Undone
  <2>2. CASE ~undo
    <3>1. Undone(k) = tab[P].cells[k]
      BY <2>2, NilAssumption DEF Undone
    <3>2. Undone(k)' = Undone(k)
      BY <2>1, <2>2, <3>1
    <3> QED BY <1>3, <1>4, <3>2, QuietAcked
  <2>3. CASE undo
    <3>1. e.key = req[r].entry.key /\ e.val = req[r].old
      BY <2>3 DEF UndoEntry
    <3>2. Undone(k) = IF req[r].entry.key = k THEN req[r].old ELSE tab[P].cells[k]
      BY <2>3 DEF Undone
    <3>3. Undone(k)' = Undone(k)
      BY <2>1, <2>3, <3>1, <3>2
    <3> QED BY <1>3, <1>4, <3>3, QuietAcked
  <2> QED BY <2>2, <2>3
<1>6. ASSUME NEW q \in Requests
      PROVE  /\ req'[q].pc # "done" => req'[q].result = "none"
             /\ req'[q].result = "ok" => req'[q].lsn < tab'[P].lsn
             /\ lock' = q /\ ~req'[q].undo => /\ req'[q].entry.key = req'[q].op.key
                                              /\ req'[q].entry.val = req'[q].op.val
             /\ lock' = q => req'[q].pc = "rows"
  <2>1. CASE q = r
    BY <1>3, <2>1
  <2>2. CASE q # r
    <3>1. req[q].lsn \in Nat
      BY DEF TypeOK, Threads
    <3>2. req[q].result = "ok" => req[q].lsn <= tab[P].lsn
      BY DEF AckedInv
    <3>3. req[q].pc # "done" => req[q].result = "none"
      BY DEF AckedInv
    <3>4. req'[q].result = "ok" => req'[q].lsn < tab'[P].lsn
      BY <1>1, <1>2, <1>3, <2>2, <3>1, <3>2
    <3> QED BY <1>3, <2>2, <3>3, <3>4
  <2> QED BY <2>1, <2>2
<1>7. \A q \in Requests : req'[q].lsn \in Nat
  <2>1. req[r].pc # "new"
    OBVIOUS
  <2>2. TypeOK'
    BY <2>1, WriteLogTypes
  <2> QED BY <2>2 DEF TypeOK, Threads
<1>8. \A q \in Requests : req'[q].result = "ok" => req'[q].lsn <= tab'[P].lsn
  BY <1>1, <1>2, <1>6, <1>7
<1> QED BY <1>5, <1>6, <1>8 DEF AckedInv

\* The rows are written.
LEMMA UpdateRowsAcked ==
    ASSUME TypeOK, AckedInv, NEW r \in Requests, UpdateRows(r)
    PROVE  AckedInv'
<1>1. /\ P \in Nodes /\ tab[P] \in Tablets /\ tab[P].lsn \in Nat
      /\ tab[P].cells \in Contents
  BY PrimaryTypes
<1>2. /\ tab'[P].cells = Apply(tab[P].cells, req[r].entry)
      /\ tab'[P].lsn = tab[P].lsn
  BY <1>1 DEF UpdateRows, TypeOK, Tablets
<1>3. lock = r /\ req[r].pc = "rows" /\ req[r] \in Threads /\ req[r].entry \in Entry
  BY DEF UpdateRows, TypeOK, Busy
<1>4. /\ req'[r].pc = "send" /\ req'[r].lsn = req[r].lsn /\ req'[r].entry = req[r].entry
      /\ req'[r].op = req[r].op /\ req'[r].undo = req[r].undo /\ req'[r].old = req[r].old
      /\ req'[r].result = req[r].result
      /\ \A q \in Requests : q # r => req'[q] = req[q]
      /\ lock' = lock
  BY <1>3 DEF UpdateRows, TypeOK, Threads
<1>5. /\ tab'[P].cells[req[r].entry.key] = req[r].entry.val
      /\ \A k \in Keys : k # req[r].entry.key => tab'[P].cells[k] = tab[P].cells[k]
  BY <1>1, <1>2, <1>3 DEF Apply, Contents, Entry
<1>6. req[r].result = "none"
  BY <1>3 DEF AckedInv
<1>7. ASSUME NEW k \in Keys PROVE AckedCell(k)'
  <2>1. Undone(k)' = Undone(k)
    BY <1>3, <1>4, <1>5 DEF Undone
  <2> QED BY <1>4, <1>6, <2>1, QuietAcked
<1>8. ASSUME NEW q \in Requests
      PROVE  /\ req'[q].pc # "done" => req'[q].result = "none"
             /\ req'[q].result = "ok" => req'[q].lsn <= tab'[P].lsn
             /\ req'[q].result = "ok" /\ lock' # Nil => req'[q].lsn < tab'[P].lsn
             /\ lock' = q /\ ~req'[q].undo => /\ req'[q].entry.key = req'[q].op.key
                                              /\ req'[q].entry.val = req'[q].op.val
             /\ lock' = q /\ req'[q].pc # "rows" =>
                   tab'[P].cells[req'[q].entry.key] = req'[q].entry.val
  <2>1. CASE q = r
    BY <1>2, <1>3, <1>4, <1>5, <1>6, <2>1 DEF AckedInv
  <2>2. CASE q # r
    BY <1>2, <1>3, <1>4, <2>2 DEF AckedInv
  <2> QED BY <2>1, <2>2
<1> QED BY <1>7, <1>8 DEF AckedInv

\* What is left of the invariant when nobody holds the write lock.
LEMMA FreeAcked ==
    ASSUME AckedInv, NEW r \in Requests, lock' = Nil, UNCHANGED tab,
           \A q \in Requests : q # r => req'[q] = req[q],
           req'[r].pc = "done", req'[r].result = "ok" => req'[r].lsn <= tab[P].lsn,
           \A k \in Keys : AckedCell(k)'
    PROVE  AckedInv'
<1>1. \A q \in Requests : lock' # q
  BY NilAssumption
<1>2. ASSUME NEW q \in Requests
      PROVE  /\ req'[q].pc # "done" => req'[q].result = "none"
             /\ req'[q].result = "ok" => req'[q].lsn <= tab'[P].lsn
  <2>1. CASE q = r
    BY <2>1
  <2>2. CASE q # r
    BY <2>2 DEF AckedInv
  <2> QED BY <2>1, <2>2
<1> QED BY <1>1, <1>2 DEF AckedInv

\* The write lock is taken.
LEMMA StartAcked ==
    ASSUME TypeOK, AckedInv, NEW r \in Requests, Start(r)
    PROVE  AckedInv'
<1>1. /\ req[r].pc = "queued" /\ lock = Nil /\ req[r].op \in Ops
      /\ req[r].result = "none"
  BY DEF Start, TypeOK, AckedInv
<1>2. ASSUME NEW res, req' = [req EXCEPT ![r] = Finish(r, res, 0)],
             UNCHANGED <<up, tab, mid, lock, late, syncs, crashes, past>>
      PROVE  AckedInv'
  <2>1. /\ req'[r].pc = "done" /\ req'[r].lsn = 0
        /\ \A q \in Requests : q # r => req'[q] = req[q]
    BY <1>2 DEF Finish, Idle, TypeOK
  <2>2. ASSUME NEW k \in Keys PROVE AckedCell(k)'
    <3>1. Undone(k)' = Undone(k)
      BY <1>1, <1>2, NilAssumption DEF Undone
    <3> QED BY <1>1, <2>1, <3>1, QuietAcked
  <2>3. 0 <= tab[P].lsn
    BY PrimaryTypes
  <2> QED BY <1>1, <1>2, <2>1, <2>2, <2>3, FreeAcked
<1> DEFINE e == [key |-> req[r].op.key, val |-> req[r].op.val]
<1>3. e \in Entry
  BY <1>1 DEF Ops, Entry
<1>4. ASSUME WriteLog(r, e, FALSE) PROVE AckedInv'
  <2>1. e.key = req[r].op.key /\ e.val = req[r].op.val
    OBVIOUS
  <2> HIDE DEF e
  <2> QED BY <1>1, <1>3, <1>4, <2>1, WriteLogAcked
<1> QED BY <1>2, <1>4 DEF Start

\* The loop over the replicas has ended: the write is acknowledged, or is
\* undone, or has been undone.
LEMMA ConcludeAcked ==
    ASSUME TypeOK, HistoryInv, AckedInv, NEW r \in Requests, Conclude(r)
    PROVE  AckedInv'
<1>1. lock = r /\ req[r].pc = "send" /\ req[r] \in Threads /\ req[r].entry \in Entry
  BY Positions DEF Conclude, TypeOK, Busy
<1>2. /\ req[r].lsn = tab[P].lsn /\ req[r].lsn > 0 /\ req[r].lsn \in Nat
      /\ req[r].result = "none"
      /\ tab[P].cells[req[r].entry.key] = req[r].entry.val
  <2>1. req[r].lsn = tab[P].lsn /\ IsStep(req[r].lsn, req[r].entry)
    BY <1>1 DEF HistoryInv
  <2>2. req[r].result = "none" /\ tab[P].cells[req[r].entry.key] = req[r].entry.val
    BY <1>1 DEF AckedInv
  <2> QED BY <2>1, <2>2, PrimaryTypes DEF IsStep
<1>3. \A k \in Keys :
         Undone(k) = IF req[r].entry.key = k
                     THEN IF req[r].undo THEN req[r].entry.val ELSE req[r].old
                     ELSE tab[P].cells[k]
  BY <1>1 DEF Undone
<1>4. ASSUME NEW res, NEW l, Return(r, res, l)
      PROVE  /\ req'[r].pc = "done" /\ req'[r].lsn = l /\ req'[r].op = req[r].op
             /\ req'[r].result = res
             /\ \A q \in Requests : q # r => req'[q] = req[q]
             /\ lock' = Nil
  BY <1>4 DEF Return, Finish, Idle, TypeOK
<1>5. CASE /\ ~req[r].undo /\ Return(r, "ok", req[r].lsn)
           /\ UNCHANGED <<up, tab, mid, late, syncs, crashes, past>>
  <2>1. /\ req'[r].pc = "done" /\ req'[r].lsn = req[r].lsn /\ req'[r].op = req[r].op
        /\ req'[r].result = "ok" /\ lock' = Nil
        /\ \A q \in Requests : q # r => req'[q] = req[q]
    BY <1>4, <1>5
  <2>2. req[r].entry.key = req[r].op.key /\ req[r].entry.val = req[r].op.val
    BY <1>1, <1>5 DEF AckedInv
  <2>3. ASSUME NEW k \in Keys PROVE Undone(k)' = tab[P].cells[k]
    BY <1>5, <2>1, NilAssumption DEF Undone
  <2>4. ASSUME NEW k \in Keys PROVE AckedCell(k)'
    <3>1. CASE k # req[r].op.key
      <4>1. Undone(k)' = Undone(k)
        BY <1>3, <2>2, <2>3, <3>1
      <4>2. \A q \in Requests : Won(q, k)' <=> Won(q, k)
        BY <2>1, <3>1 DEF Won
      <4>3. \A q \in Requests : Won(q, k) => /\ req'[q].lsn = req[q].lsn
                                             /\ req'[q].op.val = req[q].op.val
        BY <2>1
      <4> QED BY <4>1, <4>2, <4>3, SameCell DEF AckedInv
    <3>2. CASE k = req[r].op.key
      <4>1. Undone(k)' = req'[r].op.val
        BY <1>2, <2>1, <2>2, <2>3, <3>2
      <4>2. Won(r, k)'
        BY <1>2, <2>1, <3>2 DEF Won
      <4>3. ASSUME NEW q \in Requests, q # r, Won(q, k)'
            PROVE  ~(req'[r].lsn <= req'[q].lsn)
        <5>1. req[q].result = "ok" /\ req'[q].lsn = req[q].lsn /\ req[q].lsn \in Nat
          BY <2>1, <4>3 DEF Won, TypeOK, Threads
        <5>2. req[q].lsn < tab[P].lsn
          BY <1>1, <5>1, NilAssumption DEF AckedInv
        <5> QED BY <1>2, <2>1, <5>1, <5>2
      <4> QED BY <4>1, <4>2, <4>3 DEF AckedCell
    <3> QED BY <3>1, <3>2
  <2>5. req[r].lsn <= tab[P].lsn
    BY <1>2
  <2> QED BY <1>5, <2>1, <2>4, <2>5, FreeAcked
<1>6. CASE /\ req[r].undo /\ Return(r, "no quorum", 0)
           /\ UNCHANGED <<up, tab, mid, late, syncs, crashes, past>>
  <2>1. /\ req'[r].pc = "done" /\ req'[r].lsn = 0
        /\ req'[r].result = "no quorum" /\ lock' = Nil
        /\ \A q \in Requests : q # r => req'[q] = req[q]
    BY <1>4, <1>6
  <2>2. ASSUME NEW k \in Keys PROVE AckedCell(k)'
    <3>1. Undone(k)' = tab[P].cells[k]
      BY <1>6, <2>1, NilAssumption DEF Undone
    <3>2. Undone(k)' = Undone(k)
      BY <1>2, <1>3, <1>6, <3>1
    <3> QED BY <1>2, <2>1, <3>2, QuietAcked
  <2> QED BY <1>6, <2>1, <2>2, FreeAcked
<1>7. CASE ~req[r].undo /\ WriteLog(r, UndoEntry(r), TRUE)
  <2>1. UndoEntry(r) \in Entry
    <3>1. req[r].old \in Vals \cup {Nil}
      BY <1>1 DEF Threads
    <3> QED BY <1>1, <3>1 DEF UndoEntry, Entry
  <2> QED BY <1>1, <1>7, <2>1, WriteLogAcked
<1> QED BY <1>5, <1>6, <1>7 DEF Conclude

\* Nothing is acknowledged at the start.
LEMMA InitAcked == Init => AckedInv
<1> SUFFICES ASSUME Init PROVE AckedInv
  OBVIOUS
<1>1. \A r \in Requests : /\ req[r].pc = "new" /\ req[r].result = "none"
                          /\ lock # r
  BY NilAssumption DEF Init, Idle
<1>2. \A k \in Keys : tab[P].cells[k] = Nil
  BY NodeAssumption DEF Init, Empty
<1>3. \A k \in Keys : Undone(k) = Nil
  BY <1>1, <1>2 DEF Undone
<1>4. \A k \in Keys, q \in Requests : ~Won(q, k)
  BY <1>1 DEF Won
<1> QED BY <1>1, <1>3, <1>4 DEF AckedInv, AckedCell

\* Every step preserves what is known of the acknowledged writes.
LEMMA NextAcked == TypeOK /\ HistoryInv /\ AckedInv /\ [Next]_vars => AckedInv'
<1> SUFFICES ASSUME TypeOK, HistoryInv, AckedInv, [Next]_vars PROVE AckedInv'
  OBVIOUS
<1>1. CASE UNCHANGED vars
  BY <1>1 DEF vars, AckedInv, AckedCell, Undone, Won
<1>2. CASE Next
  BY <1>2, Steps, SubmitAcked, StartAcked, UpdateRowsAcked, ConcludeAcked,
     BackgroundAcked
<1> QED BY <1>1, <1>2

\* Among the acknowledged writes to a cell one has the highest LSN.
LEMMA LastWon ==
    ASSUME TypeOK, AckedInv, NEW won, won # {},
           \A r \in won : r \in Requests /\ req[r].result = "ok"
    PROVE  \E r \in won : \A q \in won : req[q].lsn <= req[r].lsn
<1> DEFINE T == {tab[P].lsn - req[r].lsn : r \in won}
<1>1. \A r \in won : req[r].lsn \in Nat /\ req[r].lsn <= tab[P].lsn
  BY DEF TypeOK, Threads, AckedInv
<1>2. tab[P].lsn \in Nat
  BY PrimaryTypes
<1>3. T \in SUBSET Nat /\ T # {}
  BY <1>1, <1>2
<1>4. PICK x \in T : \A y \in T : x <= y
  BY <1>3, LeastNat
<1>5. PICK r \in won : x = tab[P].lsn - req[r].lsn
  BY <1>4
<1>6. ASSUME NEW q \in won PROVE req[q].lsn <= req[r].lsn
  <2>1. tab[P].lsn - req[r].lsn <= tab[P].lsn - req[q].lsn
    BY <1>4, <1>5
  <2> QED BY <1>1, <1>2, <2>1
<1> QED BY <1>6

\* Between writes the primary shows exactly the writes that were answered OK,
\* for any number of requests, keys and replicas and whatever the syncs do: a
\* write without a quorum is undone, and undoing it touches nothing else.
THEOREM PrimaryShowsAcked == Spec => []OnlyAcked
<1>1. TypeOK /\ AckedInv => OnlyAcked
  <2> SUFFICES ASSUME TypeOK, AckedInv, lock = Nil, NEW k \in Keys
               PROVE  LET won == {r \in Requests : /\ req[r].result = "ok" /\ req[r].lsn > 0
                                                   /\ req[r].op.key = k}
                      IN  tab[P].cells[k] =
                             IF won = {} THEN Nil
                             ELSE req[CHOOSE r \in won :
                                        \A q \in won : req[q].lsn <= req[r].lsn].op.val
    BY DEF OnlyAcked
  <2> DEFINE won == {r \in Requests : /\ req[r].result = "ok" /\ req[r].lsn > 0
                                      /\ req[r].op.key = k}
             Last(r) == r \in won /\ \A q \in won : req[q].lsn <= req[r].lsn
             last == CHOOSE r \in won : \A q \in won : req[q].lsn <= req[r].lsn
  <2>1. \A r \in Requests : r \in won <=> Won(r, k)
    BY DEF Won
  <2>2. Undone(k) = tab[P].cells[k]
    BY NilAssumption DEF Undone
  <2>3. CASE won = {}
    BY <2>1, <2>2, <2>3 DEF AckedInv, AckedCell
  <2>4. CASE won # {}
    <3>1. \E r \in won : \A q \in won : req[q].lsn <= req[r].lsn
      <4>1. \A r \in won : r \in Requests /\ req[r].result = "ok"
        OBVIOUS
      <4> HIDE DEF won
      <4> QED BY <2>4, <4>1, LastWon
    <3>2. last \in won /\ \A q \in won : req[q].lsn <= req[last].lsn
      <4> HIDE DEF won
      <4> QED BY <3>1
    <3>3. last \in Requests
      BY <3>2
    <3>4. Won(last, k) /\ \A q \in Requests : Won(q, k) => req[q].lsn <= req[last].lsn
      <4> HIDE DEF won, last
      <4> QED BY <2>1, <3>2, <3>3
    <3>5. Undone(k) = req[last].op.val
      <4> HIDE DEF won, last
      <4> QED BY <3>3, <3>4 DEF AckedInv, AckedCell
    <3> HIDE DEF won, last
    <3>6. tab[P].cells[k] = req[last].op.val
      BY <2>2, <3>5
    <3> QED BY <2>4, <3>6 DEF last, won
  <2> QED BY <2>3, <2>4
<1> QED BY <1>1, InitTypes, NextTypes, InitHistory, NextHistory, InitAcked, NextAcked, PTL
        DEF Spec

-----------------------------------------------------------------------------
(* The replicas, as long as no sync outlives the repair that asked for it. *)

\* A tablet whose contents are those the primary had at its LSN.
Exact(t) == t \in Tablets /\ t.lsn <= tab[P].lsn /\ t.cells = past[t.lsn + 1]

\* A REPLICATE keeps a tablet exact, and an acknowledged one is in it.
LEMMA ReplicateExact ==
    ASSUME TypeOK, HistoryInv, NEW t, Exact(t), NEW l \in Nat, NEW e \in Entry, IsStep(l, e)
    PROVE  LET u == Replicate(t, l, e)
           IN  Exact(u) /\ u.lsn >= t.lsn /\ (Accepts(t, l) => u.lsn >= l)
<1>1. t \in Tablets /\ t.lsn \in Nat /\ tab[P].lsn \in Nat
  BY PrimaryTypes DEF Exact, Tablets
<1>2. CASE l = t.lsn + 1
  <2>1. Replicate(t, l, e) = Write(t, e)
    BY <1>2 DEF Replicate
  <2>2. /\ Write(t, e) \in Tablets /\ Write(t, e).cells = Apply(t.cells, e)
        /\ Write(t, e).lsn = l
    BY <1>1, <1>2, WriteEffect
  <2>3. past[l + 1] = Apply(past[l], e) /\ l <= tab[P].lsn /\ t.cells = past[l]
    BY <1>1, <1>2 DEF IsStep, Exact
  <2> QED BY <1>1, <1>2, <2>1, <2>2, <2>3 DEF Exact
<1>3. CASE l # t.lsn + 1
  <2>1. Replicate(t, l, e) = t
    BY <1>3 DEF Replicate
  <2>2. Accepts(t, l) => t.lsn >= l
    BY <1>1, <1>3 DEF Accepts
  <2> QED BY <1>1, <2>1, <2>2
<1> QED BY <1>2, <1>3

\* A delta whose entries are steps of the history keeps a tablet exact.
LEMMA LoadDeltaExact ==
    ASSUME TypeOK, HistoryInv, NEW t, Exact(t),
           NEW d \in [first : Int, entries : Seq(Entry)],
           \A i \in 1..Len(d.entries) : IsStep(d.first + i - 1, d.entries[i])
    PROVE  Exact(LoadDelta(t, d)) /\ LoadDelta(t, d).lsn >= t.lsn
<1>1. t \in Tablets /\ t.lsn \in Nat /\ tab[P].lsn \in Nat
  BY PrimaryTypes DEF Exact, Tablets
<1>2. CASE d.entries = <<>> \/ ~DeltaFits(t, d)
  <2>1. LoadDelta(t, d) = t
    BY <1>2 DEF LoadDelta
  <2> QED BY <1>1, <2>1
<1>3. CASE ~(d.entries = <<>> \/ ~DeltaFits(t, d))
  <2> DEFINE m == t.lsn - d.first + 2
             w == SubSeq(d.entries, m, Len(d.entries))
  <2>1. d.first <= t.lsn + 1 /\ d.first \in Int /\ d.entries \in Seq(Entry)
    BY <1>3 DEF DeltaFits
  <2>2. m \in Nat /\ m >= 1 /\ Len(d.entries) \in Nat
    BY <1>1, <2>1
  <2>3. /\ w \in Seq(Entry) /\ Len(w) \in Nat
        /\ \A i \in 1..Len(w) : /\ m + i - 1 \in 1..Len(d.entries)
                                /\ w[i] = d.entries[m + i - 1]
    <3> HIDE DEF m
    <3> QED BY <2>1, <2>2, Suffix
  <2>4. LoadDelta(t, d) = WriteAll(t, w)
    BY <1>3 DEF LoadDelta
  <2>5. ASSUME NEW i \in 1..Len(w) PROVE IsStep(t.lsn + i, w[i])
    <3>1. IsStep(d.first + (m + i - 1) - 1, w[i])
      BY <2>3
    <3>2. d.first + (m + i - 1) - 1 = t.lsn + i
      <4>1. i \in Int
        BY <2>3
      <4> QED BY <1>1, <2>1, <4>1
    <3> QED BY <3>1, <3>2
  <2> HIDE DEF w, m
  <2>6. PICK G \in [0..Len(w) -> Tablets] :
           /\ G[0] = t
           /\ \A i \in 1..Len(w) : G[i] = Write(G[i - 1], w[i])
           /\ WriteAll(t, w) = G[Len(w)]
    BY <1>1, <2>3, WriteAllLoop
  <2> DEFINE S == {i \in 0..Len(w) : G[i].lsn = t.lsn + i /\ Exact(G[i])}
  <2>7. 0 \in S
    BY <1>1, <2>3, <2>6
  <2>8. ASSUME NEW i \in 0..Len(w) - 1, i \in S PROVE i + 1 \in S
    <3>1. i + 1 \in 1..Len(w) /\ (i + 1) - 1 = i /\ i \in 0..Len(w) /\ i \in Nat
      BY <2>3
    <3>2. G[i + 1] = Write(G[i], w[i + 1]) /\ w[i + 1] \in Entry /\ G[i] \in Tablets
      BY <2>3, <2>6, <3>1
    <3>3. /\ G[i + 1] \in Tablets /\ G[i + 1].cells = Apply(G[i].cells, w[i + 1])
          /\ G[i + 1].lsn = G[i].lsn + 1
      BY <3>2, WriteEffect
    <3>4. IsStep(t.lsn + (i + 1), w[i + 1])
      BY <2>5, <3>1
    <3>5. G[i].lsn = t.lsn + i /\ G[i].cells = past[t.lsn + i + 1]
      BY <2>8 DEF Exact
    <3>6. G[i + 1].lsn = t.lsn + (i + 1) /\ t.lsn + i + 1 = t.lsn + (i + 1)
      <4>1. t.lsn + i + 1 = t.lsn + (i + 1)
        BY <1>1, <3>1
      <4> QED BY <3>3, <3>5, <4>1
    <3>7. G[i + 1].lsn <= tab[P].lsn /\ G[i + 1].cells = past[G[i + 1].lsn + 1]
      BY <1>1, <3>3, <3>4, <3>5, <3>6 DEF IsStep
    <3> QED BY <3>1, <3>3, <3>6, <3>7 DEF Exact
  <2>9. 0..Len(w) \subseteq S
    <3> HIDE DEF S
    <3> QED BY <2>3, <2>7, <2>8, Induct
  <2>10. G[Len(w)].lsn = t.lsn + Len(w) /\ Exact(G[Len(w)])
    BY <2>3, <2>9
  <2> QED BY <1>1, <2>3, <2>4, <2>6, <2>10
<1> QED BY <1>2, <1>3

\* The primary's answer to a replica that asks carries steps of the history.
LEMMA DeltaAfterSteps ==
    ASSUME TypeOK, HistoryInv, NEW l \in Nat
    PROVE  LET d == DeltaAfter(tab[P], l)
           IN  \A i \in 1..Len(d.entries) : IsStep(d.first + i - 1, d.entries[i])
<1> DEFINE W      == tab[P].wal
           oldest == tab[P].lsn - Len(W) + 1
           skip   == IF l < oldest THEN 0 ELSE l - oldest + 1
           sub    == SubSeq(W, skip + 1, Len(W))
<1>1. W \in Seq(Entry) /\ Len(W) \in Nat /\ tab[P].lsn \in Nat
  BY PrimaryTypes
<1>2. oldest \in Int /\ skip \in Nat
  BY <1>1
<1>3. DeltaAfter(tab[P], l) = [first |-> oldest + skip, entries |-> sub]
  BY DEF DeltaAfter
<1>4. \A i \in 1..Len(sub) : skip + i \in 1..Len(W) /\ sub[i] = W[skip + i] /\ i \in Int
  <2> HIDE DEF W, skip
  <2> QED BY <1>1, <1>2
<1>5. ASSUME NEW i \in 1..Len(sub) PROVE IsStep((oldest + skip) + i - 1, sub[i])
  <2>1. IsStep(tab[P].lsn - Len(W) + (skip + i), W[skip + i])
    BY <1>4 DEF HistoryInv
  <2>2. (oldest + skip) + i - 1 = tab[P].lsn - Len(W) + (skip + i)
    <3>1. i \in Int
      BY <1>4
    <3>2. oldest = tab[P].lsn - Len(W) + 1
      OBVIOUS
    <3>3. skip \in Int /\ Len(W) \in Int /\ tab[P].lsn \in Int
      BY <1>1, <1>2
    <3>4. \A a, b, c, j \in Int : ((a - b + 1) + c) + j - 1 = a - b + (c + j)
      OBVIOUS
    <3> HIDE DEF skip, sub, oldest, W
    <3> QED BY <3>1, <3>2, <3>3, <3>4
  <2>3. sub[i] = W[skip + i]
    BY <1>4
  <2> HIDE DEF oldest, skip, sub, W
  <2> QED BY <2>1, <2>2, <2>3
<1> HIDE DEF oldest, skip, sub, W
<1> QED BY <1>3, <1>5

\* The tablet of one replica changes, and stays exact.
LEMMA OneTablet ==
    ASSUME TypeOK, ReplicaExact, NEW n \in Replicas, NEW t, Exact(t), t.lsn >= tab[n].lsn,
           tab' = [tab EXCEPT ![n] = t], past' = past
    PROVE  ReplicaExact' /\ \A k \in Nodes : tab'[k].lsn >= tab[k].lsn
<1>1. n \in Nodes /\ n # P /\ P \in Nodes
  BY NodeAssumption DEF Replicas
<1>2. tab'[n] = t /\ \A k \in Nodes : k # n => tab'[k] = tab[k]
  BY <1>1 DEF TypeOK
<1>3. \A k \in Nodes : tab[k].lsn \in Nat
  BY DEF TypeOK, Tablets
<1>4. ReplicaExact'
  BY <1>1, <1>2 DEF ReplicaExact, Exact, Replicas
<1>5. \A k \in Nodes : tab'[k].lsn >= tab[k].lsn
  BY <1>2, <1>3
<1> QED BY <1>4, <1>5

\* The tablets of the replicas.
LEMMA ReplicaTablets ==
    ASSUME TypeOK, ReplicaExact, NEW n \in Replicas
    PROVE  n \in Nodes /\ n # P /\ Exact(tab[n]) /\ tab[n].lsn \in Nat
  BY DEF TypeOK, ReplicaExact, Exact, Tablets, Replicas

\* A background step leaves every replica exact, and none goes back.
LEMMA BackgroundExact ==
    ASSUME TypeOK, HistoryInv, SyncInv, ReplicaExact, Background
    PROVE  ReplicaExact' /\ \A k \in Nodes : tab'[k].lsn >= tab[k].lsn
<1>0. past' = past
  BY BackgroundCarry DEF Carry
<1>1. ASSUME NEW r \in Requests, NEW n \in Replicas, Delivered(r, n), lock = r
      PROVE  ReplicaExact' /\ \A k \in Nodes : tab'[k].lsn >= tab[k].lsn
  <2>1. req[r].lsn \in Nat /\ req[r].entry \in Entry
    BY <1>1 DEF TypeOK, Threads, Busy
  <2>2. IsStep(req[r].lsn, req[r].entry)
    BY <1>1 DEF HistoryInv
  <2> DEFINE u == Replicate(tab[n], req[r].lsn, req[r].entry)
  <2>3. Exact(u) /\ u.lsn >= tab[n].lsn
    BY <2>1, <2>2, ReplicateExact, ReplicaTablets
  <2>4. tab' = [tab EXCEPT ![n] = u]
    BY <1>1 DEF Delivered
  <2> HIDE DEF u
  <2> QED BY <1>0, <2>3, <2>4, OneTablet
<1>2. ASSUME tab' = tab
      PROVE  ReplicaExact' /\ \A k \in Nodes : tab'[k].lsn >= tab[k].lsn
  BY <1>0, <1>2 DEF ReplicaExact, TypeOK, Tablets
<1>3. ASSUME NEW r \in Requests, NEW n \in Replicas, forward_to_replica(r, n)
      PROVE  ReplicaExact' /\ \A k \in Nodes : tab'[k].lsn >= tab[k].lsn
  <2>1. lock = r
    BY <1>3, Positions DEF forward_to_replica
  <2> QED BY <1>1, <1>2, <1>3, <2>1 DEF forward_to_replica, NotDelivered
<1>4. ASSUME NEW r \in Requests, forward_again(r)
      PROVE  ReplicaExact' /\ \A k \in Nodes : tab'[k].lsn >= tab[k].lsn
  <2>1. lock = r /\ req[r].target \in Replicas
    BY <1>4, Positions DEF forward_again
  <2> QED BY <1>1, <1>2, <1>4, <2>1 DEF forward_again, NotDelivered
<1>5. ASSUME NEW s \in syncs, Load(s)
      PROVE  ReplicaExact' /\ \A k \in Nodes : tab'[k].lsn >= tab[k].lsn
  <2>1. s \in Syncs /\ s.node \in Replicas /\ s.kind \in {"delta", "snapshot"}
    BY <1>5 DEF Load, TypeOK, Syncs
  <2>2. Exact(tab[s.node]) /\ tab[s.node].lsn \in Nat
    BY <2>1, ReplicaTablets
  <2>3. CASE s.kind = "snapshot"
    <3>1. s.blob \in [cells : Contents, lsn : Nat, ver : Nat]
      BY <2>1, <2>3 DEF Syncs
    <3>2. s.blob.lsn = tab[P].lsn /\ s.blob.cells = past[tab[P].lsn + 1]
      BY <2>3 DEF SyncInv
    <3>3. LoadSnapshot(s.blob) \in Tablets
      <4>1. tab[s.node] \in Tablets
        BY <2>2 DEF Exact
      <4> QED BY <3>1, <4>1, TabletOps
    <3>4. /\ LoadSnapshot(s.blob).lsn = tab[P].lsn
          /\ LoadSnapshot(s.blob).cells = past[tab[P].lsn + 1]
      BY <3>2 DEF LoadSnapshot
    <3>5. tab[P].lsn <= tab[P].lsn /\ tab[P].lsn >= tab[s.node].lsn
      BY <2>2, PrimaryTypes DEF Exact
    <3>6. Exact(LoadSnapshot(s.blob)) /\ LoadSnapshot(s.blob).lsn >= tab[s.node].lsn
      BY <3>3, <3>4, <3>5 DEF Exact
    <3>7. tab' = [tab EXCEPT ![s.node] = LoadSnapshot(s.blob)]
      BY <1>5, <2>3 DEF Load
    <3> QED BY <1>0, <2>1, <3>6, <3>7, OneTablet
  <2>4. CASE s.kind = "delta"
    <3>1. s.blob \in [first : Int, entries : Seq(Entry)]
      BY <2>1, <2>4 DEF Syncs
    <3>2. \A i \in 1..Len(s.blob.entries) : IsStep(s.blob.first + i - 1, s.blob.entries[i])
      BY <2>4 DEF SyncInv
    <3>3. /\ Exact(LoadDelta(tab[s.node], s.blob))
          /\ LoadDelta(tab[s.node], s.blob).lsn >= tab[s.node].lsn
      BY <2>2, <3>1, <3>2, LoadDeltaExact
    <3>4. tab' = [tab EXCEPT ![s.node] = LoadDelta(tab[s.node], s.blob)]
      BY <1>5, <2>4 DEF Load
    <3> QED BY <1>0, <2>1, <3>3, <3>4, OneTablet
  <2> QED BY <2>1, <2>3, <2>4
<1>6. ASSUME NEW m \in late, HandleLate(m)
      PROVE  ReplicaExact' /\ \A k \in Nodes : tab'[k].lsn >= tab[k].lsn
  <2>1. m.to \in Replicas /\ m.lsn \in Nat /\ m.entry \in Entry
    BY DEF TypeOK, Messages
  <2>2. IsStep(m.lsn, m.entry)
    BY DEF HistoryInv
  <2> DEFINE u == Replicate(tab[m.to], m.lsn, m.entry)
  <2>3. Exact(u) /\ u.lsn >= tab[m.to].lsn
    BY <2>1, <2>2, ReplicateExact, ReplicaTablets
  <2>4. tab' = [tab EXCEPT ![m.to] = u]
    BY <1>6 DEF HandleLate
  <2> HIDE DEF u
  <2> QED BY <1>0, <2>1, <2>3, <2>4, OneTablet
<1>7. ASSUME NEW n \in Nodes, AutoCheckpoint(n)
      PROVE  ReplicaExact' /\ \A k \in Nodes : tab'[k].lsn >= tab[k].lsn
  <2>1. \A k \in Nodes : tab'[k].lsn = tab[k].lsn /\ tab'[k].cells = tab[k].cells
    BY <1>7 DEF AutoCheckpoint, Checkpoint, TypeOK, Tablets
  <2>2. \A k \in Nodes : tab[k].lsn \in Nat
    BY DEF TypeOK, Tablets
  <2> QED BY <1>0, <2>1, <2>2, NodeAssumption DEF ReplicaExact, Replicas
<1>8. ASSUME NEW r \in Requests, resync_replica_from_self(r) \/ RepairTimeout(r)
      PROVE  tab' = tab
  BY <1>8 DEF resync_replica_from_self, RepairTimeout
<1>9. ASSUME NEW s \in syncs, Answer(s) \/ snapshot_blob(s) PROVE tab' = tab
  BY <1>9 DEF Answer, snapshot_blob
<1>10. ASSUME NEW n \in Nodes, Crash(n) \/ Restart(n) \/ become_secondary_and_sync(n)
       PROVE  tab' = tab
  BY <1>10 DEF Crash, Restart, become_secondary_and_sync
<1>11. Replicas \subseteq Nodes
  BY DEF Replicas
<1> QED BY <1>2, <1>3, <1>4, <1>5, <1>6, <1>7, <1>8, <1>9, <1>10, <1>11 DEF Background

\* A sync that somebody waits for holds the write lock's owner at its repair.
LEMMA WaitingOwner ==
    ASSUME TypeOK, AllAwaited, NEW s \in syncs
    PROVE  /\ s.req \in Requests /\ lock = s.req
           /\ req[s.req].pc = "syncing" /\ req[s.req].target = s.node
<1>1. s.req \in Requests \cup {Nil} /\ Awaited(s)
  BY DEF TypeOK, Syncs, AllAwaited
<1>2. s.req \in Requests /\ req[s.req].pc = "syncing" /\ req[s.req].target = s.node
  BY <1>1 DEF Awaited
<1> QED BY <1>2, Positions

\* A background step leaves in the syncs what they should carry.
LEMMA BackgroundSyncs ==
    ASSUME TypeOK, HistoryInv, SyncInv, AllAwaited, Background
    PROVE  SyncInv'
<1>0. past' = past /\ tab'[P].lsn = tab[P].lsn
  BY BackgroundCarry DEF Carry
<1>1. \A l, e : IsStep(l, e)' <=> IsStep(l, e)
  BY <1>0 DEF IsStep
<1> DEFINE Good(s) ==
       /\ s.kind \in {"copying", "snapshot"} => s.blob.lsn = tab[P].lsn
       /\ s.kind = "snapshot" => s.blob.cells = past[tab[P].lsn + 1]
       /\ s.kind = "delta" => \A i \in 1..Len(s.blob.entries) :
                                 IsStep(s.blob.first + i - 1, s.blob.entries[i])
<1>2. \A s \in syncs : Good(s)
  BY DEF SyncInv
<1>3. SUFFICES \A s \in syncs' : Good(s)
  BY <1>0, <1>1 DEF SyncInv
<1> HIDE DEF Good
<1>4. ASSUME NEW n, NEW r, Ask(n, r) PROVE \A s \in syncs' : Good(s)
  <2>1. PICK b : syncs' = syncs \cup {[node |-> n, req |-> r, kind |-> "asked", blob |-> b]}
    BY <1>4 DEF Ask
  <2>2. Good([node |-> n, req |-> r, kind |-> "asked", blob |-> b])
    BY DEF Good
  <2> QED BY <1>2, <2>1, <2>2
<1>5. ASSUME syncs' \subseteq syncs PROVE \A s \in syncs' : Good(s)
  BY <1>2, <1>5
<1>6. ASSUME NEW s \in syncs, Answer(s) PROVE \A t \in syncs' : Good(t)
  <2> DEFINE resp == build_sync_response(tab[P], s.blob.ver, s.blob.lsn)
             t    == [s EXCEPT !.kind = resp.kind, !.blob = resp.blob]
  <2>1. s \in Syncs /\ s.blob.ver \in Nat /\ s.blob.lsn \in Nat
    BY <1>6 DEF Answer, TypeOK, Syncs
  <2>2. \/ resp.kind = "delta" /\ resp.blob = DeltaAfter(tab[P], s.blob.lsn)
        \/ resp.kind = "copying" /\ resp.blob.lsn = tab[P].lsn
    BY <2>1, ResponseType, PrimaryTypes
  <2>3. t.kind = resp.kind /\ t.blob = resp.blob
    <3> HIDE DEF resp
    <3> QED BY <2>1 DEF Syncs
  <2>4. syncs' = (syncs \ {s}) \cup {t}
    BY <1>6 DEF Answer
  <2> HIDE DEF t, resp
  <2>5. CASE t.kind = "delta"
    <3>1. t.blob = DeltaAfter(tab[P], s.blob.lsn)
      BY <2>2, <2>3, <2>5
    <3>2. \A i \in 1..Len(t.blob.entries) : IsStep(t.blob.first + i - 1, t.blob.entries[i])
      BY <2>1, <3>1, DeltaAfterSteps
    <3>3. Good(t)
      BY <2>5, <3>2 DEF Good
    <3> QED BY <1>2, <2>4, <3>3
  <2>6. CASE t.kind = "copying"
    <3>1. Good(t)
      BY <2>2, <2>3, <2>6 DEF Good
    <3> QED BY <1>2, <2>4, <3>1
  <2> QED BY <2>2, <2>3, <2>5, <2>6
<1>7. ASSUME NEW s \in syncs, snapshot_blob(s) PROVE \A t \in syncs' : Good(t)
  <2> DEFINE t == [s EXCEPT !.kind = "snapshot", !.blob.cells = tab[P].cells]
  <2>1. s \in Syncs /\ s.kind = "copying" /\ s.blob \in [cells : Contents, lsn : Nat, ver : Nat]
    BY <1>7 DEF snapshot_blob, TypeOK, Syncs
  <2>2. t.kind = "snapshot" /\ t.blob.cells = tab[P].cells /\ t.blob.lsn = s.blob.lsn
    BY <2>1 DEF Syncs
  <2>3. tab[P].cells = past[tab[P].lsn + 1]
    BY WaitingOwner, Settled
  <2>4. s.blob.lsn = tab[P].lsn
    BY <1>2, <2>1 DEF Good
  <2>5. syncs' = (syncs \ {s}) \cup {t}
    BY <1>7 DEF snapshot_blob
  <2> HIDE DEF t
  <2>6. Good(t)
    BY <2>2, <2>3, <2>4 DEF Good
  <2> QED BY <1>2, <2>5, <2>6
<1>8. ASSUME NEW r \in Requests, NEW n \in Replicas, forward_to_replica(r, n)
      PROVE  syncs' \subseteq syncs
  BY <1>8 DEF forward_to_replica
<1>9. ASSUME NEW r \in Requests, forward_again(r) \/ RepairTimeout(r)
      PROVE  syncs' \subseteq syncs
  BY <1>9 DEF forward_again, RepairTimeout
<1>10. ASSUME NEW r \in Requests, resync_replica_from_self(r)
       PROVE  syncs' \subseteq syncs \/ \E n : Ask(n, r)
  BY <1>10 DEF resync_replica_from_self
<1>11. ASSUME NEW n \in Replicas, become_secondary_and_sync(n)
       PROVE  Ask(n, Nil)
  BY <1>11 DEF become_secondary_and_sync
<1>12. ASSUME NEW s \in syncs, Load(s) PROVE syncs' \subseteq syncs
  BY <1>12 DEF Load
<1>13. ASSUME NEW m \in late, HandleLate(m) PROVE syncs' \subseteq syncs
  BY <1>13 DEF HandleLate
<1>14. ASSUME NEW n \in Nodes, AutoCheckpoint(n) \/ Crash(n) \/ Restart(n)
       PROVE  syncs' \subseteq syncs
  BY <1>14 DEF AutoCheckpoint, Crash, Restart
<1> QED BY <1>4, <1>5, <1>6, <1>7, <1>8, <1>9, <1>10, <1>11, <1>12, <1>13, <1>14
        DEF Background

\* The nodes that have the operation with LSN l.
Have(l) == {n \in Nodes : tab[n].lsn >= l}

\* They are finitely many, and as no node goes back they only become more.
LEMMA HaveGrows ==
    ASSUME TypeOK, TypeOK', NEW l \in Nat, \A n \in Nodes : tab'[n].lsn >= tab[n].lsn
    PROVE  /\ Cardinality(Have(l)) \in Nat /\ Cardinality(Have(l)') \in Nat
           /\ Cardinality(Have(l)) <= Cardinality(Have(l)')
<1>1. \A n \in Nodes : tab[n].lsn \in Nat /\ tab'[n].lsn \in Nat
  BY DEF TypeOK, Tablets
<1>2. Have(l) \subseteq Have(l)' /\ Have(l) \subseteq Nodes /\ Have(l)' \subseteq Nodes
  BY <1>1 DEF Have
<1>3. IsFiniteSet(Have(l)') /\ IsFiniteSet(Have(l))
  BY <1>2, NodeAssumption, FS_Subset
<1> QED BY <1>2, <1>3, FS_Subset, FS_CardinalityType

\* An acknowledged write stays on a majority.
LEMMA QuorumStays ==
    ASSUME TypeOK, TypeOK', AckedOnQuorum, NEW r \in Requests, req[r].result = "ok",
           NEW l, l = req[r].lsn, \A n \in Nodes : tab'[n].lsn >= tab[n].lsn
    PROVE  2 * Cardinality(Have(l)') > Cardinality(Nodes)
<1>1. l \in Nat
  BY DEF TypeOK, Threads
<1>2. 2 * Cardinality(Have(l)) > Cardinality(Nodes)
  BY DEF AckedOnQuorum, Have
<1>3. Cardinality(Nodes) \in Nat
  BY NodeAssumption, FS_CardinalityType
<1> QED BY <1>1, <1>2, <1>3, HaveGrows

\* The replicas that the request r has counted, and that have its operation.
Counted(r) == {n \in Replicas \ req[r].left : tab[n].lsn >= req[r].lsn}

\* The counted replicas are finitely many.
LEMMA CountedFinite ==
    ASSUME NEW r \in Requests
    PROVE  IsFiniteSet(Counted(r)) /\ Cardinality(Counted(r)) \in Nat
<1>1. Counted(r) \subseteq Nodes
  BY DEF Counted, Replicas
<1>2. IsFiniteSet(Counted(r))
  BY <1>1, NodeAssumption, FS_Subset
<1> QED BY <1>2, FS_CardinalityType

\* Replicas are only counted, never uncounted.
LEMMA CountedGrows ==
    ASSUME TypeOK, TypeOK', NEW r \in Requests, req'[r].left \subseteq req[r].left,
           req'[r].lsn = req[r].lsn, \A n \in Nodes : tab'[n].lsn >= tab[n].lsn
    PROVE  /\ Cardinality(Counted(r)) <= Cardinality(Counted(r)')
           /\ Cardinality(Counted(r)) \in Nat /\ Cardinality(Counted(r)') \in Nat
<1>1. \A n \in Nodes : tab[n].lsn \in Nat /\ tab'[n].lsn \in Nat
  BY DEF TypeOK, Tablets
<1>2. req[r].lsn \in Nat
  BY DEF TypeOK, Threads
<1>3. Counted(r) \subseteq Counted(r)'
  BY <1>1, <1>2 DEF Counted, Replicas
<1>4. IsFiniteSet(Counted(r)') /\ Cardinality(Counted(r)') \in Nat
  <2>1. Counted(r)' \subseteq Nodes
    BY DEF Counted, Replicas
  <2>2. IsFiniteSet(Counted(r)')
    BY <2>1, NodeAssumption, FS_Subset
  <2> QED BY <2>2, FS_CardinalityType
<1> QED BY <1>3, <1>4, CountedFinite, FS_Subset

\* The acknowledgement of one more replica.
LEMMA CountedOneMore ==
    ASSUME TypeOK, TypeOK', NEW r \in Requests, NEW n \in req[r].left,
           req'[r].left = req[r].left \ {n}, req'[r].lsn = req[r].lsn,
           tab'[n].lsn >= req[r].lsn, \A k \in Nodes : tab'[k].lsn >= tab[k].lsn
    PROVE  Cardinality(Counted(r)) + 1 <= Cardinality(Counted(r)')
<1>1. \A k \in Nodes : tab[k].lsn \in Nat /\ tab'[k].lsn \in Nat
  BY DEF TypeOK, Tablets
<1>2. req[r].lsn \in Nat /\ req[r].left \subseteq Replicas
  BY DEF TypeOK, Threads
<1>3. n \in Replicas /\ n \notin Counted(r) /\ n \in Counted(r)'
  BY <1>2 DEF Counted
<1>4. Counted(r) \cup {n} \subseteq Counted(r)'
  BY <1>1, <1>2, <1>3 DEF Counted, Replicas
<1>5. IsFiniteSet(Counted(r)') /\ Cardinality(Counted(r)') \in Nat
  <2>1. Counted(r)' \subseteq Nodes
    BY DEF Counted, Replicas
  <2>2. IsFiniteSet(Counted(r)')
    BY <2>1, NodeAssumption, FS_Subset
  <2> QED BY <2>2, FS_CardinalityType
<1>6. Cardinality(Counted(r) \cup {n}) = Cardinality(Counted(r)) + 1
  BY <1>3, CountedFinite, FS_AddElement
<1>7. Cardinality(Counted(r) \cup {n}) <= Cardinality(Counted(r)')
  BY <1>4, <1>5, FS_Subset
<1> QED BY <1>6, <1>7

\* A thread that skips a replica counts nothing.
LEMMA SkipCount ==
    ASSUME TypeOK, NEW r \in Requests, NEW n, req'[r] = req[r] \/ req'[r] \in Skips(req[r], n)
    PROVE  req'[r].acked = req[r].acked /\ req'[r].left \subseteq req[r].left
<1>1. req[r] \in Threads
  BY DEF TypeOK
<1>2. req'[r] = req[r] \/ req'[r] \in Skips(req[r], n)
  OBVIOUS
<1>3. req'[r].acked = req[r].acked
  BY <1>1, <1>2 DEF Threads, Skips
<1>4. req'[r].left = req[r].left \/ req'[r].left = req[r].left \ {n}
  BY <1>1, <1>2 DEF Threads, Skips
<1> QED BY <1>3, <1>4

\* What a background step makes of the count of the request under way: its
\* list of replicas left to ask gets shorter, and one more acknowledgement is
\* counted when the replica that is taken off the list has the operation.
LEMMA BackgroundCount ==
    ASSUME TypeOK, TypeOK', HistoryInv, ReplicaExact, CountInv, Background,
           \A k \in Nodes : tab'[k].lsn >= tab[k].lsn
    PROVE  CountInv'
<1>1. Carry
  BY BackgroundCarry
<1>2. SUFFICES ASSUME NEW r \in Requests, lock = r
               PROVE  /\ req'[r].acked <= Cardinality(Counted(r)')
                      /\ req'[r].pc = "rows" => req'[r].acked = 0
  BY <1>1 DEF Carry, Kept, CountInv, Counted
<1>3. /\ req[r].acked <= Cardinality(Counted(r)) /\ req[r].acked \in Nat
      /\ req[r].pc = "rows" => req[r].acked = 0
      /\ req'[r].lsn = req[r].lsn
      /\ req'[r].pc = "rows" <=> req[r].pc = "rows"
  BY <1>1, <1>2 DEF Carry, Kept, CountInv, Counted, TypeOK, Threads
<1>4. ASSUME req'[r].acked = req[r].acked, req'[r].left \subseteq req[r].left
      PROVE  /\ req'[r].acked <= Cardinality(Counted(r)')
             /\ req'[r].pc = "rows" => req'[r].acked = 0
  BY <1>3, <1>4, CountedGrows
<1>5. ASSUME NEW q \in Requests, NEW n \in Replicas, Delivered(q, n), n \in req[q].left,
             req[q].pc \in {"send", "again"}
      PROVE  /\ req'[r].acked <= Cardinality(Counted(r)')
             /\ req'[r].pc = "rows" => req'[r].acked = 0
  <2>1. q = r
    BY <1>2, <1>5, Positions
  <2>2. req[r] \in Threads /\ req[r].lsn \in Nat /\ req[r].entry \in Entry
    BY <1>2 DEF TypeOK, Threads, Busy
  <2>3. /\ req'[r].acked = req[r].acked + 1 /\ req'[r].left = req[r].left \ {n}
        /\ req'[r].pc = "send"
    BY <1>5, <2>1, <2>2 DEF Delivered, TypeOK, Threads
  <2>4. IsStep(req[r].lsn, req[r].entry)
    BY <1>2 DEF HistoryInv
  <2>5. Replicate(tab[n], req[r].lsn, req[r].entry).lsn >= req[r].lsn
    BY <1>5, <2>1, <2>2, <2>4, ReplicateExact, ReplicaTablets DEF Delivered
  <2>6. tab'[n] = Replicate(tab[n], req[r].lsn, req[r].entry)
    BY <1>5, <2>1 DEF Delivered, TypeOK, Replicas
  <2>7. Cardinality(Counted(r)) + 1 <= Cardinality(Counted(r)')
    BY <1>3, <1>5, <2>1, <2>3, <2>5, <2>6, CountedOneMore
  <2>8. Cardinality(Counted(r)) \in Nat /\ Cardinality(Counted(r)') \in Nat
    BY <1>3, <2>3, CountedGrows
  <2> QED BY <1>3, <2>3, <2>7, <2>8
<1>6. ASSUME NEW q \in Requests, NEW n, NEW retried, NotDelivered(q, n, retried)
      PROVE  req'[r].acked = req[r].acked /\ req'[r].left \subseteq req[r].left
  <2>1. req'[r] = req[r] \/ req'[r] \in Skips(req[r], n)
    BY <1>6 DEF NotDelivered, TypeOK, Skips
  <2> QED BY <2>1, SkipCount
<1>7. ASSUME NEW q \in Requests, NEW n \in Replicas, forward_to_replica(q, n)
      PROVE  /\ req'[r].acked <= Cardinality(Counted(r)')
             /\ req'[r].pc = "rows" => req'[r].acked = 0
  BY <1>4, <1>5, <1>6, <1>7 DEF forward_to_replica
<1>8. ASSUME NEW q \in Requests, forward_again(q)
      PROVE  /\ req'[r].acked <= Cardinality(Counted(r)')
             /\ req'[r].pc = "rows" => req'[r].acked = 0
  <2>1. req[q].pc = "again" /\ req[q].target \in Replicas /\ req[q].target \in req[q].left
    BY <1>8, Positions DEF forward_again
  <2> QED BY <1>4, <1>5, <1>6, <1>8, <2>1 DEF forward_again
<1>9. ASSUME NEW q \in Requests, GiveUp(q) \/ req' = [req EXCEPT ![q].pc = "again"]
                                           \/ req' = [req EXCEPT ![q].pc = "syncing"]
      PROVE  req'[r].acked = req[r].acked /\ req'[r].left \subseteq req[r].left
  <2>1. req'[r] = req[r] \/ req'[r] \in Skips(req[r], req[r].target)
    BY <1>9 DEF GiveUp, TypeOK, Skips
  <2> QED BY <2>1, SkipCount
<1>10. ASSUME NEW q \in Requests, resync_replica_from_self(q) \/ RepairTimeout(q)
       PROVE  req'[r].acked = req[r].acked /\ req'[r].left \subseteq req[r].left
  BY <1>9, <1>10 DEF resync_replica_from_self, RepairTimeout
<1>11. ASSUME req' = req
       PROVE  req'[r].acked = req[r].acked /\ req'[r].left \subseteq req[r].left
  BY <1>11
<1>12. ASSUME NEW s \in syncs, Load(s)
       PROVE  req'[r].acked = req[r].acked /\ req'[r].left \subseteq req[r].left
  <2>1. s.req \in Requests \cup {Nil}
    BY DEF TypeOK, Syncs
  <2> QED BY <1>9, <1>11, <1>12, <2>1 DEF Load, Awaited
<1>13. ASSUME NEW n \in Nodes, Crash(n)
       PROVE  req'[r].acked = req[r].acked /\ req'[r].left \subseteq req[r].left
  <2>1. req'[r] = req[r] \/ req'[r] \in Skips(req[r], n)
    BY <1>13 DEF Crash, TypeOK, Skips
  <2> QED BY <2>1, SkipCount
<1>14. ASSUME NEW s \in syncs, Answer(s) \/ snapshot_blob(s) PROVE req' = req
  BY <1>14 DEF Answer, snapshot_blob
<1>15. ASSUME NEW m \in late, HandleLate(m) PROVE req' = req
  BY <1>15 DEF HandleLate
<1>16. ASSUME NEW n \in Nodes, AutoCheckpoint(n) \/ Restart(n) PROVE req' = req
  BY <1>16 DEF AutoCheckpoint, Restart
<1>17. ASSUME NEW n \in Replicas, become_secondary_and_sync(n) PROVE req' = req
  BY <1>17 DEF become_secondary_and_sync
<1> QED BY <1>4, <1>7, <1>8, <1>10, <1>11, <1>12, <1>13, <1>14, <1>15, <1>16, <1>17
        DEF Background

\* What the syncs that are awaited keep true.
QuorumInv == ReplicaExact /\ SyncInv /\ CountInv /\ AckedOnQuorum

\* Background steps.
LEMMA BackgroundQuorum ==
    ASSUME TypeOK, TypeOK', HistoryInv, QuorumInv, AllAwaited, Background
    PROVE  QuorumInv'
<1>1. ReplicaExact' /\ \A k \in Nodes : tab'[k].lsn >= tab[k].lsn
  BY BackgroundExact DEF QuorumInv
<1>2. SyncInv'
  BY BackgroundSyncs DEF QuorumInv
<1>3. CountInv'
  BY <1>1, BackgroundCount DEF QuorumInv
<1>4. AckedOnQuorum'
  <2>1. ASSUME NEW r \in Requests, req'[r].result = "ok"
        PROVE  2 * Cardinality(Have(req[r].lsn)') > Cardinality(Nodes)
    <3>1. req[r].result = "ok" /\ req'[r].lsn = req[r].lsn
      BY <2>1, BackgroundCarry DEF Carry, Kept
    <3> QED BY <1>1, <3>1, QuorumStays DEF QuorumInv
  <2> QED BY <2>1 DEF AckedOnQuorum, Have
<1> QED BY <1>1, <1>2, <1>3, <1>4 DEF QuorumInv

\* While the owner of the write lock is not at a repair, no sync is under way.
LEMMA NoSyncs ==
    ASSUME TypeOK, AllAwaited, NEW r \in Requests, lock \in {Nil, r}, req[r].pc # "syncing"
    PROVE  syncs = {}
  BY WaitingOwner, NilAssumption

\* A request arrives.
LEMMA SubmitQuorum ==
    ASSUME TypeOK, TypeOK', QuorumInv, NEW r \in Requests, NEW o \in Ops, Submit(r, o)
    PROVE  QuorumInv'
<1>1. /\ \A q \in Requests : q # r => req'[q] = req[q]
      /\ req'[r].result = req[r].result /\ req'[r].lsn = req[r].lsn
      /\ lock # r /\ UNCHANGED <<tab, lock, syncs, past>>
  <2>1. req[r] \in Threads
    BY DEF TypeOK
  <2> QED BY <2>1 DEF Submit, TypeOK, Threads, Busy
<1>2. ReplicaExact'
  BY <1>1 DEF QuorumInv, ReplicaExact
<1>3. SyncInv'
  BY <1>1 DEF QuorumInv, SyncInv, IsStep
<1>4. CountInv'
  BY <1>1 DEF QuorumInv, CountInv
<1>5. AckedOnQuorum'
  <2>1. \A q \in Requests : req'[q].result = req[q].result /\ req'[q].lsn = req[q].lsn
    BY <1>1
  <2> QED BY <1>1, <2>1 DEF QuorumInv, AckedOnQuorum
<1> QED BY <1>2, <1>3, <1>4, <1>5 DEF QuorumInv

\* A log entry: the history grows, and the count starts again.
LEMMA WriteLogQuorum ==
    ASSUME TypeOK, TypeOK', HistoryInv, QuorumInv, AllAwaited, NEW r \in Requests,
           NEW e \in Entry, NEW undo \in BOOLEAN, lock \in {Nil, r},
           req[r].pc \notin {"rows", "syncing"}, WriteLog(r, e, undo)
    PROVE  QuorumInv'
<1>1. /\ P \in Nodes /\ tab[P] \in Tablets /\ tab[P].lsn \in Nat
      /\ tab[P].cells \in Contents /\ past \in Seq(Contents)
  BY PrimaryTypes
<1>2. tab'[P].lsn = tab[P].lsn + 1 /\ \A n \in Nodes : n # P => tab'[n] = tab[n]
  <2>1. Write(tab[P], e) \in Tablets /\ Write(tab[P], e).lsn = tab[P].lsn + 1
    BY <1>1, WriteEffect
  <2>2. /\ tab'[P] = [Write(tab[P], e) EXCEPT !.cells = tab[P].cells]
        /\ \A n \in Nodes : n # P => tab'[n] = tab[n]
    BY <1>1 DEF WriteLog, TypeOK
  <2> QED BY <2>1, <2>2 DEF Tablets
<1>3. \A i \in 1..tab[P].lsn + 1 : past'[i] = past[i]
  <2>1. past' = Append(past, Apply(tab[P].cells, e)) /\ Len(past) = tab[P].lsn + 1
    BY DEF WriteLog, HistoryInv
  <2> QED BY <1>1, <2>1
<1>4. /\ req'[r].pc = "rows" /\ req'[r].acked = 0 /\ req'[r].result = "none"
      /\ \A q \in Requests : q # r => req'[q] = req[q]
      /\ lock' = r /\ syncs' = syncs
  BY DEF WriteLog, Idle, TypeOK
<1>5. SyncInv'
  BY <1>4, NoSyncs DEF SyncInv
<1>6. \A n \in Nodes : tab'[n].lsn \in Nat /\ tab[n].lsn \in Nat
  BY DEF TypeOK, Tablets
<1>7. ReplicaExact'
  <2>1. ASSUME NEW n \in Replicas
        PROVE  tab'[n].lsn <= tab'[P].lsn /\ tab'[n].cells = past'[tab'[n].lsn + 1]
    <3>1. n \in Nodes /\ tab'[n] = tab[n] /\ tab[n].lsn \in Nat
      BY <1>2, <1>6 DEF Replicas
    <3>2. tab[n].lsn <= tab[P].lsn /\ tab[n].cells = past[tab[n].lsn + 1]
      BY DEF QuorumInv, ReplicaExact
    <3>3. tab[n].lsn + 1 \in 1..tab[P].lsn + 1
      BY <1>1, <3>1, <3>2
    <3>4. past'[tab[n].lsn + 1] = past[tab[n].lsn + 1]
      BY <1>3, <3>3
    <3>5. tab[n].lsn <= tab[P].lsn + 1
      BY <1>1, <3>1, <3>2
    <3> QED BY <1>2, <3>1, <3>2, <3>4, <3>5
  <2> QED BY <2>1 DEF ReplicaExact
<1>8. CountInv'
  <2>1. 0 <= Cardinality(Counted(r)')
    <3>1. Counted(r)' \subseteq Nodes
      BY DEF Counted, Replicas
    <3>2. IsFiniteSet(Counted(r)')
      BY <3>1, NodeAssumption, FS_Subset
    <3>3. Cardinality(Counted(r)') \in Nat
      BY <3>2, FS_CardinalityType
    <3> QED BY <3>3
  <2> QED BY <1>4, <2>1 DEF CountInv, Counted
<1>9. \A n \in Nodes : tab'[n].lsn >= tab[n].lsn
  BY <1>1, <1>2, <1>6
<1>10. AckedOnQuorum'
  <2>1. ASSUME NEW q \in Requests, req'[q].result = "ok"
        PROVE  2 * Cardinality(Have(req[q].lsn)') > Cardinality(Nodes)
    <3>1. req'[q] = req[q]
      BY <1>4, <2>1
    <3>2. req[q].result = "ok" /\ req'[q].lsn = req[q].lsn
      BY <2>1, <3>1
    <3> QED BY <1>9, <3>2, QuorumStays DEF QuorumInv
  <2> QED BY <2>1 DEF AckedOnQuorum, Have
<1> QED BY <1>5, <1>7, <1>8, <1>10 DEF QuorumInv

\* The rows are written, and the forwarding starts with nothing counted.
LEMMA UpdateRowsQuorum ==
    ASSUME TypeOK, TypeOK', QuorumInv, AllAwaited, NEW r \in Requests, UpdateRows(r)
    PROVE  QuorumInv'
<1>1. lock = r /\ req[r].pc = "rows" /\ req[r] \in Threads
  BY DEF UpdateRows, TypeOK, Busy
<1>2. /\ \A n \in Nodes : tab'[n].lsn = tab[n].lsn
      /\ \A n \in Nodes : n # P => tab'[n] = tab[n]
  BY DEF UpdateRows, TypeOK, Tablets
<1>3. /\ req'[r].acked = req[r].acked /\ req'[r].result = req[r].result
      /\ req'[r].need = (Cardinality(Replicas) + 1) \div 2
      /\ req'[r].pc = "send" /\ req'[r].lsn = req[r].lsn
      /\ \A q \in Requests : q # r => req'[q] = req[q]
      /\ lock' = lock /\ syncs' = syncs /\ past' = past
  <2>1. /\ req'[r] = [req[r] EXCEPT !.pc = "send", !.left = Replicas,
                                    !.need = (Cardinality(Replicas) + 1) \div 2]
        /\ \A q \in Requests : q # r => req'[q] = req[q]
        /\ lock' = lock /\ syncs' = syncs /\ past' = past
    BY DEF UpdateRows, TypeOK
  <2> QED BY <1>1, <2>1 DEF Threads
<1>4. SyncInv'
  BY <1>1, <1>3, NoSyncs DEF SyncInv
<1>5. ReplicaExact'
  BY <1>2, <1>3, NodeAssumption DEF QuorumInv, ReplicaExact, Replicas
<1>6. CountInv'
  <2>1. req[r].acked = 0
    BY <1>1 DEF QuorumInv, CountInv
  <2>2. 0 <= Cardinality(Counted(r)')
    <3>1. Counted(r)' \subseteq Nodes
      BY DEF Counted, Replicas
    <3>2. IsFiniteSet(Counted(r)')
      BY <3>1, NodeAssumption, FS_Subset
    <3>3. Cardinality(Counted(r)') \in Nat
      BY <3>2, FS_CardinalityType
    <3> QED BY <3>3
  <2> QED BY <1>1, <1>3, <2>1, <2>2 DEF CountInv, Counted
<1>7. AckedOnQuorum'
  <2>1. \A q \in Requests : req'[q].result = req[q].result /\ req'[q].lsn = req[q].lsn
    BY <1>3
  <2> QED BY <1>2, <2>1 DEF QuorumInv, AckedOnQuorum
<1> QED BY <1>4, <1>5, <1>6, <1>7 DEF QuorumInv

\* A request is answered, and the lock is free.
LEMMA AnswerQuorum ==
    ASSUME TypeOK, TypeOK', QuorumInv, AllAwaited, NEW r \in Requests, lock \in {Nil, r},
           req[r].pc # "syncing", lock' = Nil,
           \A q \in Requests : q # r => req'[q] = req[q],
           req'[r].result = "ok" => 2 * Cardinality(Have(req[r].lsn)') > Cardinality(Nodes),
           UNCHANGED <<tab, syncs, past>>
    PROVE  QuorumInv'
<1>1. ReplicaExact'
  BY DEF QuorumInv, ReplicaExact
<1>2. SyncInv'
  BY NoSyncs DEF SyncInv
<1>3. CountInv'
  BY NilAssumption DEF CountInv
<1>4. AckedOnQuorum'
  <2>1. ASSUME NEW q \in Requests, req'[q].result = "ok"
        PROVE  2 * Cardinality(Have(req[q].lsn)') > Cardinality(Nodes)
    <3>1. CASE q = r
      BY <2>1, <3>1
    <3>2. CASE q # r
      BY <2>1, <3>2 DEF QuorumInv, AckedOnQuorum, Have
    <3> QED BY <3>1, <3>2
  <2> QED BY <2>1 DEF AckedOnQuorum, Have
<1> QED BY <1>1, <1>2, <1>3, <1>4 DEF QuorumInv

\* The write lock is taken.
LEMMA StartQuorum ==
    ASSUME TypeOK, TypeOK', HistoryInv, QuorumInv, AllAwaited, NEW r \in Requests, Start(r)
    PROVE  QuorumInv'
<1>1. req[r].pc = "queued" /\ lock = Nil /\ req[r].op \in Ops
  BY DEF Start, TypeOK
<1>2. ASSUME NEW res, req' = [req EXCEPT ![r] = Finish(r, res, 0)],
             UNCHANGED <<up, tab, mid, lock, late, syncs, crashes, past>>
      PROVE  QuorumInv'
  <2>1. req'[r].lsn = 0 /\ \A q \in Requests : q # r => req'[q] = req[q]
    BY <1>2 DEF Finish, Idle, TypeOK
  <2>2. ASSUME NEW l, l = 0 PROVE 2 * Cardinality(Have(l)') > Cardinality(Nodes)
    <3>1. \A n \in Nodes : tab'[n].lsn \in Nat
      BY DEF TypeOK, Tablets
    <3>2. Have(l)' = Nodes
      BY <2>2, <3>1 DEF Have
    <3>3. Cardinality(Nodes) \in Nat /\ Cardinality(Nodes) # 0
      BY NodeAssumption, FS_CardinalityType, FS_EmptySet
    <3> QED BY <3>2, <3>3
  <2>3. 2 * Cardinality(Have(req[r].lsn)') > Cardinality(Nodes)
    BY <2>1, <2>2
  <2> QED BY <1>1, <1>2, <2>1, <2>3, AnswerQuorum
<1>3. [key |-> req[r].op.key, val |-> req[r].op.val] \in Entry
  BY <1>1 DEF Ops, Entry
<1>4. ASSUME WriteLog(r, [key |-> req[r].op.key, val |-> req[r].op.val], FALSE)
      PROVE  QuorumInv'
  BY <1>1, <1>3, <1>4, WriteLogQuorum
<1> QED BY <1>2, <1>4 DEF Start

\* The replicas that were counted and the primary are a majority of the nodes.
LEMMA CountedQuorum ==
    ASSUME TypeOK, HistoryInv, CountInv, NEW r \in Requests, lock = r, req[r].pc = "send",
           req[r].left = {}, req[r].acked >= req[r].need
    PROVE  2 * Cardinality(Have(req[r].lsn)) > Cardinality(Nodes)
<1> DEFINE c == Cardinality(Counted(r))
           R == Cardinality(Replicas)
<1>1. IsFiniteSet(Counted(r)) /\ c \in Nat
  BY CountedFinite
<1>2. /\ IsFiniteSet(Replicas) /\ R \in Nat /\ Cardinality(Nodes) = R + 1
  <2>1. IsFiniteSet(Replicas) /\ Cardinality(Replicas) = Cardinality(Nodes) - 1
    BY NodeAssumption, FS_RemoveElement DEF Replicas
  <2>2. Cardinality(Nodes) \in Nat /\ Cardinality(Replicas) \in Nat
    BY <2>1, NodeAssumption, FS_CardinalityType
  <2> QED BY <2>1, <2>2
<1>3. req[r].acked <= c /\ req[r].need = (R + 1) \div 2 /\ req[r].acked \in Nat
  BY DEF CountInv, Counted, TypeOK, Threads
<1>4. req[r].lsn = tab[P].lsn /\ tab[P].lsn \in Nat
  BY PrimaryTypes DEF HistoryInv
<1>5. P \notin Counted(r) /\ Have(req[r].lsn) = Counted(r) \cup {P}
  BY <1>4, NodeAssumption DEF Counted, Have, Replicas
<1>6. Cardinality(Have(req[r].lsn)) = c + 1
  BY <1>1, <1>5, FS_AddElement
<1>7. c >= (R + 1) \div 2
  <2> HIDE DEF c, R
  <2>1. (R + 1) \div 2 \in Nat
    BY <1>2
  <2> QED BY <1>1, <1>3, <2>1
<1>8. 2 * (c + 1) > R + 1
  <2> HIDE DEF c, R
  <2> QED BY <1>1, <1>2, <1>7
<1> HIDE DEF c, R
<1> QED BY <1>2, <1>6, <1>8

\* The loop over the replicas has ended.
LEMMA ConcludeQuorum ==
    ASSUME TypeOK, TypeOK', HistoryInv, QuorumInv, AllAwaited, NEW r \in Requests, Conclude(r)
    PROVE  QuorumInv'
<1>1. /\ lock = r /\ req[r].pc = "send" /\ req[r].left = {} /\ req[r] \in Threads
      /\ req[r].entry \in Entry
  BY Positions DEF Conclude, TypeOK, Busy
<1>2. ASSUME NEW res, NEW l, Return(r, res, l)
      PROVE  /\ req'[r].lsn = l /\ req'[r].result = res /\ lock' = Nil
             /\ \A q \in Requests : q # r => req'[q] = req[q]
  BY <1>2 DEF Return, Finish, Idle, TypeOK
<1>3. CASE /\ req[r].acked >= req[r].need /\ Return(r, "ok", req[r].lsn)
           /\ UNCHANGED <<up, tab, mid, late, syncs, crashes, past>>
  <2>1. 2 * Cardinality(Have(req[r].lsn)) > Cardinality(Nodes)
    BY <1>1, <1>3, CountedQuorum DEF QuorumInv
  <2>2. /\ req'[r].lsn = req[r].lsn /\ lock' = Nil
        /\ \A q \in Requests : q # r => req'[q] = req[q]
    BY <1>2, <1>3
  <2>3. Have(req[r].lsn)' = Have(req[r].lsn)
    BY <1>3, <2>2 DEF Have
  <2> QED BY <1>1, <1>3, <2>1, <2>2, <2>3, AnswerQuorum
<1>4. CASE /\ Return(r, "no quorum", 0)
           /\ UNCHANGED <<up, tab, mid, late, syncs, crashes, past>>
  <2>1. /\ req'[r].result = "no quorum" /\ lock' = Nil
        /\ \A q \in Requests : q # r => req'[q] = req[q]
    BY <1>2, <1>4
  <2> QED BY <1>1, <1>4, <2>1, AnswerQuorum
<1>5. CASE WriteLog(r, UndoEntry(r), TRUE)
  <2>1. UndoEntry(r) \in Entry
    <3>1. req[r].old \in Vals \cup {Nil}
      BY <1>1 DEF Threads
    <3> QED BY <1>1, <3>1 DEF UndoEntry, Entry
  <2> QED BY <1>1, <1>5, <2>1, WriteLogQuorum
<1> QED BY <1>3, <1>4, <1>5 DEF Conclude

\* At the start the replicas are empty, as is the history.
LEMMA InitQuorum == Init => QuorumInv
<1> SUFFICES ASSUME Init PROVE QuorumInv
  OBVIOUS
<1>1. \A n \in Nodes : tab[n].lsn = 0 /\ tab[n].cells = Empty
  BY DEF Init
<1>2. past = <<Empty>> /\ past[1] = Empty /\ syncs = {} /\ lock = Nil
  BY DEF Init
<1>3. \A r \in Requests : req[r].result = "none"
  BY DEF Init, Idle
<1>4. ReplicaExact
  BY <1>1, <1>2, NodeAssumption DEF ReplicaExact, Replicas
<1> QED BY <1>2, <1>3, <1>4, NilAssumption DEF QuorumInv, SyncInv, CountInv, AckedOnQuorum

\* Every step preserves it while the syncs are awaited.
LEMMA NextQuorum ==
    TypeOK /\ HistoryInv /\ QuorumInv /\ AllAwaited /\ [Next]_vars => QuorumInv'
<1> SUFFICES ASSUME TypeOK, HistoryInv, QuorumInv, AllAwaited, [Next]_vars PROVE QuorumInv'
  OBVIOUS
<1>1. CASE UNCHANGED vars
  BY <1>1 DEF vars, QuorumInv, ReplicaExact, SyncInv, CountInv, AckedOnQuorum, IsStep
<1>2. CASE Next
  <2>1. TypeOK'
    BY <1>2, NextTypes
  <2> QED BY <1>2, <2>1, Steps, SubmitQuorum, StartQuorum, UpdateRowsQuorum, ConcludeQuorum,
             BackgroundQuorum
<1> QED BY <1>1, <1>2

\* As long as no sync outlives the repair that asked for it, a replica at LSN l
\* has exactly the contents the primary had at LSN l: refused, lost, repeated
\* and late messages, repairs by delta and by snapshot, rollbacks, checkpoints
\* and kills of any number of replicas notwithstanding.
THEOREM ReplicasExact == Spec /\ []AllAwaited => []ReplicaExact
<1>1. QuorumInv => ReplicaExact
  BY DEF QuorumInv
<1> QED BY <1>1, InitTypes, NextTypes, InitHistory, NextHistory, InitQuorum, NextQuorum, PTL
        DEF Spec

\* As long as no sync outlives the repair that asked for it, a write that was
\* answered OK is on a majority of the nodes, then and ever after.
THEOREM AckedStays == Spec /\ []AllAwaited => []AckedOnQuorum
<1>1. QuorumInv => AckedOnQuorum
  BY DEF QuorumInv
<1> QED BY <1>1, InitTypes, NextTypes, InitHistory, NextHistory, InitQuorum, NextQuorum, PTL
        DEF Spec

\* When a replica that asks is the only one to ask for that request.
LEMMA AskOne ==
    ASSUME OneSync, NEW n, NEW r, Ask(n, r)
    PROVE  OneSync'
<1>1. PICK b : syncs' = syncs \cup {[node |-> n, req |-> r, kind |-> "asked", blob |-> b]}
  BY DEF Ask
<1>2. \A s \in syncs : ~(s.node = n /\ s.req = r)
  BY DEF Ask
<1> DEFINE a == [node |-> n, req |-> r, kind |-> "asked", blob |-> b]
<1>3. a.node = n /\ a.req = r /\ syncs' = syncs \cup {a}
  BY <1>1
<1> HIDE DEF a
<1> QED BY <1>2, <1>3 DEF OneSync

\* An answer to a sync is still the same sync.
LEMMA AnswerSame ==
    ASSUME TypeOK, NEW s \in syncs, Answer(s) \/ snapshot_blob(s)
    PROVE  \E t : /\ t.node = s.node /\ t.req = s.req
                  /\ syncs' = (syncs \ {s}) \cup {t} /\ req' = req
<1>1. s \in Syncs
  BY DEF TypeOK
<1>2. CASE Answer(s)
  <2> DEFINE resp == build_sync_response(tab[P], s.blob.ver, s.blob.lsn)
             t    == [s EXCEPT !.kind = resp.kind, !.blob = resp.blob]
  <2>1. syncs' = (syncs \ {s}) \cup {t} /\ req' = req
    BY <1>2 DEF Answer
  <2>2. t.node = s.node /\ t.req = s.req
    <3> HIDE DEF resp
    <3> QED BY <1>1 DEF Syncs
  <2> HIDE DEF t
  <2> QED BY <2>1, <2>2
<1>3. CASE snapshot_blob(s)
  <2> DEFINE t == [s EXCEPT !.kind = "snapshot", !.blob.cells = tab[P].cells]
  <2>1. syncs' = (syncs \ {s}) \cup {t} /\ req' = req
    BY <1>3 DEF snapshot_blob
  <2>2. t.node = s.node /\ t.req = s.req
    BY <1>1 DEF Syncs
  <2> HIDE DEF t
  <2> QED BY <2>1, <2>2
<1> QED BY <1>2, <1>3

\* Without syncs from the coordinator and without repairs that time out, every
\* sync is awaited.
LEMMA NextAwaited ==
    ASSUME ~CoordSync, ~SlowSync, TypeOK, OneSync, AllAwaited, [Next]_vars
    PROVE  OneSync' /\ AllAwaited'
<1>1. CASE UNCHANGED vars
  BY <1>1 DEF vars, OneSync, AllAwaited, Awaited
<1>2. ASSUME syncs' = {} PROVE OneSync' /\ AllAwaited'
  BY <1>2 DEF OneSync, AllAwaited
<1>3. ASSUME syncs' = syncs, req' = req PROVE OneSync' /\ AllAwaited'
  BY <1>3 DEF OneSync, AllAwaited, Awaited
<1>4. ASSUME NEW r \in Requests, NEW o \in Ops, Submit(r, o) PROVE OneSync' /\ AllAwaited'
  <2>1. /\ syncs' = syncs /\ req[r].pc = "new"
        /\ \A q \in Requests : q # r => req'[q] = req[q]
    BY <1>4 DEF Submit, TypeOK
  <2>2. \A s \in syncs : s.req \in Requests /\ s.req # r /\ Awaited(s)
    BY <2>1, WaitingOwner DEF AllAwaited
  <2> QED BY <2>1, <2>2 DEF OneSync, AllAwaited, Awaited
<1>5. ASSUME NEW r \in Requests, Start(r) \/ UpdateRows(r) \/ Conclude(r)
      PROVE  OneSync' /\ AllAwaited'
  <2>1. lock \in {Nil, r} /\ req[r].pc # "syncing"
    BY <1>5 DEF Start, UpdateRows, Conclude, TypeOK, Busy
  <2>2. syncs' = syncs
    BY <1>5 DEF Start, UpdateRows, Conclude, WriteLog
  <2> QED BY <1>2, <2>1, <2>2, NoSyncs
<1>6. ASSUME NEW r \in Requests, NEW n \in Replicas, forward_to_replica(r, n)
      PROVE  OneSync' /\ AllAwaited'
  <2>1. lock = r /\ req[r].pc # "syncing" /\ syncs' = syncs
    BY <1>6, Positions DEF forward_to_replica
  <2> QED BY <1>2, <2>1, NoSyncs
<1>7. ASSUME NEW r \in Requests, forward_again(r) PROVE OneSync' /\ AllAwaited'
  <2>1. lock = r /\ req[r].pc # "syncing" /\ syncs' = syncs
    BY <1>7, Positions DEF forward_again
  <2> QED BY <1>2, <2>1, NoSyncs
<1>8. ASSUME NEW r \in Requests, resync_replica_from_self(r) PROVE OneSync' /\ AllAwaited'
  <2>1. lock = r /\ req[r].pc = "repair" /\ req[r].target \in Replicas
    BY <1>8, Positions DEF resync_replica_from_self
  <2>2. syncs = {}
    BY <2>1, NoSyncs
  <2>3. CASE syncs' = syncs
    BY <1>2, <2>2, <2>3
  <2>4. CASE Ask(req[r].target, r) /\ req' = [req EXCEPT ![r].pc = "syncing"]
    <3>1. OneSync'
      BY <2>4, AskOne
    <3>2. PICK b : syncs' = {[node |-> req[r].target, req |-> r, kind |-> "asked", blob |-> b]}
      BY <2>2, <2>4 DEF Ask
    <3> DEFINE a == [node |-> req[r].target, req |-> r, kind |-> "asked", blob |-> b]
    <3>3. a.node = req[r].target /\ a.req = r
      OBVIOUS
    <3>4. req'[r].pc = "syncing" /\ req'[r].target = req[r].target
      <4>1. req[r] \in Threads
        BY DEF TypeOK
      <4> QED BY <2>4, <4>1 DEF TypeOK, Threads
    <3> HIDE DEF a
    <3>5. syncs' = {a}
      BY <3>2 DEF a
    <3>6. AllAwaited'
      BY <3>3, <3>4, <3>5, NilAssumption DEF AllAwaited, Awaited
    <3> QED BY <3>1, <3>6
  <2> QED BY <1>8, <2>3, <2>4 DEF resync_replica_from_self
<1>9. ASSUME NEW s \in syncs, Answer(s) \/ snapshot_blob(s) PROVE OneSync' /\ AllAwaited'
  <2>1. PICK t : /\ t.node = s.node /\ t.req = s.req
                 /\ syncs' = (syncs \ {s}) \cup {t} /\ req' = req
    BY <1>9, AnswerSame
  <2> QED BY <2>1 DEF OneSync, AllAwaited, Awaited
<1>10. ASSUME NEW s \in syncs, Load(s) PROVE OneSync' /\ AllAwaited'
  <2>1. syncs' = syncs \ {s}
    BY <1>10 DEF Load
  <2>2. \A t \in syncs : t = s
    BY WaitingOwner DEF OneSync
  <2> QED BY <1>2, <2>1, <2>2
<1>11. ASSUME NEW n \in Nodes, Crash(n) PROVE OneSync' /\ AllAwaited'
  <2>1. syncs' = {s \in syncs : s.node # n}
    BY <1>11 DEF Crash
  <2>2. \A s \in syncs' : s.req \in Requests /\ req[s.req].target # n
    BY <2>1, WaitingOwner
  <2>3. \A s \in syncs' : req'[s.req] = req[s.req]
    BY <1>11, <2>2 DEF Crash
  <2> QED BY <2>1, <2>3 DEF OneSync, AllAwaited, Awaited
<1>12. ASSUME NEW n \in Nodes, AutoCheckpoint(n) \/ Restart(n)
       PROVE  syncs' = syncs /\ req' = req
  BY <1>12 DEF AutoCheckpoint, Restart
<1>13. ASSUME NEW m \in late, HandleLate(m) PROVE syncs' = syncs /\ req' = req
  BY <1>13 DEF HandleLate
<1>14. \A r \in Requests : ~RepairTimeout(r)
  BY DEF RepairTimeout
<1>15. \A n \in Replicas : ~become_secondary_and_sync(n)
  BY DEF become_secondary_and_sync
<1> QED BY <1>1, <1>3, <1>4, <1>5, <1>6, <1>7, <1>8, <1>9, <1>10, <1>11, <1>12, <1>13,
           <1>14, <1>15 DEF Next, Thread

\* The coordinator's syncs and the repairs that time out are the only ways in
\* which a sync can outlive its repair: without them the replicas are exact and
\* an acknowledged write stays on a majority.
THEOREM SafeWithoutLooseSyncs ==
    ASSUME ~CoordSync, ~SlowSync
    PROVE  Spec => [](ReplicaExact /\ AckedOnQuorum)
<1>1. Init => OneSync /\ AllAwaited
  BY DEF Init, OneSync, AllAwaited
<1>2. TypeOK /\ OneSync /\ AllAwaited /\ [Next]_vars => OneSync' /\ AllAwaited'
  BY NextAwaited
<1>3. Spec => []AllAwaited
  BY <1>1, <1>2, InitTypes, NextTypes, PTL DEF Spec
<1> QED BY <1>3, ReplicasExact, AckedStays, PTL
=============================================================================
