---------------------------- MODULE TabletProofs ----------------------------
(***************************************************************************)
(* Proofs about Tablet for every set of rows, columns, values, snapshots   *)
(* and deltas and for every bound: the type invariant, that recovery       *)
(* rebuilds the contents wherever the process is killed, that the tablet   *)
(* implements DurableMap, that the bloom filter hides no row, and that the *)
(* labels of a delta are the LSNs of its entries.                          *)
(***************************************************************************)
EXTENDS Tablet, WellFoundedInduction, TLAPS

\* The positions of the entries for cell k in log w.
Hits(w, k) == {i \in 1..Len(w) : w[i].key = k}

\* Cell k has a last entry in log w if it has one at all: true of every
\* sequence, and as part of the invariant preserved step by step.
HasLast(w, k) ==
    Hits(w, k) # {} => \E i \in Hits(w, k) : \A j \in Hits(w, k) : j <= i

\* The part of the type invariant that recovery needs.
LogInv == \A k \in Cells : HasLast(wal, k)

TypeInv == TypeOK /\ LogInv

-----------------------------------------------------------------------------
(* What replaying a log yields. *)

\* Replaying a log with one more entry sets the cell of that entry and leaves
\* the others as they were.
LEMMA ReplayAppend ==
    ASSUME NEW c, NEW w \in Seq(Entry), NEW e \in Entry, NEW k \in Cells,
           HasLast(w, k)
    PROVE  /\ HasLast(Append(w, e), k)
           /\ ReplayedCell(c, Append(w, e), k) =
                 IF e.key = k THEN e.val ELSE ReplayedCell(c, w, k)
<1> DEFINE v == Append(w, e)
<1>1. /\ Len(v) = Len(w) + 1 /\ Len(w) \in Nat
      /\ v[Len(w) + 1] = e
      /\ \A i \in 1..Len(w) : v[i] = w[i]
  OBVIOUS
<1> HIDE DEF v
<1>2. CASE e.key = k
  <2>1. Len(w) + 1 \in Hits(v, k)
    BY <1>1, <1>2 DEF Hits
  <2>2. \A j \in Hits(v, k) : j <= Len(w) + 1 /\ j \in Nat
    BY <1>1 DEF Hits
  <2>3. (CHOOSE i \in Hits(v, k) : \A j \in Hits(v, k) : j <= i) = Len(w) + 1
    BY <2>1, <2>2, <1>1
  <2>4. ReplayedCell(c, v, k) = v[Len(w) + 1].val
    BY <2>1, <2>3 DEF ReplayedCell, Hits
  <2> QED BY <2>1, <2>2, <2>4, <1>1, <1>2 DEF HasLast, v
<1>3. CASE e.key # k
  <2>1. Hits(v, k) = Hits(w, k)
    BY <1>1, <1>3 DEF Hits
  <2>2. CASE Hits(w, k) = {}
    BY <2>1, <2>2, <1>3 DEF ReplayedCell, Hits, HasLast, v
  <2>3. CASE Hits(w, k) # {}
    <3> DEFINE m == CHOOSE i \in Hits(w, k) : \A j \in Hits(w, k) : j <= i
    <3>1. m \in Hits(w, k)
      BY <2>3 DEF HasLast
    <3>2. v[m] = w[m]
      BY <3>1, <1>1 DEF Hits
    <3>3. ReplayedCell(c, v, k) = v[m].val /\ ReplayedCell(c, w, k) = w[m].val
      BY <2>1, <2>3 DEF ReplayedCell, Hits
    <3> QED BY <3>2, <3>3, <2>1, <1>3 DEF HasLast, v
  <2> QED BY <2>2, <2>3
<1> QED BY <1>2, <1>3

\* An empty log leaves the contents of the checkpoint.
LEMMA ReplayEmpty ==
    ASSUME NEW c, NEW k
    PROVE  HasLast(<<>>, k) /\ ReplayedCell(c, <<>>, k) = c[k]
<1>1. {i \in 1..Len(<<>>) : <<>>[i].key = k} = {}
  OBVIOUS
<1> QED BY <1>1 DEF HasLast, ReplayedCell, Hits

\* What a replay yields is a value of a cell or its absence.
LEMMA ReplayType ==
    ASSUME NEW c \in CellMap, NEW w \in Seq(Entry), NEW k \in Cells,
           HasLast(w, k)
    PROVE  ReplayedCell(c, w, k) \in Vals \cup {Nil}
<1>1. CASE Hits(w, k) = {}
  BY <1>1 DEF ReplayedCell, Hits, CellMap
<1>2. CASE Hits(w, k) # {}
  <2> DEFINE m == CHOOSE i \in Hits(w, k) : \A j \in Hits(w, k) : j <= i
  <2>1. m \in Hits(w, k)
    BY <1>2 DEF HasLast
  <2>2. ReplayedCell(c, w, k) = w[m].val
    BY <1>2 DEF ReplayedCell, Hits
  <2>3. w[m] \in Entry
    BY <2>1 DEF Hits
  <2> QED BY <2>2, <2>3 DEF Entry
<1> QED BY <1>1, <1>2

\* A checkpoint taken before the log is cut already holds what the log says:
\* replaying that log over it again changes nothing.
LEMMA ReplayTwice ==
    ASSUME NEW c, NEW d, NEW w, NEW k, d[k] = ReplayedCell(c, w, k)
    PROVE  ReplayedCell(d, w, k) = d[k]
BY DEF ReplayedCell

-----------------------------------------------------------------------------
(* Types. *)

\* What recovery computes has the types of the in-memory state.
LEMMA RecoveredType ==
    ASSUME TypeInv
    PROVE  /\ RecoveredCells \in CellMap
           /\ RecoveredKnown \in SUBSET Rows
           /\ RecoveredBloom \in SUBSET Rows
           /\ RecoveredLsn \in Nat
<1> USE DEF TypeInv, TypeOK, MemType, OpType, DiskType
<1>1. ckpt.cells \in CellMap
  BY DEF Image
<1>2. RecoveredCells \in CellMap
  BY <1>1, ReplayType DEF LogInv, RecoveredCells, CellMap
<1>3. ckpt.known \in SUBSET Rows /\ ckpt.bloom \in SUBSET Rows /\ ckpt.lsn \in Nat
  BY DEF Image
<1>4. RecoveredKnown \in SUBSET Rows
  BY <1>3 DEF RecoveredKnown
<1>5. Len(wal) \in Nat
  OBVIOUS
<1> QED
  BY <1>2, <1>3, <1>4, <1>5 DEF RecoveredBloom, RecoveredLsn

LEMMA EmptyImageType == EmptyImage \in Image /\ <<>> \in Seq(Entry)
<1>1. EmptyImage \in Image
  BY DEF EmptyImage, Image, CellMap
<1>2. <<>> \in Seq(Entry)
  OBVIOUS
<1> QED BY <1>1, <1>2

\* An operation that returns leaves the operation state well typed.
LEMMA ReturnType == Return => OpType'
BY EmptyImageType DEF Return, OpType

LEMMA InitType == Init => TypeInv
<1> SUFFICES ASSUME Init PROVE TypeInv
  OBVIOUS
<1>1. LogInv
  BY ReplayEmpty DEF Init, LogInv
<1>2. Contents \in [cells : CellMap, known : SUBSET Rows]
  BY DEF Init, Contents, EmptyImage, CellMap
<1>3. cells \in CellMap
  BY DEF Init, EmptyImage, CellMap
<1>4. TypeOK
  <2>1. MemType
    BY <1>3 DEF Init, MemType
  <2>2. OpType
    BY EmptyImageType DEF Init, OpType
  <2>3. DiskType
    BY EmptyImageType DEF Init, DiskType
  <2> QED BY <1>2, <2>1, <2>2, <2>3 DEF Init, TypeOK
<1> QED BY <1>1, <1>4 DEF TypeInv

\* Every step keeps the types and the operation at a step of its own kind.
LEMMA StepType == TypeInv /\ [Next]_vars => TypeInv'
<1> SUFFICES ASSUME TypeInv, [Next]_vars PROVE TypeInv'
  OBVIOUS
<1> USE DEF TypeInv, TypeOK, MemType, OpType, DiskType,
            mem, op, disk, hist, Writes
<1>1. ASSUME NEW kd \in Writes, NEW k \in Cells, NEW v \in Vals \cup {Nil},
             BeginWrite(kd, k, v)
      PROVE  TypeInv'
  <2>1. cur' \in Entry
    BY <1>1 DEF BeginWrite, Entry
  <2> QED BY <1>1, <2>1 DEF BeginWrite, LogInv
<1>2. CASE ClientOp
  BY <1>1, <1>2 DEF ClientOp, put, cput, del
<1>3. CASE ReplicaOp
  <2>1. CASE \E k \in Cells, v \in Vals \cup {Nil}, n \in 1..MaxLsn :
                apply_replicated(k, v, n)
    BY <1>1, <2>1 DEF apply_replicated
  <2>2. ASSUME NEW d \in Deltas, apply_wal_delta_blob(d) PROVE TypeInv'
    <3>1. d.entries \in Seq(Entry) /\ d.first \in Nat \ {0}
      BY InputAssumption DEF Delta
    <3> QED BY <2>2, <3>1 DEF apply_wal_delta_blob, LogInv
  <2>3. ASSUME NEW s \in Snapshots, load_snapshot_blob(s) PROVE TypeInv'
    <3>1. /\ s.cells \in CellMap /\ s.known \in SUBSET Rows
          /\ s.lsn \in Nat /\ s.ver \in Nat
      BY InputAssumption DEF Snapshot
    <3>2. Contents \in [cells : CellMap, known : SUBSET Rows]
      BY DEF Contents
    <3> QED BY <2>3, <3>1, <3>2 DEF load_snapshot_blob, LogInv
  <2> QED BY <1>3, <2>1, <2>2, <2>3 DEF ReplicaOp
<1>4. CASE checkpoint
  BY <1>4 DEF checkpoint, LogInv
<1>5. CASE DeltaStep
  <2>1. LogInv' /\ MemType' /\ DiskType' /\ UNCHANGED hist
    BY <1>5 DEF DeltaStep, LogInv
  <2>2. CASE Return
    BY <2>1, <2>2, ReturnType
  <2>3. CASE /\ todo # <<>> /\ todo' = Tail(todo) /\ next' = next + 1
             /\ UNCHANGED <<kind, stage, cur, img>>
    <3>1. todo' \in Seq(Entry)
      BY <2>3
    <3> QED BY <2>1, <2>3, <3>1
  <2>4. CASE /\ todo # <<>> /\ todo' = Tail(todo) /\ next' = next + 1
             /\ stage' = "wal" /\ cur' = Head(todo) /\ UNCHANGED <<kind, img>>
    <3>1. todo' \in Seq(Entry) /\ cur' \in Entry
      BY <2>4
    <3>2. kind = "delta"
      BY <1>5 DEF DeltaStep
    <3> QED BY <2>1, <2>4, <3>1, <3>2
  <2> QED BY <1>5, <2>2, <2>3, <2>4 DEF DeltaStep
<1>6. CASE WriteWal
  <2>1. cur \in Entry
    BY <1>6 DEF WriteWal
  <2>2. wal' = wal \/ wal' = Append(wal, cur)
    BY <1>6 DEF WriteWal
  <2>3. wal' \in Seq(Entry)
    BY <2>1, <2>2
  <2>4. LogInv'
    <3> SUFFICES ASSUME NEW k \in Cells PROVE HasLast(wal', k)
      BY DEF LogInv
    <3>1. HasLast(wal, k)
      BY DEF LogInv
    <3>2. HasLast(Append(wal, cur), k)
      BY <2>1, <3>1, ReplayAppend
    <3> QED BY <2>2, <3>1, <3>2
  <2> QED BY <1>6, <2>1, <2>3, <2>4 DEF WriteWal, Goto
<1>7. CASE WriteWalFails
  <2>1. OpType'
    BY <1>7, ReturnType DEF WriteWalFails
  <2>2. LogInv' /\ MemType' /\ DiskType' /\ UNCHANGED hist
    BY <1>7 DEF WriteWalFails, LogInv
  <2> QED BY <2>1, <2>2
<1>8. CASE UpdateRows
  <2>1. cur.key \in Cells /\ cur.val \in Vals \cup {Nil} /\ cur.key[1] \in Rows
    BY <1>8 DEF UpdateRows, Entry, Cells
  <2>2. cells' \in CellMap /\ known' \in SUBSET Rows /\ bloom' \in SUBSET Rows
    BY <1>8, <2>1 DEF UpdateRows, CellMap, KnownAfter, BloomAfter
  <2>3. OpType'
    BY <1>8, ReturnType DEF UpdateRows, Goto
  <2> QED
    BY <1>8, <2>2, <2>3 DEF UpdateRows, LogInv
<1>9. CASE WriteTmp
  <2>1. img' \in Image
    BY <1>9 DEF WriteTmp, Image
  <2> QED BY <1>9, <2>1 DEF WriteTmp, LogInv
<1>10. CASE RenameTmp
  BY <1>10 DEF RenameTmp, Goto, LogInv
<1>11. CASE TruncateWal
  <2>1. LogInv'
    BY <1>11, ReplayEmpty DEF TruncateWal, LogInv
  <2>2. img.lsn \in Nat
    BY DEF Image
  <2> QED BY <1>11, <2>1, <2>2, EmptyImageType DEF TruncateWal, Goto
<1>12. CASE StoreVersion
  <2>1. img.lsn \in Nat /\ img.ver \in Nat
    BY DEF Image
  <2> QED BY <1>12, <2>1, EmptyImageType DEF StoreVersion, Return, LogInv
<1>13. CASE CheckpointFails
  <2>1. OpType'
    BY <1>13, ReturnType DEF CheckpointFails
  <2>2. LogInv' /\ MemType' /\ DiskType' /\ UNCHANGED hist
    BY <1>13 DEF CheckpointFails, LogInv
  <2> QED BY <2>1, <2>2
<1>14. CASE Crash
  BY <1>14 DEF Crash, LogInv
<1>15. CASE PowerFailure
  <2>1. \A b \in SUBSET ckpt.bloom : [ckpt EXCEPT !.bloom = b] \in Image
    BY DEF Image
  <2> QED BY <1>15, <2>1 DEF PowerFailure, LogInv
<1>16. CASE Writeback
  BY <1>16 DEF Writeback, LogInv
<1>17. CASE recover
  <2>1. ckpt.ver \in Nat
    BY DEF Image
  <2>2. OpType'
    BY <1>17, ReturnType DEF recover
  <2>3. MemType'
    BY <1>17, <2>1, RecoveredType DEF recover
  <2>4. LogInv' /\ DiskType' /\ UNCHANGED hist
    BY <1>17 DEF recover, LogInv
  <2> QED BY <2>2, <2>3, <2>4
<1>18. CASE UNCHANGED vars
  BY <1>18 DEF vars, LogInv
<1> QED
  BY <1>2, <1>3, <1>4, <1>5, <1>6, <1>7, <1>8, <1>9, <1>10, <1>11, <1>12,
     <1>13, <1>14, <1>15, <1>16, <1>17, <1>18 DEF Next, Step

\* Type correctness: every reachable state of the tablet is well typed, and
\* every operation that holds wal_mu_ is at a step of its own kind.
THEOREM TypeCorrect == Spec => []TypeOK
<1>1. TypeInv => TypeOK
  BY DEF TypeInv
<1> QED BY <1>1, InitType, StepType, PTL DEF Spec

-----------------------------------------------------------------------------
(* Durability. *)

\* What recovery would rebuild depends on the log and the checkpoint only.
LEMMA SameDisk ==
    ASSUME UNCHANGED <<wal, ckpt>>
    PROVE  OnDisk' = OnDisk
BY DEF OnDisk, RecoveredCells, RecoveredKnown

\* Appending an entry to the log is applying it to what recovery would rebuild.
LEMMA AppendIsWrite ==
    ASSUME TypeInv, cur \in Entry, OnDisk = Contents,
           wal' = Append(wal, cur), UNCHANGED <<ckpt, cells, known, cur>>
    PROVE  /\ RecoveredCells' = [cells EXCEPT ![cur.key] = cur.val]
           /\ RecoveredKnown' = KnownAfter(cur)
<1>1. wal \in Seq(Entry) /\ cells \in CellMap
  BY DEF TypeInv, TypeOK, DiskType, MemType
<1>2. RecoveredCells = cells /\ RecoveredKnown = known
  BY DEF OnDisk, Contents
<1>3. ASSUME NEW k \in Cells
      PROVE  ReplayedCell(ckpt.cells, Append(wal, cur), k) =
                [cells EXCEPT ![cur.key] = cur.val][k]
  <2>1. HasLast(wal, k)
    BY DEF TypeInv, LogInv
  <2>2. ReplayedCell(ckpt.cells, wal, k) = cells[k]
    BY <1>2 DEF RecoveredCells
  <2>3. ReplayedCell(ckpt.cells, Append(wal, cur), k) =
           IF cur.key = k THEN cur.val ELSE ReplayedCell(ckpt.cells, wal, k)
    BY <2>1, <1>1, ReplayAppend
  <2> QED BY <2>2, <2>3, <1>1 DEF CellMap
<1>4. RecoveredCells' = [k \in Cells |-> ReplayedCell(ckpt.cells, Append(wal, cur), k)]
  BY DEF RecoveredCells
<1>5. RecoveredCells' = [cells EXCEPT ![cur.key] = cur.val]
  BY <1>1, <1>3, <1>4 DEF CellMap
<1>6. RecoveredKnown' = KnownAfter(cur)
  <2> DEFINE puts(w) == {r \in Rows : \E i \in 1..Len(w) :
                              w[i].key[1] = r /\ w[i].val # Nil}
  <2>1. cur.key[1] \in Rows
    BY DEF Entry, Cells
  <2>2. puts(Append(wal, cur)) =
           puts(wal) \cup (IF cur.val = Nil THEN {} ELSE {cur.key[1]})
    <3>1. /\ Len(Append(wal, cur)) = Len(wal) + 1 /\ Len(wal) \in Nat
          /\ Append(wal, cur)[Len(wal) + 1] = cur
          /\ \A i \in 1..Len(wal) : Append(wal, cur)[i] = wal[i]
      BY <1>1
    <3> QED BY <2>1, <3>1
  <2>3. RecoveredKnown = ckpt.known \cup puts(wal)
    BY DEF RecoveredKnown
  <2>4. RecoveredKnown' = ckpt.known \cup puts(Append(wal, cur))
    BY DEF RecoveredKnown
  <2> HIDE DEF puts
  <2> QED BY <1>2, <2>2, <2>3, <2>4 DEF KnownAfter
<1> QED BY <1>5, <1>6

\* A checkpoint that holds what recovery would rebuild, put in place of the old
\* one while the log is still there, does not change what recovery rebuilds.
LEMMA RenameKeeps ==
    ASSUME TypeInv, OnDisk = Contents, ckpt' = img, UNCHANGED wal,
           img.cells = cells, img.known = known
    PROVE  OnDisk' = Contents
<1>1. cells \in CellMap
  BY DEF TypeInv, TypeOK, MemType
<1>2. RecoveredCells = cells /\ RecoveredKnown = known
  BY DEF OnDisk, Contents
<1>3. ASSUME NEW k \in Cells
      PROVE  ReplayedCell(cells, wal, k) = cells[k]
  <2>1. ReplayedCell(ckpt.cells, wal, k) = cells[k]
    BY <1>2 DEF RecoveredCells
  <2> QED BY <2>1, ReplayTwice
<1>4. RecoveredCells' = [k \in Cells |-> ReplayedCell(cells, wal, k)]
  BY DEF RecoveredCells
<1>5. RecoveredCells' = cells
  BY <1>1, <1>3, <1>4 DEF CellMap
<1>6. RecoveredKnown' = known
  BY <1>2 DEF RecoveredKnown
<1> QED BY <1>5, <1>6 DEF OnDisk, Contents

\* With an empty log, recovery rebuilds the checkpoint.
LEMMA TruncateKeeps ==
    ASSUME TypeInv, ckpt.cells = cells, ckpt.known = known,
           wal' = <<>>, UNCHANGED <<ckpt, cells, known>>
    PROVE  OnDisk' = Contents
<1>1. cells \in CellMap
  BY DEF TypeInv, TypeOK, MemType
<1>2. RecoveredCells' = [k \in Cells |-> ReplayedCell(ckpt.cells, <<>>, k)]
  BY DEF RecoveredCells
<1>3. \A k \in Cells : ReplayedCell(ckpt.cells, <<>>, k) = cells[k]
  BY ReplayEmpty
<1>4. RecoveredCells' = cells
  BY <1>1, <1>2, <1>3 DEF CellMap
<1>5. RecoveredKnown' = known
  BY DEF RecoveredKnown
<1> QED BY <1>4, <1>5 DEF OnDisk, Contents

LEMMA InitDurable == Init => DurableInv
<1> SUFFICES ASSUME Init PROVE DurableInv
  OBVIOUS
<1>1. RecoveredCells = cells
  BY ReplayEmpty DEF Init, RecoveredCells, EmptyImage
<1>2. RecoveredKnown = known
  BY DEF Init, RecoveredKnown, EmptyImage
<1>3. OnDisk = Logical
  BY <1>1, <1>2 DEF Init, OnDisk, Logical, Contents
<1> QED BY <1>3 DEF Init, DurableInv

\* Every step that the faults of SafeFaults allow keeps the files and the rows
\* in step.
LEMMA StepDurable ==
    ASSUME SafeFaults, TypeInv, DurableInv, [Next]_vars
    PROVE  DurableInv'
<1> USE DEF mem, op, disk, hist
<1>0. OpType
  BY DEF TypeInv, TypeOK
<1>1. ASSUME NEW kd \in Writes, NEW k, NEW v, BeginWrite(kd, k, v)
      PROVE  DurableInv'
  <2>1. OnDisk' = OnDisk
    BY <1>1, SameDisk DEF BeginWrite
  <2>2. kind = "none" /\ Logical = Contents
    BY <1>0, <1>1 DEF BeginWrite, OpType, Writes, Logical
  <2>3. Logical' = Contents
    BY <1>1 DEF BeginWrite, Logical, Contents
  <2> QED BY <1>1, <2>1, <2>2, <2>3 DEF BeginWrite, DurableInv, Writes
<1>2. CASE ClientOp
  BY <1>1, <1>2 DEF ClientOp, put, cput, del, Writes
<1>3. CASE ReplicaOp
  <2>1. CASE \E k \in Cells, v \in Vals \cup {Nil}, n \in 1..MaxLsn :
                apply_replicated(k, v, n)
    BY <1>1, <2>1 DEF apply_replicated, Writes
  <2>2. ASSUME NEW d \in Deltas, apply_wal_delta_blob(d) PROVE DurableInv'
    <3>1. OnDisk' = OnDisk
      BY <2>2, SameDisk DEF apply_wal_delta_blob
    <3>2. kind = "none" /\ Logical = Contents /\ Logical' = Contents
      BY <1>0, <2>2 DEF apply_wal_delta_blob, OpType, Writes, Logical, Contents
    <3> QED BY <2>2, <3>1, <3>2 DEF apply_wal_delta_blob, DurableInv
  <2>3. ASSUME NEW s \in Snapshots, load_snapshot_blob(s) PROVE DurableInv'
    <3>1. OnDisk' = OnDisk
      BY <2>3, SameDisk DEF load_snapshot_blob
    <3>2. kind = "none" /\ Logical = Contents
      BY <1>0, <2>3 DEF load_snapshot_blob, OpType, Writes, Logical
    <3>3. OnDisk' = prev'
      BY <2>3, <3>1, <3>2 DEF load_snapshot_blob, DurableInv
    <3> QED BY <2>3, <3>3 DEF load_snapshot_blob, DurableInv
  <2> QED BY <1>3, <2>1, <2>2, <2>3 DEF ReplicaOp
<1>4. CASE checkpoint
  <2>1. OnDisk' = OnDisk
    BY <1>4, SameDisk DEF checkpoint
  <2>2. kind = "none" /\ Logical = Contents /\ Logical' = Contents
    BY <1>0, <1>4 DEF checkpoint, OpType, Writes, Logical, Contents
  <2> QED BY <1>4, <2>1, <2>2 DEF checkpoint, DurableInv
<1>5. CASE DeltaStep
  <2>1. OnDisk' = OnDisk
    BY <1>5, SameDisk DEF DeltaStep
  <2>2. kind = "delta" /\ kind' # "install"
        /\ stage' \in {"idle", "delta", "wal"}
    BY <1>0, <1>5 DEF DeltaStep, OpType, Writes, Return
  <2>3. Logical = Contents /\ Logical' = Contents
    BY <1>5, <2>2 DEF DeltaStep, Logical, Contents
  <2> QED BY <1>5, <2>1, <2>2, <2>3 DEF DeltaStep, DurableInv
<1>6. CASE WriteWal
  <2>1. cur \in Entry /\ kind \in Writes /\ Logical = Contents
    BY <1>0, <1>6 DEF WriteWal, OpType, Logical
  <2>2. ~torn /\ OnDisk = Contents
    BY <1>6, <2>1 DEF WriteWal, DurableInv, Writes
  <2>3. wal' = Append(wal, cur)
    BY <1>6, <2>2 DEF WriteWal
  <2>4. UNCHANGED <<ckpt, cells, known, cur, kind>> /\ stage' = "rows"
    BY <1>6 DEF WriteWal, Goto
  <2>5. OnDisk' = [cells |-> [cells EXCEPT ![cur.key] = cur.val],
                   known |-> KnownAfter(cur)]
    BY <2>1, <2>2, <2>3, <2>4, AppendIsWrite DEF OnDisk
  <2>6. Logical' = [cells |-> [cells EXCEPT ![cur.key] = cur.val],
                    known |-> KnownAfter(cur)]
    BY <2>4 DEF Logical, KnownAfter
  <2> QED BY <1>6, <2>1, <2>2, <2>4, <2>5, <2>6 DEF WriteWal, DurableInv, Writes
<1>7. CASE WriteWalFails
  <2>1. OnDisk' = OnDisk
    BY <1>7, SameDisk DEF WriteWalFails
  <2>2. kind \in Writes /\ Logical = Contents /\ Logical' = Contents
    BY <1>0, <1>7 DEF WriteWalFails, OpType, Return, Logical, Contents
  <2>3. torn' => ~walGood' /\ \E kd \in Writes : <<kd, "wal">> \in FailPoints
    BY <1>7, <2>2 DEF WriteWalFails, DurableInv
  <2> QED
    BY <1>7, <2>1, <2>2, <2>3 DEF WriteWalFails, DurableInv, Return, Writes
<1>8. CASE UpdateRows
  <2>1. OnDisk' = OnDisk
    BY <1>8, SameDisk DEF UpdateRows
  <2>2. kind \in Writes
    BY <1>0, <1>8 DEF UpdateRows, OpType
  <2>3. stage' \in {"delta", "idle"} /\ kind' \in {"delta", "none"}
    BY <1>8 DEF UpdateRows, Goto, Return
  <2>4. Logical' = Logical
    BY <1>8, <2>3 DEF UpdateRows, Logical, Contents
  <2> QED BY <1>8, <2>1, <2>2, <2>3, <2>4 DEF UpdateRows, DurableInv, Writes
<1>9. CASE WriteTmp
  <2>1. OnDisk' = OnDisk
    BY <1>9, SameDisk DEF WriteTmp
  <2>2. Logical' = Logical
    BY <1>9 DEF WriteTmp, Logical, Contents
  <2> QED BY <1>9, <2>1, <2>2 DEF WriteTmp, DurableInv
<1>10. CASE RenameTmp
  <2>1. kind \in {"ckpt", "install"} /\ Logical = Contents
    BY <1>0, <1>10 DEF RenameTmp, OpType, Writes, Logical
  <2>2. Logical' = Contents
    BY <1>10 DEF RenameTmp, Goto, Logical, Contents
  <2>3. kind = "ckpt" => OnDisk' = Contents
    BY <1>10, <2>1, RenameKeeps DEF RenameTmp, DurableInv
  <2> QED BY <1>10, <2>1, <2>2, <2>3 DEF RenameTmp, Goto, DurableInv
<1>11. CASE TruncateWal
  <2>1. OnDisk' = Contents
    BY <1>11, TruncateKeeps DEF TruncateWal, DurableInv
  <2>2. Logical' = Contents
    BY <1>11 DEF TruncateWal, Goto, Logical, Contents
  <2> QED BY <1>11, <2>1, <2>2 DEF TruncateWal, Goto, DurableInv
<1>12. CASE StoreVersion
  <2>1. OnDisk' = OnDisk
    BY <1>12, SameDisk DEF StoreVersion
  <2>2. Logical' = Logical
    BY <1>12 DEF StoreVersion, Return, Logical, Contents
  <2> QED BY <1>12, <2>1, <2>2 DEF StoreVersion, Return, DurableInv
<1>13. CASE CheckpointFails
  <2>1. OnDisk' = OnDisk
    BY <1>13, SameDisk DEF CheckpointFails
  <2>2. kind = "ckpt"
    BY <1>0, <1>13 DEF CheckpointFails, OpType, Writes, SafeFaults, Stages
  <2>3. Logical' = Logical
    BY <1>13 DEF CheckpointFails, Return, Logical, Contents
  <2>4. torn' => ~walGood' /\ \E kd \in Writes : <<kd, "wal">> \in FailPoints
    BY <1>13, <2>2 DEF CheckpointFails, DurableInv, SafeFaults
  <2> QED
    BY <1>13, <2>1, <2>2, <2>3, <2>4 DEF CheckpointFails, Return, DurableInv
<1>14. CASE Crash
  <2>1. OnDisk' = OnDisk
    BY <1>14, SameDisk DEF Crash
  <2>2. Logical' = Logical
    BY <1>14 DEF Crash, Logical, Contents, KnownAfter
  <2> QED BY <1>14, <2>1, <2>2 DEF Crash, DurableInv
<1>15. CASE PowerFailure \/ Writeback
  BY <1>15 DEF PowerFailure, Writeback, SafeFaults
<1>16. CASE recover
  <2>1. OnDisk' = OnDisk
    BY <1>16, SameDisk DEF recover
  <2>2. Logical' = OnDisk
    BY <1>16 DEF recover, Return, Logical, Contents, OnDisk
  <2> QED BY <1>16, <2>1, <2>2 DEF recover, Return, DurableInv
<1>17. CASE UNCHANGED vars
  <2>1. OnDisk' = OnDisk
    BY <1>17, SameDisk DEF vars
  <2>2. Logical' = Logical
    BY <1>17 DEF vars, Logical, Contents, KnownAfter
  <2> QED BY <1>17, <2>1, <2>2 DEF vars, DurableInv
<1> QED
  BY <1>2, <1>3, <1>4, <1>5, <1>6, <1>7, <1>8, <1>9, <1>10, <1>11, <1>12,
     <1>13, <1>14, <1>15, <1>16, <1>17 DEF Next, Step

\* Durability: under the faults of SafeFaults, recover() rebuilds at every kill
\* exactly the contents of the operations that returned, with the one under way
\* applied as a whole or not at all, for every set of cells, values, snapshots
\* and deltas and for logs and histories of any length.
THEOREM DurableTablet ==
    ASSUME SafeFaults
    PROVE  Spec => []Durable
<1>1. TypeInv /\ DurableInv => Durable
  <2> SUFFICES ASSUME TypeInv, DurableInv, ~up \/ <<kind, stage>> \in CrashPoints
               PROVE  readable /\ (OnDisk = Logical \/
                                     (kind = "install" /\ OnDisk = prev))
    BY DEF Durable
  <2>1. ~(kind = "install" /\ stage = "trunc")
    BY DEF DurableInv, SafeFaults
  <2>2. kind = "install" => stage \in {"tmp", "rename", "trunc", "store"}
    BY DEF TypeInv, TypeOK, OpType, Writes
  <2> QED BY <2>1, <2>2 DEF DurableInv
<1>2. Init => TypeInv /\ DurableInv
  BY InitType, InitDurable
<1>3. TypeInv /\ DurableInv /\ [Next]_vars => (TypeInv /\ DurableInv)'
  BY StepType, StepDurable
<1> QED BY <1>1, <1>2, <1>3, PTL DEF Spec

-----------------------------------------------------------------------------
(* Refinement. *)

\* Every step of the tablet is a step of the map, or leaves the map alone.
LEMMA StepImplements ==
    ASSUME SafeFaults, TypeInv, DurableInv, [Next]_vars
    PROVE  Abstract!Next \/ UNCHANGED <<MapSeen, Fallback>>
<1> USE DEF mem, op, disk, hist
<1>0. OpType
  BY DEF TypeInv, TypeOK
<1>1. ASSUME NEW kd \in Writes, NEW k, NEW v, BeginWrite(kd, k, v)
      PROVE  UNCHANGED <<MapSeen, Fallback>>
  <2>1. kind = "none" /\ stage = "idle" /\ up /\ up'
    BY <1>0, <1>1 DEF BeginWrite, OpType, Writes
  <2>2. Logical'.cells = Logical.cells
    BY <1>1, <2>1 DEF BeginWrite, Logical, Contents
  <2>3. Settling = FALSE /\ Settling' = FALSE
    BY <1>1, <2>1 DEF BeginWrite, Settling, Writes
  <2> QED BY <2>1, <2>2, <2>3 DEF MapSeen, Fallback
<1>2. CASE ClientOp
  BY <1>1, <1>2 DEF ClientOp, put, cput, del, Writes
<1>3. CASE ReplicaOp
  <2>1. CASE \E k \in Cells, v \in Vals \cup {Nil}, n \in 1..MaxLsn :
                apply_replicated(k, v, n)
    BY <1>1, <2>1 DEF apply_replicated, Writes
  <2>2. ASSUME NEW d \in Deltas, apply_wal_delta_blob(d)
        PROVE  UNCHANGED <<MapSeen, Fallback>>
    <3>1. kind = "none" /\ up /\ up' /\ Logical' = Logical
      BY <1>0, <2>2 DEF apply_wal_delta_blob, OpType, Writes, Logical, Contents
    <3>2. Settling = FALSE /\ Settling' = FALSE
      BY <2>2, <3>1 DEF apply_wal_delta_blob, Settling
    <3> QED BY <3>1, <3>2 DEF MapSeen, Fallback
  <2>3. ASSUME NEW s \in Snapshots, load_snapshot_blob(s)
        PROVE  Abstract!Next
    <3>1. kind = "none" /\ up /\ up' /\ stage = "idle"
      BY <1>0, <2>3 DEF load_snapshot_blob, OpType, Writes
    <3>2. MapSeen = cells /\ MapSeen' = s.cells /\ prev'.cells = cells
      BY <2>3, <3>1 DEF load_snapshot_blob, MapSeen, Logical, Contents
    <3>3. Settling' = TRUE
      BY <2>3, <3>1 DEF load_snapshot_blob, Settling
    <3>4. Abstract!Replace(s.cells)
      BY <3>2, <3>3 DEF Abstract!Replace, Fallback
    <3> QED BY <3>4 DEF Abstract!Next
  <2> QED BY <1>3, <2>1, <2>2, <2>3 DEF ReplicaOp
<1>4. CASE checkpoint
  <2>1. kind = "none" /\ up /\ up' /\ Logical' = Logical
    BY <1>0, <1>4 DEF checkpoint, OpType, Writes, Logical, Contents
  <2>2. Settling = FALSE /\ Settling' = FALSE
    BY <1>4, <2>1 DEF checkpoint, Settling
  <2> QED BY <2>1, <2>2 DEF MapSeen, Fallback
<1>5. CASE DeltaStep
  <2>1. kind = "delta" /\ kind' # "install" /\ stage' # "rows" /\ up /\ up'
    BY <1>0, <1>5 DEF DeltaStep, OpType, Writes, Return
  <2>2. Logical' = Logical
    BY <1>5, <2>1 DEF DeltaStep, Logical, Contents
  <2>3. Settling = FALSE /\ Settling' = FALSE
    BY <2>1 DEF Settling
  <2> QED BY <2>1, <2>2, <2>3 DEF MapSeen, Fallback
<1>6. CASE WriteWal
  <2>1. cur \in Entry /\ kind \in Writes /\ up /\ up'
    BY <1>0, <1>6 DEF WriteWal, OpType
  <2>2. UNCHANGED <<cells, known, cur, kind>> /\ stage = "wal" /\ stage' = "rows"
    BY <1>6 DEF WriteWal, Goto
  <2>3. MapSeen = cells /\ MapSeen' = [cells EXCEPT ![cur.key] = cur.val]
    BY <2>1, <2>2 DEF MapSeen, Logical, Contents
  <2>4. Settling' = FALSE
    BY <2>1, <2>2 DEF Settling, Writes
  <2>5. Abstract!Write(cur.key, cur.val)
    BY <2>3, <2>4 DEF Abstract!Write, Fallback
  <2>6. cur.key \in Cells /\ cur.val \in Vals \cup {Nil}
    BY <2>1 DEF Entry
  <2> QED BY <2>5, <2>6 DEF Abstract!Next
<1>7. CASE WriteWalFails
  <2>1. kind \in Writes /\ kind' = "none" /\ up /\ up'
    BY <1>0, <1>7 DEF WriteWalFails, OpType, Return
  <2>2. Logical' = Logical
    BY <1>7 DEF WriteWalFails, Return, Logical, Contents
  <2>3. Settling = FALSE /\ Settling' = FALSE
    BY <2>1 DEF Settling, Writes
  <2> QED BY <2>1, <2>2, <2>3 DEF MapSeen, Fallback
<1>8. CASE UpdateRows
  <2>1. kind \in Writes /\ kind' \in {"delta", "none"} /\ up /\ up'
        /\ stage' \in {"delta", "idle"}
    BY <1>0, <1>8 DEF UpdateRows, OpType, Goto, Return
  <2>2. Logical' = Logical
    BY <1>8, <2>1 DEF UpdateRows, Logical, Contents
  <2>3. Settling = FALSE /\ Settling' = FALSE
    BY <2>1 DEF Settling, Writes
  <2> QED BY <2>1, <2>2, <2>3 DEF MapSeen, Fallback
<1>9. CASE WriteTmp \/ RenameTmp
  <2>1. /\ stage \in {"tmp", "rename"} /\ stage' \in {"rename", "trunc"}
        /\ UNCHANGED <<up, kind, cells, known, prev>> /\ up
    BY <1>9 DEF WriteTmp, RenameTmp, Goto
  <2>2. MapSeen' = MapSeen /\ Settling' = Settling
    BY <2>1 DEF MapSeen, Settling, Logical, Contents
  <2> QED BY <2>1, <2>2 DEF Fallback
<1>10. CASE TruncateWal
  <2>1. stage = "trunc" /\ stage' = "store" /\ UNCHANGED <<up, cells, known>> /\ up
    BY <1>10 DEF TruncateWal, Goto
  <2>2. MapSeen' = MapSeen /\ Settling' = FALSE
    BY <2>1 DEF MapSeen, Settling, Logical, Contents
  <2>3. Abstract!Settle
    BY <2>2 DEF Abstract!Settle, Fallback
  <2> QED BY <2>3 DEF Abstract!Next
<1>11. CASE StoreVersion
  <2>1. /\ stage = "store" /\ stage' = "idle" /\ UNCHANGED <<up, cells, known>>
        /\ up
    BY <1>11 DEF StoreVersion, Return
  <2>2. MapSeen' = MapSeen /\ Settling = FALSE /\ Settling' = FALSE
    BY <2>1 DEF MapSeen, Settling, Logical, Contents
  <2> QED BY <2>2 DEF Fallback
<1>12. CASE CheckpointFails
  <2>1. kind = "ckpt" /\ kind' = "none" /\ up /\ up'
    BY <1>0, <1>12 DEF CheckpointFails, Return, OpType, Writes, SafeFaults, Stages
  <2>2. Logical' = Logical
    BY <1>12 DEF CheckpointFails, Return, Logical, Contents
  <2>3. Settling = FALSE /\ Settling' = FALSE
    BY <2>1 DEF Settling
  <2> QED BY <2>1, <2>2, <2>3 DEF MapSeen, Fallback
<1>13. CASE Crash
  <2>1. up /\ up' = FALSE /\ <<kind, stage>> \in CrashPoints
    BY <1>13 DEF Crash
  <2>2. MapSeen' = RecoveredCells /\ MapSeen = Logical.cells /\ Settling' = FALSE
    BY <1>13, <2>1 DEF Crash, MapSeen, RecoveredCells, Settling
  <2>3. RecoveredCells \in Fallback
    <3>1. CASE kind # "install" \/ stage = "store"
      BY <2>2, <3>1 DEF DurableInv, OnDisk, Fallback
    <3>2. CASE kind = "install" /\ stage # "store"
      <4>1. stage \in {"tmp", "rename"}
        BY <1>0, <2>1, <3>2 DEF SafeFaults, OpType, Writes
      <4>2. Settling /\ RecoveredCells = prev.cells
        BY <2>1, <3>2, <4>1 DEF Settling, DurableInv, OnDisk
      <4> QED BY <4>2 DEF Fallback
    <3> QED BY <3>1, <3>2
  <2>4. Abstract!Crash
    BY <2>2, <2>3 DEF Abstract!Crash, Fallback
  <2> QED BY <2>4 DEF Abstract!Next
<1>14. CASE PowerFailure \/ Writeback
  BY <1>14 DEF PowerFailure, Writeback, SafeFaults
<1>15. CASE recover
  <2>1. ~up /\ up' /\ stage' = "idle" /\ cells' = RecoveredCells
    BY <1>15 DEF recover, Return
  <2>2. MapSeen' = MapSeen /\ Settling = FALSE /\ Settling' = FALSE
    BY <2>1 DEF MapSeen, Settling, Logical, Contents
  <2> QED BY <2>2 DEF Fallback
<1>16. CASE UNCHANGED vars
  BY <1>16 DEF vars, MapSeen, Fallback, Settling, Logical, Contents, KnownAfter,
               RecoveredCells
<1> QED
  BY <1>2, <1>3, <1>4, <1>5, <1>6, <1>7, <1>8, <1>9, <1>10, <1>11, <1>12,
     <1>13, <1>14, <1>15, <1>16 DEF Next, Step

LEMMA InitImplements == Init => Abstract!Init
<1> SUFFICES ASSUME Init PROVE Abstract!Init
  OBVIOUS
<1>1. MapSeen = [k \in Cells |-> Nil] /\ Settling = FALSE
  BY DEF Init, MapSeen, Settling, Logical, Contents, EmptyImage
<1> QED BY <1>1 DEF Abstract!Init, Fallback

\* Under the faults of SafeFaults the tablet implements DurableMap: its callers
\* see one map that changes by whole writes and whole snapshots and that kills
\* and restarts leave alone.
THEOREM TabletImplementsMap ==
    ASSUME SafeFaults
    PROVE  Spec => ImplementsMap
<1>1. Init => TypeInv /\ DurableInv /\ Abstract!Init
  BY InitType, InitDurable, InitImplements
<1>2. TypeInv /\ DurableInv /\ [Next]_vars => (TypeInv /\ DurableInv)'
  BY StepType, StepDurable
<1>3. TypeInv /\ DurableInv /\ [Next]_vars => [Abstract!Next]_(Abstract!mvars)
  BY StepImplements DEF Abstract!mvars
<1> QED
  BY <1>1, <1>2, <1>3, PTL DEF Spec, ImplementsMap, Abstract!Spec
-----------------------------------------------------------------------------
(* The bloom filter. *)

\* Every cell with a value is in a row of the map, and every row of it in the filter.
Covered(c, kn, bl) == kn \subseteq bl /\ \A k \in Cells : c[k] # Nil => k[1] \in kn

\* The same of the rows, the checkpoint and the temporary file: what BloomCovers needs
\* across a recovery.
BloomInv ==
    /\ Covered(cells, known, bloom)
    /\ Covered(ckpt.cells, ckpt.known, ckpt.bloom)
    /\ Covered(img.cells, img.known, img.bloom)

\* An empty image is covered.
LEMMA EmptyCovered == Covered(EmptyImage.cells, EmptyImage.known, EmptyImage.bloom)
BY DEF Covered, EmptyImage

\* What recovery rebuilds is covered by the stored filter and the rows it adds.
LEMMA RecoveredCovered ==
    ASSUME TypeInv, BloomInv
    PROVE  Covered(RecoveredCells, RecoveredKnown, RecoveredBloom)
<1>1. RecoveredKnown \subseteq RecoveredBloom
  BY DEF BloomInv, Covered, RecoveredBloom
<1>2. ASSUME NEW k \in Cells, RecoveredCells[k] # Nil PROVE k[1] \in RecoveredKnown
  <2>1. RecoveredCells[k] = ReplayedCell(ckpt.cells, wal, k)
    BY DEF RecoveredCells
  <2>2. k[1] \in Rows
    BY DEF Cells
  <2>3. CASE Hits(wal, k) = {}
    BY <1>2, <2>1, <2>3 DEF ReplayedCell, Hits, BloomInv, Covered, RecoveredKnown
  <2>4. CASE Hits(wal, k) # {}
    <3> DEFINE m == CHOOSE i \in Hits(wal, k) : \A j \in Hits(wal, k) : j <= i
    <3>1. m \in Hits(wal, k)
      BY <2>4 DEF TypeInv, LogInv, HasLast
    <3>2. RecoveredCells[k] = wal[m].val
      BY <2>1, <2>4 DEF ReplayedCell, Hits
    <3>3. m \in 1..Len(wal) /\ wal[m].key = k
      BY <3>1 DEF Hits
    <3> QED BY <1>2, <2>2, <3>2, <3>3 DEF RecoveredKnown
  <2> QED BY <2>3, <2>4
<1> QED BY <1>1, <1>2 DEF Covered

\* The filter covers the rows in memory, in the checkpoint and in the temporary file.
LEMMA StepBloom ==
    ASSUME ~PowerLoss
    PROVE  TypeInv /\ BloomInv /\ [Next]_vars => BloomInv'
<1> SUFFICES ASSUME TypeInv, BloomInv, [Next]_vars PROVE BloomInv'
  OBVIOUS
<1> USE DEF mem, op, disk, hist
<1>1. CASE UNCHANGED <<cells, known, bloom, ckpt>> /\ (img' = img \/ img' = EmptyImage)
  BY <1>1, EmptyCovered DEF BloomInv, Covered
<1>2. CASE ClientOp
  BY <1>1, <1>2 DEF ClientOp, put, cput, del, BeginWrite
<1>3. CASE ReplicaOp
  <2>1. CASE \E s \in Snapshots : load_snapshot_blob(s)
    BY <2>1, InputAssumption DEF load_snapshot_blob, BloomInv, Covered
  <2>2. CASE ~\E s \in Snapshots : load_snapshot_blob(s)
    BY <1>1, <1>3, <2>2 DEF ReplicaOp, apply_replicated, apply_wal_delta_blob, BeginWrite
  <2> QED BY <2>1, <2>2
<1>4. CASE checkpoint \/ DeltaStep \/ WriteWal \/ WriteWalFails \/ TruncateWal \/ StoreVersion
           \/ CheckpointFails \/ Crash \/ Writeback \/ UNCHANGED vars
  BY <1>1, <1>4 DEF checkpoint, DeltaStep, WriteWal, WriteWalFails, TruncateWal, StoreVersion,
     CheckpointFails, Crash, Writeback, vars, Goto, Return
<1>5. CASE UpdateRows
  <2>1. cur \in Entry
    BY <1>5 DEF UpdateRows, TypeInv, TypeOK, OpType
  <2>2. cur.key \in Cells /\ cells \in [Cells -> Vals \cup {Nil}]
    BY <2>1 DEF Entry, TypeInv, TypeOK, MemType, CellMap
  <2>3. known' \subseteq bloom'
    BY <1>5 DEF UpdateRows, KnownAfter, BloomAfter, BloomInv, Covered
  <2>4. ASSUME NEW k \in Cells, cells'[k] # Nil PROVE k[1] \in known'
    BY <1>5, <2>2, <2>4 DEF UpdateRows, KnownAfter, BloomInv, Covered
  <2>5. ckpt' = ckpt /\ (img' = img \/ img' = EmptyImage)
    BY <1>5 DEF UpdateRows, Goto, Return
  <2> QED BY <2>3, <2>4, <2>5, EmptyCovered DEF BloomInv, Covered
<1>6. CASE WriteTmp
  <2>1. img'.cells = cells /\ img'.known = known /\ img'.bloom = bloom
        /\ UNCHANGED <<cells, known, bloom, ckpt>>
    BY <1>6 DEF WriteTmp
  <2> QED BY <2>1 DEF BloomInv, Covered
<1>7. CASE RenameTmp
  BY <1>7 DEF RenameTmp, Goto, BloomInv, Covered
<1>8. CASE recover
  <2>1. Covered(cells', known', bloom')
    BY <1>8, RecoveredCovered DEF recover
  <2> QED BY <1>8, <2>1, EmptyCovered DEF recover, Return, BloomInv, Covered
<1>9. CASE PowerFailure
  BY <1>9 DEF PowerFailure
<1> QED BY <1>2, <1>3, <1>4, <1>5, <1>6, <1>7, <1>8, <1>9 DEF Next, Step

\* No false negatives of the bloom filter, for every instance without power loss: get()
\* sees every cell that was written, before and after a recovery from stored filter bits.
THEOREM BloomComplete == ~PowerLoss /\ Spec => []BloomCovers
<1> SUFFICES ASSUME ~PowerLoss PROVE Spec => []BloomCovers
  OBVIOUS
<1>1. Init => BloomInv
  BY EmptyCovered DEF Init, BloomInv, EmptyImage, Covered
<1>2. TypeInv /\ BloomInv => BloomCovers
  <2> SUFFICES ASSUME TypeInv, BloomInv
               PROVE  known \subseteq bloom /\ \A k \in Cells : get(k) = cells[k]
    BY DEF BloomCovers
  <2> QED BY DEF BloomInv, Covered, get
<1> QED BY <1>1, <1>2, StepBloom, InitType, StepType, PTL DEF Spec

-----------------------------------------------------------------------------
(* The labels of a delta. *)

\* Every step keeps the LSN and the log in step.
LEMMA StepLsn ==
    ASSUME CountedFaults
    PROVE  TypeInv /\ LsnInv /\ [Next]_vars => LsnInv'
<1> SUFFICES ASSUME TypeInv, LsnInv, [Next]_vars PROVE LsnInv'
  OBVIOUS
<1> USE DEF mem, op, disk, hist
<1>0. /\ wal \in Seq(Entry) /\ lsn \in Nat /\ base \in Nat /\ Len(wal) \in Nat
      /\ ckpt \in Image /\ OpType /\ (stage = "trunc" => kind \in {"ckpt", "install"})
  BY DEF TypeInv, TypeOK, MemType, DiskType, OpType, Writes
<1>1. CASE /\ kind # "install" /\ stage \in {"idle", "delta", "wal"}
           /\ kind' # "install" /\ stage' \in {"idle", "delta", "wal", "tmp"}
           /\ UNCHANGED <<up, lsn, wal, base, ckpt, torn, walGood>>
  BY <1>1 DEF LsnInv
<1>2. CASE ClientOp \/ checkpoint \/ DeltaStep
  <2>1. kind # "install"
    BY <1>0, <1>2 DEF ClientOp, put, cput, del, BeginWrite, checkpoint, DeltaStep, OpType, Writes
  <2> QED BY <1>1, <1>2, <2>1 DEF ClientOp, put, cput, del, BeginWrite, checkpoint, DeltaStep, Return
<1>3. CASE ReplicaOp
  <2>1. kind # "install" /\ stage = "idle"
    BY <1>0, <1>3 DEF ReplicaOp, apply_replicated, apply_wal_delta_blob, load_snapshot_blob,
       BeginWrite, OpType, Writes
  <2>2. CASE \E s \in Snapshots : load_snapshot_blob(s)
    BY <2>1, <2>2 DEF load_snapshot_blob, LsnInv
  <2>3. CASE ~\E s \in Snapshots : load_snapshot_blob(s)
    BY <1>1, <1>3, <2>1, <2>3 DEF ReplicaOp, apply_replicated, apply_wal_delta_blob, BeginWrite
  <2> QED BY <2>2, <2>3
<1>4. CASE WriteWal
  <2>1. kind # "install" /\ cur \in Entry
    BY <1>0, <1>4 DEF WriteWal, OpType, Writes
  <2>2. wal' = Append(wal, cur)
    BY <1>4 DEF WriteWal, LsnInv
  <2>3. Len(wal') = Len(wal) + 1
    BY <1>0, <2>1, <2>2
  <2> QED BY <1>0, <1>4, <2>1, <2>3 DEF WriteWal, Goto, LsnInv
<1>5. CASE WriteWalFails
  <2>1. kind # "install"
    BY <1>0, <1>5 DEF WriteWalFails, OpType, Writes
  <2>2. lsn = base + Len(wal) /\ ckpt.lsn = base
    BY <1>5, <2>1 DEF WriteWalFails, LsnInv
  <2>3. torn' => ~walGood'
    <3>1. CASE walGood' = FALSE
      BY <3>1
    <3>2. CASE ~walGood /\ UNCHANGED <<walGood, torn>>
      BY <3>2
    <3> QED BY <1>5, <3>1, <3>2 DEF WriteWalFails
  <2> QED BY <1>5, <2>2, <2>3 DEF WriteWalFails, Return, LsnInv
<1>6. CASE UpdateRows
  <2>1. kind # "install"
    BY <1>0, <1>6 DEF UpdateRows, OpType, Writes
  <2> QED BY <1>6, <2>1 DEF UpdateRows, Goto, Return, LsnInv
<1>7. CASE WriteTmp
  BY <1>7 DEF WriteTmp, LsnInv
<1>8. CASE RenameTmp
  BY <1>8 DEF RenameTmp, Goto, LsnInv
<1>9. CASE TruncateWal
  <2>1. Len(wal') = 0
    BY <1>9 DEF TruncateWal
  <2> QED BY <1>0, <1>9, <2>1 DEF TruncateWal, Goto, LsnInv
<1>10. CASE StoreVersion
  BY <1>10 DEF StoreVersion, Return, LsnInv
<1>11. CASE CheckpointFails
  <2>1. stage # "trunc" /\ kind # "install"
    BY <1>0, <1>11 DEF CheckpointFails, CountedFaults, Stages
  <2> QED BY <1>11, <2>1 DEF CheckpointFails, Return, LsnInv
<1>12. CASE Crash \/ PowerFailure
  <2>1. stage # "trunc"
    BY <1>0, <1>12 DEF Crash, PowerFailure, CountedFaults
  <2>2. ckpt'.lsn = ckpt.lsn
    BY <1>0, <1>12 DEF Crash, PowerFailure, Image
  <2> QED BY <1>12, <2>1, <2>2 DEF Crash, PowerFailure, LsnInv
<1>13. CASE Writeback \/ UNCHANGED vars
  BY <1>13 DEF Writeback, vars, LsnInv
<1>14. CASE recover
  <2>1. lsn' = base + Len(wal) /\ ckpt.lsn = base
    BY <1>14 DEF recover, RecoveredLsn, LsnInv
  <2> QED BY <1>14, <2>1 DEF recover, Return, LsnInv
<1> QED BY <1>2, <1>3, <1>4, <1>5, <1>6, <1>7, <1>8, <1>9, <1>10, <1>11, <1>12, <1>13, <1>14
        DEF Next, Step

\* The labels of wal_delta_after are the LSNs of the entries, for logs of any length, when
\* no checkpoint stops between its rename and the log truncation.
THEOREM DeltaLabels == CountedFaults /\ Spec => []DeltaExact
<1> SUFFICES ASSUME CountedFaults PROVE Spec => []DeltaExact
  OBVIOUS
<1>1. Init => LsnInv
  BY DEF Init, LsnInv, EmptyImage
<1>2. TypeInv /\ LsnInv => DeltaExact
  <2> SUFFICES ASSUME TypeInv, LsnInv, up, stage = "idle" PROVE DeltaExact
    BY DEF DeltaExact
  <2>1. /\ wal \in Seq(Entry) /\ lsn \in Nat /\ base \in Nat /\ Len(wal) \in Nat
        /\ lsn = base + Len(wal)
    BY DEF TypeInv, TypeOK, MemType, DiskType, OpType, Writes, LsnInv
  <2>2. ASSUME NEW n \in base..lsn
        PROVE  wal_delta_after(n) = [first |-> n + 1, entries |-> SubSeq(wal, n - base + 1, Len(wal))]
    <3>1. ~(Len(wal) > lsn) /\ lsn - Len(wal) + 1 = base + 1
      BY <2>1
    <3>2. (IF n < base + 1 THEN 0 ELSE n - (base + 1) + 1) = n - base
      BY <2>1
    <3>3. base + 1 + (n - base) = n + 1
      BY <2>1
    <3> QED BY <3>1, <3>2, <3>3 DEF wal_delta_after
  <2>3. ASSUME NEW n \in base..lsn
        PROVE  /\ Len(SubSeq(wal, n - base + 1, Len(wal))) = lsn - n
               /\ \A i \in 1..(lsn - n) :
                     SubSeq(wal, n - base + 1, Len(wal))[i] = wal[n - base + i]
    BY <2>1
  <2>4. ASSUME NEW n \in base..lsn
        PROVE  LET d == wal_delta_after(n)
               IN  /\ Len(d.entries) = lsn - n
                   /\ n < lsn => d.first = n + 1
                   /\ \A i \in 1..(lsn - n) : d.entries[i] = wal[n - base + i]
    <3> DEFINE e == SubSeq(wal, n - base + 1, Len(wal))
    <3>1. wal_delta_after(n).entries = e /\ wal_delta_after(n).first = n + 1
      BY <2>2
    <3>2. Len(e) = lsn - n /\ \A i \in 1..(lsn - n) : e[i] = wal[n - base + i]
      BY <2>3
    <3> HIDE DEF e
    <3> QED BY <3>1, <3>2
  <2> QED BY <2>1, <2>4 DEF DeltaExact
<1> QED BY <1>1, <1>2, StepLsn, InitType, StepType, PTL DEF Spec

-----------------------------------------------------------------------------
(* The loop of replay_wal, by induction over the log. *)

LessNat == {ss \in Nat \X Nat : ss[1] < ss[2]}

\* A set that holds 0 and the successor of each member below n holds 0..n.
LEMMA UpToLog ==
    ASSUME NEW n \in Nat, NEW S, 0 \in S,
           \A i \in 0..n - 1 : i \in S => i + 1 \in S
    PROVE  0..n \subseteq S
<1> SUFFICES ASSUME (0..n) \ S # {} PROVE FALSE
  OBVIOUS
<1>1. IsWellFoundedOn(LessNat, Nat)
  BY NatLessThanWellFounded, Zenon DEF OpToRel, LessNat
<1>2. (0..n) \ S \in SUBSET Nat
  OBVIOUS
<1>3. PICK x \in (0..n) \ S : \A y \in (0..n) \ S : ~(<<y, x>> \in LessNat)
  BY <1>1, <1>2, WFMin
<1>4. x # 0 /\ x - 1 \in 0..n - 1 /\ x - 1 < x /\ (x - 1) + 1 = x
  BY <1>3
<1>5. <<x - 1, x>> \in LessNat
  BY <1>3, <1>4 DEF LessNat
<1>6. x - 1 \in S
  BY <1>3, <1>4, <1>5
<1> QED BY <1>3, <1>4, <1>6

\* The contents after the first i entries.
After(c, w, i) == [k \in Cells |-> ReplayedCell(c, SubSeq(w, 1, i), k)]

\* Each entry changes its cell and no other.
LEMMA AfterStep ==
    ASSUME NEW c \in CellMap, NEW w \in Seq(Entry), NEW i \in 0..Len(w) - 1,
           \A k \in Cells : HasLast(SubSeq(w, 1, i), k)
    PROVE  /\ \A k \in Cells : HasLast(SubSeq(w, 1, i + 1), k)
           /\ After(c, w, i + 1) = [After(c, w, i) EXCEPT ![w[i + 1].key] = w[i + 1].val]
<1> DEFINE v == SubSeq(w, 1, i)
           e == w[i + 1]
<1>1. Len(w) \in Nat /\ i \in Nat /\ i + 1 \in 1..Len(w)
  OBVIOUS
<1>2. e \in Entry
  BY <1>1
<1>3. v \in Seq(Entry)
  BY <1>1
<1>4. SubSeq(w, 1, i + 1) = Append(v, e)
  BY <1>1
<1> HIDE DEF v, e
<1>5. ASSUME NEW k \in Cells
      PROVE  /\ HasLast(SubSeq(w, 1, i + 1), k)
             /\ ReplayedCell(c, SubSeq(w, 1, i + 1), k) =
                   IF e.key = k THEN e.val ELSE ReplayedCell(c, v, k)
  <2>1. HasLast(v, k)
    BY DEF v
  <2>2. /\ HasLast(Append(v, e), k)
        /\ ReplayedCell(c, Append(v, e), k) =
              IF e.key = k THEN e.val ELSE ReplayedCell(c, v, k)
    BY <1>2, <1>3, <2>1, ReplayAppend
  <2> QED BY <1>4, <2>2, Zenon
<1>6. After(c, w, i + 1) = [k \in Cells |-> IF e.key = k THEN e.val ELSE ReplayedCell(c, v, k)]
  BY <1>5 DEF After
<1>7. After(c, w, i) = [k \in Cells |-> ReplayedCell(c, v, k)]
  BY DEF After, v
<1>8. After(c, w, i + 1) = [After(c, w, i) EXCEPT ![e.key] = e.val]
  BY <1>6, <1>7
<1> QED BY <1>5, <1>8 DEF e

\* On every log and every contents the loop yields the closed form.
LEMMA LoopIsAfter ==
    ASSUME NEW c \in CellMap, NEW w \in Seq(Entry)
    PROVE  Replay(c, w) = [k \in Cells |-> ReplayedCell(c, w, k)]
<1> DEFINE L == Len(w)
           A == [i \in 0..L |-> After(c, w, i)]
           Def(G) == G = [i \in 0..L |-> IF i = 0 THEN c
                                         ELSE [G[i - 1] EXCEPT ![w[i].key] = w[i].val]]
           F == CHOOSE G : Def(G)
           Last == {i \in 0..L : \A k \in Cells : HasLast(SubSeq(w, 1, i), k)}
<1>1. L \in Nat
  OBVIOUS
<1>2. SubSeq(w, 1, 0) = <<>> /\ SubSeq(w, 1, L) = w
  OBVIOUS
<1>3. 0..L \subseteq Last
  <2>1. 0 \in Last
    <3>1. \A k \in Cells : HasLast(<<>>, k)
      BY ReplayEmpty
    <3>2. \A k \in Cells : HasLast(SubSeq(w, 1, 0), k)
      BY <1>2, <3>1, Zenon
    <3> QED BY <1>1, <3>2
  <2>2. ASSUME NEW i \in 0..L - 1, i \in Last PROVE i + 1 \in Last
    <3>1. i + 1 \in 0..L
      BY <1>1
    <3> QED BY <2>2, <3>1, AfterStep
  <2> HIDE DEF Last, L
  <2> QED BY <1>1, <2>1, <2>2, UpToLog
<1>4. After(c, w, 0) = c
  BY <1>2, ReplayEmpty DEF After, CellMap
<1>5. \A i \in 0..L - 1 :
         After(c, w, i + 1) = [After(c, w, i) EXCEPT ![w[i + 1].key] = w[i + 1].val]
  <2> TAKE i \in 0..L - 1
  <2>1. \A k \in Cells : HasLast(SubSeq(w, 1, i), k)
    BY <1>1, <1>3
  <2> QED BY <2>1, AfterStep
<1>6. Def(A)
  <2>1. \A i \in 0..L : A[i] = IF i = 0 THEN c
                               ELSE [A[i - 1] EXCEPT ![w[i].key] = w[i].val]
    <3> TAKE i \in 0..L
    <3>1. CASE i = 0
      BY <3>1, <1>1, <1>4
    <3>2. CASE i # 0
      <4>1. i - 1 \in 0..L - 1 /\ (i - 1) + 1 = i /\ i - 1 \in 0..L
        BY <3>2, <1>1
      <4> QED BY <3>2, <4>1, <1>5
    <3> QED BY <3>1, <3>2
  <2> QED BY <2>1
<1>7. Def(F)
  BY <1>6
<1>8. Replay(c, w) = F[L]
  BY DEF Replay
<1>9. F[0] = c /\ \A i \in 0..L - 1 : F[i + 1] = [F[i] EXCEPT ![w[i + 1].key] = w[i + 1].val]
  <2>1. F = [i \in 0..L |-> IF i = 0 THEN c ELSE [F[i - 1] EXCEPT ![w[i].key] = w[i].val]]
    BY <1>7
  <2>2. ASSUME NEW i \in 0..L - 1 PROVE i + 1 \in 0..L /\ i + 1 # 0 /\ (i + 1) - 1 = i
    BY <1>1
  <2> HIDE DEF F
  <2>3. F[0] = c
    BY <1>1, <2>1
  <2>4. ASSUME NEW j \in 0..L, j # 0
        PROVE  F[j] = [F[j - 1] EXCEPT ![w[j].key] = w[j].val]
    BY <2>1, <2>4
  <2>5. ASSUME NEW i \in 0..L - 1
        PROVE  F[i + 1] = [F[i] EXCEPT ![w[i + 1].key] = w[i + 1].val]
    <3> DEFINE j == i + 1
    <3>1. j \in 0..L /\ j # 0 /\ j - 1 = i
      BY <2>2
    <3> HIDE DEF j
    <3>2. F[j] = [F[i] EXCEPT ![w[j].key] = w[j].val]
      BY <2>4, <3>1
    <3> QED BY <3>2 DEF j
  <2> QED BY <2>3, <2>5
<1>10. 0..L \subseteq {i \in 0..L : F[i] = After(c, w, i)}
  <2> HIDE DEF F
  <2>1. 0 \in {i \in 0..L : F[i] = After(c, w, i)}
    BY <1>1, <1>4, <1>9
  <2>2. ASSUME NEW i \in 0..L - 1, i \in {j \in 0..L : F[j] = After(c, w, j)}
        PROVE  i + 1 \in {j \in 0..L : F[j] = After(c, w, j)}
    <3>1. i + 1 \in 0..L
      BY <1>1
    <3>2. F[i] = After(c, w, i)
      BY <2>2
    <3>3. F[i + 1] = After(c, w, i + 1)
      BY <1>5, <1>9, <3>2
    <3> QED BY <3>1, <3>3
  <2> HIDE DEF L
  <2> QED BY <1>1, <2>1, <2>2, UpToLog
<1>11. F[L] = After(c, w, L)
  <2> HIDE DEF F
  <2> QED BY <1>1, <1>10
<1> QED BY <1>2, <1>8, <1>11 DEF After

\* The contents that the model computes for a recovery are those of replay_wal's
\* loop over the entries, for every log and every checkpoint (replay_wal).
THEOREM ReplayExact == Spec => []ReplayIsLoop
<1>1. TypeOK => ReplayIsLoop
  <2> SUFFICES ASSUME TypeOK PROVE ReplayIsLoop
    OBVIOUS
  <2>1. ckpt.cells \in CellMap /\ wal \in Seq(Entry)
    BY DEF TypeOK, DiskType, Image
  <2> QED BY <2>1, LoopIsAfter DEF ReplayIsLoop, RecoveredCells
<1> QED BY <1>1, TypeCorrect, PTL
=============================================================================
