------------------------------- MODULE Tablet -------------------------------
(***************************************************************************)
(* One tablet of a storage node (kvstore/src/tablet.cc): the in-memory map *)
(* of cells, the write-ahead log and the checkpoint file, the operations   *)
(* that hold wal_mu_, process kills at any of their steps, and recovery.   *)
(*                                                                         *)
(* wal_mu_ serialises every operation that changes state, so one operation *)
(* is under way at a time; `kind' and `stage' say which one and how far it *)
(* has got.  Steps are cut where another thread or a kill can come between *)
(* two effects: after the log append, after the rows update, and at each   *)
(* file operation of a checkpoint.                                         *)
(***************************************************************************)
EXTENDS Integers, Sequences

CONSTANTS
    Rows, Cols,   \* row and column names; a cell is a pair of them
    Vals,         \* cell values
    Nil,          \* an absent cell; as the value of a log entry, a DELETE
    Snapshots,    \* snapshots a primary may send (load_snapshot_blob)
    Deltas,       \* WAL deltas a primary may send (apply_wal_delta_blob)
    CrashPoints,  \* <<kind, stage>> pairs at which the process may be killed
    FailPoints,   \* <<kind, stage>> pairs whose file operation may fail
    PowerLoss,    \* whether the kernel may crash with unsynced pages
    MaxLsn,       \* bound: operations start only below this LSN
    MaxVer        \* bound: checkpoints start only below this version

Cells == Rows \X Cols

\* A log entry: WAL_PUT of a value, or WAL_DELETE when val is Nil.
Entry == [key : Cells, val : Vals \cup {Nil}]

CellMap == [Cells -> Vals \cup {Nil}]

\* A snapshot_blob, and a checkpoint file, which also stores the bloom filter.
Snapshot == [ver : Nat, lsn : Nat, cells : CellMap, known : SUBSET Rows]
Image    == [ver : Nat, lsn : Nat, cells : CellMap, known : SUBSET Rows,
             bloom : SUBSET Rows]

\* The blob of wal_delta_after: consecutive entries, the first one labelled.
Delta == [first : Nat \ {0}, entries : Seq(Entry)]

Writes == {"put", "cput", "del", "repl", "delta"}
Kinds  == Writes \cup {"none", "ckpt", "install"}
Stages == {"idle", "delta", "wal", "rows", "tmp", "rename", "trunc", "store"}

ASSUME NilAssumption   == Nil \notin Vals
ASSUME InputAssumption == /\ Snapshots \subseteq Snapshot
                          /\ \A s \in Snapshots, k \in Cells :
                                s.cells[k] # Nil => k[1] \in s.known
                          /\ Deltas \subseteq Delta
ASSUME FaultAssumption == /\ CrashPoints \subseteq Kinds \X Stages
                          /\ FailPoints  \subseteq Kinds \X Stages
                          /\ PowerLoss \in BOOLEAN
ASSUME BoundAssumption == MaxLsn \in Nat /\ MaxVer \in Nat

VARIABLES
    up,       \* the process runs; while it is down the in-memory variables
              \* keep the values they had when it was killed
    cells,    \* rows_: the value of every cell
    known,    \* the keys of rows_ (a row stays when its last cell is erased)
    bloom,    \* bloom_: the rows added to the filter
    lsn,      \* lsn_
    ver,      \* checkpoint_version_
    walGood,  \* wal_.good(): no write to the log stream has failed
    kind,     \* the operation that holds wal_mu_
    stage,    \* its next step
    cur,      \* the log entry it is writing
    todo,     \* the delta entries it has not applied yet
    next,     \* the LSN label of the first of them
    img,      \* the image in the .ckpt.tmp file
    wal,      \* the complete entries of the .wal file
    torn,     \* the .wal file ends in an incomplete entry
    ckpt,     \* the .ckpt file (the empty image when there is none)
    synced,   \* the pages of the .ckpt file have reached the disk
    readable, \* the .ckpt file parses
    base,     \* history: the LSN of the last operation before wal[1]
    prev      \* history: the contents a snapshot in progress replaces

mem  == <<cells, known, bloom, lsn, ver, walGood>>
op   == <<kind, stage, cur, todo, next, img>>
disk == <<wal, torn, ckpt, synced, readable>>
hist == <<base, prev>>
vars == <<up, cells, known, bloom, lsn, ver, walGood, kind, stage, cur, todo,
          next, img, wal, torn, ckpt, synced, readable, base, prev>>

\* A tablet without a checkpoint file.
EmptyImage == [ver |-> 0, lsn |-> 0, cells |-> [k \in Cells |-> Nil],
               known |-> {}, bloom |-> {}]

-----------------------------------------------------------------------------
(* What the files say. *)

\* Mutant: the first entry of a cell wins.
ReplayedCell_First(c, w, k) ==
    LET hits == {i \in 1..Len(w) : w[i].key = k}
    IN  IF hits = {} THEN c[k]
        ELSE w[CHOOSE i \in hits : \A j \in hits : i <= j].val

\* The value of cell k after the log is replayed over contents c: that of its
\* last entry.  The loop of replay_wal reaches the same value entry by entry.
ReplayedCell(c, w, k) ==
    LET hits == {i \in 1..Len(w) : w[i].key = k}
    IN  IF hits = {} THEN c[k]
        ELSE w[CHOOSE i \in hits : \A j \in hits : j <= i].val

RecoveredCells == [k \in Cells |-> ReplayedCell(ckpt.cells, wal, k)]

\* The loop of replay_wal, entry by entry.
Replay(c, w) ==
    LET F[i \in 0..Len(w)] ==
          IF i = 0 THEN c ELSE [F[i - 1] EXCEPT ![w[i].key] = w[i].val]
    IN  F[Len(w)]

\* replay_wal creates a row for a PUT, and only for a PUT.
RecoveredKnown == ckpt.known \cup
    {r \in Rows : \E i \in 1..Len(wal) : wal[i].key[1] = r /\ wal[i].val # Nil}

\* The log entries carry no LSN: recovery counts them.
RecoveredLsn == ckpt.lsn + Len(wal)

\* Mutant: replay_wal does not add the rows that it creates.
RecoveredBloom_Stored == ckpt.bloom

\* deserialize replaces the filter by the stored bits, whatever load_checkpoint
\* added before; replay_wal adds the rows that it creates.
RecoveredBloom == ckpt.bloom \cup (RecoveredKnown \ ckpt.known)

\* What recover would rebuild if the process were started now.
OnDisk == [cells |-> RecoveredCells, known |-> RecoveredKnown]

\* Mutant: the labels are one too low.
wal_delta_after_Low(n) ==
    LET size    == Len(wal)
        oldest  == lsn - size
        skipped == IF n < oldest THEN 0 ELSE n - oldest + 1
    IN  [first |-> oldest + skipped, entries |-> SubSeq(wal, skipped + 1, size)]

\* wal_delta_after: the LSNs of the entries, derived by counting back from lsn,
\* and the entries above n.
wal_delta_after(n) ==
    LET size    == Len(wal)
        oldest  == IF size > lsn THEN 1 ELSE lsn - size + 1
        skipped == IF n < oldest THEN 0 ELSE n - oldest + 1
    IN  [first   |-> oldest + skipped,
         entries |-> SubSeq(wal, skipped + 1, size)]

-----------------------------------------------------------------------------
(* The rows. *)

\* get_or_create_row puts a row into the filter when it creates it.
BloomAfter(e) ==
    IF e.val = Nil \/ e.key[1] \in known THEN bloom ELSE bloom \cup {e.key[1]}

KnownAfter(e) == IF e.val = Nil THEN known ELSE known \cup {e.key[1]}

\* The contents of rows_, now and once the operation under way has returned.
Contents == [cells |-> cells, known |-> known]

Logical == IF stage = "rows"
           THEN [cells |-> [cells EXCEPT ![cur.key] = cur.val],
                 known |-> KnownAfter(cur)]
           ELSE Contents

\* What get() answers: a row that is not in the filter is not looked up.
get(k) ==
    IF k[1] \notin bloom \/ k[1] \notin known THEN Nil ELSE cells[k]

\* Mutant: the operation ends without leaving its step.
Return_Stuck == /\ kind' = "none" /\ stage' = stage
                /\ cur' = Nil /\ todo' = <<>> /\ next' = 1 /\ img' = EmptyImage

\* The operation returns and releases wal_mu_.
Return == /\ kind' = "none" /\ stage' = "idle"
          /\ cur' = Nil /\ todo' = <<>> /\ next' = 1 /\ img' = EmptyImage

Goto(s) == stage' = s /\ UNCHANGED <<kind, cur, todo, next, img>>

BeginWrite(kd, k, v) ==
    /\ up /\ stage = "idle" /\ lsn < MaxLsn
    /\ kind' = kd /\ stage' = "wal"
    /\ cur' = [key |-> k, val |-> v]
    /\ UNCHANGED <<up, mem, todo, next, img, disk, hist>>

-----------------------------------------------------------------------------
(* Operations, up to their first write. *)

put(k, v) == BeginWrite("put", k, v)

\* The comparison, the log write and the update run under wal_mu_.
cput(k, v1, v2) == get(k) = v1 /\ BeginWrite("cput", k, v2)

\* Deleting an absent cell succeeds and writes nothing.
del(k) == get(k) # Nil /\ BeginWrite("del", k, Nil)

\* A replicated operation with LSN n: n <= lsn is acknowledged and ignored, a
\* gap is refused, and neither changes the tablet.
apply_replicated(k, v, n) == n = lsn + 1 /\ BeginWrite("repl", k, v)

apply_wal_delta_blob(d) ==
    /\ up /\ stage = "idle" /\ lsn + Len(d.entries) <= MaxLsn
    /\ kind' = "delta" /\ stage' = "delta"
    /\ todo' = d.entries /\ next' = d.first
    /\ UNCHANGED <<up, mem, cur, img, disk, hist>>

\* The loop over the entries of the delta: an entry that is already applied is
\* skipped, a gap ends the call with what was applied so far kept, and the next
\* one in order is written to the log.
DeltaStep ==
    /\ up /\ stage = "delta"
    /\ UNCHANGED <<up, mem, disk, hist>>
    /\ \/ /\ todo = <<>>
          /\ Return
       \/ /\ todo # <<>> /\ next <= lsn
          /\ todo' = Tail(todo) /\ next' = next + 1
          /\ UNCHANGED <<kind, stage, cur, img>>
       \/ /\ todo # <<>> /\ next > lsn + 1
          /\ Return
       \/ /\ todo # <<>> /\ next = lsn + 1
          /\ stage' = "wal" /\ cur' = Head(todo)
          /\ todo' = Tail(todo) /\ next' = next + 1
          /\ UNCHANGED <<kind, img>>

-----------------------------------------------------------------------------
(* The log write and the rows update of put, cput, del and the rest. *)

\* write_wal_put / write_wal_delete: append, flush, fdatasync, and only then
\* count the operation.  An entry behind an incomplete one is never read back.
WriteWal ==
    /\ up /\ stage = "wal" /\ walGood
    /\ wal' = IF torn THEN wal ELSE Append(wal, cur)
    /\ lsn' = lsn + 1
    /\ Goto("rows")
    /\ UNCHANGED <<up, cells, known, bloom, ver, walGood,
                   torn, ckpt, synced, readable, hist>>

\* The stream reports an error, now or since an earlier failure: the operation
\* returns false.  A first failure may leave part of the entry in the file.
WriteWalFails ==
    /\ up /\ stage = "wal"
    /\ \/ /\ <<kind, stage>> \in FailPoints /\ walGood
          /\ walGood' = FALSE
          /\ torn' \in {torn, TRUE}
       \/ ~walGood /\ UNCHANGED <<walGood, torn>>
    /\ Return
    /\ UNCHANGED <<up, cells, known, bloom, lsn, ver,
                   wal, ckpt, synced, readable, hist>>

UpdateRows ==
    /\ up /\ stage = "rows"
    /\ cells' = [cells EXCEPT ![cur.key] = cur.val]
    /\ known' = KnownAfter(cur)
    /\ bloom' = BloomAfter(cur)
    /\ IF kind = "delta" THEN Goto("delta") ELSE Return
    /\ UNCHANGED <<up, lsn, ver, walGood, disk, hist>>

-----------------------------------------------------------------------------
(* Checkpoints and snapshots. *)

checkpoint ==
    /\ up /\ stage = "idle" /\ ver < MaxVer
    /\ kind' = "ckpt" /\ stage' = "tmp"
    /\ UNCHANGED <<up, mem, cur, todo, next, img, disk, hist>>

\* load_snapshot_blob swaps the contents under rows_mu_ and then checkpoints.
load_snapshot_blob(s) ==
    /\ up /\ stage = "idle" /\ ver < MaxVer
    /\ cells' = s.cells /\ known' = s.known /\ bloom' = s.known
    /\ lsn' = s.lsn /\ ver' = s.ver
    /\ kind' = "install" /\ stage' = "tmp"
    /\ prev' = Contents
    /\ UNCHANGED <<up, walGood, cur, todo, next, img, disk, base>>

\* Mutant: the log is emptied before the new checkpoint is in place.
WriteTmp_Truncates ==
    /\ up /\ stage = "tmp"
    /\ img' = [ver |-> ver + 1, lsn |-> lsn, cells |-> cells, known |-> known,
               bloom |-> bloom]
    /\ stage' = "rename" /\ wal' = <<>>
    /\ UNCHANGED <<up, mem, kind, cur, todo, next, torn, ckpt, synced,
                   readable, hist>>

WriteTmp ==
    /\ up /\ stage = "tmp"
    /\ img' = [ver |-> ver + 1, lsn |-> lsn, cells |-> cells, known |-> known,
               bloom |-> bloom]
    /\ stage' = "rename"
    /\ UNCHANGED <<up, mem, kind, cur, todo, next, disk, hist>>

\* Mutant: the result of rename is ignored, and the log is truncated anyway.
RenameTmp_Ignored ==
    /\ up /\ stage = "rename"
    /\ Goto("trunc")
    /\ UNCHANGED <<up, mem, disk, hist>>

RenameTmp ==
    /\ up /\ stage = "rename"
    /\ ckpt' = img /\ synced' = FALSE /\ readable' = TRUE
    /\ Goto("trunc")
    /\ UNCHANGED <<up, mem, wal, torn, hist>>

\* wal_ is closed and opened again with trunc, which clears its error state.
TruncateWal ==
    /\ up /\ stage = "trunc"
    /\ wal' = <<>> /\ torn' = FALSE /\ walGood' = TRUE
    /\ base' = img.lsn
    /\ Goto("store")
    /\ UNCHANGED <<up, cells, known, bloom, lsn, ver,
                   ckpt, synced, readable, prev>>

StoreVersion ==
    /\ up /\ stage = "store"
    /\ ver' = img.ver /\ lsn' = img.lsn
    /\ Return
    /\ UNCHANGED <<up, cells, known, bloom, walGood, disk, hist>>

\* The temporary file cannot be written or renamed: return false.  The log
\* cannot be opened with trunc: it is opened for append instead, return false.
CheckpointFails ==
    /\ up /\ <<kind, stage>> \in FailPoints
    /\ \/ stage \in {"tmp", "rename"} /\ UNCHANGED walGood
       \/ stage = "trunc" /\ walGood' = TRUE
    /\ Return
    /\ UNCHANGED <<up, cells, known, bloom, lsn, ver, disk, hist>>

-----------------------------------------------------------------------------
(* Kills and recovery. *)

\* A kill in the middle of a log write may leave part of the entry in the file.
Crash ==
    /\ up /\ <<kind, stage>> \in CrashPoints
    /\ up' = FALSE
    /\ IF stage = "wal" THEN torn' \in {torn, TRUE} ELSE torn' = torn
    /\ UNCHANGED <<mem, op, wal, ckpt, synced, readable, hist>>

\* The checkpoint file is written and renamed without fsync.  If the kernel
\* stops before it has written the pages back, the file may be cut: before the
\* rows end, and it does not parse, or in the filter that ends it.
PowerFailure ==
    /\ PowerLoss /\ up /\ <<kind, stage>> \in CrashPoints
    /\ up' = FALSE
    /\ \/ UNCHANGED <<ckpt, readable>>
       \/ ~synced /\ readable' = FALSE /\ UNCHANGED ckpt
       \/ ~synced /\ \E b \in SUBSET ckpt.bloom :
             ckpt' = [ckpt EXCEPT !.bloom = b] /\ UNCHANGED readable
    /\ UNCHANGED <<mem, op, wal, torn, synced, hist>>

\* The kernel writes the pages back in its own time.
Writeback ==
    /\ PowerLoss /\ up /\ ~synced
    /\ synced' = TRUE
    /\ UNCHANGED <<up, mem, op, wal, torn, ckpt, readable, hist>>

\* recover: load_checkpoint, then replay_wal, which cuts an incomplete tail off
\* the file.  A checkpoint that does not parse stops the server.
recover ==
    /\ ~up /\ readable
    /\ up' = TRUE
    /\ cells' = RecoveredCells
    /\ known' = RecoveredKnown
    /\ bloom' = RecoveredBloom
    /\ lsn' = RecoveredLsn
    /\ ver' = ckpt.ver
    /\ walGood' = TRUE
    /\ torn' = FALSE
    /\ Return
    /\ UNCHANGED <<wal, ckpt, synced, readable, hist>>

-----------------------------------------------------------------------------
Init ==
    /\ up = TRUE
    /\ cells = EmptyImage.cells /\ known = {} /\ bloom = {}
    /\ lsn = 0 /\ ver = 0 /\ walGood = TRUE
    /\ kind = "none" /\ stage = "idle"
    /\ cur = Nil /\ todo = <<>> /\ next = 1 /\ img = EmptyImage
    /\ wal = <<>> /\ torn = FALSE /\ ckpt = EmptyImage
    /\ synced = TRUE /\ readable = TRUE
    /\ base = 0 /\ prev = Contents

ClientOp ==
    \/ \E k \in Cells, v \in Vals : put(k, v)
    \/ \E k \in Cells, v1, v2 \in Vals : cput(k, v1, v2)
    \/ \E k \in Cells : del(k)

ReplicaOp ==
    \/ \E k \in Cells, v \in Vals \cup {Nil}, n \in 1..MaxLsn :
          apply_replicated(k, v, n)
    \/ \E d \in Deltas : apply_wal_delta_blob(d)
    \/ \E s \in Snapshots : load_snapshot_blob(s)

Step ==
    \/ DeltaStep \/ WriteWal \/ WriteWalFails \/ UpdateRows
    \/ WriteTmp \/ RenameTmp \/ TruncateWal \/ StoreVersion
    \/ CheckpointFails

Next ==
    \/ ClientOp \/ ReplicaOp \/ checkpoint \/ Step
    \/ Crash \/ PowerFailure \/ Writeback \/ recover

Spec == Init /\ [][Next]_vars

-----------------------------------------------------------------------------
(* Properties. *)

MemType ==
    /\ up \in BOOLEAN /\ walGood \in BOOLEAN
    /\ cells \in CellMap /\ known \in SUBSET Rows /\ bloom \in SUBSET Rows
    /\ lsn \in Nat /\ ver \in Nat

OpType ==
    /\ cur \in Entry \cup {Nil} /\ todo \in Seq(Entry) /\ next \in Nat \ {0}
    /\ img \in Image
    /\ \/ kind = "none" /\ stage = "idle"
       \/ kind \in Writes /\ stage \in {"wal", "rows"} /\ cur \in Entry
       \/ kind = "delta" /\ stage = "delta"
       \/ kind \in {"ckpt", "install"}
          /\ stage \in {"tmp", "rename", "trunc", "store"}

DiskType ==
    /\ wal \in Seq(Entry) /\ ckpt \in Image
    /\ torn \in BOOLEAN /\ synced \in BOOLEAN /\ readable \in BOOLEAN

\* Every variable has its type, and an operation is only ever at a step of its
\* own kind.
TypeOK ==
    /\ MemType /\ OpType /\ DiskType
    /\ base \in Nat /\ prev \in [cells : CellMap, known : SUBSET Rows]

\* The closed form that stands for the contents after a replay agrees with
\* the loop of replay_wal on every log and checkpoint that is reached.
ReplayIsLoop == RecoveredCells = Replay(ckpt.cells, wal)

\* Wherever the process may be killed, recover() rebuilds exactly the contents
\* the operations that returned have built, with the operation under way
\* either applied as a whole or, when its log entry is not complete, not at
\* all.  A snapshot being loaded may also be dropped as a whole: the node then
\* restarts with the contents it had before.
Durable ==
    (~up \/ <<kind, stage>> \in CrashPoints) =>
        /\ readable
        /\ OnDisk = Logical \/ (kind = "install" /\ OnDisk = prev)

\* The faults that Durable survives: any kill except between the rename and the
\* log truncation of a snapshot, failing log writes, and checkpoints that fail
\* before the rename.  A log that cannot be truncated is survived as well, as
\* long as no log write has failed.
SafeFaults ==
    /\ ~PowerLoss
    /\ <<"install", "trunc">> \notin CrashPoints
    /\ \A s \in Stages : <<"install", s>> \notin FailPoints
    /\ \/ <<"ckpt", "trunc">> \notin FailPoints
       \/ \A kd \in Writes : <<kd, "wal">> \notin FailPoints

\* The inductive strengthening of Durable: how the files relate to the rows at
\* each step of each operation, and that nothing is written behind an
\* incomplete log entry.
DurableInv ==
    /\ readable
    /\ ~up => <<kind, stage>> \in CrashPoints
    /\ (kind # "install" \/ stage = "store") => OnDisk = Logical
    /\ kind = "install" /\ stage \in {"tmp", "rename"} => OnDisk = prev
    /\ stage \in {"rename", "trunc", "store"} =>
          img.cells = cells /\ img.known = known
    /\ stage \in {"trunc", "store"} => ckpt = img
    /\ stage = "store" => wal = <<>>
    /\ up /\ torn => ~walGood /\ \E kd \in Writes : <<kd, "wal">> \in FailPoints

\* No false negatives: the filter holds every row of rows_ and every row with
\* a value is in rows_, so that get(), cput() and del(), which give up on a row
\* that is not in the filter, see every cell that was written.
BloomCovers ==
    up => /\ known \subseteq bloom
          /\ \A k \in Cells : get(k) = cells[k]

\* wal_delta_after labels the entries it sends with the LSNs under which they
\* were written, although the log does not record them: a requester that is
\* at LSN n gets the operations n + 1 .. lsn, and nothing else under these names.
DeltaExact ==
    up /\ stage = "idle" =>
        /\ lsn = base + Len(wal)
        /\ \A n \in base..lsn :
              LET d == wal_delta_after(n)
              IN  /\ Len(d.entries) = lsn - n
                  /\ n < lsn => d.first = n + 1
                  /\ \A i \in 1..(lsn - n) : d.entries[i] = wal[n - base + i]

\* The faults that DeltaExact survives: no kill and no failure between the rename and
\* the log truncation of a checkpoint, and no snapshot whose checkpoint fails.
CountedFaults ==
    /\ \A kd \in {"ckpt", "install"} : <<kd, "trunc">> \notin CrashPoints \cup FailPoints
    /\ \A s \in Stages : <<"install", s>> \notin FailPoints

\* The inductive strengthening of DeltaExact: the log starts where the checkpoint ends,
\* except while a new checkpoint waits for the log to be cut, and nothing is counted
\* that is written behind an incomplete entry.
LsnInv ==
    /\ up /\ (kind # "install" \/ stage = "store") => lsn = base + Len(wal)
    /\ stage # "trunc" => ckpt.lsn = base
    /\ stage \in {"rename", "trunc", "store"} => img.lsn = lsn
    /\ stage = "trunc" => up /\ ckpt.lsn = img.lsn
    /\ stage = "store" => wal = <<>>
    /\ up /\ torn => ~walGood

\* The map the callers see: while the process is down, what recovery will find.
\* A snapshot is settled when the old log is gone.
Settling == up /\ kind = "install" /\ stage \in {"tmp", "rename", "trunc"}
MapSeen  == IF up THEN Logical.cells ELSE RecoveredCells
Fallback == IF Settling THEN {prev.cells, MapSeen} ELSE {MapSeen}

Abstract == INSTANCE DurableMap WITH
    map          <- MapSeen,
    fallback     <- Fallback,
    Replacements <- {s.cells : s \in Snapshots}

\* The tablet, with its log, its checkpoints and its kills, implements the map
\* that changes one write or one snapshot at a time and survives crashes.
ImplementsMap == Abstract!Spec
=============================================================================
