------------------------------ MODULE MCTablet ------------------------------
(***************************************************************************)
(* Instances of Tablet for TLC: two rows with one column, two values, and  *)
(* fault sets that say where the process may be killed and which file      *)
(* operations may fail.                                                    *)
(***************************************************************************)
EXTENDS Tablet

CONSTANTS r1, r2, c1, v1, v2

MCRows == {r1, r2}
MCCols == {c1}
MCVals == {v1, v2}

\* A snapshot that has a row this tablet may lack, lacks one it may have, and
\* may carry a lower LSN than the tablet's own.
MCSnapshots ==
    {[ver |-> 0, lsn |-> 2, known |-> {r2},
      cells |-> [k \in {r1, r2} \X {c1} |-> IF k[1] = r2 THEN v2 ELSE Nil]]}

\* Deltas whose first label is behind, at and beyond the tablet's LSN.
MCDeltas ==
    {[first |-> n, entries |-> <<[key |-> <<r1, c1>>, val |-> v1],
                                 [key |-> <<r1, c1>>, val |-> Nil]>>]
        : n \in 1..2}

None == {}

\* Every step of every operation.
AllPoints == Kinds \X Stages

\* Every step, except between the rename and the log truncation while a
\* snapshot is being installed.
AllButInstall == AllPoints \ {<<"install", "trunc">>}

\* Every step, except between the rename and the log truncation.
AllButTruncate == AllPoints \ {<<"install", "trunc">>, <<"ckpt", "trunc">>}

\* Failing log writes, and a checkpoint file that cannot be written or renamed.
LogAndFileFaults == (Writes \X {"wal"}) \cup ({"ckpt"} \X {"tmp", "rename"})

\* A checkpoint any file operation of which may fail.
CheckpointFaults == {"ckpt"} \X {"tmp", "rename", "trunc"}
=============================================================================
