----------------------------- MODULE MCKVClient -----------------------------
(***************************************************************************)
(* Instances of KVClient for TLC: two workers, two rows whose tablets have *)
(* their primaries on different nodes.                                     *)
(***************************************************************************)
EXTENDS KVClient, TLC

CONSTANTS n1, n2, r1, r2, a, b

MCHomes == r1 :> n1 @@ r2 :> n2
MCConns == 1..(Cardinality(Workers) + MaxFaults)
Op(k, r, e, v) == [kind |-> k, row |-> r, exp |-> e, val |-> v]

MCStored == r1 :> a @@ r2 :> Nil

\* A compare-and-put of one row, a write and a read of another.
MCOps == {Op("cput", r1, a, b), Op("put_status", r2, a, b), Op("get", r2, a, a)}
=============================================================================
