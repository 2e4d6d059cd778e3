---------------------------- MODULE MCReplication ----------------------------
(***************************************************************************)
(* Instances of Replication for TLC: a primary with two replicas, two      *)
(* client requests on one cell.                                            *)
(***************************************************************************)
EXTENDS Replication, TLC

CONSTANTS n1, n2, n3, w1, w2, k1, a, b

MCNodes    == {n1, n2, n3}
TwoNodes   == {n1, n2}
MCRequests == {w1, w2}
MCKeys     == {k1}
MCVals     == {a, b}
OneVal     == {a}

\* The replicas are interchangeable, and so are the requests and the values.
MCSymmetry == Permutations({n2, n3}) \cup Permutations({w1, w2})
                 \cup Permutations({a, b})
=============================================================================
