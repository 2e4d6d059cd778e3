----------------------------- MODULE DurableMap -----------------------------
(***************************************************************************)
(* What a tablet promises its callers, without files or steps: a map of    *)
(* cells that changes one write at a time, that can be replaced as a whole *)
(* by a snapshot, and that a crash leaves alone.  Until a replacement has  *)
(* been made durable a crash may undo it, as a whole and never in part.    *)
(***************************************************************************)
CONSTANTS
    Cells, Vals, Nil,
    Replacements   \* the maps a snapshot may install

VARIABLES
    map,       \* the contents
    fallback   \* the contents a crash may leave: map, or the map replaced

mvars == <<map, fallback>>

Init == /\ map = [k \in Cells |-> Nil]
        /\ fallback = {map}

Write(k, v) ==
    /\ map' = [map EXCEPT ![k] = v]
    /\ fallback' = {map'}

Replace(m) ==
    /\ map' = m
    /\ fallback' = {map, m}

\* The replacement is durable.
Settle ==
    /\ UNCHANGED map
    /\ fallback' = {map}

Crash ==
    /\ map' \in fallback
    /\ fallback' = {map'}

Next ==
    \/ \E k \in Cells, v \in Vals \cup {Nil} : Write(k, v)
    \/ \E m \in Replacements : Replace(m)
    \/ Settle
    \/ Crash

Spec == Init /\ [][Next]_mvars
=============================================================================
