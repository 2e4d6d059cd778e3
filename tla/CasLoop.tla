------------------------------ MODULE CasLoop ------------------------------
(***************************************************************************)
(* The lists the handlers keep in single columns (folders of mail, rooms   *)
(* and threads of chat, children of drive folders) and the loops that      *)
(* change them: read the column, compute the new list, compare-and-put it, *)
(* and start over when that fails.  A column that does not exist cannot be *)
(* created by compare-and-put: it is put, and the loop starts over.        *)
(*                                                                         *)
(* A write that is reported as failed may have been applied (KVClient      *)
(* shows when).  The worker's handler starts a loop, takes no step while   *)
(* it runs, and finds its answer in loop[w].st.                            *)
(***************************************************************************)
EXTENDS Naturals, Sequences, FiniteSets

CONSTANTS
    Workers,    \* threads that serve requests
    Lists,      \* the columns that hold lists
    Indexed,    \* lists with a copy in the legacy column "index"
    Cap,        \* Cap[l]: the longest l may grow, 0 for any length
    Nil,
    Attempts,   \* rounds of a loop: 5, 8, 12 or 16 in the code
    MaxFaults   \* bound: failed calls and dead workers

ASSUME LoopAssumption ==
    /\ Indexed \subseteq Lists /\ Cap \in [Lists -> Nat]
    /\ Attempts \in Nat \ {0} /\ MaxFaults \in Nat

VARIABLES
    list,    \* list[l]: a sequence, or Nil when there is no column
    index,   \* index[l]: the copy of an indexed list
    loop,    \* loop[w]: the loop that worker w is in
    faults,  \* faults so far
    misled   \* history: items of loops that failed although a write was applied

lvars == <<list, index, loop, faults, misled>>

NoLoop == [st |-> "off", kind |-> "append", on |-> Nil, item |-> Nil,
           att |-> 0, old |-> <<>>, found |-> FALSE, hit |-> FALSE]

Kinds == {"append", "prepend", "remove", "take", "drop"}

Fault == faults < MaxFaults /\ faults' = faults + 1

Items(s) == {s[i] : i \in DOMAIN s}
Without(s, x) ==
    LET Rest[n \in 0..Len(s)] ==
            IF n = 0 THEN <<>>
            ELSE IF s[n] = x THEN Rest[n - 1] ELSE Append(Rest[n - 1], s[n])
    IN  Rest[Len(s)]
Stored(l) == IF list[l] = Nil THEN <<>> ELSE list[l]

\* An over-long list loses its far end: the oldest entries.
Capped(l, k, s) ==
    IF Cap[l] = 0 \/ Len(s) <= Cap[l] THEN s
    ELSE IF k = "prepend" THEN SubSeq(s, 1, Cap[l])
    ELSE SubSeq(s, Len(s) - Cap[l] + 1, Len(s))

\* The list a loop wants to store.
NextList(l, k, s, x) ==
    CASE k = "append"  -> Capped(l, k, IF x \in Items(s) THEN s ELSE Append(s, x))
      [] k = "prepend" -> Capped(l, k, <<x>> \o Without(s, x))
      [] OTHER         -> Without(s, x)

StartLoop(w, k, l, x) ==
    loop' = [loop EXCEPT ![w] =
                [NoLoop EXCEPT !.st = "read", !.kind = k, !.on = l, !.item = x]]

EndLoop(w) == loop' = [loop EXCEPT ![w] = NoLoop]

-----------------------------------------------------------------------------
\* The loop of w returns.
Result(w, ok) ==
    /\ loop' = [loop EXCEPT ![w].st = IF ok THEN "yes" ELSE "no"]
    /\ misled' = IF ~ok /\ loop[w].hit THEN misled \cup {loop[w].item} ELSE misled

\* The next round, or failure after the last one.
Again(w, hit) ==
    IF loop[w].att + 1 < Attempts
    THEN /\ loop' = [loop EXCEPT ![w].st = "read", ![w].att = @ + 1, ![w].hit = @ \/ hit]
         /\ UNCHANGED misled
    ELSE /\ loop' = [loop EXCEPT ![w].st = "no", ![w].hit = @ \/ hit]
         /\ misled' = IF hit \/ loop[w].hit THEN misled \cup {loop[w].item} ELSE misled

\* A loop that is done copies an indexed list before it returns.
Won(w, s) ==
    IF loop[w].on \in Indexed
    THEN loop' = [loop EXCEPT ![w].st = "index", ![w].old = s] /\ UNCHANGED misled
    ELSE Result(w, TRUE)

\* What a round makes of the value it has read.  There may be nothing to do.
\* An indexed list without a column is read from its copy; that this second read
\* may fail, and is then taken for an empty list, is left out.
LoopRead(w) ==
    /\ loop[w].st = "read"
    /\ LET l    == loop[w].on
           k    == loop[w].kind
           s    == IF list[l] = Nil /\ l \in Indexed THEN index[l] ELSE Stored(l)
           same == NextList(l, k, s, loop[w].item) = s
       IN  \/ /\ same /\ k \in {"remove", "take", "drop"}
              /\ Result(w, k # "take")
           \/ /\ same /\ k \in {"append", "prepend"} /\ list[l] # Nil
              /\ Won(w, s)
           \/ /\ ~same \/ (k \in {"append", "prepend"} /\ list[l] = Nil)
              /\ loop' = [loop EXCEPT ![w].st = "write", ![w].old = s,
                                      ![w].found = list[l] # Nil]
              /\ UNCHANGED misled
    /\ UNCHANGED <<list, index, faults>>

\* The read fails.  remove_child takes that for an empty folder.
LoopReadFails(w) ==
    /\ loop[w].st = "read"
    /\ Fault
    /\ IF loop[w].kind \in {"take", "drop"} THEN Result(w, loop[w].kind = "drop")
       ELSE Again(w, FALSE)
    /\ UNCHANGED <<list, index>>

\* The value the write of w's loop would store.
Update(w) == NextList(loop[w].on, loop[w].kind, loop[w].old, loop[w].item)

\* Variant: a put where the code compares.
LoopWriteBlind(w) ==
    /\ loop[w].st = "write"
    /\ list' = [list EXCEPT ![loop[w].on] = Update(w)]
    /\ IF loop[w].found THEN Won(w, loop[w].old) ELSE Again(w, TRUE)
    /\ UNCHANGED <<index, faults>>

\* CPUT of an existing column, PUT of a missing one.  The second proves nothing,
\* because another worker may put the column too: the loop goes round again.
LoopWrite(w) ==
    /\ loop[w].st = "write"
    /\ LET l == loop[w].on IN
          \/ /\ loop[w].found /\ list[l] = loop[w].old
             /\ list' = [list EXCEPT ![l] = Update(w)]
             /\ Won(w, loop[w].old)
          \/ /\ loop[w].found /\ list[l] # loop[w].old
             /\ Again(w, FALSE)
             /\ UNCHANGED list
          \/ /\ ~loop[w].found
             /\ list' = [list EXCEPT ![l] = Update(w)]
             /\ Again(w, TRUE)
    /\ UNCHANGED <<index, faults>>

\* The write is not answered: it has been applied or not.
LoopWriteFails(w) ==
    /\ loop[w].st = "write"
    /\ Fault
    /\ \/ Again(w, FALSE) /\ UNCHANGED list
       \/ /\ loop[w].found => list[loop[w].on] = loop[w].old
          /\ list' = [list EXCEPT ![loop[w].on] = Update(w)]
          /\ Again(w, TRUE)
    /\ UNCHANGED index

\* The plain put of the legacy copy.  Nobody looks at its outcome.
CopyIndex(w) ==
    /\ loop[w].st = "index"
    /\ Result(w, TRUE)
    /\ \/ index' = [index EXCEPT ![loop[w].on] = Update(w)] /\ UNCHANGED faults
       \/ Fault /\ UNCHANGED index
    /\ UNCHANGED list

LoopStep(w) ==
    \/ LoopRead(w) \/ LoopReadFails(w)
    \/ LoopWrite(w) \/ LoopWriteFails(w)
    \/ CopyIndex(w)

LoopInit(first, copy) ==
    /\ list = first /\ index = copy
    /\ loop = [w \in Workers |-> NoLoop]
    /\ faults = 0 /\ misled = {}

\* The states a loop over elements Elems can be in.
LoopStates(Elems) ==
    [st : {"off", "read", "write", "index", "yes", "no"}, kind : Kinds,
     on : Lists \cup {Nil}, item : Elems \cup {Nil}, att : 0..Attempts - 1,
     old : Seq(Elems), found : BOOLEAN, hit : BOOLEAN]

LoopTypeOK(Elems) ==
    /\ list \in [Lists -> Seq(Elems) \cup {Nil}]
    /\ index \in [Indexed -> Seq(Elems)]
    /\ loop \in [Workers -> LoopStates(Elems)]
    /\ \A w \in Workers : loop[w].st # "off" => loop[w].on \in Lists /\ loop[w].item \in Elems
    /\ faults \in 0..MaxFaults /\ misled \subseteq Elems
=============================================================================
