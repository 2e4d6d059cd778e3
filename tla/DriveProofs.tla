---------------------------- MODULE DriveProofs ----------------------------
(***************************************************************************)
(* Proofs about Drive, for every tree, every set of requests, every number *)
(* of threads and of faults.  The base (types, what a handler at a label   *)
(* has, columns) holds for all objects.  The steps are then sorted into a  *)
(* few classes by what they do to the tree: a commit, which decides who is *)
(* in a conflict, and the steps after it.  Unless it was in a conflict, an *)
(* object is in the one folder that its parent column names or held by the *)
(* one request that moves it, what is deleted stays out of the tree, and   *)
(* no two children of a folder have a name in common.  The counter of used *)
(* bytes comes last: what is there is counted, but for uploads that have   *)
(* still to be added, and so is what was deleted and not yet subtracted.   *)
(***************************************************************************)
EXTENDS Drive, CasLoopProofs, FiniteSetTheorems

-----------------------------------------------------------------------------
(* What can be reached. *)

\* F[i] is what next leads to in i steps.
Spread(o, next, F) ==
    /\ F \in [0..Cardinality(Objects) -> SUBSET Objects]
    /\ F[0] = {o}
    /\ \A i \in 1..Cardinality(Objects) :
          F[i] = F[i - 1] \cup UNION {next[x] : x \in F[i - 1]}
    /\ Reach(o, next) = F[Cardinality(Objects)]

\* The number of objects.
LEMMA ObjectsFinite ==
    /\ IsFiniteSet(Objects) /\ Cardinality(Objects) \in Nat
  BY DriveAssumption, FS_CardinalityType

\* The search of collect_subtree goes round once for each object.
LEMMA ReachSpread ==
    ASSUME NEW o \in Objects, NEW next \in [Objects -> SUBSET Objects]
    PROVE  \E F : Spread(o, next, F)
<1> DEFINE N == Cardinality(Objects)
           Add(S) == S \cup UNION {next[x] : x \in S}
           Run(n, G) == /\ G \in [0..n -> SUBSET Objects]
                        /\ G[0] = {o}
                        /\ \A i \in 1..n : G[i] = Add(G[i - 1])
           S == {n \in Nat : n <= N => \E G : Run(n, G)}
<1>1. N \in Nat
  BY ObjectsFinite
<1>a. \A T \in SUBSET Objects : Add(T) \in SUBSET Objects
  OBVIOUS
<1>2. 0 \in S
  <2>1. Run(0, [i \in 0..0 |-> {o}])
    OBVIOUS
  <2> QED BY <2>1
<1> HIDE DEF Add
<1>3. ASSUME NEW n \in 0..N - 1, n \in S PROVE n + 1 \in S
  <2>1. PICK G : Run(n, G)
    <3>1. n <= N
      BY <1>1
    <3> HIDE DEF Run, N
    <3> QED BY <1>3, <3>1
  <2> DEFINE H == [i \in 0..n + 1 |-> IF i = n + 1 THEN Add(G[n]) ELSE G[i]]
  <2>2. n \in Nat /\ G[n] \in SUBSET Objects
    BY <2>1, <1>1
  <2>3. Add(G[n]) \in SUBSET Objects
    BY <2>2, <1>a
  <2>4. H \in [0..n + 1 -> SUBSET Objects] /\ H[0] = {o}
    BY <2>1, <2>2, <2>3
  <2>5. \A i \in 1..n + 1 : H[i] = Add(H[i - 1])
    BY <2>1, <2>2
  <2>6. Run(n + 1, H)
    BY <2>4, <2>5
  <2> HIDE DEF Run, H
  <2> QED BY <2>6, <1>1
<1>4. 0..N \subseteq S
  <2> HIDE DEF S, N
  <2> QED BY <1>1, <1>2, <1>3, UpTo
<1>5. PICK G : Run(N, G)
  <2> HIDE DEF Run
  <2> QED BY <1>1, <1>4
<1>6. G = [i \in 0..N |-> IF i = 0 THEN {o} ELSE Add(G[i - 1])]
  <2>1. \A i \in 0..N : G[i] = IF i = 0 THEN {o} ELSE Add(G[i - 1])
    BY <1>1, <1>5
  <2> QED BY <1>5, <2>1
<1> DEFINE F == CHOOSE F : F = [n \in 0..Cardinality(Objects) |->
                    IF n = 0 THEN {o} ELSE F[n - 1] \cup UNION {next[x] : x \in F[n - 1]}]
<1>7. F = [i \in 0..N |-> IF i = 0 THEN {o} ELSE Add(F[i - 1])]
  BY <1>6 DEF Add
<1>8. Reach(o, next) = F[N]
  BY DEF Reach
<1>9. F[0] = {o} /\ \A i \in 1..N : F[i] = Add(F[i - 1])
  <2> HIDE DEF F, N
  <2>1. 0 \in 0..N /\ \A i \in 1..N : i \in 0..N /\ i # 0
    BY <1>1
  <2>2. \A i \in 0..N : F[i] = IF i = 0 THEN {o} ELSE Add(F[i - 1])
    BY <1>7, Zenon
  <2> QED BY <2>1, <2>2
<1>10. 0..N \subseteq {i \in 0..N : F[i] = G[i]}
  <2> HIDE DEF F
  <2>1. 0 \in {i \in 0..N : F[i] = G[i]}
    <3>1. 0 \in 0..N
      BY <1>1
    <3>2. F[0] = {o} /\ G[0] = {o}
      BY <1>9, <1>5, Zenon
    <3> QED BY <3>1, <3>2, Zenon
  <2>2. ASSUME NEW i \in 0..N - 1, i \in {j \in 0..N : F[j] = G[j]}
        PROVE  i + 1 \in {j \in 0..N : F[j] = G[j]}
    <3>1. i + 1 \in 1..N /\ (i + 1) - 1 = i
      BY <1>1
    <3>2. F[i + 1] = Add(F[i]) /\ G[i + 1] = Add(G[i])
      BY <1>9, <1>5, <3>1
    <3> QED BY <2>2, <3>1, <3>2
  <2> HIDE DEF N
  <2> QED BY <2>1, <2>2, <1>1, UpTo
<1>11. Reach(o, next) = G[N]
  <2> HIDE DEF F
  <2> QED BY <1>8, <1>10, <1>1
<1> QED BY <1>5, <1>11 DEF Spread, Add

\* Everything it finds leads to nothing that it does not find.
LEMMA ReachClosed ==
    ASSUME NEW o \in Objects, NEW next \in [Objects -> SUBSET Objects]
    PROVE  /\ o \in Reach(o, next) /\ Reach(o, next) \subseteq Objects
           /\ \A x \in Reach(o, next) : next[x] \subseteq Reach(o, next)
<1> DEFINE N == Cardinality(Objects)
<1>0. PICK F : Spread(o, next, F)
  BY ReachSpread
<1>1. /\ F \in [0..N -> SUBSET Objects] /\ F[0] = {o}
      /\ \A i \in 1..N : F[i] = F[i - 1] \cup UNION {next[x] : x \in F[i - 1]}
      /\ Reach(o, next) = F[N]
  BY <1>0 DEF Spread
<1>2. N \in Nat /\ IsFiniteSet(Objects)
  BY ObjectsFinite
<1> DEFINE Closed(T) == \A x \in T : next[x] \subseteq T
           S == {i \in 0..N : o \in F[i] /\ (Closed(F[i]) \/ i < Cardinality(F[i]))}
<1>3. 0 \in S
  <2>1. Cardinality({o}) = 1
    BY FS_Singleton
  <2>2. 0 \in 0..N /\ 0 < 1
    BY <1>2
  <2>3. o \in F[0] /\ 0 < Cardinality(F[0])
    BY <1>1, <2>1, <2>2, Zenon
  <2> QED BY <2>2, <2>3
<1>4. ASSUME NEW i \in 0..N - 1, i \in S PROVE i + 1 \in S
  <2>1. i + 1 \in 1..N /\ i + 1 \in 0..N /\ (i + 1) - 1 = i /\ i \in 0..N
    BY <1>2
  <2>2. F[i + 1] = F[i] \cup UNION {next[x] : x \in F[i]}
    BY <1>1, <2>1
  <2>3. F[i] \subseteq Objects /\ F[i + 1] \subseteq Objects /\ F[i] \subseteq F[i + 1]
    BY <1>1, <2>1, <2>2
  <2>4. CASE Closed(F[i])
    <3>1. F[i + 1] = F[i]
      BY <2>2, <2>4
    <3> QED BY <1>4, <2>1, <2>4, <3>1
  <2>5. CASE ~Closed(F[i])
    <3>1. F[i] # F[i + 1]
      BY <2>2, <2>5
    <3>2. IsFiniteSet(F[i + 1]) /\ IsFiniteSet(F[i])
      BY <1>2, <2>3, FS_Subset
    <3>3. Cardinality(F[i]) \in Nat /\ Cardinality(F[i + 1]) \in Nat
          /\ Cardinality(F[i]) < Cardinality(F[i + 1])
      BY <2>3, <3>1, <3>2, FS_Subset, FS_CardinalityType
    <3>4. i < Cardinality(F[i])
      BY <1>4, <2>5
    <3>5. i + 1 < Cardinality(F[i + 1])
      BY <2>1, <3>3, <3>4, <1>2
    <3>6. o \in F[i + 1]
      BY <1>4, <2>3
    <3> QED BY <2>1, <3>5, <3>6
  <2> QED BY <2>4, <2>5
<1>5. 0..N \subseteq S
  <2> HIDE DEF S, N
  <2> QED BY <1>2, <1>3, <1>4, UpTo
<1>6. N \in S /\ F[N] \subseteq Objects
  BY <1>1, <1>2, <1>5
<1>7. Cardinality(F[N]) <= N
  BY <1>2, <1>6, FS_Subset
<1>8. Cardinality(F[N]) \in Nat
  BY <1>2, <1>6, FS_Subset, FS_CardinalityType
<1>9. o \in F[N] /\ Closed(F[N])
  BY <1>2, <1>6, <1>7, <1>8
<1> QED BY <1>1, <1>6, <1>9

\* It finds no more than it must.
LEMMA ReachLeast ==
    ASSUME NEW o \in Objects, NEW next \in [Objects -> SUBSET Objects],
           NEW T, o \in T, \A x \in T \cap Objects : next[x] \subseteq T
    PROVE  Reach(o, next) \subseteq T
<1> DEFINE N == Cardinality(Objects)
<1>0. PICK F : Spread(o, next, F)
  BY ReachSpread
<1>1. /\ F \in [0..N -> SUBSET Objects] /\ F[0] = {o}
      /\ \A i \in 1..N : F[i] = F[i - 1] \cup UNION {next[x] : x \in F[i - 1]}
      /\ Reach(o, next) = F[N]
  BY <1>0 DEF Spread
<1>2. N \in Nat
  BY ObjectsFinite
<1> DEFINE S == {i \in 0..N : F[i] \subseteq T}
<1>3. 0 \in S
  BY <1>1, <1>2
<1>4. ASSUME NEW i \in 0..N - 1, i \in S PROVE i + 1 \in S
  <2>1. i + 1 \in 1..N /\ i + 1 \in 0..N /\ (i + 1) - 1 = i /\ i \in 0..N
    BY <1>2
  <2>2. F[i + 1] = F[i] \cup UNION {next[x] : x \in F[i]} /\ F[i] \subseteq Objects /\ F[i] \subseteq T
    BY <1>1, <1>4, <2>1
  <2>3. F[i + 1] \subseteq T
    BY <2>2
  <2> QED BY <2>1, <2>3
<1>5. 0..N \subseteq S
  <2> HIDE DEF S, N
  <2> QED BY <1>2, <1>3, <1>4, UpTo
<1> QED BY <1>1, <1>2, <1>5

\* What leads to an object that is found is found too.
LEMMA ReachFrom ==
    ASSUME NEW o \in Objects, NEW next \in [Objects -> SUBSET Objects],
           NEW x \in Reach(o, next), x # o
    PROVE  \E y \in Reach(o, next) : x \in next[y]
<1> SUFFICES ASSUME \A y \in Reach(o, next) : x \notin next[y] PROVE FALSE
  OBVIOUS
<1> DEFINE T == Reach(o, next) \ {x}
<1>1. o \in T /\ \A y \in T \cap Objects : next[y] \subseteq T
  BY ReachClosed
<1>2. Reach(o, next) \subseteq T
  <2> HIDE DEF T
  <2> QED BY <1>1, ReachLeast
<1> QED BY <1>2

\* What can be reached from there can be reached.
LEMMA ReachOn ==
    ASSUME NEW o \in Objects, NEW next \in [Objects -> SUBSET Objects], NEW x \in Reach(o, next)
    PROVE  Reach(x, next) \subseteq Reach(o, next)
  BY ReachClosed, ReachLeast

\* A new link from d to z leads at most to what can be reached from z, and only
\* from where d can be reached.
LEMMA ReachGrows ==
    ASSUME NEW o \in Objects, NEW next \in [Objects -> SUBSET Objects],
           NEW more \in [Objects -> SUBSET Objects], NEW d, NEW z \in Objects,
           \A x \in Objects : more[x] \subseteq next[x] \cup (IF x = d THEN {z} ELSE {})
    PROVE  /\ Reach(o, more) \subseteq Reach(o, next) \cup Reach(z, next)
           /\ d \notin Reach(o, next) => Reach(o, more) \subseteq Reach(o, next)
<1>1. /\ o \in Reach(o, next) /\ z \in Reach(z, next)
      /\ \A x \in Reach(o, next) : next[x] \subseteq Reach(o, next)
      /\ \A x \in Reach(z, next) : next[x] \subseteq Reach(z, next)
      /\ Reach(o, next) \subseteq Objects
  BY ReachClosed
<1>2. Reach(o, more) \subseteq Reach(o, next) \cup Reach(z, next)
  <2> DEFINE T == Reach(o, next) \cup Reach(z, next)
  <2>1. o \in T /\ \A x \in T \cap Objects : more[x] \subseteq T
    BY <1>1
  <2> HIDE DEF T
  <2>2. Reach(o, more) \subseteq T
    BY <2>1, ReachLeast
  <2> QED BY <2>2 DEF T
<1>3. ASSUME d \notin Reach(o, next) PROVE Reach(o, more) \subseteq Reach(o, next)
  <2>1. \A x \in Reach(o, next) \cap Objects : more[x] \subseteq Reach(o, next)
    BY <1>1, <1>3
  <2> QED BY <1>1, <2>1, ReachLeast
<1> QED BY <1>2, <1>3

\* Fewer links lead to less.
LEMMA ReachShrinks ==
    ASSUME NEW o \in Objects, NEW next \in [Objects -> SUBSET Objects],
           NEW less \in [Objects -> SUBSET Objects], \A x \in Objects : less[x] \subseteq next[x]
    PROVE  Reach(o, less) \subseteq Reach(o, next)
<1>1. o \in Reach(o, next) /\ \A x \in Reach(o, next) \cap Objects : less[x] \subseteq Reach(o, next)
  BY ReachClosed
<1> QED BY <1>1, ReachLeast

-----------------------------------------------------------------------------
(* Handlers and their loops. *)

Moving == {"taking", "putting", "dropping", "restoring"}
Placing == {"linking"} \cup Moving
Homed == Moving \cup {"unlinking", "renaming"}

\* The loop that runs at a label for request r, whose object was found in s.
KindAt(p) ==
    IF p \in {"taking", "unlinking"} THEN "take" ELSE IF p = "dropping" THEN "drop" ELSE "append"
ListAt(p, r, s) == IF p \in {"linking", "putting", "dropping"} THEN r.dir ELSE s
LoopAt(p, r, s) ==
    IF p \in Shaky
    THEN [NoLoop EXCEPT !.st = "read", !.kind = KindAt(p), !.on = ListAt(p, r, s),
                        !.item = r.uid]
    ELSE NoLoop

\* The requests that come to a label.
DoAt(p) ==
    IF p \in {"place", "counting"} THEN {"upload"}
    ELSE IF p = "linking" THEN Creates
    ELSE IF p = "renaming" THEN {"rename"}
    ELSE IF p \in Moving THEN {"move"}
    ELSE IF p \in {"unlinking", "deleting", "freeing"} THEN {"delete"}
    ELSE ReqKinds

\* A handler at label p with request r, loop l, folder s and answer a.
Fits(p, r, l, s, a) ==
    /\ p = "idle" <=> r = Nil
    /\ p # "done" => a = "none"
    /\ p # "idle" => r.do \in DoAt(p)
    /\ p \in Placing => r.dir \in Lists
    /\ p \in Homed => s \in Lists
    /\ p \in {"linking", "counting"} => s = Nil
    /\ p \notin Shaky => l = NoLoop
    /\ p \in Shaky => /\ l.st \in {"read", "write", "yes", "no"}
                      /\ l.kind = KindAt(p) /\ l.on = ListAt(p, r, s) /\ l.item = r.uid
                      /\ l.st = "write" /\ ~l.found => l.old = <<>>

Stages == \A w \in Workers : Fits(pc[w], req[w], loop[w], src[w], reply[w])

\* Every request has one worker.
Once == \A v, w \in Workers : req[v] = req[w] /\ req[v] # Nil => v = w

\* The columns of an object that is there.
AllNames == {Names[o] : o \in Objects} \cup {r.name : r \in Requests}
Columns ==
    /\ name \in [Objects -> AllNames]
    /\ \A o \in there \ {Root} : parent[o] \in Lists
    /\ there \ Lists \subseteq whole
    /\ \A d \in there \cap Lists : list[d] # Nil

Base == TypeOK /\ Stages /\ Once /\ Columns

\* The objects that a request is about.
LEMMA RequestTypes ==
    ASSUME NEW r \in Requests
    PROVE  /\ r.do \in ReqKinds /\ r.uid \in Objects /\ r # Nil
           /\ r.do \in Changes => r.uid # Root
           /\ r.do \in Creates => (r.uid \in Lists <=> r.do = "mkdir")
           /\ r.do = "limit" => r.limit \in Nat
  BY DriveAssumption

\* A worker that is in no loop.
LEMMA NoLoopType ==
    NoLoop \in LoopStates(Objects) /\ NoLoop.st = "off"
  BY LoopAssumption DEF NoLoop, LoopStates, Kinds

\* The loop at the start of a label.
LEMMA LoopAtTypes ==
    ASSUME NEW r \in Requests, NEW p, NEW s, p \in Shaky => ListAt(p, r, s) \in Lists
    PROVE  /\ LoopAt(p, r, s) \in LoopStates(Objects)
           /\ p \notin Shaky => LoopAt(p, r, s) = NoLoop
           /\ p \in Shaky => /\ LoopAt(p, r, s).st = "read" /\ LoopAt(p, r, s).kind = KindAt(p)
                             /\ LoopAt(p, r, s).on = ListAt(p, r, s) /\ LoopAt(p, r, s).item = r.uid
           /\ LoopAt(p, r, s).st # "off" =>
                 LoopAt(p, r, s).on \in Lists /\ LoopAt(p, r, s).item \in Objects
<1>1. KindAt(p) \in Kinds /\ r.uid \in Objects
  BY RequestTypes DEF KindAt, Kinds
<1>2. CASE p \notin Shaky
  BY <1>2, NoLoopType DEF LoopAt
<1>3. CASE p \in Shaky
  <2> DEFINE k == KindAt(p)
             l == ListAt(p, r, s)
             q == [NoLoop EXCEPT !.st = "read", !.kind = k, !.on = l, !.item = r.uid]
  <2>1. k \in Kinds /\ l \in Lists
    BY <1>1, <1>3
  <2>2. LoopAt(p, r, s) = q
    BY <1>3 DEF LoopAt
  <2> HIDE DEF k, l
  <2>3. NoLoop \in LoopStates(Objects)
    BY NoLoopType
  <2>4. q \in LoopStates(Objects) /\ q.st = "read" /\ q.kind = k /\ q.on = l /\ q.item = r.uid
    <3> DEFINE o == r.uid
    <3>1. o \in Objects
      BY <1>1
    <3> HIDE DEF o
    <3> QED BY <2>1, <2>3, <3>1 DEF LoopStates, o
  <2> QED BY <1>1, <1>3, <2>1, <2>2, <2>4 DEF k, l
<1> QED BY <1>2, <1>3

\* The children of a folder.
LEMMA KidsTypes ==
    ASSUME LoopTypeOK(Objects)
    PROVE  \A d : Kids(d) \subseteq Objects
<1> SUFFICES ASSUME NEW d, NEW x \in Kids(d) PROVE x \in Objects
  OBVIOUS
<1>1. d \in Lists /\ x \in Items(Stored(d))
  BY DEF Kids
<1>2. Stored(d) \in Seq(Objects)
  BY <1>1, StoredSeq
<1>3. PICK i \in DOMAIN Stored(d) : x = Stored(d)[i]
  BY <1>1 DEF Items
<1> QED BY <1>2, <1>3

\* The links lead from objects to objects.
LEMMA LinksTypes ==
    ASSUME LoopTypeOK(Objects), NEW via
    PROVE  /\ Links(via) \in [Objects -> SUBSET Objects]
           /\ \A o \in Objects : Links(via)[o] = IF o \in via THEN Kids(o) ELSE {}
  BY KidsTypes DEF Links

\* collect_subtree collects objects.
LEMMA SubtreeTypes ==
    ASSUME LoopTypeOK(Objects), NEW o \in Objects
    PROVE  Subtree(o) \subseteq Objects
  BY LinksTypes, ReachClosed DEF Subtree

\* The children change with the list.
LEMMA SameKids ==
    ASSUME NEW d, d \in Lists => list'[d] = list[d]
    PROVE  Kids(d)' = Kids(d)
  BY DEF Kids, Stored

\* The bytes of objects.
LEMMA BytesType ==
    ASSUME NEW S \in SUBSET Objects
    PROVE  Bytes(S) \in Nat /\ IsFiniteSet(UNION {{o} \X (1..Sizes[o]) : o \in S})
<1> DEFINE B(o) == {o} \X (1..Sizes[o])
           T == {B(o) : o \in S}
<1>1. IsFiniteSet(S)
  BY ObjectsFinite, FS_Subset
<1>2. IsFiniteSet(T)
  <2> DEFINE f == [o \in S |-> B(o)]
  <2> HIDE DEF B
  <2>1. f \in Surjection(S, T)
    BY DEF Surjection
  <2> HIDE DEF f, T
  <2> QED BY <1>1, <2>1, FS_Surjection
<1>3. ASSUME NEW X \in T PROVE IsFiniteSet(X)
  <2>1. PICK o \in S : X = B(o)
    OBVIOUS
  <2>2. Sizes[o] \in Int /\ 1 \in Int
    BY DriveAssumption
  <2>3. IsFiniteSet(1..Sizes[o])
    BY <2>2, FS_Interval
  <2>4. IsFiniteSet({o})
    BY FS_Singleton
  <2>5. IsFiniteSet({o} \X (1..Sizes[o]))
    BY <2>3, <2>4, FS_Product
  <2> QED BY <2>1, <2>5
<1>4. IsFiniteSet(UNION T)
  <2> HIDE DEF T
  <2> QED BY <1>2, <1>3, FS_UNION
<1> QED BY <1>4, FS_CardinalityType DEF Bytes

-----------------------------------------------------------------------------
(* The types, the labels and the columns. *)

\* No other worker is touched.
Alone(w) ==
    \A x \in Workers \ {w} :
        /\ pc'[x] = pc[x] /\ req'[x] = req[x] /\ reply'[x] = reply[x] /\ loop'[x] = loop[x]
        /\ src'[x] = src[x] /\ nodes'[x] = nodes[x] /\ tally'[x] = tally[x]

\* The variables that belong to the workers have their types.
WorkerTypes ==
    /\ pc \in [Workers -> Labels] /\ req \in [Workers -> Requests \cup {Nil}]
    /\ reply \in [Workers -> {"none", "ok", "failed"}]
    /\ loop \in [Workers -> LoopStates(Objects)]
    /\ src \in [Workers -> Objects \cup {Nil}] /\ nodes \in [Workers -> SUBSET Objects]

TallyTypes ==
    tally \in [Workers -> [st : {"off", "read", "write"}, delta : Int, old : Nat,
                           att : 0..Attempts - 1]]

\* The variables of the storage have theirs.
StoreTypes ==
    /\ list \in [Lists -> Seq(Objects) \cup {Nil}] /\ index \in [Indexed -> Seq(Objects)]
    /\ faults \in 0..MaxFaults /\ misled \subseteq Objects
    /\ there \subseteq Objects /\ whole \subseteq Objects
    /\ parent \in [Objects -> Objects \cup {Nil}]
    /\ used \in Nat /\ quota \in Nat
    /\ Excused \cup gone \subseteq Objects /\ raced \in BOOLEAN

\* The type invariant, by owner of the variables.
LEMMA TypeParts ==
    TypeOK <=> /\ WorkerTypes /\ TallyTypes /\ StoreTypes
               /\ \A w \in Workers : loop[w].st # "off" => loop[w].on \in Lists /\ loop[w].item \in Objects
  BY DEF TypeOK, LoopTypeOK, WorkerTypes, TallyTypes, StoreTypes

\* A loop that fits its handler works on a list and an object.
LEMMA FitsLoop ==
    ASSUME NEW p \in Labels, NEW r \in Requests \cup {Nil}, NEW l, NEW s, NEW a,
           Fits(p, r, l, s, a), l.st # "off"
    PROVE  p \in Shaky /\ l.on \in Lists /\ l.item \in Objects
<1>1. p \in Shaky
  BY NoLoopType DEF Fits
<1>2. r # Nil
  BY <1>1 DEF Fits, Shaky
<1>3. r.uid \in Objects /\ l.item = r.uid /\ l.on = ListAt(p, r, s)
  BY <1>1, <1>2, RequestTypes DEF Fits
<1>4. ListAt(p, r, s) \in Lists
  BY <1>1 DEF Fits, ListAt, Placing, Homed, Moving, Shaky
<1> QED BY <1>1, <1>3, <1>4

\* It is enough to look at the worker that takes the step.
LEMMA BaseStep ==
    ASSUME Base, NEW w \in Workers, Alone(w),
           WorkerTypes', TallyTypes', StoreTypes', Columns',
           Fits(pc'[w], req'[w], loop'[w], src'[w], reply'[w]),
           \/ req'[w] = req[w]
           \/ \A x \in Workers : req[x] # req'[w]
    PROVE  Base'
<1>1. Stages'
  BY DEF Base, Stages, Alone
<1>2. Once'
  BY DEF Base, Once, Alone
<1>3. \A x \in Workers : loop'[x].st # "off" => loop'[x].on \in Lists /\ loop'[x].item \in Objects
  <2> SUFFICES ASSUME NEW x \in Workers, loop'[x].st # "off"
               PROVE  loop'[x].on \in Lists /\ loop'[x].item \in Objects
    OBVIOUS
  <2>1. pc'[x] \in Labels /\ req'[x] \in Requests \cup {Nil}
    BY DEF WorkerTypes
  <2>2. Fits(pc'[x], req'[x], loop'[x], src'[x], reply'[x])
    BY <1>1 DEF Stages
  <2> QED BY <2>1, <2>2, FitsLoop
<1>4. TypeOK'
  BY <1>3 DEF TypeOK, LoopTypeOK, WorkerTypes, TallyTypes, StoreTypes
<1> QED BY <1>1, <1>2, <1>4 DEF Base

\* The columns are not written.
LEMMA SameColumns ==
    ASSUME Columns, UNCHANGED <<name, there, parent, whole, list>>
    PROVE  Columns'
  BY DEF Columns

\* What a worker that serves a request has.
LEMMA BaseAt ==
    ASSUME Base, NEW w \in Workers
    PROVE  /\ WorkerTypes /\ TallyTypes /\ StoreTypes /\ Columns /\ LoopTypeOK(Objects)
           /\ Fits(pc[w], req[w], loop[w], src[w], reply[w])
           /\ pc[w] \in Labels
           /\ pc[w] # "idle" =>
                 /\ req[w] \in Requests /\ req[w].uid \in Objects /\ req[w].do \in DoAt(pc[w])
                 /\ Sizes[req[w].uid] \in Nat /\ parent[req[w].uid] \in Objects \cup {Nil}
           /\ pc[w] # "done" => reply[w] = "none"
           /\ pc[w] \notin Shaky => loop[w] = NoLoop
<1>1. /\ WorkerTypes /\ TallyTypes /\ StoreTypes /\ Columns /\ LoopTypeOK(Objects)
      /\ Fits(pc[w], req[w], loop[w], src[w], reply[w])
  BY TypeParts DEF Base, Stages, TypeOK
<1>2. pc[w] \in Labels /\ req[w] \in Requests \cup {Nil}
  BY <1>1 DEF WorkerTypes
<1>3. pc[w] # "idle" => req[w] \in Requests /\ req[w].do \in DoAt(pc[w])
  BY <1>1, <1>2 DEF Fits
<1>4. pc[w] # "idle" => req[w].uid \in Objects
  BY <1>3, RequestTypes
<1>5. \A o \in Objects : Sizes[o] \in Nat /\ parent[o] \in Objects \cup {Nil}
  BY <1>1, DriveAssumption DEF StoreTypes
<1> QED BY <1>1, <1>2, <1>3, <1>4, <1>5 DEF Fits

\* The handler of w goes to label p and starts the loop of that label.
Turns(w, p, a) ==
    /\ pc' = [pc EXCEPT ![w] = p] /\ req' = req /\ reply' = [reply EXCEPT ![w] = a]
    /\ loop' = [loop EXCEPT ![w] = LoopAt(p, req[w], src'[w])]
    /\ src' \in {src, [src EXCEPT ![w] = parent[req[w].uid]]}

\* A handler that goes to label p with what that label needs keeps the base.
LEMMA TurnsBase ==
    ASSUME Base, NEW w \in Workers, pc[w] # "idle", NEW p \in Labels \ {"idle"},
           NEW a \in {"none", "ok", "failed"}, Turns(w, p, a),
           p # "done" => a = "none", req[w].do \in DoAt(p),
           p \in Placing => req[w].dir \in Lists, p \in Homed => src'[w] \in Lists,
           p \in {"linking", "counting"} => src'[w] = Nil,
           nodes' \in [Workers -> SUBSET Objects], \A x \in Workers \ {w} : nodes'[x] = nodes[x],
           TallyTypes', \A x \in Workers \ {w} : tally'[x] = tally[x],
           StoreTypes', Columns'
    PROVE  /\ Base' /\ Alone(w) /\ pc'[w] = p /\ reply'[w] = a
           /\ loop'[w] = LoopAt(p, req[w], src'[w])
<1>1. /\ WorkerTypes /\ req[w] \in Requests /\ parent[req[w].uid] \in Objects \cup {Nil}
  BY BaseAt
<1>2. src' \in [Workers -> Objects \cup {Nil}] /\ \A x \in Workers \ {w} : src'[x] = src[x]
  BY <1>1 DEF Turns, WorkerTypes
<1>3. p \in Shaky => ListAt(p, req[w], src'[w]) \in Lists
  BY DEF ListAt, Shaky, Placing, Homed, Moving
<1>4. /\ LoopAt(p, req[w], src'[w]) \in LoopStates(Objects)
      /\ p \notin Shaky => LoopAt(p, req[w], src'[w]) = NoLoop
      /\ p \in Shaky => /\ LoopAt(p, req[w], src'[w]).st = "read"
                        /\ LoopAt(p, req[w], src'[w]).kind = KindAt(p)
                        /\ LoopAt(p, req[w], src'[w]).on = ListAt(p, req[w], src'[w])
                        /\ LoopAt(p, req[w], src'[w]).item = req[w].uid
  BY <1>1, <1>3, LoopAtTypes
<1>5. /\ pc'[w] = p /\ req'[w] = req[w] /\ reply'[w] = a
      /\ loop'[w] = LoopAt(p, req[w], src'[w])
  BY <1>1 DEF Turns, WorkerTypes
<1>6. WorkerTypes' /\ Alone(w)
  BY <1>1, <1>2, <1>4 DEF Turns, WorkerTypes, Alone
<1>7. Fits(pc'[w], req'[w], loop'[w], src'[w], reply'[w])
  <2>1. req[w] # Nil
    BY <1>1, RequestTypes
  <2> QED BY <1>4, <1>5, <2>1 DEF Fits
<1> QED BY <1>5, <1>6, <1>7, BaseStep

\* A handler without a loop keeps none, and one that has not answered keeps silent.
LEMMA TurnsPlain ==
    ASSUME Base, NEW w \in Workers, pc[w] # "idle", NEW p
    PROVE  /\ pc[w] \notin Shaky /\ p \notin Shaky =>
                 loop = [loop EXCEPT ![w] = LoopAt(p, req[w], src[w])]
           /\ pc[w] # "done" => reply = [reply EXCEPT ![w] = "none"]
           /\ p \notin Shaky => NoLoop = LoopAt(p, req[w], src[w])
  BY BaseAt DEF WorkerTypes, LoopAt

\* A tally that is started, ended or changed by a number keeps its type.
LEMMA TallySet ==
    ASSUME TallyTypes, NEW w \in Workers,
           \/ \E d \in Int : StartTally(w, d)
           \/ tally' = [tally EXCEPT ![w] = NoTally]
           \/ \E d \in Int : tally' = [tally EXCEPT ![w].delta = d]
           \/ tally' = tally
    PROVE  TallyTypes' /\ \A x \in Workers \ {w} : tally'[x] = tally[x]
<1> DEFINE T == [st : {"off", "read", "write"}, delta : Int, old : Nat, att : 0..Attempts - 1]
<1>1. tally \in [Workers -> T]
  BY DEF TallyTypes
<1>2. NoTally \in T
  BY LoopAssumption DEF NoTally
<1>3. \A d \in Int : [NoTally EXCEPT !.st = "read", !.delta = d] \in T
  BY <1>2
<1>4. \A d \in Int : [tally[w] EXCEPT !.delta = d] \in T
  BY <1>1
<1>5. \E q \in T : tally' = [tally EXCEPT ![w] = q] \/ tally' = tally
  <2>1. CASE \E d \in Int : StartTally(w, d)
    BY <1>2, <1>3, <2>1 DEF StartTally
  <2>2. CASE tally' = [tally EXCEPT ![w] = NoTally] \/ tally' = tally
    BY <1>2, <2>2
  <2>3. CASE \E d \in Int : tally' = [tally EXCEPT ![w].delta = d]
    <3>1. PICK d \in Int : tally' = [tally EXCEPT ![w].delta = d]
      BY <2>3
    <3>2. tally' = [tally EXCEPT ![w] = [tally[w] EXCEPT !.delta = d]]
      BY <1>1, <3>1
    <3> QED BY <1>4, <3>2
  <2> QED BY <2>1, <2>2, <2>3
<1> HIDE DEF T
<1>6. tally' \in [Workers -> T] /\ \A x \in Workers \ {w} : tally'[x] = tally[x]
  BY <1>1, <1>5
<1> QED BY <1>6 DEF TallyTypes, T

\* A call fails or not.
LEMMA FaultTypes ==
    ASSUME StoreTypes, faults' = faults \/ Fault
    PROVE  faults' \in 0..MaxFaults
  BY LoopAssumption DEF StoreTypes, Fault

-----------------------------------------------------------------------------
(* The turns of the handlers. *)

\* A turn of a handler whose object is being linked or unlinked, between two loops.
Turn(w) ==
    /\ Alone(w) /\ pc[w] \in Shaky
    /\ UNCHANGED <<list, there, name, whole, crossed, gone, req, src>>
    /\ nodes'[w] \subseteq nodes[w] /\ loop'[w] = LoopAt(pc'[w], req[w], src[w])
    /\ parent' \in {parent, [parent EXCEPT ![req[w].uid] = req[w].dir]}
    /\ stranded' \in {stranded, stranded \cup {req[w].uid}}
    /\ \/ /\ pc[w] = "linking" /\ loop[w].st = "yes" /\ parent' = parent
          /\ pc'[w] \in {"counting", "done"}
       \/ /\ pc[w] = "taking" /\ loop[w].st = "yes" /\ parent' = parent
          /\ pc'[w] = "putting" /\ reply' = reply
       \/ /\ pc[w] = "putting" /\ loop[w].st = "yes"
          /\ parent' = [parent EXCEPT ![req[w].uid] = req[w].dir]
          /\ pc'[w] = "done"
       \/ /\ pc[w] = "putting" /\ loop[w].st = "yes" /\ pc'[w] = "dropping" /\ reply' = reply
          /\ parent' = parent \/ req[w].uid \in stranded'
       \/ /\ pc[w] \in {"putting", "dropping"} /\ pc'[w] = "restoring" /\ parent' = parent
          /\ req[w].uid \in Kids(req[w].dir) => req[w].uid \in stranded'
          /\ reply' = reply
       \/ /\ pc[w] \in {"taking", "unlinking", "restoring"} /\ pc'[w] = "done"
          /\ req[w].uid \notin Kids(src[w]) => req[w].uid \in stranded'
          /\ parent' = parent
       \/ /\ pc'[w] = "done" /\ parent' = parent /\ req[w].uid \in stranded' /\ reply' = reply

\* handle_upload and handle_mkdir after the list has been written.
LEMMA LinkedBase ==
    ASSUME Base, NEW w \in Workers, Linked(w)
    PROVE  Base' /\ Turn(w)
<1>0. /\ pc[w] = "linking" /\ loop[w].st = "yes"
      /\ UNCHANGED <<list, there, name, whole, parent, crossed, stranded, gone, req, src, nodes>>
      /\ loop' = [loop EXCEPT ![w] = NoLoop]
  BY DEF Linked, EndLoop, ovars, gvars
<1>1. PICK p, a : /\ pc' = [pc EXCEPT ![w] = p] /\ reply' = [reply EXCEPT ![w] = a]
                  /\ \/ p = "counting" /\ a = "none" /\ req[w].do = "upload"
                     \/ p = "done" /\ a = "ok"
  BY <1>0, TurnsPlain DEF Linked, Goto, Reply
<1>2. req[w] \in Requests /\ req[w].do \in ReqKinds /\ Sizes[req[w].uid] \in Int /\ src[w] = Nil
  BY <1>0, BaseAt, RequestTypes DEF Fits
<1>3. TallyTypes' /\ \A x \in Workers \ {w} : tally'[x] = tally[x]
  BY <1>2, BaseAt, TallySet DEF Linked
<1>4. StoreTypes' /\ Columns' /\ nodes \in [Workers -> SUBSET Objects]
  BY <1>0, BaseAt, SameColumns DEF Linked, StoreTypes, Excused, ovars, gvars, WorkerTypes
<1>5. Turns(w, p, a)
  BY <1>0, <1>1, TurnsPlain DEF Turns, Shaky
<1>6. /\ p \in Labels \ {"idle"} /\ a \in {"none", "ok", "failed"} /\ (p # "done" => a = "none")
      /\ req[w].do \in DoAt(p) /\ p \notin Placing /\ p \notin Homed
  BY <1>1, <1>2 DEF Labels, DoAt, Placing, Homed, Moving
<1>7. Base' /\ Alone(w) /\ pc'[w] = p /\ loop'[w] = LoopAt(p, req[w], src'[w])
  BY <1>0, <1>2, <1>3, <1>4, <1>5, <1>6, TurnsBase
<1> QED BY <1>0, <1>1, <1>7 DEF Turn, Shaky

\* The end of a request whose loop is done.
LEMMA DoneBase ==
    ASSUME Base, NEW w \in Workers, pc[w] # "idle", NEW a \in {"none", "ok", "failed"},
           pc' = [pc EXCEPT ![w] = "done"], reply' = [reply EXCEPT ![w] = a],
           \/ loop' = [loop EXCEPT ![w] = NoLoop]
           \/ loop' = loop /\ pc[w] \notin Shaky,
           req' = req, src' = src, nodes' \in [Workers -> SUBSET Objects],
           \A x \in Workers \ {w} : nodes'[x] = nodes[x],
           TallyTypes', \A x \in Workers \ {w} : tally'[x] = tally[x], StoreTypes', Columns'
    PROVE  Base' /\ Alone(w) /\ pc'[w] = "done" /\ loop'[w] = LoopAt("done", req[w], src[w])
<1>1. req[w].do \in DoAt("done")
  BY BaseAt, RequestTypes DEF DoAt, Moving
<1>2. Turns(w, "done", a)
  BY TurnsPlain DEF Turns, Shaky
<1>3. "done" \in Labels \ {"idle"} /\ "done" \notin Placing /\ "done" \notin Homed
  BY DEF Labels, Placing, Homed, Moving
<1> QED BY <1>1, <1>2, <1>3, TurnsBase

\* A request whose object is at the mercy of its loops goes on with another loop.
LEMMA OnBase ==
    ASSUME Base, NEW w \in Workers, pc[w] \in Moving, NEW p \in Moving,
           pc' = [pc EXCEPT ![w] = p], StartLoop(w, KindAt(p), ListAt(p, req[w], src[w]), req[w].uid),
           UNCHANGED <<req, reply, src, nodes, tally>>, StoreTypes', Columns'
    PROVE  Base' /\ Alone(w) /\ pc'[w] = p /\ loop'[w] = LoopAt(p, req[w], src[w])
<1>0. pc[w] \in Shaky /\ p \in Shaky /\ pc[w] \notin {"idle", "done"}
      /\ p \in Labels \ {"idle", "done"} /\ p \notin {"linking", "counting"}
      /\ pc[w] \in Placing /\ pc[w] \in Homed
  BY DEF Moving, Shaky, Labels, Placing, Homed
<1>1. req[w].do \in DoAt(p) /\ req[w].dir \in Lists /\ src[w] \in Lists
  BY <1>0, BaseAt DEF DoAt, Fits, Moving
<1>2. Turns(w, p, "none")
  BY <1>0, TurnsPlain DEF Turns, StartLoop, LoopAt
<1>3. nodes \in [Workers -> SUBSET Objects] /\ TallyTypes'
  BY BaseAt DEF WorkerTypes, TallyTypes
<1> QED BY <1>0, <1>1, <1>2, <1>3, TurnsBase

\* handle_move when the object is out of its old folder.
LEMMA TookBase ==
    ASSUME Base, NEW w \in Workers, Took(w)
    PROVE  Base' /\ Turn(w)
<1>0. /\ pc[w] = "taking" /\ loop[w].st = "yes" /\ pc' = [pc EXCEPT ![w] = "putting"]
      /\ UNCHANGED <<list, index, faults, misled, req, reply, there, parent, name, whole, src,
                     nodes, used, quota, tally, crossed, stranded, gone, raced>>
      /\ StartLoop(w, KindAt("putting"), ListAt("putting", req[w], src[w]), req[w].uid)
  BY DEF Took, Goto, ovars, uvars, gvars, KindAt, ListAt
<1>1. StoreTypes' /\ Columns'
  BY <1>0, BaseAt, SameColumns DEF StoreTypes, Excused
<1>2. Base' /\ Alone(w) /\ pc'[w] = "putting" /\ loop'[w] = LoopAt("putting", req[w], src[w])
  BY <1>0, <1>1, OnBase DEF Moving
<1> QED BY <1>0, <1>2 DEF Turn, Shaky

\* The parent column of an object that is moved.
LEMMA ParentTypes ==
    ASSUME Base, NEW w \in Workers, pc[w] \in Placing,
           parent' = [parent EXCEPT ![req[w].uid] = req[w].dir] \/ parent' = parent,
           UNCHANGED <<list, name, there, whole>>
    PROVE  parent' \in [Objects -> Objects \cup {Nil}] /\ Columns'
<1>1. req[w].dir \in Lists /\ Lists \subseteq Objects /\ Columns
      /\ parent \in [Objects -> Objects \cup {Nil}] /\ there \subseteq Objects
  BY BaseAt, DriveAssumption DEF Fits, StoreTypes
<1> QED BY <1>1 DEF Columns

\* handle_move writes the parent column.
LEMMA PutParentBase ==
    ASSUME Base, NEW w \in Workers, PutParent(w)
    PROVE  Base' /\ Turn(w)
<1>0. /\ pc[w] = "putting" /\ loop[w].st = "yes"
      /\ pc' = [pc EXCEPT ![w] = "done"] /\ reply' = [reply EXCEPT ![w] = "ok"]
      /\ parent' = [parent EXCEPT ![req[w].uid] = req[w].dir]
      /\ loop' = [loop EXCEPT ![w] = NoLoop]
      /\ UNCHANGED <<list, index, faults, misled, req, there, name, whole, src,
                     nodes, used, quota, tally, crossed, stranded, gone, raced>>
  BY DEF PutParent, Goto, Reply, EndLoop, uvars, gvars
<1>1. parent' \in [Objects -> Objects \cup {Nil}] /\ Columns'
  BY <1>0, ParentTypes DEF Placing, Moving
<1>2. StoreTypes' /\ TallyTypes' /\ nodes' \in [Workers -> SUBSET Objects]
  BY <1>0, <1>1, BaseAt DEF StoreTypes, TallyTypes, WorkerTypes, Excused
<1>3. Base' /\ Alone(w) /\ pc'[w] = "done" /\ loop'[w] = LoopAt("done", req[w], src[w])
  BY <1>0, <1>1, <1>2, DoneBase
<1> QED BY <1>0, <1>3 DEF Turn, Shaky

\* handle_move when that write fails.
LEMMA PutParentFailsBase ==
    ASSUME Base, NEW w \in Workers, PutParentFails(w)
    PROVE  Base' /\ Turn(w)
<1>0. /\ pc[w] = "putting" /\ loop[w].st = "yes" /\ pc' = [pc EXCEPT ![w] = "dropping"]
      /\ Fault
      /\ \/ parent' = parent /\ stranded' = stranded
         \/ /\ parent' = [parent EXCEPT ![req[w].uid] = req[w].dir]
            /\ stranded' = stranded \cup {req[w].uid}
      /\ UNCHANGED <<list, index, misled, req, reply, there, name, whole, src,
                     nodes, used, quota, tally, crossed, gone, raced>>
      /\ StartLoop(w, KindAt("dropping"), ListAt("dropping", req[w], src[w]), req[w].uid)
  BY DEF PutParentFails, StrandedIf, Goto, uvars, KindAt, ListAt
<1>1. parent' \in [Objects -> Objects \cup {Nil}] /\ Columns'
  BY <1>0, ParentTypes DEF Placing, Moving
<1>2. StoreTypes'
  <2>1. req[w].uid \in Objects /\ faults' \in 0..MaxFaults
    BY <1>0, BaseAt, FaultTypes
  <2> QED BY <1>0, <1>1, <2>1, BaseAt DEF StoreTypes, Excused
<1>3. Base' /\ Alone(w) /\ pc'[w] = "dropping" /\ loop'[w] = LoopAt("dropping", req[w], src[w])
  BY <1>0, <1>1, <1>2, OnBase DEF Moving
<1> QED BY <1>0, <1>3 DEF Turn, Shaky

\* handle_move turns back.
LEMMA PutBackBase ==
    ASSUME Base, NEW w \in Workers, PutBack(w)
    PROVE  Base' /\ Turn(w)
<1>0. /\ pc[w] \in {"putting", "dropping"} /\ pc' = [pc EXCEPT ![w] = "restoring"]
      /\ stranded' = IF req[w].uid \in Kids(req[w].dir) THEN stranded \cup {req[w].uid} ELSE stranded
      /\ UNCHANGED <<list, index, faults, misled, req, reply, there, parent, name, whole, src,
                     nodes, used, quota, tally, crossed, gone, raced>>
      /\ StartLoop(w, KindAt("restoring"), ListAt("restoring", req[w], src[w]), req[w].uid)
  BY DEF PutBack, StrandedIf, Goto, ovars, uvars, KindAt, ListAt
<1>1. StoreTypes' /\ Columns'
  BY <1>0, BaseAt, SameColumns DEF StoreTypes, Excused
<1>2. Base' /\ Alone(w) /\ pc'[w] = "restoring" /\ loop'[w] = LoopAt("restoring", req[w], src[w])
  BY <1>0, <1>1, OnBase DEF Moving
<1> QED BY <1>0, <1>2 DEF Turn, Shaky

\* handle_move and handle_delete_path give up.
LEMMA NotMovedBase ==
    ASSUME Base, NEW w \in Workers, NotMoved(w)
    PROVE  Base' /\ Turn(w)
<1>0. /\ pc[w] \in {"taking", "unlinking", "restoring"}
      /\ pc' = [pc EXCEPT ![w] = "done"] /\ reply' = [reply EXCEPT ![w] = "failed"]
      /\ stranded' = IF req[w].uid \notin Kids(src[w]) THEN stranded \cup {req[w].uid} ELSE stranded
      /\ loop' = [loop EXCEPT ![w] = NoLoop]
      /\ UNCHANGED <<list, index, faults, misled, req, there, parent, name, whole, src,
                     nodes, used, quota, tally, crossed, gone, raced>>
  BY DEF NotMoved, StrandedIf, Goto, Reply, EndLoop, ovars, uvars
<1>1. StoreTypes' /\ Columns' /\ TallyTypes' /\ nodes' \in [Workers -> SUBSET Objects]
  BY <1>0, BaseAt, SameColumns DEF StoreTypes, Excused, TallyTypes, WorkerTypes
<1>2. Base' /\ Alone(w) /\ pc'[w] = "done" /\ loop'[w] = LoopAt("done", req[w], src[w])
  BY <1>0, <1>1, DoneBase
<1> QED BY <1>0, <1>2 DEF Turn, Shaky

\* A process is killed while an object is between two lists.
LEMMA CrashShakyBase ==
    ASSUME Base, NEW w \in Workers, Crash(w), pc[w] \in Shaky
    PROVE  Base' /\ Turn(w)
<1>0. /\ pc' = [pc EXCEPT ![w] = "done"] /\ reply' = reply
      /\ stranded' = stranded \cup {req[w].uid}
      /\ loop' = [loop EXCEPT ![w] = NoLoop]
      /\ nodes' = [nodes EXCEPT ![w] = {}] /\ tally' = [tally EXCEPT ![w] = NoTally]
      /\ UNCHANGED <<list, index, misled, req, there, parent, name, whole, src,
                     used, quota, crossed, gone, raced>>
      /\ Fault
      /\ pc[w] \notin {"idle", "done"}
  BY DEF Crash, StrandedIf, Goto, EndLoop, Busy
<1>1. reply' = [reply EXCEPT ![w] = "none"]
  BY <1>0, TurnsPlain
<1>2. StoreTypes'
  <2>1. req[w].uid \in Objects /\ faults' \in 0..MaxFaults
    BY <1>0, BaseAt, FaultTypes
  <2> QED BY <1>0, <2>1, BaseAt DEF StoreTypes, Excused
<1>3. Columns' /\ TallyTypes' /\ \A x \in Workers \ {w} : tally'[x] = tally[x]
  BY <1>0, BaseAt, SameColumns, TallySet
<1>4. nodes' \in [Workers -> SUBSET Objects] /\ nodes'[w] = {} /\ \A x \in Workers \ {w} : nodes'[x] = nodes[x]
  BY <1>0, BaseAt DEF WorkerTypes
<1>5. Base' /\ Alone(w) /\ pc'[w] = "done" /\ loop'[w] = LoopAt("done", req[w], src[w])
  BY <1>0, <1>1, <1>2, <1>3, <1>4, DoneBase
<1> QED BY <1>0, <1>4, <1>5 DEF Turn

-----------------------------------------------------------------------------
(* Steps that change nothing of the tree. *)

Still(w) ==
    /\ Alone(w)
    /\ UNCHANGED <<list, there, parent, name, whole, crossed, stranded, gone, src, loop>>
    /\ nodes'[w] \subseteq nodes[w]
    /\ pc[w] \in Shaky => pc'[w] = pc[w]
    /\ \/ pc'[w] = pc[w] /\ reply' = reply
       \/ pc[w] = "begin" /\ pc'[w] = "place" /\ reply' = reply
       \/ pc'[w] \in {"freeing", "done"} /\ pc[w] \notin {"idle", "done"}
       \/ pc[w] = "idle" /\ pc'[w] = "begin" /\ reply' = reply
    /\ \/ req' = req
       \/ pc[w] = "idle" /\ pc'[w] = "begin" /\ req'[w] \in Requests
    /\ reply'[w] = "ok" /\ req[w].do \in Creates => pc[w] = "counting" \/ reply[w] = "ok"

\* A number of bytes that was added up.
LEMMA ActualType ==
    ASSUME Base
    PROVE  ActualBytes \in Nat
<1>1. Reach(Root, Links(Objects)) \cap there \subseteq Objects
  BY TypeParts DEF Base, StoreTypes
<1> QED BY <1>1, BytesType DEF ActualBytes

\* user_drive_used_bytes_reconciled stores a number of bytes.
LEMMA ReconcileTypes ==
    ASSUME Base, NEW w, NEW total \in {0, ActualBytes}, Reconcile(w, total)
    PROVE  used' \in Nat /\ faults' \in 0..MaxFaults /\ raced' \in BOOLEAN /\ total \in Nat
<1>1. total \in Nat /\ used \in Nat
  BY ActualType, TypeParts DEF Base, StoreTypes
<1>2. faults' \in 0..MaxFaults
  BY FaultTypes, TypeParts DEF Reconcile, Base
<1>3. raced' \in BOOLEAN
  BY DEF Reconcile
<1> QED BY <1>1, <1>2, <1>3 DEF Reconcile

\* handle_upload checks the quota.
LEMMA CheckQuotaBase ==
    ASSUME Base, NEW w \in Workers, CheckQuota(w)
    PROVE  Base' /\ Still(w)
<1>0. /\ pc[w] = "begin" /\ req[w].do = "upload"
      /\ UNCHANGED <<list, index, loop, misled, req, there, parent, name, whole, src, nodes,
                     quota, tally, crossed, stranded, gone>>
  BY DEF CheckQuota, At, ovars
<1>1. used' \in Nat /\ faults' \in 0..MaxFaults /\ raced' \in BOOLEAN
  <2>1. CASE UNCHANGED <<faults, used, raced>>
    BY <2>1, BaseAt DEF StoreTypes
  <2>2. CASE \E total \in {0, ActualBytes} : Reconcile(w, total)
    BY <2>2, ReconcileTypes
  <2> QED BY <2>1, <2>2 DEF CheckQuota
<1>2. PICK p, a : /\ pc' = [pc EXCEPT ![w] = p] /\ reply' = [reply EXCEPT ![w] = a]
                  /\ \/ p = "place" /\ a = "none" /\ reply' = reply
                     \/ p = "done" /\ a = "failed"
  BY <1>0, TurnsPlain DEF CheckQuota, Goto, Reply
<1>3. StoreTypes' /\ Columns' /\ TallyTypes' /\ nodes' \in [Workers -> SUBSET Objects]
  BY <1>0, <1>1, BaseAt, SameColumns DEF StoreTypes, Excused, TallyTypes, WorkerTypes
<1>4. Turns(w, p, a)
  BY <1>0, <1>2, TurnsPlain DEF Turns, Shaky
<1>5. /\ p \in Labels \ {"idle"} /\ a \in {"none", "ok", "failed"} /\ (p # "done" => a = "none")
      /\ req[w].do \in DoAt(p) /\ p \notin Placing /\ p \notin Homed /\ p \notin {"linking", "counting"}
  BY <1>0, <1>2 DEF Labels, DoAt, Placing, Homed, Moving, ReqKinds, Creates
<1>6. Base' /\ Alone(w) /\ pc'[w] = p /\ reply'[w] = a
  BY <1>0, <1>3, <1>4, <1>5, TurnsBase
<1> QED BY <1>0, <1>2, <1>6 DEF Still, Shaky

\* The end of a request that has no loop.
LEMMA StillDone ==
    ASSUME Base, NEW w \in Workers, pc[w] \notin Shaky, pc[w] \notin {"idle", "done"},
           NEW a \in {"none", "ok", "failed"},
           pc' = [pc EXCEPT ![w] = "done"], reply' = [reply EXCEPT ![w] = a],
           UNCHANGED <<list, there, parent, name, whole, crossed, stranded, gone, src, loop,
                       index, misled, req>>,
           nodes' = nodes \/ nodes' = [nodes EXCEPT ![w] = {}],
           tally' = tally \/ tally' = [tally EXCEPT ![w] = NoTally],
           used' \in Nat, quota' \in Nat, faults' \in 0..MaxFaults, raced' \in BOOLEAN,
           a = "ok" /\ req[w].do \in Creates => pc[w] = "counting"
    PROVE  Base' /\ Still(w)
<1>1. /\ nodes' \in [Workers -> SUBSET Objects] /\ nodes'[w] \subseteq nodes[w]
      /\ \A x \in Workers \ {w} : nodes'[x] = nodes[x]
  BY BaseAt DEF WorkerTypes
<1>2. StoreTypes' /\ Columns' /\ TallyTypes' /\ \A x \in Workers \ {w} : tally'[x] = tally[x]
  BY BaseAt, SameColumns, TallySet DEF StoreTypes, Excused
<1>3. Base' /\ Alone(w) /\ pc'[w] = "done"
  BY <1>1, <1>2, DoneBase
<1>4. reply'[w] = a
  BY BaseAt DEF WorkerTypes
<1> QED BY <1>1, <1>3, <1>4 DEF Still

\* handle_upload and handle_mkdir refuse a request.
LEMMA PlaceFailsBase ==
    ASSUME Base, NEW w \in Workers, PlaceFails(w)
    PROVE  Base' /\ Still(w)
<1>0. /\ pc[w] \in {"begin", "place"}
      /\ pc' = [pc EXCEPT ![w] = "done"] /\ reply' = [reply EXCEPT ![w] = "failed"]
      /\ UNCHANGED <<list, index, loop, misled, req, there, parent, name, whole, src, nodes,
                     quota, used, tally, crossed, stranded, gone, raced>>
      /\ faults' = faults \/ Fault
  BY DEF PlaceFails, At, Reply, Goto, ovars, uvars, gvars
<1>1. used' \in Nat /\ quota' \in Nat /\ faults' \in 0..MaxFaults /\ raced' \in BOOLEAN
  BY <1>0, BaseAt, FaultTypes DEF StoreTypes
<1> QED BY <1>0, <1>1, StillDone DEF Shaky

\* The counter is done.
LEMMA CountedBase ==
    ASSUME Base, NEW w \in Workers, Counted(w)
    PROVE  Base' /\ Still(w)
<1>0. /\ pc[w] \in {"counting", "freeing"}
      /\ pc' = [pc EXCEPT ![w] = "done"] /\ reply' = [reply EXCEPT ![w] = "ok"]
      /\ UNCHANGED <<list, index, loop, misled, faults, req, there, parent, name, whole, src, nodes,
                     quota, used, tally, crossed, stranded, gone, raced>>
  BY DEF Counted, Reply, Goto, lvars, ovars, uvars, gvars
<1>1. used' \in Nat /\ quota' \in Nat /\ faults' \in 0..MaxFaults /\ raced' \in BOOLEAN
  BY <1>0, BaseAt, FaultTypes DEF StoreTypes
<1>2. pc[w] = "freeing" => req[w].do \notin Creates
  BY BaseAt DEF DoAt, Creates, Moving
<1> QED BY <1>0, <1>1, <1>2, StillDone DEF Shaky

\* The other handlers refuse a request.
LEMMA RefusedBase ==
    ASSUME Base, NEW w \in Workers, Refused(w)
    PROVE  Base' /\ Still(w)
<1>0. /\ pc[w] = "begin"
      /\ pc' = [pc EXCEPT ![w] = "done"] /\ reply' = [reply EXCEPT ![w] = "failed"]
      /\ UNCHANGED <<list, index, loop, misled, req, there, parent, name, whole, src, nodes,
                     quota, used, tally, crossed, stranded, gone, raced>>
      /\ faults' = faults \/ Fault
  BY DEF Refused, At, Reply, Goto, ovars, uvars, gvars
<1>1. used' \in Nat /\ quota' \in Nat /\ faults' \in 0..MaxFaults /\ raced' \in BOOLEAN
  BY <1>0, BaseAt, FaultTypes DEF StoreTypes
<1> QED BY <1>0, <1>1, StillDone DEF Shaky

\* handle_quota_status and handle_quota_update.
LEMMA QuotaRequestBase ==
    ASSUME Base, NEW w \in Workers, QuotaRequest(w)
    PROVE  Base' /\ Still(w)
<1>0. /\ pc[w] = "begin" /\ req[w].do \in {"status", "limit"}
      /\ UNCHANGED <<list, index, loop, misled, req, there, parent, name, whole, src, nodes,
                     tally, crossed, stranded, gone>>
  BY DEF QuotaRequest, At, ovars
<1>1. req[w] \in Requests /\ quota \in Nat /\ (req[w].do = "limit" => req[w].limit \in Nat)
  BY <1>0, BaseAt, RequestTypes DEF StoreTypes
<1>2. used' \in Nat /\ faults' \in 0..MaxFaults /\ raced' \in BOOLEAN
  BY ReconcileTypes DEF QuotaRequest
<1>3. PICK a \in {"ok", "failed"} : /\ pc' = [pc EXCEPT ![w] = "done"]
                                    /\ reply' = [reply EXCEPT ![w] = a]
                                    /\ quota' \in Nat
  BY <1>1 DEF QuotaRequest, Reply, Goto
<1> QED BY <1>0, <1>2, <1>3, StillDone DEF Shaky, Creates

\* A process is killed elsewhere.
LEMMA CrashStillBase ==
    ASSUME Base, NEW w \in Workers, Crash(w), pc[w] \notin Shaky
    PROVE  Base' /\ Still(w)
<1>0. /\ pc' = [pc EXCEPT ![w] = "done"] /\ reply' = reply
      /\ loop' = [loop EXCEPT ![w] = NoLoop]
      /\ nodes' = [nodes EXCEPT ![w] = {}] /\ tally' = [tally EXCEPT ![w] = NoTally]
      /\ UNCHANGED <<list, index, misled, req, there, parent, name, whole, src,
                     used, quota, crossed, stranded, gone, raced>>
      /\ Fault
      /\ pc[w] \notin {"idle", "done"}
  BY DEF Crash, StrandedIf, Goto, EndLoop, Busy
<1>1. reply' = [reply EXCEPT ![w] = "none"] /\ loop' = loop
  BY <1>0, TurnsPlain, BaseAt DEF WorkerTypes
<1>2. used' \in Nat /\ quota' \in Nat /\ faults' \in 0..MaxFaults /\ raced' \in BOOLEAN
  BY <1>0, BaseAt, FaultTypes DEF StoreTypes
<1> QED BY <1>0, <1>1, <1>2, StillDone

\* A step that leaves the handlers where they are.
LEMMA StillHere ==
    ASSUME Base, NEW w \in Workers,
           UNCHANGED <<list, index, loop, misled, pc, req, reply, there, parent, name, whole, src,
                       crossed, stranded, gone>>,
           nodes' \in [Workers -> SUBSET Objects], nodes'[w] \subseteq nodes[w],
           \A x \in Workers \ {w} : nodes'[x] = nodes[x],
           TallyTypes', \A x \in Workers \ {w} : tally'[x] = tally[x],
           used' \in Nat, quota' \in Nat, faults' \in 0..MaxFaults, raced' \in BOOLEAN
    PROVE  Base' /\ Still(w)
<1>1. StoreTypes' /\ Columns' /\ WorkerTypes'
  BY BaseAt, SameColumns DEF StoreTypes, Excused, WorkerTypes
<1>2. Fits(pc'[w], req'[w], loop'[w], src'[w], reply'[w]) /\ Alone(w)
  BY BaseAt DEF Alone
<1>3. Base'
  BY <1>1, <1>2, BaseStep
<1> QED BY <1>2, <1>3 DEF Still

\* One field after the other.
LEMMA TallyAgainTypes ==
    ASSUME Base, NEW w \in Workers, TallyAgain(w)
    PROVE  TallyTypes' /\ (\A x \in Workers \ {w} : tally'[x] = tally[x]) /\ raced' \in BOOLEAN
<1> DEFINE T == [st : {"off", "read", "write"}, delta : Int, old : Nat, att : 0..Attempts - 1]
<1>1. tally \in [Workers -> T] /\ raced \in BOOLEAN /\ Attempts \in Nat
  BY BaseAt, LoopAssumption DEF TallyTypes, StoreTypes
<1>2. NoTally \in T
  BY LoopAssumption DEF NoTally
<1> DEFINE more == tally[w].att + 1 < Attempts
           q == IF more THEN [tally[w] EXCEPT !.st = "read", !.att = @ + 1] ELSE NoTally
<1>3. q \in T
  <2>1. CASE more
    <3>1. tally[w].att + 1 \in 0..Attempts - 1 /\ tally[w] \in T
      BY <1>1, <2>1
    <3>2. [tally[w] EXCEPT !.st = "read", !.att = @ + 1] \in T
      BY <3>1
    <3> QED BY <2>1, <3>2
  <2>2. CASE ~more
    BY <1>2, <2>2
  <2> QED BY <2>1, <2>2
<1>4. tally' = [tally EXCEPT ![w] = q] /\ raced' = (raced \/ ~more)
  <2>1. tally' = [tally EXCEPT ![w] = q]
    <3>1. CASE more
      BY <3>1 DEF TallyAgain
    <3>2. CASE ~more
      BY <3>2 DEF TallyAgain
    <3> QED BY <3>1, <3>2
  <2>2. raced' = (raced \/ ~more)
    BY Zenon DEF TallyAgain
  <2> QED BY <2>1, <2>2, Zenon
<1> HIDE DEF T, q
<1>5. tally' \in [Workers -> T] /\ \A x \in Workers \ {w} : tally'[x] = tally[x]
  BY <1>1, <1>3, <1>4
<1> QED BY <1>1, <1>4, <1>5 DEF TallyTypes, T

\* update_drive_used_bytes reads the counter.
LEMMA TallyReadBase ==
    ASSUME Base, NEW w \in Workers, TallyRead(w)
    PROVE  Base' /\ Still(w)
<1>0. UNCHANGED <<list, index, loop, misled, pc, req, reply, there, parent, name, whole, src, nodes,
                  used, quota, crossed, stranded, gone>>
  BY DEF TallyRead, hvars, ovars
<1>1. used' \in Nat /\ quota' \in Nat /\ nodes' \in [Workers -> SUBSET Objects]
  BY <1>0, BaseAt DEF StoreTypes, WorkerTypes
<1>2. faults' \in 0..MaxFaults /\ raced' \in BOOLEAN /\ TallyTypes'
      /\ \A x \in Workers \ {w} : tally'[x] = tally[x]
  <2>1. CASE Fault /\ TallyAgain(w)
    BY <2>1, BaseAt, FaultTypes, TallyAgainTypes
  <2>2. CASE tally' = [tally EXCEPT ![w].st = "write", ![w].old = used] /\ UNCHANGED <<faults, raced>>
    <3> DEFINE T == [st : {"off", "read", "write"}, delta : Int, old : Nat, att : 0..Attempts - 1]
               q == [tally[w] EXCEPT !.st = "write", !.old = used]
    <3>1. tally \in [Workers -> T] /\ used \in Nat /\ faults \in 0..MaxFaults /\ raced \in BOOLEAN
      BY BaseAt DEF TallyTypes, StoreTypes
    <3>2. q \in T
      BY <3>1
    <3>3. tally' = [tally EXCEPT ![w] = q]
      BY <2>2, <3>1
    <3> HIDE DEF T, q
    <3>4. tally' \in [Workers -> T] /\ \A x \in Workers \ {w} : tally'[x] = tally[x]
      BY <3>1, <3>2, <3>3
    <3> QED BY <2>2, <3>1, <3>4 DEF TallyTypes, T
  <2> QED BY <2>1, <2>2 DEF TallyRead
<1> QED BY <1>0, <1>1, <1>2, StillHere

\* update_drive_used_bytes writes it.
LEMMA TallyWriteBase ==
    ASSUME Base, NEW w \in Workers, TallyWrite(w)
    PROVE  Base' /\ Still(w)
<1>0. UNCHANGED <<list, index, loop, misled, pc, req, reply, there, parent, name, whole, src, nodes,
                  quota, crossed, stranded, gone>>
  BY DEF TallyWrite, hvars, ovars
<1>1. quota' \in Nat /\ nodes' \in [Workers -> SUBSET Objects]
  BY <1>0, BaseAt DEF StoreTypes, WorkerTypes
<1> DEFINE sum == tally[w].old + tally[w].delta
           new == IF sum > 0 THEN sum ELSE 0
<1>2. new \in Nat /\ used \in Nat
  BY BaseAt DEF TallyTypes, StoreTypes
<1>3. used' \in {used, new}
  BY DEF TallyWrite
<1>4. \/ tally' = [tally EXCEPT ![w] = NoTally] /\ UNCHANGED <<faults, raced>>
      \/ TallyAgain(w) /\ (faults' = faults \/ Fault)
  BY DEF TallyWrite
<1>5. faults' \in 0..MaxFaults /\ raced' \in BOOLEAN /\ TallyTypes'
      /\ \A x \in Workers \ {w} : tally'[x] = tally[x]
  <2>1. CASE TallyAgain(w) /\ (faults' = faults \/ Fault)
    BY <2>1, BaseAt, FaultTypes, TallyAgainTypes
  <2>2. CASE tally' = [tally EXCEPT ![w] = NoTally] /\ UNCHANGED <<faults, raced>>
    BY <2>2, BaseAt, TallySet DEF StoreTypes
  <2> QED BY <1>4, <2>1, <2>2
<1>6. used' \in Nat
  BY <1>2, <1>3
<1> QED BY <1>0, <1>1, <1>5, <1>6, StillHere

\* handle_delete_path has deleted all objects.
LEMMA DeletedBase ==
    ASSUME Base, NEW w \in Workers, Deleted(w)
    PROVE  Base' /\ Still(w)
<1>0. /\ pc[w] = "deleting"
      /\ UNCHANGED <<list, index, loop, faults, misled, req, there, parent, name, whole, src, nodes,
                     used, quota, crossed, stranded, gone, raced>>
  BY DEF Deleted, lvars, ovars, gvars
<1>1. PICK p, a : /\ pc' = [pc EXCEPT ![w] = p] /\ reply' = [reply EXCEPT ![w] = a]
                  /\ \/ p = "freeing" /\ a = "none"
                     \/ p = "done" /\ a = "ok"
  BY <1>0, TurnsPlain DEF Deleted, Goto, Reply
<1>2. req[w].do = "delete" /\ tally[w].delta \in Int
  BY <1>0, BaseAt DEF DoAt, Moving, TallyTypes
<1>3. TallyTypes' /\ \A x \in Workers \ {w} : tally'[x] = tally[x]
  BY <1>2, BaseAt, TallySet DEF Deleted
<1>4. StoreTypes' /\ Columns' /\ nodes' \in [Workers -> SUBSET Objects]
  BY <1>0, BaseAt, SameColumns DEF StoreTypes, Excused, WorkerTypes
<1>5. Turns(w, p, a)
  BY <1>0, <1>1, TurnsPlain DEF Turns, Shaky
<1>6. /\ p \in Labels \ {"idle"} /\ a \in {"none", "ok", "failed"} /\ (p # "done" => a = "none")
      /\ req[w].do \in DoAt(p) /\ p \notin Placing /\ p \notin Homed /\ p \notin {"linking", "counting"}
  BY <1>1, <1>2 DEF Labels, DoAt, Placing, Homed, Moving, ReqKinds, Changes
<1>7. Base' /\ Alone(w) /\ pc'[w] = p /\ reply'[w] = a
  BY <1>0, <1>3, <1>4, <1>5, <1>6, TurnsBase
<1> QED BY <1>0, <1>1, <1>2, <1>7 DEF Still, Shaky, Creates

\* A request arrives.
LEMMA RequestBase ==
    ASSUME Base, NEW w \in Workers, NEW r \in Requests, Request(w, r)
    PROVE  Base' /\ Still(w)
<1>0. /\ pc[w] = "idle" /\ pc' = [pc EXCEPT ![w] = "begin"] /\ req' = [req EXCEPT ![w] = r]
      /\ \A x \in Workers : req[x] # r
      /\ UNCHANGED <<list, index, loop, faults, misled, reply, there, parent, name, whole, src, nodes,
                     used, quota, tally, crossed, stranded, gone, raced>>
  BY DEF Request, Goto, lvars, ovars, uvars, gvars
<1>1. StoreTypes' /\ Columns' /\ TallyTypes'
  BY <1>0, BaseAt, SameColumns DEF StoreTypes, Excused, TallyTypes
<1>2. WorkerTypes' /\ Alone(w) /\ pc'[w] = "begin" /\ req'[w] = r
  BY <1>0, BaseAt DEF WorkerTypes, Alone, Labels
<1>3. Fits(pc'[w], req'[w], loop'[w], src'[w], reply'[w])
  <2>1. loop[w] = NoLoop /\ reply[w] = "none" /\ r # Nil /\ r.do \in ReqKinds
    BY <1>0, BaseAt, RequestTypes DEF Fits, Shaky
  <2> QED BY <1>0, <1>2, <2>1 DEF Fits, Shaky, DoAt, Placing, Homed, Moving
<1>4. Base'
  BY <1>0, <1>1, <1>2, <1>3, BaseStep
<1>5. reply[w] # "ok"
  BY <1>0, BaseAt
<1> QED BY <1>0, <1>2, <1>4, <1>5 DEF Still, Shaky

-----------------------------------------------------------------------------
(* A step of a loop. *)

LoopTurn(w) ==
    /\ Alone(w) /\ pc[w] \in Shaky
    /\ UNCHANGED <<pc, req, reply, src, nodes, there, parent, name, whole, crossed, stranded, gone>>
    /\ loop[w].on \in Lists /\ loop[w].st \in {"read", "write"}
    /\ \A d \in Lists \ {loop[w].on} : list'[d] = list[d]
    /\ loop'[w].kind = loop[w].kind /\ loop'[w].on = loop[w].on /\ loop'[w].item = loop[w].item
    /\ \A d \in Lists : d = loop[w].on =>
          /\ list[d] # Nil => list'[d] # Nil
          /\ Kids(d)' \subseteq Kids(d) \cup {req[w].uid}
          /\ loop[w].kind # "append" => Kids(d)' \subseteq Kids(d)
          /\ \/ loop[w].st = "write" /\ ~loop[w].found
             \/ Kids(d) \ {req[w].uid} \subseteq Kids(d)'
          /\ loop'[w].st = "yes" /\ loop[w].kind = "append" => req[w].uid \in Kids(d)'
          /\ loop'[w].st = "yes" /\ loop[w].kind = "take" => req[w].uid \notin Kids(d)'
    /\ loop'[w].st = "write" /\ ~loop'[w].found => list[loop[w].on] = Nil
    /\ loop[w].st = "write" => loop'[w].st # "write"
    /\ loop'[w].st = "write" => list' = list

\* A loop of the drive has no copies to write, and is told of what it has taken.
LEMMA LoopStates2 ==
    ASSUME LoopTypeOK(Objects), NEW w \in Workers, LoopStep(w), loop[w].st # "index"
    PROVE  /\ loop'[w].st \in {"read", "write", "yes", "no"}
           /\ loop[w].kind = "take" /\ loop'[w].st = "yes" =>
                 loop[w].st = "write" /\ list'[loop[w].on] = Update(w)
<1>0. loop \in [Workers -> LoopStates(Objects)] /\ Indexed = {}
      /\ list \in [Lists -> Seq(Objects) \cup {Nil}]
  BY DriveAssumption DEF LoopTypeOK
<1>a. loop[w].st # "off" => loop[w].on \in Lists
  BY DEF LoopTypeOK
<1>1. ASSUME NEW ok \in BOOLEAN, Result(w, ok) PROVE loop'[w].st = IF ok THEN "yes" ELSE "no"
  <2>1. loop' = [loop EXCEPT ![w] = [loop[w] EXCEPT !.st = IF ok THEN "yes" ELSE "no"]]
    BY <1>0, <1>1 DEF Result
  <2>2. [loop[w] EXCEPT !.st = IF ok THEN "yes" ELSE "no"].st = IF ok THEN "yes" ELSE "no"
    BY <1>0 DEF LoopStates
  <2> QED BY <1>0, <2>1, <2>2
<1>2. ASSUME NEW hit \in BOOLEAN, Again(w, hit), loop[w].st # "off" PROVE loop'[w].st \in {"read", "no"}
  BY <1>2, AgainEffect
<1>3. CASE LoopRead(w)
  <2>1. CASE loop[w].kind \in {"remove", "take", "drop"} /\ Result(w, loop[w].kind # "take")
    BY <1>1, <2>1
  <2>2. CASE loop[w].kind \in {"append", "prepend"} /\ \E s : Won(w, s)
    <3>1. Result(w, TRUE) /\ loop[w].kind # "take"
      BY <1>0, <2>2 DEF Won
    <3> QED BY <1>1, <3>1
  <2>3. CASE \E s, f : loop' = [loop EXCEPT ![w].st = "write", ![w].old = s, ![w].found = f]
    <3>1. PICK s, f : loop' = [loop EXCEPT ![w].st = "write", ![w].old = s, ![w].found = f]
      BY <2>3
    <3>2. loop'[w].st = "write"
      BY <1>0, <3>1 DEF LoopStates
    <3> QED BY <3>2
  <2>4. \/ loop[w].kind \in {"remove", "take", "drop"} /\ Result(w, loop[w].kind # "take")
        \/ loop[w].kind \in {"append", "prepend"} /\ \E s : Won(w, s)
        \/ \E s, f : loop' = [loop EXCEPT ![w].st = "write", ![w].old = s, ![w].found = f]
    <3> DEFINE l == loop[w].on
               s == IF list[l] = Nil /\ l \in Indexed THEN index[l] ELSE Stored(l)
    <3>1. \/ loop[w].kind \in {"remove", "take", "drop"} /\ Result(w, loop[w].kind # "take")
          \/ loop[w].kind \in {"append", "prepend"} /\ Won(w, s)
          \/ loop' = [loop EXCEPT ![w].st = "write", ![w].old = s, ![w].found = (list[l] # Nil)]
      BY <1>3, Zenon DEF LoopRead
    <3> HIDE DEF s
    <3> QED BY <3>1, Zenon
  <2> QED BY <2>1, <2>2, <2>3, <2>4
<1>4. CASE LoopReadFails(w)
  BY <1>1, <1>2, <1>4 DEF LoopReadFails
<1>5. CASE LoopWrite(w)
  <2>0. loop[w].st = "write"
    BY <1>5 DEF LoopWrite
  <2>1. CASE \E hit \in BOOLEAN : Again(w, hit)
    BY <1>2, <2>0, <2>1
  <2>2. CASE list' = [list EXCEPT ![loop[w].on] = Update(w)] /\ Won(w, loop[w].old)
    <3>1. Result(w, TRUE)
      BY <1>0, <2>2 DEF Won
    <3> QED BY <1>0, <1>a, <1>1, <2>0, <2>2, <3>1
  <2> QED BY <1>5, <2>1, <2>2 DEF LoopWrite
<1>6. CASE LoopWriteFails(w)
  BY <1>2, <1>6 DEF LoopWriteFails
<1>7. CASE CopyIndex(w)
  BY <1>7 DEF CopyIndex
<1> QED BY <1>3, <1>4, <1>5, <1>6, <1>7 DEF LoopStep

\* A step of a loop on a list.
LEMMA LoopBase ==
    ASSUME Base, NEW w \in Workers, Loop(w)
    PROVE  Base' /\ LoopTurn(w)
<1>0. /\ LoopStep(w) /\ LoopTypeOK(Objects)
      /\ UNCHANGED <<pc, req, reply, there, parent, name, whole, src, nodes,
                     used, quota, tally, crossed, stranded, gone, raced>>
  BY BaseAt DEF Loop, hvars, ovars, uvars, gvars
<1>1. LoopTypeOK(Objects)' /\ GoesOn(w) /\ LoopEffect(w)
  BY <1>0, LoopStepEffect
<1>2. /\ pc[w] \in Shaky /\ loop[w].st \in {"read", "write"} /\ loop[w].on \in Lists
      /\ loop[w].item = req[w].uid /\ loop[w].item \in Objects /\ loop[w].kind \in {"append", "take", "drop"}
      /\ (loop[w].st = "write" /\ ~loop[w].found => loop[w].old = <<>>)
      /\ Fits(pc[w], req[w], loop[w], src[w], reply[w])
      /\ loop[w].old \in Seq(Objects)
  <2>1. loop[w].st \in {"read", "write", "index"}
    BY <1>1 DEF LoopEffect
  <2>2. pc[w] \in Shaky /\ Fits(pc[w], req[w], loop[w], src[w], reply[w])
    BY <2>1, BaseAt, NoLoopType
  <2>3. loop[w].on \in Lists /\ loop[w].item \in Objects /\ loop[w].old \in Seq(Objects)
    BY <1>0, <2>1, LoopFields
  <2> QED BY <2>1, <2>2, <2>3 DEF Fits, KindAt
<1>3. loop'[w].st \in {"read", "write", "yes", "no"}
      /\ (loop[w].kind = "take" /\ loop'[w].st = "yes" =>
             loop[w].st = "write" /\ list'[loop[w].on] = Update(w))
  BY <1>0, <1>2, LoopStates2
<1>4. /\ \A d \in Lists \ {loop[w].on} : list'[d] = list[d]
      /\ loop'[w].kind = loop[w].kind /\ loop'[w].on = loop[w].on /\ loop'[w].item = loop[w].item
      /\ \A x \in Workers \ {w} : loop'[x] = loop[x]
  BY <1>1 DEF LoopEffect, GoesOn
<1>5. loop'[w].st = "write" =>
          /\ loop[w].st = "read" /\ list' = list
          /\ (loop'[w].found <=> list[loop[w].on] # Nil)
          /\ loop'[w].old = Stored(loop[w].on)
  BY <1>1, DriveAssumption DEF LoopEffect, Quiet, Writes
<1>6. Update(w) \in Seq(Objects) /\ Items(Update(w)) \subseteq Items(loop[w].old) \cup {req[w].uid}
      /\ (loop[w].kind # "append" => Items(Update(w)) = Items(loop[w].old) \ {req[w].uid})
      /\ Items(loop[w].old) \ {req[w].uid} \subseteq Items(Update(w))
  <2>1. Cap[loop[w].on] = 0 /\ loop[w].kind \in Kinds
        /\ (loop[w].kind # "append" <=> loop[w].kind \notin Adding)
    BY <1>2, DriveAssumption DEF Kinds, Adding
  <2> DEFINE l == loop[w].on
             k == loop[w].kind
             s == loop[w].old
             x == loop[w].item
             t == NextList(l, k, s, x)
  <2>2. l \in Lists /\ k \in Kinds /\ s \in Seq(Objects) /\ x \in Objects /\ Cap[l] = 0
        /\ x = req[w].uid /\ (k # "append" <=> k \notin Adding)
    BY <1>2, <2>1
  <2>3. Update(w) = t
    BY DEF Update
  <2> HIDE DEF l, k, s, x
  <2>4. /\ t \in Seq(Objects) /\ Items(t) \subseteq Items(s) \cup {x}
        /\ k \notin Adding => Items(t) = Items(s) \ {x}
        /\ Cap[l] = 0 /\ k \in Adding => Items(s) \subseteq Items(t)
    BY <2>2, NextItems
  <2> HIDE DEF t
  <2>5. /\ t \in Seq(Objects) /\ Items(t) \subseteq Items(s) \cup {x}
        /\ k # "append" => Items(t) = Items(s) \ {x}
        /\ Items(s) \ {x} \subseteq Items(t)
    BY <2>2, <2>4
  <2> QED BY <2>2, <2>3, <2>5 DEF s, k
<1>7. PICK d \in Lists : d = loop[w].on
  BY <1>2
<1>8. Items(<<>>) = {} /\ Nil \notin Seq(Objects)
  BY DriveAssumption DEF Items
<1>a. /\ Kids(d) = Items(Stored(d))
      /\ Kids(d)' = Items(IF list'[d] = Nil THEN <<>> ELSE list'[d])
  BY DEF Kids, Stored
<1>9. \/ list' = list /\ Kids(d)' = Kids(d)
      \/ /\ loop[w].st = "write" /\ list'[d] = Update(w)
         /\ Kids(d)' = Items(Update(w))
         /\ loop[w].found => Items(loop[w].old) = Kids(d) /\ list[d] # Nil
         /\ ~loop[w].found => Items(loop[w].old) = {}
  <2>1. CASE Quiet(w)
    BY <2>1, SameKids DEF Quiet
  <2>2. CASE Writes(w)
    <3>1. loop[w].st = "write" /\ list'[d] = Update(w)
      BY <1>7, <2>2 DEF Writes
    <3>2. Kids(d)' = Items(Update(w))
      BY <1>6, <1>a, <1>8, <3>1
    <3>3. loop[w].found => list[d] = loop[w].old
      BY <1>7, <2>2 DEF Writes
    <3>4. loop[w].found => Items(loop[w].old) = Kids(d) /\ list[d] # Nil
      BY <1>2, <1>a, <1>8, <3>3 DEF Stored
    <3> QED BY <1>2, <1>8, <3>1, <3>2, <3>4
  <2> QED BY <1>1, <2>1, <2>2 DEF LoopEffect
<1>10. /\ Kids(d)' \subseteq Kids(d) \cup {req[w].uid}
       /\ loop[w].kind # "append" => Kids(d)' \subseteq Kids(d)
       /\ (loop[w].st = "write" /\ ~loop[w].found) \/ Kids(d) \ {req[w].uid} \subseteq Kids(d)'
       /\ list[d] # Nil => list'[d] # Nil
  BY <1>2, <1>6, <1>8, <1>9
<1>11. loop'[w].st = "yes" /\ loop[w].kind = "append" => req[w].uid \in Kids(d)'
  <2> SUFFICES ASSUME loop'[w].st = "yes", loop[w].kind = "append" PROVE req[w].uid \in Kids(d)'
    OBVIOUS
  <2>1. HasListed(w)' /\ ~HasListed(w) /\ Cap[loop[w].on] = 0
    BY <1>2, <1>4, DriveAssumption DEF HasListed
  <2>2. loop[w].item \in Items(Stored(loop[w].on))'
    BY <1>0, <1>8, <2>1, LoopLists
  <2>3. Stored(loop[w].on)' = IF list'[d] = Nil THEN <<>> ELSE list'[d]
    BY <1>4, <1>7 DEF Stored
  <2>4. loop'[w].item \in Items(IF list'[d] = Nil THEN <<>> ELSE list'[d])
        \/ loop[w].item \in Items(IF list'[d] = Nil THEN <<>> ELSE list'[d])
    BY <2>2, <2>3
  <2> QED BY <1>2, <1>4, <1>a, <2>4
<1>12. loop'[w].st = "yes" /\ loop[w].kind = "take" => req[w].uid \notin Kids(d)'
  BY <1>3, <1>6, <1>a, <1>7, <1>8
<1>13. /\ StoreTypes' /\ WorkerTypes' /\ TallyTypes' /\ Alone(w)
  BY <1>0, <1>1, <1>4, BaseAt DEF StoreTypes, WorkerTypes, TallyTypes, LoopTypeOK, Alone, Excused
<1>14. Columns'
  BY <1>0, <1>4, <1>7, <1>10, BaseAt DEF Columns
<1>15. Fits(pc'[w], req'[w], loop'[w], src'[w], reply'[w])
  <2>1. loop'[w].st = "write" /\ ~loop'[w].found => loop'[w].old = <<>>
    BY <1>5 DEF Stored
  <2> QED BY <1>0, <1>2, <1>3, <1>4, <2>1 DEF Fits
<1>16. Base'
  BY <1>0, <1>13, <1>14, <1>15, BaseStep
<1>17. LoopTurn(w)
  BY <1>0, <1>2, <1>4, <1>5, <1>7, <1>10, <1>11, <1>12, <1>13 DEF LoopTurn
<1> QED BY <1>16, <1>17

-----------------------------------------------------------------------------
(* A request whose checks are passed. *)

\* The uids of new objects that have not been placed.
Early == {"begin", "place"}
Unborn ==
    {r.uid : r \in {r \in Requests :
                       r.do \in Creates /\ \A w \in Workers : req[w] = r => pc[w] \in Early}}

\* Nothing leads to them.
Fresh ==
    \A o \in Unborn :
        /\ o \notin there /\ o \notin Excused /\ o \notin gone /\ parent[o] = Nil
        /\ o \in Lists => list[o] = Nil
        /\ \A d \in Lists : o \notin Kids(d)
        /\ \A x \in Objects : parent[x] # o
        /\ \A w \in Active : /\ req[w].uid # o /\ src[w] # o
                             /\ pc[w] \in Placing => req[w].dir # o

Commits(w) ==
    /\ Alone(w) /\ pc[w] \in Early /\ req' = req /\ reply' = reply /\ nodes' = nodes /\ gone' = gone
    /\ pc'[w] \in {"linking", "renaming", "taking", "unlinking"}
    /\ loop'[w] = LoopAt(pc'[w], req[w], src'[w])
    /\ src'[w] = parent[req[w].uid]
    /\ crossed' = crossed \cup UNION {Subtree(o) : o \in Harm(w)}
    /\ stranded' \in {stranded, stranded \cup {req[w].uid}}
    /\ IF pc'[w] = "linking"
       THEN /\ req[w].uid \in Unborn /\ req[w].dir \in Found \cap Lists
            /\ there' = there \cup {req[w].uid}
            /\ parent' = [parent EXCEPT ![req[w].uid] = req[w].dir]
            /\ name' = [name EXCEPT ![req[w].uid] = req[w].name]
            /\ whole' = IF req[w].uid \in Lists THEN whole ELSE whole \cup {req[w].uid}
            /\ list' = IF req[w].uid \in Lists THEN [list EXCEPT ![req[w].uid] = <<>>] ELSE list
            /\ \/ ~Taken(req[w].dir, req[w].name, Nil)
               \/ req[w].uid \in stranded'
       ELSE /\ UNCHANGED <<list, there, parent, name, whole>>
            /\ req[w].uid \in Found
            /\ pc'[w] = "renaming" =>
                  \/ ~Taken(parent[req[w].uid], req[w].name, req[w].uid)
                  \/ req[w].uid \in stranded'
            /\ pc'[w] = "taking" =>
                  /\ req[w].dir \in Found \cap Lists /\ parent[req[w].uid] # req[w].dir
                  /\ \/ ~Taken(req[w].dir, name[req[w].uid], req[w].uid)
                     \/ req[w].uid \in stranded'
                  /\ req[w].uid \in Lists =>
                        req[w].uid \notin Above(req[w].dir) \/ faults' # faults
            /\ pc'[w] = "unlinking" => stranded' = stranded

\* A worker that has not placed its new object has its uid for itself.
LEMMA EarlyUnborn ==
    ASSUME Base, NEW w \in Workers, pc[w] \in Early, req[w].do \in Creates
    PROVE  req[w].uid \in Unborn
<1>1. req[w] \in Requests /\ req[w] # Nil
  BY BaseAt, RequestTypes DEF Early
<1>2. \A v \in Workers : req[v] = req[w] => v = w
  BY <1>1 DEF Base, Once
<1> QED BY <1>1, <1>2 DEF Unborn

\* What a commit writes has its types.
LEMMA CommitTypes ==
    ASSUME Base, NEW w \in Workers, pc[w] \in Early, Commit(w)
    PROVE  /\ crossed' = crossed \cup UNION {Subtree(o) : o \in Harm(w)}
           /\ crossed' \subseteq Objects
           /\ src' = [src EXCEPT ![w] = parent[req[w].uid]]
           /\ src'[w] = parent[req[w].uid]
           /\ Harm(w) \subseteq Objects
<1>1. /\ crossed' = crossed \cup UNION {Subtree(o) : o \in Harm(w)}
      /\ src' = [src EXCEPT ![w] = parent[req[w].uid]]
  BY Zenon DEF Commit
<1>2. req[w].uid \in Objects /\ LoopTypeOK(Objects) /\ crossed \subseteq Objects
      /\ Excused \subseteq Objects /\ src \in [Workers -> Objects \cup {Nil}]
  BY BaseAt DEF Early, StoreTypes, WorkerTypes, Excused
<1>3. \A v \in Active : req[v].uid \in Objects
  BY BaseAt DEF Active, Shaky
<1>4. Harm(w) \subseteq Objects
  BY <1>2, <1>3 DEF Harm, Clashing
<1>5. \A o \in Harm(w) : Subtree(o) \subseteq Objects
  BY <1>2, <1>4, SubtreeTypes
<1> QED BY <1>1, <1>2, <1>4, <1>5

\* The types of a commit.
LEMMA CommitBase ==
    ASSUME Base, NEW w \in Workers, pc[w] \in Early, Commit(w),
           NEW p \in {"linking", "renaming", "taking", "unlinking"},
           pc' = [pc EXCEPT ![w] = p], loop' = [loop EXCEPT ![w] = LoopAt(p, req[w], src'[w])],
           UNCHANGED <<req, reply, nodes, tally>>, req[w].do \in DoAt(p),
           p \in Placing => req[w].dir \in Lists, p \in Homed => parent[req[w].uid] \in Lists,
           p = "linking" => parent[req[w].uid] = Nil,
           StoreTypes', Columns'
    PROVE  /\ Base' /\ Alone(w) /\ pc'[w] = p /\ loop'[w] = LoopAt(p, req[w], src'[w])
<1>1. src' = [src EXCEPT ![w] = parent[req[w].uid]] /\ src'[w] = parent[req[w].uid]
  BY CommitTypes
<1>2. p \in Labels \ {"idle"} /\ p # "done" /\ p # "counting" /\ pc[w] # "idle" /\ pc[w] # "done"
  BY DEF Labels, Shaky, Early
<1>3. Turns(w, p, "none")
  BY <1>1, <1>2, TurnsPlain DEF Turns
<1>4. nodes' \in [Workers -> SUBSET Objects] /\ TallyTypes'
  BY BaseAt DEF WorkerTypes, TallyTypes
<1> QED BY <1>1, <1>2, <1>3, <1>4, TurnsBase

\* child_name_exists changes nothing but the number of faults.
LEMMA FreeNameEffect ==
    ASSUME NEW w, NEW d, NEW nm, NEW skip, FreeName(d, nm, skip), StrandedIf(w, Taken(d, nm, skip))
    PROVE  /\ stranded' \in {stranded, stranded \cup {req[w].uid}} /\ (faults' = faults \/ Fault)
           /\ ~Taken(d, nm, skip) \/ req[w].uid \in stranded'
  BY DEF FreeName, StrandedIf

\* handle_upload and handle_mkdir write the columns of a new object.
LEMMA PlaceBase ==
    ASSUME Base, Fresh, NEW w \in Workers, Place(w)
    PROVE  Base' /\ Commits(w)
<1> DEFINE o == req[w].uid
           d == req[w].dir
<1>0. /\ pc[w] \in Early /\ (pc[w] = "place" \/ req[w].do = "mkdir")
      /\ d \in Found \cap Lists
      /\ FreeName(d, req[w].name, Nil) /\ StrandedIf(w, Taken(d, req[w].name, Nil))
      /\ there' = there \cup {o}
      /\ parent' = [parent EXCEPT ![o] = d]
      /\ name' = [name EXCEPT ![o] = req[w].name]
      /\ whole' = IF o \in Lists THEN whole ELSE whole \cup {o}
      /\ list' = IF o \in Lists THEN [list EXCEPT ![o] = <<>>] ELSE list
      /\ StartLoop(w, "append", d, o)
      /\ Commit(w)
      /\ pc' = [pc EXCEPT ![w] = "linking"]
      /\ UNCHANGED <<index, misled, req, reply, nodes, used, quota, tally, gone, raced>>
  BY DEF Place, Placeable, At, Destination, PutContent, Goto, uvars, Early
<1>1. req[w] \in Requests /\ o \in Objects /\ req[w].do \in Creates /\ Lists \subseteq Objects
  BY <1>0, BaseAt, RequestTypes, DriveAssumption DEF Early, DoAt, Creates
<1>2. o \in Unborn /\ parent[o] = Nil
  BY <1>0, <1>1, EarlyUnborn DEF Fresh
<1>3. stranded' \in {stranded, stranded \cup {o}} /\ faults' \in 0..MaxFaults
      /\ (~Taken(d, req[w].name, Nil) \/ o \in stranded')
  BY <1>0, FreeNameEffect, BaseAt, FaultTypes
<1>4. StoreTypes'
  <2>1. StoreTypes /\ <<>> \in Seq(Objects) /\ crossed' \subseteq Objects
    BY <1>0, BaseAt, CommitTypes
  <2> QED BY <1>0, <1>1, <1>3, <2>1 DEF StoreTypes, Excused
<1>5. Columns'
  <2>1. Columns /\ <<>> # Nil /\ req[w].name \in AllNames /\ list \in [Lists -> Seq(Objects) \cup {Nil}]
        /\ parent \in [Objects -> Objects \cup {Nil}] /\ there \subseteq Objects
    BY <1>1, BaseAt, DriveAssumption DEF AllNames, StoreTypes
  <2> QED BY <1>0, <1>1, <2>1 DEF Columns
<1>6. loop' = [loop EXCEPT ![w] = LoopAt("linking", req[w], src'[w])]
  BY <1>0 DEF StartLoop, LoopAt, KindAt, ListAt, Shaky
<1>7. /\ req[w].do \in DoAt("linking") /\ "linking" \notin Homed
  BY <1>1 DEF DoAt, Homed, Moving
<1>8. /\ Base' /\ Alone(w) /\ pc'[w] = "linking" /\ loop'[w] = LoopAt("linking", req[w], src'[w])
  BY <1>0, <1>2, <1>4, <1>5, <1>6, <1>7, CommitBase
<1>9. src'[w] = parent[o] /\ crossed' = crossed \cup UNION {Subtree(x) : x \in Harm(w)}
  BY <1>0, CommitTypes
<1> QED BY <1>0, <1>2, <1>3, <1>8, <1>9 DEF Commits

\* An object that a path leads to has a folder, as far as its columns say.
LEMMA FoundParent ==
    ASSUME Base, NEW w \in Workers, pc[w] = "begin", req[w].do \in Changes, req[w].uid \in Found
    PROVE  parent[req[w].uid] \in Lists /\ req[w] \in Requests /\ req[w].uid \in Objects
<1>1. req[w] \in Requests /\ req[w].uid # Root /\ Columns /\ req[w].uid \in Objects
  BY BaseAt, RequestTypes
<1> QED BY <1>1 DEF Columns, Found

\* handle_rename has checked its request.
LEMMA BeginRenameBase ==
    ASSUME Base, NEW w \in Workers, BeginRename(w)
    PROVE  Base' /\ Commits(w)
<1> DEFINE o == req[w].uid
<1>0. /\ pc[w] = "begin" /\ req[w].do = "rename" /\ o \in Found
      /\ FreeName(parent[o], req[w].name, o) /\ StrandedIf(w, Taken(parent[o], req[w].name, o))
      /\ Commit(w)
      /\ pc' = [pc EXCEPT ![w] = "renaming"]
      /\ UNCHANGED <<list, index, loop, misled, req, reply, there, parent, name, whole, nodes,
                     used, quota, tally, gone, raced>>
  BY DEF BeginRename, At, Goto, uvars
<1>1. parent[o] \in Lists /\ o \in Objects /\ pc[w] \in Early
  BY <1>0, FoundParent DEF Changes, Early
<1>2. stranded' \in {stranded, stranded \cup {o}} /\ faults' \in 0..MaxFaults
      /\ (~Taken(parent[o], req[w].name, o) \/ o \in stranded')
  BY <1>0, FreeNameEffect, BaseAt, FaultTypes
<1>3. StoreTypes' /\ Columns'
  BY <1>0, <1>1, <1>2, BaseAt, CommitTypes, SameColumns DEF StoreTypes, Excused
<1>4. loop' = [loop EXCEPT ![w] = LoopAt("renaming", req[w], src'[w])]
  <2>1. loop[w] = NoLoop /\ loop \in [Workers -> LoopStates(Objects)]
    BY <1>0, BaseAt DEF Shaky, WorkerTypes
  <2> QED BY <1>0, <2>1 DEF LoopAt, Shaky
<1>5. req[w].do \in DoAt("renaming") /\ "renaming" \notin Placing
  BY <1>0 DEF DoAt, Placing, Moving
<1>6. /\ Base' /\ Alone(w) /\ pc'[w] = "renaming" /\ loop'[w] = LoopAt("renaming", req[w], src'[w])
  BY <1>0, <1>1, <1>3, <1>4, <1>5, CommitBase
<1>7. src'[w] = parent[o] /\ crossed' = crossed \cup UNION {Subtree(x) : x \in Harm(w)}
  BY <1>0, <1>1, CommitTypes
<1> QED BY <1>0, <1>1, <1>2, <1>6, <1>7 DEF Commits

\* handle_delete_path has checked its request.
LEMMA BeginDeleteBase ==
    ASSUME Base, NEW w \in Workers, BeginDelete(w)
    PROVE  Base' /\ Commits(w)
<1> DEFINE o == req[w].uid
<1>0. /\ pc[w] = "begin" /\ req[w].do = "delete" /\ o \in Found
      /\ StartLoop(w, "take", parent[o], o)
      /\ Commit(w)
      /\ pc' = [pc EXCEPT ![w] = "unlinking"]
      /\ UNCHANGED <<list, index, faults, misled, req, reply, there, parent, name, whole, nodes,
                     used, quota, tally, stranded, gone, raced>>
  BY DEF BeginDelete, At, Goto, uvars
<1>1. parent[o] \in Lists /\ o \in Objects /\ pc[w] \in Early
  BY <1>0, FoundParent DEF Changes, Early
<1>2. src'[w] = parent[o] /\ crossed' = crossed \cup UNION {Subtree(x) : x \in Harm(w)}
  BY <1>0, <1>1, CommitTypes
<1>3. StoreTypes' /\ Columns'
  BY <1>0, <1>1, <1>2, BaseAt, CommitTypes, SameColumns DEF StoreTypes, Excused
<1>4. loop' = [loop EXCEPT ![w] = LoopAt("unlinking", req[w], src'[w])]
  BY <1>0, <1>2 DEF StartLoop, LoopAt, KindAt, ListAt, Shaky
<1>5. req[w].do \in DoAt("unlinking") /\ "unlinking" \notin Placing
  BY <1>0 DEF DoAt, Placing, Moving
<1>6. /\ Base' /\ Alone(w) /\ pc'[w] = "unlinking" /\ loop'[w] = LoopAt("unlinking", req[w], src'[w])
  BY <1>0, <1>1, <1>3, <1>4, <1>5, CommitBase
<1> QED BY <1>0, <1>1, <1>2, <1>6 DEF Commits

\* handle_move has checked its request.
LEMMA BeginMoveBase ==
    ASSUME Base, NEW w \in Workers, BeginMove(w)
    PROVE  Base' /\ (Commits(w) \/ Still(w))
<1> DEFINE o == req[w].uid
           d == req[w].dir
<1>0. pc[w] = "begin" /\ req[w].do = "move" /\ Movable(w)
  BY DEF BeginMove, At
<1>1. /\ UNCHANGED <<list, index, misled, req, there, parent, name, whole, nodes,
                     used, quota, tally, gone, raced>>
      /\ \/ /\ parent[o] = d /\ pc' = [pc EXCEPT ![w] = "done"]
            /\ reply' = [reply EXCEPT ![w] = "ok"] /\ UNCHANGED <<loop, src, crossed, stranded>>
         \/ /\ parent[o] # d /\ StartLoop(w, "take", parent[o], o) /\ Commit(w)
            /\ StrandedIf(w, Taken(d, name[o], o))
            /\ pc' = [pc EXCEPT ![w] = "taking"] /\ reply' = reply
  BY DEF BeginMove, Goto, Reply, uvars
<1>2. /\ o \in Found /\ d \in Found \cap Lists
      /\ faults' = faults \/ Fault
      /\ o \in Lists => o \notin Above(d) \/ faults' # faults
  <2>1. o \in Found /\ d \in Found \cap Lists
    BY <1>0 DEF Movable, Destination
  <2>2. faults \in 0..MaxFaults
    BY BaseAt DEF StoreTypes
  <2> QED BY <1>0, <2>1, <2>2, LoopAssumption DEF Movable, NotInside, FreeName, Fault
<1>3. parent[o] \in Lists /\ o \in Objects /\ pc[w] \in Early
  BY <1>0, <1>2, FoundParent DEF Changes, Early
<1>4. faults' \in 0..MaxFaults
  BY <1>2, BaseAt, FaultTypes
<1>5. CASE /\ parent[o] # d /\ StartLoop(w, "take", parent[o], o) /\ Commit(w)
           /\ StrandedIf(w, Taken(d, name[o], o))
           /\ pc' = [pc EXCEPT ![w] = "taking"] /\ reply' = reply
  <2>0. /\ stranded' \in {stranded, stranded \cup {o}} 
        /\ ~Taken(d, name[o], o) \/ o \in stranded'
    BY <1>5 DEF StrandedIf
  <2>1. src'[w] = parent[o] /\ crossed' = crossed \cup UNION {Subtree(x) : x \in Harm(w)}
    BY <1>3, <1>5, CommitTypes
  <2>2. StoreTypes' /\ Columns'
    BY <1>1, <1>2, <1>3, <1>4, <1>5, <2>0, BaseAt, CommitTypes, SameColumns DEF StoreTypes, Excused
  <2>3. loop' = [loop EXCEPT ![w] = LoopAt("taking", req[w], src'[w])]
    BY <1>5, <2>1 DEF StartLoop, LoopAt, KindAt, ListAt, Shaky
  <2>4. req[w].do \in DoAt("taking")
    BY <1>0 DEF DoAt, Moving
  <2>5. /\ Base' /\ Alone(w) /\ pc'[w] = "taking" /\ loop'[w] = LoopAt("taking", req[w], src'[w])
    BY <1>1, <1>2, <1>3, <1>5, <2>2, <2>3, <2>4, CommitBase
  <2> QED BY <1>1, <1>2, <1>3, <1>5, <2>0, <2>1, <2>5 DEF Commits
<1>6. CASE /\ parent[o] = d /\ pc' = [pc EXCEPT ![w] = "done"]
           /\ reply' = [reply EXCEPT ![w] = "ok"] /\ UNCHANGED <<loop, src, crossed, stranded>>
  <2>1. used' \in Nat /\ quota' \in Nat /\ raced' \in BOOLEAN
    BY <1>1, BaseAt DEF StoreTypes
  <2> QED BY <1>0, <1>1, <1>4, <1>6, <2>1, StillDone DEF Shaky, Creates
<1> QED BY <1>1, <1>5, <1>6

-----------------------------------------------------------------------------
(* Renaming and deleting. *)

Renames(w) ==
    /\ Alone(w) /\ pc[w] = "renaming" /\ pc'[w] = "done" /\ req[w].do = "rename"
    /\ UNCHANGED <<list, there, parent, whole, crossed, stranded, gone, src, loop, nodes, req>>
    /\ name' = [name EXCEPT ![req[w].uid] = req[w].name]

\* The columns of o are deleted, because it could not be linked or because it is a
\* node of a deleted subtree.
Deletes(w, o) ==
    /\ Alone(w) /\ o \in Objects /\ DeleteColumns(o)
    /\ UNCHANGED <<name, crossed, gone, src, req>> /\ nodes'[w] \subseteq nodes[w]
    /\ \/ /\ pc[w] = "linking" /\ pc'[w] = "done" /\ o = req[w].uid /\ loop'[w] = NoLoop
          /\ reply'[w] = "failed" /\ stranded' \in {stranded, stranded \cup {o}}
          /\ o \in Kids(req[w].dir) => o \in stranded'
       \/ /\ pc[w] = "deleting" /\ o \in nodes[w] /\ UNCHANGED <<pc, loop, reply, stranded>>

Unlinks(w) ==
    /\ Alone(w) /\ pc[w] = "unlinking" /\ loop[w].st = "yes"
    /\ pc'[w] = "deleting" /\ loop'[w] = NoLoop
    /\ gone' = gone \cup Subtree(req[w].uid) /\ nodes'[w] \subseteq Subtree(req[w].uid)
    /\ UNCHANGED <<list, there, parent, name, whole, crossed, stranded, src, req, reply>>

\* handle_rename puts the name.
LEMMA RenameBase ==
    ASSUME Base, NEW w \in Workers, Rename(w)
    PROVE  Base' /\ (Renames(w) \/ Still(w))
<1> DEFINE o == req[w].uid
<1>0. /\ pc[w] = "renaming"
      /\ pc' = [pc EXCEPT ![w] = "done"] /\ reply' = [reply EXCEPT ![w] = "ok"]
      /\ UNCHANGED <<list, index, loop, misled, req, there, parent, whole, src, nodes,
                     quota, used, tally, crossed, stranded, gone, raced>>
      /\ \/ name' = [name EXCEPT ![o] = req[w].name] /\ faults' = faults
         \/ Fault /\ name' = name
  BY DEF Rename, Reply, Goto, uvars, gvars
<1>1. used' \in Nat /\ quota' \in Nat /\ faults' \in 0..MaxFaults /\ raced' \in BOOLEAN
  BY <1>0, BaseAt, FaultTypes DEF StoreTypes
<1>2. req[w] \in Requests /\ o \in Objects /\ req[w].do = "rename" /\ pc[w] \notin Shaky
  BY <1>0, BaseAt DEF DoAt, Moving, Shaky
<1>3. CASE name' = name
  <2>1. req[w].do \notin Creates
    BY <1>2 DEF Creates
  <2> QED BY <1>0, <1>1, <1>2, <1>3, <2>1, StillDone
<1>4. CASE name' = [name EXCEPT ![o] = req[w].name]
  <2>1. Columns'
    <3>1. Columns /\ req[w].name \in AllNames
      BY <1>2, BaseAt DEF AllNames
    <3> QED BY <1>0, <1>2, <1>4, <3>1 DEF Columns
  <2>2. StoreTypes' /\ TallyTypes' /\ nodes' \in [Workers -> SUBSET Objects]
    BY <1>0, <1>1, BaseAt DEF StoreTypes, TallyTypes, WorkerTypes, Excused
  <2>3. Base' /\ Alone(w) /\ pc'[w] = "done"
    BY <1>0, <1>2, <2>1, <2>2, DoneBase
  <2> QED BY <1>0, <1>2, <1>4, <2>3 DEF Renames
<1> QED BY <1>0, <1>3, <1>4

\* Without the columns of o the others are what they were.
LEMMA DeleteTypes ==
    ASSUME Base, NEW w \in Workers, NEW o \in Objects, DeleteColumns(o),
           UNCHANGED <<name, index, misled, used, quota, gone, crossed, raced>>,
           faults' = faults \/ Fault, stranded' \in {stranded, stranded \cup {o}}
    PROVE  StoreTypes' /\ Columns'
<1>0. /\ there' = there \ {o} /\ whole' = whole \ {o}
      /\ parent' = [parent EXCEPT ![o] = Nil]
      /\ list' = IF o \in Lists THEN [list EXCEPT ![o] = Nil] ELSE list
  BY DEF DeleteColumns
<1>1. StoreTypes /\ Columns /\ faults' \in 0..MaxFaults
  BY BaseAt, FaultTypes
<1>2. StoreTypes'
  BY <1>0, <1>1 DEF StoreTypes, Excused
<1>3. Columns'
  BY <1>0, <1>1 DEF StoreTypes, Columns
<1> QED BY <1>2, <1>3

\* handle_upload and handle_mkdir take a new object back.
LEMMA NotLinkedBase ==
    ASSUME Base, NEW w \in Workers, NotLinked(w)
    PROVE  Base' /\ Deletes(w, req[w].uid)
<1> DEFINE o == req[w].uid
<1>0. /\ pc[w] = "linking" /\ DeleteColumns(o)
      /\ pc' = [pc EXCEPT ![w] = "done"] /\ reply' = [reply EXCEPT ![w] = "failed"]
      /\ loop' = [loop EXCEPT ![w] = NoLoop]
      /\ UNCHANGED <<index, faults, misled, req, name, src, nodes,
                     quota, used, tally, crossed, gone, raced>>
      /\ stranded' = IF o \in Kids(req[w].dir) THEN stranded \cup {o} ELSE stranded
  BY DEF NotLinked, Reply, Goto, uvars, EndLoop, StrandedIf
<1>1. o \in Objects
  BY <1>0, BaseAt
<1>2. StoreTypes' /\ Columns'
  BY <1>0, <1>1, DeleteTypes
<1>3. TallyTypes' /\ nodes' \in [Workers -> SUBSET Objects]
  BY <1>0, BaseAt DEF TallyTypes, WorkerTypes
<1>4. Base' /\ Alone(w) /\ pc'[w] = "done"
  BY <1>0, <1>2, <1>3, DoneBase
<1>5. reply'[w] = "failed" /\ loop'[w] = NoLoop
  BY <1>0, BaseAt DEF WorkerTypes
<1> QED BY <1>0, <1>1, <1>4, <1>5 DEF Deletes

\* handle_delete_path deletes the columns of one object.
LEMMA DeleteNodeBase ==
    ASSUME Base, NEW w \in Workers, DeleteNode(w)
    PROVE  Base' /\ (Still(w) \/ \E o \in nodes[w] : Deletes(w, o))
<1>0. PICK o \in Leaves(nodes[w]) :
          /\ pc[w] = "deleting"
          /\ nodes' = [nodes EXCEPT ![w] = @ \ {o}]
          /\ tally' = [tally EXCEPT ![w].delta = IF o \in there THEN @ - Sizes[o] ELSE @]
          /\ \/ DeleteColumns(o) /\ UNCHANGED faults
             \/ Fault /\ UNCHANGED <<there, whole, parent, list>>
          /\ UNCHANGED <<index, loop, misled, pc, req, reply, name, src, used, quota,
                         crossed, stranded, gone, raced>>
  BY DEF DeleteNode, hvars, gvars
<1>1. o \in nodes[w] /\ nodes \in [Workers -> SUBSET Objects] /\ o \in Objects
  BY BaseAt DEF Leaves, WorkerTypes
<1>2. TallyTypes' /\ \A x \in Workers \ {w} : tally'[x] = tally[x]
  <2>1. TallyTypes /\ Sizes[o] \in Nat
    BY <1>1, BaseAt, DriveAssumption
  <2>2. tally[w].delta \in Int
    BY <2>1 DEF TallyTypes
  <2> DEFINE d == IF o \in there THEN tally[w].delta - Sizes[o] ELSE tally[w].delta
  <2>3. d \in Int /\ tally' = [tally EXCEPT ![w].delta = d]
    BY <1>0, <2>1, <2>2
  <2> HIDE DEF d
  <2> QED BY <2>1, <2>3, TallySet
<1>3. nodes' \in [Workers -> SUBSET Objects] /\ nodes'[w] \subseteq nodes[w]
      /\ \A x \in Workers \ {w} : nodes'[x] = nodes[x]
  BY <1>0, <1>1
<1>4. Alone(w)
  BY <1>0, <1>2, <1>3 DEF Alone
<1>5. StoreTypes' /\ Columns'
  <2>1. CASE DeleteColumns(o) /\ UNCHANGED faults
    BY <1>0, <1>1, <2>1, DeleteTypes
  <2>2. CASE Fault /\ UNCHANGED <<there, whole, parent, list>>
    BY <1>0, <2>2, BaseAt, FaultTypes, SameColumns DEF StoreTypes, Excused
  <2> QED BY <1>0, <2>1, <2>2
<1>6. Base'
  <2>1. WorkerTypes'
    BY <1>0, <1>3, BaseAt DEF WorkerTypes
  <2>2. Fits(pc'[w], req'[w], loop'[w], src'[w], reply'[w])
    BY <1>0, BaseAt
  <2> QED BY <1>0, <1>2, <1>4, <1>5, <2>1, <2>2, BaseStep
<1>7. CASE DeleteColumns(o)
  BY <1>0, <1>1, <1>3, <1>4, <1>6, <1>7 DEF Deletes
<1>8. CASE UNCHANGED <<there, whole, parent, list>>
  BY <1>0, <1>3, <1>4, <1>6, <1>8, BaseAt DEF Still
<1> QED BY <1>0, <1>6, <1>7, <1>8

\* handle_delete_path collects the subtree.
LEMMA UnlinkedBase ==
    ASSUME Base, NEW w \in Workers, Unlinked(w)
    PROVE  Base' /\ Unlinks(w)
<1> DEFINE o == req[w].uid
<1>0. /\ pc[w] = "unlinking" /\ loop[w].st = "yes" /\ pc' = [pc EXCEPT ![w] = "deleting"]
      /\ loop' = [loop EXCEPT ![w] = NoLoop]
      /\ UNCHANGED <<list, index, misled, req, reply, there, parent, name, whole, src,
                     used, quota, tally, crossed, stranded, raced>>
      /\ gone' = gone \cup Subtree(o)
      /\ \/ nodes' = [nodes EXCEPT ![w] = Subtree(o)] /\ faults' = faults
         \/ Fault /\ nodes' = [nodes EXCEPT ![w] = {o}]
  BY DEF Unlinked, EndLoop, Goto, uvars
<1>1. /\ o \in Objects /\ LoopTypeOK(Objects) /\ WorkerTypes /\ StoreTypes /\ Columns
      /\ faults' \in 0..MaxFaults
  BY <1>0, BaseAt, FaultTypes
<1>2. Subtree(o) \subseteq Objects /\ o \in Subtree(o)
  BY <1>1, LinksTypes, ReachClosed DEF Subtree
<1>3. /\ nodes' \in [Workers -> SUBSET Objects] /\ \A x \in Workers \ {w} : nodes'[x] = nodes[x]
      /\ nodes'[w] \subseteq Subtree(o)
  BY <1>0, <1>1, <1>2 DEF WorkerTypes
<1>4. StoreTypes' /\ Columns' /\ TallyTypes'
  BY <1>0, <1>1, <1>2, BaseAt, SameColumns DEF StoreTypes, Excused, TallyTypes
<1>5. Turns(w, "deleting", "none")
  BY <1>0, TurnsPlain DEF Turns, LoopAt, Shaky
<1>6. req[w].do \in DoAt("deleting") /\ "deleting" \in Labels /\ "deleting" \notin Placing \cup Homed
  BY <1>0, BaseAt DEF DoAt, Labels, Placing, Homed, Moving
<1>7. Base' /\ Alone(w) /\ pc'[w] = "deleting"
  BY <1>0, <1>3, <1>4, <1>5, <1>6, TurnsBase
<1>8. loop'[w] = NoLoop
  BY <1>0, <1>1 DEF WorkerTypes
<1> QED BY <1>0, <1>3, <1>7, <1>8 DEF Unlinks

-----------------------------------------------------------------------------
(* The steps, sorted by what they do to the tree. *)

Ends(w) ==
    Still(w) \/ Turn(w) \/ LoopTurn(w) \/ Renames(w) \/ Unlinks(w) \/ \E o \in Objects : Deletes(w, o)

\* Every step keeps the base, and is of one of the classes.
LEMMA SortedStep ==
    ASSUME Base, Fresh, NEW w \in Workers, Step(w) \/ Crash(w) \/ \E r \in Requests : Request(w, r)
    PROVE  Base' /\ (Ends(w) \/ Commits(w))
<1>2. CASE Step(w)
  <2>1. CASE Loop(w)
    BY <2>1, LoopBase DEF Ends
  <2>2. CASE TallyRead(w)
    BY <2>2, TallyReadBase DEF Ends
  <2>3. CASE TallyWrite(w)
    BY <2>3, TallyWriteBase DEF Ends
  <2>4. CASE CheckQuota(w)
    BY <2>4, CheckQuotaBase DEF Ends
  <2>5. CASE Place(w)
    BY <2>5, PlaceBase
  <2>6. CASE PlaceFails(w)
    BY <2>6, PlaceFailsBase DEF Ends
  <2>7. CASE Linked(w)
    BY <2>7, LinkedBase DEF Ends
  <2>8. CASE NotLinked(w)
    <3>1. Base' /\ Deletes(w, req[w].uid)
      BY <2>8, NotLinkedBase
    <3>2. req[w].uid \in Objects
      BY <3>1 DEF Deletes
    <3> QED BY <3>1, <3>2 DEF Ends
  <2>9. CASE Counted(w)
    BY <2>9, CountedBase DEF Ends
  <2>10. CASE BeginRename(w)
    BY <2>10, BeginRenameBase
  <2>11. CASE Rename(w)
    BY <2>11, RenameBase DEF Ends
  <2>12. CASE Refused(w)
    BY <2>12, RefusedBase DEF Ends
  <2>13. CASE BeginMove(w)
    BY <2>13, BeginMoveBase DEF Ends
  <2>14. CASE Took(w)
    BY <2>14, TookBase DEF Ends
  <2>15. CASE PutParent(w)
    BY <2>15, PutParentBase DEF Ends
  <2>16. CASE PutParentFails(w)
    BY <2>16, PutParentFailsBase DEF Ends
  <2>17. CASE PutBack(w)
    BY <2>17, PutBackBase DEF Ends
  <2>18. CASE NotMoved(w)
    BY <2>18, NotMovedBase DEF Ends
  <2>19. CASE BeginDelete(w)
    BY <2>19, BeginDeleteBase
  <2>20. CASE Unlinked(w)
    BY <2>20, UnlinkedBase DEF Ends
  <2>21. CASE DeleteNode(w)
    <3>1. Base' /\ (Still(w) \/ \E o \in nodes[w] : Deletes(w, o))
      BY <2>21, DeleteNodeBase
    <3>2. \A o : Deletes(w, o) => o \in Objects
      BY DEF Deletes
    <3> QED BY <3>1, <3>2 DEF Ends
  <2>22. CASE Deleted(w)
    BY <2>22, DeletedBase DEF Ends
  <2>23. CASE QuotaRequest(w)
    BY <2>23, QuotaRequestBase DEF Ends
  <2> QED
    BY <1>2, <2>1, <2>2, <2>3, <2>4, <2>5, <2>6, <2>7, <2>8, <2>9, <2>10, <2>11, <2>12, <2>13,
       <2>14, <2>15, <2>16, <2>17, <2>18, <2>19, <2>20, <2>21, <2>22, <2>23 DEF Step
<1>3. CASE Crash(w)
  BY <1>3, CrashShakyBase, CrashStillBase DEF Ends
<1>4. ASSUME NEW r \in Requests, Request(w, r) PROVE Base' /\ Ends(w)
  BY <1>4, RequestBase DEF Ends
<1> QED BY <1>2, <1>3, <1>4

\* The same of the next-state relation.
LEMMA Sorted ==
    ASSUME Base, Fresh, Next
    PROVE  Base' /\ \E w \in Workers : Ends(w) \/ Commits(w)
<1>1. PICK w \in Workers : Step(w) \/ Crash(w) \/ \E r \in Requests : Request(w, r)
  BY DEF Next
<1> QED BY <1>1, SortedStep

-----------------------------------------------------------------------------
(* What a step that commits nothing may do. *)

\* The loop of w may add its object to d.
Appends(w, d) == LoopTurn(w) /\ loop[w].kind = "append" /\ d = loop[w].on

Later(w) ==
    /\ Alone(w) /\ crossed' = crossed /\ there' \subseteq there
    /\ \A v \in Workers : v \in Active' => v \in Active /\ req'[v] = req[v] /\ src'[v] = src[v]
    /\ stranded \subseteq stranded' /\ stranded' \subseteq stranded \cup {req[w].uid}
    /\ stranded' # stranded => w \in Active
    /\ gone \subseteq gone'
    /\ \A d \in Lists : Kids(d)' \subseteq Kids(d) \/ (Kids(d)' \subseteq Kids(d) \cup {req[w].uid} /\ Appends(w, d))

\* Where the loop of an active worker is.
LEMMA LoopWhere ==
    ASSUME Base, NEW w \in Workers, pc[w] \in Shaky
    PROVE  /\ w \in Active /\ req[w] \in Requests /\ req[w].uid \in Objects /\ req[w].do \in Creates \cup Changes
           /\ loop[w].item = req[w].uid /\ loop[w].kind = KindAt(pc[w])
           /\ loop[w].on = ListAt(pc[w], req[w], src[w]) /\ loop[w].on \in Lists
           /\ \/ loop[w].on = req[w].dir /\ pc[w] \in Placing
              \/ loop[w].on = src[w] /\ pc[w] \in Homed
<1>1. /\ Fits(pc[w], req[w], loop[w], src[w], reply[w])
      /\ pc[w] \in Labels /\ req[w].do \in DoAt(pc[w])
      /\ req[w] \in Requests /\ req[w].uid \in Objects
  BY BaseAt DEF Shaky
<1>2. w \in Active
  BY DEF Active
<1>3. req[w].do \in Creates \cup Changes
  BY <1>1 DEF DoAt, Shaky, Moving, Creates, Changes
<1>4. /\ loop[w].item = req[w].uid /\ loop[w].kind = KindAt(pc[w])
      /\ loop[w].on = ListAt(pc[w], req[w], src[w])
  BY <1>1 DEF Fits
<1>5. \/ loop[w].on = req[w].dir /\ pc[w] \in Placing
      \/ loop[w].on = src[w] /\ pc[w] \in Homed
  BY <1>4 DEF ListAt, Shaky, Placing, Homed, Moving
<1>6. loop[w].on \in Lists
  BY <1>1, <1>5 DEF Fits
<1> QED BY <1>1, <1>2, <1>3, <1>4, <1>5, <1>6

\* What an active worker has.
LEMMA ActiveAt ==
    ASSUME Base, NEW w \in Active
    PROVE  /\ w \in Workers /\ req[w] \in Requests /\ req[w].uid \in Objects /\ req[w] # Nil
           /\ req[w].do \in Creates \cup Changes /\ req[w].uid # Root
           /\ pc[w] \notin Early /\ pc[w] \notin {"idle", "done"} /\ src[w] \in Objects \cup {Nil}
<1>1. w \in Workers /\ pc[w] \in Shaky \cup {"renaming", "counting"}
  BY DEF Active
<1>2. pc[w] \notin Early /\ pc[w] \notin {"idle", "done"}
  BY <1>1 DEF Early, Shaky
<1>3. req[w] \in Requests /\ req[w].uid \in Objects /\ req[w].do \in DoAt(pc[w]) /\ req[w] # Nil
      /\ src[w] \in Objects \cup {Nil}
  BY <1>1, <1>2, BaseAt, RequestTypes DEF WorkerTypes
<1>4. req[w].do \in Creates \cup Changes
  BY <1>1, <1>3 DEF DoAt, Shaky, Moving, Creates, Changes
<1>5. req[w].uid # Root
  BY <1>3, <1>4, NewUidAssumption, DriveAssumption DEF InitialObjects
<1> QED BY <1>1, <1>2, <1>3, <1>4, <1>5

\* delete_drive_node takes the list of a folder with it.
LEMMA DeleteKids ==
    ASSUME Base, NEW w, NEW o \in Objects, DeleteColumns(o)
    PROVE  /\ \A d \in Lists \ {o} : Kids(d)' = Kids(d)
           /\ Kids(o)' = {}
<1>0. list' = IF o \in Lists THEN [list EXCEPT ![o] = Nil] ELSE list
  BY DEF DeleteColumns
<1>1. list \in [Lists -> Seq(Objects) \cup {Nil}]
  BY TypeParts DEF Base, StoreTypes
<1>2. \A d \in Lists \ {o} : Kids(d)' = Kids(d)
  BY <1>0, <1>1, SameKids
<1>3. Kids(o)' = {}
  BY <1>0, <1>1 DEF Kids, Stored, Items
<1> QED BY <1>2, <1>3

\* A step that commits nothing starts no request, and adds at most its own object.
LEMMA LaterStep ==
    ASSUME Base, NEW w \in Workers, Ends(w)
    PROVE  Later(w)
<1>0. Shaky \cap {"idle", "done", "begin", "place", "freeing", "renaming", "counting", "deleting"} = {}
  BY DEF Shaky
<1>s. ASSUME UNCHANGED list PROVE \A d \in Lists : Kids(d)' = Kids(d)
  BY <1>s, SameKids
<1>t. ASSUME NEW v \in Workers, pc'[v] = pc[v] PROVE v \in Active' <=> v \in Active
  BY <1>t DEF Active
<1>u. ASSUME Alone(w), NEW v \in Workers, v # w
      PROVE (v \in Active' <=> v \in Active) /\ req'[v] = req[v] /\ src'[v] = src[v]
  BY <1>u, <1>t DEF Alone
<1>1. CASE Still(w)
  <2>1. ASSUME w \in Active' PROVE w \in Active /\ req'[w] = req[w] /\ src'[w] = src[w]
    <3>1. pc'[w] \in Shaky \cup {"renaming", "counting"}
      BY <2>1 DEF Active
    <3>2. pc'[w] = pc[w] /\ req' = req
      BY <1>1, <3>1, <1>0 DEF Still
    <3> QED BY <1>1, <2>1, <3>2, <1>t DEF Still
  <2> QED BY <1>1, <1>s, <1>u, <2>1 DEF Still, Later
<1>2. CASE Turn(w)
  <2>1. w \in Active
    BY <1>2 DEF Turn, Active
  <2> QED BY <1>2, <1>s, <1>u, <2>1 DEF Turn, Later
<1>3. CASE LoopTurn(w)
  <2>1. w \in Active
    BY <1>3 DEF LoopTurn, Active
  <2>2. ASSUME NEW d \in Lists
        PROVE  Kids(d)' \subseteq Kids(d) \/ (Kids(d)' \subseteq Kids(d) \cup {req[w].uid} /\ Appends(w, d))
    <3>1. CASE d # loop[w].on
      BY <1>3, <3>1, SameKids DEF LoopTurn
    <3>2. CASE d = loop[w].on
      BY <1>3, <3>2 DEF LoopTurn, Appends
    <3> QED BY <3>1, <3>2
  <2>3. \A v \in Workers : v \in Active' => v \in Active /\ req'[v] = req[v] /\ src'[v] = src[v]
    BY <1>3, <1>t DEF LoopTurn
  <2>4. /\ Alone(w) /\ UNCHANGED <<there, crossed, stranded, gone>>
    BY <1>3 DEF LoopTurn
  <2> QED BY <2>1, <2>2, <2>3, <2>4 DEF Later
<1>4. CASE Renames(w)
  <2>1. w \notin Active'
    BY <1>4, <1>0 DEF Renames, Active
  <2> QED BY <1>4, <1>s, <1>u, <2>1 DEF Renames, Later
<1>5. CASE Unlinks(w)
  <2>1. w \notin Active'
    BY <1>5, <1>0 DEF Unlinks, Active
  <2> QED BY <1>5, <1>s, <1>u, <2>1 DEF Unlinks, Later
<1>6. ASSUME NEW o \in Objects, Deletes(w, o) PROVE Later(w)
  <2>1. \A d \in Lists : Kids(d)' \subseteq Kids(d)
    <3>1. \A d \in Lists \ {o} : Kids(d)' = Kids(d)
      BY <1>6, DeleteKids DEF Deletes
    <3>2. Kids(o)' = {}
      BY <1>6, DeleteKids DEF Deletes
    <3> QED BY <3>1, <3>2
  <2>2. w \notin Active'
    <3>1. pc'[w] \in {"done", "deleting"}
      BY <1>6 DEF Deletes
    <3> QED BY <3>1, <1>0 DEF Active
  <2>3. /\ there' \subseteq there /\ crossed' = crossed /\ gone' = gone /\ Alone(w)
        /\ stranded \subseteq stranded' /\ stranded' \subseteq stranded \cup {req[w].uid}
        /\ stranded' # stranded => pc[w] = "linking"
    BY <1>6 DEF Deletes, DeleteColumns
  <2>4. pc[w] = "linking" => w \in Active
    BY DEF Active, Shaky
  <2> QED BY <1>u, <2>1, <2>2, <2>3, <2>4 DEF Later
<1> QED BY <1>1, <1>2, <1>3, <1>4, <1>5, <1>6 DEF Ends

\* The parts of the base, now and next.
Parts == WorkerTypes /\ StoreTypes /\ Stages /\ Once /\ Columns

\* The parts of the base in this state,
LEMMA PartsNow == Base => Parts
  BY TypeParts DEF Base, Parts

\* and in the next.
LEMMA PartsNext == Base' => Parts'
  BY PartsNow, PTL

\* The links of a state have their types, and so have those of the next.
LinksOK ==
    /\ Links(there) \in [Objects -> SUBSET Objects]
    /\ \A x \in Objects : Links(there)[x] = IF x \in there THEN Kids(x) ELSE {}

\* The links in this state,
LEMMA LinksNow == Base => LinksOK
<1> SUFFICES ASSUME Base PROVE LinksOK
  OBVIOUS
<1>1. LoopTypeOK(Objects)
  BY TypeParts DEF Base, TypeOK
<1> QED BY <1>1, LinksTypes DEF LinksOK

\* and in the next.
LEMMA LinksNext == Base' => LinksOK'
  BY LinksNow, PTL

\* A subtree grows by at most the object that is added to a folder of it.
LEMMA Grows ==
    ASSUME Base, Base', NEW w \in Workers, Later(w), NEW o \in Objects
    PROVE  \/ Reach(o, Links(there)') \subseteq Subtree(o)
           \/ /\ LoopTurn(w) /\ loop[w].kind = "append" /\ loop[w].on \in Subtree(o)
              /\ Reach(o, Links(there)') \subseteq Subtree(o) \cup Subtree(req[w].uid)
<1>2. /\ Links(there) \in [Objects -> SUBSET Objects]
      /\ \A x \in Objects : Links(there)[x] = IF x \in there THEN Kids(x) ELSE {}
  BY LinksNow DEF LinksOK
<1>3. /\ Links(there)' \in [Objects -> SUBSET Objects]
      /\ \A x \in Objects : Links(there)'[x] = IF x \in there' THEN Kids(x)' ELSE {}
  BY LinksNext DEF LinksOK
<1>4. Subtree(o) = Reach(o, Links(there))
  BY DEF Subtree
<1>5. there' \subseteq there /\ \A x \in Objects \ Lists : Kids(x) = {} /\ Kids(x)' = {}
  BY DEF Later, Kids
<1>6. CASE \A d \in Lists : Kids(d)' \subseteq Kids(d)
  <2>1. \A x \in Objects : Links(there)'[x] \subseteq Links(there)[x]
    BY <1>2, <1>3, <1>5, <1>6
  <2>2. Reach(o, Links(there)') \subseteq Reach(o, Links(there))
    BY <1>2, <1>3, <2>1, ReachShrinks
  <2> QED BY <1>4, <2>2
<1>7. CASE ~ \A d \in Lists : Kids(d)' \subseteq Kids(d)
  <2>1. PICK d \in Lists : Appends(w, d) /\ Kids(d)' \subseteq Kids(d) \cup {req[w].uid}
    BY <1>7 DEF Later
  <2>2. /\ LoopTurn(w) /\ loop[w].kind = "append" /\ loop[w].on = d
        /\ \A e \in Lists : e # d => Kids(e)' \subseteq Kids(e)
    BY <2>1 DEF Appends, Later
  <2>3. pc[w] \in Shaky
    BY <2>2 DEF LoopTurn
  <2>4. req[w].uid \in Objects
    BY <2>3, LoopWhere
  <2> DEFINE z == req[w].uid
  <2>5. \A x \in Objects : Links(there)'[x] \subseteq Links(there)[x] \cup (IF x = d THEN {z} ELSE {})
    <3> SUFFICES ASSUME NEW x \in Objects, x \in there'
                 PROVE  Kids(x)' \subseteq Kids(x) \cup (IF x = d THEN {z} ELSE {})
      BY <1>2, <1>3, <1>5
    <3> QED BY <1>5, <2>1, <2>2
  <2>6. /\ Reach(o, Links(there)') \subseteq Reach(o, Links(there)) \cup Reach(z, Links(there))
        /\ d \notin Reach(o, Links(there)) => Reach(o, Links(there)') \subseteq Reach(o, Links(there))
    <3> HIDE DEF z
    <3>1. z \in Objects
      BY <2>4 DEF z
    <3> QED BY <1>2, <1>3, <2>5, <3>1, ReachGrows
  <2>7. Subtree(z) = Reach(z, Links(there))
    BY DEF Subtree
  <2> QED BY <1>4, <2>2, <2>6, <2>7
<1> QED BY <1>6, <1>7

\* A subtree has its root and the children of its folders, and what is in it has a
\* folder there.
LEMMA SubtreeIs ==
    ASSUME Base, NEW o \in Objects
    PROVE  /\ o \in Subtree(o) /\ Subtree(o) \subseteq Objects
           /\ \A x \in Subtree(o) \cap there : Kids(x) \subseteq Subtree(o)
           /\ \A x \in Subtree(o) : Subtree(x) \subseteq Subtree(o)
           /\ \A x \in Subtree(o) \ {o} : \E y \in Subtree(o) \cap there \cap Lists : x \in Kids(y)
<1>1. LoopTypeOK(Objects)
  BY TypeParts DEF Base, TypeOK
<1>2. /\ Links(there) \in [Objects -> SUBSET Objects]
      /\ \A x \in Objects : Links(there)[x] = IF x \in there THEN Kids(x) ELSE {}
      /\ Subtree(o) = Reach(o, Links(there))
      /\ \A x : Subtree(x) = Reach(x, Links(there))
  BY <1>1, LinksTypes DEF Subtree
<1>3. /\ o \in Subtree(o) /\ Subtree(o) \subseteq Objects
      /\ \A x \in Subtree(o) : Links(there)[x] \subseteq Subtree(o)
  BY <1>2, ReachClosed
<1>4. \A x \in Subtree(o) : Subtree(x) \subseteq Subtree(o)
  BY <1>2, ReachOn
<1>5. ASSUME NEW x \in Subtree(o) \ {o} PROVE \E y \in Subtree(o) \cap there \cap Lists : x \in Kids(y)
  <2>1. PICK y \in Reach(o, Links(there)) : x \in Links(there)[y]
    BY <1>2, <1>5, ReachFrom
  <2>2. y \in Subtree(o) /\ y \in Objects /\ y \in there /\ x \in Kids(y)
    BY <1>2, <1>3, <2>1
  <2>3. y \in Lists
    BY <2>2 DEF Kids
  <2> QED BY <2>2, <2>3
<1> QED BY <1>2, <1>3, <1>4, <1>5

-----------------------------------------------------------------------------
(* Requests that do not conflict keep away from each other. *)

Touches(w) == {req[w].uid, req[w].dir, src[w]}

\* Unless there was a conflict, no request is about what another one may move,
\* take from or put into.
Sep ==
    \A v, w \in Active : v # w /\ req[v].uid \notin crossed =>
        Subtree(req[w].uid) \cap Touches(v) = {}

\* What is below an object in a conflict is excused too.
CrossedDown ==
    \A w \in Active : req[w].uid \in crossed => Subtree(req[w].uid) \subseteq crossed

\* A commit starts a request and leaves the tree alone.
LEMMA CommitFacts ==
    ASSUME Base, Base', Fresh, NEW w \in Workers, Commits(w)
    PROVE  /\ w \notin Active /\ w \in Active' /\ req[w] \in Requests /\ req[w].uid \in Objects
           /\ \A v \in Workers \ {w} : (v \in Active' <=> v \in Active) /\ src'[v] = src[v]
           /\ req' = req /\ crossed \subseteq crossed'
           /\ \A d \in Lists : Kids(d)' = Kids(d)
           /\ \A o \in Objects : Reach(o, Links(there)') = Subtree(o)
           /\ Touches(w)' = Needs(w)
           /\ \A v \in Active : Touches(v)' = Touches(v) /\ Touches(v) = Needs(v)
<1>1. /\ pc[w] \in Early /\ pc'[w] \in {"linking", "renaming", "taking", "unlinking"}
      /\ req' = req /\ crossed \subseteq crossed' /\ Alone(w) /\ src'[w] = parent[req[w].uid]
  BY DEF Commits
<1>2. w \notin Active /\ w \in Active'
  BY <1>1 DEF Active, Early, Shaky
<1>3. \A v \in Workers \ {w} : (v \in Active' <=> v \in Active) /\ src'[v] = src[v]
  BY <1>1 DEF Alone, Active
<1>4. req[w] \in Requests /\ req[w].uid \in Objects
  BY <1>1, BaseAt DEF Early
<1>5. /\ \A d \in Lists : Kids(d)' = Kids(d)
      /\ \A x \in Objects : Links(there)'[x] = Links(there)[x]
  <2>0. /\ \A x \in Objects : Links(there)[x] = IF x \in there THEN Kids(x) ELSE {}
        /\ \A x \in Objects : Links(there)'[x] = IF x \in there' THEN Kids(x)' ELSE {}
    BY LinksNow, LinksNext DEF LinksOK
  <2>1. CASE pc'[w] = "linking"
    <3> DEFINE u == req[w].uid
    <3>1. /\ u \in Unborn /\ there' = there \cup {u}
          /\ list' = IF u \in Lists THEN [list EXCEPT ![u] = <<>>] ELSE list
      BY <2>1 DEF Commits
    <3>2. (u \in Lists => list[u] = Nil) /\ list \in [Lists -> Seq(Objects) \cup {Nil}]
      BY <3>1, BaseAt DEF Fresh, StoreTypes
    <3>3. \A d \in Lists : Stored(d)' = Stored(d)
      BY <3>1, <3>2 DEF Stored
    <3>4. \A d \in Objects : Kids(d)' = Kids(d)
      BY <3>3 DEF Kids
    <3>5. Kids(u) = {}
      BY <3>2 DEF Kids, Stored, Items
    <3>6. Lists \subseteq Objects /\ \A x \in Objects : x \in there' => x \in there \/ Kids(x) = {}
      BY <3>1, <3>5, DriveAssumption
    <3>7. there \subseteq there'
      BY <3>1
    <3> HIDE DEF u
    <3> QED BY <2>0, <3>4, <3>6, <3>7
  <2>2. CASE pc'[w] # "linking"
    <3>1. list' = list /\ there' = there
      BY <1>1, <2>2 DEF Commits
    <3>2. \A d \in Objects : Kids(d)' = Kids(d)
      BY <3>1, SameKids
    <3> QED BY <2>0, <3>1, <3>2, DriveAssumption
  <2> QED BY <2>1, <2>2
<1>6. Links(there)' = Links(there)
  <2>1. Links(there) \in [Objects -> SUBSET Objects] /\ Links(there)' \in [Objects -> SUBSET Objects]
    BY LinksNow, LinksNext DEF LinksOK
  <2> QED BY <1>5, <2>1
<1>7. \A o \in Objects : Reach(o, Links(there)') = Subtree(o)
  BY <1>6 DEF Subtree
<1>8. Touches(w)' = Needs(w) /\ \A v \in Active : Touches(v)' = Touches(v) /\ Touches(v) = Needs(v)
  <2>1. Active \subseteq Workers
    BY DEF Active
  <2> QED BY <1>1, <1>2, <1>3, <2>1 DEF Touches, Needs, Home
<1> QED BY <1>1, <1>2, <1>3, <1>4, <1>5, <1>7, <1>8

\* What is harmed is crossed, with all that is below it.
LEMMA HarmFacts ==
    ASSUME Base, Fresh, NEW w \in Workers, Commits(w)
    PROVE  /\ Harm(w) \subseteq Objects
           /\ \A h \in Harm(w) : h \in crossed' /\ Subtree(h) \subseteq crossed'
           /\ \A x \in crossed' : x \in crossed \/ \E h \in Harm(w) : x \in Subtree(h)
           /\ \A v \in Active : Conflict(v, w) => req[v].uid \in Harm(w) /\ req[w].uid \in Harm(w)
           /\ req[w].uid \in Excused \/ req[w].dir \in gone => req[w].uid \in Harm(w)
           /\ req[w].do = "delete" => Subtree(req[w].uid) \cap Excused \subseteq Harm(w)
<1>1. /\ pc[w] \in Early /\ crossed' = crossed \cup UNION {Subtree(o) : o \in Harm(w)}
  BY DEF Commits
<1>2. req[w].uid \in Objects /\ Excused \subseteq Objects
  BY <1>1, BaseAt DEF Early, StoreTypes
<1>3. \A v \in Active : req[v].uid \in Objects
  BY ActiveAt
<1>4. Harm(w) \subseteq Objects
  BY <1>2, <1>3 DEF Harm, Clashing
<1>5. \A h \in Harm(w) : h \in crossed' /\ Subtree(h) \subseteq crossed'
  BY <1>1, <1>4, SubtreeIs
<1>6. \A x \in crossed' : x \in crossed \/ \E h \in Harm(w) : x \in Subtree(h)
  BY <1>1
<1>7. /\ \A v \in Active : Conflict(v, w) => req[v].uid \in Harm(w) /\ req[w].uid \in Harm(w)
      /\ req[w].uid \in Excused \/ req[w].dir \in gone => req[w].uid \in Harm(w)
      /\ req[w].do = "delete" => Subtree(req[w].uid) \cap Excused \subseteq Harm(w)
  BY DEF Harm, Clashing
<1> QED BY <1>4, <1>5, <1>6, <1>7

\* A commit excuses all that it would bring together.
LEMMA SepCommits ==
    ASSUME Base, Base', Fresh, Sep, CrossedDown, NEW w \in Workers, Commits(w)
    PROVE  Sep' /\ CrossedDown'
<1>0. /\ w \notin Active /\ req[w].uid \in Objects
      /\ \A v \in Workers \ {w} : (v \in Active' <=> v \in Active)
      /\ req' = req /\ crossed \subseteq crossed'
      /\ \A o \in Objects : Reach(o, Links(there)') = Subtree(o)
      /\ Touches(w)' = Needs(w)
      /\ \A v \in Active : Touches(v)' = Touches(v) /\ Touches(v) = Needs(v)
  BY CommitFacts
<1>1. Active' \subseteq Workers /\ \A v \in Active : req[v].uid \in Objects
  BY ActiveAt DEF Active
<1>2. Sep'
  <2> SUFFICES ASSUME NEW v \in Active', NEW x \in Active', v # x, req[v].uid \notin crossed'
               PROVE  Subtree(req[x].uid) \cap Touches(v)' = {}
    <3>1. \A x \in Active' : Reach(req'[x].uid, Links(there)') = Subtree(req[x].uid)
      BY <1>0, <1>1
    <3> QED BY <1>0, <3>1 DEF Sep, Subtree
  <2>1. CASE v # w /\ x # w
    BY <1>0, <1>1, <2>1 DEF Sep
  <2>2. CASE v = w
    <3>1. x \in Active /\ ~Conflict(x, w)
      BY <1>0, <1>1, <2>2, HarmFacts
    <3>2. Subtree(req[x].uid) \cap Needs(w) = {}
      BY <3>1 DEF Conflict
    <3> QED BY <1>0, <1>1, <2>2, <3>1, <3>2
  <2>3. CASE x = w
    <3>1. v \in Active /\ ~Conflict(v, w)
      BY <1>0, <1>1, <2>3, HarmFacts
    <3>2. Subtree(req[w].uid) \cap Needs(v) = {}
      BY <3>1 DEF Conflict
    <3> QED BY <1>0, <1>1, <2>3, <3>1, <3>2
  <2> QED BY <2>1, <2>2, <2>3
<1>3. CrossedDown'
  <2> SUFFICES ASSUME NEW x \in Active', req[x].uid \in crossed'
               PROVE  Subtree(req[x].uid) \subseteq crossed'
    <3>1. \A x \in Active' : Reach(req'[x].uid, Links(there)') = Subtree(req[x].uid)
      BY <1>0, <1>1
    <3> QED BY <1>0, <3>1 DEF CrossedDown, Subtree
  <2> DEFINE u == req[x].uid
  <2>0. u \in Objects
    BY <1>0, <1>1
  <2>1. CASE u \in crossed
    <3>1. CASE x = w
      <4>1. u \in Harm(w)
        BY <2>1, <3>1, HarmFacts DEF Excused
      <4> QED BY <2>0, <4>1, HarmFacts
    <3>2. CASE x # w
      BY <1>0, <1>1, <2>0, <2>1, <3>2 DEF CrossedDown
    <3> QED BY <3>1, <3>2
  <2>2. CASE u \notin crossed
    <3>1. PICK h \in Harm(w) : u \in Subtree(h)
      BY <2>0, <2>2, HarmFacts
    <3>2. Subtree(u) \subseteq Subtree(h) /\ Subtree(h) \subseteq crossed'
      BY <3>1, HarmFacts, SubtreeIs
    <3> QED BY <2>0, <3>2
  <2> QED BY <2>1, <2>2
<1> QED BY <1>2, <1>3

\* A loop that grows another request's subtree belongs to a conflict.
LEMMA GrowsCrossed ==
    ASSUME Base, Sep, CrossedDown, NEW w \in Workers, LoopTurn(w), NEW x \in Active, x # w,
           loop[w].on \in Subtree(req[x].uid)
    PROVE  req[w].uid \in crossed /\ Subtree(req[w].uid) \subseteq crossed
<1>1. pc[w] \in Shaky
  BY DEF LoopTurn
<1>2. w \in Active /\ loop[w].on \in Touches(w)
  BY <1>1, LoopWhere DEF Touches
<1>3. req[w].uid \in crossed
  BY <1>2 DEF Sep
<1> QED BY <1>2, <1>3 DEF CrossedDown

\* Another step brings nothing together.
LEMMA SepLater ==
    ASSUME Base, Base', Sep, CrossedDown, NEW w \in Workers, Later(w)
    PROVE  Sep' /\ CrossedDown'
<1>0. /\ \A v \in Active' : v \in Active /\ req'[v] = req[v] /\ src'[v] = src[v]
      /\ crossed' = crossed
  BY DEF Later, Active
<1>1. \A v \in Active' : Touches(v)' = Touches(v)
  BY <1>0 DEF Touches
<1>2. \A v \in Active : req[v].uid \in Objects
  BY ActiveAt
<1>3. ASSUME NEW x \in Active'
      PROVE  \/ Reach(req[x].uid, Links(there)') \subseteq Subtree(req[x].uid)
             \/ /\ w \in Active /\ x # w /\ req[w].uid \in crossed
                /\ Subtree(req[w].uid) \subseteq crossed
                /\ Reach(req[x].uid, Links(there)') \subseteq Subtree(req[x].uid) \cup Subtree(req[w].uid)
  <2> DEFINE u == req[x].uid
  <2>1. u \in Objects /\ x \in Active
    BY <1>0, <1>2
  <2>2. SUFFICES ASSUME ~(Reach(u, Links(there)') \subseteq Subtree(u))
                 PROVE  /\ w \in Active /\ x # w /\ req[w].uid \in crossed
                        /\ Subtree(req[w].uid) \subseteq crossed
                        /\ Reach(u, Links(there)') \subseteq Subtree(u) \cup Subtree(req[w].uid)
    OBVIOUS
  <2>3. /\ LoopTurn(w) /\ loop[w].on \in Subtree(u)
        /\ Reach(u, Links(there)') \subseteq Subtree(u) \cup Subtree(req[w].uid)
    <3> HIDE DEF u
    <3> QED BY <2>1, <2>2, Grows
  <2>4. x # w
    BY <2>2, <2>3
  <2>5. pc[w] \in Shaky
    BY <2>3 DEF LoopTurn
  <2> QED BY <2>1, <2>3, <2>4, <2>5, LoopWhere, GrowsCrossed
<1>4. Sep'
  <2> SUFFICES ASSUME NEW v \in Active', NEW x \in Active', v # x, req[v].uid \notin crossed
               PROVE  Reach(req[x].uid, Links(there)') \cap Touches(v) = {}
    BY <1>0, <1>1 DEF Sep, Subtree
  <2>1. v \in Active /\ x \in Active /\ Subtree(req[x].uid) \cap Touches(v) = {}
    BY <1>0 DEF Sep
  <2>2. CASE Reach(req[x].uid, Links(there)') \subseteq Subtree(req[x].uid)
    BY <2>1, <2>2
  <2>3. CASE /\ w \in Active /\ x # w /\ req[w].uid \in crossed
             /\ Subtree(req[w].uid) \subseteq crossed
             /\ Reach(req[x].uid, Links(there)') \subseteq Subtree(req[x].uid) \cup Subtree(req[w].uid)
    <3>1. v # w
      BY <2>3
    <3>2. Subtree(req[w].uid) \cap Touches(v) = {}
      BY <2>1, <2>3, <3>1 DEF Sep
    <3> QED BY <2>1, <2>3, <3>2
  <2> QED BY <1>3, <2>2, <2>3
<1>5. CrossedDown'
  <2> SUFFICES ASSUME NEW x \in Active', req[x].uid \in crossed
               PROVE  Reach(req[x].uid, Links(there)') \subseteq crossed
    BY <1>0 DEF CrossedDown, Subtree
  <2>1. x \in Active /\ Subtree(req[x].uid) \subseteq crossed
    BY <1>0 DEF CrossedDown
  <2> QED BY <1>3, <2>1
<1> QED BY <1>4, <1>5

-----------------------------------------------------------------------------
(* Objects that are not there yet. *)

\* What the steps that commit nothing write.
LEMMA EndsWrite ==
    ASSUME Base, NEW w \in Workers, Ends(w)
    PROVE  /\ Alone(w) /\ (gone' = gone \/ Unlinks(w))
           /\ \/ parent' = parent
              \/ pc[w] \in Moving /\ parent' = [parent EXCEPT ![req[w].uid] = req[w].dir]
              \/ \E o \in Objects : parent' = [parent EXCEPT ![o] = Nil]
           /\ \A d \in Lists : list'[d] = list[d] \/ list'[d] = Nil \/ (pc[w] \in Shaky /\ d = loop[w].on)
           /\ pc'[w] \in Early => pc[w] \in Early \/ pc[w] = "idle"
           /\ req'[w] = req[w] \/ pc[w] = "idle"
<1>1. CASE Still(w)
  BY <1>1 DEF Still, Early
<1>2. CASE Turn(w)
  BY <1>2 DEF Turn, Early, Moving
<1>3. CASE LoopTurn(w)
  BY <1>3 DEF LoopTurn, Early
<1>4. CASE Renames(w)
  BY <1>4 DEF Renames, Early
<1>5. CASE Unlinks(w)
  BY <1>5 DEF Unlinks, Early
<1>6. ASSUME NEW o \in Objects, Deletes(w, o)
      PROVE  /\ Alone(w) /\ gone' = gone /\ parent' = [parent EXCEPT ![o] = Nil]
             /\ \A d \in Lists : list'[d] = list[d] \/ list'[d] = Nil
             /\ pc'[w] \notin Early /\ req' = req
  <2>1. list \in [Lists -> Seq(Objects) \cup {Nil}]
    BY TypeParts DEF Base, StoreTypes
  <2> QED BY <1>6, <2>1 DEF Deletes, DeleteColumns, Early
<1> QED BY <1>1, <1>2, <1>3, <1>4, <1>5, <1>6 DEF Ends

\* New uids come into use one by one.
LEMMA UnbornStays ==
    ASSUME Base, Base', NEW w \in Workers, Alone(w),
           pc'[w] \in Early => pc[w] \in Early \/ pc[w] = "idle",
           req'[w] = req[w] \/ pc[w] = "idle"
    PROVE  /\ Unborn' \subseteq Unborn /\ Unborn \subseteq Objects
           /\ \A o \in Unborn' : \A v \in Workers :
                 pc'[v] \notin Early /\ pc'[v] # "idle" /\ req'[v].do \in Creates => req'[v].uid # o
<1>1. \A v \in Workers : pc[v] = "idle" <=> req[v] = Nil
  BY BaseAt DEF Fits
<1>2. \A v \in Workers : pc'[v] # "idle" => req'[v] \in Requests
  <2>1. Stages' /\ WorkerTypes'
    BY PartsNext DEF Parts
  <2> QED BY <2>1 DEF Stages, Fits, WorkerTypes
<1>3. ASSUME NEW o \in Unborn' PROVE o \in Unborn /\ \A v \in Workers :
         pc'[v] \notin Early /\ pc'[v] # "idle" /\ req'[v].do \in Creates => req'[v].uid # o
  <2>1. PICK r \in Requests : /\ r.do \in Creates /\ o = r.uid
                              /\ \A v \in Workers : req'[v] = r => pc'[v] \in Early
    BY DEF Unborn
  <2>2. ASSUME NEW v \in Workers, req[v] = r PROVE pc[v] \in Early
    <3>1. pc[v] # "idle"
      BY <1>1, <2>2, RequestTypes
    <3>2. req'[v] = r /\ (pc'[v] \in Early => pc[v] \in Early)
      BY <2>2, <3>1 DEF Alone
    <3> QED BY <2>1, <3>2
  <2>3. ASSUME NEW v \in Workers, pc'[v] \notin Early, pc'[v] # "idle", req'[v].do \in Creates
        PROVE  req'[v].uid # o
    BY <1>2, <2>1, <2>3, NewUidAssumption
  <2> QED BY <2>1, <2>2, <2>3 DEF Unborn
<1>4. Unborn \subseteq Objects
  BY RequestTypes DEF Unborn
<1> QED BY <1>3, <1>4

\* Nothing that leads anywhere leads to an unborn object.
LEMMA UnbornApart ==
    ASSUME Base, Fresh, NEW o \in Unborn, NEW x \in Objects, x # o
    PROVE  o \notin Subtree(x)
<1>1. \A d \in Lists : o \notin Kids(d)
  BY DEF Fresh
<1> QED BY <1>1, SubtreeIs

\* A step that commits nothing uses no new uid.
LEMMA FreshEnds ==
    ASSUME Base, Base', Fresh, NEW w \in Workers, Ends(w)
    PROVE  Fresh'
<1>1. /\ Unborn' \subseteq Unborn /\ Unborn \subseteq Objects
  BY EndsWrite, UnbornStays
<1>2. Later(w)
  BY LaterStep
<1>3. \A v \in Active' : v \in Active /\ req'[v] = req[v] /\ src'[v] = src[v]
  BY <1>2 DEF Later, Active
<1> SUFFICES ASSUME NEW o \in Unborn'
             PROVE  /\ o \notin there' /\ o \notin Excused' /\ o \notin gone' /\ parent'[o] = Nil
                    /\ o \in Lists => list'[o] = Nil
                    /\ \A d \in Lists : o \notin Kids(d)'
                    /\ \A x \in Objects : parent'[x] # o
                    /\ \A v \in Active' : /\ req'[v].uid # o /\ src'[v] # o
                                          /\ pc'[v] \in Placing => req'[v].dir # o
  BY DEF Fresh
<1>4. /\ o \in Objects /\ o # Nil /\ o \notin there /\ o \notin Excused /\ o \notin gone /\ parent[o] = Nil
      /\ o \in Lists => list[o] = Nil
      /\ \A d \in Lists : o \notin Kids(d)
      /\ \A x \in Objects : parent[x] # o
      /\ \A v \in Active : /\ req[v].uid # o /\ src[v] # o
                           /\ pc[v] \in Placing => req[v].dir # o
  BY <1>1, DriveAssumption DEF Fresh
<1>5. o \notin there' /\ o \notin Excused'
  BY <1>2, <1>4 DEF Later, Excused
<1>6. o \notin gone'
  <2>1. CASE Unlinks(w)
    <3>1. gone' = gone \cup Subtree(req[w].uid) /\ w \in Active
      BY <2>1 DEF Unlinks, Active, Shaky
    <3>2. o \notin Subtree(req[w].uid)
      BY <1>1, <1>4, <3>1, ActiveAt, UnbornApart
    <3> QED BY <1>4, <3>1, <3>2
  <2> QED BY <1>4, <2>1, EndsWrite
<1>7. parent'[o] = Nil /\ \A x \in Objects : parent'[x] # o
  <2>1. parent \in [Objects -> Objects \cup {Nil}]
    BY TypeParts DEF Base, StoreTypes
  <2>2. CASE pc[w] \in Moving /\ parent' = [parent EXCEPT ![req[w].uid] = req[w].dir]
    <3>1. w \in Active /\ pc[w] \in Placing
      BY <2>2 DEF Active, Moving, Placing, Shaky
    <3> QED BY <1>4, <2>1, <2>2, <3>1
  <2>3. CASE \E x \in Objects : parent' = [parent EXCEPT ![x] = Nil]
    BY <1>4, <2>1, <2>3
  <2> QED BY <1>4, <2>2, <2>3, EndsWrite
<1>8. o \in Lists => list'[o] = Nil
  <2>1. ASSUME pc[w] \in Shaky PROVE o # loop[w].on
    BY <1>4, <2>1, LoopWhere
  <2> QED BY <1>4, <2>1, EndsWrite
<1>9. \A d \in Lists : o \notin Kids(d)'
  <2>1. ASSUME LoopTurn(w) PROVE req[w].uid # o
    BY <1>4, <2>1, LoopWhere DEF LoopTurn
  <2> QED BY <1>2, <1>4, <2>1 DEF Later, Appends
<1>10. ASSUME NEW v \in Active'
       PROVE  /\ req'[v].uid # o /\ src'[v] # o
              /\ pc'[v] \in Placing => req'[v].dir # o
  <2>1. v \in Active /\ v \in Workers
    BY <1>3 DEF Active
  <2>2. req'[v].uid # o /\ src'[v] # o
    BY <1>3, <1>4, <2>1
  <2>3. CASE pc'[v] \in Placing /\ pc[v] \notin Placing
    <3>1. v = w
      BY <2>1, <2>3, EndsWrite DEF Alone
    <3>2. FALSE
      BY <2>1, <2>3, <3>1 DEF Ends, Still, Turn, LoopTurn, Renames, Unlinks, Deletes, Placing, Moving, Shaky, Active
    <3> QED BY <3>2
  <2> QED BY <1>3, <1>4, <2>1, <2>2, <2>3
<1> QED BY <1>4, <1>5, <1>6, <1>7, <1>8, <1>9, <1>10

\* A commit uses up the uid of its new object, and no other.
LEMMA FreshCommits ==
    ASSUME Base, Base', Fresh, NEW w \in Workers, Commits(w)
    PROVE  Fresh'
<1>0. /\ Alone(w) /\ pc[w] \in Early /\ pc'[w] \in {"linking", "renaming", "taking", "unlinking"}
      /\ req' = req /\ gone' = gone /\ src'[w] = parent[req[w].uid]
      /\ stranded' \in {stranded, stranded \cup {req[w].uid}}
  BY DEF Commits
<1>1. /\ w \notin Active /\ w \in Active' /\ req[w] \in Requests /\ req[w].uid \in Objects
      /\ \A v \in Workers \ {w} : (v \in Active' <=> v \in Active) /\ src'[v] = src[v]
      /\ \A d \in Lists : Kids(d)' = Kids(d)
  BY CommitFacts
<1>2. /\ Unborn' \subseteq Unborn /\ Unborn \subseteq Objects
      /\ \A o \in Unborn' : \A v \in Workers :
            pc'[v] \notin Early /\ pc'[v] # "idle" /\ req'[v].do \in Creates => req'[v].uid # o
  BY <1>0, UnbornStays
<1> SUFFICES ASSUME NEW o \in Unborn'
             PROVE  /\ o \notin there' /\ o \notin Excused' /\ o \notin gone' /\ parent'[o] = Nil
                    /\ o \in Lists => list'[o] = Nil
                    /\ \A d \in Lists : o \notin Kids(d)'
                    /\ \A x \in Objects : parent'[x] # o
                    /\ \A v \in Active' : /\ req'[v].uid # o /\ src'[v] # o
                                          /\ pc'[v] \in Placing => req'[v].dir # o
  BY DEF Fresh
<1>4. /\ o \in Objects /\ o # Nil /\ o \notin there /\ o \notin Excused /\ o \notin gone /\ parent[o] = Nil
      /\ o \in Lists => list[o] = Nil
      /\ \A d \in Lists : o \notin Kids(d)
      /\ \A x \in Objects : parent[x] # o
      /\ \A v \in Active : /\ req[v].uid # o /\ src[v] # o
                           /\ pc[v] \in Placing => req[v].dir # o
  BY <1>2, DriveAssumption DEF Fresh
<1>5. o # req[w].uid
  <2>1. CASE pc'[w] = "linking"
    <3>1. req'[w].do \in Creates
      <4>1. Stages'
        BY DEF Base
      <4> QED BY <2>1, <4>1 DEF Stages, Fits, DoAt
    <3> QED BY <1>0, <1>2, <2>1, <3>1 DEF Early
  <2>2. CASE pc'[w] # "linking"
    BY <1>0, <1>4, <2>2 DEF Commits, Found
  <2> QED BY <2>1, <2>2
<1>6. /\ o \notin there' /\ parent'[o] = Nil /\ (o \in Lists => list'[o] = Nil)
      /\ \A x \in Objects : parent'[x] # o
      /\ pc'[w] \in Placing => req[w].dir # o
  <2>1. parent \in [Objects -> Objects \cup {Nil}] /\ list \in [Lists -> Seq(Objects) \cup {Nil}]
    BY TypeParts DEF Base, StoreTypes
  <2>2. CASE pc'[w] = "linking"
    <3>1. /\ req[w].dir \in Found /\ there' = there \cup {req[w].uid}
          /\ parent' = [parent EXCEPT ![req[w].uid] = req[w].dir]
          /\ list' = IF req[w].uid \in Lists THEN [list EXCEPT ![req[w].uid] = <<>>] ELSE list
      BY <2>2 DEF Commits
    <3>2. req[w].dir # o
      BY <1>4, <3>1 DEF Found
    <3> QED BY <1>4, <1>5, <2>1, <3>1, <3>2
  <2>3. CASE pc'[w] # "linking"
    <3>1. UNCHANGED <<there, parent, list>> /\ (pc'[w] = "taking" => req[w].dir \in Found)
      BY <1>0, <2>3 DEF Commits
    <3> QED BY <1>0, <1>4, <2>3, <3>1 DEF Found, Placing, Moving
  <2> QED BY <2>2, <2>3
<1>7. o \notin Excused'
  <2>1. o \notin Harm(w)
    BY <1>4, <1>5 DEF Harm, Clashing
  <2>2. \A h \in Harm(w) : o \notin Subtree(h)
    BY <1>2, <2>1, HarmFacts, UnbornApart
  <2>3. o \notin crossed'
    BY <1>4, <2>2, HarmFacts DEF Excused
  <2> QED BY <1>0, <1>4, <1>5, <2>3 DEF Excused
<1>8. ASSUME NEW v \in Active'
       PROVE  /\ req'[v].uid # o /\ src'[v] # o
              /\ pc'[v] \in Placing => req'[v].dir # o
  <2>1. v \in Workers
    BY DEF Active
  <2>2. CASE v = w
    BY <1>0, <1>1, <1>4, <1>5, <1>6, <2>2
  <2>3. CASE v # w
    BY <1>0, <1>1, <1>4, <2>1, <2>3 DEF Alone
  <2> QED BY <2>2, <2>3
<1> QED BY <1>0, <1>1, <1>4, <1>6, <1>7, <1>8

-----------------------------------------------------------------------------
(* The order that the tree keeps, but for excused objects. *)

RootKept == Root \in there /\ Root \notin gone /\ \A d \in Lists : Root \notin Kids(d)

\* What was deleted is in nothing but what was deleted, and the reverse.
GoneUp == \A o \in gone \ Excused : \A d \in Lists : o \in Kids(d) => d \in gone \ Excused
GoneDown == \A d \in gone \cap Lists : Kids(d) \subseteq gone \cup Excused

\* A folder without columns that has children got them from requests in conflict, and
\* so has a folder that is not linked yet.
LostFolders == \A d \in Lists \ there : Kids(d) \subseteq Excused
LostLoops ==
    \A w \in Workers : loop[w].st = "write" /\ ~loop[w].found =>
        loop[w].on \notin there /\ req[w].uid \in Excused
NewFolders ==
    \A w \in Workers : pc[w] = "linking" =>
        /\ req[w].dir # req[w].uid
        /\ \A d \in Lists : d = req[w].uid => Kids(d) \subseteq Excused

\* Excused objects of a subtree that is to be deleted hold excused objects only.
DeleteClosed ==
    \A w \in Workers : pc[w] = "unlinking" =>
        \A e \in Subtree(req[w].uid) \cap Excused : Kids(e) \subseteq Excused

\* A request that is in no conflict works on folders that are there.
Ready ==
    \A w \in Active : req[w].uid \notin crossed =>
        /\ Touches(w) \cap gone = {}
        /\ pc[w] \in Placing => req[w].dir \in there
        /\ src[w] \in there \cup {Nil}

NodesGone == \A w \in Workers : nodes[w] \subseteq gone

\* An object is in one folder, the one that its parent column names, except while a
\* request moves it: then it is in the folder of the loop or in none.
Shakes(o) == {w \in Workers : pc[w] \in Shaky /\ req[w].uid = o}
HomeAt(w) == IF pc[w] = "linking" THEN req[w].dir ELSE src[w]
Held(w) ==
    /\ req[w].uid \in there /\ parent[req[w].uid] = HomeAt(w)
    /\ \A d \in Lists : req[w].uid \in Kids(d) => d = loop[w].on
    /\ \A d \in Lists : d = loop[w].on /\ loop[w].st = "yes" =>
          /\ loop[w].kind = "append" => req[w].uid \in Kids(d)
          /\ loop[w].kind = "take" => req[w].uid \notin Kids(d)
HomeOf(o) ==
    /\ o \in there \ {Root} /\ Shakes(o) = {} => \A d \in Lists : o \in Kids(d) <=> d = parent[o]
    /\ o \notin there => \A d \in Lists : o \notin Kids(d)
    /\ \A w \in Shakes(o) : Held(w)
    /\ \A w \in Workers : pc[w] = "renaming" /\ req[w].uid = o => parent[o] = src[w]
Homes == \A o \in Objects \ (Excused \cup gone) : HomeOf(o)
OneHome == \A o \in Objects \ Excused : \A d, e \in Lists : o \in Kids(d) /\ o \in Kids(e) => d = e

Apart == Base /\ Fresh /\ Sep /\ CrossedDown
Lost == LostFolders /\ LostLoops /\ NewFolders
Gone == RootKept /\ GoneUp /\ GoneDown /\ NodesGone /\ DeleteClosed /\ Ready
Ordered == Apart /\ Lost /\ Gone /\ Homes /\ OneHome

\* No path leads to what was deleted.
LEMMA GoneListed ==
    ASSUME Base, RootKept, GoneUp
    PROVE  Listed \cap gone \subseteq Excused
<1> DEFINE T == Objects \ (gone \ Excused)
<1>1. LinksOK /\ Root \in Objects
  BY LinksNow, DriveAssumption
<1>2. Root \in T
  BY <1>1 DEF RootKept
<1>3. ASSUME NEW x \in T \cap Objects PROVE Links(there)[x] \subseteq T
  <2>1. ASSUME NEW y \in Kids(x), y \in gone \ Excused PROVE FALSE
    <3>1. x \in Lists
      BY DEF Kids
    <3> QED BY <2>1, <3>1 DEF GoneUp
  <2> QED BY <1>1, <2>1 DEF LinksOK
<1>4. Subtree(Root) \subseteq T
  <2> HIDE DEF T
  <2> QED BY <1>1, <1>2, <1>3, ReachLeast DEF LinksOK, Subtree
<1> QED BY <1>4 DEF Listed

\* What an object that a path leads to is in.
LEMMA ListedHolder ==
    ASSUME Base, NEW o \in Listed, o # Root
    PROVE  o \in Objects /\ \E y \in Listed \cap there \cap Lists : o \in Kids(y)
<1>1. Root \in Objects
  BY DriveAssumption
<1> QED BY <1>1, SubtreeIs DEF Listed

\* Two requests about the same object are in conflict.
LEMMA OneOwner ==
    ASSUME Base, Sep, NEW v \in Active, NEW w \in Active, v # w, req[v].uid \notin crossed
    PROVE  req[w].uid # req[v].uid
<1>1. req[w].uid \in Subtree(req[w].uid)
  BY ActiveAt, SubtreeIs
<1> QED BY <1>1 DEF Sep, Touches

\* A loop on a folder that is not there, or deleted, belongs to a conflict.
LEMMA OnReady ==
    ASSUME Base, Ready, NEW w \in Workers, pc[w] \in Shaky, loop[w].on \notin there \/ loop[w].on \in gone
    PROVE  req[w].uid \in crossed /\ req[w].uid \in Excused
<1>1. /\ w \in Active /\ loop[w].on \in Lists /\ loop[w].on # Nil /\ loop[w].on \in Touches(w)
      /\ \/ loop[w].on = req[w].dir /\ pc[w] \in Placing
         \/ loop[w].on = src[w]
  BY LoopWhere, DriveAssumption DEF Touches
<1>2. req[w].uid \in crossed
  BY <1>1 DEF Ready
<1> QED BY <1>2 DEF Excused

\* The excused objects only grow, and by an object of no conflict.
LEMMA ExcusedLater ==
    ASSUME NEW w \in Workers, Later(w)
    PROVE  /\ Excused \subseteq Excused' /\ Excused' \subseteq Excused \cup {req[w].uid}
           /\ Excused' # Excused => w \in Active /\ req[w].uid \notin crossed /\ req[w].uid \notin Excused
  BY DEF Later, Excused

\* The children of a folder change in a loop on it or with its columns.
LEMMA KidsLater ==
    ASSUME Base, Ready, NEW w \in Workers, Later(w), NEW d \in Lists, NEW o \in Kids(d)', o \notin Kids(d)
    PROVE  /\ LoopTurn(w) /\ o = req[w].uid /\ d = loop[w].on /\ pc[w] \in Shaky /\ w \in Active
           /\ o \in Objects /\ o # Root /\ loop[w].kind = "append"
           /\ d \notin there \/ d \in gone => o \in Excused
<1>1. Appends(w, d) /\ o = req[w].uid
  BY DEF Later
<1>2. LoopTurn(w) /\ d = loop[w].on /\ pc[w] \in Shaky /\ loop[w].kind = "append"
  BY <1>1 DEF Appends, LoopTurn
<1>3. w \in Active
  BY <1>2 DEF Active
<1> QED BY <1>1, <1>2, <1>3, OnReady, ActiveAt

\* The root is not deleted, and what is deleted is gone.
LEMMA RootEnds ==
    ASSUME Ordered, Base', NEW w \in Workers, Ends(w)
    PROVE  RootKept' /\ NodesGone'
<1>0. Base /\ Ready /\ RootKept /\ NodesGone
  BY DEF Ordered, Apart, Gone
<1>1. Later(w)
  BY <1>0, LaterStep
<1>2. ASSUME NEW d \in Lists PROVE Root \notin Kids(d)'
  BY <1>0, <1>1, KidsLater DEF RootKept
<1>3. Root \notin gone'
  <2>1. CASE gone' = gone
    BY <1>0, <2>1 DEF RootKept
  <2>2. CASE Unlinks(w)
    <3>1. gone' = gone \cup Subtree(req[w].uid) /\ w \in Active
      BY <2>2 DEF Unlinks, Active, Shaky
    <3>2. Root \notin Subtree(req[w].uid)
      BY <1>0, <3>1, ActiveAt, SubtreeIs DEF RootKept
    <3> QED BY <1>0, <3>1, <3>2 DEF RootKept
  <2> QED BY <1>0, <2>1, <2>2, EndsWrite
<1>4. Root \in there'
  <2>1. ASSUME NEW o \in Objects, Deletes(w, o) PROVE Root \in there'
    <3>1. there' = there \ {o}
      BY <2>1 DEF Deletes, DeleteColumns
    <3>2. CASE pc[w] = "linking" /\ o = req[w].uid
      <4>1. w \in Active
        BY <3>2 DEF Active, Shaky
      <4> QED BY <1>0, <3>1, <3>2, <4>1, ActiveAt DEF RootKept
    <3>3. CASE o \in nodes[w]
      BY <1>0, <3>1, <3>3 DEF RootKept, NodesGone
    <3> QED BY <2>1, <3>2, <3>3 DEF Deletes
  <2>2. CASE there' = there
    BY <1>0, <2>2 DEF RootKept
  <2> QED BY <2>1, <2>2 DEF Ends, Still, Turn, LoopTurn, Renames, Unlinks
<1>5. NodesGone'
  <2>1. Alone(w) /\ gone \subseteq gone'
    BY <1>1 DEF Later
  <2>2. nodes'[w] \subseteq gone'
    <3>1. CASE nodes'[w] \subseteq nodes[w]
      BY <1>0, <2>1, <3>1 DEF NodesGone
    <3>2. CASE Unlinks(w)
      BY <3>2 DEF Unlinks
    <3>3. nodes'[w] \subseteq nodes[w] \/ Unlinks(w)
      BY DEF Ends, Still, Turn, LoopTurn, Renames, Deletes
    <3> QED BY <3>1, <3>2, <3>3
  <2> QED BY <1>0, <2>1, <2>2 DEF NodesGone, Alone
<1> QED BY <1>2, <1>3, <1>4, <1>5 DEF RootKept

\* Columns disappear in one place.
LEMMA ThereLater ==
    ASSUME Base, NEW w \in Workers, Ends(w), NEW o \in there, o \notin there'
    PROVE  o \in Objects /\ Deletes(w, o) /\ Kids(o)' = {}
<1>1. PICK x \in Objects : Deletes(w, x)
  BY DEF Ends, Still, Turn, LoopTurn, Renames, Unlinks
<1>2. x = o
  BY <1>1 DEF Deletes, DeleteColumns
<1>3. DeleteColumns(x)
  BY <1>1 DEF Deletes
<1>4. Kids(x)' = {}
  BY <1>3, DeleteKids
<1>5. o \in Objects /\ Deletes(w, o)
  BY <1>1, <1>2
<1>6. Kids(o)' = {}
  BY <1>2, <1>4
<1> QED BY <1>5, <1>6

\* The request of w at the labels it does not leave.
LEMMA SameLabel ==
    ASSUME Base, NEW w \in Workers, Ends(w), NEW v \in Workers, pc'[v] \in {"linking", "unlinking"}
    PROVE  pc[v] = pc'[v] /\ v \in Active' /\ v \in Active /\ req'[v] = req[v] /\ src'[v] = src[v]
<1>1. Alone(w)
  BY EndsWrite
<1>2. pc[v] = pc'[v]
  <2>1. CASE v # w
    BY <1>1, <2>1 DEF Alone
  <2>2. CASE v = w
    BY <2>2 DEF Ends, Still, Turn, LoopTurn, Renames, Unlinks, Deletes
  <2> QED BY <2>1, <2>2
<1>3. v \in Active'
  BY DEF Active, Shaky
<1>4. Later(w)
  BY LaterStep
<1> QED BY <1>2, <1>3, <1>4 DEF Later

\* Folders without columns get no children, but excused ones.
LEMMA LostEnds ==
    ASSUME Ordered, Base', NEW w \in Workers, Ends(w)
    PROVE  Lost'
<1>0. Base /\ Ready /\ LostFolders /\ LostLoops /\ NewFolders /\ Sep /\ CrossedDown
  BY DEF Ordered, Apart, Gone, Lost
<1>1. Later(w) /\ Excused \subseteq Excused' /\ Alone(w) /\ there' \subseteq there
  BY <1>0, LaterStep, ExcusedLater DEF Later
<1>2. LostFolders'
  <2> SUFFICES ASSUME NEW d \in Lists, d \notin there', NEW o \in Kids(d)' PROVE o \in Excused'
    BY DEF LostFolders
  <2>1. CASE d \in there
    BY <1>0, <2>1, ThereLater
  <2>2. CASE d \notin there
    BY <1>0, <1>1, <2>2, KidsLater DEF LostFolders
  <2> QED BY <2>1, <2>2
<1>3. LostLoops'
  <2> SUFFICES ASSUME NEW v \in Workers, loop'[v].st = "write", ~loop'[v].found
               PROVE  loop'[v].on \notin there' /\ req'[v].uid \in Excused'
    BY DEF LostLoops
  <2>1. CASE loop'[v] = loop[v] /\ req'[v] = req[v]
    BY <1>0, <1>1, <2>1 DEF LostLoops
  <2>2. CASE LoopTurn(w) /\ v = w
    <3>1. /\ list[loop[w].on] = Nil /\ loop'[w].on = loop[w].on /\ req' = req /\ pc[w] \in Shaky
          /\ loop[w].on \in Lists
      BY <2>2 DEF LoopTurn
    <3>2. loop[w].on \notin there
      BY <1>0, <3>1 DEF Base, Columns
    <3> QED BY <1>0, <1>1, <2>2, <3>1, <3>2, OnReady
  <2>3. CASE v # w
    BY <1>1, <2>1, <2>3 DEF Alone
  <2>4. CASE v = w /\ ~LoopTurn(w)
    <3>1. NoLoop.st = "off" /\ (pc[w] \notin Shaky => loop[w] = NoLoop)
      BY <1>0, NoLoopType, BaseAt
    <3>2. pc[w] = "idle" => pc[w] \notin Shaky
      BY DEF Shaky
    <3>3. CASE Still(w)
      BY <2>1, <2>4, <3>1, <3>2, <3>3 DEF Still
    <3>4. CASE Turn(w)
      <4>1. LoopAt(pc'[w], req[w], src[w]).st \in {"off", "read"}
        BY <3>1 DEF LoopAt, NoLoop
      <4> QED BY <2>4, <3>4, <4>1 DEF Turn
    <3>5. CASE Renames(w)
      BY <2>1, <2>4, <3>5 DEF Renames
    <3>6. CASE Unlinks(w)
      BY <2>4, <3>1, <3>6 DEF Unlinks
    <3>7. ASSUME NEW o \in Objects, Deletes(w, o) PROVE loop'[w] = NoLoop \/ (loop' = loop /\ req' = req)
      BY <3>7 DEF Deletes
    <3> QED BY <2>1, <2>4, <3>1, <3>3, <3>4, <3>5, <3>6, <3>7 DEF Ends
  <2> QED BY <2>2, <2>3, <2>4
<1>4. NewFolders'
  <2> SUFFICES ASSUME NEW v \in Workers, pc'[v] = "linking"
               PROVE  /\ req'[v].dir # req'[v].uid
                      /\ \A d \in Lists : d = req'[v].uid => Kids(d)' \subseteq Excused'
    BY DEF NewFolders
  <2>1. pc[v] = "linking" /\ v \in Active /\ req'[v] = req[v]
    BY <1>0, SameLabel
  <2>2. /\ req[v].dir # req[v].uid
        /\ \A d \in Lists : d = req[v].uid => Kids(d) \subseteq Excused
    BY <1>0, <2>1 DEF NewFolders
  <2>3. ASSUME NEW d \in Lists, d = req[v].uid, NEW o \in Kids(d)', o \notin Kids(d) PROVE o \in Excused'
    <3>1. LoopTurn(w) /\ o = req[w].uid /\ d = loop[w].on /\ pc[w] \in Shaky
      BY <1>0, <1>1, <2>3, KidsLater
    <3>2. CASE v = w
      <4>1. loop[w].on = req[w].dir
        BY <1>0, <2>1, <3>1, <3>2, LoopWhere DEF ListAt
      <4> QED BY <2>2, <2>3, <3>1, <3>2, <4>1
    <3>3. CASE v # w
      <4>1. d \in Subtree(req[v].uid)
        BY <1>0, <2>1, <2>3, ActiveAt, SubtreeIs
      <4> QED BY <1>0, <1>1, <2>1, <3>1, <3>3, <4>1, GrowsCrossed DEF Excused
    <3> QED BY <3>2, <3>3
  <2> QED BY <1>1, <2>1, <2>2, <2>3
<1> QED BY <1>2, <1>3, <1>4 DEF Lost

\* What is put into a deleted folder is excused.
LEMMA GoneDownEnds ==
    ASSUME Ordered, Base', NEW w \in Workers, Ends(w)
    PROVE  GoneDown'
<1>0. Base /\ Ready /\ GoneDown /\ LostFolders
  BY DEF Ordered, Apart, Gone, Lost
<1>1. Later(w) /\ Excused \subseteq Excused' /\ gone \subseteq gone'
  BY <1>0, LaterStep, ExcusedLater DEF Later
<1> SUFFICES ASSUME NEW d \in gone' \cap Lists, NEW o \in Kids(d)' PROVE o \in gone' \cup Excused'
  BY DEF GoneDown
<1>2. CASE d \in gone
  BY <1>0, <1>1, <1>2, KidsLater DEF GoneDown
<1>3. CASE d \notin gone
  <2>1. Unlinks(w) /\ gone' = gone \cup Subtree(req[w].uid) /\ w \in Active
    BY <1>0, <1>3, EndsWrite DEF Unlinks, Active, Shaky
  <2>2. req[w].uid \in Objects /\ d \in Subtree(req[w].uid)
    BY <1>0, <1>3, <2>1, ActiveAt
  <2>3. Kids(d)' = Kids(d)
    BY <2>1, SameKids DEF Unlinks
  <2>4. CASE d \in there
    BY <1>0, <2>1, <2>2, <2>3, <2>4, SubtreeIs
  <2>5. CASE d \notin there
    BY <1>0, <1>1, <2>3, <2>5 DEF LostFolders
  <2> QED BY <2>4, <2>5
<1> QED BY <1>2, <1>3

\* What is deleted is put into no other folder.
LEMMA GoneUpEnds ==
    ASSUME Ordered, Base', NEW w \in Workers, Ends(w)
    PROVE  GoneUp'
<1>0. Base /\ Ready /\ GoneUp /\ DeleteClosed /\ Homes /\ OneHome
  BY DEF Ordered, Apart, Gone
<1>1. Later(w) /\ Excused \subseteq Excused' /\ gone \subseteq gone'
      /\ Excused' \subseteq Excused \cup {req[w].uid}
      /\ (Excused' # Excused => w \in Active /\ req[w].uid \notin crossed /\ req[w].uid \notin Excused)
  BY <1>0, LaterStep, ExcusedLater DEF Later
<1> SUFFICES ASSUME NEW o \in gone' \ Excused', NEW d \in Lists, o \in Kids(d)' PROVE d \in gone' \ Excused'
  BY DEF GoneUp
<1>2. CASE o \in gone
  <2>1. w \in Active /\ req[w].uid \in gone => req[w].uid \in crossed
    BY <1>0 DEF Ready, Touches
  <2>2. o \in Kids(d)
    BY <1>0, <1>1, <1>2, <2>1, KidsLater DEF Excused
  <2>3. d \in gone \ Excused
    BY <1>0, <1>1, <1>2, <2>2 DEF GoneUp
  <2> QED BY <1>1, <2>1, <2>3
<1>3. CASE o \notin gone
  <2> DEFINE u == req[w].uid
  <2>1. /\ Unlinks(w) /\ gone' = gone \cup Subtree(u) /\ w \in Active /\ pc[w] = "unlinking"
        /\ loop[w].st = "yes" /\ UNCHANGED <<crossed, stranded>>
    BY <1>0, <1>3, EndsWrite DEF Unlinks, Active, Shaky
  <2>2. u \in Objects /\ o \in Subtree(u) /\ Excused' = Excused /\ Subtree(u) \subseteq Objects
    BY <1>0, <1>3, <2>1, ActiveAt, SubtreeIs DEF Excused
  <2>3. Kids(d)' = Kids(d)
    BY <2>1, SameKids DEF Unlinks
  <2>4. CASE o = u
    <3>1. pc[w] \in Shaky /\ w \in Shakes(u)
      BY <2>1 DEF Shaky, Shakes
    <3>2. Held(w)
      BY <1>0, <1>3, <2>2, <2>4, <3>1 DEF Homes, HomeOf
    <3>3. loop[w].kind = "take"
      BY <1>0, <2>1, <3>1, LoopWhere DEF KindAt
    <3>4. FALSE
      BY <2>1, <2>3, <2>4, <3>2, <3>3 DEF Held
    <3> QED BY <3>4
  <2>5. CASE o # u
    <3>1. PICK y \in Subtree(u) \cap there \cap Lists : o \in Kids(y)
      BY <1>0, <2>2, <2>5, SubtreeIs
    <3>2. y = d
      BY <1>0, <2>2, <2>3, <3>1 DEF OneHome
    <3>3. d \notin Excused
      BY <1>0, <2>1, <2>2, <3>1, <3>2 DEF DeleteClosed
    <3> QED BY <2>1, <2>2, <3>1, <3>2, <3>3
  <2> QED BY <2>4, <2>5
<1> QED BY <1>2, <1>3

\* No folder is deleted that a request without conflict works on.
LEMMA ReadyEnds ==
    ASSUME Ordered, Base', NEW w \in Workers, Ends(w)
    PROVE  Ready'
<1>0. Base /\ Ready /\ Sep /\ NodesGone
  BY DEF Ordered, Apart, Gone
<1>1. Later(w) /\ crossed' = crossed
  BY <1>0, LaterStep DEF Later
<1> SUFFICES ASSUME NEW v \in Active', req'[v].uid \notin crossed'
             PROVE  /\ Touches(v)' \cap gone' = {}
                    /\ pc'[v] \in Placing => req'[v].dir \in there'
                    /\ src'[v] \in there' \cup {Nil}
  BY DEF Ready
<1>2. v \in Active /\ v \in Workers /\ req'[v] = req[v] /\ src'[v] = src[v] /\ Touches(v)' = Touches(v)
  BY <1>1 DEF Later, Active, Touches
<1>3. /\ Touches(v) \cap gone = {} /\ (pc[v] \in Placing => req[v].dir \in there)
      /\ src[v] \in there \cup {Nil}
  BY <1>0, <1>1, <1>2 DEF Ready
<1>4. Touches(v) \cap gone' = {}
  <2>1. CASE Unlinks(w)
    <3>1. gone' = gone \cup Subtree(req[w].uid) /\ w \in Active /\ w \notin Active'
      BY <2>1 DEF Unlinks, Active, Shaky
    <3>2. Subtree(req[w].uid) \cap Touches(v) = {}
      BY <1>0, <1>1, <1>2, <3>1 DEF Sep
    <3> QED BY <1>3, <3>1, <3>2
  <2> QED BY <1>0, <1>3, <2>1, EndsWrite
<1>5. ASSUME NEW o \in Touches(v), o \in there PROVE o \in there'
  <2> SUFFICES ASSUME o \notin there' PROVE FALSE
    OBVIOUS
  <2>1. Deletes(w, o)
    BY <1>0, <1>5, ThereLater
  <2>2. CASE o \in nodes[w]
    BY <1>0, <1>3, <1>5, <2>2 DEF NodesGone
  <2>3. CASE pc[w] = "linking" /\ pc'[w] = "done" /\ o = req[w].uid
    <3>1. w \in Active /\ w \notin Active'
      BY <2>3 DEF Active, Shaky
    <3>2. Subtree(req[w].uid) \cap Touches(v) = {} /\ o \in Subtree(req[w].uid)
      BY <1>0, <1>1, <1>2, <2>3, <3>1, ActiveAt, SubtreeIs DEF Sep
    <3> QED BY <1>5, <3>2
  <2> QED BY <2>1, <2>2, <2>3 DEF Deletes
<1>6. pc'[v] \in Placing => pc[v] \in Placing
  <2>1. CASE v # w
    BY <1>0, <1>2, <2>1, EndsWrite DEF Alone
  <2>2. CASE v = w
    BY <1>2, <2>2 DEF Ends, Still, Turn, LoopTurn, Renames, Unlinks, Deletes, Placing, Moving, Shaky, Active
  <2> QED BY <2>1, <2>2
<1> QED BY <1>2, <1>3, <1>4, <1>5, <1>6 DEF Touches

\* A subtree to be deleted gets no children, but excused ones.
LEMMA DeleteClosedEnds ==
    ASSUME Ordered, Base', NEW w \in Workers, Ends(w)
    PROVE  DeleteClosed'
<1>0. Base /\ Ready /\ Sep /\ CrossedDown /\ DeleteClosed /\ LostFolders
  BY DEF Ordered, Apart, Gone, Lost
<1>1. Later(w) /\ crossed' = crossed /\ Excused \subseteq Excused'
      /\ Excused' \subseteq Excused \cup {req[w].uid}
      /\ (Excused' # Excused => w \in Active /\ req[w].uid \notin crossed /\ req[w].uid \notin Excused)
  BY <1>0, LaterStep, ExcusedLater DEF Later
<1>2. \A d \in Objects \ Lists : Kids(d) = {} /\ Kids(d)' = {}
  BY DEF Kids
<1> SUFFICES ASSUME NEW v \in Workers, pc'[v] = "unlinking",
                    NEW e \in Reach(req[v].uid, Links(there)'), e \in Excused', NEW o \in Kids(e)'
             PROVE  o \in Excused'
  <2>1. \A v \in Workers : pc'[v] = "unlinking" => req'[v] = req[v]
    BY <1>0, SameLabel
  <2> QED BY <2>1 DEF DeleteClosed, Subtree
<1>3. pc[v] = "unlinking" /\ v \in Active
  BY <1>0, SameLabel
<1> DEFINE u == req[v].uid
<1>4. u \in Objects /\ u \in Subtree(u) /\ Subtree(u) \subseteq Objects
  BY <1>0, <1>3, ActiveAt, SubtreeIs
<1>5. ASSUME NEW x \in Subtree(u) PROVE x = req[w].uid => Excused' = Excused
  <2>1. CASE w = v
    <3>1. Excused' = Excused
      BY <1>3, <2>1 DEF Ends, Still, Turn, LoopTurn, Renames, Unlinks, Deletes, Excused
    <3> QED BY <3>1
  <2>2. CASE w # v
    BY <1>0, <1>1, <1>3, <1>5, <2>2 DEF Sep, Touches
  <2> QED BY <2>1, <2>2
<1>6. ASSUME NEW d \in Lists, NEW z \in Kids(d)', z \notin Kids(d), d \in Subtree(u) PROVE z \in Excused
  <2>1. /\ LoopTurn(w) /\ z = req[w].uid /\ d = loop[w].on /\ pc[w] \in Shaky /\ loop[w].kind = "append"
    BY <1>0, <1>1, <1>6, KidsLater
  <2>2. w # v
    BY <1>0, <1>3, <2>1, LoopWhere DEF KindAt
  <2> QED BY <1>0, <1>3, <1>6, <2>1, <2>2, GrowsCrossed DEF Excused
<1>7. CASE e \in Subtree(u)
  <2>1. e \in Excused
    BY <1>1, <1>5, <1>7
  <2>2. Kids(e) \subseteq Excused
    BY <1>0, <1>3, <1>7, <2>1 DEF DeleteClosed
  <2>3. e \in Lists
    BY <1>2, <1>4, <1>7
  <2> QED BY <1>1, <1>6, <1>7, <2>2, <2>3
<1>8. CASE e \notin Subtree(u)
  <2>1. /\ LoopTurn(w) /\ loop[w].on \in Subtree(u) /\ e \in Subtree(req[w].uid)
        /\ loop[w].kind = "append"
    <3> HIDE DEF u
    <3>1. e \in Reach(u, Links(there)')
      BY DEF u
    <3> QED BY <1>0, <1>1, <1>4, <1>8, <3>1, Grows
  <2>2. pc[w] \in Shaky
    BY <2>1 DEF LoopTurn
  <2>3. w # v
    BY <1>0, <1>3, <2>1, <2>2, LoopWhere DEF KindAt
  <2>4. req[w].uid \in crossed /\ Subtree(req[w].uid) \subseteq crossed
    BY <1>0, <1>3, <2>1, <2>3, GrowsCrossed
  <2>5. req[w].uid \in Objects /\ e \in Objects
    BY <1>0, <2>1, <2>2, LoopWhere, SubtreeIs
  <2>6. e \in Lists
    BY <1>2, <2>5
  <2>7. Kids(e) \subseteq Excused
    <3>1. CASE e \in there
      BY <1>0, <2>1, <2>4, <2>5, <3>1, SubtreeIs DEF Excused
    <3>2. CASE e \notin there
      BY <1>0, <2>6, <3>2 DEF LostFolders
    <3> QED BY <3>1, <3>2
  <2>8. Kids(e)' \subseteq Kids(e) \cup {req[w].uid}
    BY <1>1, <2>6 DEF Later
  <2> QED BY <1>1, <2>4, <2>7, <2>8 DEF Excused
<1> QED BY <1>7, <1>8

-----------------------------------------------------------------------------
(* Every object stays in its place. *)

Same(v) == pc'[v] = pc[v] /\ req'[v] = req[v] /\ src'[v] = src[v] /\ loop'[v] = loop[v]

\* An object that the step is not about.
LEMMA HomeKeep ==
    ASSUME NEW o \in Objects, HomeOf(o), o \in there' <=> o \in there, parent'[o] = parent[o],
           \A d \in Lists : o \in Kids(d)' <=> o \in Kids(d),
           \A v \in Workers :
              \/ Same(v)
              \/ /\ ~(pc[v] \in Shaky /\ req[v].uid = o)
                 /\ ~(pc'[v] \in Shaky \cup {"renaming"} /\ req'[v].uid = o)
    PROVE  HomeOf(o)'
<1>1. \A v \in Workers : v \in Shakes(o)' <=> v \in Shakes(o)
  BY DEF Shakes, Same
<1>2. Shakes(o)' = {} <=> Shakes(o) = {}
  BY <1>1 DEF Shakes
<1>3. o \in there' \ {Root} /\ Shakes(o)' = {} => \A d \in Lists : o \in Kids(d)' <=> d = parent'[o]
  BY <1>2 DEF HomeOf
<1>4. o \notin there' => \A d \in Lists : o \notin Kids(d)'
  BY DEF HomeOf
<1>5. ASSUME NEW v \in Shakes(o)' PROVE Held(v)'
  <2>1. v \in Workers /\ v \in Shakes(o) /\ Same(v) /\ req[v].uid = o
    BY <1>1 DEF Shakes
  <2>2. Held(v) /\ HomeAt(v)' = HomeAt(v)
    BY <2>1 DEF HomeOf, HomeAt, Same
  <2> QED BY <2>1, <2>2 DEF Held, Same
<1>6. ASSUME NEW v \in Workers, pc'[v] = "renaming", req'[v].uid = o PROVE parent'[o] = src'[v]
  BY <1>6 DEF Same, HomeOf
<1> QED BY <1>3, <1>4, <1>5, <1>6 DEF HomeOf

\* The object of w, which is no other request's.
LEMMA HomeOwn ==
    ASSUME Base, Sep, NEW w \in Active, Alone(w), req[w].uid \notin crossed,
           pc'[w] # "renaming", req'[w] = req[w],
           NEW o, o = req[w].uid,
           \/ pc'[w] \in Shaky /\ Held(w)'
           \/ /\ pc'[w] \notin Shaky
              /\ o \in there' \ {Root} => \A d \in Lists : o \in Kids(d)' <=> d = parent'[o]
              /\ o \notin there' => \A d \in Lists : o \notin Kids(d)'
    PROVE  HomeOf(o)'
<1>1. ASSUME NEW v \in Workers, v # w, pc'[v] \in Shaky \cup {"renaming"} PROVE req'[v].uid # o
  <2>1. v \in Active /\ req'[v] = req[v]
    BY <1>1 DEF Alone, Active
  <2> QED BY <1>1, <2>1, OneOwner
<1>2. w \in Workers
  BY DEF Active
<1>3. CASE pc'[w] \in Shaky /\ Held(w)'
  <2>1. w \in Shakes(o)' /\ o \in there'
    BY <1>2, <1>3 DEF Shakes, Held
  <2>2. \A v \in Shakes(o)' : v = w
    BY <1>1 DEF Shakes
  <2>3. \A v \in Shakes(o)' : Held(v)'
    BY <1>3, <2>2
  <2>4. \A v \in Workers : pc'[v] = "renaming" => req'[v].uid # o
    BY <1>1
  <2> QED BY <2>1, <2>3, <2>4 DEF HomeOf
<1>4. CASE /\ pc'[w] \notin Shaky
           /\ o \in there' \ {Root} => \A d \in Lists : o \in Kids(d)' <=> d = parent'[o]
           /\ o \notin there' => \A d \in Lists : o \notin Kids(d)'
  <2>1. Shakes(o)' = {}
    BY <1>1, <1>4 DEF Shakes
  <2>2. \A v \in Workers : pc'[v] = "renaming" => req'[v].uid # o
    BY <1>1
  <2> QED BY <1>4, <2>1, <2>2 DEF HomeOf
<1> QED BY <1>3, <1>4

\* A loop on a list keeps each object in its place.
LEMMA HomesLoop ==
    ASSUME Ordered, Base', NEW w \in Workers, LoopTurn(w)
    PROVE  Homes'
<1>0. Base /\ Sep /\ Homes /\ LostFolders /\ LostLoops
  BY DEF Ordered, Apart, Lost
<1>1. /\ Alone(w) /\ pc[w] \in Shaky
      /\ UNCHANGED <<pc, req, src, there, parent, crossed, stranded, gone>>
      /\ \A d \in Lists \ {loop[w].on} : list'[d] = list[d]
      /\ loop'[w].kind = loop[w].kind /\ loop'[w].on = loop[w].on /\ loop[w].on \in Lists
  BY DEF LoopTurn
<1>2. w \in Active /\ req[w].uid \in Objects
  BY <1>0, <1>1, LoopWhere
<1>3. Excused' = Excused
  BY <1>1 DEF Excused
<1>4. \A d \in Lists \ {loop[w].on} : Kids(d)' = Kids(d)
  BY <1>1, SameKids
<1> SUFFICES ASSUME NEW o \in Objects, o \notin Excused, o \notin gone PROVE HomeOf(o)'
  BY <1>1, <1>3 DEF Homes
<1>5. HomeOf(o)
  BY <1>0 DEF Homes
<1>6. CASE o # req[w].uid
  <2>1. ASSUME NEW d \in Lists PROVE o \in Kids(d)' <=> o \in Kids(d)
    <3>1. CASE d # loop[w].on
      BY <1>4, <3>1
    <3>2. CASE d = loop[w].on /\ loop[w].st = "write" /\ ~loop[w].found
      <4>1. Kids(d) \subseteq Excused
        BY <1>0, <3>2 DEF LostLoops, LostFolders
      <4>2. Kids(d)' \subseteq Kids(d) \cup {req[w].uid}
        BY <3>2 DEF LoopTurn
      <4> QED BY <1>6, <4>1, <4>2
    <3>3. CASE d = loop[w].on /\ ~(loop[w].st = "write" /\ ~loop[w].found)
      <4>1. Kids(d)' \subseteq Kids(d) \cup {req[w].uid} /\ Kids(d) \ {req[w].uid} \subseteq Kids(d)'
        BY <3>3 DEF LoopTurn
      <4> QED BY <1>6, <4>1
    <3> QED BY <3>1, <3>2, <3>3
  <2>2. \A v \in Workers :
              \/ Same(v)
              \/ /\ ~(pc[v] \in Shaky /\ req[v].uid = o)
                 /\ ~(pc'[v] \in Shaky \cup {"renaming"} /\ req'[v].uid = o)
    BY <1>1, <1>6 DEF Same, Alone
  <2> QED BY <1>1, <1>5, <2>1, <2>2, HomeKeep
<1>7. CASE o = req[w].uid
  <2>1. Held(w) /\ w \in Shakes(o)
    BY <1>1, <1>5, <1>7 DEF Shakes, HomeOf
  <2>2. HomeAt(w)' = HomeAt(w)
    BY <1>1 DEF HomeAt
  <2>3. ASSUME NEW d \in Lists, o \in Kids(d)' PROVE d = loop[w].on
    BY <1>4, <1>7, <2>1, <2>3 DEF Held
  <2>4. ASSUME NEW d \in Lists, d = loop[w].on, loop'[w].st = "yes"
        PROVE  (loop[w].kind = "append" => o \in Kids(d)') /\ (loop[w].kind = "take" => o \notin Kids(d)')
    BY <1>7, <2>4 DEF LoopTurn
  <2>5. Held(w)'
    BY <1>1, <1>7, <2>1, <2>2, <2>3, <2>4 DEF Held
  <2>6. o \notin crossed /\ pc'[w] # "renaming" /\ pc'[w] \in Shaky
    BY <1>1 DEF Excused, Shaky
  <2> QED BY <1>0, <1>1, <1>2, <1>7, <2>5, <2>6, HomeOwn
<1> QED BY <1>6, <1>7

\* So do the steps of a handler between its loops,
LEMMA HomesTurn ==
    ASSUME Ordered, Base', NEW w \in Workers, Turn(w)
    PROVE  Homes'
<1>0. Base /\ Sep /\ Homes
  BY DEF Ordered, Apart
<1> DEFINE u == req[w].uid
<1>1. /\ Alone(w) /\ pc[w] \in Shaky
      /\ UNCHANGED <<list, there, crossed, gone, req, src>>
      /\ parent' \in {parent, [parent EXCEPT ![u] = req[w].dir]}
      /\ stranded \subseteq stranded'
      /\ loop'[w] = LoopAt(pc'[w], req[w], src[w])
  BY DEF Turn
<1>2. /\ w \in Active /\ u \in Objects /\ req[w] \in Requests /\ loop[w].on \in Lists
      /\ loop[w].on = ListAt(pc[w], req[w], src[w]) /\ loop[w].kind = KindAt(pc[w])
  BY <1>0, <1>1, LoopWhere
<1>3. Excused \subseteq Excused' /\ stranded' \subseteq Excused' /\ crossed \subseteq Excused
  BY <1>1 DEF Excused
<1>4. \A d \in Lists : Kids(d)' = Kids(d)
  BY <1>1, SameKids
<1>5. parent \in [Objects -> Objects \cup {Nil}]
  BY <1>0, PartsNow DEF Parts, StoreTypes
<1> SUFFICES ASSUME NEW o \in Objects, o \notin Excused', o \notin gone PROVE HomeOf(o)'
  BY <1>1 DEF Homes
<1>6. HomeOf(o) /\ o \notin Excused
  BY <1>0, <1>3 DEF Homes
<1>7. CASE o # u
  <2>1. parent'[o] = parent[o]
    BY <1>1, <1>5, <1>7
  <2>2. \A v \in Workers :
              \/ Same(v)
              \/ /\ ~(pc[v] \in Shaky /\ req[v].uid = o)
                 /\ ~(pc'[v] \in Shaky \cup {"renaming"} /\ req'[v].uid = o)
    BY <1>1, <1>7 DEF Same, Alone
  <2> QED BY <1>1, <1>4, <1>6, <2>1, <2>2, HomeKeep
<1>8. CASE o = u
  <2>1. Held(w) /\ w \in Shakes(o)
    BY <1>1, <1>6, <1>8 DEF Shakes, HomeOf
  <2>2. /\ o \in there /\ parent[o] = HomeAt(w)
        /\ \A d \in Lists : o \in Kids(d) => d = loop[w].on
        /\ loop[w].st = "yes" =>
              /\ loop[w].kind = "append" => o \in Kids(loop[w].on)
              /\ loop[w].kind = "take" => o \notin Kids(loop[w].on)
    BY <1>2, <1>8, <2>1 DEF Held
  <2>3. o \notin stranded' /\ o \notin crossed /\ req' = req /\ there' = there
    BY <1>1, <1>3, <1>6
  <2>4. pc'[w] \in Shaky => /\ loop'[w].st = "read" /\ loop'[w].on = ListAt(pc'[w], req[w], src[w])
    <3>1. pc'[w] \in Shaky => ListAt(pc'[w], req[w], src[w]) \in Lists
      <4>1. Stages'
        BY DEF Base
      <4>2. Fits(pc'[w], req[w], loop'[w], src[w], reply'[w])
        BY <1>1, <4>1 DEF Stages
      <4> QED BY <4>2 DEF Fits, ListAt, Shaky, Placing, Homed, Moving
    <3> QED BY <1>1, <1>2, <3>1, LoopAtTypes
  <2>5. ASSUME pc'[w] \in Shaky, pc'[w] # "linking", pc[w] # "linking", parent' = parent,
               \A d \in Lists : o \in Kids(d) => d = ListAt(pc'[w], req[w], src[w])
        PROVE  HomeOf(o)'
    <3>1. HomeAt(w)' = HomeAt(w)
      BY <1>1, <2>5 DEF HomeAt
    <3>2. Held(w)'
      BY <1>1, <1>4, <1>8, <2>2, <2>3, <2>4, <2>5, <3>1 DEF Held
    <3>3. pc'[w] # "renaming"
      BY <2>5 DEF Shaky
    <3> QED BY <1>0, <1>1, <1>2, <1>8, <2>3, <2>5, <3>2, <3>3, HomeOwn
  <2>6. ASSUME pc'[w] \in {"counting", "done"}, NEW h \in Lists, parent'[o] = h, o \in Kids(h), h = loop[w].on
        PROVE  HomeOf(o)'
    <3>1. \A d \in Lists : o \in Kids(d)' <=> d = parent'[o]
      BY <1>4, <2>2, <2>6
    <3>2. pc'[w] # "renaming" /\ pc'[w] \notin Shaky
      BY <2>6 DEF Shaky
    <3> QED BY <1>0, <1>1, <1>2, <1>8, <2>2, <2>3, <3>1, <3>2, HomeOwn
  <2>7. CASE /\ pc[w] = "linking" /\ loop[w].st = "yes" /\ parent' = parent
             /\ pc'[w] \in {"counting", "done"}
    <3>1. HomeAt(w) = loop[w].on /\ loop[w].kind = "append"
      BY <1>2, <2>7 DEF HomeAt, ListAt, KindAt
    <3> QED BY <1>2, <2>2, <2>6, <2>7, <3>1
  <2>8. CASE /\ pc[w] = "taking" /\ loop[w].st = "yes" /\ parent' = parent
             /\ pc'[w] = "putting"
    <3>1. loop[w].kind = "take"
      BY <1>2, <2>8 DEF KindAt
    <3> QED BY <2>2, <2>5, <2>8, <3>1 DEF Shaky
  <2>9. CASE /\ pc[w] = "putting" /\ loop[w].st = "yes"
             /\ parent' = [parent EXCEPT ![u] = req[w].dir]
             /\ pc'[w] = "done"
    <3>1. loop[w].on = req[w].dir /\ loop[w].kind = "append"
      BY <1>2, <2>9 DEF ListAt, KindAt
    <3>2. parent'[o] = req[w].dir
      BY <1>5, <1>8, <2>9
    <3> QED BY <1>2, <2>2, <2>6, <2>9, <3>1, <3>2
  <2>10. CASE /\ pc[w] = "putting" /\ pc'[w] = "dropping" /\ (parent' = parent \/ u \in stranded')
    <3>1. loop[w].on = ListAt("dropping", req[w], src[w])
      BY <1>2, <2>10 DEF ListAt
    <3> QED BY <1>8, <2>2, <2>3, <2>5, <2>10, <3>1 DEF Shaky
  <2>11. CASE /\ pc[w] \in {"putting", "dropping"} /\ pc'[w] = "restoring" /\ parent' = parent
              /\ u \in Kids(req[w].dir) => u \in stranded'
    <3>1. loop[w].on = req[w].dir
      BY <1>2, <2>11 DEF ListAt
    <3> QED BY <1>8, <2>2, <2>3, <2>5, <2>11, <3>1 DEF Shaky
  <2>12. CASE /\ pc[w] \in {"taking", "unlinking", "restoring"} /\ pc'[w] = "done"
              /\ u \notin Kids(src[w]) => u \in stranded'
              /\ parent' = parent
    <3>1. loop[w].on = src[w] /\ HomeAt(w) = src[w]
      BY <1>2, <2>12 DEF ListAt, HomeAt
    <3> QED BY <1>2, <1>8, <2>2, <2>3, <2>6, <2>12, <3>1
  <2>13. CASE u \in stranded'
    BY <1>8, <2>3, <2>13
  <2> QED BY <2>7, <2>8, <2>9, <2>10, <2>11, <2>12, <2>13 DEF Turn
<1> QED BY <1>7, <1>8

\* the deletion of columns,
LEMMA HomesDeletes ==
    ASSUME Ordered, Base', NEW w \in Workers, NEW x \in Objects, Deletes(w, x)
    PROVE  Homes'
<1>0. Base /\ Sep /\ Homes /\ NewFolders /\ GoneDown /\ NodesGone
  BY DEF Ordered, Apart, Lost, Gone
<1>1. /\ Alone(w) /\ UNCHANGED <<crossed, gone, src, req>> /\ DeleteColumns(x)
      /\ there' = there \ {x} /\ parent' = [parent EXCEPT ![x] = Nil]
      /\ stranded \subseteq stranded'
  BY DEF Deletes, DeleteColumns
<1>2. (\A d \in Lists \ {x} : Kids(d)' = Kids(d)) /\ Kids(x)' = {}
  BY <1>0, <1>1, DeleteKids
<1>3. Excused \subseteq Excused' /\ stranded' \subseteq Excused' /\ crossed \subseteq Excused
  BY <1>1 DEF Excused
<1>4. parent \in [Objects -> Objects \cup {Nil}]
  BY <1>0, PartsNow DEF Parts, StoreTypes
<1> SUFFICES ASSUME NEW o \in Objects, o \notin Excused', o \notin gone PROVE HomeOf(o)'
  BY <1>1 DEF Homes
<1>5. HomeOf(o) /\ o \notin Excused
  BY <1>0, <1>3 DEF Homes
<1>6. ASSUME o # x, o \notin Kids(x),
             \A v \in Workers :
              \/ Same(v)
              \/ /\ ~(pc[v] \in Shaky /\ req[v].uid = o)
                 /\ ~(pc'[v] \in Shaky \cup {"renaming"} /\ req'[v].uid = o)
      PROVE  HomeOf(o)'
  <2>1. (o \in there' <=> o \in there) /\ parent'[o] = parent[o]
    BY <1>1, <1>4, <1>6
  <2>2. \A d \in Lists : o \in Kids(d)' <=> o \in Kids(d)
    BY <1>2, <1>6
  <2> QED BY <1>5, <1>6, <2>1, <2>2, HomeKeep
<1>7. CASE pc[w] = "linking" /\ x = req[w].uid
  <2>0. /\ pc'[w] = "done" /\ (x \in Kids(req[w].dir) => x \in stranded')
        /\ pc[w] \in Shaky /\ pc'[w] \notin Shaky /\ pc'[w] # "renaming"
    BY <1>7 DEF Deletes, Shaky
  <2>1. w \in Active /\ loop[w].on = req[w].dir
    BY <1>0, <1>7, <2>0, LoopWhere DEF ListAt
  <2>2. CASE o = x
    <3>1. Held(w)
      BY <1>5, <1>7, <2>0, <2>2 DEF HomeOf, Shakes
    <3>2. \A d \in Lists : o \notin Kids(d)
      BY <1>3, <1>7, <2>0, <2>1, <2>2, <3>1 DEF Held
    <3>3. \A d \in Lists : o \notin Kids(d)'
      BY <1>2, <3>2
    <3>4. o \notin there' /\ o \notin crossed
      BY <1>1, <1>3, <1>5, <2>2
    <3> QED BY <1>0, <1>1, <1>7, <2>0, <2>1, <2>2, <3>3, <3>4, HomeOwn
  <2>3. CASE o # x
    <3>1. o \notin Kids(x)
      <4>1. CASE x \in Lists
        BY <1>0, <1>5, <1>7, <4>1 DEF NewFolders
      <4>2. CASE x \notin Lists
        BY <4>2 DEF Kids
      <4> QED BY <4>1, <4>2
    <3>2. \A v \in Workers :
              \/ Same(v)
              \/ /\ ~(pc[v] \in Shaky /\ req[v].uid = o)
                 /\ ~(pc'[v] \in Shaky \cup {"renaming"} /\ req'[v].uid = o)
      BY <1>1, <1>7, <2>0, <2>3 DEF Same, Alone
    <3> QED BY <1>6, <2>3, <3>1, <3>2
  <2> QED BY <2>2, <2>3
<1>8. CASE x \in nodes[w] /\ pc' = pc /\ loop' = loop
  <2>1. x \in gone
    BY <1>0, <1>8 DEF NodesGone
  <2>2. o \notin Kids(x)
    <3>1. CASE x \in Lists
      BY <1>0, <1>5, <2>1, <3>1 DEF GoneDown
    <3>2. CASE x \notin Lists
      BY <3>2 DEF Kids
    <3> QED BY <3>1, <3>2
  <2>3. \A v \in Workers : Same(v)
    BY <1>1, <1>8 DEF Same
  <2> QED BY <1>6, <2>1, <2>2, <2>3
<1> QED BY <1>7, <1>8 DEF Deletes

\* and all steps that commit nothing.
LEMMA HomesEnds ==
    ASSUME Ordered, Base', NEW w \in Workers, Ends(w)
    PROVE  Homes'
<1>0. Base /\ Homes
  BY DEF Ordered, Apart
<1>1. ASSUME UNCHANGED <<list, there, parent, crossed, stranded>>, gone \subseteq gone',
             \A o \in Objects : o \notin Excused /\ o \notin gone' =>
                \A v \in Workers :
                   \/ Same(v)
                   \/ /\ ~(pc[v] \in Shaky /\ req[v].uid = o)
                      /\ ~(pc'[v] \in Shaky \cup {"renaming"} /\ req'[v].uid = o)
      PROVE  Homes'
  <2>1. \A d \in Lists : Kids(d)' = Kids(d)
    BY <1>1, SameKids
  <2>2. Excused' = Excused
    BY <1>1 DEF Excused
  <2> SUFFICES ASSUME NEW o \in Objects, o \notin Excused, o \notin gone' PROVE HomeOf(o)'
    BY <2>2 DEF Homes
  <2>3. HomeOf(o)
    BY <1>0, <1>1 DEF Homes
  <2> QED BY <1>1, <2>1, <2>3, HomeKeep
<1>2. CASE Still(w)
  <2>1. CASE Same(w)
    <3>1. \A v \in Workers : Same(v)
      BY <1>2, <2>1 DEF Still, Alone, Same
    <3> QED BY <1>1, <1>2, <3>1 DEF Still
  <2>2. CASE ~Same(w)
    <3>1. pc[w] \notin Shaky /\ pc'[w] \notin Shaky \cup {"renaming"}
      <4>1. pc[w] \in Shaky => pc[w] # "idle"
        BY DEF Shaky
      <4> QED BY <1>2, <2>2, <4>1 DEF Still, Same, Shaky
    <3>2. \A v \in Workers : Same(v) \/ v = w
      BY <1>2 DEF Still, Alone, Same
    <3> QED BY <1>1, <1>2, <3>1, <3>2 DEF Still
  <2> QED BY <2>1, <2>2
<1>3. CASE Turn(w)
  BY <1>3, HomesTurn
<1>4. CASE LoopTurn(w)
  BY <1>4, HomesLoop
<1>5. CASE Renames(w)
  <2>1. pc[w] \notin Shaky /\ pc'[w] \notin Shaky \cup {"renaming"}
    BY <1>5 DEF Renames, Shaky
  <2>2. \A v \in Workers : Same(v) \/ v = w
    BY <1>5 DEF Renames, Alone, Same
  <2> QED BY <1>1, <1>5, <2>1, <2>2 DEF Renames
<1>6. CASE Unlinks(w)
  <2>1. pc'[w] \notin Shaky \cup {"renaming"} /\ w \in Active
    BY <1>6 DEF Unlinks, Shaky, Active
  <2>2. \A v \in Workers : Same(v) \/ v = w
    BY <1>6 DEF Unlinks, Alone, Same
  <2>3. req[w].uid \in gone'
    BY <1>0, <1>6, <2>1, ActiveAt, SubtreeIs DEF Unlinks
  <2> QED BY <1>1, <1>6, <2>1, <2>2, <2>3 DEF Unlinks
<1>7. ASSUME NEW o \in Objects, Deletes(w, o) PROVE Homes'
  BY <1>7, HomesDeletes
<1> QED BY <1>2, <1>3, <1>4, <1>5, <1>6, <1>7 DEF Ends

\* No object gets into two folders.
LEMMA OneHomeEnds ==
    ASSUME Ordered, Base', NEW w \in Workers, Ends(w)
    PROVE  OneHome'
<1>0. Base /\ OneHome /\ Ready
  BY DEF Ordered, Apart, Gone
<1>1. Later(w) /\ Excused \subseteq Excused'
  BY <1>0, LaterStep, ExcusedLater DEF Later
<1>2. Homes'
  BY HomesEnds
<1> SUFFICES ASSUME NEW o \in Objects, o \notin Excused', NEW d \in Lists, NEW e \in Lists,
                    o \in Kids(d)', o \in Kids(e)'
             PROVE  d = e
  BY DEF OneHome
<1>3. CASE o \in Kids(d) /\ o \in Kids(e)
  BY <1>0, <1>1, <1>3 DEF OneHome
<1>4. CASE o \notin Kids(d) \/ o \notin Kids(e)
  <2>1. LoopTurn(w) /\ o = req[w].uid /\ w \in Active
    BY <1>0, <1>1, <1>4, KidsLater
  <2>2. UNCHANGED <<pc, req, gone>> /\ pc[w] \in Shaky /\ o \notin crossed
    BY <1>1, <2>1 DEF LoopTurn, Excused
  <2>3. o \notin gone'
    BY <1>0, <2>1, <2>2 DEF Ready, Touches
  <2>4. HomeOf(o)' /\ w \in Shakes(o)'
    BY <1>2, <2>1, <2>2, <2>3 DEF Homes, Shakes
  <2>5. Held(w)'
    BY <2>4 DEF HomeOf
  <2> QED BY <2>1, <2>2, <2>5 DEF Held
<1> QED BY <1>3, <1>4

\* A step that commits nothing keeps the order.
LEMMA OrderedEnds ==
    ASSUME Ordered, Base', NEW w \in Workers, Ends(w)
    PROVE  Ordered'
<1>0. Base /\ Fresh /\ Sep /\ CrossedDown
  BY DEF Ordered, Apart
<1>1. Apart'
  BY <1>0, FreshEnds, LaterStep, SepLater DEF Apart
<1>2. Lost' /\ Gone'
  BY LostEnds, RootEnds, GoneUpEnds, GoneDownEnds, ReadyEnds, DeleteClosedEnds DEF Gone
<1> QED BY <1>1, <1>2, HomesEnds, OneHomeEnds DEF Ordered

-----------------------------------------------------------------------------
(* The order after a commit. *)

\* The excused objects grow with whole subtrees, and maybe by the object of w.
LEMMA ExcusedCommits ==
    ASSUME Base, Base', Fresh, NEW w \in Workers, Commits(w)
    PROVE  /\ Excused \subseteq Excused' /\ crossed' \subseteq Excused'
           /\ \A x \in Excused' : x \in Excused \/ x = req[w].uid \/ \E h \in Harm(w) : x \in Subtree(h)
<1>1. stranded' \in {stranded, stranded \cup {req[w].uid}}
  BY DEF Commits
<1> QED BY <1>1, HarmFacts, CommitFacts DEF Excused

\* A request that starts without conflicts finds its object in order.
LEMMA CommitHome ==
    ASSUME Ordered, Base', NEW w \in Workers, Commits(w), req[w].uid \notin crossed'
    PROVE  /\ req[w].uid \notin Excused /\ req[w].uid \notin gone /\ req[w].dir \notin gone
           /\ \A v \in Active : ~Conflict(v, w) /\ req[v].uid # req[w].uid
           /\ Shakes(req[w].uid) = {}
           /\ pc'[w] # "linking" =>
                 /\ req[w].uid \in there /\ req[w].uid # Root
                 /\ parent[req[w].uid] \in there \cap Lists /\ parent[req[w].uid] \notin gone
                 /\ \A d \in Lists : req[w].uid \in Kids(d) <=> d = parent[req[w].uid]
<1> DEFINE u == req[w].uid
<1>0. Base /\ Fresh /\ RootKept /\ GoneUp /\ GoneDown /\ Homes
  BY DEF Ordered, Apart, Gone
<1>1. u \in Objects /\ req[w] \in Requests /\ req' = req
  BY <1>0, CommitFacts
<1>2. /\ u \notin Excused /\ req[w].dir \notin gone /\ \A v \in Active : ~Conflict(v, w)
  BY <1>0, HarmFacts
<1>3. ASSUME NEW v \in Active PROVE req[v].uid # u
  <2>1. req[v].uid \in Subtree(req[v].uid)
    BY <1>0, ActiveAt, SubtreeIs
  <2> QED BY <1>2, <2>1 DEF Conflict, Needs
<1>4. Shakes(u) = {}
  BY <1>3 DEF Shakes, Active
<1>5. CASE pc'[w] = "linking"
  <2>1. u \in Unborn
    BY <1>5 DEF Commits
  <2> QED BY <1>0, <1>2, <1>3, <1>4, <1>5, <2>1 DEF Fresh
<1>6. CASE pc'[w] # "linking"
  <2>1. u \in Listed /\ u \in there
    BY <1>6 DEF Commits, Found
  <2>2. u # Root
    <3>1. w \in Active' /\ req' = req
      BY <1>0, CommitFacts
    <3>2. Stages'
      BY DEF Base
    <3>3. req[w].do \in Changes
      BY <1>6, <3>1, <3>2 DEF Stages, Fits, DoAt, Commits, Moving, Changes
    <3> QED BY <1>1, <3>3, RequestTypes
  <2>3. u \notin gone
    BY <1>0, <1>2, <2>1, GoneListed
  <2>4. \A d \in Lists : u \in Kids(d) <=> d = parent[u]
    BY <1>0, <1>1, <1>2, <1>4, <2>1, <2>2, <2>3 DEF Homes, HomeOf
  <2>5. PICK y \in Listed \cap there \cap Lists : u \in Kids(y)
    BY <1>0, <2>1, <2>2, ListedHolder
  <2>6. y = parent[u] /\ y \notin gone
    BY <1>0, <1>2, <2>3, <2>4, <2>5 DEF GoneDown
  <2> QED BY <1>2, <1>3, <1>4, <2>1, <2>2, <2>3, <2>4, <2>5, <2>6
<1> QED BY <1>5, <1>6

\* The new object of a placing request.
LEMMA CommitNew ==
    ASSUME Ordered, NEW w \in Workers, Commits(w), pc'[w] = "linking"
    PROVE  /\ req[w].uid \in Objects /\ req[w].uid \notin there /\ req[w].dir \in Found \cap Lists
           /\ req[w].dir # req[w].uid
           /\ req[w].uid \notin gone /\ parent[req[w].uid] = Nil
           /\ \A d \in Lists : req[w].uid \notin Kids(d)
           /\ Kids(req[w].uid) = {}
           /\ there' = there \cup {req[w].uid} /\ parent' = [parent EXCEPT ![req[w].uid] = req[w].dir]
           /\ \A v \in Workers : pc[v] \in Shaky => loop[v].on # req[w].uid
<1> DEFINE u == req[w].uid
<1>0. Base /\ Fresh
  BY DEF Ordered, Apart
<1>1. /\ u \in Unborn /\ req[w].dir \in Found \cap Lists /\ there' = there \cup {u}
      /\ parent' = [parent EXCEPT ![u] = req[w].dir]
  BY DEF Commits
<1>2. /\ u \notin there /\ u \notin gone /\ parent[u] = Nil
      /\ u \in Lists => list[u] = Nil
      /\ \A d \in Lists : u \notin Kids(d)
      /\ \A v \in Active : /\ req[v].uid # u /\ src[v] # u
                           /\ pc[v] \in Placing => req[v].dir # u
  BY <1>0, <1>1 DEF Fresh
<1>3. u \in Objects
  BY <1>1, RequestTypes DEF Unborn
<1>4. Kids(u) = {}
  BY <1>2 DEF Kids, Stored, Items
<1>5. ASSUME NEW v \in Workers, pc[v] \in Shaky PROVE loop[v].on # u
  BY <1>0, <1>2, <1>5, LoopWhere
<1> QED BY <1>1, <1>2, <1>3, <1>4, <1>5 DEF Found

\* A new folder is empty.
LEMMA LostCommits ==
    ASSUME Ordered, Base', NEW w \in Workers, Commits(w)
    PROVE  Lost'
<1>0. Base /\ Fresh /\ LostFolders /\ LostLoops /\ NewFolders
  BY DEF Ordered, Apart, Lost
<1>1. /\ \A d \in Lists : Kids(d)' = Kids(d)
      /\ req' = req /\ Excused \subseteq Excused'
  BY <1>0, CommitFacts, ExcusedCommits
<1>2. /\ Alone(w) /\ loop'[w] = LoopAt(pc'[w], req[w], src'[w])
      /\ there' = there \/ (pc'[w] = "linking" /\ there' = there \cup {req[w].uid})
  BY DEF Commits
<1>3. LostFolders'
  BY <1>0, <1>1, <1>2 DEF LostFolders
<1>4. LostLoops'
  <2> SUFFICES ASSUME NEW v \in Workers, loop'[v].st = "write", ~loop'[v].found
               PROVE  loop'[v].on \notin there' /\ req'[v].uid \in Excused'
    BY DEF LostLoops
  <2>1. v # w
    <3>1. LoopAt(pc'[w], req[w], src'[w]).st \in {"off", "read"}
      BY DEF LoopAt, NoLoop
    <3> QED BY <1>2, <3>1
  <2>2. loop'[v] = loop[v]
    BY <1>2, <2>1 DEF Alone
  <2>3. loop[v].on \notin there /\ req[v].uid \in Excused
    BY <1>0, <2>2 DEF LostLoops
  <2>4. pc[v] \in Shaky
    BY <1>0, <2>2, BaseAt, NoLoopType
  <2> QED BY <1>1, <1>2, <2>2, <2>3, <2>4, CommitNew
<1>5. NewFolders'
  <2> SUFFICES ASSUME NEW v \in Workers, pc'[v] = "linking"
               PROVE  /\ req[v].dir # req[v].uid
                      /\ \A d \in Lists : d = req[v].uid => Kids(d) \subseteq Excused'
    BY <1>1 DEF NewFolders
  <2>1. CASE v = w
    BY <2>1, CommitNew
  <2>2. CASE v # w
    BY <1>0, <1>1, <1>2, <2>2 DEF NewFolders, Alone
  <2> QED BY <2>1, <2>2
<1> QED BY <1>3, <1>4, <1>5 DEF Lost

\* What holds an excused object's children after a commit.
LEMMA ClosedCommits ==
    ASSUME Ordered, Base', NEW w \in Workers, Commits(w), NEW h \in Harm(w), NEW e \in Subtree(h)
    PROVE  Kids(e) \subseteq Excused'
<1>0. Base /\ Fresh /\ LostFolders
  BY DEF Ordered, Apart, Lost
<1>1. h \in Objects /\ Subtree(h) \subseteq crossed' /\ Excused \subseteq Excused' /\ crossed' \subseteq Excused'
  BY <1>0, HarmFacts, ExcusedCommits
<1>2. CASE e \in there
  BY <1>0, <1>1, <1>2, SubtreeIs
<1>3. CASE e \notin there
  BY <1>0, <1>1, <1>3 DEF LostFolders, Kids
<1> QED BY <1>2, <1>3

\* A request that is committed into a deleted folder is in a conflict.
LEMMA GoneCommits ==
    ASSUME Ordered, Base', NEW w \in Workers, Commits(w)
    PROVE  Gone'
<1>0. Base /\ Fresh /\ RootKept /\ GoneUp /\ GoneDown /\ NodesGone /\ DeleteClosed /\ Ready /\ LostFolders
  BY DEF Ordered, Apart, Lost, Gone
<1>1. /\ w \notin Active /\ w \in Active' /\ req[w] \in Requests /\ req[w].uid \in Objects
      /\ \A v \in Workers \ {w} : (v \in Active' <=> v \in Active) /\ src'[v] = src[v]
      /\ req' = req /\ crossed \subseteq crossed'
      /\ \A d \in Lists : Kids(d)' = Kids(d)
      /\ \A o \in Objects : Reach(o, Links(there)') = Subtree(o)
      /\ Touches(w)' = Needs(w)
      /\ \A v \in Active : Touches(v)' = Touches(v) /\ Touches(v) = Needs(v)
  BY <1>0, CommitFacts
<1>2. /\ Alone(w) /\ gone' = gone /\ nodes' = nodes /\ src'[w] = parent[req[w].uid]
      /\ there \subseteq there'
      /\ pc'[w] \in {"linking", "renaming", "taking", "unlinking"}
  BY DEF Commits
<1>3. /\ Excused \subseteq Excused' /\ crossed' \subseteq Excused'
      /\ \A x \in Excused' : x \in Excused \/ x = req[w].uid \/ \E h \in Harm(w) : x \in Subtree(h)
  BY <1>0, ExcusedCommits
<1>4. RootKept' /\ NodesGone' /\ GoneDown'
  BY <1>0, <1>1, <1>2, <1>3 DEF RootKept, NodesGone, GoneDown
<1>5. GoneUp'
  <2> SUFFICES ASSUME NEW o \in gone, o \notin Excused', NEW d \in Lists, o \in Kids(d)
               PROVE  d \in gone /\ d \notin Excused'
    BY <1>1, <1>2 DEF GoneUp
  <2>1. d \in gone /\ d \notin Excused
    BY <1>0, <1>3 DEF GoneUp
  <2>2. ASSUME NEW h \in Harm(w), d \in Subtree(h) PROVE FALSE
    BY <2>2, ClosedCommits
  <2>3. d # req[w].uid \/ req[w].uid \in crossed'
    BY <2>1, CommitHome
  <2>4. CASE d = req[w].uid /\ req[w].uid \in crossed'
    BY <1>0, <2>1, <2>2, <2>4, HarmFacts DEF Excused
  <2> QED BY <1>3, <2>1, <2>2, <2>3, <2>4
<1>6. Ready'
  <2> SUFFICES ASSUME NEW v \in Active', req[v].uid \notin crossed'
               PROVE  /\ Touches(v)' \cap gone = {}
                      /\ pc'[v] \in Placing => req[v].dir \in there'
                      /\ src'[v] \in there' \cup {Nil}
    BY <1>1, <1>2 DEF Ready
  <2>0. v \in Workers
    BY DEF Active
  <2>1. CASE v # w
    <3>1. v \in Active /\ req[v].uid \notin crossed /\ pc'[v] = pc[v] /\ src'[v] = src[v]
      BY <1>1, <1>2, <2>0, <2>1 DEF Alone
    <3> QED BY <1>0, <1>1, <1>2, <3>1 DEF Ready
  <2>2. CASE v = w
    <3>1. /\ req[w].uid \notin gone /\ req[w].dir \notin gone
      BY <2>2, CommitHome
    <3>2. CASE pc'[w] = "linking"
      <4>1. parent[req[w].uid] = Nil /\ req[w].dir \in there /\ Nil \notin gone
        <5>1. gone \subseteq Objects
          BY <1>0, PartsNow DEF Parts, StoreTypes
        <5> QED BY <3>2, <5>1, CommitNew, DriveAssumption DEF Found
      <4>2. Touches(w)' = {req[w].uid, req[w].dir, parent[req[w].uid]}
        BY <1>1, <1>2 DEF Touches
      <4> QED BY <1>2, <2>2, <3>1, <4>1, <4>2
    <3>3. CASE pc'[w] # "linking"
      <4>1. parent[req[w].uid] \in there /\ parent[req[w].uid] \notin gone
        BY <2>2, <3>3, CommitHome
      <4>2. Touches(w)' = {req[w].uid, req[w].dir, parent[req[w].uid]}
        BY <1>1, <1>2 DEF Touches
      <4>3. pc'[w] \in Placing => req[w].dir \in there
        BY <1>2, <3>3 DEF Commits, Found, Placing, Moving
      <4> QED BY <1>2, <2>2, <3>1, <4>1, <4>2, <4>3
    <3> QED BY <3>2, <3>3
  <2> QED BY <2>1, <2>2
<1>7. DeleteClosed'
  <2> SUFFICES ASSUME NEW v \in Workers, pc'[v] = "unlinking",
                      NEW e \in Subtree(req[v].uid), e \in Excused'
               PROVE  Kids(e) \subseteq Excused'
    <3>1. \A v \in Workers : pc'[v] = "unlinking" => req[v].uid \in Objects
      <4>1. \A v \in Workers : pc'[v] = "unlinking" => v = w \/ v \in Active
        BY <1>2 DEF Alone, Active, Shaky
      <4> QED BY <1>0, <1>1, <4>1, ActiveAt
    <3>2. \A v \in Workers : pc'[v] = "unlinking" => Reach(req'[v].uid, Links(there)') = Subtree(req[v].uid)
      BY <1>1, <3>1
    <3>3. \A d \in Objects : Kids(d)' = Kids(d)
      BY <1>1 DEF Kids
    <3>4. \A v \in Workers : pc'[v] = "unlinking" => Subtree(req[v].uid) \subseteq Objects
      BY <1>0, <3>1, SubtreeIs
    <3> QED BY <3>2, <3>3, <3>4 DEF DeleteClosed, Subtree
  <2>1. CASE \E h \in Harm(w) : e \in Subtree(h)
    BY <2>1, ClosedCommits
  <2>2. CASE v # w
    <3>1. pc[v] = "unlinking" /\ v \in Active
      BY <1>2, <2>2 DEF Alone, Active, Shaky
    <3>2. CASE e \in Excused
      BY <1>0, <1>3, <3>1, <3>2 DEF DeleteClosed
    <3>3. CASE e = req[w].uid
      <4>1. Conflict(v, w)
        BY <3>3 DEF Conflict, Needs
      <4>2. e \in Harm(w) /\ e \in Subtree(e)
        BY <1>0, <1>1, <3>1, <3>3, <4>1, HarmFacts, SubtreeIs
      <4> QED BY <2>1, <4>2
    <3> QED BY <1>3, <2>1, <3>2, <3>3
  <2>3. CASE v = w
    <3>1. req[w].do = "delete" /\ stranded' = stranded
      <4>1. Stages'
        BY DEF Base
      <4> QED BY <1>1, <2>3, <4>1 DEF Stages, Fits, DoAt, Commits, Moving
    <3>2. e \in crossed' \/ e \in Excused
      BY <3>1 DEF Excused
    <3>3. CASE e \in Excused
      <4>1. e \in Harm(w) /\ e \in Subtree(e)
        BY <1>0, <1>1, <2>3, <3>1, <3>3, HarmFacts, SubtreeIs
      <4> QED BY <2>1, <4>1
    <3>4. CASE e \in crossed'
      BY <1>0, <2>1, <3>3, <3>4, HarmFacts DEF Excused
    <3> QED BY <3>2, <3>3, <3>4
  <2> QED BY <2>2, <2>3
<1> QED BY <1>4, <1>5, <1>6, <1>7 DEF Gone

\* A commit finds its object at home.
LEMMA HomesCommits ==
    ASSUME Ordered, Base', NEW w \in Workers, Commits(w)
    PROVE  Homes' /\ OneHome'
<1> DEFINE u == req[w].uid
<1>0. Base /\ Fresh /\ Homes /\ OneHome
  BY DEF Ordered, Apart
<1>1. /\ w \notin Active /\ w \in Active' /\ req[w] \in Requests /\ u \in Objects
      /\ req' = req /\ \A d \in Lists : Kids(d)' = Kids(d)
  BY <1>0, CommitFacts
<1>2. /\ Alone(w) /\ gone' = gone /\ src'[w] = parent[u] /\ pc[w] \notin Shaky
      /\ pc'[w] \in {"linking", "renaming", "taking", "unlinking"}
      /\ loop'[w] = LoopAt(pc'[w], req[w], src'[w])
      /\ \/ pc'[w] = "linking" /\ there' = there \cup {u} /\ parent' = [parent EXCEPT ![u] = req[w].dir]
         \/ pc'[w] # "linking" /\ there' = there /\ parent' = parent
  BY DEF Commits, Early, Shaky
<1>3. Excused \subseteq Excused' /\ crossed' \subseteq Excused'
  BY <1>0, ExcusedCommits
<1>4. parent \in [Objects -> Objects \cup {Nil}]
  BY <1>0, PartsNow DEF Parts, StoreTypes
<1>5. OneHome'
  BY <1>0, <1>1, <1>3 DEF OneHome
<1>6. Homes'
  <2> SUFFICES ASSUME NEW o \in Objects, o \notin Excused', o \notin gone PROVE HomeOf(o)'
    BY <1>2 DEF Homes
  <2>1. HomeOf(o)
    BY <1>0, <1>3 DEF Homes
  <2>2. CASE o # u
    <3>1. (o \in there' <=> o \in there) /\ parent'[o] = parent[o]
      BY <1>2, <1>4, <2>2
    <3>2. \A v \in Workers :
              \/ Same(v)
              \/ /\ ~(pc[v] \in Shaky /\ req[v].uid = o)
                 /\ ~(pc'[v] \in Shaky \cup {"renaming"} /\ req'[v].uid = o)
      BY <1>1, <1>2, <2>2 DEF Same, Alone
    <3> QED BY <1>1, <2>1, <3>1, <3>2, HomeKeep
  <2>3. CASE o = u
    <3>0. u \notin crossed'
      BY <1>3, <2>3
    <3>1. \A v \in Workers \ {w} : pc'[v] \in Shaky \cup {"renaming"} => req'[v].uid # o
      <4>1. \A v \in Workers \ {w} : pc'[v] \in Shaky \cup {"renaming"} => v \in Active
        BY <1>2 DEF Alone, Active
      <4> QED BY <1>1, <2>3, <3>0, <4>1, CommitHome
    <3>2. Shakes(u) = {}
      BY <3>0, CommitHome
    <3>3. CASE pc'[w] = "renaming"
      <4>1. Shakes(o)' = {}
        BY <3>1, <3>3 DEF Shakes, Shaky
      <4>2. \A v \in Workers : pc'[v] = "renaming" /\ req'[v].uid = o => parent'[o] = src'[v]
        BY <1>2, <2>3, <3>1, <3>3
      <4> QED BY <1>1, <1>2, <2>1, <2>3, <3>2, <3>3, <4>1, <4>2 DEF HomeOf
    <3>4. CASE pc'[w] # "renaming"
      <4>0. pc'[w] \in Shaky
        BY <1>2, <3>4 DEF Shaky
      <4>1. loop'[w].st = "read" /\ loop'[w].on = ListAt(pc'[w], req[w], src'[w])
        <5>1. ListAt(pc'[w], req[w], src'[w]) \in Lists
          <6>1. Stages'
            BY DEF Base
          <6>2. Fits(pc'[w], req[w], loop'[w], src'[w], reply'[w])
            BY <1>1, <6>1 DEF Stages
          <6> QED BY <4>0, <6>2 DEF Fits, ListAt, Shaky, Placing, Homed, Moving
        <5> QED BY <1>1, <1>2, <4>0, <5>1, LoopAtTypes
      <4>2. Held(w)'
        <5>1. CASE pc'[w] = "linking"
          <6>1. \A d \in Lists : u \notin Kids(d)
            BY <5>1, CommitNew
          <6>2. parent'[u] = req[w].dir /\ u \in there' /\ HomeAt(w)' = req[w].dir
            BY <1>1, <1>2, <1>4, <5>1 DEF HomeAt
          <6> QED BY <1>1, <4>1, <6>1, <6>2 DEF Held
        <5>2. CASE pc'[w] # "linking"
          <6>1. u \in there /\ \A d \in Lists : u \in Kids(d) <=> d = parent[u]
            BY <3>0, <5>2, CommitHome
          <6>2. HomeAt(w)' = parent[u] /\ parent'[u] = parent[u]
            BY <1>2, <5>2 DEF HomeAt
          <6>3. loop'[w].on = parent[u]
            BY <1>2, <3>4, <4>1, <5>2 DEF ListAt
          <6> QED BY <1>1, <1>2, <4>1, <5>2, <6>1, <6>2, <6>3 DEF Held
        <5> QED BY <5>1, <5>2
      <4>3. \A v \in Shakes(o)' : v = w
        BY <3>1 DEF Shakes
      <4>4. w \in Shakes(o)' /\ o \in there'
        BY <1>1, <2>3, <4>0, <4>2 DEF Shakes, Held
      <4>5. \A v \in Workers : pc'[v] = "renaming" => req'[v].uid # o
        BY <3>1, <3>4
      <4>6. \A v \in Shakes(o)' : Held(v)'
        BY <4>2, <4>3
      <4> QED BY <4>4, <4>5, <4>6 DEF HomeOf
    <3> QED BY <3>3, <3>4
  <2> QED BY <2>2, <2>3
<1> QED BY <1>5, <1>6

\* A commit keeps the order.
LEMMA OrderedCommits ==
    ASSUME Ordered, Base', NEW w \in Workers, Commits(w)
    PROVE  Ordered'
<1>0. Base /\ Fresh /\ Sep /\ CrossedDown
  BY DEF Ordered, Apart
<1>1. Apart'
  BY <1>0, FreshCommits, SepCommits DEF Apart
<1> QED BY <1>1, LostCommits, GoneCommits, HomesCommits DEF Ordered

-----------------------------------------------------------------------------
(* Names. *)

NamesApart == \A d \in Lists : \A x, y \in Kids(d) \ Excused : x # y => name[x] # name[y]

\* The name that the object of w is to have, and the folders that w may put it in.
NewName(w) == IF req[w].do = "move" THEN name[req[w].uid] ELSE req[w].name
Places(w) ==
    IF req[w].do = "delete" THEN {}
    ELSE IF req[w].do = "rename" THEN {src[w]} ELSE {req[w].dir, src[w]}

\* Nothing else in those folders has that name,
NamePending ==
    \A w \in Active : req[w].uid \notin Excused =>
        /\ \A d \in Lists : d \in Places(w) =>
              \A x \in Kids(d) \ Excused : x # req[w].uid => name[x] # NewName(w)
        /\ req[w].do \in Creates => name[req[w].uid] = req[w].name

\* and no other request gives it out there.
NameSep ==
    \A v, w \in Active : v # w /\ req[v].uid \notin crossed /\ req[w].uid \notin crossed =>
        \/ GivenNames(req[v]) \cap GivenNames(req[w]) = {}
        \/ {req[v].dir, src[v]} \cap {req[w].dir, src[w]} \cap Objects = {}

Named == NamesApart /\ NamePending /\ NameSep

\* The one name that a request gives out.
LEMMA GivenIs ==
    ASSUME NEW w \in Active, req[w].do # "delete"
    PROVE  GivenNames(req[w]) = {NewName(w)}
  BY DEF GivenNames, NewName

\* An object that is added to a folder has its name there already.
LEMMA AddedName ==
    ASSUME Base, NamePending, NEW w \in Workers, LoopTurn(w), loop[w].kind = "append",
           req[w].uid \notin Excused
    PROVE  /\ w \in Active /\ NewName(w) = name[req[w].uid] /\ loop[w].on \in Places(w) \cap Lists
           /\ loop[w].on \in {req[w].dir, src[w]} \cap Objects
           /\ GivenNames(req[w]) = {name[req[w].uid]} /\ req[w].uid \notin crossed
<1>1. pc[w] \in Shaky
  BY DEF LoopTurn
<1>2. /\ w \in Active /\ loop[w].on \in Lists /\ loop[w].on \in {req[w].dir, src[w]}
      /\ pc[w] \in {"linking", "putting", "restoring", "dropping"}
  BY <1>1, LoopWhere DEF KindAt, Shaky
<1>3. req[w].do \in Creates \cup {"move"} /\ req[w].do \notin {"delete", "rename"}
  BY <1>2, BaseAt DEF DoAt, Creates, Moving
<1>4. NewName(w) = name[req[w].uid]
  BY <1>2, <1>3 DEF NewName, NamePending
<1> QED BY <1>2, <1>3, <1>4, GivenIs, DriveAssumption DEF Places, Excused

\* A step that writes no name.
LEMMA NamedLater ==
    ASSUME Ordered, Named, NEW w \in Workers, Later(w), name' = name
    PROVE  Named'
<1>0. Base /\ Ready /\ NamesApart /\ NamePending /\ NameSep
  BY DEF Ordered, Apart, Gone, Named
<1>1. Excused \subseteq Excused' /\ crossed' = crossed
  BY ExcusedLater DEF Later
<1>2. \A v \in Active' : v \in Active /\ req'[v] = req[v] /\ src'[v] = src[v]
  BY DEF Later, Active
<1>3. ASSUME NEW d \in Lists, NEW x \in Kids(d)', x \notin Kids(d), x \notin Excused
      PROVE  /\ x = req[w].uid /\ w \in Active /\ NewName(w) = name[x] /\ d \in Places(w)
             /\ d \in {req[w].dir, src[w]} \cap Objects
             /\ GivenNames(req[w]) = {name[x]} /\ x \notin crossed
  <2>1. LoopTurn(w) /\ x = req[w].uid /\ d = loop[w].on /\ loop[w].kind = "append"
    BY <1>0, <1>3, KidsLater
  <2> QED BY <1>0, <1>3, <2>1, AddedName
<1>4. NamesApart'
  <2> SUFFICES ASSUME NEW d \in Lists, NEW x \in Kids(d)', NEW y \in Kids(d)', x # y,
                      x \notin Excused', y \notin Excused'
               PROVE  name[x] # name[y]
    BY DEF NamesApart
  <2>1. x \notin Excused /\ y \notin Excused
    BY <1>1
  <2>2. CASE x \in Kids(d) /\ y \in Kids(d)
    BY <1>0, <2>1, <2>2 DEF NamesApart
  <2>3. CASE x \notin Kids(d)
    <3>1. y \in Kids(d)
      BY <1>3, <2>1, <2>3
    <3> QED BY <1>0, <1>3, <2>1, <2>3, <3>1 DEF NamePending
  <2>4. CASE y \notin Kids(d)
    <3>1. x \in Kids(d)
      BY <1>3, <2>1, <2>4
    <3> QED BY <1>0, <1>3, <2>1, <2>4, <3>1 DEF NamePending
  <2> QED BY <2>2, <2>3, <2>4
<1>5. ASSUME NEW v \in Active' PROVE NewName(v)' = NewName(v) /\ Places(v)' = Places(v)
  BY <1>2 DEF NewName, Places
<1>6. NamePending'
  <2> SUFFICES ASSUME NEW v \in Active', req[v].uid \notin Excused'
               PROVE  /\ \A d \in Lists : d \in Places(v) =>
                            \A x \in Kids(d)' : x \notin Excused' /\ x # req[v].uid => name[x] # NewName(v)
                      /\ req[v].do \in Creates => name[req[v].uid] = req[v].name
    BY <1>2, <1>5 DEF NamePending
  <2>0. v \in Active /\ req[v].uid \notin Excused /\ req[v].uid \notin crossed
    BY <1>1, <1>2 DEF Excused
  <2>1. ASSUME NEW d \in Lists, d \in Places(v), NEW x \in Kids(d)', x \notin Excused', x # req[v].uid
        PROVE  name[x] # NewName(v)
    <3>0. x \notin Excused
      BY <1>1, <2>1
    <3>1. CASE x \in Kids(d)
      BY <1>0, <2>0, <2>1, <3>0, <3>1 DEF NamePending
    <3>2. CASE x \notin Kids(d)
      <4>1. /\ x = req[w].uid /\ w \in Active /\ d \in {req[w].dir, src[w]} \cap Objects
            /\ GivenNames(req[w]) = {name[x]} /\ x \notin crossed
        BY <1>3, <2>1, <3>0, <3>2
      <4>2. req[v].do # "delete" /\ d \in {req[v].dir, src[v]}
        BY <2>1 DEF Places
      <4>3. GivenNames(req[v]) = {NewName(v)}
        BY <2>0, <4>2, GivenIs
      <4>4. v # w
        BY <2>1, <4>1
      <4> QED BY <1>0, <2>0, <4>1, <4>2, <4>3, <4>4 DEF NameSep
    <3> QED BY <3>1, <3>2
  <2> QED BY <1>0, <2>0, <2>1 DEF NamePending
<1>7. NameSep'
  <2>1. \A v \in Active' : GivenNames(req[v])' = GivenNames(req[v])
    BY <1>2 DEF GivenNames
  <2> QED BY <1>0, <1>1, <1>2, <2>1 DEF NameSep
<1> QED BY <1>4, <1>6, <1>7 DEF Named

\* The put of handle_rename: no other child has got the name since it was checked.
LEMMA NamedRenames ==
    ASSUME Ordered, Named, NEW w \in Workers, Renames(w)
    PROVE  Named'
<1> DEFINE u == req[w].uid
<1>0. Base /\ Sep /\ Ready /\ Homes /\ NamesApart /\ NamePending /\ NameSep /\ RootKept
  BY DEF Ordered, Apart, Gone, Named
<1>1. /\ UNCHANGED <<list, there, parent, crossed, stranded, gone, src, req>> /\ Alone(w)
      /\ pc[w] = "renaming" /\ pc'[w] = "done" /\ req[w].do = "rename"
      /\ name' = [name EXCEPT ![u] = req[w].name]
  BY DEF Renames
<1>2. w \in Active /\ w \notin Active' /\ u \in Objects /\ u # Root
  <2>1. w \in Active /\ w \notin Active'
    BY <1>1 DEF Active, Shaky
  <2> QED BY <1>0, <2>1, ActiveAt
<1>3. \A v \in Active' : v \in Active /\ v # w
  BY <1>1, <1>2 DEF Active, Alone
<1>4. /\ \A d \in Lists : Kids(d)' = Kids(d)
      /\ Excused' = Excused /\ name \in [Objects -> AllNames]
  BY <1>0, <1>1, SameKids, PartsNow DEF Excused, Parts, Columns
<1>5. name'[u] = req[w].name /\ \A x \in Objects : x # u => name'[x] = name[x]
  BY <1>1, <1>2, <1>4
<1>6. \A d \in Lists : Kids(d) \subseteq Objects
  <2>1. LoopTypeOK(Objects)
    BY <1>0, BaseAt
  <2> QED BY <2>1, KidsTypes
<1>7. ASSUME NEW d \in Lists, u \in Kids(d), u \notin Excused
      PROVE  /\ d = src[w] /\ u \notin crossed
             /\ \A x \in Kids(d) \ Excused : x # u => name[x] # req[w].name
  <2>1. u \notin crossed
    BY <1>7 DEF Excused
  <2>2. u \notin gone
    BY <1>0, <1>2, <2>1 DEF Ready, Touches
  <2>3. HomeOf(u)
    BY <1>0, <1>2, <1>7, <2>2 DEF Homes
  <2>4. Shakes(u) = {}
    <3>1. ASSUME NEW v \in Shakes(u) PROVE FALSE
      <4>1. v \in Active /\ v # w /\ req[v].uid = u
        BY <1>1 DEF Shakes, Active, Shaky
      <4> QED BY <1>0, <1>2, <2>1, <4>1, OneOwner
    <3> QED BY <3>1
  <2>5. d = src[w]
    BY <1>1, <1>2, <1>7, <2>3, <2>4 DEF HomeOf
  <2>6. d \in Places(w) /\ NewName(w) = req[w].name
    BY <1>1, <2>5 DEF Places, NewName
  <2> QED BY <1>0, <1>2, <1>7, <2>1, <2>5, <2>6 DEF NamePending
<1>8. NamesApart'
  <2> SUFFICES ASSUME NEW d \in Lists, NEW x \in Kids(d), NEW y \in Kids(d), x # y,
                      x \notin Excused, y \notin Excused
               PROVE  name'[x] # name'[y]
    BY <1>4 DEF NamesApart
  <2>1. x \in Objects /\ y \in Objects /\ name[x] # name[y]
    BY <1>0, <1>6 DEF NamesApart
  <2>2. CASE x = u
    BY <1>5, <1>7, <2>1, <2>2
  <2>3. CASE y = u
    BY <1>5, <1>7, <2>1, <2>3
  <2> QED BY <1>5, <2>1, <2>2, <2>3
<1>9. ASSUME NEW v \in Active', req[v].uid \notin crossed
      PROVE  /\ v \in Active /\ v # w /\ req[v].uid # u /\ NewName(v)' = NewName(v)
             /\ Places(v)' = Places(v) /\ name'[req[v].uid] = name[req[v].uid]
             /\ GivenNames(req[v])' = GivenNames(req[v])
  <2>1. v \in Active /\ v # w
    BY <1>3
  <2>2. req[v].uid # u /\ req[v].uid \in Objects
    BY <1>0, <1>2, <1>9, <2>1, OneOwner, ActiveAt
  <2>3. name'[req[v].uid] = name[req[v].uid]
    BY <1>5, <2>2
  <2> QED BY <1>1, <2>1, <2>2, <2>3 DEF NewName, Places, GivenNames
<1>10. NamePending'
  <2> SUFFICES ASSUME NEW v \in Active', req[v].uid \notin Excused
               PROVE  /\ \A d \in Lists : d \in Places(v)' =>
                            \A x \in Kids(d) : x \notin Excused /\ x # req[v].uid => name'[x] # NewName(v)'
                      /\ req[v].do \in Creates => name'[req[v].uid] = req[v].name
    BY <1>1, <1>4 DEF NamePending
  <2>0. req[v].uid \notin crossed
    BY DEF Excused
  <2>1. v \in Active /\ v # w /\ NewName(v)' = NewName(v) /\ Places(v)' = Places(v)
        /\ name'[req[v].uid] = name[req[v].uid]
    BY <1>9, <2>0
  <2>2. ASSUME NEW d \in Lists, d \in Places(v), NEW x \in Kids(d), x \notin Excused, x # req[v].uid
        PROVE  name'[x] # NewName(v)
    <3>1. CASE x # u
      BY <1>0, <1>5, <1>6, <2>1, <2>2, <3>1 DEF NamePending
    <3>2. CASE x = u
      <4>1. d = src[w] /\ u \notin crossed
        BY <1>7, <2>2, <3>2
      <4>2. req[v].do # "delete" /\ d \in {req[v].dir, src[v]} \cap Objects
        BY <2>2, DriveAssumption DEF Places
      <4>3. GivenNames(req[v]) = {NewName(v)} /\ GivenNames(req[w]) = {req[w].name}
        BY <1>1, <1>2, <2>1, <4>2, GivenIs DEF NewName
      <4>4. GivenNames(req[v]) \cap GivenNames(req[w]) = {}
        BY <1>0, <1>2, <2>0, <2>1, <4>1, <4>2 DEF NameSep
      <4> QED BY <1>5, <3>2, <4>3, <4>4
    <3> QED BY <3>1, <3>2
  <2> QED BY <1>0, <2>1, <2>2 DEF NamePending
<1>11. NameSep'
  BY <1>0, <1>1, <1>9 DEF NameSep
<1> QED BY <1>8, <1>10, <1>11 DEF Named

\* A step that commits nothing makes no two names equal.
LEMMA NamedEnds ==
    ASSUME Ordered, Named, NEW w \in Workers, Ends(w)
    PROVE  Named'
<1>1. Later(w)
  BY LaterStep DEF Ordered, Apart
<1>2. Renames(w) \/ name' = name
  BY DEF Ends, Still, Turn, LoopTurn, Unlinks, Deletes
<1> QED BY <1>1, <1>2, NamedLater, NamedRenames

-----------------------------------------------------------------------------
(* Names after a commit. *)

\* What a folder lists that is not deleted has its columns.
LEMMA KidThere ==
    ASSUME Ordered, NEW d \in Lists, d \notin gone, NEW x \in Kids(d), x \notin Excused
    PROVE  x \in there /\ x \in Objects /\ x \notin gone
<1>0. Base /\ GoneUp /\ Homes
  BY DEF Ordered, Apart, Gone
<1>1. x \in Objects
  <2>1. LoopTypeOK(Objects)
    BY <1>0 DEF Base, TypeOK
  <2> QED BY <2>1, KidsTypes
<1>2. x \notin gone
  BY <1>0 DEF GoneUp
<1> QED BY <1>0, <1>1, <1>2 DEF Homes, HomeOf

\* The label that a commit leads to tells the request.
LEMMA CommitDo ==
    ASSUME Ordered, Base', NEW w \in Workers, Commits(w)
    PROVE  /\ pc'[w] = "linking" => req[w].do \in Creates
           /\ pc'[w] = "renaming" => req[w].do = "rename"
           /\ pc'[w] = "taking" => req[w].do = "move"
           /\ pc'[w] = "unlinking" => req[w].do = "delete"
<1>1. Stages' /\ req' = req
  BY DEF Base, Commits
<1> QED BY <1>1 DEF Stages, Fits, DoAt, Moving

\* A commit gives a name to its new object, and to no other.
LEMMA CommitNames ==
    ASSUME Ordered, Base', NEW w \in Workers, Commits(w)
    PROVE  /\ \A d \in Lists : \A x \in Kids(d) : name'[x] = name[x]
           /\ \A v \in Active : name'[req[v].uid] = name[req[v].uid]
           /\ pc'[w] # "linking" => name' = name
           /\ pc'[w] = "linking" => name'[req[w].uid] = req[w].name
<1>0. Base /\ Fresh
  BY DEF Ordered, Apart
<1>1. CASE pc'[w] # "linking"
  BY <1>1 DEF Commits
<1>2. CASE pc'[w] = "linking"
  <2> DEFINE u == req[w].uid
  <2>1. name' = [name EXCEPT ![u] = req[w].name] /\ u \in Unborn
    BY <1>2 DEF Commits
  <2>2. name \in [Objects -> AllNames] /\ u \in Objects
    BY <1>0, <1>2, PartsNow, CommitNew DEF Parts, Columns
  <2>3. \A d \in Lists : Kids(d) \subseteq Objects
    <3>1. LoopTypeOK(Objects)
      BY <1>0 DEF Base, TypeOK
    <3> QED BY <3>1, KidsTypes
  <2>4. \A v \in Active : req[v].uid \in Objects /\ req[v].uid # u
    BY <1>0, <2>1, ActiveAt DEF Fresh
  <2>5. \A d \in Lists : u \notin Kids(d)
    BY <1>2, CommitNew
  <2> QED BY <1>2, <2>1, <2>2, <2>3, <2>4, <2>5
<1> QED BY <1>1, <1>2

\* A commit has checked its name, and no other request gives it out.
LEMMA NamedCommits ==
    ASSUME Ordered, Named, Base', NEW w \in Workers, Commits(w)
    PROVE  Named'
<1> DEFINE u == req[w].uid
<1>0. Base /\ Fresh /\ NamesApart /\ NamePending /\ NameSep
  BY DEF Ordered, Apart, Named
<1>1. /\ w \notin Active /\ w \in Active' /\ u \in Objects /\ req' = req
      /\ \A v \in Workers \ {w} : (v \in Active' <=> v \in Active) /\ src'[v] = src[v]
      /\ \A d \in Lists : Kids(d)' = Kids(d)
      /\ Excused \subseteq Excused' /\ crossed \subseteq crossed' /\ crossed' \subseteq Excused'
  BY <1>0, CommitFacts, ExcusedCommits
<1>2. /\ src'[w] = parent[u] /\ pc'[w] \in {"linking", "renaming", "taking", "unlinking"}
  BY DEF Commits
<1>3. /\ \A d \in Lists : \A x \in Kids(d) : name'[x] = name[x]
      /\ \A v \in Active : name'[req[v].uid] = name[req[v].uid]
      /\ pc'[w] # "linking" => name' = name
      /\ pc'[w] = "linking" => name'[u] = req[w].name
  BY CommitNames
<1>4. \A v \in Active' : v = w \/ (v \in Active /\ v \in Workers \ {w})
  BY <1>1 DEF Active
<1>5. \A v \in Active : GivenNames(req[v])' = GivenNames(req[v]) /\ v \in Workers \ {w}
  BY <1>1, <1>3 DEF GivenNames, Active
<1>6. GivenNames(req[w])' = GivenNames(req[w])
  <2>1. req[w].do = "move" => name' = name
    BY <1>2, <1>3, CommitDo DEF Creates
  <2> QED BY <1>1, <2>1 DEF GivenNames
<1>7. NamesApart'
  BY <1>0, <1>1, <1>3 DEF NamesApart
<1>8. NameSep'
  <2>1. ASSUME NEW v \in Active, req[v].uid \notin crossed', u \notin crossed'
        PROVE  \/ GivenNames(req[v]) \cap GivenNames(req[w]) = {}
               \/ {req[v].dir, src[v]} \cap {req[w].dir, parent[u]} \cap Objects = {}
    <3>1. ~Conflict(v, w)
      BY <2>1, CommitHome
    <3>2. Home(v) = src[v] /\ Home(w) = parent[u]
      BY <1>1 DEF Home
    <3> QED BY <3>1, <3>2 DEF Conflict
  <2> SUFFICES ASSUME NEW v \in Active', NEW x \in Active', v # x,
                      req[v].uid \notin crossed', req[x].uid \notin crossed'
               PROVE  \/ GivenNames(req[v])' \cap GivenNames(req[x])' = {}
                      \/ {req[v].dir, src'[v]} \cap {req[x].dir, src'[x]} \cap Objects = {}
    BY <1>1 DEF NameSep
  <2>2. CASE v = w
    BY <1>1, <1>2, <1>4, <1>5, <1>6, <2>1, <2>2
  <2>3. CASE x = w
    BY <1>1, <1>2, <1>4, <1>5, <1>6, <2>1, <2>3
  <2>4. CASE v # w /\ x # w
    BY <1>0, <1>1, <1>4, <1>5, <2>4 DEF NameSep
  <2> QED BY <2>2, <2>3, <2>4
<1>9. NamePending'
  <2> SUFFICES ASSUME NEW v \in Active', req[v].uid \notin Excused'
               PROVE  /\ \A d \in Lists : d \in Places(v)' =>
                            \A x \in Kids(d) \ Excused' : x # req[v].uid => name'[x] # NewName(v)'
                      /\ req[v].do \in Creates => name'[req[v].uid] = req[v].name
    BY <1>1 DEF NamePending
  <2>1. CASE v # w
    <3>1. v \in Active /\ req[v].uid \notin Excused /\ src'[v] = src[v]
      BY <1>1, <1>4, <2>1
    <3>2. NewName(v)' = NewName(v) /\ Places(v)' = Places(v)
      BY <1>1, <1>3, <3>1 DEF NewName, Places
    <3> QED BY <1>0, <1>1, <1>3, <3>1, <3>2 DEF NamePending
  <2>2. CASE v = w
    <3>0. u \notin crossed' /\ u \notin stranded' /\ u \notin Excused'
      BY <2>2 DEF Excused
    <3>1. u \notin Excused /\ req[w].dir \notin gone
      BY <3>0, CommitHome
    <3>2. CASE pc'[w] = "linking"
      <4>1. req[w].do \in Creates /\ parent[u] = Nil /\ req[w].dir \in Lists
            /\ ~Taken(req[w].dir, req[w].name, Nil)
        BY <3>0, <3>2, CommitDo, CommitNew DEF Commits
      <4>2. NewName(w)' = req[w].name /\ \A d \in Lists : d \in Places(w)' => d = req[w].dir
        BY <1>1, <1>2, <4>1, DriveAssumption DEF NewName, Places, Creates
      <4>3. ASSUME NEW x \in Kids(req[w].dir), x \notin Excused' PROVE name'[x] # req[w].name
        <5>1. x \in there /\ x \in Objects
          BY <1>1, <3>1, <4>1, <4>3, KidThere
        <5> QED BY <1>3, <4>1, <4>3, <5>1, DriveAssumption DEF Taken
      <4> QED BY <1>3, <2>2, <3>2, <4>2, <4>3
    <3>3. CASE pc'[w] # "linking"
      <4>1. parent[u] \in Lists /\ parent[u] \notin gone /\ u \in Kids(parent[u])
        BY <3>0, <3>3, CommitHome
      <4>2. name' = name /\ req[w].do \notin Creates
        BY <1>2, <1>3, <3>3, CommitDo DEF Creates
      <4>3. CASE pc'[w] = "renaming"
        <5>1. req[w].do = "rename" /\ ~Taken(parent[u], req[w].name, u)
          BY <3>0, <4>3, CommitDo DEF Commits
        <5>2. NewName(w)' = req[w].name /\ Places(w)' = {parent[u]}
          BY <1>1, <1>2, <5>1 DEF NewName, Places
        <5>3. ASSUME NEW x \in Kids(parent[u]), x \notin Excused', x # u PROVE name[x] # req[w].name
          BY <1>1, <4>1, <5>1, <5>3, KidThere DEF Taken
        <5> QED BY <2>2, <4>2, <5>2, <5>3
      <4>4. CASE pc'[w] = "taking"
        <5>1. req[w].do = "move" /\ ~Taken(req[w].dir, name[u], u) /\ req[w].dir \in Lists
          BY <3>0, <4>4, CommitDo DEF Commits
        <5>2. NewName(w)' = name[u] /\ Places(w)' = {req[w].dir, parent[u]}
          BY <1>1, <1>2, <4>2, <5>1 DEF NewName, Places
        <5>3. ASSUME NEW x \in Kids(req[w].dir), x \notin Excused', x # u PROVE name[x] # name[u]
          BY <1>1, <3>1, <5>1, <5>3, KidThere DEF Taken
        <5>4. ASSUME NEW x \in Kids(parent[u]), x \notin Excused', x # u PROVE name[x] # name[u]
          BY <1>0, <1>1, <3>1, <4>1, <5>4 DEF NamesApart
        <5> QED BY <2>2, <4>2, <5>2, <5>3, <5>4
      <4>5. CASE pc'[w] = "unlinking"
        <5>1. Places(w)' = {}
          BY <1>1, <4>5, CommitDo DEF Places
        <5> QED BY <2>2, <4>2, <5>1
      <4> QED BY <1>2, <3>3, <4>3, <4>4, <4>5
    <3> QED BY <3>2, <3>3
  <2> QED BY <2>1, <2>2
<1> QED BY <1>7, <1>8, <1>9 DEF Named

-----------------------------------------------------------------------------
(* What was made is there. *)

\* The workers that have created their object.
Created ==
    {w \in Workers : /\ pc[w] # "idle" /\ req[w].do \in Creates
                     /\ pc[w] = "counting" \/ reply[w] = "ok"}
MadeThere ==
    /\ InitialObjects \ (gone \cup Excused) \subseteq there
    /\ \A w \in Created : req[w].uid \in there \cup gone \cup Excused

\* A commit deletes nothing.
LEMMA MadeCommits ==
    ASSUME Ordered, MadeThere, Base', NEW w \in Workers, Commits(w)
    PROVE  MadeThere'
<1>0. Base /\ Fresh
  BY DEF Ordered, Apart
<1>1. Excused \subseteq Excused' /\ there \subseteq there' /\ gone' = gone /\ req' = req
  BY <1>0, ExcusedCommits DEF Commits
<1>2. ASSUME NEW v \in Created' PROVE v \in Created
  <2>1. v \in Workers /\ v # w
    <3>1. pc'[w] \notin {"counting", "done"}
      BY DEF Commits
    <3>2. reply'[w] = "none"
      <4>1. Stages'
        BY DEF Base
      <4> QED BY <3>1, <4>1 DEF Stages, Fits
    <3> QED BY <3>1, <3>2 DEF Created
  <2> QED BY <1>2, <2>1 DEF Created, Commits, Alone
<1> QED BY <1>1, <1>2 DEF MadeThere

\* A step that ends a request deletes no object of another one.
LEMMA MadeStays ==
    ASSUME Ordered, Base', NEW w \in Workers, Ends(w), NEW o \in there,
           o \notin gone \cup Excused,
           \/ o \in InitialObjects
           \/ \E v \in Workers : v # w /\ pc[v] # "idle" /\ req[v].do \in Creates /\ o = req[v].uid
    PROVE  o \in there'
<1>0. Base /\ NodesGone
  BY DEF Ordered, Apart, Gone
<1> SUFFICES ASSUME o \notin there' PROVE FALSE
  OBVIOUS
<1>1. Deletes(w, o)
  BY <1>0, ThereLater
<1>2. o \notin nodes[w]
  BY <1>0 DEF NodesGone
<1>3. pc[w] = "linking" /\ o = req[w].uid
  BY <1>1, <1>2 DEF Deletes
<1>4. req[w] \in Requests /\ req[w].do \in Creates
  BY <1>0, <1>3, BaseAt DEF DoAt
<1>5. o \notin InitialObjects
  BY <1>3, <1>4, NewUidAssumption
<1>6. PICK v \in Workers : v # w /\ pc[v] # "idle" /\ req[v].do \in Creates /\ o = req[v].uid
  BY <1>5
<1>7. req[v] \in Requests /\ req[v] # Nil
  BY <1>0, <1>6, BaseAt, RequestTypes
<1>8. req[v] = req[w]
  BY <1>3, <1>4, <1>6, <1>7, NewUidAssumption
<1> QED BY <1>0, <1>6, <1>7, <1>8 DEF Base, Once

\* Nor does the step that creates an object.
LEMMA MadeOwn ==
    ASSUME Ordered, MadeThere, Base', NEW w \in Workers, Ends(w), w \in Created',
           req'[w].uid \notin gone \cup Excused
    PROVE  req'[w].uid \in there'
<1>0. Base /\ Homes
  BY DEF Ordered, Apart
<1>1. pc'[w] # "idle" /\ req'[w].do \in Creates /\ (pc'[w] = "counting" \/ reply'[w] = "ok")
  BY DEF Created
<1>2. pc'[w] \in {"counting", "done"}
  <2>1. Stages'
    BY DEF Base
  <2> QED BY <1>1, <2>1 DEF Stages, Fits
<1>3. CASE Still(w)
  <2>1. req' = req
    BY <1>2, <1>3 DEF Still
  <2>2. pc[w] = "counting" \/ reply[w] = "ok"
    BY <1>1, <1>2, <1>3, <2>1 DEF Still
  <2>3. pc[w] # "idle"
    BY <1>0, <2>2, BaseAt
  <2>4. w \in Created
    BY <1>1, <2>1, <2>2, <2>3 DEF Created
  <2> QED BY <1>3, <2>1, <2>4 DEF MadeThere, Still
<1>4. CASE Turn(w) \/ LoopTurn(w)
  <2>1. pc[w] \in Shaky /\ req' = req /\ there' = there
    BY <1>4 DEF Turn, LoopTurn
  <2>2. req[w].uid \in Objects
    BY <1>0, <2>1, LoopWhere
  <2>3. w \in Shakes(req[w].uid)
    BY <2>1 DEF Shakes
  <2> QED BY <1>0, <2>1, <2>2, <2>3 DEF Homes, HomeOf, Held
<1>5. CASE Renames(w)
  BY <1>1, <1>5 DEF Renames, Creates
<1>6. CASE Unlinks(w)
  BY <1>2, <1>6 DEF Unlinks
<1>7. ASSUME NEW o \in Objects, Deletes(w, o) PROVE FALSE
  <2>1. CASE pc[w] = "linking"
    BY <1>1, <1>7, <2>1 DEF Deletes
  <2>2. CASE pc[w] = "deleting"
    BY <1>2, <1>7, <2>2 DEF Deletes
  <2> QED BY <1>7, <2>1, <2>2 DEF Deletes
<1> QED BY <1>3, <1>4, <1>5, <1>6, <1>7 DEF Ends

\* Only what is gone or excused loses its columns.
LEMMA MadeEnds ==
    ASSUME Ordered, MadeThere, Base', NEW w \in Workers, Ends(w)
    PROVE  MadeThere'
<1>0. Base
  BY DEF Ordered, Apart
<1>1. Later(w)
  BY <1>0, LaterStep
<1>2. Excused \subseteq Excused' /\ gone \subseteq gone' /\ Alone(w)
  BY <1>1, ExcusedLater DEF Later
<1>3. ASSUME NEW o \in InitialObjects, o \notin gone', o \notin Excused' PROVE o \in there'
  BY <1>2, <1>3, MadeStays DEF MadeThere
<1>4. ASSUME NEW v \in Created', req'[v].uid \notin gone', req'[v].uid \notin Excused'
      PROVE  req'[v].uid \in there'
  <2>1. CASE v = w
    BY <1>2, <1>4, <2>1, MadeOwn
  <2>2. CASE v # w
    <3>1. v \in Workers /\ v \in Created /\ req'[v] = req[v]
      BY <1>2, <1>4, <2>2 DEF Created, Alone
    <3>2. pc[v] # "idle" /\ req[v].do \in Creates /\ req[v].uid \in there
      BY <1>2, <1>4, <3>1 DEF Created, MadeThere
    <3> QED BY <1>2, <1>4, <2>2, <3>1, <3>2, MadeStays
  <2> QED BY <2>1, <2>2
<1> QED BY <1>3, <1>4 DEF MadeThere

-----------------------------------------------------------------------------
(* The drive at the start. *)

Home0(o) == IF \E d \in Lists : o \in InitialKids(d)
            THEN CHOOSE d \in Lists : o \in InitialKids(d) ELSE Nil

\* The initial tree.
LEMMA TreeFacts ==
    /\ Root \in InitialObjects /\ InitialObjects \subseteq Objects
    /\ \A d \in Lists : InitialKids(d) \subseteq InitialObjects \ {Root}
    /\ \A d \in Lists : d \notin InitialObjects => InitialKids(d) = {}
    /\ \A o \in InitialObjects \ {Root} : \E d \in Lists : o \in InitialKids(d)
    /\ \A o \in Objects : \A d \in Lists : o \in InitialKids(d) => Home0(o) = d
    /\ \A o \in Objects : (\A d \in Lists : o \notin InitialKids(d)) => Home0(o) = Nil
<1>1. ASSUME NEW d \in Lists, NEW x \in InitialKids(d)
      PROVE  x \in Objects /\ x \in InitialObjects /\ x # Root /\ d \in InitialObjects
  <2>1. Tree[d] # Nil /\ Tree[d] \in Seq(Objects) /\ x \in Items(Tree[d])
    BY <1>1, TreeAssumption DEF InitialKids
  <2>2. PICK i \in DOMAIN Tree[d] : x = Tree[d][i]
    BY <2>1 DEF Items
  <2>3. x \in Objects
    BY <2>1, <2>2
  <2> QED BY <1>1, <2>1, <2>3, TreeAssumption DEF InitialObjects
<1>2. Root \in InitialObjects /\ InitialObjects \subseteq Objects
  BY <1>1, DriveAssumption DEF InitialObjects
<1>3. \A o \in InitialObjects \ {Root} : \E d \in Lists : o \in InitialKids(d)
  BY DEF InitialObjects
<1>4. ASSUME NEW o \in Objects, NEW d \in Lists, o \in InitialKids(d) PROVE Home0(o) = d
  <2>1. Home0(o) = CHOOSE e \in Lists : o \in InitialKids(e)
    BY <1>4 DEF Home0
  <2>2. Home0(o) \in Lists /\ o \in InitialKids(Home0(o))
    BY <1>4, <2>1
  <2> QED BY <1>4, <2>2, TreeAssumption
<1>5. ASSUME NEW o \in Objects, \A d \in Lists : o \notin InitialKids(d) PROVE Home0(o) = Nil
  BY <1>5 DEF Home0
<1> QED BY <1>1, <1>2, <1>3, <1>4, <1>5

\* The lists at the start.
LEMMA InitKids ==
    ASSUME Init
    PROVE  \A d \in Lists : Kids(d) = InitialKids(d)
<1>1. list = Tree
  BY DEF Init, LoopInit
<1> QED BY <1>1 DEF Kids, Stored, InitialKids, Items

\* The base holds at the start.
LEMMA InitBase ==
    ASSUME Init
    PROVE  Base
<1>0. /\ list = Tree /\ index = <<>> /\ loop = [w \in Workers |-> NoLoop] /\ faults = 0 /\ misled = {}
      /\ there = InitialObjects /\ name = Names /\ whole = there \ Lists
      /\ used = Bytes(there) /\ quota = Limit
      /\ pc = [w \in Workers |-> "idle"] /\ req = [w \in Workers |-> Nil]
      /\ reply = [w \in Workers |-> "none"]
      /\ tally = [w \in Workers |-> NoTally] /\ nodes = [w \in Workers |-> {}]
      /\ src = [w \in Workers |-> Nil]
      /\ crossed = {} /\ stranded = {} /\ gone = {} /\ raced = FALSE
  BY DEF Init, LoopInit
<1>1. parent = [o \in Objects |-> Home0(o)]
  BY DEF Init, Home0
<1>2. \A o \in Objects : Home0(o) \in Lists \cup {Nil}
  BY TreeFacts
<1>3. WorkerTypes
  BY <1>0, NoLoopType DEF WorkerTypes, Labels
<1>4. TallyTypes
  BY <1>0, LoopAssumption DEF TallyTypes, NoTally
<1>5. StoreTypes
  <2>1. index \in [Indexed -> Seq(Objects)]
    BY <1>0, DriveAssumption
  <2>2. there \subseteq Objects /\ whole \subseteq Objects
    BY <1>0, TreeFacts
  <2>3. used \in Nat /\ quota \in Nat
    BY <1>0, <2>2, BytesType, DriveAssumption
  <2>4. faults \in 0..MaxFaults
    BY <1>0, LoopAssumption
  <2>5. parent \in [Objects -> Objects \cup {Nil}]
    BY <1>1, <1>2, DriveAssumption
  <2> QED BY <1>0, <2>1, <2>2, <2>3, <2>4, <2>5, TreeAssumption DEF StoreTypes, Excused
<1>6. TypeOK
  BY <1>0, <1>3, <1>4, <1>5, NoLoopType, TypeParts
<1>7. Stages /\ Once
  BY <1>0 DEF Stages, Once, Fits, Placing, Homed, Moving, Shaky
<1>8. Columns
  <2>1. name \in [Objects -> AllNames]
    BY <1>0, TreeAssumption DEF AllNames
  <2>2. \A o \in there \ {Root} : parent[o] \in Lists
    BY <1>0, <1>1, TreeFacts
  <2>3. \A d \in there \cap Lists : list[d] # Nil
    BY <1>0, TreeAssumption
  <2> QED BY <1>0, <2>1, <2>2, <2>3 DEF Columns
<1> QED BY <1>6, <1>7, <1>8 DEF Base

\* The drive is in order at the start.
LEMMA InitOrdered ==
    ASSUME Init
    PROVE  Ordered /\ Named /\ MadeThere
<1>0. /\ list = Tree /\ loop = [w \in Workers |-> NoLoop] /\ name = Names
      /\ there = InitialObjects /\ pc = [w \in Workers |-> "idle"]
      /\ nodes = [w \in Workers |-> {}] /\ gone = {} /\ Excused = {} /\ crossed = {}
  BY DEF Init, LoopInit, Excused
<1>1. parent = [o \in Objects |-> Home0(o)]
  BY DEF Init, Home0
<1>2. \A d \in Lists : Kids(d) = InitialKids(d)
  BY InitKids
<1>3. Base
  BY InitBase
<1>4. Active = {} /\ \A o : Shakes(o) = {}
  BY <1>0 DEF Active, Shakes, Shaky
<1>5. Fresh
  <2> SUFFICES ASSUME NEW o \in Unborn
               PROVE  /\ o \notin there /\ parent[o] = Nil
                      /\ o \in Lists => list[o] = Nil
                      /\ \A d \in Lists : o \notin Kids(d)
                      /\ \A x \in Objects : parent[x] # o
    BY <1>0, <1>4 DEF Fresh
  <2>1. o \in Objects /\ o \notin InitialObjects /\ o # Nil
    BY NewUidAssumption, DriveAssumption DEF Unborn
  <2>2. \A d \in Lists : o \notin InitialKids(d)
    BY <2>1, TreeFacts
  <2>3. ASSUME NEW x \in Objects PROVE Home0(x) # o
    <3>1. CASE \E d \in Lists : x \in InitialKids(d)
      BY <2>1, <3>1, TreeFacts
    <3>2. CASE \A d \in Lists : x \notin InitialKids(d)
      BY <2>1, <3>2, TreeFacts
    <3> QED BY <3>1, <3>2
  <2>4. Home0(o) = Nil /\ (o \in Lists => Tree[o] = Nil)
    BY <2>1, <2>2, TreeFacts, TreeAssumption
  <2> QED BY <1>0, <1>1, <1>2, <2>1, <2>2, <2>3, <2>4
<1>6. Apart
  BY <1>3, <1>4, <1>5 DEF Apart, Sep, CrossedDown
<1>7. Lost
  <2>1. LostFolders
    BY <1>0, <1>2, TreeFacts DEF LostFolders
  <2>2. LostLoops /\ NewFolders
    BY <1>0, NoLoopType DEF LostLoops, NewFolders
  <2> QED BY <2>1, <2>2 DEF Lost
<1>8. Gone
  <2>1. RootKept
    BY <1>0, <1>2, TreeFacts DEF RootKept
  <2> QED BY <1>0, <1>4, <2>1 DEF Gone, GoneUp, GoneDown, NodesGone, DeleteClosed, Ready
<1>9. Homes /\ OneHome
  <2>1. ASSUME NEW o \in Objects PROVE HomeOf(o)
    <3>1. ASSUME o \in InitialObjects \ {Root}, NEW d \in Lists PROVE o \in Kids(d) <=> d = parent[o]
      <4>1. PICK e \in Lists : o \in InitialKids(e)
        BY <3>1, TreeFacts
      <4> QED BY <1>1, <1>2, <4>1, TreeFacts
    <3>2. ASSUME o \notin InitialObjects, NEW d \in Lists PROVE o \notin Kids(d)
      BY <1>2, <3>2, TreeFacts
    <3> QED BY <1>0, <1>4, <3>1, <3>2 DEF HomeOf
  <2> QED BY <1>2, <2>1, TreeAssumption DEF Homes, OneHome
<1>10. Named
  <2>1. NamesApart
    BY <1>0, <1>2, TreeAssumption DEF NamesApart
  <2> QED BY <1>4, <2>1 DEF Named, NamePending, NameSep
<1>11. MadeThere
  BY <1>0 DEF MadeThere, Created
<1> QED BY <1>6, <1>7, <1>8, <1>9, <1>10, <1>11 DEF Ordered

-----------------------------------------------------------------------------
(* The invariant, and what follows from it. *)

DriveInv == Ordered /\ Named /\ MadeThere

\* A step that changes nothing.
LEMMA InvStutters ==
    ASSUME DriveInv, UNCHANGED dvars
    PROVE  DriveInv'
<1> USE DEF dvars, lvars, hvars, ovars, uvars, gvars
<1>1. UNCHANGED <<Kids(Root), Excused, Active, Unborn>>
  BY DEF Kids, Stored, Excused, Active, Unborn
<1>2. \A d : Kids(d)' = Kids(d)
  BY DEF Kids, Stored
<1>3. Links(there)' = Links(there)
  BY <1>2 DEF Links
<1>4. \A o : Reach(o, Links(there)') = Subtree(o)
  BY <1>3 DEF Subtree
<1>5. Base'
  BY <1>1 DEF DriveInv, Ordered, Apart, Base, TypeOK, LoopTypeOK, Stages, Once, Columns
<1>6. Fresh'
  BY <1>1, <1>2 DEF DriveInv, Ordered, Apart, Fresh
<1>7. Sep' /\ CrossedDown'
  BY <1>1, <1>4 DEF DriveInv, Ordered, Apart, Sep, CrossedDown, Touches, Subtree
<1>8. Lost'
  BY <1>1, <1>2 DEF DriveInv, Ordered, Lost, LostFolders, LostLoops, NewFolders
<1>9. RootKept' /\ GoneUp' /\ GoneDown' /\ NodesGone' /\ Ready'
  BY <1>1, <1>2 DEF DriveInv, Ordered, Gone, RootKept, GoneUp, GoneDown, NodesGone, Ready, Touches
<1>10. DeleteClosed'
  BY <1>1, <1>2, <1>4 DEF DriveInv, Ordered, Gone, DeleteClosed, Subtree
<1>11. OneHome' /\ Homes'
  BY <1>1, <1>2 DEF DriveInv, Ordered, OneHome, Homes, HomeOf, Held, HomeAt, Shakes
<1>12. Named'
  BY <1>1, <1>2 DEF DriveInv, Named, NamesApart, NamePending, NameSep, Places, NewName, GivenNames
<1>13. MadeThere'
  BY <1>1 DEF DriveInv, MadeThere, Created
<1> QED
  BY <1>5, <1>6, <1>7, <1>8, <1>9, <1>10, <1>11, <1>12, <1>13 DEF DriveInv, Ordered, Apart, Gone

\* Every step keeps the invariant.
LEMMA InvNext ==
    ASSUME DriveInv, [Next]_dvars
    PROVE  DriveInv'
<1>1. CASE UNCHANGED dvars
  BY <1>1, InvStutters
<1>2. CASE Next
  <2>0. Base /\ Fresh /\ Ordered /\ Named /\ MadeThere
    BY DEF DriveInv, Ordered, Apart
  <2>1. PICK w \in Workers : Base' /\ (Ends(w) \/ Commits(w))
    BY <1>2, <2>0, Sorted
  <2>2. CASE Ends(w)
    BY <2>0, <2>1, <2>2, OrderedEnds, NamedEnds, MadeEnds DEF DriveInv
  <2>3. CASE Commits(w)
    BY <2>0, <2>1, <2>3, OrderedCommits, NamedCommits, MadeCommits DEF DriveInv
  <2> QED BY <2>1, <2>2, <2>3
<1> QED BY <1>1, <1>2

\* Every state of the drive is in order: what is in no conflict is in the one
\* folder that its parent column names, or on its way between two.
THEOREM DriveInvariant == Spec => []DriveInv
<1>1. Init => DriveInv
  BY InitOrdered DEF DriveInv
<1>2. DriveInv /\ [Next]_dvars => DriveInv'
  BY InvNext
<1> QED BY <1>1, <1>2, PTL DEF Spec

\* The types of all variables.
THEOREM DriveTypes == Spec => []TypeOK
<1>1. DriveInv => TypeOK
  BY DEF DriveInv, Ordered, Apart, Base
<1> QED BY <1>1, DriveInvariant, PTL

\* What a path leads to is there.
LEMMA ListedThere ==
    ASSUME DriveInv, NEW o \in Listed, o \notin Excused
    PROVE  o \in there
<1>0. Base /\ RootKept /\ GoneUp /\ Homes
  BY DEF DriveInv, Ordered, Apart, Gone
<1>1. CASE o = Root
  BY <1>0, <1>1 DEF RootKept
<1>2. CASE o # Root
  <2>1. PICK y \in Listed \cap there \cap Lists : o \in Kids(y)
    BY <1>0, <1>2, ListedHolder
  <2>2. o \in Objects
    BY <1>0, <1>2, ListedHolder
  <2>3. o \notin gone
    BY <1>0, GoneListed
  <2> QED BY <1>0, <2>1, <2>2, <2>3 DEF Homes, HomeOf
<1> QED BY <1>1, <1>2

\* What a path leads to can be opened at every moment, for any tree, requests and
\* number of faults.
THEOREM AlwaysWhole == Spec => []Whole
<1>1. ASSUME DriveInv PROVE Whole
  <2>1. there \ Lists \subseteq whole
    BY <1>1 DEF DriveInv, Ordered, Apart, Base, Columns
  <2> QED BY <1>1, <2>1, ListedThere DEF Whole, Downloads, AllBytes
<1> QED BY <1>1, DriveInvariant, PTL

\* No folder that a path leads to shows two children of one name.
THEOREM AlwaysUniqueNames == Spec => []UniqueNames
<1>1. ASSUME DriveInv PROVE UniqueNames
  <2> SUFFICES ASSUME NEW d \in Found \cap Lists, NEW x \in Kids(d), NEW y \in Kids(d),
                      x \notin Excused, y \notin Excused, x # y
               PROVE  Listing(d)[x] # Listing(d)[y]
    BY DEF UniqueNames
  <2>0. Base /\ NamesApart
    BY <1>1 DEF DriveInv, Ordered, Apart, Named
  <2>1. Kids(d) \subseteq Listed
    <3>1. Root \in Objects /\ d \in Subtree(Root) /\ d \in there
      BY DriveAssumption DEF Found, Listed
    <3> QED BY <2>0, <3>1, SubtreeIs DEF Listed
  <2>2. x \in there /\ y \in there
    BY <1>1, <2>1, ListedThere
  <2>3. Listing(d)[x] = name[x] /\ Listing(d)[y] = name[y]
    BY <2>2 DEF Listing
  <2> QED BY <2>0, <2>3 DEF NamesApart
<1> QED BY <1>1, DriveInvariant, PTL

\* When all requests are answered, everything that was made and not deleted is in
\* one folder.
THEOREM AlwaysKept == Spec => []Kept
<1>1. ASSUME DriveInv PROVE Kept
  <2> SUFFICES ASSUME Busy = {}, NEW o \in Made, o \notin Excused, o \notin gone
               PROVE  o \in there /\ {d \in Lists : o \in Kids(d)} = {parent[o]}
    BY DEF Kept
  <2>0. Base /\ Homes /\ MadeThere /\ Columns /\ Stages
    BY <1>1 DEF DriveInv, Ordered, Apart, Base
  <2>1. o \in there /\ o # Root
    <3>1. CASE \E d \in Lists : o \in InitialKids(d)
      BY <2>0, <3>1, TreeFacts DEF MadeThere
    <3>2. CASE \E w \in Workers : reply[w] = "ok" /\ req[w].do \in Creates /\ o = req[w].uid
      <4>1. PICK w \in Workers : reply[w] = "ok" /\ req[w].do \in Creates /\ o = req[w].uid
        BY <3>2
      <4>2. pc[w] # "idle"
        BY <2>0, <4>1 DEF Stages, Fits
      <4>3. req[w] \in Requests
        BY <2>0, <4>2, BaseAt
      <4>4. o # Root
        BY <4>1, <4>3, NewUidAssumption, TreeFacts
      <4> QED BY <2>0, <4>1, <4>2, <4>4 DEF MadeThere, Created
    <3> QED BY <3>1, <3>2 DEF Made
  <2>2. o \in Objects /\ parent[o] \in Lists
    BY <2>0, <2>1, PartsNow DEF Parts, StoreTypes, Columns
  <2>3. Shakes(o) = {}
    BY DEF Shakes, Busy, Shaky
  <2>4. \A d \in Lists : o \in Kids(d) <=> d = parent[o]
    BY <2>0, <2>1, <2>2, <2>3 DEF Homes, HomeOf
  <2> QED BY <2>1, <2>2, <2>4
<1> QED BY <1>1, DriveInvariant, PTL

-----------------------------------------------------------------------------
(* The sum of sizes. *)

\* Different objects have different bytes.
LEMMA BytesUnion ==
    ASSUME NEW S \in SUBSET Objects, NEW T \in SUBSET Objects, S \cap T = {}
    PROVE  Bytes(S \cup T) = Bytes(S) + Bytes(T)
<1> DEFINE B(X) == UNION {{o} \X (1..Sizes[o]) : o \in X}
<1>1. IsFiniteSet(B(S)) /\ IsFiniteSet(B(T))
  BY BytesType
<1>2. B(S \cup T) = B(S) \cup B(T)
  OBVIOUS
<1>3. B(S) \cap B(T) = {}
  <2> SUFFICES ASSUME NEW p \in B(S), p \in B(T) PROVE FALSE
    OBVIOUS
  <2>1. PICK x \in S : p \in {x} \X (1..Sizes[x])
    OBVIOUS
  <2>2. PICK y \in T : p \in {y} \X (1..Sizes[y])
    OBVIOUS
  <2>3. p[1] = x /\ p[1] = y
    BY <2>1, <2>2
  <2> QED BY <2>3
<1>4. Bytes(S) = Cardinality(B(S)) /\ Bytes(T) = Cardinality(B(T))
      /\ Bytes(S \cup T) = Cardinality(B(S \cup T))
  BY DEF Bytes
<1>5. Bytes(S) \in Nat /\ Bytes(T) \in Nat
  BY BytesType
<1> HIDE DEF B
<1>6. Cardinality(B(S) \cup B(T)) = Cardinality(B(S)) + Cardinality(B(T)) - Cardinality({})
  BY <1>1, <1>3, FS_Union
<1>7. Cardinality({}) = 0
  BY FS_EmptySet
<1>8. Bytes(S \cup T) = Bytes(S) + Bytes(T) - 0
  BY <1>2, <1>4, <1>6, <1>7, Zenon
<1> QED BY <1>5, <1>8

\* The bytes of one object, and of none.
LEMMA BytesOne ==
    ASSUME NEW o \in Objects
    PROVE  Bytes({o}) = Sizes[o] /\ Sizes[o] \in Nat
<1>1. Sizes[o] \in Nat /\ 1 \in Int /\ Sizes[o] \in Int
  BY DriveAssumption
<1>2. IsFiniteSet(1..Sizes[o]) /\ Cardinality(1..Sizes[o]) = Sizes[o]
  BY <1>1, FS_Interval
<1>3. IsFiniteSet({o}) /\ Cardinality({o}) = 1
  BY FS_Singleton
<1>4. Cardinality({o} \X (1..Sizes[o])) = 1 * Sizes[o]
  BY <1>2, <1>3, FS_Product
<1>5. UNION {{x} \X (1..Sizes[x]) : x \in {o}} = {o} \X (1..Sizes[o])
  OBVIOUS
<1>6. Bytes({o}) = 1 * Sizes[o]
  BY <1>4, <1>5, Zenon DEF Bytes
<1> QED BY <1>1, <1>6

\* No objects have no bytes.
LEMMA BytesNone == Bytes({}) = 0
<1>1. UNION {{x} \X (1..Sizes[x]) : x \in {}} = {}
  OBVIOUS
<1> QED BY <1>1, FS_EmptySet DEF Bytes

\* Objects and the rest.
LEMMA BytesWithout ==
    ASSUME NEW S \in SUBSET Objects, NEW T \in SUBSET S
    PROVE  /\ Bytes(S) = Bytes(T) + Bytes(S \ T)
           /\ Bytes(S) \in Nat /\ Bytes(T) \in Nat /\ Bytes(S \ T) \in Nat
<1>1. S = T \cup (S \ T) /\ T \cap (S \ T) = {} /\ T \in SUBSET Objects /\ S \ T \in SUBSET Objects
  OBVIOUS
<1> QED BY <1>1, BytesUnion, BytesType

-----------------------------------------------------------------------------
(* As long as no call fails and no requests are in conflict. *)

Calm == faults = 0 /\ ~raced /\ Excused = {}

\* The parent columns lead to the root.
Upward ==
    \A S \in SUBSET (there \ gone) :
        S # {} /\ (\A o \in S \ {Root} : parent[o] \in S) => Root \in S

\* No folder is on its way into itself.
Outward ==
    \A w \in Workers : pc[w] \in {"taking", "putting"} => req[w].dir \notin Subtree(req[w].uid)

\* What is deleted and has columns still is a node that a request has to delete.
GoneNodes == \A o \in there \cap gone : \E w \in Workers : pc[w] = "deleting" /\ o \in nodes[w]

\* Who changes the counter, and by how much.
Tallies ==
    \A w \in Workers :
        /\ tally[w].st # "off" => pc[w] \in {"counting", "freeing"}
        /\ tally[w].delta # 0 => pc[w] = "deleting" \/ tally[w].st # "off"
        /\ pc[w] = "counting" /\ tally[w].st # "off" => tally[w].delta = Sizes[req[w].uid]

\* The uploads that have to be added to the counter.
Adds(w) == pc[w] = "linking" \/ (pc[w] = "counting" /\ tally[w].st # "off")
Uncounted == {o \in Objects : \E w \in Workers : Adds(w) /\ o = req[w].uid}

\* own[o] is the request that has deleted o and has not subtracted it.
Due(w) == IF pc[w] \in {"deleting", "freeing"} THEN 0 - tally[w].delta ELSE 0
Share(A, own, w) == {o \in A : own[o] = w}
Counts(A, own) ==
    /\ \A w \in Workers : /\ Bytes(Share(A, own, w)) = Due(w)
                          /\ tally[w].st = "write" => Due(w) <= tally[w].old
    /\ used = Bytes(A) + Bytes(there \ Uncounted)
Counting == \E A \in SUBSET (gone \ there) : \E own \in [A -> Workers] : Counts(A, own)

UsedInv == Calm => Upward /\ Outward /\ GoneNodes /\ Tallies /\ Counting

-----------------------------------------------------------------------------
(* The parent columns lead to the root. *)

\* In a calm state the parent of what is there is a folder that is there and,
\* unless a request has the object, holds it.
LEMMA CalmParent ==
    ASSUME DriveInv, Calm, NEW x \in there, x \notin gone, x # Root
    PROVE  /\ x \in Objects /\ parent[x] \in there \cap Lists /\ parent[x] \notin gone
           /\ x \in Kids(parent[x]) \/ \E w \in Workers : pc[w] \in Shaky /\ req[w].uid = x /\ parent[x] \in Touches(w)
<1>0. /\ Base /\ Homes /\ GoneDown /\ LostFolders /\ Ready
      /\ Excused = {} /\ crossed = {}
  BY DEF DriveInv, Ordered, Apart, Gone, Lost, Calm, Excused
<1>1. x \in Objects /\ parent[x] \in Lists
  BY <1>0, PartsNow DEF Parts, StoreTypes, Columns
<1>2. HomeOf(x)
  BY <1>0, <1>1 DEF Homes
<1>3. CASE Shakes(x) = {}
  <2>1. x \in Kids(parent[x])
    BY <1>1, <1>2, <1>3 DEF HomeOf
  <2> QED BY <1>0, <1>1, <2>1 DEF LostFolders, GoneDown
<1>4. CASE Shakes(x) # {}
  <2>1. PICK w \in Workers : pc[w] \in Shaky /\ req[w].uid = x /\ Held(w)
    BY <1>2, <1>4 DEF Shakes, HomeOf
  <2>2. parent[x] = HomeAt(w) /\ HomeAt(w) \in Touches(w)
    BY <2>1 DEF Held, HomeAt, Touches
  <2>3. w \in Active
    BY <2>1 DEF Active
  <2>4. /\ Touches(w) \cap gone = {} /\ src[w] \in there \cup {Nil}
        /\ pc[w] = "linking" => req[w].dir \in there
    BY <1>0, <2>3 DEF Ready, Placing
  <2>5. Nil \notin Lists
    BY DriveAssumption
  <2>6. parent[x] \in there
    BY <1>1, <2>2, <2>4, <2>5 DEF HomeAt
  <2> QED BY <1>1, <2>1, <2>2, <2>4, <2>6
<1> QED BY <1>3, <1>4

\* What is not in the subtree that a request has is in a folder that is not.
LEMMA ParentOutside ==
    ASSUME DriveInv, Calm, NEW w \in Workers, pc[w] \in Shaky,
           NEW x \in there, x \notin gone, x # Root, x \notin Subtree(req[w].uid)
    PROVE  parent[x] \in there /\ parent[x] \notin gone /\ parent[x] \notin Subtree(req[w].uid)
<1>0. Base /\ Sep /\ crossed = {} /\ w \in Active /\ req[w].uid \in Objects
  BY LoopWhere DEF DriveInv, Ordered, Apart, Calm, Excused
<1>1. /\ parent[x] \in there \cap Lists /\ parent[x] \notin gone
      /\ x \in Kids(parent[x]) \/ \E v \in Workers : pc[v] \in Shaky /\ req[v].uid = x /\ parent[x] \in Touches(v)
  BY CalmParent
<1>2. /\ req[w].uid \in Subtree(req[w].uid)
      /\ \A y \in Subtree(req[w].uid) \cap there : Kids(y) \subseteq Subtree(req[w].uid)
  BY <1>0, SubtreeIs
<1>3. CASE x \in Kids(parent[x])
  BY <1>1, <1>2, <1>3
<1>4. CASE \E v \in Workers : pc[v] \in Shaky /\ req[v].uid = x /\ parent[x] \in Touches(v)
  <2>1. PICK v \in Workers : pc[v] \in Shaky /\ req[v].uid = x /\ parent[x] \in Touches(v)
    BY <1>4
  <2>2. v # w /\ v \in Active
    BY <1>2, <2>1 DEF Active
  <2>3. Subtree(req[w].uid) \cap Touches(v) = {}
    BY <1>0, <2>2 DEF Sep
  <2> QED BY <1>1, <2>1, <2>3
<1> QED BY <1>1, <1>3, <1>4

\* Fewer objects with the same parents.
LEMMA UpwardLess ==
    ASSUME Upward, there' \ gone' \subseteq there \ gone,
           \A x \in there' \ gone' : parent'[x] = parent[x]
    PROVE  Upward'
<1> SUFFICES ASSUME NEW S \in SUBSET (there' \ gone'), S # {}, \A o \in S \ {Root} : parent'[o] \in S
             PROVE  Root \in S
  BY DEF Upward
<1>1. S \in SUBSET (there \ gone) /\ \A o \in S \ {Root} : parent[o] \in S
  OBVIOUS
<1> QED BY <1>1 DEF Upward

\* A moved object is in a folder that is not below it.
LEMMA UpwardMoved ==
    ASSUME DriveInv, Calm, Upward, Outward, NEW w \in Workers, pc[w] = "putting",
           there' = there, gone' = gone, parent' = [parent EXCEPT ![req[w].uid] = req[w].dir]
    PROVE  Upward'
<1> DEFINE u == req[w].uid
           T == (there \ gone) \ Subtree(u)
<1>0. /\ Base /\ Ready /\ crossed = {} /\ w \in Active /\ u \in Objects /\ pc[w] \in Shaky
      /\ parent \in [Objects -> Objects \cup {Nil}] /\ there \subseteq Objects
  <2>1. pc[w] \in Shaky
    BY DEF Shaky
  <2>2. Base /\ Ready /\ crossed = {}
    BY DEF DriveInv, Ordered, Apart, Gone, Calm, Excused
  <2> QED BY <2>1, <2>2, LoopWhere, PartsNow DEF Parts, StoreTypes
<1>1. req[w].dir \in T
  <2>1. req[w].dir \in there /\ req[w].dir \notin gone
    BY <1>0 DEF Ready, Placing, Moving, Touches
  <2> QED BY <2>1 DEF Outward
<1>2. \A x \in T \ {Root} : parent[x] \in T
  BY <1>0, ParentOutside
<1>3. u \notin T
  BY <1>0, SubtreeIs
<1> SUFFICES ASSUME NEW S \in SUBSET (there \ gone), S # {}, \A o \in S \ {Root} : parent'[o] \in S
             PROVE  Root \in S
  BY DEF Upward
<1>4. \A x \in S \ {u} : x \in Objects /\ parent'[x] = parent[x]
  BY <1>0
<1>5. CASE u \notin S
  <2>1. \A x \in S \ {Root} : parent[x] \in S
    BY <1>4, <1>5
  <2> QED BY <2>1 DEF Upward
<1>6. CASE u \in S
  <2>1. CASE u = Root
    BY <1>6, <2>1
  <2>2. CASE u # Root
    <3>1. parent'[u] = req[w].dir
      BY <1>0
    <3>2. req[w].dir \in S \cap T
      BY <1>1, <1>6, <2>2, <3>1
    <3>3. \A x \in (S \cap T) \ {Root} : parent[x] \in S \cap T
      BY <1>2, <1>3, <1>4
    <3>4. S \cap T \in SUBSET (there \ gone)
      OBVIOUS
    <3> HIDE DEF T
    <3>5. Root \in S \cap T
      BY <3>2, <3>3, <3>4 DEF Upward
    <3> QED BY <3>5
  <2> QED BY <2>1, <2>2
<1> QED BY <1>5, <1>6

\* A new object has nothing in it.
LEMMA UpwardPlaced ==
    ASSUME DriveInv, Upward, NEW u \in Unborn, NEW d \in there, gone' = gone,
           there' = there \cup {u}, parent' = [parent EXCEPT ![u] = d]
    PROVE  Upward'
<1>0. /\ Fresh /\ parent \in [Objects -> Objects \cup {Nil}] /\ there \subseteq Objects
      /\ u \in Objects
  BY PartsNow, RequestTypes DEF DriveInv, Ordered, Apart, Parts, StoreTypes, Unborn
<1>1. u \notin there /\ \A x \in Objects : parent[x] # u
  BY <1>0 DEF Fresh
<1> SUFFICES ASSUME NEW S \in SUBSET (there' \ gone'), S # {}, \A o \in S \ {Root} : parent'[o] \in S
             PROVE  Root \in S
  BY DEF Upward
<1>2. CASE u = Root
  <2>1. CASE u \in S
    BY <1>2, <2>1
  <2>2. CASE u \notin S
    <3>1. S \in SUBSET (there \ gone)
      BY <2>2
    <3>2. \A o \in S \ {Root} : parent[o] \in S
      BY <1>0, <2>2
    <3> QED BY <3>1, <3>2 DEF Upward
  <2> QED BY <2>1, <2>2
<1>3. CASE u # Root
  <2> DEFINE R == S \ {u}
  <2>1. R \in SUBSET (there \ gone)
    OBVIOUS
  <2>2. \A o \in R \ {Root} : parent[o] \in R
    BY <1>0, <1>1
  <2>3. R # {}
    <3>1. CASE u \in S
      <4>1. d \in S /\ d # u
        BY <1>0, <1>1, <1>3, <3>1
      <4> QED BY <4>1
    <3>2. CASE u \notin S
      BY <3>2
    <3> QED BY <3>1, <3>2
  <2>4. Root \in R
    <3> HIDE DEF R
    <3> QED BY <2>1, <2>2, <2>3 DEF Upward
  <2> QED BY <2>4
<1> QED BY <1>2, <1>3

\* In a calm state that comes next, every step keeps the parents in order.
LEMMA UpwardNext ==
    ASSUME DriveInv, Calm, Calm', Base', Upward, Outward, NEW w \in Workers, Ends(w) \/ Commits(w)
    PROVE  Upward'
<1>0. Base /\ parent \in [Objects -> Objects \cup {Nil}] /\ there \subseteq Objects
  BY PartsNow DEF DriveInv, Ordered, Apart, Parts, StoreTypes
<1>1. CASE Still(w) \/ LoopTurn(w) \/ Renames(w) \/ Unlinks(w)
  <2>1. parent' = parent /\ there' = there /\ gone \subseteq gone'
    BY <1>1 DEF Still, LoopTurn, Renames, Unlinks
  <2> QED BY <2>1, UpwardLess
<1>2. CASE Turn(w)
  <2>0. there' = there /\ gone' = gone
    BY <1>2 DEF Turn
  <2>1. CASE parent' = parent
    BY <2>0, <2>1, UpwardLess
  <2>2. CASE parent' # parent
    <3>1. pc[w] = "putting"
      BY <1>2, <2>2 DEF Turn
    <3>2. parent' = [parent EXCEPT ![req[w].uid] = req[w].dir]
      BY <1>2, <2>2 DEF Turn
    <3> QED BY <2>0, <3>1, <3>2, UpwardMoved
  <2> QED BY <2>1, <2>2
<1>3. ASSUME NEW o \in Objects, Deletes(w, o) PROVE Upward'
  <2>1. there' = there \ {o} /\ gone' = gone /\ parent' = [parent EXCEPT ![o] = Nil]
    BY <1>3 DEF Deletes, DeleteColumns
  <2>2. \A x \in there' \ gone' : parent'[x] = parent[x]
    BY <1>0, <2>1
  <2> QED BY <2>1, <2>2, UpwardLess
<1>4. CASE Commits(w)
  <2>0. gone' = gone
    BY <1>4 DEF Commits
  <2>1. CASE pc'[w] = "linking"
    <3>1. /\ req[w].uid \in Unborn /\ req[w].dir \in there /\ there' = there \cup {req[w].uid}
          /\ parent' = [parent EXCEPT ![req[w].uid] = req[w].dir]
      BY <1>4, <2>1 DEF Commits, Found
    <3> QED BY <2>0, <3>1, UpwardPlaced
  <2>2. CASE pc'[w] # "linking"
    <3>1. there' = there /\ parent' = parent
      BY <1>4, <2>2 DEF Commits
    <3> QED BY <2>0, <3>1, UpwardLess
  <2> QED BY <2>1, <2>2
<1> QED BY <1>1, <1>2, <1>3, <1>4 DEF Ends

-----------------------------------------------------------------------------
(* No folder is on its way into itself. *)

\* Above is closed under the parents.
LEMMA AboveIs ==
    ASSUME Base, NEW d \in Objects
    PROVE  /\ d \in Above(d) /\ Above(d) \subseteq Objects
           /\ \A x \in Above(d) : parent[x] # Nil => parent[x] \in Above(d)
<1> DEFINE next == [x \in Objects |-> {parent[x]} \ {Nil}]
<1>1. parent \in [Objects -> Objects \cup {Nil}]
  BY PartsNow DEF Parts, StoreTypes
<1>2. next \in [Objects -> SUBSET Objects] /\ \A x \in Objects : next[x] = {parent[x]} \ {Nil}
  BY <1>1
<1>3. Above(d) = Reach(d, next)
  BY DEF Above
<1> HIDE DEF next
<1>4. /\ d \in Reach(d, next) /\ Reach(d, next) \subseteq Objects
      /\ \A x \in Reach(d, next) : next[x] \subseteq Reach(d, next)
  BY <1>2, ReachClosed
<1> QED BY <1>2, <1>3, <1>4

\* The check of a move speaks of the lists too: nobody else handles what is below the
\* object.
LEMMA OutwardBegins ==
    ASSUME DriveInv, Calm, Calm', Base', NEW w \in Workers, Commits(w), pc'[w] = "taking"
    PROVE  req[w].dir \notin Subtree(req[w].uid)
<1> DEFINE u == req[w].uid
           d == req[w].dir
<1>0. /\ Base /\ Fresh /\ RootKept /\ GoneUp /\ Homes
      /\ Excused = {} /\ crossed' = {} /\ faults' = faults
  BY DEF DriveInv, Ordered, Apart, Gone, Calm, Excused
<1>1. /\ u \in Found /\ u \in Objects /\ d \in Found \cap Lists
      /\ u \in Lists => u \notin Above(d)
  BY <1>0, CommitFacts DEF Commits
<1>2. u \in there /\ u \notin gone /\ d \in Objects
  <2>1. Listed \cap gone = {}
    BY <1>0, GoneListed
  <2> QED BY <1>1, <2>1, DriveAssumption DEF Found
<1>3. \A v \in Active : req[v].uid \notin Subtree(u)
  <2> SUFFICES ASSUME NEW v \in Active, req[v].uid \in Subtree(u) PROVE FALSE
    OBVIOUS
  <2>1. Conflict(v, w)
    BY DEF Conflict, Needs
  <2> QED BY <1>0, <2>1, HarmFacts
<1>4. SUFFICES ASSUME d \in Subtree(u) PROVE FALSE
  OBVIOUS
<1>5. /\ \A x \in Subtree(u) \ {u} : \E y \in Subtree(u) \cap there \cap Lists : x \in Kids(y)
      /\ Subtree(u) \subseteq Objects
  BY <1>0, <1>1, SubtreeIs
<1>6. CASE u \notin Lists
  <2>1. d # u
    BY <1>1, <1>6
  <2>2. Subtree(u) \subseteq {u}
    <3>1. Kids(u) = {}
      BY <1>6 DEF Kids
    <3>2. LinksOK
      BY <1>0, LinksNow
    <3>3. u \in {u} /\ \A x \in {u} \cap Objects : Links(there)[x] \subseteq {u}
      BY <3>1, <3>2 DEF LinksOK
    <3>4. Reach(u, Links(there)) \subseteq {u}
      <4> DEFINE T == {u}
      <4> HIDE DEF T
      <4>1. u \in T /\ \A x \in T \cap Objects : Links(there)[x] \subseteq T
        BY <3>3 DEF T
      <4>2. Reach(u, Links(there)) \subseteq T
        BY <1>1, <3>2, <4>1, ReachLeast DEF LinksOK
      <4> QED BY <4>2 DEF T
    <3> QED BY <3>4 DEF Subtree
  <2> QED BY <1>4, <2>1, <2>2
<1>7. CASE u \in Lists
  <2> DEFINE T == {x \in Subtree(u) \ gone : u \in Above(x)}
  <2>1. u \in T
    BY <1>0, <1>1, <1>2, SubtreeIs, AboveIs
  <2>2. ASSUME NEW x \in T, x \in there, NEW k \in Kids(x) PROVE k \in T
    <3>0. x \in Lists /\ x \in Objects /\ x \in Subtree(u) /\ x \notin gone /\ u \in Above(x)
      BY <1>5, <2>2 DEF Kids
    <3>1. k \in Subtree(u) /\ k \in Objects
      BY <1>0, <1>1, <1>5, <2>2, <3>0, SubtreeIs
    <3>2. k \notin gone
      BY <1>0, <2>2, <3>0 DEF GoneUp
    <3>3. Shakes(k) = {}
      BY <1>3, <3>1 DEF Shakes, Active
    <3>4. HomeOf(k) /\ k # Root
      BY <1>0, <2>2, <3>0, <3>1, <3>2 DEF Homes, RootKept
    <3>5. parent[k] = x
      BY <2>2, <3>0, <3>3, <3>4 DEF HomeOf
    <3>6. u \in Above(k)
      <4>1. x # Nil
        BY <3>0, DriveAssumption
      <4>2. x \in Above(k)
        BY <1>0, <3>1, <3>5, <4>1, AboveIs
      <4> DEFINE next == [y \in Objects |-> {parent[y]} \ {Nil}]
      <4>3. next \in [Objects -> SUBSET Objects]
        BY <1>0, PartsNow DEF Parts, StoreTypes
      <4>4. Reach(x, next) \subseteq Reach(k, next)
        <5>1. x \in Reach(k, next)
          BY <4>2 DEF Above
        <5> HIDE DEF next
        <5> QED BY <3>1, <4>3, <5>1, ReachOn
      <4> QED BY <3>0, <4>4 DEF Above
    <3> QED BY <3>1, <3>2, <3>6
  <2>3. Subtree(u) \subseteq T
    <3>1. LinksOK
      BY <1>0, LinksNow
    <3>2. \A x \in T \cap Objects : Links(there)[x] \subseteq T
      BY <2>2, <3>1 DEF LinksOK
    <3> HIDE DEF T
    <3> QED BY <1>1, <2>1, <3>1, <3>2, ReachLeast DEF LinksOK, Subtree
  <2>4. u \in Above(d)
    BY <1>4, <2>3
  <2> QED BY <1>1, <1>7, <2>4
<1> QED BY <1>6, <1>7

\* The subtree that a request moves grows only by its own loop, which is not on it.
LEMMA OutwardNext ==
    ASSUME DriveInv, Calm, Calm', Base', Outward, NEW w \in Workers, Ends(w) \/ Commits(w)
    PROVE  Outward'
<1>0. Base /\ Fresh /\ Sep /\ CrossedDown /\ crossed = {} /\ crossed' = {}
  BY DEF DriveInv, Ordered, Apart, Calm, Excused
<1> SUFFICES ASSUME NEW v \in Workers, pc'[v] \in {"taking", "putting"}
             PROVE  req'[v].dir \notin Reach(req'[v].uid, Links(there)')
  BY DEF Outward, Subtree
<1>1. CASE Commits(w)
  <2>1. req' = req /\ \A o \in Objects : Reach(o, Links(there)') = Subtree(o)
    BY <1>0, <1>1, CommitFacts
  <2>2. req[v].dir \notin Subtree(req[v].uid)
    <3>1. CASE v = w
      <4>1. pc'[w] = "taking"
        BY <1>1, <3>1 DEF Commits
      <4> QED BY <1>1, <3>1, <4>1, OutwardBegins
    <3>2. CASE v # w
      <4>1. pc'[v] = pc[v]
        BY <1>1, <3>2 DEF Commits, Alone
      <4> QED BY <4>1 DEF Outward
    <3> QED BY <3>1, <3>2
  <2>3. req[v].uid \in Objects
    <3>1. req'[v].uid \in Objects
      <4>1. \A x \in Workers : pc[x] \in Shaky => req[x].uid \in Objects
        BY <1>0, LoopWhere
      <4>2. req[w].uid \in Objects
        BY <1>0, <1>1, CommitFacts
      <4>3. v # w => pc[v] \in Shaky
        BY <1>1 DEF Commits, Alone, Shaky
      <4> QED BY <2>1, <4>1, <4>2, <4>3
    <3> QED BY <2>1, <3>1
  <2> QED BY <2>1, <2>2, <2>3
<1>2. CASE Ends(w)
  <2>0. Later(w)
    BY <1>0, <1>2, LaterStep
  <2>1. pc[v] \in {"taking", "putting"} /\ req'[v] = req[v]
    <3>1. CASE v # w
      BY <2>0, <3>1 DEF Later, Alone
    <3>2. CASE v = w
      BY <1>2, <3>2 DEF Ends, Still, Turn, LoopTurn, Renames, Unlinks, Deletes, Shaky
    <3> QED BY <3>1, <3>2
  <2> DEFINE u == req[v].uid
  <2>2. pc[v] \in Shaky /\ v \in Active /\ u \in Objects /\ req[v].dir \notin Subtree(u)
    BY <1>0, <2>1, LoopWhere DEF Outward, Shaky
  <2>3. CASE Reach(u, Links(there)') \subseteq Subtree(u)
    BY <2>1, <2>2, <2>3
  <2>4. CASE LoopTurn(w) /\ loop[w].kind = "append" /\ loop[w].on \in Subtree(u)
    <3>1. CASE v # w
      BY <1>0, <2>2, <2>4, <3>1, GrowsCrossed
    <3>2. CASE v = w
      <4>1. pc[w] = "putting" /\ loop[w].on = req[w].dir
        BY <1>0, <2>1, <2>2, <2>4, <3>2, LoopWhere DEF KindAt, ListAt
      <4> QED BY <2>2, <2>4, <3>2, <4>1
    <3> QED BY <3>1, <3>2
  <2>5. \/ Reach(u, Links(there)') \subseteq Subtree(u)
        \/ LoopTurn(w) /\ loop[w].kind = "append" /\ loop[w].on \in Subtree(u)
    BY <1>0, <2>0, <2>2, Grows
  <2> QED BY <2>3, <2>4, <2>5
<1> QED BY <1>1, <1>2

-----------------------------------------------------------------------------
(* At rest the counter is compared with what is there. *)

\* When no request moves or deletes anything, everything that is there is listed.
LEMMA RestListed ==
    ASSUME DriveInv, Calm, Upward, GoneNodes,
           \A w \in Workers : pc[w] \notin Shaky \cup {"deleting"}
    PROVE  ActualBytes = Bytes(there)
<1>0. Base /\ LostFolders /\ Excused = {} /\ Root \in Objects /\ there \subseteq Objects /\ LoopTypeOK(Objects)
  BY PartsNow, TypeParts, DriveAssumption
  DEF DriveInv, Ordered, Apart, Lost, Calm, Excused, Parts, StoreTypes, Base, TypeOK
<1>1. there \cap gone = {}
  BY DEF GoneNodes
<1>2. Root \in Listed /\ \A x \in Listed \cap there : Kids(x) \subseteq Listed
  BY <1>0, SubtreeIs DEF Listed
<1>3. there \subseteq Listed
  <2> DEFINE S == there \ Listed
  <2>1. \A x \in S \ {Root} : parent[x] \in S
    <3> SUFFICES ASSUME NEW x \in S, x # Root PROVE parent[x] \in S
      OBVIOUS
    <3>1. x \in there /\ x \notin gone
      BY <1>1
    <3>2. parent[x] \in there /\ x \in Kids(parent[x])
      BY <3>1, CalmParent
    <3> QED BY <1>2, <3>2
  <2>2. S \in SUBSET (there \ gone) /\ Root \notin S
    BY <1>1, <1>2
  <2>3. S = {}
    <3> HIDE DEF S
    <3> QED BY <2>1, <2>2 DEF Upward
  <2> QED BY <2>3
<1>4. Links(Objects) = Links(there)
  <2>1. \A o \in Objects : o \notin there => Kids(o) = {}
    BY <1>0 DEF LostFolders, Kids
  <2> QED BY <2>1 DEF Links
<1>5. Reach(Root, Links(Objects)) \cap there = there
  BY <1>3, <1>4 DEF Listed, Subtree
<1> QED BY <1>5 DEF ActualBytes

-----------------------------------------------------------------------------
(* The counter. *)

Sums == GoneNodes /\ Tallies /\ Counting

\* A request whose upload is not counted yet has its object for itself.
LEMMA AddsFacts ==
    ASSUME DriveInv, Calm, NEW w \in Workers, Adds(w)
    PROVE  /\ req[w].uid \in there /\ req[w].uid \notin gone /\ req[w].uid \in Objects
           /\ req[w].uid \in Uncounted /\ req[w].do \in Creates
           /\ \A v \in Workers : Adds(v) /\ req[v].uid = req[w].uid => v = w
<1>0. /\ Base /\ Homes /\ Ready /\ MadeThere /\ Once /\ Excused = {} /\ crossed = {}
  BY DEF DriveInv, Ordered, Apart, Gone, Calm, Excused, Base
<1>1. ASSUME NEW v \in Workers, Adds(v)
      PROVE  req[v] \in Requests /\ req[v].uid \in Objects /\ req[v].do \in Creates /\ pc[v] \in {"linking", "counting"}
  <2>1. pc[v] \in {"linking", "counting"}
    BY <1>1 DEF Adds
  <2> QED BY <1>0, <2>1, BaseAt DEF DoAt, Creates
<1>2. w \in Active /\ req[w].uid \notin gone
  <2>1. w \in Active
    BY <1>1 DEF Active, Shaky
  <2> QED BY <1>0, <2>1 DEF Ready, Touches
<1>3. req[w].uid \in there
  <2>1. CASE pc[w] = "linking"
    <3>1. w \in Shakes(req[w].uid) /\ HomeOf(req[w].uid)
      BY <1>0, <1>1, <1>2, <2>1 DEF Shakes, Shaky, Homes
    <3> QED BY <3>1 DEF HomeOf, Held
  <2>2. CASE pc[w] = "counting"
    <3>1. w \in Created
      BY <1>1, <2>2 DEF Created
    <3> QED BY <1>0, <1>2, <3>1 DEF MadeThere
  <2> QED BY <1>1, <2>1, <2>2
<1>4. ASSUME NEW v \in Workers, Adds(v), req[v].uid = req[w].uid PROVE v = w
  <2>1. req[v] = req[w]
    BY <1>1, <1>4, NewUidAssumption
  <2> QED BY <1>0, <1>1, <2>1, RequestTypes DEF Once
<1> QED BY <1>1, <1>2, <1>3, <1>4 DEF Uncounted

\* What is not counted yet is there.
LEMMA UncountedThere ==
    ASSUME DriveInv, Calm
    PROVE  Uncounted \subseteq there \ gone
  BY AddsFacts DEF Uncounted

\* The other requests keep what they have to add and to subtract.
LEMMA OthersCount ==
    ASSUME NEW w \in Workers, Alone(w), NEW v \in Workers, v # w
    PROVE  /\ Adds(v)' <=> Adds(v)
           /\ Due(v)' = Due(v) /\ pc'[v] = pc[v] /\ req'[v] = req[v] /\ tally'[v] = tally[v]
           /\ nodes'[v] = nodes[v]
  BY DEF Alone, Adds, Due

\* The same uploads are not counted.
LEMMA UncountedSame ==
    ASSUME NEW w \in Workers, Alone(w), Adds(w)' <=> Adds(w), Adds(w) => req'[w] = req[w]
    PROVE  Uncounted' = Uncounted
<1>1. \A v \in Workers : (Adds(v)' <=> Adds(v)) /\ (Adds(v) => req'[v] = req[v])
  BY OthersCount
<1> QED BY <1>1 DEF Uncounted

\* An upload is counted, or its object given up.
LEMMA UncountedLess ==
    ASSUME DriveInv, Calm, NEW w \in Workers, Alone(w), Adds(w), ~Adds(w)'
    PROVE  Uncounted' = Uncounted \ {req[w].uid}
<1>1. \A v \in Workers \ {w} : (Adds(v)' <=> Adds(v)) /\ req'[v] = req[v]
  BY OthersCount
<1>2. \A v \in Workers : Adds(v) /\ req[v].uid = req[w].uid => v = w
  BY AddsFacts
<1>3. ASSUME NEW o \in Uncounted' PROVE o \in Uncounted \ {req[w].uid}
  <2>1. PICK v \in Workers : Adds(v)' /\ o = req'[v].uid /\ o \in Objects
    BY <1>3 DEF Uncounted
  <2>2. v # w
    BY <2>1
  <2> QED BY <1>1, <1>2, <2>1, <2>2 DEF Uncounted
<1>4. ASSUME NEW o \in Uncounted \ {req[w].uid} PROVE o \in Uncounted'
  <2>1. PICK v \in Workers : Adds(v) /\ o = req[v].uid /\ o \in Objects
    BY <1>4 DEF Uncounted
  <2>2. v # w
    BY <1>4, <2>1
  <2> QED BY <1>1, <2>1, <2>2 DEF Uncounted
<1> QED BY <1>3, <1>4

\* The same sum, from the same parts.
LEMMA CountSame ==
    ASSUME Counting, NEW w \in Workers, Alone(w), used' = used, there' \subseteq there, gone \subseteq gone',
           there' \ Uncounted' = there \ Uncounted, Due(w)' = Due(w),
           tally'[w].st = "write" => tally[w].st = "write" /\ tally'[w].old = tally[w].old
    PROVE  Counting'
<1>0. PICK A \in SUBSET (gone \ there) : \E own \in [A -> Workers] : Counts(A, own)
  BY DEF Counting
<1>1. PICK own \in [A -> Workers] : Counts(A, own)
  BY <1>0
<1>2. A \in SUBSET (gone' \ there')
  OBVIOUS
<1>3. \A v \in Workers :
        Due(v)' = Due(v) /\ (tally'[v].st = "write" => tally[v].st = "write" /\ tally'[v].old = tally[v].old)
  BY OthersCount
<1>4. Counts(A, own)'
  BY <1>1, <1>3 DEF Counts, Share, Bytes
<1> QED BY <1>2, <1>4 DEF Counting

\* The upload of w is counted: the counter grows by its size.
LEMMA CountAdds ==
    ASSUME DriveInv, Calm, Counting, NEW w \in Workers, Alone(w), Adds(w), ~Adds(w)',
           used' = used + Sizes[req[w].uid], there' = there, gone' = gone,
           Due(w)' = Due(w), tally'[w].st # "write"
    PROVE  Counting'
<1>0. PICK A \in SUBSET (gone \ there) : \E own \in [A -> Workers] : Counts(A, own)
  BY DEF Counting
<1>1. PICK own \in [A -> Workers] : Counts(A, own)
  BY <1>0
<1> DEFINE u == req[w].uid
           U == there \ Uncounted
<1>2. u \in there /\ u \in Uncounted /\ u \in Objects /\ u \notin U
  BY AddsFacts
<1>3. U \in SUBSET Objects /\ A \in SUBSET Objects /\ {u} \in SUBSET Objects
  BY <1>2, PartsNow DEF DriveInv, Ordered, Apart, Parts, StoreTypes
<1>4. there' \ Uncounted' = U \cup {u}
  BY <1>2, UncountedLess
<1>5. Bytes(U \cup {u}) = Bytes(U) + Sizes[u]
  <2>1. U \cap {u} = {}
    BY <1>2
  <2> HIDE DEF U
  <2> QED BY <1>2, <1>3, <2>1, BytesUnion, BytesOne
<1>6. Bytes(U) \in Nat /\ Bytes(A) \in Nat /\ Sizes[u] \in Nat
  BY <1>2, <1>3, BytesType, BytesOne
<1>7. used = Bytes(A) + Bytes(U)
  BY <1>1 DEF Counts
<1>8. used' = Bytes(A) + Bytes(there' \ Uncounted')
  <2>1. Bytes(there' \ Uncounted') = Bytes(U) + Sizes[u]
    <3> HIDE DEF U
    <3> QED BY <1>4, <1>5, Zenon
  <2> HIDE DEF U
  <2> QED BY <1>6, <1>7, <2>1
<1>9. \A v \in Workers :
        Due(v)' = Due(v) /\ (tally'[v].st = "write" => tally[v].st = "write" /\ tally'[v].old = tally[v].old)
  BY OthersCount
<1>10. Counts(A, own)'
  BY <1>1, <1>8, <1>9 DEF Counts, Share
<1> QED BY <1>10 DEF Counting

\* The counter is made smaller by what w has deleted.
LEMMA CountFrees ==
    ASSUME DriveInv, Calm, Counting, NEW w \in Workers, Alone(w), ~Adds(w), ~Adds(w)',
           used' = used - Due(w), there' = there, gone' = gone,
           Due(w)' = 0, tally'[w].st # "write"
    PROVE  Counting'
<1>0. PICK A \in SUBSET (gone \ there) : \E own \in [A -> Workers] : Counts(A, own)
  BY DEF Counting
<1>1. PICK own \in [A -> Workers] : Counts(A, own)
  BY <1>0
<1> DEFINE S == Share(A, own, w)
           B == A \ S
           new == [o \in B |-> own[o]]
           U == there \ Uncounted
<1>2. S \in SUBSET A /\ A \in SUBSET Objects /\ B \in SUBSET (gone' \ there') /\ U \in SUBSET Objects
  BY PartsNow DEF DriveInv, Ordered, Apart, Parts, StoreTypes, Share
<1>3. there' \ Uncounted' = U
  BY UncountedSame
<1>4. Bytes(A) = Bytes(S) + Bytes(B) /\ Bytes(S) \in Nat /\ Bytes(B) \in Nat /\ Bytes(U) \in Nat
  BY <1>2, BytesWithout, BytesType
<1>5. Due(w) = Bytes(S) /\ used = Bytes(A) + Bytes(U)
  BY <1>1 DEF Counts
<1>6. used' = Bytes(B) + Bytes(there' \ Uncounted')
  <2> HIDE DEF S, B, U
  <2> QED BY <1>3, <1>4, <1>5
<1>7. \A v \in Workers \ {w} : Share(B, new, v) = Share(A, own, v)
  BY DEF Share
<1>8. Share(B, new, w) = {}
  BY DEF Share
<1>9. ASSUME NEW v \in Workers
      PROVE  /\ Bytes(Share(B, new, v)) = Due(v)'
             /\ tally'[v].st = "write" => Due(v)' <= tally'[v].old
  <2> HIDE DEF B, new
  <2>1. CASE v = w
    BY <1>8, <2>1, BytesNone
  <2>2. CASE v # w
    BY <1>1, <1>7, <2>2, OthersCount DEF Counts
  <2> QED BY <2>1, <2>2
<1>10. new \in [B -> Workers]
  OBVIOUS
<1> HIDE DEF B, new
<1>11. Counts(B, new)'
  BY <1>6, <1>9 DEF Counts, Share
<1> QED BY <1>2, <1>10, <1>11 DEF Counting

\* An object is deleted and has to be subtracted.
LEMMA CountDeletes ==
    ASSUME DriveInv, Calm, Counting, NEW w \in Workers, Alone(w), pc[w] = "deleting", pc'[w] = "deleting",
           NEW o \in there, o \in gone, there' = there \ {o}, gone' = gone, used' = used,
           Due(w)' = Due(w) + Sizes[o], tally'[w].st # "write"
    PROVE  Counting'
<1>0. PICK A \in SUBSET (gone \ there) : \E own \in [A -> Workers] : Counts(A, own)
  BY DEF Counting
<1>1. PICK own \in [A -> Workers] : Counts(A, own)
  BY <1>0
<1> DEFINE S == Share(A, own, w)
           B == A \cup {o}
           new == [x \in B |-> IF x = o THEN w ELSE own[x]]
           U == there \ Uncounted
           V == U \ {o}
<1>2. /\ S \in SUBSET Objects /\ A \in SUBSET Objects /\ B \in SUBSET (gone' \ there') /\ U \in SUBSET Objects
      /\ o \in Objects /\ {o} \in SUBSET Objects /\ o \notin A /\ o \notin S
  BY PartsNow DEF DriveInv, Ordered, Apart, Parts, StoreTypes, Share
<1>3. there' \ Uncounted' = V
  <2>1. ~Adds(w) /\ ~Adds(w)'
    BY DEF Adds
  <2> QED BY <2>1, UncountedSame
<1>4. o \in U
  BY UncountedThere
<1>5. Bytes(U) = Bytes({o}) + Bytes(V) /\ Bytes(V) \in Nat
  <2>1. {o} \in SUBSET U
    BY <1>4
  <2> HIDE DEF U
  <2> QED BY <1>2, <2>1, BytesWithout
<1>6. Bytes(B) = Bytes(A) + Bytes({o})
  <2>1. A \cap {o} = {}
    BY <1>2
  <2> QED BY <1>2, <2>1, BytesUnion
<1>7. Bytes(S \cup {o}) = Bytes(S) + Bytes({o}) /\ Bytes(S) \in Nat /\ Bytes(A) \in Nat
  <2>1. S \cap {o} = {}
    BY <1>2
  <2> HIDE DEF S
  <2> QED BY <1>2, <2>1, BytesUnion, BytesType
<1>8. Bytes({o}) = Sizes[o] /\ Sizes[o] \in Nat
  BY <1>2, BytesOne
<1>9. used' = Bytes(B) + Bytes(there' \ Uncounted')
  <2>1. used = Bytes(A) + Bytes(U)
    BY <1>1 DEF Counts
  <2> HIDE DEF B, U, V
  <2> QED BY <1>3, <1>5, <1>6, <1>7, <1>8, <2>1
<1>10. \A v \in Workers \ {w} : Share(B, new, v) = Share(A, own, v)
  BY <1>2 DEF Share
<1>11. Share(B, new, w) = S \cup {o}
  BY <1>2 DEF Share
<1>12. Due(w) = Bytes(S)
  BY <1>1 DEF Counts
<1>13. ASSUME NEW v \in Workers
       PROVE  /\ Bytes(Share(B, new, v)) = Due(v)'
              /\ tally'[v].st = "write" => Due(v)' <= tally'[v].old
  <2> HIDE DEF B, new, S
  <2>1. CASE v = w
    BY <1>7, <1>8, <1>11, <1>12, <2>1
  <2>2. CASE v # w
    BY <1>1, <1>10, <2>2, OthersCount DEF Counts
  <2> QED BY <2>1, <2>2
<1>14. new \in [B -> Workers]
  OBVIOUS
<1> HIDE DEF B, new
<1>15. Counts(B, new)'
  BY <1>9, <1>13 DEF Counts, Share
<1> QED BY <1>2, <1>14, <1>15 DEF Counting

\* The counter is computed anew when nobody else is at work.
LEMMA CountAnew ==
    ASSUME DriveInv, Calm, Upward, GoneNodes, Tallies, NEW w \in Workers, Alone(w), Busy = {w},
           pc[w] = "begin", pc'[w] \in {"place", "done"}, used' = ActualBytes,
           UNCHANGED <<there, gone, tally, nodes>>
    PROVE  Sums'
<1>1. \A v \in Workers : pc[v] \in {"idle", "done", "begin"} /\ pc'[v] \in {"idle", "done", "place"}
  BY OthersCount DEF Busy
<1>2. ActualBytes = Bytes(there)
  BY <1>1, RestListed DEF Shaky
<1>3. Uncounted' = {} /\ \A v \in Workers : Due(v)' = 0
  BY <1>1 DEF Uncounted, Adds, Due
<1>4. GoneNodes' /\ Tallies'
  BY <1>1 DEF GoneNodes, Tallies
<1> DEFINE own == [o \in {} |-> w]
<1>5. \A v \in Workers : Share({}, own, v) = {} /\ tally'[v].st # "write"
  BY <1>1 DEF Share, Tallies
<1>6. used' = Bytes({}) + Bytes(there' \ Uncounted')
  <2>1. Bytes(there) \in Nat
    BY BytesType, PartsNow DEF DriveInv, Ordered, Apart, Parts, StoreTypes
  <2>2. there' \ Uncounted' = there
    BY <1>3
  <2> QED BY <1>2, <2>1, <2>2, BytesNone
<1>7. own \in [{} -> Workers]
  OBVIOUS
<1> HIDE DEF own
<1>8. Counts({}, own)'
  BY <1>3, <1>5, <1>6, BytesNone DEF Counts, Share
<1>9. Counting'
  BY <1>7, <1>8 DEF Counting
<1> QED BY <1>4, <1>9 DEF Sums

\* A call that fails ends the calm.
LEMMA NoFault ==
    ASSUME Calm, Calm'
    PROVE  faults' = faults /\ ~Fault /\ ~raced'
  BY DEF Calm, Fault

\* A request is done with the counter, or has nothing to do with it.
LEMMA TalliesEnd ==
    ASSUME Tallies, NEW w \in Workers, Alone(w), tally'[w].st = "off",
           tally'[w].delta = 0 \/ pc'[w] = "deleting"
    PROVE  Tallies'
<1>1. \A v \in Workers : v # w => pc'[v] = pc[v] /\ req'[v] = req[v] /\ tally'[v] = tally[v]
  BY OthersCount
<1> QED BY <1>1 DEF Tallies

\* A step that has nothing to do with the counter.
LEMMA SumsPlain ==
    ASSUME Sums, NEW w \in Workers, Alone(w), UNCHANGED <<used, there, gone>>,
           tally'[w] = tally[w], nodes'[w] = nodes[w],
           \/ pc'[w] = pc[w] /\ req'[w] = req[w]
           \/ {pc[w], pc'[w]} \cap {"linking", "counting", "deleting", "freeing"} = {}
    PROVE  Sums'
<1>0. GoneNodes /\ Tallies /\ Counting
  BY DEF Sums
<1>1. Due(w)' = Due(w) /\ (Adds(w)' <=> Adds(w)) /\ (Adds(w) => req'[w] = req[w])
  BY DEF Due, Adds
<1>2. Uncounted' = Uncounted
  BY <1>1, UncountedSame
<1>3. Counting'
  BY <1>0, <1>1, <1>2, CountSame
<1>4. \A v \in Workers : v # w => pc'[v] = pc[v] /\ req'[v] = req[v] /\ tally'[v] = tally[v] /\ nodes'[v] = nodes[v]
  BY OthersCount
<1>5. GoneNodes'
  BY <1>0, <1>4 DEF GoneNodes
<1>6. Tallies'
  <2>1. CASE pc'[w] = pc[w] /\ req'[w] = req[w]
    BY <1>0, <1>4, <2>1 DEF Tallies
  <2>2. CASE {pc[w], pc'[w]} \cap {"linking", "counting", "deleting", "freeing"} = {}
    <3>1. pc[w] \notin {"counting", "deleting", "freeing"}
      BY <2>2
    <3>2. tally'[w].st = "off" /\ tally'[w].delta = 0
      BY <1>0, <3>1 DEF Tallies
    <3> QED BY <1>0, <3>2, TalliesEnd
  <2> QED BY <2>1, <2>2
<1> QED BY <1>3, <1>5, <1>6 DEF Sums

\* A loop on the counter goes on.
LEMMA SumsTallying ==
    ASSUME Sums, NEW w \in Workers, Alone(w), UNCHANGED <<used, there, gone>>,
           pc'[w] = pc[w], req'[w] = req[w], nodes'[w] = nodes[w],
           tally[w].st # "off", tally'[w].st # "off", tally'[w].delta = tally[w].delta,
           tally'[w].st = "write" => tally'[w].old = used, Base
    PROVE  Sums'
<1>0. GoneNodes /\ Tallies /\ Counting
  BY DEF Sums
<1>1. Due(w)' = Due(w) /\ (Adds(w)' <=> Adds(w)) /\ (Adds(w) => req'[w] = req[w])
  BY DEF Due, Adds
<1>2. Uncounted' = Uncounted
  BY <1>1, UncountedSame
<1>3. \A v \in Workers : v # w => pc'[v] = pc[v] /\ req'[v] = req[v] /\ tally'[v] = tally[v] /\ nodes'[v] = nodes[v]
  BY OthersCount
<1>4. GoneNodes'
  BY <1>0, <1>3 DEF GoneNodes
<1>5. Tallies'
  BY <1>0, <1>3 DEF Tallies
<1>6. PICK A \in SUBSET (gone \ there) : \E own \in [A -> Workers] : Counts(A, own)
  BY <1>0 DEF Counting
<1>7. PICK own \in [A -> Workers] : Counts(A, own)
  BY <1>6
<1>8. Due(w) <= used
  <2> DEFINE S == Share(A, own, w)
             U == there \ Uncounted
  <2>1. A \in SUBSET Objects /\ S \in SUBSET A /\ U \in SUBSET Objects
    BY PartsNow DEF Parts, StoreTypes, Share
  <2>2. Bytes(A) = Bytes(S) + Bytes(A \ S) /\ Bytes(S) \in Nat /\ Bytes(A \ S) \in Nat /\ Bytes(U) \in Nat
    BY <2>1, BytesWithout, BytesType
  <2>3. Due(w) = Bytes(S) /\ used = Bytes(A) + Bytes(U)
    BY <1>7 DEF Counts
  <2> HIDE DEF S, U
  <2> QED BY <2>2, <2>3
<1>9. ASSUME NEW v \in Workers
      PROVE  Due(v)' = Due(v) /\ (tally'[v].st = "write" => Due(v)' <= tally'[v].old)
  <2>1. CASE v = w
    BY <1>1, <1>8, <2>1
  <2>2. CASE v # w
    BY <1>7, <2>2, OthersCount DEF Counts
  <2> QED BY <2>1, <2>2
<1>10. Counts(A, own)'
  BY <1>2, <1>7, <1>9 DEF Counts, Share
<1>11. Counting'
  BY <1>10 DEF Counting
<1> QED BY <1>4, <1>5, <1>11 DEF Sums

\* The nodes that the others have to delete.
LEMMA GoneNodesLess ==
    ASSUME GoneNodes, NEW w \in Workers, Alone(w), there' \cap gone' \subseteq there \cap gone,
           pc[w] = "deleting" => pc'[w] = "deleting" \/ nodes[w] = {},
           \A o \in there' \cap nodes[w] : o \in nodes'[w]
    PROVE  GoneNodes'
<1>1. \A v \in Workers : v # w => pc'[v] = pc[v] /\ nodes'[v] = nodes[v]
  BY OthersCount
<1> SUFFICES ASSUME NEW o \in there' \cap gone'
             PROVE  \E v \in Workers : pc'[v] = "deleting" /\ o \in nodes'[v]
  BY DEF GoneNodes
<1>2. PICK v \in Workers : pc[v] = "deleting" /\ o \in nodes[v]
  BY DEF GoneNodes
<1>3. CASE v = w
  BY <1>2, <1>3
<1>4. CASE v # w
  BY <1>1, <1>2, <1>4
<1> QED BY <1>3, <1>4

\* update_drive_used_bytes.
LEMMA TallyReadSums ==
    ASSUME Base, Sums, Calm, Calm', NEW w \in Workers, Alone(w), TallyRead(w)
    PROVE  Sums'
<1>0. tally \in [Workers -> [st : {"off", "read", "write"}, delta : Int, old : Nat, att : 0..Attempts - 1]]
  BY BaseAt DEF TallyTypes
<1>1. /\ tally[w].st = "read" /\ tally' = [tally EXCEPT ![w].st = "write", ![w].old = used]
      /\ UNCHANGED <<used, there, gone, pc, req, nodes>>
  BY NoFault DEF TallyRead, hvars, ovars
<1>2. tally'[w].st = "write" /\ tally'[w].delta = tally[w].delta /\ tally'[w].old = used
  BY <1>0, <1>1
<1> QED BY <1>1, <1>2, SumsTallying

\* It writes what it has read and the change that it has to make.
LEMMA TallyWriteSums ==
    ASSUME DriveInv, Sums, Calm, Calm', NEW w \in Workers, Alone(w), TallyWrite(w)
    PROVE  Sums'
<1>0. /\ tally \in [Workers -> [st : {"off", "read", "write"}, delta : Int, old : Nat, att : 0..Attempts - 1]]
      /\ Base /\ GoneNodes /\ Tallies /\ Counting /\ used \in Nat
  <2>1. Base
    BY DEF DriveInv, Ordered, Apart
  <2> QED BY <2>1, BaseAt DEF TallyTypes, Sums, StoreTypes
<1> DEFINE sum == tally[w].old + tally[w].delta
           new == IF sum > 0 THEN sum ELSE 0
<1>1. /\ tally[w].st = "write" /\ UNCHANGED <<there, gone, pc, req, nodes>>
      /\ \/ new = tally[w].old /\ tally' = [tally EXCEPT ![w] = NoTally] /\ used' = used
         \/ /\ used = tally[w].old /\ used' = new /\ tally' = [tally EXCEPT ![w] = NoTally]
         \/ TallyAgain(w) /\ used' = used
  BY NoFault DEF TallyWrite, hvars, ovars
<1>2. CASE TallyAgain(w) /\ used' = used
  <2>1. tally' = [tally EXCEPT ![w].st = "read", ![w].att = @ + 1]
    BY <1>2, NoFault DEF TallyAgain
  <2>2. tally'[w].st = "read" /\ tally'[w].delta = tally[w].delta
    BY <1>0, <2>1
  <2> QED BY <1>0, <1>1, <1>2, <2>2, SumsTallying
<1>3. CASE /\ tally' = [tally EXCEPT ![w] = NoTally]
           /\ \/ new = tally[w].old /\ used' = used
              \/ used = tally[w].old /\ used' = new
  <2>1. /\ tally[w].old \in Nat /\ tally[w].delta \in Int /\ pc[w] \in {"counting", "freeing"}
        /\ tally'[w] = NoTally /\ tally'[w].st = "off" /\ tally'[w].delta = 0
    BY <1>0, <1>1, <1>3 DEF Tallies, NoTally
  <2>2. Due(w) <= tally[w].old
    BY <1>0, <1>1 DEF Counting, Counts
  <2>3. GoneNodes' /\ Tallies'
    BY <1>0, <1>1, <2>1, GoneNodesLess, TalliesEnd
  <2>4. CASE pc[w] = "freeing"
    <3>1. Due(w) = 0 - tally[w].delta /\ Due(w)' = 0 - tally'[w].delta /\ ~Adds(w) /\ ~Adds(w)'
      BY <1>1, <2>4 DEF Due, Adds
    <3>2. sum >= 0 /\ new = sum
      BY <2>1, <2>2, <3>1
    <3>a. Due(w)' = 0
      BY <2>1, <3>1
    <3>b. used' = used + tally[w].delta
      <4>1. CASE new = tally[w].old /\ used' = used
        <5>1. tally[w].delta = 0
          BY <2>1, <3>2, <4>1
        <5> QED BY <1>0, <4>1, <5>1
      <4>2. CASE used = tally[w].old /\ used' = new
        BY <3>2, <4>2
      <4> QED BY <1>3, <4>1, <4>2
    <3>3. used' = used - Due(w) /\ Due(w)' = 0
      BY <1>0, <2>1, <3>1, <3>a, <3>b
    <3>4. Counting'
      BY <1>0, <1>1, <2>1, <3>1, <3>3, CountFrees
    <3> QED BY <2>3, <3>4 DEF Sums
  <2>5. CASE pc[w] = "counting"
    <3>1. tally[w].delta = Sizes[req[w].uid] /\ Adds(w) /\ ~Adds(w)' /\ Due(w)' = Due(w)
      BY <1>0, <1>1, <2>1, <2>5 DEF Tallies, Adds, Due
    <3>2. tally[w].delta \in Nat
      BY <1>0, <2>5, <3>1, BaseAt
    <3>3. sum >= 0 /\ new = sum
      BY <2>1, <3>2
    <3>4. used' = used + Sizes[req[w].uid]
      BY <1>0, <1>3, <2>1, <3>1, <3>2, <3>3
    <3>5. Counting'
      BY <1>0, <1>1, <2>1, <3>1, <3>4, CountAdds
    <3> QED BY <2>3, <3>5 DEF Sums
  <2> QED BY <2>1, <2>4, <2>5
<1> QED BY <1>1, <1>2, <1>3

\* handle_upload and the quota handlers recompute the counter.
LEMMA RecountSums ==
    ASSUME DriveInv, Upward, Sums, Calm, Calm', NEW w \in Workers, Alone(w),
           CheckQuota(w) \/ QuotaRequest(w)
    PROVE  Sums'
<1>0. GoneNodes /\ Tallies
  BY DEF Sums
<1>t. pc \in [Workers -> Labels]
  BY PartsNow DEF DriveInv, Ordered, Apart, Parts, WorkerTypes
<1>1. pc[w] = "begin" /\ pc'[w] \in {"place", "done"} /\ UNCHANGED <<there, gone, tally, nodes>>
  BY <1>t DEF CheckQuota, QuotaRequest, At, Goto, Reply, ovars
<1>2. UNCHANGED <<used, raced>> \/ \E total \in {0, ActualBytes} : Reconcile(w, total)
  BY DEF CheckQuota, QuotaRequest
<1>3. CASE UNCHANGED <<used, raced>>
  BY <1>1, <1>3, SumsPlain
<1>4. ASSUME NEW total \in {0, ActualBytes}, Reconcile(w, total) PROVE Sums'
  <2>1. used' = ActualBytes /\ Busy = {w}
    BY <1>4, NoFault DEF Reconcile
  <2> QED BY <1>0, <1>1, <2>1, CountAnew
<1> QED BY <1>2, <1>3, <1>4

\* handle_upload and handle_mkdir write the columns.
LEMMA PlaceSums ==
    ASSUME DriveInv, Sums, NEW w \in Workers, Alone(w), Place(w)
    PROVE  Sums'
<1>0. Base /\ Fresh /\ GoneNodes /\ Tallies /\ Counting /\ pc \in [Workers -> Labels]
  BY PartsNow DEF DriveInv, Ordered, Apart, Sums, Parts, WorkerTypes
<1>1. /\ pc[w] \in {"place", "begin"} /\ pc'[w] = "linking" /\ there' = there \cup {req[w].uid}
      /\ UNCHANGED <<req, nodes, used, tally, gone>>
  BY <1>0 DEF Place, Placeable, At, Goto, uvars
<1>2. req[w].uid \notin there /\ req[w].uid \notin gone /\ req[w].uid \in Objects
  <2>1. req[w].do \in Creates
    <3>1. CASE pc[w] = "place"
      BY <1>0, <3>1, BaseAt DEF DoAt, Creates
    <3>2. CASE pc[w] # "place"
      BY <3>2 DEF Place, Placeable, At, Creates
    <3> QED BY <3>1, <3>2
  <2>2. req[w].uid \in Unborn
    BY <1>0, <1>1, <2>1, EarlyUnborn DEF Early
  <2> QED BY <1>0, <1>1, <2>2, BaseAt DEF Fresh
<1>3. ~Adds(w) /\ Adds(w)' /\ Due(w)' = Due(w)
  BY <1>1 DEF Adds, Due
<1>4. there' \ Uncounted' = there \ Uncounted
  <2>1. Uncounted' = Uncounted \cup {req[w].uid}
    <3>1. \A v \in Workers \ {w} : Adds(v)' <=> Adds(v)
      BY OthersCount
    <3>2. ASSUME NEW o \in Objects PROVE o \in Uncounted' <=> o \in Uncounted \/ o = req[w].uid
      BY <1>1, <1>3, <3>1 DEF Uncounted
    <3>3. Uncounted \subseteq Objects /\ Uncounted' \subseteq Objects
      BY DEF Uncounted
    <3> QED BY <1>2, <3>2, <3>3
  <2> QED BY <1>1, <1>2, <2>1
<1>5. Counting'
  <2>1. PICK A \in SUBSET (gone \ there) : \E own \in [A -> Workers] : Counts(A, own)
    BY <1>0 DEF Counting
  <2>2. PICK own \in [A -> Workers] : Counts(A, own)
    BY <2>1
  <2>3. A \in SUBSET (gone' \ there')
    BY <1>1, <1>2
  <2>4. \A v \in Workers : Due(v)' = Due(v)
    BY <1>3, OthersCount
  <2>5. Counts(A, own)'
    BY <1>1, <1>4, <2>2, <2>4 DEF Counts, Share
  <2> QED BY <2>3, <2>5 DEF Counting
<1>6. Tallies'
  <2>1. tally'[w].st = "off" /\ tally'[w].delta = 0
    BY <1>0, <1>1 DEF Tallies
  <2> QED BY <1>0, <2>1, TalliesEnd
<1>7. GoneNodes'
  BY <1>0, <1>1, <1>2, GoneNodesLess
<1> QED BY <1>5, <1>6, <1>7 DEF Sums

\* The new object is in the list.
LEMMA LinkedSums ==
    ASSUME DriveInv, Sums, Calm, NEW w \in Workers, Alone(w), Linked(w)
    PROVE  Sums'
<1>0. /\ Base /\ GoneNodes /\ Tallies /\ Counting /\ pc \in [Workers -> Labels] /\ used \in Nat
      /\ tally \in [Workers -> [st : {"off", "read", "write"}, delta : Int, old : Nat, att : 0..Attempts - 1]]
  <2>1. Base
    BY DEF DriveInv, Ordered, Apart
  <2> QED BY <2>1, BaseAt DEF Sums, TallyTypes, WorkerTypes, StoreTypes
<1>1. /\ pc[w] = "linking" /\ UNCHANGED <<req, nodes, used, there, gone>>
      /\ \/ /\ req[w].do = "upload" /\ StartTally(w, Sizes[req[w].uid]) /\ pc'[w] = "counting"
         \/ req[w].do # "upload" /\ tally' = tally /\ pc'[w] = "done"
  BY <1>0 DEF Linked, Goto, Reply, ovars, gvars
<1>2. /\ Adds(w) /\ Due(w) = 0 /\ Due(w)' = 0 /\ tally[w].st = "off" /\ tally[w].delta = 0
      /\ req[w].uid \in Objects /\ req[w] \in Requests /\ req[w].do \in Creates /\ Sizes[req[w].uid] \in Nat
  BY <1>0, <1>1, BaseAt DEF Adds, Due, Tallies, DoAt, Creates
<1>3. GoneNodes'
  BY <1>0, <1>1, GoneNodesLess
<1>4. CASE Sizes[req[w].uid] = 0
  <2>1. tally'[w].st = "off" /\ tally'[w].delta = 0
    BY <1>0, <1>1, <1>2, <1>4 DEF StartTally, NoTally
  <2>2. ~Adds(w)'
    BY <1>1, <2>1 DEF Adds
  <2>3. used' = used + Sizes[req[w].uid]
    BY <1>0, <1>1, <1>4
  <2>4. Counting'
    BY <1>0, <1>1, <1>2, <2>1, <2>2, <2>3, CountAdds
  <2>5. Tallies'
    BY <1>0, <2>1, TalliesEnd
  <2> QED BY <1>3, <2>4, <2>5 DEF Sums
<1>5. CASE Sizes[req[w].uid] # 0
  <2>1. req[w].do = "upload"
    BY <1>2, <1>5, DriveAssumption DEF Creates
  <2>2. tally'[w].st = "read" /\ tally'[w].delta = Sizes[req[w].uid]
    BY <1>0, <1>1, <1>5, <2>1 DEF StartTally, NoTally
  <2>3. Adds(w)'
    BY <1>1, <2>1, <2>2 DEF Adds
  <2>4. Uncounted' = Uncounted
    BY <1>1, <1>2, <2>3, UncountedSame
  <2>5. Counting'
    BY <1>0, <1>1, <1>2, <2>2, <2>4, CountSame
  <2>6. Tallies'
    <3>1. \A v \in Workers : v # w => pc'[v] = pc[v] /\ req'[v] = req[v] /\ tally'[v] = tally[v]
      BY OthersCount
    <3> QED BY <1>0, <1>1, <2>1, <2>2, <3>1 DEF Tallies
  <2> QED BY <1>3, <2>5, <2>6 DEF Sums
<1> QED BY <1>4, <1>5

\* The new object could not be put into the list.
LEMMA NotLinkedSums ==
    ASSUME DriveInv, Sums, Calm, NEW w \in Workers, Alone(w), NotLinked(w)
    PROVE  Sums'
<1>0. /\ Base /\ GoneNodes /\ Tallies /\ Counting /\ pc \in [Workers -> Labels]
  BY PartsNow DEF DriveInv, Ordered, Apart, Sums, Parts, WorkerTypes
<1>1. /\ pc[w] = "linking" /\ pc'[w] = "done" /\ there' = there \ {req[w].uid}
      /\ UNCHANGED <<req, nodes, used, tally, gone>>
  BY <1>0 DEF NotLinked, Reply, Goto, DeleteColumns, uvars
<1>2. Adds(w) /\ ~Adds(w)' /\ Due(w)' = Due(w)
  BY <1>1 DEF Adds, Due
<1>3. tally[w].st = "off" /\ tally[w].delta = 0
  BY <1>0, <1>1 DEF Tallies
<1>4. there' \ Uncounted' = there \ Uncounted
  BY <1>1, <1>2, UncountedLess, AddsFacts
<1>5. Counting'
  BY <1>0, <1>1, <1>2, <1>4, CountSame
<1>6. Tallies'
  BY <1>0, <1>1, <1>3, TalliesEnd
<1>7. GoneNodes'
  BY <1>0, <1>1, GoneNodesLess
<1> QED BY <1>5, <1>6, <1>7 DEF Sums

\* The counter is done.
LEMMA CountedSums ==
    ASSUME DriveInv, Sums, NEW w \in Workers, Alone(w), Counted(w)
    PROVE  Sums'
<1>0. /\ Base /\ GoneNodes /\ Tallies /\ Counting /\ pc \in [Workers -> Labels]
  BY PartsNow DEF DriveInv, Ordered, Apart, Sums, Parts, WorkerTypes
<1>1. /\ pc[w] \in {"counting", "freeing"} /\ pc'[w] = "done" /\ tally[w].st = "off"
      /\ UNCHANGED <<req, nodes, used, tally, gone, there>>
  BY <1>0 DEF Counted, Reply, Goto, uvars, ovars, gvars
<1>2. tally[w].delta = 0
  BY <1>0, <1>1 DEF Tallies
<1>3. ~Adds(w) /\ ~Adds(w)' /\ Due(w) = 0 /\ Due(w)' = 0
  BY <1>1, <1>2 DEF Adds, Due
<1>4. Uncounted' = Uncounted
  BY <1>3, UncountedSame
<1>5. Counting'
  BY <1>0, <1>1, <1>3, <1>4, CountSame
<1>6. Tallies'
  BY <1>0, <1>1, <1>2, TalliesEnd
<1>7. GoneNodes'
  BY <1>0, <1>1, GoneNodesLess
<1> QED BY <1>5, <1>6, <1>7 DEF Sums

\* handle_delete_path has collected the subtree.
LEMMA UnlinkedSums ==
    ASSUME DriveInv, Sums, Calm, Calm', NEW w \in Workers, Alone(w), Unlinked(w)
    PROVE  Sums'
<1>0. /\ Base /\ GoneNodes /\ Tallies /\ Counting /\ pc \in [Workers -> Labels]
      /\ nodes \in [Workers -> SUBSET Objects]
  BY PartsNow DEF DriveInv, Ordered, Apart, Sums, Parts, WorkerTypes
<1>1. /\ pc[w] = "unlinking" /\ pc'[w] = "deleting" /\ nodes'[w] = Subtree(req[w].uid)
      /\ gone' = gone \cup Subtree(req[w].uid) /\ UNCHANGED <<req, used, tally, there>>
  BY <1>0, NoFault DEF Unlinked, Goto, uvars
<1>2. tally[w].st = "off" /\ tally[w].delta = 0
  BY <1>0, <1>1 DEF Tallies
<1>3. ~Adds(w) /\ ~Adds(w)' /\ Due(w) = 0 /\ Due(w)' = 0
  BY <1>1, <1>2 DEF Adds, Due
<1>4. Uncounted' = Uncounted
  BY <1>3, UncountedSame
<1>5. Counting'
  BY <1>0, <1>1, <1>3, <1>4, CountSame
<1>6. Tallies'
  BY <1>0, <1>1, <1>2, TalliesEnd
<1>7. GoneNodes'
  <2>1. \A v \in Workers : v # w => pc'[v] = pc[v] /\ nodes'[v] = nodes[v]
    BY OthersCount
  <2> SUFFICES ASSUME NEW o \in there, o \in gone'
               PROVE  \E v \in Workers : pc'[v] = "deleting" /\ o \in nodes'[v]
    BY <1>1 DEF GoneNodes
  <2>2. CASE o \in Subtree(req[w].uid)
    BY <1>1, <2>2
  <2>3. CASE o \in gone
    <3>1. PICK v \in Workers : pc[v] = "deleting" /\ o \in nodes[v]
      BY <1>0, <2>3 DEF GoneNodes
    <3> QED BY <1>1, <2>1, <3>1
  <2> QED BY <1>1, <2>2, <2>3
<1> QED BY <1>5, <1>6, <1>7 DEF Sums

\* It deletes a node.
LEMMA DeleteNodeSums ==
    ASSUME DriveInv, Sums, Calm, Calm', NEW w \in Workers, Alone(w), DeleteNode(w)
    PROVE  Sums'
<1>0. /\ Base /\ GoneNodes /\ Tallies /\ Counting /\ NodesGone
      /\ nodes \in [Workers -> SUBSET Objects]
      /\ tally \in [Workers -> [st : {"off", "read", "write"}, delta : Int, old : Nat, att : 0..Attempts - 1]]
  <2>1. Base /\ NodesGone
    BY DEF DriveInv, Ordered, Apart, Gone
  <2> QED BY <2>1, BaseAt DEF Sums, TallyTypes, WorkerTypes
<1>1. /\ pc[w] = "deleting" /\ UNCHANGED <<pc, req, used, gone>>
  BY DEF DeleteNode, hvars, gvars
<1>2. PICK o \in Leaves(nodes[w]) :
        /\ nodes' = [nodes EXCEPT ![w] = @ \ {o}]
        /\ tally' = [tally EXCEPT ![w].delta = IF o \in there THEN @ - Sizes[o] ELSE @]
        /\ there' = there \ {o}
  BY NoFault DEF DeleteNode, DeleteColumns
<1>3. o \in nodes[w] /\ o \in gone /\ o \in Objects /\ Sizes[o] \in Nat
  <2>1. o \in nodes[w]
    BY DEF Leaves
  <2> QED BY <1>0, <2>1, DriveAssumption DEF NodesGone
<1>4. /\ tally[w].st = "off" /\ tally'[w].st = "off" /\ nodes'[w] = nodes[w] \ {o} /\ tally[w].delta \in Int
      /\ tally'[w].delta = IF o \in there THEN tally[w].delta - Sizes[o] ELSE tally[w].delta
  BY <1>0, <1>1, <1>2 DEF Tallies
<1>5. Tallies'
  BY <1>0, <1>1, <1>4, TalliesEnd
<1>6. GoneNodes'
  BY <1>0, <1>1, <1>2, <1>4, GoneNodesLess
<1>7. Counting'
  <2>1. CASE o \in there
    <3>1. Due(w)' = Due(w) + Sizes[o]
      BY <1>1, <1>3, <1>4, <2>1 DEF Due
    <3> QED BY <1>0, <1>1, <1>2, <1>3, <1>4, <2>1, <3>1, CountDeletes
  <2>2. CASE o \notin there
    <3>1. Due(w)' = Due(w) /\ ~Adds(w) /\ ~Adds(w)'
      BY <1>1, <1>4, <2>2 DEF Due, Adds
    <3>2. Uncounted' = Uncounted /\ there' = there
      BY <1>2, <2>2, <3>1, UncountedSame
    <3> QED BY <1>0, <1>1, <1>4, <3>1, <3>2, CountSame
  <2> QED BY <2>1, <2>2
<1> QED BY <1>5, <1>6, <1>7 DEF Sums

\* It has deleted all of them.
LEMMA DeletedSums ==
    ASSUME DriveInv, Sums, NEW w \in Workers, Alone(w), Deleted(w)
    PROVE  Sums'
<1>0. /\ Base /\ GoneNodes /\ Tallies /\ Counting /\ pc \in [Workers -> Labels]
      /\ tally \in [Workers -> [st : {"off", "read", "write"}, delta : Int, old : Nat, att : 0..Attempts - 1]]
  <2>1. Base
    BY DEF DriveInv, Ordered, Apart
  <2> QED BY <2>1, BaseAt DEF Sums, TallyTypes, WorkerTypes
<1>1. /\ pc[w] = "deleting" /\ nodes[w] = {} /\ UNCHANGED <<req, nodes, used, gone, there>>
      /\ \/ tally[w].delta = 0 /\ pc'[w] = "done" /\ tally' = tally
         \/ tally[w].delta # 0 /\ pc'[w] = "freeing" /\ StartTally(w, tally[w].delta)
  BY <1>0 DEF Deleted, Reply, Goto, ovars, gvars
<1>2. tally[w].st = "off" /\ ~Adds(w) /\ ~Adds(w)'
  BY <1>0, <1>1 DEF Tallies, Adds
<1>3. Uncounted' = Uncounted
  BY <1>2, UncountedSame
<1>4. GoneNodes'
  BY <1>0, <1>1, GoneNodesLess
<1>5. CASE tally[w].delta = 0
  <2>1. pc'[w] = "done" /\ tally'[w] = tally[w]
    BY <1>1, <1>5
  <2>2. Due(w)' = Due(w)
    BY <1>1, <1>5, <2>1 DEF Due
  <2>3. Counting'
    BY <1>0, <1>1, <1>2, <1>3, <2>1, <2>2, CountSame
  <2>4. Tallies'
    BY <1>0, <1>2, <1>5, <2>1, TalliesEnd
  <2> QED BY <1>4, <2>3, <2>4 DEF Sums
<1>6. CASE tally[w].delta # 0
  <2>1. pc'[w] = "freeing" /\ tally'[w].st = "read" /\ tally'[w].delta = tally[w].delta
    BY <1>0, <1>1, <1>6 DEF StartTally, NoTally
  <2>2. Due(w)' = Due(w)
    BY <1>1, <2>1 DEF Due
  <2>3. Counting'
    BY <1>0, <1>1, <1>2, <1>3, <2>1, <2>2, CountSame
  <2>4. Tallies'
    <3>1. \A v \in Workers : v # w => pc'[v] = pc[v] /\ req'[v] = req[v] /\ tally'[v] = tally[v]
      BY OthersCount
    <3> QED BY <1>0, <2>1, <3>1 DEF Tallies
  <2> QED BY <1>4, <2>3, <2>4 DEF Sums
<1> QED BY <1>5, <1>6

\* The actions that have nothing to do with the counter.
LEMMA PlainSums ==
    ASSUME Base, Sums, NEW w \in Workers, Alone(w),
           \/ Loop(w) \/ PlaceFails(w) \/ BeginRename(w) \/ Rename(w) \/ Refused(w) \/ BeginMove(w)
           \/ Took(w) \/ PutParent(w) \/ PutBack(w) \/ NotMoved(w) \/ BeginDelete(w)
           \/ \E r \in Requests : Request(w, r)
    PROVE  Sums'
<1>0. pc \in [Workers -> Labels]
  BY PartsNow DEF Parts, WorkerTypes
<1> USE DEF uvars, gvars, ovars, hvars
<1>1. CASE Loop(w)
  <2>1. UNCHANGED <<used, there, gone, tally, nodes, pc, req>>
    BY <1>1 DEF Loop
  <2> QED BY <2>1, SumsPlain
<1> DEFINE Away == /\ UNCHANGED <<used, there, gone, tally, nodes>>
                   /\ pc[w] \in {"idle", "begin", "place", "renaming", "taking", "putting", "dropping",
                                 "restoring", "unlinking"}
                   /\ pc'[w] \in {"begin", "renaming", "taking", "putting", "restoring", "unlinking", "done"}
<1>2. ASSUME Away PROVE Sums'
  <2>1. {pc[w], pc'[w]} \cap {"linking", "counting", "deleting", "freeing"} = {}
    BY <1>2
  <2> QED BY <1>2, <2>1, SumsPlain
<1>3. CASE PlaceFails(w) \/ Refused(w) \/ Rename(w)
  <2>1. Away
    BY <1>0, <1>3 DEF PlaceFails, Refused, Rename, At, Reply, Goto
  <2> QED BY <1>2, <2>1
<1>4. CASE BeginRename(w) \/ BeginMove(w) \/ BeginDelete(w)
  <2>1. Away
    BY <1>0, <1>4 DEF BeginRename, BeginMove, BeginDelete, At, Reply, Goto
  <2> QED BY <1>2, <2>1
<1>5. CASE Took(w) \/ PutParent(w) \/ PutBack(w) \/ NotMoved(w)
  <2>1. Away
    BY <1>0, <1>5 DEF Took, PutParent, PutBack, NotMoved, Reply, Goto
  <2> QED BY <1>2, <2>1
<1>6. CASE \E r \in Requests : Request(w, r)
  <2>1. Away
    BY <1>0, <1>6 DEF Request, Goto
  <2> QED BY <1>2, <2>1
<1> QED BY <1>1, <1>3, <1>4, <1>5, <1>6

\* Every step into a calm state keeps the sums.
LEMMA SumsNext ==
    ASSUME DriveInv, Upward, Sums, Calm, Calm', NEW w \in Workers, Alone(w),
           Step(w) \/ Crash(w) \/ \E r \in Requests : Request(w, r)
    PROVE  Sums'
<1>0. Base /\ ~Fault
  BY NoFault DEF DriveInv, Ordered, Apart
<1>1. CASE Step(w)
  <2>1. ~PutParentFails(w)
    BY <1>0 DEF PutParentFails
  <2>2. CASE \/ Loop(w) \/ PlaceFails(w) \/ BeginRename(w) \/ Rename(w) \/ Refused(w) \/ BeginMove(w)
             \/ Took(w) \/ PutParent(w) \/ PutBack(w) \/ NotMoved(w) \/ BeginDelete(w)
    BY <1>0, <2>2, PlainSums
  <2>3. CASE TallyRead(w) \/ TallyWrite(w) \/ CheckQuota(w) \/ QuotaRequest(w)
    BY <1>0, <2>3, TallyReadSums, TallyWriteSums, RecountSums
  <2>4. CASE Place(w) \/ Linked(w) \/ NotLinked(w) \/ Counted(w)
    BY <2>4, PlaceSums, LinkedSums, NotLinkedSums, CountedSums
  <2>5. CASE Unlinked(w) \/ DeleteNode(w) \/ Deleted(w)
    BY <2>5, UnlinkedSums, DeleteNodeSums, DeletedSums
  <2> QED BY <1>1, <2>1, <2>2, <2>3, <2>4, <2>5 DEF Step
<1>2. CASE Crash(w)
  BY <1>0, <1>2 DEF Crash
<1>3. CASE \E r \in Requests : Request(w, r)
  BY <1>0, <1>3, PlainSums
<1> QED BY <1>1, <1>2, <1>3

\* A fault is counted, and what was raced stays raced.
LEMMA Wearing ==
    ASSUME Base, NEW w \in Workers, Step(w) \/ Crash(w) \/ \E r \in Requests : Request(w, r)
    PROVE  (faults' = 0 => faults = 0) /\ (raced => raced')
<1>0. /\ faults \in Nat /\ raced \in BOOLEAN /\ LoopTypeOK(Objects)
  BY PartsNow, BaseAt, LoopAssumption DEF Parts, StoreTypes
<1> USE DEF lvars, uvars, gvars
<1>1. ASSUME faults' = faults \/ Fault PROVE faults' = 0 => faults = 0
  BY <1>0, <1>1 DEF Fault
<1>2. CASE Loop(w)
  <2>1. LoopStep(w) /\ raced' = raced
    BY <1>2 DEF Loop
  <2>2. faults <= faults' /\ faults' \in Nat
    <3>1. LoopTypeOK(Objects)' /\ LoopEffect(w)
      BY <1>0, <2>1, LoopStepEffect
    <3> QED BY <3>1, LoopAssumption DEF LoopEffect, LoopTypeOK
  <2> QED BY <1>0, <2>1, <2>2
<1>3. CASE TallyRead(w) \/ TallyWrite(w)
  <2>1. faults' = faults \/ Fault
    BY <1>3 DEF TallyRead, TallyWrite
  <2>2. raced' = raced \/ TallyAgain(w)
    BY <1>3 DEF TallyRead, TallyWrite
  <2>3. raced => raced'
    BY <2>2, Zenon DEF TallyAgain
  <2> QED BY <1>1, <2>1, <2>3
<1>4. CASE CheckQuota(w) \/ QuotaRequest(w)
  <2>1. UNCHANGED <<faults, raced>> \/ \E total \in {0, ActualBytes} : Reconcile(w, total)
    BY <1>4 DEF CheckQuota, QuotaRequest
  <2>2. ASSUME NEW total, Reconcile(w, total) PROVE faults' = faults \/ Fault
    BY <2>2 DEF Reconcile
  <2>3. ASSUME NEW total, Reconcile(w, total) PROVE raced => raced'
    BY <2>3, Zenon DEF Reconcile
  <2>4. faults' = faults \/ Fault
    BY <2>1, <2>2
  <2> QED BY <1>1, <2>1, <2>3, <2>4
<1>5. CASE Place(w) \/ PlaceFails(w) \/ Linked(w) \/ NotLinked(w) \/ Counted(w)
  BY <1>1, <1>5 DEF Place, Placeable, FreeName, PlaceFails, Linked, NotLinked, Counted
<1>6. CASE BeginRename(w) \/ Rename(w) \/ Refused(w)
  BY <1>1, <1>6 DEF BeginRename, FreeName, Rename, Refused
<1>7. CASE BeginMove(w)
  BY <1>1, <1>7 DEF BeginMove, Movable, NotInside, FreeName
<1>8. CASE Took(w) \/ PutParent(w) \/ PutParentFails(w) \/ PutBack(w) \/ NotMoved(w)
  <2>1. (faults' = faults \/ Fault) /\ raced' = raced
    BY <1>8 DEF Took, PutParent, PutParentFails, PutBack, NotMoved
  <2> QED BY <1>1, <2>1
<1>9. CASE BeginDelete(w) \/ Unlinked(w) \/ DeleteNode(w) \/ Deleted(w)
  BY <1>1, <1>9 DEF BeginDelete, Unlinked, DeleteNode, Deleted
<1>10. CASE Crash(w) \/ \E r \in Requests : Request(w, r)
  BY <1>1, <1>10 DEF Crash, Request
<1> QED BY <1>2, <1>3, <1>4, <1>5, <1>6, <1>7, <1>8, <1>9, <1>10 DEF Step

\* Every step keeps the invariant of the counter.
LEMMA UsedNext ==
    ASSUME DriveInv, UsedInv, Next
    PROVE  UsedInv'
<1>1. PICK w \in Workers : Step(w) \/ Crash(w) \/ \E r \in Requests : Request(w, r)
  BY DEF Next
<1>2. Base /\ Fresh
  BY DEF DriveInv, Ordered, Apart
<1>3. Base' /\ (Ends(w) \/ Commits(w))
  BY <1>1, <1>2, SortedStep
<1>4. Alone(w)
  BY <1>2, <1>3, LaterStep DEF Later, Commits
<1> SUFFICES ASSUME Calm' PROVE Upward' /\ Outward' /\ Sums'
  BY DEF UsedInv, Sums
<1>5. Calm
  <2>1. Excused \subseteq Excused'
    BY <1>2, <1>3, LaterStep, ExcusedLater, ExcusedCommits
  <2> QED BY <1>1, <1>2, <2>1, Wearing DEF Calm
<1>6. Upward /\ Outward /\ Sums
  BY <1>5 DEF UsedInv, Sums
<1> QED BY <1>1, <1>3, <1>4, <1>5, <1>6, UpwardNext, OutwardNext, SumsNext

\* A step that changes nothing.
LEMMA UsedStutters ==
    ASSUME UsedInv, UNCHANGED dvars
    PROVE  UsedInv'
<1> USE DEF dvars, lvars, hvars, ovars, uvars, gvars
<1>1. \A d : Kids(d)' = Kids(d)
  BY DEF Kids, Stored
<1>2. Links(there)' = Links(there)
  BY <1>1 DEF Links
<1>3. \A o : Reach(o, Links(there)') = Subtree(o)
  BY <1>2 DEF Subtree
<1>4. UNCHANGED <<Calm, Uncounted>> /\ \A w : Due(w)' = Due(w)
  BY DEF Calm, Excused, Uncounted, Adds, Due
<1>5. Upward' <=> Upward
  BY DEF Upward
<1>6. Outward' <=> Outward
  BY <1>3 DEF Outward, Subtree
<1>7. (GoneNodes' <=> GoneNodes) /\ (Tallies' <=> Tallies)
  BY DEF GoneNodes, Tallies
<1>8. Counting' <=> Counting
  BY <1>4 DEF Counting, Counts, Share
<1> QED BY <1>4, <1>5, <1>6, <1>7, <1>8 DEF UsedInv

\* At the start all that is there is counted.
LEMMA UsedInit ==
    ASSUME Init
    PROVE  UsedInv
<1>0. DriveInv
  BY InitOrdered DEF DriveInv
<1>1. /\ there = InitialObjects /\ gone = {} /\ used = Bytes(there)
      /\ \A w \in Workers : pc[w] = "idle" /\ tally[w] = NoTally
      /\ parent = [o \in Objects |-> IF \E d \in Lists : o \in InitialKids(d)
                                     THEN CHOOSE d \in Lists : o \in InitialKids(d) ELSE Nil]
  BY DEF Init
<1>2. \A o \in InitialObjects : \A d \in Lists : o \in InitialKids(d) => parent[o] = d
  BY <1>1, TreeFacts DEF Home0
<1>3. Upward
  <2> SUFFICES ASSUME NEW S \in SUBSET InitialObjects, S # {}, \A o \in S \ {Root} : parent[o] \in S,
                      Root \notin S
               PROVE  FALSE
    BY <1>1 DEF Upward
  <2> DEFINE C == Objects \ S
  <2>1. Root \in C /\ C \in SUBSET Objects
    BY DriveAssumption
  <2>2. \A d \in C \cap Lists : InitialKids(d) \subseteq C
    BY <1>2, TreeFacts
  <2>3. InitialObjects \subseteq C
    <3> HIDE DEF C
    <3> QED BY <2>1, <2>2, TreeAssumption
  <2> QED BY <2>3
<1>4. Outward /\ GoneNodes /\ Tallies
  BY <1>1 DEF Outward, GoneNodes, Tallies, NoTally
<1>5. Counting
  <2> DEFINE own == [o \in {} |-> Root]
  <2>1. own \in [{} -> Workers] /\ \A w \in Workers : Share({}, own, w) = {}
    BY DEF Share
  <2>2. Uncounted = {} /\ \A w \in Workers : Due(w) = 0 /\ tally[w].st # "write"
    BY <1>1 DEF Uncounted, Adds, Due, NoTally
  <2>3. used = Bytes({}) + Bytes(there \ Uncounted)
    <3>1. Bytes(there) \in Nat
      BY <1>1, TreeFacts, BytesType
    <3>2. there \ Uncounted = there
      BY <2>2
    <3> QED BY <1>1, <3>1, <3>2, BytesNone
  <2> HIDE DEF own
  <2>4. Counts({}, own)
    BY <2>1, <2>2, <2>3, BytesNone DEF Counts
  <2> QED BY <2>1, <2>4 DEF Counting
<1> QED BY <1>3, <1>4, <1>5 DEF UsedInv

\* The parts that make up the counter, in every state.
THEOREM UsedInvariant == Spec => []UsedInv
<1>1. Init => UsedInv
  BY UsedInit
<1>2. DriveInv /\ UsedInv /\ [Next]_dvars => UsedInv'
  BY UsedNext, UsedStutters
<1> QED BY <1>1, <1>2, DriveInvariant, PTL DEF Spec

\* As long as no call fails, no requests are in conflict and nothing was recomputed
\* beside another request, the counter at rest is what the tree adds up to, for any tree,
\* sizes, requests and number of threads.
THEOREM AlwaysUsedExact == Spec => []UsedExact
<1>1. ASSUME DriveInv, UsedInv PROVE UsedExact
  <2> SUFFICES ASSUME Busy = {}, Calm PROVE used = ActualBytes
    BY DEF UsedExact, Calm
  <2>0. Upward /\ GoneNodes /\ Tallies /\ Counting
    BY <1>1 DEF UsedInv
  <2>1. \A w \in Workers : pc[w] \in {"idle", "done"}
    BY DEF Busy
  <2>2. ActualBytes = Bytes(there)
    BY <1>1, <2>0, <2>1, RestListed DEF Shaky
  <2>3. Uncounted = {} /\ \A w \in Workers : Due(w) = 0
    BY <2>1 DEF Uncounted, Adds, Due
  <2>4. PICK A \in SUBSET (gone \ there) : \E own \in [A -> Workers] : Counts(A, own)
    BY <2>0 DEF Counting
  <2>5. PICK own \in [A -> Workers] : Counts(A, own)
    BY <2>4
  <2>6. A \in SUBSET Objects /\ there \in SUBSET Objects
    BY <1>1, PartsNow DEF DriveInv, Ordered, Apart, Parts, StoreTypes
  <2>7. ASSUME NEW o \in A PROVE Sizes[o] = 0
    <3> DEFINE S == Share(A, own, own[o])
    <3>1. Bytes(S) = 0 /\ o \in S /\ S \in SUBSET Objects
      BY <2>3, <2>5, <2>6 DEF Counts, Share
    <3> HIDE DEF S
    <3>2. Bytes(S) = Bytes({o}) + Bytes(S \ {o}) /\ Bytes(S \ {o}) \in Nat
      BY <3>1, BytesWithout
    <3>3. Bytes({o}) = Sizes[o] /\ Sizes[o] \in Nat
      BY <2>6, BytesOne
    <3> QED BY <3>1, <3>2, <3>3
  <2>8. Bytes(A) = 0
    <3>1. UNION {{o} \X (1..Sizes[o]) : o \in A} = {}
      BY <2>7
    <3> QED BY <3>1, FS_EmptySet DEF Bytes
  <2>9. used = Bytes(A) + Bytes(there) /\ Bytes(there) \in Nat
    <3>1. there \ Uncounted = there
      BY <2>3
    <3> QED BY <2>5, <2>6, <3>1, BytesType DEF Counts
  <2> QED BY <2>2, <2>8, <2>9
<1> QED BY <1>1, DriveInvariant, UsedInvariant, PTL
=============================================================================
