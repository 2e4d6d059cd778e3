--------------------------- MODULE CasLoopProofs ---------------------------
(***************************************************************************)
(* Lemmas about CasLoop: what the lists hold after a step of a loop, for    *)
(* any lists, workers, attempts and faults.  The components that run the   *)
(* loops build on them.                                                    *)
(***************************************************************************)
EXTENDS CasLoop, WellFoundedInduction, TLAPS

-----------------------------------------------------------------------------
(* Induction over the naturals, with a set instead of a predicate. *)

Less == {ss \in Nat \X Nat : ss[1] < ss[2]}

\* A nonempty set of naturals has a least element.
LEMMA Least ==
    ASSUME NEW T \in SUBSET Nat, T # {}
    PROVE  \E x \in T : \A y \in T : x <= y
<1>1. IsWellFoundedOn(Less, Nat)
  BY NatLessThanWellFounded, Zenon DEF OpToRel, Less
<1>2. PICK x \in T : \A y \in T : ~(<<y, x>> \in Less)
  BY <1>1, WFMin
<1>3. \A y \in T : y < x => <<y, x>> \in Less
  BY DEF Less
<1>4. ASSUME NEW y \in T PROVE x <= y
  <2>1. x \in Nat /\ y \in Nat
    OBVIOUS
  <2>2. ~(y < x)
    BY <1>2, <1>3
  <2> QED BY <2>1, <2>2
<1> QED BY <1>4

\* A set that holds 0 and the successor of each member below n holds 0..n.
LEMMA UpTo ==
    ASSUME NEW n \in Nat, NEW S, 0 \in S,
           \A i \in 0..n - 1 : i \in S => i + 1 \in S
    PROVE  0..n \subseteq S
<1> SUFFICES ASSUME (0..n) \ S # {} PROVE FALSE
  OBVIOUS
<1>1. PICK x \in (0..n) \ S : \A y \in (0..n) \ S : x <= y
  <2>1. (0..n) \ S \in SUBSET Nat
    OBVIOUS
  <2> QED BY <2>1, Least
<1>2. x # 0 /\ x - 1 \in 0..n - 1 /\ x - 1 < x /\ (x - 1) + 1 = x
  BY <1>1
<1>3. x - 1 \in S
  BY <1>1, <1>2
<1> QED BY <1>1, <1>2, <1>3

-----------------------------------------------------------------------------
(* Lists. *)

\* Appending adds one item.
LEMMA AppendItems ==
    ASSUME NEW E, NEW s \in Seq(E), NEW x \in E
    PROVE  Items(Append(s, x)) = Items(s) \cup {x}
<1>1. DOMAIN Append(s, x) = 1..Len(s) + 1 /\ DOMAIN s = 1..Len(s) /\ Len(s) \in Nat
  OBVIOUS
<1>2. \A k \in 1..Len(s) + 1 : Append(s, x)[k] = IF k = Len(s) + 1 THEN x ELSE s[k]
  OBVIOUS
<1>3. ASSUME NEW y \in Items(Append(s, x)) PROVE y \in Items(s) \cup {x}
  <2>1. PICK k \in 1..Len(s) + 1 : y = Append(s, x)[k]
    BY <1>1 DEF Items
  <2> QED BY <1>1, <1>2, <2>1 DEF Items
<1>4. ASSUME NEW y \in Items(s) PROVE y \in Items(Append(s, x))
  <2>1. PICK k \in 1..Len(s) : y = s[k]
    BY <1>1 DEF Items
  <2>2. k \in 1..Len(s) + 1 /\ Append(s, x)[k] = y
    BY <1>1, <1>2, <2>1
  <2> QED BY <1>1, <2>2 DEF Items
<1>5. x \in Items(Append(s, x))
  <2>1. Len(s) + 1 \in 1..Len(s) + 1
    BY <1>1
  <2> QED BY <1>1, <1>2, <2>1 DEF Items
<1> QED BY <1>3, <1>4, <1>5

\* So does prepending.
LEMMA PrependItems ==
    ASSUME NEW E, NEW s \in Seq(E), NEW x \in E
    PROVE  <<x>> \o s \in Seq(E) /\ Items(<<x>> \o s) = Items(s) \cup {x}
<1> DEFINE t == <<x>> \o s
<1>0. <<x>> \in Seq(E) /\ Len(<<x>>) = 1
  OBVIOUS
<1>1. t \in Seq(E) /\ Len(t) = Len(s) + 1 /\ Len(s) \in Nat
  BY <1>0
<1>2. \A k \in 1..Len(s) + 1 : t[k] = IF k = 1 THEN x ELSE s[k - 1]
  BY <1>0
<1>3. DOMAIN t = 1..Len(s) + 1 /\ DOMAIN s = 1..Len(s)
  BY <1>1
<1> HIDE DEF t
<1>4. ASSUME NEW y \in Items(t) PROVE y \in Items(s) \cup {x}
  <2>1. PICK k \in 1..Len(s) + 1 : y = t[k]
    BY <1>3 DEF Items
  <2>2. CASE k = 1
    BY <1>2, <2>1, <2>2
  <2>3. CASE k # 1
    <3>1. k - 1 \in 1..Len(s) /\ y = s[k - 1]
      BY <1>1, <1>2, <2>1, <2>3
    <3> QED BY <1>3, <3>1 DEF Items
  <2> QED BY <2>2, <2>3
<1>5. ASSUME NEW y \in Items(s) PROVE y \in Items(t)
  <2>1. PICK k \in 1..Len(s) : y = s[k]
    BY <1>3 DEF Items
  <2>2. k + 1 \in 1..Len(s) + 1 /\ (k + 1) - 1 = k /\ k + 1 # 1
    BY <1>1
  <2>3. t[k + 1] = y
    BY <1>2, <2>1, <2>2
  <2> QED BY <1>3, <2>2, <2>3 DEF Items
<1>6. x \in Items(t)
  <2>1. 1 \in 1..Len(s) + 1
    BY <1>1
  <2> QED BY <1>2, <1>3, <2>1 DEF Items
<1> QED BY <1>1, <1>4, <1>5, <1>6 DEF t

\* A part of a list.
LEMMA PartItems ==
    ASSUME NEW E, NEW s \in Seq(E), NEW a \in 1..Len(s), NEW b \in a..Len(s)
    PROVE  LET t == SubSeq(s, a, b)
           IN  /\ t \in Seq(E) /\ Len(t) = b - a + 1
               /\ Items(t) \subseteq Items(s)
               /\ s[a] \in Items(t) /\ s[b] \in Items(t)
<1> DEFINE t == SubSeq(s, a, b)
<1>1. t \in Seq(E) /\ Len(t) = b - a + 1 /\ Len(s) \in Nat
  OBVIOUS
<1>2. \A k \in 1..(b - a + 1) : t[k] = s[a + k - 1]
  OBVIOUS
<1>3. DOMAIN t = 1..(b - a + 1) /\ DOMAIN s = 1..Len(s)
  BY <1>1
<1> HIDE DEF t
<1>4. Items(t) \subseteq Items(s)
  <2> SUFFICES ASSUME NEW y \in Items(t) PROVE y \in Items(s)
    OBVIOUS
  <2>1. PICK k \in 1..(b - a + 1) : y = t[k]
    BY <1>3 DEF Items
  <2>2. a + k - 1 \in 1..Len(s) /\ y = s[a + k - 1]
    BY <1>1, <1>2, <2>1
  <2> QED BY <1>3, <2>2 DEF Items
<1>5. s[a] \in Items(t)
  <2>1. 1 \in 1..(b - a + 1) /\ a + 1 - 1 = a
    BY <1>1
  <2> QED BY <1>2, <1>3, <2>1 DEF Items
<1>6. s[b] \in Items(t)
  <2>1. b - a + 1 \in 1..(b - a + 1) /\ a + (b - a + 1) - 1 = b
    BY <1>1
  <2> QED BY <1>2, <1>3, <2>1 DEF Items
<1> QED BY <1>1, <1>4, <1>5, <1>6 DEF t

\* G[i] is what is left of the first i items of s.
Removal(E, s, x, G) ==
    /\ G \in [0..Len(s) -> Seq(E)]
    /\ G[0] = <<>>
    /\ \A i \in 1..Len(s) :
          G[i] = IF s[i] = x THEN G[i - 1] ELSE Append(G[i - 1], s[i])
    /\ Without(s, x) = G[Len(s)]

\* The loop of std::remove goes through the list once.
LEMMA WithoutLoop ==
    ASSUME NEW E, NEW s \in Seq(E), NEW x
    PROVE  \E G : Removal(E, s, x, G)
<1> DEFINE N == Len(s)
           Add(t, i) == IF s[i] = x THEN t ELSE Append(t, s[i])
           Run(n, G) == /\ G \in [0..n -> Seq(E)]
                        /\ G[0] = <<>>
                        /\ \A i \in 1..n : G[i] = Add(G[i - 1], i)
           S == {n \in Nat : n <= N => \E G : Run(n, G)}
<1>1. N \in Nat
  OBVIOUS
<1>2. 0 \in S
  <2>0. <<>> \in Seq(E)
    OBVIOUS
  <2>1. Run(0, [i \in 0..0 |-> <<>>])
    BY <2>0
  <2> QED BY <2>1
<1>3. ASSUME NEW n \in 0..N - 1, n \in S PROVE n + 1 \in S
  <2>1. PICK G : Run(n, G)
    <3>1. n <= N
      BY <1>1
    <3> HIDE DEF Run, N
    <3> QED BY <1>3, <3>1
  <2> DEFINE H == [i \in 0..n + 1 |-> IF i = n + 1 THEN Add(G[n], n + 1) ELSE G[i]]
  <2>2. s[n + 1] \in E /\ G[n] \in Seq(E)
    BY <2>1, <1>1
  <2>3. Add(G[n], n + 1) \in Seq(E)
    BY <2>2
  <2> HIDE DEF Add
  <2>4. H \in [0..n + 1 -> Seq(E)] /\ H[0] = <<>>
    BY <2>1, <2>3
  <2>5. \A i \in 1..n + 1 : H[i] = Add(H[i - 1], i)
    BY <2>1
  <2>6. Run(n + 1, H)
    BY <2>4, <2>5
  <2> HIDE DEF Run, H
  <2> QED BY <2>6, <1>1
<1>4. 0..N \subseteq S
  <2> HIDE DEF S, N
  <2> QED BY <1>1, <1>2, <1>3, UpTo
<1>5. PICK G : Run(N, G)
  <2> HIDE DEF Run
  <2> QED BY <1>1, <1>4
<1>6. G = [i \in 0..N |-> IF i = 0 THEN <<>> ELSE Add(G[i - 1], i)]
  <2> HIDE DEF Add
  <2>1. \A i \in 0..N : G[i] = IF i = 0 THEN <<>> ELSE Add(G[i - 1], i)
    BY <1>1, <1>5
  <2> QED BY <1>5, <2>1
<1> DEFINE F == CHOOSE F : F = [i \in 0..Len(s) |->
                    IF i = 0 THEN <<>>
                    ELSE IF s[i] = x THEN F[i - 1] ELSE Append(F[i - 1], s[i])]
<1>7. F = [i \in 0..N |-> IF i = 0 THEN <<>> ELSE Add(F[i - 1], i)]
  BY <1>6
<1>8. Without(s, x) = F[N]
  BY DEF Without
<1>9. F[0] = <<>> /\ \A i \in 1..N : F[i] = Add(F[i - 1], i)
  <2> HIDE DEF F, Add
  <2> QED BY <1>1, <1>7
<1>10. 0..N \subseteq {i \in 0..N : F[i] = G[i]}
  <2> HIDE DEF F, Add
  <2>1. 0 \in {i \in 0..N : F[i] = G[i]}
    BY <1>9, <1>5, <1>1
  <2>2. ASSUME NEW i \in 0..N - 1, i \in {j \in 0..N : F[j] = G[j]}
        PROVE  i + 1 \in {j \in 0..N : F[j] = G[j]}
    <3>1. i + 1 \in 1..N /\ (i + 1) - 1 = i
      BY <1>1
    <3>2. F[i + 1] = Add(F[i], i + 1) /\ G[i + 1] = Add(G[i], i + 1)
      BY <1>9, <1>5, <3>1
    <3> QED BY <2>2, <3>1, <3>2
  <2> HIDE DEF N
  <2> QED BY <2>1, <2>2, <1>1, UpTo
<1>11. Without(s, x) = G[N]
  <2> HIDE DEF F
  <2> QED BY <1>8, <1>10, <1>1
<1> QED BY <1>5, <1>11 DEF Removal

\* Removing takes out one item and nothing else.
LEMMA WithoutItems ==
    ASSUME NEW E, NEW s \in Seq(E), NEW x
    PROVE  Without(s, x) \in Seq(E) /\ Items(Without(s, x)) = Items(s) \ {x}
<1>0. PICK G : Removal(E, s, x, G)
  BY WithoutLoop
<1>1. /\ G \in [0..Len(s) -> Seq(E)]
      /\ G[0] = <<>>
      /\ \A i \in 1..Len(s) :
            G[i] = IF s[i] = x THEN G[i - 1] ELSE Append(G[i - 1], s[i])
      /\ Without(s, x) = G[Len(s)]
  BY <1>0 DEF Removal
<1> DEFINE T == {i \in 0..Len(s) : Items(G[i]) = {s[j] : j \in 1..i} \ {x}}
<1>2. Len(s) \in Nat
  OBVIOUS
<1>3. 0 \in T
  <2>1. Items(G[0]) = {} /\ {s[j] : j \in 1..0} = {}
    BY <1>1 DEF Items
  <2> QED BY <1>2, <2>1
<1>4. ASSUME NEW i \in 0..Len(s) - 1, i \in T PROVE i + 1 \in T
  <2>1. i + 1 \in 1..Len(s) /\ i + 1 \in 0..Len(s) /\ (i + 1) - 1 = i
    BY <1>2
  <2>2. {s[j] : j \in 1..(i + 1)} = {s[j] : j \in 1..i} \cup {s[i + 1]}
    BY <1>2
  <2>3. G[i] \in Seq(E) /\ Items(G[i]) = {s[j] : j \in 1..i} \ {x}
    BY <1>1, <1>4, <1>2
  <2>4. CASE s[i + 1] = x
    BY <1>1, <2>1, <2>2, <2>3, <2>4
  <2>5. CASE s[i + 1] # x
    <3>1. G[i + 1] = Append(G[i], s[i + 1])
      BY <1>1, <2>1, <2>5
    <3>2. s[i + 1] \in E
      BY <2>1
    <3>3. Items(Append(G[i], s[i + 1])) = Items(G[i]) \cup {s[i + 1]}
      BY <2>3, <3>2, AppendItems
    <3> QED BY <2>1, <2>2, <2>3, <2>5, <3>1, <3>3
  <2> QED BY <2>4, <2>5
<1>5. 0..Len(s) \subseteq T
  <2> HIDE DEF T
  <2> QED BY <1>2, <1>3, <1>4, UpTo
<1>6. Items(s) = {s[j] : j \in 1..Len(s)}
  BY DEF Items
<1> QED BY <1>1, <1>2, <1>5, <1>6

Adding == {"append", "prepend"}

\* The list that a loop wants to store: what it adds is in it, what it removes
\* is not, and other items stay unless the list is cut.
LEMMA NextItems ==
    ASSUME NEW E, NEW l \in Lists, NEW k \in Kinds, NEW s \in Seq(E), NEW x \in E
    PROVE  /\ NextList(l, k, s, x) \in Seq(E)
           /\ Items(NextList(l, k, s, x)) \subseteq Items(s) \cup {x}
           /\ k \in Adding /\ (Cap[l] = 0 \/ Len(s) <= Cap[l]) =>
                 x \in Items(NextList(l, k, s, x))
           /\ k \notin Adding => Items(NextList(l, k, s, x)) = Items(s) \ {x}
           /\ Cap[l] = 0 /\ k \in Adding => Items(s) \subseteq Items(NextList(l, k, s, x))
<1>1. Cap[l] \in Nat
  BY LoopAssumption
<1>2. CASE k \notin Adding
  <2>1. NextList(l, k, s, x) = Without(s, x)
    BY <1>2 DEF NextList, Adding
  <2> QED BY <1>2, <2>1, WithoutItems
<1>3. CASE k = "prepend"
  <2> DEFINE t == <<x>> \o Without(s, x)
  <2>1. NextList(l, k, s, x) = Capped(l, k, t)
    BY <1>3 DEF NextList
  <2>2. t \in Seq(E) /\ Items(t) = Items(s) \cup {x} /\ t[1] = x
    <3>1. Without(s, x) \in Seq(E) /\ Items(Without(s, x)) = Items(s) \ {x}
      BY WithoutItems
    <3>2. t \in Seq(E) /\ Items(t) = Items(Without(s, x)) \cup {x}
      BY <3>1, PrependItems
    <3>3. t[1] = x
      BY <3>1
    <3> QED BY <3>1, <3>2, <3>3
  <2> HIDE DEF t
  <2>3. CASE Cap[l] = 0 \/ Len(t) <= Cap[l]
    BY <1>3, <2>1, <2>2, <2>3 DEF Capped, Adding
  <2>4. CASE ~(Cap[l] = 0 \/ Len(t) <= Cap[l])
    <3>1. Capped(l, k, t) = SubSeq(t, 1, Cap[l])
      BY <1>3, <2>4 DEF Capped
    <3>2. 1 \in 1..Len(t) /\ Cap[l] \in 1..Len(t)
      BY <1>1, <2>2, <2>4
    <3>3. SubSeq(t, 1, Cap[l]) \in Seq(E) /\ Items(SubSeq(t, 1, Cap[l])) \subseteq Items(t)
          /\ t[1] \in Items(SubSeq(t, 1, Cap[l]))
      BY <2>2, <3>2, PartItems
    <3> QED BY <1>3, <2>1, <2>2, <2>4, <3>1, <3>3 DEF Adding
  <2> QED BY <2>3, <2>4
<1>4. CASE k = "append"
  <2> DEFINE t == IF x \in Items(s) THEN s ELSE Append(s, x)
  <2>1. NextList(l, k, s, x) = Capped(l, k, t)
    BY <1>4 DEF NextList
  <2>2. t \in Seq(E) /\ Items(t) = Items(s) \cup {x}
    BY AppendItems
  <2>3. CASE Cap[l] = 0 \/ Len(t) <= Cap[l]
    <3> HIDE DEF t
    <3> QED BY <1>4, <2>1, <2>2, <2>3 DEF Capped, Adding
  <2>4. CASE ~(Cap[l] = 0 \/ Len(t) <= Cap[l])
    <3>1. Capped(l, k, t) = SubSeq(t, Len(t) - Cap[l] + 1, Len(t))
      BY <1>4, <2>4 DEF Capped
    <3>2. Len(t) \in Nat /\ Len(t) - Cap[l] + 1 \in 1..Len(t) /\ Len(t) \in (Len(t) - Cap[l] + 1)..Len(t)
      <4> HIDE DEF t
      <4> QED BY <1>1, <2>2, <2>4
    <3>3. /\ SubSeq(t, Len(t) - Cap[l] + 1, Len(t)) \in Seq(E)
          /\ Items(SubSeq(t, Len(t) - Cap[l] + 1, Len(t))) \subseteq Items(t)
          /\ t[Len(t)] \in Items(SubSeq(t, Len(t) - Cap[l] + 1, Len(t)))
      <4> HIDE DEF t
      <4> QED BY <2>2, <3>2, PartItems
    <3>4. Len(s) <= Cap[l] => t[Len(t)] = x
      <4>1. SUFFICES ASSUME Len(s) <= Cap[l] PROVE t[Len(t)] = x
        OBVIOUS
      <4>2. t = Append(s, x)
        BY <2>4, <4>1
      <4> HIDE DEF t
      <4> QED BY <4>2
    <3> HIDE DEF t
    <3> QED BY <1>4, <2>1, <2>2, <2>4, <3>1, <3>3, <3>4 DEF Adding
  <2> QED BY <2>3, <2>4
<1> QED BY <1>2, <1>3, <1>4 DEF Adding

\* Appending to a list that is cut to a length: once full, it stays full, and
\* until then it loses nothing.
LEMMA CutAppend ==
    ASSUME NEW E, NEW l \in Lists, NEW s \in Seq(E), NEW x \in E,
           Cap[l] # 0, Len(s) <= Cap[l]
    PROVE  /\ Len(NextList(l, "append", s, x)) <= Cap[l]
           /\ \/ Items(s) \subseteq Items(NextList(l, "append", s, x))
              \/ Len(NextList(l, "append", s, x)) = Cap[l]
           /\ Len(s) = Cap[l] => Len(NextList(l, "append", s, x)) = Cap[l]
<1>1. Cap[l] \in Nat /\ Len(s) \in Nat
  BY LoopAssumption
<1>2. CASE x \in Items(s)
  <2>1. NextList(l, "append", s, x) = s
    BY <1>2 DEF NextList, Capped
  <2> QED BY <2>1
<1>3. CASE x \notin Items(s)
  <2> DEFINE t == Append(s, x)
  <2>1. NextList(l, "append", s, x) = Capped(l, "append", t)
    BY <1>3 DEF NextList
  <2>2. t \in Seq(E) /\ Len(t) = Len(s) + 1 /\ Items(s) \subseteq Items(t)
    BY AppendItems
  <2> HIDE DEF t
  <2>3. CASE Len(t) <= Cap[l]
    <3>1. Capped(l, "append", t) = t
      BY <2>3 DEF Capped
    <3> QED BY <1>1, <2>1, <2>2, <2>3, <3>1
  <2>4. CASE ~(Len(t) <= Cap[l])
    <3>1. Capped(l, "append", t) = SubSeq(t, Len(t) - Cap[l] + 1, Len(t))
      BY <2>4 DEF Capped
    <3>2. Len(t) - Cap[l] + 1 \in 1..Len(t) /\ Len(t) \in (Len(t) - Cap[l] + 1)..Len(t)
      BY <1>1, <2>2, <2>4
    <3>3. Len(SubSeq(t, Len(t) - Cap[l] + 1, Len(t))) = Len(t) - (Len(t) - Cap[l] + 1) + 1
      BY <2>2, <3>2, PartItems
    <3>4. Len(NextList(l, "append", s, x)) = Cap[l]
      BY <1>1, <2>1, <2>2, <3>1, <3>3
    <3> QED BY <1>1, <3>4
  <2> QED BY <2>3, <2>4
<1> QED BY <1>2, <1>3

-----------------------------------------------------------------------------
(* The steps of a loop. *)

\* The loop of w goes on, the others are left alone.
GoesOn(w) ==
    /\ \A x \in Workers \ {w} : loop'[x] = loop[x]
    /\ loop'[w].kind = loop[w].kind /\ loop'[w].on = loop[w].on
    /\ loop'[w].item = loop[w].item
    /\ loop'[w].st # "off"
    /\ misled \subseteq misled' /\ misled' \subseteq misled \cup {loop[w].item}
    /\ loop[w].hit => loop'[w].hit
    /\ loop'[w].st = "no" /\ loop'[w].hit => loop[w].item \in misled'

\* A state of a loop, spelt out.
LEMMA LoopFields ==
    ASSUME NEW E, LoopTypeOK(E), NEW w \in Workers
    PROVE  /\ loop[w] \in LoopStates(E)
           /\ loop[w].kind \in Kinds /\ loop[w].on \in Lists \cup {Nil}
           /\ loop[w].item \in E \cup {Nil} /\ loop[w].att \in 0..Attempts - 1
           /\ loop[w].old \in Seq(E) /\ loop[w].found \in BOOLEAN /\ loop[w].hit \in BOOLEAN
           /\ loop[w].st \in {"off", "read", "write", "index", "yes", "no"}
           /\ loop[w].st # "off" => loop[w].on \in Lists /\ loop[w].item \in E
  BY DEF LoopTypeOK, LoopStates

\* A loop that goes on keeps its types.
LEMMA GoesOnTypes ==
    ASSUME NEW E, LoopTypeOK(E), NEW w \in Workers, loop[w].st # "off",
           loop' \in [Workers -> LoopStates(E)], GoesOn(w)
    PROVE  /\ \A x \in Workers : loop'[x].st # "off" => loop'[x].on \in Lists /\ loop'[x].item \in E
           /\ misled' \subseteq E
<1>1. loop[w].on \in Lists /\ loop[w].item \in E /\ misled \subseteq E
  BY DEF LoopTypeOK
<1>2. ASSUME NEW x \in Workers, loop'[x].st # "off" PROVE loop'[x].on \in Lists /\ loop'[x].item \in E
  <2>1. CASE x = w
    BY <1>1, <2>1 DEF GoesOn
  <2>2. CASE x # w
    <3>1. loop'[x] = loop[x]
      BY <2>2 DEF GoesOn
    <3> QED BY <1>2, <3>1 DEF LoopTypeOK
  <2> QED BY <2>1, <2>2
<1> QED BY <1>1, <1>2 DEF GoesOn

\* The end of a loop.
LEMMA ResultEffect ==
    ASSUME NEW E, LoopTypeOK(E), NEW w \in Workers, loop[w].st # "off",
           NEW ok \in BOOLEAN, Result(w, ok)
    PROVE  /\ loop' \in [Workers -> LoopStates(E)] /\ GoesOn(w)
           /\ loop'[w].st = (IF ok THEN "yes" ELSE "no")
           /\ loop'[w].old = loop[w].old /\ loop'[w].hit = loop[w].hit
<1> DEFINE q == [loop[w] EXCEPT !.st = IF ok THEN "yes" ELSE "no"]
<1>1. loop[w] \in LoopStates(E) /\ loop \in [Workers -> LoopStates(E)]
  BY DEF LoopTypeOK
<1>2. q \in LoopStates(E)
  BY <1>1 DEF LoopStates
<1>3. loop' = [loop EXCEPT ![w] = q]
  BY DEF Result
<1>4. /\ q.kind = loop[w].kind /\ q.on = loop[w].on /\ q.item = loop[w].item
      /\ q.old = loop[w].old /\ q.hit = loop[w].hit /\ q.st = IF ok THEN "yes" ELSE "no"
  BY <1>1 DEF LoopStates
<1> HIDE DEF q
<1>5. loop' \in [Workers -> LoopStates(E)] /\ loop'[w] = q /\ \A x \in Workers \ {w} : loop'[x] = loop[x]
  BY <1>1, <1>2, <1>3
<1> QED BY <1>4, <1>5 DEF Result, GoesOn

\* The next round of a loop, or its failure.
LEMMA AgainEffect ==
    ASSUME NEW E, LoopTypeOK(E), NEW w \in Workers, loop[w].st # "off",
           NEW hit \in BOOLEAN, Again(w, hit)
    PROVE  /\ loop' \in [Workers -> LoopStates(E)] /\ GoesOn(w)
           /\ loop'[w].st \in {"read", "no"}
           /\ loop'[w].old = loop[w].old /\ loop'[w].hit = (loop[w].hit \/ hit)
<1>1. loop[w] \in LoopStates(E) /\ loop \in [Workers -> LoopStates(E)]
  BY DEF LoopTypeOK
<1>0. Attempts \in Nat \ {0} /\ loop[w].att \in 0..Attempts - 1 /\ loop[w].hit \in BOOLEAN
  BY <1>1, LoopAssumption DEF LoopStates
<1>2. CASE loop[w].att + 1 < Attempts
  <2> DEFINE q == [loop[w] EXCEPT !.st = "read", !.att = @ + 1, !.hit = @ \/ hit]
  <2>1. q \in LoopStates(E)
    <3>1. loop[w].att + 1 \in 0..Attempts - 1 /\ (loop[w].hit \/ hit) \in BOOLEAN
      BY <1>0, <1>2
    <3> QED BY <1>1, <3>1 DEF LoopStates
  <2>2. loop' = [loop EXCEPT ![w] = q] /\ misled' = misled
    BY <1>1, <1>2 DEF Again
  <2>3. /\ q.kind = loop[w].kind /\ q.on = loop[w].on /\ q.item = loop[w].item
        /\ q.old = loop[w].old /\ q.hit = (loop[w].hit \/ hit) /\ q.st = "read"
    BY <1>1 DEF LoopStates
  <2> HIDE DEF q
  <2>4. loop' \in [Workers -> LoopStates(E)] /\ loop'[w] = q /\ \A x \in Workers \ {w} : loop'[x] = loop[x]
    BY <1>1, <2>1, <2>2
  <2> QED BY <1>0, <2>2, <2>3, <2>4 DEF GoesOn
<1>3. CASE ~(loop[w].att + 1 < Attempts)
  <2> DEFINE q == [loop[w] EXCEPT !.st = "no", !.hit = @ \/ hit]
  <2>1. q \in LoopStates(E)
    <3>1. (loop[w].hit \/ hit) \in BOOLEAN
      BY <1>0
    <3> QED BY <1>1, <3>1 DEF LoopStates
  <2>2. /\ loop' = [loop EXCEPT ![w] = q]
        /\ misled' = IF hit \/ loop[w].hit THEN misled \cup {loop[w].item} ELSE misled
    BY <1>1, <1>3 DEF Again
  <2>3. /\ q.kind = loop[w].kind /\ q.on = loop[w].on /\ q.item = loop[w].item
        /\ q.old = loop[w].old /\ q.hit = (loop[w].hit \/ hit) /\ q.st = "no"
    BY <1>1 DEF LoopStates
  <2> HIDE DEF q
  <2>4. loop' \in [Workers -> LoopStates(E)] /\ loop'[w] = q /\ \A x \in Workers \ {w} : loop'[x] = loop[x]
    BY <1>1, <2>1, <2>2
  <2> QED BY <1>0, <2>2, <2>3, <2>4 DEF GoesOn
<1> QED BY <1>2, <1>3

\* A loop is done with its list.
LEMMA WonEffect ==
    ASSUME NEW E, LoopTypeOK(E), NEW w \in Workers, loop[w].st # "off",
           NEW s \in Seq(E), Won(w, s)
    PROVE  /\ loop' \in [Workers -> LoopStates(E)] /\ GoesOn(w)
           /\ loop'[w].st \in {"index", "yes"}
           /\ loop'[w].old \in {loop[w].old, s} /\ loop'[w].hit = loop[w].hit
<1>1. loop[w] \in LoopStates(E) /\ loop \in [Workers -> LoopStates(E)]
  BY DEF LoopTypeOK
<1>2. CASE loop[w].on \in Indexed
  <2> DEFINE q == [loop[w] EXCEPT !.st = "index", !.old = s]
  <2>1. q \in LoopStates(E)
    BY <1>1 DEF LoopStates
  <2>2. loop' = [loop EXCEPT ![w] = q] /\ misled' = misled
    BY <1>1, <1>2 DEF Won
  <2>3. /\ q.kind = loop[w].kind /\ q.on = loop[w].on /\ q.item = loop[w].item
        /\ q.old = s /\ q.hit = loop[w].hit /\ q.st = "index"
    BY <1>1 DEF LoopStates
  <2> HIDE DEF q
  <2>4. loop' \in [Workers -> LoopStates(E)] /\ loop'[w] = q /\ \A x \in Workers \ {w} : loop'[x] = loop[x]
    BY <1>1, <2>1, <2>2
  <2> QED BY <2>2, <2>3, <2>4 DEF GoesOn
<1>3. CASE loop[w].on \notin Indexed
  <2>1. Result(w, TRUE)
    BY <1>3 DEF Won
  <2> QED BY <2>1, ResultEffect
<1> QED BY <1>2, <1>3

\* A step without a write of the list: a read, a failure, or a copy of the list.
Quiet(w) ==
    /\ list' = list /\ loop'[w].hit = loop[w].hit
    /\ loop[w].st = "write" => loop'[w].st \in {"read", "no"}

\* The write takes effect, on the value that was read if there was one.
Writes(w) ==
    /\ loop[w].st = "write" /\ list'[loop[w].on] = Update(w)
    /\ loop[w].found => list[loop[w].on] = loop[w].old
    /\ loop'[w].hit \/ loop'[w].st \in {"index", "yes"}
    /\ loop'[w].old = loop[w].old

\* What the loop of w holds of the list it works on, and of its copy.
OldOrRead(w, y) ==
    \/ y \in Items(loop[w].old) \/ y \in Items(Stored(loop[w].on))
    \/ loop[w].on \in Indexed /\ y \in Items(index[loop[w].on])

LoopEffect(w) ==
    /\ loop[w].st \in {"read", "write", "index"}
    /\ \A l \in Lists \ {loop[w].on} : list'[l] = list[l]
    /\ \A l \in Indexed : \/ index'[l] = index[l]
                          \/ /\ l = loop[w].on /\ loop[w].st = "index" /\ index'[l] = Update(w)
                             /\ loop'[w].st = "yes"
    /\ faults <= faults'
    /\ Quiet(w) \/ Writes(w)
    /\ \A y \in Items(loop'[w].old) : OldOrRead(w, y)
    /\ loop'[w].st = "write" =>
          /\ loop[w].st = "read"
          /\ loop'[w].found <=> list[loop[w].on] # Nil
          /\ list[loop[w].on] # Nil => loop'[w].old = list[loop[w].on]
          /\ loop[w].on \notin Indexed => loop'[w].old = Stored(loop[w].on)
    /\ loop[w].st = "read" /\ loop[w].kind \in Adding /\ loop'[w].st \in {"index", "yes"} =>
          /\ list[loop[w].on] # Nil
          /\ NextList(loop[w].on, loop[w].kind, list[loop[w].on], loop[w].item) = list[loop[w].on]

\* A failed call is counted.
LEMMA FaultCounts ==
    ASSUME NEW E, LoopTypeOK(E), Fault
    PROVE  faults' \in 0..MaxFaults /\ faults <= faults'
  BY LoopAssumption DEF Fault, LoopTypeOK

\* A list, or the empty one when there is no column.
LEMMA StoredSeq ==
    ASSUME NEW E, LoopTypeOK(E), NEW l \in Lists
    PROVE  Stored(l) \in Seq(E)
<1>1. list[l] \in Seq(E) \cup {Nil} /\ <<>> \in Seq(E)
  BY DEF LoopTypeOK
<1> QED BY <1>1 DEF Stored

\* Reading: the round keeps what it has read, or finds nothing to do.
LEMMA LoopReadEffect ==
    ASSUME NEW E, LoopTypeOK(E), NEW w \in Workers, LoopRead(w)
    PROVE  LoopTypeOK(E)' /\ GoesOn(w) /\ LoopEffect(w)
<1> DEFINE l == loop[w].on
           s == IF list[l] = Nil /\ l \in Indexed THEN index[l] ELSE Stored(l)
<1>1. loop[w].st = "read" /\ list' = list /\ index' = index /\ faults' = faults
  BY DEF LoopRead
<1>2. l \in Lists /\ loop[w].item \in E /\ loop[w] \in LoopStates(E)
      /\ loop \in [Workers -> LoopStates(E)]
  BY <1>1 DEF LoopTypeOK
<1>3. s \in Seq(E)
  <2>1. l \in Indexed => index[l] \in Seq(E)
    BY DEF LoopTypeOK
  <2> QED BY <1>2, <2>1, StoredSeq
<1>4. \A y \in Items(s) : OldOrRead(w, y)
  BY DEF OldOrRead
<1>5. (list[l] # Nil => s = list[l]) /\ (l \notin Indexed => s = Stored(l))
  BY DEF Stored
<1>6. faults <= faults'
  BY <1>1 DEF LoopTypeOK
<1>7. /\ loop' \in [Workers -> LoopStates(E)] /\ GoesOn(w)
      /\ loop'[w].hit = loop[w].hit
      /\ \A y \in Items(loop'[w].old) : OldOrRead(w, y)
      /\ loop'[w].st = "write" =>
          /\ loop'[w].found <=> list[l] # Nil
          /\ list[l] # Nil => loop'[w].old = list[l]
          /\ l \notin Indexed => loop'[w].old = Stored(l)
      /\ loop[w].kind \in Adding /\ loop'[w].st \in {"index", "yes"} =>
          list[l] # Nil /\ NextList(l, loop[w].kind, list[l], loop[w].item) = list[l]
  <2> DEFINE same == NextList(l, loop[w].kind, s, loop[w].item) = s
  <2>1. CASE same /\ loop[w].kind \in {"remove", "take", "drop"} /\ Result(w, loop[w].kind # "take")
    <3>1. (loop[w].kind # "take") \in BOOLEAN
      OBVIOUS
    <3>2. /\ loop' \in [Workers -> LoopStates(E)] /\ GoesOn(w)
          /\ loop'[w].st \in {"yes", "no"}
          /\ loop'[w].old = loop[w].old /\ loop'[w].hit = loop[w].hit
      BY <1>1, <2>1, <3>1, ResultEffect
    <3>3. loop[w].kind \notin Adding
      BY <2>1 DEF Adding
    <3> QED BY <3>2, <3>3 DEF OldOrRead
  <2>2. CASE same /\ loop[w].kind \in {"append", "prepend"} /\ list[l] # Nil /\ Won(w, s)
    <3> HIDE DEF s
    <3>1. /\ loop' \in [Workers -> LoopStates(E)] /\ GoesOn(w)
          /\ loop'[w].st \in {"index", "yes"}
          /\ loop'[w].old \in {loop[w].old, s} /\ loop'[w].hit = loop[w].hit
      BY <1>1, <1>3, <2>2, WonEffect
    <3>2. \A y \in Items(loop[w].old) : OldOrRead(w, y)
      BY DEF OldOrRead
    <3> QED BY <1>4, <1>5, <2>2, <3>1, <3>2
  <2>3. CASE /\ loop' = [loop EXCEPT ![w].st = "write", ![w].old = s,
                                     ![w].found = list[l] # Nil]
             /\ UNCHANGED misled
    <3> DEFINE q == [loop[w] EXCEPT !.st = "write", !.old = s, !.found = list[l] # Nil]
    <3> HIDE DEF s
    <3>1. q \in LoopStates(E)
      BY <1>2, <1>3 DEF LoopStates
    <3>2. loop' = [loop EXCEPT ![w] = q] /\ misled' = misled
      BY <1>2, <2>3
    <3>3. /\ q.kind = loop[w].kind /\ q.on = loop[w].on /\ q.item = loop[w].item
          /\ q.old = s /\ q.hit = loop[w].hit /\ q.st = "write" /\ q.found = (list[l] # Nil)
      BY <1>2 DEF LoopStates
    <3> HIDE DEF q
    <3>4. loop' \in [Workers -> LoopStates(E)] /\ loop'[w] = q
          /\ \A x \in Workers \ {w} : loop'[x] = loop[x]
      BY <1>2, <3>1, <3>2
    <3>5. GoesOn(w)
      BY <3>2, <3>3, <3>4 DEF GoesOn
    <3> QED BY <1>4, <1>5, <3>3, <3>4, <3>5
  <2> QED BY <2>1, <2>2, <2>3 DEF LoopRead
<1>8. LoopTypeOK(E)'
  <2>1. loop[w].st # "off"
    BY <1>1
  <2> QED BY <1>1, <1>7, <2>1, GoesOnTypes DEF LoopTypeOK
<1> HIDE DEF s
<1> QED BY <1>1, <1>6, <1>7, <1>8 DEF LoopEffect, Quiet

\* A failed read changes the loop alone.
LEMMA LoopReadFailsEffect ==
    ASSUME NEW E, LoopTypeOK(E), NEW w \in Workers, LoopReadFails(w)
    PROVE  LoopTypeOK(E)' /\ GoesOn(w) /\ LoopEffect(w)
<1>1. loop[w].st = "read" /\ list' = list /\ index' = index
  BY DEF LoopReadFails
<1>2. faults' \in 0..MaxFaults /\ faults <= faults'
  BY FaultCounts DEF LoopReadFails
<1>3. /\ loop' \in [Workers -> LoopStates(E)] /\ GoesOn(w)
      /\ loop'[w].old = loop[w].old /\ loop'[w].hit = loop[w].hit
      /\ loop'[w].st \in {"read", "yes", "no"}
      /\ loop'[w].st = "yes" => loop[w].kind \notin Adding
  <2>1. CASE loop[w].kind \in {"take", "drop"}
    <3>1. Result(w, loop[w].kind = "drop")
      BY <2>1 DEF LoopReadFails
    <3>2. (loop[w].kind = "drop") \in BOOLEAN /\ loop[w].kind \notin Adding
      BY <2>1 DEF Adding
    <3> QED BY <1>1, <3>1, <3>2, ResultEffect
  <2>2. CASE loop[w].kind \notin {"take", "drop"}
    <3>1. Again(w, FALSE)
      BY <2>2 DEF LoopReadFails
    <3>2. loop[w].hit \in BOOLEAN
      BY LoopFields
    <3> QED BY <1>1, <3>1, <3>2, AgainEffect
  <2> QED BY <2>1, <2>2
<1>4. LoopTypeOK(E)'
  <2>1. loop[w].st # "off"
    BY <1>1
  <2> QED BY <1>1, <1>2, <1>3, <2>1, GoesOnTypes DEF LoopTypeOK
<1>5. \A y \in Items(loop'[w].old) : OldOrRead(w, y)
  BY <1>3 DEF OldOrRead
<1> QED BY <1>1, <1>2, <1>3, <1>4, <1>5 DEF LoopEffect, Quiet

\* The value that a write stores.
LEMMA UpdateSeq ==
    ASSUME NEW E, LoopTypeOK(E), NEW w \in Workers, loop[w].st # "off"
    PROVE  Update(w) \in Seq(E)
<1>1. /\ loop[w].kind \in Kinds /\ loop[w].on \in Lists /\ loop[w].item \in E
      /\ loop[w].old \in Seq(E)
  BY LoopFields
<1> QED BY <1>1, NextItems DEF Update

\* A write that takes effect, and one that does not.
LEMMA WriteEffects ==
    ASSUME NEW E, LoopTypeOK(E), NEW w \in Workers, loop[w].st = "write",
           loop' \in [Workers -> LoopStates(E)], GoesOn(w),
           loop'[w].old = loop[w].old, loop'[w].st \in {"read", "index", "yes", "no"},
           index' = index, faults' \in 0..MaxFaults, faults <= faults',
           \/ /\ list' = [list EXCEPT ![loop[w].on] = Update(w)]
              /\ loop[w].found => list[loop[w].on] = loop[w].old
              /\ loop'[w].hit \/ loop'[w].st \in {"index", "yes"}
           \/ /\ list' = list /\ loop'[w].hit = loop[w].hit
              /\ loop'[w].st \in {"read", "no"}
    PROVE  LoopTypeOK(E)' /\ GoesOn(w) /\ LoopEffect(w)
<1>1. Update(w) \in Seq(E) /\ loop[w].on \in Lists
  BY UpdateSeq, LoopFields
<1>2. list \in [Lists -> Seq(E) \cup {Nil}]
  BY DEF LoopTypeOK
<1>3. /\ list' \in [Lists -> Seq(E) \cup {Nil}]
      /\ \A l \in Lists \ {loop[w].on} : list'[l] = list[l]
      /\ Quiet(w) \/ Writes(w)
  <2>1. CASE /\ list' = [list EXCEPT ![loop[w].on] = Update(w)]
             /\ loop[w].found => list[loop[w].on] = loop[w].old
             /\ loop'[w].hit \/ loop'[w].st \in {"index", "yes"}
    <3>1. list'[loop[w].on] = Update(w)
      BY <1>1, <1>2, <2>1
    <3>2. Writes(w)
      BY <2>1, <3>1 DEF Writes
    <3> QED BY <1>1, <1>2, <2>1, <3>2
  <2>2. CASE /\ list' = list /\ loop'[w].hit = loop[w].hit
             /\ loop'[w].st \in {"read", "no"}
    BY <1>2, <2>2 DEF Quiet
  <2> QED BY <2>1, <2>2
<1>4. LoopTypeOK(E)'
  <2>1. loop[w].st # "off"
    OBVIOUS
  <2> QED BY <1>3, <2>1, GoesOnTypes DEF LoopTypeOK
<1>5. \A y \in Items(loop'[w].old) : OldOrRead(w, y)
  BY DEF OldOrRead
<1> QED BY <1>3, <1>4, <1>5 DEF LoopEffect

\* A write replaces the value that was read, or none at all.
LEMMA LoopWriteEffect ==
    ASSUME NEW E, LoopTypeOK(E), NEW w \in Workers, LoopWrite(w)
    PROVE  LoopTypeOK(E)' /\ GoesOn(w) /\ LoopEffect(w)
<1>1. loop[w].st = "write" /\ loop[w].st # "off" /\ index' = index /\ faults' = faults
  BY DEF LoopWrite
<1>2. faults' \in 0..MaxFaults /\ faults <= faults'
  BY <1>1 DEF LoopTypeOK
<1>3. loop[w].old \in Seq(E) /\ loop[w].hit \in BOOLEAN
  BY LoopFields
<1>4. CASE /\ loop[w].found /\ list[loop[w].on] = loop[w].old
           /\ list' = [list EXCEPT ![loop[w].on] = Update(w)]
           /\ Won(w, loop[w].old)
  <2>1. /\ loop' \in [Workers -> LoopStates(E)] /\ GoesOn(w)
        /\ loop'[w].st \in {"index", "yes"} /\ loop'[w].old = loop[w].old
    BY <1>1, <1>3, <1>4, WonEffect
  <2> QED BY <1>1, <1>2, <1>4, <2>1, WriteEffects
<1>5. CASE /\ loop[w].found /\ list[loop[w].on] # loop[w].old
           /\ Again(w, FALSE)
           /\ UNCHANGED list
  <2>1. /\ loop' \in [Workers -> LoopStates(E)] /\ GoesOn(w)
        /\ loop'[w].st \in {"read", "no"}
        /\ loop'[w].old = loop[w].old /\ loop'[w].hit = loop[w].hit
    BY <1>1, <1>3, <1>5, AgainEffect
  <2> QED BY <1>1, <1>2, <1>5, <2>1, WriteEffects
<1>6. CASE /\ ~loop[w].found
           /\ list' = [list EXCEPT ![loop[w].on] = Update(w)]
           /\ Again(w, TRUE)
  <2>1. /\ loop' \in [Workers -> LoopStates(E)] /\ GoesOn(w)
        /\ loop'[w].st \in {"read", "no"}
        /\ loop'[w].old = loop[w].old /\ loop'[w].hit
    BY <1>1, <1>3, <1>6, AgainEffect
  <2> QED BY <1>1, <1>2, <1>6, <2>1, WriteEffects
<1> QED BY <1>4, <1>5, <1>6 DEF LoopWrite

\* So does one that is not answered.
LEMMA LoopWriteFailsEffect ==
    ASSUME NEW E, LoopTypeOK(E), NEW w \in Workers, LoopWriteFails(w)
    PROVE  LoopTypeOK(E)' /\ GoesOn(w) /\ LoopEffect(w)
<1>1. loop[w].st = "write" /\ loop[w].st # "off" /\ index' = index
  BY DEF LoopWriteFails
<1>2. faults' \in 0..MaxFaults /\ faults <= faults'
  BY FaultCounts DEF LoopWriteFails
<1>3. loop[w].old \in Seq(E) /\ loop[w].hit \in BOOLEAN
  BY LoopFields
<1>4. CASE Again(w, FALSE) /\ UNCHANGED list
  <2>1. /\ loop' \in [Workers -> LoopStates(E)] /\ GoesOn(w)
        /\ loop'[w].st \in {"read", "no"}
        /\ loop'[w].old = loop[w].old /\ loop'[w].hit = loop[w].hit
    BY <1>1, <1>3, <1>4, AgainEffect
  <2> QED BY <1>1, <1>2, <1>4, <2>1, WriteEffects
<1>5. CASE /\ loop[w].found => list[loop[w].on] = loop[w].old
           /\ list' = [list EXCEPT ![loop[w].on] = Update(w)]
           /\ Again(w, TRUE)
  <2>1. /\ loop' \in [Workers -> LoopStates(E)] /\ GoesOn(w)
        /\ loop'[w].st \in {"read", "no"}
        /\ loop'[w].old = loop[w].old /\ loop'[w].hit
    BY <1>1, <1>3, <1>5, AgainEffect
  <2> QED BY <1>1, <1>2, <1>5, <2>1, WriteEffects
<1> QED BY <1>4, <1>5 DEF LoopWriteFails

\* The copy holds what the loop has read, its item added or removed.
LEMMA CopyIndexEffect ==
    ASSUME NEW E, LoopTypeOK(E), NEW w \in Workers, CopyIndex(w)
    PROVE  LoopTypeOK(E)' /\ GoesOn(w) /\ LoopEffect(w)
<1>1. loop[w].st = "index" /\ loop[w].st # "off" /\ list' = list /\ Result(w, TRUE)
  BY DEF CopyIndex
<1>2. faults' \in 0..MaxFaults /\ faults <= faults'
  <2>1. CASE UNCHANGED faults
    BY <2>1 DEF LoopTypeOK
  <2>2. CASE Fault
    BY <2>2, FaultCounts
  <2> QED BY <2>1, <2>2 DEF CopyIndex
<1>3. /\ loop' \in [Workers -> LoopStates(E)] /\ GoesOn(w)
      /\ loop'[w].st = "yes"
      /\ loop'[w].old = loop[w].old /\ loop'[w].hit = loop[w].hit
  BY <1>1, ResultEffect
<1>4. Update(w) \in Seq(E) /\ index \in [Indexed -> Seq(E)]
  BY <1>1, UpdateSeq DEF LoopTypeOK
<1>5. /\ index' \in [Indexed -> Seq(E)]
      /\ \A l \in Indexed : index'[l] = index[l] \/ (l = loop[w].on /\ index'[l] = Update(w))
  BY <1>4 DEF CopyIndex
<1>6. LoopTypeOK(E)'
  BY <1>1, <1>2, <1>3, <1>5, GoesOnTypes DEF LoopTypeOK
<1>7. \A y \in Items(loop'[w].old) : OldOrRead(w, y)
  BY <1>3 DEF OldOrRead
<1> QED BY <1>1, <1>2, <1>3, <1>5, <1>6, <1>7 DEF LoopEffect, Quiet

\* Every step of a loop keeps the types, touches one list and no other loop, and
\* writes over nothing but the value that it has read.
LEMMA LoopStepEffect ==
    ASSUME NEW E, LoopTypeOK(E), NEW w \in Workers, LoopStep(w)
    PROVE  LoopTypeOK(E)' /\ GoesOn(w) /\ LoopEffect(w)
  BY LoopReadEffect, LoopReadFailsEffect, LoopWriteEffect, LoopWriteFailsEffect,
     CopyIndexEffect DEF LoopStep

-----------------------------------------------------------------------------
(* What is in the lists of a set L, in their copies and in the hands of the
   loops that change them; and what a loop is asked to list or to remove. *)

OnLists(L) == UNION {Items(Stored(l)) : l \in L}
OnCopies(L) == UNION {Items(index[l]) : l \in L \cap Indexed}
InHands(L) == UNION {Items(loop[w].old) : w \in {w \in Workers : loop[w].on \in L}}
Around(L) == OnLists(L) \cup OnCopies(L) \cup InHands(L)

Asked(w) == IF loop[w].st = "off" THEN {} ELSE {loop[w].item}

\* The write of w's loop is done, and the item of the loop listed.
HasListed(w) == loop[w].kind \in {"append", "prepend"} /\ loop[w].st \in {"index", "yes"}

\* A step of a loop brings its item to its list, and nothing else anywhere.
LEMMA LoopAround ==
    ASSUME NEW E, LoopTypeOK(E), NEW w \in Workers, LoopStep(w),
           NEW L \in SUBSET Lists, NEW y, y \in Around(L)', y \notin Around(L)
    PROVE  /\ y = loop[w].item /\ loop[w].on \in L
           /\ loop'[w].hit \/ loop'[w].st \in {"index", "yes"}
<1>1. LoopTypeOK(E)' /\ GoesOn(w) /\ LoopEffect(w)
  BY LoopStepEffect
<1>2. /\ loop[w].kind \in Kinds /\ loop[w].on \in Lists /\ loop[w].item \in E
      /\ loop[w].old \in Seq(E)
  BY <1>1, LoopFields DEF LoopEffect
<1>3. Items(Update(w)) \subseteq Items(loop[w].old) \cup {loop[w].item}
  BY <1>2, NextItems DEF Update
<1>4. loop[w].on \in L => Items(loop[w].old) \subseteq Around(L)
  BY DEF Around, InHands
<1>5. CASE y \in OnLists(L)'
  <2>1. PICK l \in L : y \in Items(Stored(l))'
    BY <1>5 DEF OnLists
  <2>2. y \notin Items(Stored(l))
    BY DEF Around, OnLists
  <2>3. list'[l] # list[l]
    BY <2>1, <2>2 DEF Stored
  <2>4. l = loop[w].on /\ Writes(w)
    BY <1>1, <2>3 DEF LoopEffect, Quiet
  <2>5. y \in Items(Update(w))
    <3>1. Items(<<>>) = {}
      BY DEF Items
    <3> QED BY <2>1, <2>4, <3>1 DEF Stored, Writes
  <2> QED BY <1>3, <1>4, <2>4, <2>5 DEF Writes
<1>6. CASE y \in OnCopies(L)'
  <2>1. PICK l \in L \cap Indexed : y \in Items(index'[l])
    BY <1>6 DEF OnCopies
  <2>2. y \notin Items(index[l])
    BY DEF Around, OnCopies
  <2>3. l = loop[w].on /\ y \in Items(Update(w)) /\ loop'[w].st = "yes"
    BY <1>1, <2>1, <2>2 DEF LoopEffect
  <2> QED BY <1>3, <1>4, <2>3
<1>7. CASE y \in InHands(L)'
  <2>1. PICK x \in Workers : loop'[x].on \in L /\ y \in Items(loop'[x].old)
    BY <1>7 DEF InHands
  <2>2. CASE x # w
    BY <1>1, <2>1, <2>2 DEF GoesOn, Around, InHands
  <2>3. CASE x = w
    <3>1. loop[w].on \in L /\ OldOrRead(w, y)
      BY <1>1, <2>1, <2>3 DEF GoesOn, LoopEffect
    <3> QED BY <3>1 DEF OldOrRead, Around, OnLists, OnCopies, InHands
  <2> QED BY <2>2, <2>3
<1> QED BY <1>5, <1>6, <1>7 DEF Around

\* A list that is not cut loses nothing but what a loop is asked to remove, if
\* columns are put without comparing only where there is none.
LEMMA LoopLoses ==
    ASSUME NEW E, Nil \notin Seq(E), LoopTypeOK(E), NEW w \in Workers, LoopStep(w),
           loop[w].st = "write" /\ ~loop[w].found => list[loop[w].on] = Nil,
           NEW l \in Lists, Cap[l] = 0,
           NEW y, y \in Items(Stored(l)), y \notin Items(Stored(l))'
    PROVE  /\ l = loop[w].on /\ y = loop[w].item /\ loop[w].kind \notin Adding
           /\ loop[w].st = "write" /\ (loop'[w].hit \/ loop'[w].st \in {"index", "yes"})
<1>1. LoopTypeOK(E)' /\ GoesOn(w) /\ LoopEffect(w)
  BY LoopStepEffect
<1>2. /\ loop[w].kind \in Kinds /\ loop[w].on \in Lists /\ loop[w].item \in E
      /\ loop[w].old \in Seq(E) /\ loop[w].found \in BOOLEAN
  BY <1>1, LoopFields DEF LoopEffect
<1>3. list'[l] # list[l]
  BY DEF Stored
<1>4. l = loop[w].on /\ Writes(w)
  BY <1>1, <1>3 DEF LoopEffect, Quiet
<1>5. list[l] # Nil /\ Stored(l) = list[l]
  <2>1. Items(<<>>) = {}
    BY DEF Items
  <2> QED BY <2>1 DEF Stored
<1>6. loop[w].old = list[l]
  BY <1>2, <1>4, <1>5 DEF Writes
<1>7. Update(w) \in Seq(E) /\ Stored(l)' = Update(w)
  <2>1. Update(w) \in Seq(E)
    BY <1>4, UpdateSeq DEF Writes
  <2> QED BY <1>4, <2>1 DEF Stored, Writes
<1>8. y \in Items(loop[w].old) /\ y \notin Items(Update(w))
  BY <1>5, <1>6, <1>7
<1>9. y = loop[w].item /\ loop[w].kind \notin Adding
  BY <1>2, <1>4, <1>8, NextItems DEF Update
<1> QED BY <1>4, <1>9 DEF Writes

\* A loop that reports that it has added its item has.
LEMMA LoopLists ==
    ASSUME NEW E, Nil \notin Seq(E), LoopTypeOK(E), NEW w \in Workers, LoopStep(w),
           \/ Cap[loop[w].on] = 0
           \/ /\ Len(Stored(loop[w].on)) <= Cap[loop[w].on]
              /\ loop[w].st = "write" => Len(loop[w].old) <= Cap[loop[w].on],
           HasListed(w)', ~HasListed(w)
    PROVE  loop[w].item \in Items(Stored(loop[w].on))'
<1>1. LoopTypeOK(E)' /\ GoesOn(w) /\ LoopEffect(w)
  BY LoopStepEffect
<1>2. /\ loop[w].kind \in Kinds /\ loop[w].on \in Lists /\ loop[w].item \in E
      /\ loop[w].old \in Seq(E)
  BY <1>1, LoopFields DEF LoopEffect
<1>3. loop[w].kind \in Adding /\ loop'[w].st \in {"index", "yes"}
      /\ loop[w].st \in {"read", "write"}
  BY <1>1 DEF HasListed, GoesOn, LoopEffect, Adding
<1>4. CASE loop[w].st = "read"
  <2>1. /\ list[loop[w].on] # Nil /\ list' = list
        /\ NextList(loop[w].on, loop[w].kind, list[loop[w].on], loop[w].item) = list[loop[w].on]
    BY <1>1, <1>3, <1>4 DEF LoopEffect, Quiet, Writes
  <2>2. Stored(loop[w].on) = list[loop[w].on] /\ Stored(loop[w].on)' = list[loop[w].on]
    BY <1>1, <2>1 DEF Stored, GoesOn
  <2>3. Stored(loop[w].on) \in Seq(E)
    BY <1>2, StoredSeq
  <2>4. loop[w].item \in Items(NextList(loop[w].on, loop[w].kind, list[loop[w].on], loop[w].item))
    BY <1>2, <1>3, <1>4, <2>2, <2>3, NextItems
  <2> QED BY <2>1, <2>2, <2>4
<1>5. CASE loop[w].st = "write"
  <2>1. Writes(w)
    BY <1>1, <1>3, <1>5 DEF LoopEffect, Quiet
  <2>2. Update(w) \in Seq(E)
    BY <1>5, UpdateSeq
  <2>3. Stored(loop[w].on)' = Update(w)
    BY <1>1, <2>1, <2>2 DEF Stored, Writes, GoesOn
  <2>4. loop[w].item \in Items(Update(w))
    BY <1>2, <1>3, <1>5, NextItems DEF Update
  <2> QED BY <2>3, <2>4
<1> QED BY <1>3, <1>4, <1>5
=============================================================================
