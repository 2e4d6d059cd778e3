--------------------------- MODULE ServiceProofs ---------------------------
(***************************************************************************)
(* Proofs about what the users' clients talk to.                           *)
(*                                                                         *)
(* Session, for every number of requests, rows, sessions, users and        *)
(* faults: a finished logout leaves no row that a check would accept, a    *)
(* session in use keeps a complete row, a client is told that it has none  *)
(* only when it ended, and the stored password is the one last confirmed.  *)
(*                                                                         *)
(* Smtp and SmtpOut, for every number of messages, recipients, mail        *)
(* servers and settings: a message answered 250 has reached every          *)
(* recipient the client was granted, and nobody gets more copies than were *)
(* asked for, but for attempts that took effect and looked failed.         *)
(***************************************************************************)
EXTENDS Session, Smtp, FiniteSetTheorems, TLAPS

-----------------------------------------------------------------------------
(* Sessions. *)

SessionInv ==
    TypeOK /\ WorkInv /\ CreateInv /\ RowLeft /\ ReadInv /\ LogoutInv /\ PasswordInv

\* The facts about w's request.
LEMMA RequestFacts ==
    ASSUME TypeOK, WorkInv, NEW w \in Workers, pc[w] # "idle"
    PROVE  /\ req[w] \in plan.made /\ req[w] # Nil
           /\ Sid(w) \in Sids /\ User(w) \in Users /\ req[w].do \in ReqKinds
  BY SessionAssumption DEF TypeOK, WorkInv, Sid, User

\* The invariant holds at the start.
LEMMA InitInv == Init => SessionInv
<1> SUFFICES ASSUME Init PROVE SessionInv
  OBVIOUS
<1> USE SessionAssumption DEF Init
<1>0. cols \in [Sids -> [1..N -> SUBSET Both]]
  <2>1. Both \in SUBSET Both /\ {} \in SUBSET Both
    OBVIOUS
  <2> QED BY <2>1
<1>9. 1 \in 1..N /\ plan.faults \in Nat /\ faults \in 0..plan.faults
  OBVIOUS
<1>10. pc \in [Workers -> Labels] /\ req \in [Workers -> plan.made \cup {Nil}]
  BY DEF Labels
<1>1. TypeOK
  BY <1>0, <1>9, <1>10 DEF TypeOK
<1>2. WorkInv
  BY DEF WorkInv
<1>3. Busy = {}
  BY DEF Busy
<1>4. CreateInv
  BY <1>3 DEF CreateInv
<1>5. RowLeft
  BY DEF RowLeft
<1>6. ReadInv
  BY DEF ReadInv
<1>7. LogoutInv
  BY DEF LogoutInv
<1>8. PasswordInv
  BY <1>3 DEF PasswordInv, PasswordOf, Agrees, Writers
<1> QED BY <1>1, <1>2, <1>4, <1>5, <1>6, <1>7, <1>8 DEF SessionInv

-----------------------------------------------------------------------------
(* What a step of a worker does to others, to rows and to control. *)

WStep(w) == Step(w) \/ Crash(w)

\* The next row, or the first one after the last.
LEMMA AdvanceType ==
    ASSUME TypeOK, NEW w \in Workers, NEW a \in Labels, NEW b \in Labels, Advance(w, a, b)
    PROVE  /\ pc' \in [Workers -> Labels] /\ row' \in [Workers -> 1..N]
           /\ \A x \in Workers \ {w} : pc'[x] = pc[x] /\ row'[x] = row[x]
           /\ \/ row[w] < N /\ pc'[w] = a /\ row'[w] = row[w] + 1
              \/ row[w] = N /\ pc'[w] = b /\ row'[w] = 1
<1>1. row[w] \in 1..N /\ N \in Nat
  BY SessionAssumption DEF TypeOK
<1>2. CASE row[w] < N
  <2>1. row' = [row EXCEPT ![w] = row[w] + 1] /\ pc' = [pc EXCEPT ![w] = a]
    BY <1>2 DEF Advance, Goto
  <2>2. row[w] + 1 \in 1..N
    BY <1>1, <1>2
  <2> QED BY <1>2, <2>1, <2>2 DEF TypeOK
<1>3. CASE ~(row[w] < N)
  <2>1. row' = [row EXCEPT ![w] = 1] /\ pc' = [pc EXCEPT ![w] = b]
    BY <1>3 DEF Advance, Goto
  <2>2. 1 \in 1..N /\ row[w] = N
    BY <1>1, <1>3
  <2> QED BY <2>1, <2>2 DEF TypeOK
<1> QED BY <1>2, <1>3

\* A label is set.
LEMMA GotoType ==
    ASSUME TypeOK, NEW w \in Workers, NEW a \in Labels, Goto(w, a)
    PROVE  /\ pc' \in [Workers -> Labels] /\ pc'[w] = a
           /\ \A x \in Workers \ {w} : pc'[x] = pc[x]
  BY DEF TypeOK, Goto

\* One row of w's session is changed.
LEMMA PutDel ==
    ASSUME TypeOK, NEW w \in Workers, Sid(w) \in Sids, NEW c \in SUBSET Both,
           \/ cols' = [cols EXCEPT ![Sid(w)][row[w]] = @ \cup c]
           \/ cols' = [cols EXCEPT ![Sid(w)][row[w]] = @ \ c]
    PROVE  /\ cols' \in [Sids -> [1..N -> SUBSET Both]]
           /\ \A s \in Sids : \A i \in 1..N : s # Sid(w) \/ i # row[w] => cols'[s][i] = cols[s][i]
<1>1. row[w] \in 1..N /\ cols[Sid(w)] \in [1..N -> SUBSET Both]
  BY DEF TypeOK
<1>2. cols[Sid(w)][row[w]] \cup c \in SUBSET Both /\ cols[Sid(w)][row[w]] \ c \in SUBSET Both
  BY <1>1
<1>3. PICK d \in SUBSET Both : cols' = [cols EXCEPT ![Sid(w)][row[w]] = d]
  BY <1>2
<1> QED BY <1>1, <1>3 DEF TypeOK

\* A column is added to w's row.
LEMMA PutRow ==
    ASSUME TypeOK, NEW w \in Workers, Sid(w) \in Sids, NEW c \in Both, Put(w, c)
    PROVE  /\ cols' \in [Sids -> [1..N -> SUBSET Both]]
           /\ \A s \in Sids : \A i \in 1..N :
                 /\ s # Sid(w) \/ i # row[w] => cols'[s][i] = cols[s][i]
                 /\ cols[s][i] \subseteq cols'[s][i]
           /\ cols'[Sid(w)][row[w]] = cols[Sid(w)][row[w]] \cup {c}
<1>1. row[w] \in 1..N /\ cols[Sid(w)] \in [1..N -> SUBSET Both] /\ {c} \in SUBSET Both
  BY DEF TypeOK
<1>2. cols' = [cols EXCEPT ![Sid(w)][row[w]] = @ \cup {c}]
  BY DEF Put
<1>3. cols'[Sid(w)][row[w]] = cols[Sid(w)][row[w]] \cup {c}
  BY <1>1, <1>2 DEF TypeOK
<1>4. /\ cols' \in [Sids -> [1..N -> SUBSET Both]]
      /\ \A s \in Sids : \A i \in 1..N : s # Sid(w) \/ i # row[w] => cols'[s][i] = cols[s][i]
  BY <1>1, <1>2, PutDel
<1> QED BY <1>3, <1>4

\* Columns are deleted from w's row.
LEMMA DelRow ==
    ASSUME TypeOK, NEW w \in Workers, Sid(w) \in Sids, NEW c \in SUBSET Both, Del(w, c)
    PROVE  /\ cols' \in [Sids -> [1..N -> SUBSET Both]]
           /\ \A s \in Sids : \A i \in 1..N :
                 /\ s # Sid(w) \/ i # row[w] => cols'[s][i] = cols[s][i]
                 /\ cols'[s][i] \subseteq cols[s][i]
           /\ cols'[Sid(w)][row[w]] = cols[Sid(w)][row[w]] \ c
<1>1. row[w] \in 1..N /\ cols[Sid(w)] \in [1..N -> SUBSET Both]
  BY DEF TypeOK
<1>2. cols' = [cols EXCEPT ![Sid(w)][row[w]] = @ \ c]
  BY DEF Del
<1>3. cols'[Sid(w)][row[w]] = cols[Sid(w)][row[w]] \ c
  BY <1>1, <1>2 DEF TypeOK
<1>4. /\ cols' \in [Sids -> [1..N -> SUBSET Both]]
      /\ \A s \in Sids : \A i \in 1..N : s # Sid(w) \/ i # row[w] => cols'[s][i] = cols[s][i]
  BY <1>1, <1>2, PutDel
<1> QED BY <1>3, <1>4

\* What a step of w does to the rows: others stay, and only the writers of
\* rows touch them.
RowEffect(w) ==
    /\ cols' \in [Sids -> [1..N -> SUBSET Both]]
    /\ \A s \in Sids : \A i \in 1..N : s # Sid(w) \/ i # row[w] => cols'[s][i] = cols[s][i]
    /\ \/ cols' = cols
       \/ /\ pc[w] \in {"user", "expiry", "fixuser", "fixexpiry"}
          /\ \A s \in Sids : \A i \in 1..N : cols[s][i] \subseteq cols'[s][i]
       \/ /\ pc[w] \in {"undo", "deluser", "delexpiry"}
          /\ \A s \in Sids : \A i \in 1..N : cols'[s][i] \subseteq cols[s][i]

\* A step of a request changes no row but as its handler does.
LEMMA RowStep ==
    ASSUME TypeOK, WorkInv, NEW w \in Workers, WStep(w)
    PROVE  RowEffect(w)
<1>1. pc[w] # "idle"
  BY DEF WStep, Step, PutUser, PutExpiry, Undo, DelUser, DelExpiry, FixUser, FixExpiry,
         ReadUser, ReadExpiry, ReadFails, Verdict, Login, Rehash, Signup, ChangePassword,
         PutPwd, PutPwdFails, Created, NotCreated, Crash, Busy
<1>2. Sid(w) \in Sids
  BY <1>1, RequestFacts
<1>3. /\ "user" \in Both /\ "expiry" \in Both /\ {"user"} \in SUBSET Both /\ {"expiry"} \in SUBSET Both
      /\ Both \in SUBSET Both /\ {} \in SUBSET Both
  BY DEF Both
<1>4. ASSUME cols' = cols PROVE RowEffect(w)
  BY <1>4 DEF RowEffect, TypeOK
<1>5. ASSUME NEW c \in Both, Put(w, c), pc[w] \in {"user", "expiry", "fixuser", "fixexpiry"}
      PROVE  RowEffect(w)
  BY <1>2, <1>5, PutRow DEF RowEffect
<1>6. ASSUME NEW c \in SUBSET Both, Del(w, c), pc[w] \in {"undo", "deluser", "delexpiry"}
      PROVE  RowEffect(w)
  BY <1>2, <1>6, DelRow DEF RowEffect
<1>7. CASE PutUser(w)
  BY <1>7, <1>3, <1>4, <1>5 DEF PutUser
<1>8. CASE PutExpiry(w)
  BY <1>8, <1>3, <1>4, <1>5 DEF PutExpiry
<1>9. CASE Undo(w)
  BY <1>9, <1>3, <1>4, <1>6 DEF Undo
<1>10. CASE DelUser(w)
  BY <1>10, <1>3, <1>4, <1>6 DEF DelUser
<1>11. CASE DelExpiry(w)
  BY <1>11, <1>3, <1>4, <1>6 DEF DelExpiry
<1>12. CASE FixUser(w)
  BY <1>12, <1>3, <1>4, <1>5 DEF FixUser
<1>13. CASE FixExpiry(w)
  BY <1>13, <1>3, <1>4, <1>5 DEF FixExpiry
<1>14. CASE ReadUser(w)
  BY <1>14, <1>4 DEF ReadUser, kv
<1>15. CASE ReadExpiry(w)
  BY <1>15, <1>4 DEF ReadExpiry, kv
<1>16. CASE ReadFails(w)
  BY <1>16, <1>4 DEF ReadFails, kv
<1>17. CASE Verdict(w)
  BY <1>17, <1>4 DEF Verdict, kv
<1>18. CASE Login(w)
  BY <1>18, <1>4 DEF Login, kv
<1>19. CASE Rehash(w)
  BY <1>19, <1>4 DEF Rehash, kv
<1>20. CASE Signup(w)
  BY <1>20, <1>4 DEF Signup, kv
<1>21. CASE ChangePassword(w)
  BY <1>21, <1>4 DEF ChangePassword, kv
<1>22. CASE PutPwd(w)
  BY <1>22, <1>4 DEF PutPwd, kv
<1>23. CASE PutPwdFails(w)
  BY <1>23, <1>4 DEF PutPwdFails, kv
<1>24. CASE Created(w)
  BY <1>24, <1>4 DEF Created, kv
<1>25. CASE NotCreated(w)
  BY <1>25, <1>4 DEF NotCreated, kv
<1>26. CASE Crash(w)
  BY <1>26, <1>4 DEF Crash, kv
<1> QED BY <1>7, <1>8, <1>9, <1>10, <1>11, <1>12, <1>13, <1>14, <1>15, <1>16, <1>17, <1>18, <1>19, <1>20, <1>21, <1>22, <1>23, <1>24, <1>25, <1>26 DEF WStep, Step

\* What a step of w leaves alone.
Frame(w) ==
    /\ req' = req /\ plan' = plan /\ expired' = expired /\ ended' = ended
    /\ \A x \in Workers \ {w} : pc'[x] = pc[x] /\ row'[x] = row[x] /\ flag'[x] = flag[x]
    /\ \A u \in Users \ {User(w)} : pwd'[u] = pwd[u] /\ agreed'[u] = agreed[u]
    /\ begun \subseteq begun' /\ begun' \subseteq begun \cup {Sid(w)}
    /\ tangled \subseteq tangled' /\ muddled \subseteq muddled'
    /\ pc[w] # "idle" /\ pc'[w] # "idle"

\* What a step of one request leaves alone.
LEMMA FrameStep ==
    ASSUME TypeOK, WorkInv, NEW w \in Workers, WStep(w)
    PROVE  TypeOK' /\ Frame(w)
<1>1. pc[w] # "idle"
  BY DEF WStep, Step, PutUser, PutExpiry, Undo, DelUser, DelExpiry, FixUser, FixExpiry,
         ReadUser, ReadExpiry, ReadFails, Verdict, Login, Rehash, Signup, ChangePassword,
         PutPwd, PutPwdFails, Created, NotCreated, Crash, Busy
<1>2. Sid(w) \in Sids /\ User(w) \in Users
  BY <1>1, RequestFacts
<1>3. cols' \in [Sids -> [1..N -> SUBSET Both]]
  BY RowStep DEF RowEffect
<1>4. plan.faults \in Nat
  BY SessionAssumption DEF TypeOK
<1> DEFINE Bound == faults' \in 0..plan.faults
           Control ==
             /\ pc' \in [Workers -> Labels] /\ row' \in [Workers -> 1..N] /\ pc'[w] # "idle"
             /\ flag' \in [Workers -> BOOLEAN] /\ DOMAIN reply' = Workers
             /\ \A x \in Workers \ {w} : pc'[x] = pc[x] /\ row'[x] = row[x] /\ flag'[x] = flag[x]
           Stored ==
             /\ DOMAIN pwd' = Users /\ DOMAIN agreed' = Users
             /\ \A u \in Users \ {User(w)} : pwd'[u] = pwd[u] /\ agreed'[u] = agreed[u]
           Rest ==
             /\ UNCHANGED <<req, plan, expired, ended>>
             /\ begun \subseteq begun' /\ tangled \subseteq tangled' /\ muddled \subseteq muddled'
             /\ begun' \subseteq begun \cup {Sid(w)} /\ tangled' \subseteq Sids /\ muddled' \subseteq Users
<1>5. ASSUME Fault \/ UNCHANGED faults PROVE Bound
  BY <1>4, <1>5 DEF Fault, TypeOK
<1>6. ASSUME Bound, Control, Stored, Rest PROVE TypeOK' /\ Frame(w)
  BY <1>1, <1>2, <1>3, <1>6 DEF TypeOK, Frame
<1> HIDE DEF Bound, Control, Stored, Rest
<1>7. CASE PutUser(w)
  <2> USE <1>7 DEF PutUser, kv, gh
  <2>1. Bound
    BY <1>5 DEF Bound
  <2>2. Stored
    BY <1>2 DEF TypeOK, Stored
  <2>3. Rest
    BY <1>2 DEF TypeOK, Rest
  <2>4. Control
    BY <1>1, GotoType, AdvanceType, SMTT(60) DEF TypeOK, Labels, Reply, Refuse, Control
  <2> QED BY <1>6, <2>1, <2>2, <2>3, <2>4
<1>8. CASE PutExpiry(w)
  <2> USE <1>8 DEF PutExpiry, kv, gh
  <2>1. Bound
    BY <1>5 DEF Bound
  <2>2. Stored
    BY <1>2 DEF TypeOK, Stored
  <2>3. Rest
    BY <1>2 DEF TypeOK, Rest
  <2>4. Control
    <3>0. 1 \in 1..N
      BY SessionAssumption
    <3>1. CASE Put(w, "expiry") /\ flag' = [flag EXCEPT ![w] = TRUE] /\ Advance(w, "user", "created")
      BY <3>1, <1>1, AdvanceType DEF TypeOK, Labels, Control
    <3>2. CASE Goto(w, "undo") /\ UNCHANGED <<row, flag>>
      BY <3>0, <3>2, <1>1, GotoType DEF TypeOK, Labels, Control
    <3> QED BY <3>1, <3>2
  <2> QED BY <1>6, <2>1, <2>2, <2>3, <2>4
<1>9. CASE Undo(w)
  <2> USE <1>9 DEF Undo, kv, gh
  <2>1. Bound
    BY <1>5 DEF Bound
  <2>2. Stored
    BY <1>2 DEF TypeOK, Stored
  <2>3. Rest
    BY <1>2 DEF TypeOK, Rest
  <2>4. Control
    BY <1>1, GotoType, AdvanceType, SMTT(60) DEF TypeOK, Labels, Reply, Refuse, Control
  <2> QED BY <1>6, <2>1, <2>2, <2>3, <2>4
<1>10. CASE DelUser(w)
  <2> USE <1>10 DEF DelUser, kv, gh
  <2>1. Bound
    BY <1>5 DEF Bound
  <2>2. Stored
    BY <1>2 DEF TypeOK, Stored
  <2>3. Rest
    BY <1>2 DEF TypeOK, Rest
  <2>4. Control
    BY <1>1, GotoType, AdvanceType, SMTT(60) DEF TypeOK, Labels, Reply, Refuse, Control
  <2> QED BY <1>6, <2>1, <2>2, <2>3, <2>4
<1>11. CASE DelExpiry(w)
  <2> USE <1>11 DEF DelExpiry, kv, gh
  <2>1. Bound
    BY <1>5 DEF Bound
  <2>2. Stored
    BY <1>2 DEF TypeOK, Stored
  <2>3. Rest
    BY <1>2 DEF TypeOK, Rest
  <2>4. Control
    BY <1>1, GotoType, AdvanceType, SMTT(60) DEF TypeOK, Labels, Reply, Refuse, Control
  <2> QED BY <1>6, <2>1, <2>2, <2>3, <2>4
<1>12. CASE FixUser(w)
  <2> USE <1>12 DEF FixUser, kv, gh
  <2>1. Bound
    BY <1>5 DEF Bound
  <2>2. Stored
    BY <1>2 DEF TypeOK, Stored
  <2>3. Rest
    BY <1>2 DEF TypeOK, Rest
  <2>4. Control
    BY <1>1, GotoType, AdvanceType, SMTT(60) DEF TypeOK, Labels, Reply, Refuse, Control
  <2> QED BY <1>6, <2>1, <2>2, <2>3, <2>4
<1>13. CASE FixExpiry(w)
  <2> USE <1>13 DEF FixExpiry, kv, gh
  <2>1. Bound
    BY <1>5 DEF Bound
  <2>2. Stored
    BY <1>2 DEF TypeOK, Stored
  <2>3. Rest
    BY <1>2 DEF TypeOK, Rest
  <2>4. Control
    BY <1>1, GotoType, AdvanceType, SMTT(60) DEF TypeOK, Labels, Reply, Refuse, Control
  <2> QED BY <1>6, <2>1, <2>2, <2>3, <2>4
<1>14. CASE ReadUser(w)
  <2> USE <1>14 DEF ReadUser, kv, gh
  <2>1. Bound
    BY <1>5 DEF Bound
  <2>2. Stored
    BY <1>2 DEF TypeOK, Stored
  <2>3. Rest
    BY <1>2 DEF TypeOK, Rest
  <2>4. Control
    BY <1>1, GotoType, AdvanceType, SMTT(60) DEF TypeOK, Labels, Reply, Refuse, Control
  <2> QED BY <1>6, <2>1, <2>2, <2>3, <2>4
<1>15. CASE ReadExpiry(w)
  <2> USE <1>15 DEF ReadExpiry, kv, gh
  <2>1. Bound
    BY <1>5 DEF Bound
  <2>2. Stored
    BY <1>2 DEF TypeOK, Stored
  <2>3. Rest
    BY <1>2 DEF TypeOK, Rest
  <2>4. Control
    <3>0. 1 \in 1..N
      BY SessionAssumption
    <3>1. CASE Advance(w, "readuser", "invalid")
      BY <3>1, <1>1, AdvanceType DEF TypeOK, Labels, Control
    <3>2. CASE row' = [row EXCEPT ![w] = 1] /\ (Goto(w, "deluser") \/ Goto(w, "fixuser") \/ Goto(w, "valid"))
      BY <3>0, <3>2, <1>1, GotoType DEF TypeOK, Labels, Control
    <3> QED BY <3>1, <3>2
  <2> QED BY <1>6, <2>1, <2>2, <2>3, <2>4
<1>16. CASE ReadFails(w)
  <2> USE <1>16 DEF ReadFails, kv, gh
  <2>1. Bound
    BY <1>5 DEF Bound
  <2>2. Stored
    BY <1>2 DEF TypeOK, Stored
  <2>3. Rest
    BY <1>2 DEF TypeOK, Rest
  <2>4. Control
    BY <1>1, GotoType, AdvanceType, SMTT(60) DEF TypeOK, Labels, Reply, Refuse, Control
  <2> QED BY <1>6, <2>1, <2>2, <2>3, <2>4
<1>17. CASE Verdict(w)
  <2> USE <1>17 DEF Verdict, kv, gh
  <2>1. Bound
    BY <1>5 DEF Bound
  <2>2. Stored
    BY <1>2 DEF TypeOK, Stored
  <2>3. Rest
    BY <1>2 DEF TypeOK, Rest
  <2>4. Control
    BY <1>1, GotoType, AdvanceType, SMTT(60) DEF TypeOK, Labels, Reply, Refuse, Control
  <2> QED BY <1>6, <2>1, <2>2, <2>3, <2>4
<1>18. CASE Login(w)
  <2> USE <1>18 DEF Login, kv, gh
  <2>1. Bound
    BY <1>5 DEF Bound
  <2>2. Stored
    BY <1>2 DEF TypeOK, Stored
  <2>3. Rest
    BY <1>2 DEF TypeOK, Rest
  <2>4. Control
    BY <1>1, GotoType, AdvanceType, SMTT(60) DEF TypeOK, Labels, Reply, Refuse, Control
  <2> QED BY <1>6, <2>1, <2>2, <2>3, <2>4
<1>19. CASE Rehash(w)
  <2> USE <1>19 DEF Rehash, kv, gh
  <2>1. Bound
    BY <1>5 DEF Bound
  <2>2. Stored
    BY <1>2 DEF TypeOK, Stored
  <2>3. Rest
    BY <1>2 DEF TypeOK, Rest
  <2>4. Control
    BY <1>1, GotoType, AdvanceType, SMTT(60) DEF TypeOK, Labels, Reply, Refuse, Control
  <2> QED BY <1>6, <2>1, <2>2, <2>3, <2>4
<1>20. CASE Signup(w)
  <2> USE <1>20 DEF Signup, kv, gh
  <2>1. Bound
    BY <1>5 DEF Bound
  <2>2. Stored
    BY <1>2 DEF TypeOK, Stored
  <2>3. Rest
    BY <1>2 DEF TypeOK, Rest
  <2>4. Control
    BY <1>1, GotoType, AdvanceType, SMTT(60) DEF TypeOK, Labels, Reply, Refuse, Control
  <2> QED BY <1>6, <2>1, <2>2, <2>3, <2>4
<1>21. CASE ChangePassword(w)
  <2> USE <1>21 DEF ChangePassword, kv, gh
  <2>1. Bound
    BY <1>5 DEF Bound
  <2>2. Stored
    BY <1>2 DEF TypeOK, Stored
  <2>3. Rest
    BY <1>2 DEF TypeOK, Rest
  <2>4. Control
    BY <1>1, GotoType, AdvanceType, SMTT(60) DEF TypeOK, Labels, Reply, Refuse, Control
  <2> QED BY <1>6, <2>1, <2>2, <2>3, <2>4
<1>22. CASE PutPwd(w)
  <2> USE <1>22 DEF PutPwd, kv, gh
  <2>1. Bound
    BY <1>5 DEF Bound
  <2>2. Stored
    BY <1>2 DEF TypeOK, Stored
  <2>3. Rest
    BY <1>2 DEF TypeOK, Rest
  <2>4. Control
    BY <1>1, GotoType, AdvanceType, SMTT(60) DEF TypeOK, Labels, Reply, Refuse, Control
  <2> QED BY <1>6, <2>1, <2>2, <2>3, <2>4
<1>23. CASE PutPwdFails(w)
  <2> USE <1>23 DEF PutPwdFails, kv, gh
  <2>1. Bound
    BY <1>5 DEF Bound
  <2>2. Stored
    BY <1>2 DEF TypeOK, Stored
  <2>3. Rest
    BY <1>2 DEF TypeOK, Rest
  <2>4. Control
    BY <1>1, GotoType, AdvanceType, SMTT(60) DEF TypeOK, Labels, Reply, Refuse, Control
  <2> QED BY <1>6, <2>1, <2>2, <2>3, <2>4
<1>24. CASE Created(w)
  <2> USE <1>24 DEF Created, kv, gh
  <2>1. Bound
    BY <1>5 DEF Bound
  <2>2. Stored
    BY <1>2 DEF TypeOK, Stored
  <2>3. Rest
    BY <1>2 DEF TypeOK, Rest
  <2>4. Control
    BY <1>1, GotoType, AdvanceType, SMTT(60) DEF TypeOK, Labels, Reply, Refuse, Control
  <2> QED BY <1>6, <2>1, <2>2, <2>3, <2>4
<1>25. CASE NotCreated(w)
  <2> USE <1>25 DEF NotCreated, kv, gh
  <2>1. Bound
    BY <1>5 DEF Bound
  <2>2. Stored
    BY <1>2 DEF TypeOK, Stored
  <2>3. Rest
    BY <1>2 DEF TypeOK, Rest
  <2>4. Control
    BY <1>1, GotoType, AdvanceType, SMTT(60) DEF TypeOK, Labels, Reply, Refuse, Control
  <2> QED BY <1>6, <2>1, <2>2, <2>3, <2>4
<1>26. CASE Crash(w)
  <2> USE <1>26 DEF Crash, kv, gh
  <2>1. Bound
    BY <1>5 DEF Bound
  <2>2. Stored
    BY <1>2 DEF TypeOK, Stored
  <2>3. Rest
    BY <1>2 DEF TypeOK, Rest
  <2>4. Control
    BY <1>1, GotoType, AdvanceType, SMTT(60) DEF TypeOK, Labels, Reply, Refuse, Control
  <2> QED BY <1>6, <2>1, <2>2, <2>3, <2>4
<1> QED BY <1>7, <1>8, <1>9, <1>10, <1>11, <1>12, <1>13, <1>14, <1>15, <1>16, <1>17, <1>18, <1>19, <1>20, <1>21, <1>22, <1>23, <1>24, <1>25, <1>26 DEF WStep, Step

\* A step of w keeps to the labels of its request.
LEMMA PlaceStep ==
    ASSUME TypeOK, WorkInv, NEW w \in Workers, WStep(w)
    PROVE  /\ pc'[w] \in Places(req[w].do) \cup {"done"}
           /\ pc'[w] \in Deleting => pc[w] \in Deleting \/ Sid(w) \in expired
<1>1. pc[w] # "idle"
  BY FrameStep DEF Frame
<1>2. req[w].do \in ReqKinds /\ pc[w] \in Places(req[w].do) \cup {"done"}
  BY <1>1, RequestFacts DEF WorkInv
<1> USE DEF Places, ReqKinds, Deleting, Storing, Labels
<1>3. CASE PutUser(w)
  BY <1>3, <1>2, GotoType, AdvanceType DEF PutUser, Refuse
<1>4. CASE PutExpiry(w)
  BY <1>4, <1>2, GotoType, AdvanceType DEF PutExpiry, Refuse
<1>5. CASE Undo(w)
  BY <1>5, <1>2, GotoType, AdvanceType DEF Undo, Refuse
<1>6. CASE DelUser(w)
  BY <1>6, <1>2, GotoType, AdvanceType DEF DelUser, Refuse
<1>7. CASE DelExpiry(w)
  BY <1>7, <1>2, GotoType, AdvanceType DEF DelExpiry, Refuse
<1>8. CASE FixUser(w)
  BY <1>8, <1>2, GotoType, AdvanceType DEF FixUser, Refuse
<1>9. CASE FixExpiry(w)
  BY <1>9, <1>2, GotoType, AdvanceType DEF FixExpiry, Refuse
<1>10. CASE ReadUser(w)
  BY <1>10, <1>2, GotoType, AdvanceType DEF ReadUser, Refuse
<1>11. CASE ReadExpiry(w)
  BY <1>11, <1>2, GotoType, AdvanceType DEF ReadExpiry, Refuse
<1>12. CASE ReadFails(w)
  BY <1>12, <1>2, GotoType, AdvanceType DEF ReadFails, Refuse
<1>13. CASE Verdict(w)
  BY <1>13, <1>2, GotoType, AdvanceType DEF Verdict, Refuse
<1>14. CASE Login(w)
  BY <1>14, <1>2, GotoType, AdvanceType DEF Login, Refuse
<1>15. CASE Rehash(w)
  BY <1>15, <1>2, GotoType, AdvanceType DEF Rehash, Refuse
<1>16. CASE Signup(w)
  BY <1>16, <1>2, GotoType, AdvanceType DEF Signup, Refuse
<1>17. CASE ChangePassword(w)
  BY <1>17, <1>2, GotoType, AdvanceType DEF ChangePassword, Refuse
<1>18. CASE PutPwd(w)
  BY <1>18, <1>2, GotoType, AdvanceType DEF PutPwd, Refuse
<1>19. CASE PutPwdFails(w)
  BY <1>19, <1>2, GotoType, AdvanceType DEF PutPwdFails, Refuse
<1>20. CASE Created(w)
  BY <1>20, <1>2, GotoType, AdvanceType DEF Created, Refuse
<1>21. CASE NotCreated(w)
  BY <1>21, <1>2, GotoType, AdvanceType DEF NotCreated, Refuse
<1>22. CASE Crash(w)
  BY <1>22, <1>2, GotoType, AdvanceType DEF Crash, Refuse
<1> QED BY <1>3, <1>4, <1>5, <1>6, <1>7, <1>8, <1>9, <1>10, <1>11, <1>12, <1>13, <1>14, <1>15, <1>16, <1>17, <1>18, <1>19, <1>20, <1>21, <1>22 DEF WStep, Step

\* The labels and the requests of the workers.
LEMMA WorkStep ==
    ASSUME TypeOK, WorkInv, NEW w \in Workers, WStep(w)
    PROVE  WorkInv'
<1>1. Frame(w)
  BY FrameStep
<1>2. \A x \in Workers : Sid(x)' = Sid(x) /\ req'[x] = req[x]
  BY <1>1 DEF Frame, Sid
<1>3. /\ pc'[w] \in Places(req[w].do) \cup {"done"}
      /\ pc'[w] \in Deleting => Sid(w) \in ended
  BY <1>1, PlaceStep DEF WorkInv, Frame
<1>4. \A s \in begun' \ OldSids : \E x \in Workers : req[x] # Nil /\ Creates(req[x]) /\ Sid(x) = s
  <2>1. SUFFICES ASSUME NEW s \in begun' \ OldSids, s \notin begun
                 PROVE  req[w] # Nil /\ Creates(req[w]) /\ Sid(w) = s
    BY DEF WorkInv
  <2>2. Created(w)
    BY <2>1 DEF WStep, Step, PutUser, PutExpiry, Undo, DelUser, DelExpiry,
           FixUser, FixExpiry, ReadUser, ReadExpiry, ReadFails, Verdict, Login, Rehash, Signup,
           ChangePassword, PutPwd, PutPwdFails, NotCreated, Crash, gh
  <2>3. req[w] # Nil /\ req[w].do \in ReqKinds
    BY <2>2, RequestFacts DEF Created
  <2>4. Creates(req[w])
    BY <2>2, <2>3 DEF Created, WorkInv, Places, Storing, Deleting, Creates, ReqKinds
  <2> QED BY <1>1, <2>1, <2>3, <2>4 DEF Frame
<1>5. \A s \in begun' \ OldSids : \E x \in Workers :
        req'[x] # Nil /\ Creates(req'[x]) /\ Sid(x)' = s
  BY <1>2, <1>4
<1> QED BY <1>1, <1>2, <1>3, <1>5 DEF WorkInv, Frame

-----------------------------------------------------------------------------
(* Sessions are made by one worker and, in use, keep a complete row. *)

\* Nobody else works on a session that is being made.
LEMMA Alone ==
    ASSUME TypeOK, WorkInv, CreateInv, NEW w \in Workers, pc[w] # "idle",
           NEW x \in Busy, Creates(req[x]), Sid(w) = Sid(x)
    PROVE  w = x
<1>1. x \in Workers /\ pc[x] # "idle"
  BY DEF Busy
<1>2. req[w] \in plan.made /\ req[x] \in plan.made /\ req[w] # Nil /\ plan \in Scenarios
  BY <1>1, RequestFacts DEF TypeOK
<1>3. Sid(x) \notin begun
  BY DEF CreateInv
<1>4. Creates(req[w])
  BY <1>3 DEF WorkInv
<1>5. req[w] = req[x]
  BY <1>2, <1>4, SidAssumption DEF Sid
<1> QED BY <1>1, <1>2, <1>5 DEF WorkInv

\* The worker that makes a session: a row is counted when it is complete.
LEMMA CreateOwn ==
    ASSUME TypeOK, WorkInv, CreateInv, NEW w \in Workers, WStep(w), w \in Busy,
           Creates(req[w]), pc'[w] # "done"
    PROVE  /\ begun' = begun
           /\ pc'[w] \notin Storing => row'[w] = 1 /\ ~flag'[w]
           /\ pc'[w] = "expiry" => "user" \in cols'[Sid(w)][row'[w]]
           /\ flag'[w] => \E i \in 1..N :
                cols'[Sid(w)][i] = Both /\ (i < row'[w] \/ pc'[w] = "created")
<1>1. TypeOK' /\ Frame(w)
  BY FrameStep
<1>2. pc[w] \in {"auth", "rehash", "putpwd"} \cup Storing /\ pc[w] # "idle"
  BY <1>1 DEF WorkInv, Frame, Places, Creates, Busy
<1>3. Sid(w) \in Sids /\ row[w] \in 1..N /\ row[w] \in Nat /\ N \in Nat
  BY <1>2, RequestFacts, SessionAssumption DEF TypeOK
<1>4. /\ pc[w] \notin Storing => row[w] = 1 /\ ~flag[w]
      /\ pc[w] = "expiry" => "user" \in cols[Sid(w)][row[w]]
      /\ flag[w] => \E i \in 1..N :
           cols[Sid(w)][i] = Both /\ (i < row[w] \/ pc[w] = "created")
  BY DEF CreateInv
<1>5. \A i \in 1..N : i # row[w] => cols'[Sid(w)][i] = cols[Sid(w)][i]
  BY <1>3, RowStep DEF RowEffect
<1>6. /\ "user" \in Labels /\ "created" \in Labels /\ "undo" \in Labels /\ "expiry" \in Labels
      /\ "rehash" \in Labels /\ "putpwd" \in Labels
  BY DEF Labels
<1>7. CASE PutUser(w)
  <2>1. pc[w] = "user" /\ begun' = begun /\ flag' = flag
    BY <1>7 DEF PutUser, gh
  <2>2. CASE Goto(w, "expiry") /\ UNCHANGED row
    <3>1. pc'[w] = "expiry"
      BY <1>6, <2>2, GotoType
    <3>2. Put(w, "user")
      BY <1>6, <1>7, <2>1, <3>1, AdvanceType DEF PutUser
    <3>3. "user" \in cols'[Sid(w)][row[w]]
      BY <1>3, <3>2, PutRow DEF Both
    <3>4. flag'[w] => \E i \in 1..N : cols'[Sid(w)][i] = Both /\ i < row'[w]
      BY <1>3, <1>4, <1>5, <2>1, <2>2
    <3> QED BY <2>1, <2>2, <3>1, <3>3, <3>4 DEF Storing
  <2>3. CASE Advance(w, "user", "created")
    <3>1. \/ row[w] < N /\ pc'[w] = "user" /\ row'[w] = row[w] + 1
          \/ pc'[w] = "created"
      BY <1>6, <2>3, AdvanceType
    <3> QED BY <1>3, <1>4, <1>5, <2>1, <3>1 DEF Storing
  <2> QED BY <1>7, <2>2, <2>3 DEF PutUser
<1>8. CASE PutExpiry(w)
  <2>1. pc[w] = "expiry" /\ begun' = begun
    BY <1>8 DEF PutExpiry, gh
  <2>2. CASE Goto(w, "undo") /\ UNCHANGED <<row, flag>>
    <3>1. pc'[w] = "undo"
      BY <1>6, <2>2, GotoType
    <3> QED BY <1>3, <1>4, <1>5, <2>1, <2>2, <3>1 DEF Storing
  <2>3. CASE Put(w, "expiry") /\ Advance(w, "user", "created")
    <3>1. \/ row[w] < N /\ pc'[w] = "user" /\ row'[w] = row[w] + 1
          \/ pc'[w] = "created"
      BY <1>6, <2>3, AdvanceType
    <3>2. cols'[Sid(w)][row[w]] = cols[Sid(w)][row[w]] \cup {"expiry"}
      BY <1>3, <2>3, PutRow DEF Both
    <3>3. cols'[Sid(w)][row[w]] = Both
      BY <1>3, <1>4, <2>1, <3>2 DEF TypeOK, Both
    <3> QED BY <1>3, <3>1, <3>3, <2>1 DEF Storing
  <2> QED BY <1>8, <2>2, <2>3 DEF PutExpiry
<1>9. CASE Undo(w)
  <2>1. pc[w] = "undo" /\ begun' = begun /\ flag' = flag
    BY <1>9 DEF Undo, gh
  <2>3. \/ row[w] < N /\ pc'[w] = "user" /\ row'[w] = row[w] + 1
        \/ pc'[w] = "created"
    BY <1>6, <1>9, AdvanceType DEF Undo
  <2> QED BY <1>3, <1>4, <1>5, <2>1, <2>3 DEF Storing
<1>10. CASE Login(w) \/ Rehash(w) \/ Signup(w) \/ PutPwd(w)
  <2>1. begun' = begun /\ flag' = flag /\ row' = row /\ pc[w] \notin Storing
    BY <1>10 DEF Login, Rehash, Signup, PutPwd, gh, Storing
  <2>2. pc'[w] # "expiry"
    BY <1>10, GotoType DEF Login, Rehash, Signup, PutPwd, Refuse, Labels
  <2> QED BY <1>4, <2>1, <2>2
<1>11. CASE PutPwdFails(w) \/ Created(w) \/ NotCreated(w) \/ Crash(w) \/ Verdict(w)
  <2>1. Goto(w, "done")
    BY <1>11 DEF PutPwdFails, Created, NotCreated, Crash, Refuse, Verdict
  <2> QED BY <2>1, GotoType DEF Labels
<1>12. CASE \/ DelUser(w) \/ DelExpiry(w) \/ FixUser(w) \/ FixExpiry(w) \/ ReadUser(w)
            \/ ReadExpiry(w) \/ ReadFails(w) \/ ChangePassword(w)
  BY <1>2, <1>12 DEF DelUser, DelExpiry, FixUser, FixExpiry, ReadUser, ReadExpiry, ReadFails,
         ChangePassword, Storing
<1> QED BY <1>7, <1>8, <1>9, <1>10, <1>11, <1>12 DEF WStep, Step

\* create_session writes its columns one by one.
LEMMA CreateStep ==
    ASSUME TypeOK, WorkInv, CreateInv, NEW w \in Workers, WStep(w)
    PROVE  CreateInv'
<1>1. TypeOK' /\ Frame(w)
  BY FrameStep
<1>2. SUFFICES ASSUME NEW x \in Busy', Creates(req[x])
               PROVE  /\ Sid(x) \notin begun'
                      /\ pc'[x] \notin Storing => row'[x] = 1 /\ ~flag'[x]
                      /\ pc'[x] = "expiry" => "user" \in cols'[Sid(x)][row'[x]]
                      /\ flag'[x] => \E i \in 1..N :
                           cols'[Sid(x)][i] = Both /\ (i < row'[x] \/ pc'[x] = "created")
  BY <1>1 DEF CreateInv, Frame, Sid
<1>3. CASE x = w
  <2>1. w \in Busy
    <3>1. pc[w] # "done"
      BY DEF WStep, Step, PutUser, PutExpiry, Undo, DelUser, DelExpiry, FixUser, FixExpiry,
         ReadUser, ReadExpiry, ReadFails, Verdict, Login, Rehash, Signup, ChangePassword,
         PutPwd, PutPwdFails, Created, NotCreated, Crash, Busy
    <3> QED BY <1>1, <3>1 DEF Busy, Frame
  <2>2. pc'[w] # "done"
    BY <1>3 DEF Busy
  <2>3. Sid(w) \notin begun
    BY <1>2, <1>3, <2>1 DEF CreateInv
  <2> QED BY <1>2, <1>3, <2>1, <2>2, <2>3, CreateOwn
<1>4. CASE x # w
  <2>1. x \in Busy /\ x \in Workers /\ pc'[x] = pc[x] /\ row'[x] = row[x] /\ flag'[x] = flag[x]
    BY <1>1, <1>4 DEF Busy, Frame
  <2>2. Sid(x) # Sid(w) /\ pc[w] # "idle" /\ Sid(x) \in Sids
    <3>1. pc[w] # "idle" /\ pc[x] # "idle"
      BY <1>1, <2>1 DEF Frame, Busy
    <3>2. Sid(x) \in Sids
      BY <2>1, <3>1, RequestFacts
    <3> QED BY <1>2, <1>4, <2>1, <3>1, <3>2, Alone
  <2>3. row[x] \in 1..N /\ \A i \in 1..N : cols'[Sid(x)][i] = cols[Sid(x)][i]
    BY <2>1, <2>2, RowStep DEF RowEffect, TypeOK
  <2>4. Sid(x) \notin begun'
    BY <1>1, <1>2, <2>1, <2>2 DEF Frame, CreateInv
  <2> QED BY <1>2, <2>1, <2>3, <2>4 DEF CreateInv
<1> QED BY <1>3, <1>4

\* A complete row of a session in use stays complete.
LEMMA RowKept ==
    ASSUME TypeOK, WorkInv, CreateInv, NEW w \in Workers, WStep(w),
           NEW s \in begun \ ended, NEW i \in 1..N, cols[s][i] = Both
    PROVE  cols'[s][i] = Both
<1>1. RowEffect(w) /\ TypeOK' /\ Frame(w) /\ s \in Sids
  BY RowStep, FrameStep DEF TypeOK
<1>2. cols'[s][i] \subseteq Both
  <2>1. cols'[s] \in [1..N -> SUBSET Both]
    BY <1>1 DEF RowEffect
  <2> QED BY <2>1
<1>3. CASE cols' = cols \/ cols[s][i] \subseteq cols'[s][i]
  BY <1>2, <1>3
<1>4. CASE pc[w] \in {"undo", "deluser", "delexpiry"}
  <2>1. CASE pc[w] = "undo"
    <3>1. w \in Busy /\ Creates(req[w])
      <4>1. pc[w] # "idle" /\ req[w].do \in ReqKinds
        BY <2>1, RequestFacts
      <4> QED BY <2>1, <4>1 DEF WorkInv, Places, Storing, Deleting, Creates, Busy, ReqKinds
    <3>2. Sid(w) \notin begun
      BY <3>1 DEF CreateInv
    <3> QED BY <1>1, <3>2 DEF RowEffect
  <2>2. CASE pc[w] \in {"deluser", "delexpiry"}
    <3>1. Sid(w) \in ended
      BY <2>2 DEF WorkInv, Deleting
    <3> QED BY <1>1, <3>1 DEF RowEffect
  <2> QED BY <1>4, <2>1, <2>2
<1> QED BY <1>1, <1>3, <1>4 DEF RowEffect

\* Only a session with a complete row is made known.
LEMMA RowLeftStep ==
    ASSUME TypeOK, WorkInv, CreateInv, RowLeft, NEW w \in Workers, WStep(w)
    PROVE  RowLeft'
<1>1. Frame(w)
  BY FrameStep
<1>2. SUFFICES ASSUME NEW s \in begun' \ ended
               PROVE  \E i \in 1..N : cols'[s][i] = Both
  BY <1>1 DEF RowLeft, Frame
<1>3. CASE s \in begun
  <2>1. PICK i \in 1..N : cols[s][i] = Both
    BY <1>3 DEF RowLeft
  <2> QED BY <1>2, <1>3, <2>1, RowKept
<1>4. CASE s \notin begun
  <2>1. Created(w)
    BY <1>4, <1>2 DEF WStep, Step, PutUser, PutExpiry, Undo, DelUser, DelExpiry,
           FixUser, FixExpiry, ReadUser, ReadExpiry, ReadFails, Verdict, Login, Rehash, Signup,
           ChangePassword, PutPwd, PutPwdFails, NotCreated, Crash, gh
  <2>2. s = Sid(w) /\ cols' = cols /\ flag[w] /\ pc[w] = "created"
    BY <1>2, <1>4, <2>1 DEF Created, kv
  <2>3. w \in Busy /\ Creates(req[w])
    <3>1. pc[w] # "idle" /\ req[w].do \in ReqKinds
      BY <2>2, RequestFacts
    <3> QED BY <2>2, <3>1 DEF WorkInv, Places, Storing, Deleting, Creates, Busy, ReqKinds
  <2> QED BY <2>2, <2>3 DEF CreateInv
<1> QED BY <1>3, <1>4

-----------------------------------------------------------------------------
(* Checks. *)

\* A row is passed over when it is not complete, or with the flag set.
LEMMA ReadStep ==
    ASSUME TypeOK, WorkInv, CreateInv, RowLeft, ReadInv, NEW w \in Workers, WStep(w)
    PROVE  ReadInv'
<1>1. Frame(w) /\ TypeOK'
  BY FrameStep
<1>2. SUFFICES ASSUME NEW x \in Workers, ~flag'[x]
               PROVE  /\ pc'[x] \in {"readuser", "readexpiry"} /\ Sid(x) \notin ended =>
                           \E i \in row'[x]..N : cols'[Sid(x)][i] = Both
                      /\ pc'[x] = "invalid" => Sid(x) \in ended
  BY <1>1 DEF ReadInv, Frame, Sid
<1>3. ASSUME pc[x] \in {"readuser", "readexpiry"}, Sid(x) \notin ended, ~flag[x]
      PROVE  \E i \in row[x]..N : cols[Sid(x)][i] = Both /\ cols'[Sid(x)][i] = Both
  <2>1. Sid(x) \in begun
    <3>1. pc[x] # "idle" /\ req[x].do \in ReqKinds
      BY <1>3, RequestFacts
    <3> QED BY <1>3, <3>1 DEF WorkInv, Places, Storing, Deleting, Creates, ReqKinds
  <2>2. PICK i \in row[x]..N : cols[Sid(x)][i] = Both
    BY <1>3 DEF ReadInv
  <2>3. i \in 1..N
    BY SessionAssumption DEF TypeOK
  <2> QED BY <1>3, <2>1, <2>2, <2>3, RowKept
<1>4. CASE x # w
  BY <1>1, <1>2, <1>3, <1>4 DEF Frame, ReadInv
<1>5. CASE x = w
  <2>0. row[w] \in 1..N /\ N \in Nat
    BY SessionAssumption DEF TypeOK
  <2>1. ASSUME Advance(w, "readuser", "invalid"), pc[w] \in {"readuser", "readexpiry"}, ~flag[w],
               cols[Sid(w)][row[w]] # Both, Sid(w) \notin ended
        PROVE  pc'[w] = "readuser" /\ \E i \in row'[w]..N : cols'[Sid(w)][i] = Both
    <3>1. PICK i \in row[w]..N : cols[Sid(w)][i] = Both /\ cols'[Sid(w)][i] = Both
      BY <1>3, <1>5, <2>1
    <3>2. i # row[w]
      BY <2>1, <3>1
    <3>3. i \in (row[w] + 1)..N /\ row[w] < N
      BY <2>0, <3>2
    <3>4. pc'[w] = "readuser" /\ row'[w] = row[w] + 1
      BY <2>0, <2>1, <3>3, AdvanceType DEF Labels
    <3> QED BY <3>1, <3>3, <3>4
  <2>2. CASE ReadUser(w)
    <3>1. pc[w] = "readuser" /\ flag' = flag
      BY <2>2 DEF ReadUser
    <3>2. CASE "user" \in cols[Sid(w)][row[w]]
      <4>1. pc'[w] = "readexpiry" /\ row' = row
        BY <2>2, <3>2, GotoType DEF ReadUser, Labels
      <4> QED BY <1>2, <1>3, <1>5, <3>1, <4>1
    <3>3. CASE "user" \notin cols[Sid(w)][row[w]]
      <4>1. cols[Sid(w)][row[w]] # Both
        BY <3>3 DEF Both
      <4>2. Advance(w, "readuser", "invalid")
        BY <2>2, <3>3 DEF ReadUser
      <4> QED BY <1>2, <1>5, <2>1, <3>1, <4>1, <4>2
    <3> QED BY <3>2, <3>3
  <2>3. CASE ReadExpiry(w)
    <3>1. pc[w] = "readexpiry" /\ flag' = flag
      BY <2>3 DEF ReadExpiry
    <3>2. CASE "expiry" \in cols[Sid(w)][row[w]]
      <4>1. pc'[w] \in {"deluser", "fixuser", "valid"}
        BY <2>3, <3>2, GotoType DEF ReadExpiry, Labels
      <4> QED BY <1>5, <4>1
    <3>3. CASE "expiry" \notin cols[Sid(w)][row[w]]
      <4>1. cols[Sid(w)][row[w]] # Both
        BY <3>3 DEF Both
      <4>2. Advance(w, "readuser", "invalid")
        BY <2>3, <3>3 DEF ReadExpiry
      <4> QED BY <1>2, <1>5, <2>1, <3>1, <4>1, <4>2
    <3> QED BY <3>2, <3>3
  <2>4. CASE ReadFails(w)
    BY <1>2, <1>5, <2>4 DEF ReadFails, TypeOK
  <2>5. CASE ~(ReadUser(w) \/ ReadExpiry(w) \/ ReadFails(w))
    <3>1. pc'[w] \notin {"readuser", "readexpiry", "invalid"}
      BY <2>5, GotoType, AdvanceType DEF WStep, Step, PutUser, PutExpiry, Undo, DelUser,
           DelExpiry, FixUser, FixExpiry, Verdict, Login, Rehash, Signup, ChangePassword,
           PutPwd, PutPwdFails, Created, NotCreated, Crash, Refuse, Labels
    <3> QED BY <1>5, <3>1
  <2> QED BY <2>2, <2>3, <2>4, <2>5
<1> QED BY <1>4, <1>5

-----------------------------------------------------------------------------
(* Logouts. *)

\* A repair begins at the legacy row, and then tangles with a logout under way.
LEMMA RepairBegins ==
    ASSUME TypeOK, WorkInv, NEW w \in Workers, WStep(w),
           pc'[w] \in {"fixuser", "fixexpiry"}, pc[w] \notin {"fixuser", "fixexpiry"}
    PROVE  /\ "expiry" \in cols[Sid(w)][N]
           /\ LoggingOut(Sid(w)) # {} => Sid(w) \in tangled'
<1>1. CASE ReadExpiry(w)
  <2>1. CASE "expiry" \notin cols[Sid(w)][row[w]]
    BY <1>1, <2>1, AdvanceType DEF ReadExpiry, Labels
  <2>2. CASE "expiry" \in cols[Sid(w)][row[w]] /\ (Sid(w) \in expired \/ row[w] # N)
    BY <1>1, <2>2, GotoType DEF ReadExpiry, Labels
  <2>3. CASE "expiry" \in cols[Sid(w)][row[w]] /\ Sid(w) \notin expired /\ row[w] = N
    BY <1>1, <2>3 DEF ReadExpiry
  <2> QED BY <2>1, <2>2, <2>3
<1>2. CASE ~ReadExpiry(w)
  BY <1>2, GotoType, AdvanceType DEF WStep, Step, PutUser, PutExpiry, Undo, DelUser, DelExpiry,
     FixUser, FixExpiry, ReadUser, ReadFails, Verdict, Login, Rehash, Signup, ChangePassword,
     PutPwd, PutPwdFails, Created, NotCreated, Crash, Refuse, Labels
<1> QED BY <1>1, <1>2

\* The rows of a session being logged out only lose columns.
LEMMA OnlyDeleted ==
    ASSUME TypeOK, WorkInv, CreateInv, NEW w \in Workers, WStep(w),
           NEW x \in Workers, req[x] # Nil, req[x].do = "logout", Repairing(Sid(x)) = {},
           NEW i \in 1..N
    PROVE  cols'[Sid(x)][i] \subseteq cols[Sid(x)][i]
<1>1. RowEffect(w) /\ Frame(w) /\ TypeOK'
  BY RowStep, FrameStep
<1>2. pc[x] # "idle" /\ Sid(x) \in Sids /\ pc[w] # "idle"
  <2>1. pc[x] # "idle" /\ pc[w] # "idle"
    BY <1>1 DEF WorkInv, Frame
  <2> QED BY <2>1, RequestFacts
<1>3. CASE Sid(w) # Sid(x)
  BY <1>1, <1>2, <1>3 DEF RowEffect
<1>4. CASE Sid(w) = Sid(x) /\ pc[w] \in {"fixuser", "fixexpiry"}
  BY <1>4 DEF Repairing, Busy
<1>5. CASE Sid(w) = Sid(x) /\ pc[w] \in {"user", "expiry"}
  <2>1. w \in Busy /\ Creates(req[w])
    <3>1. req[w].do \in ReqKinds
      BY <1>2, RequestFacts
    <3> QED BY <1>2, <1>5, <3>1 DEF WorkInv, Places, Storing, Deleting, Creates, Busy, ReqKinds
  <2>2. x = w
    BY <1>2, <1>5, <2>1, Alone
  <2> QED BY <2>1, <2>2 DEF Creates
<1>6. CASE pc[w] \notin {"user", "expiry", "fixuser", "fixexpiry"}
  BY <1>1, <1>2, <1>6 DEF RowEffect
<1> QED BY <1>3, <1>4, <1>5, <1>6

\* A logout empties the rows one by one.
LEMMA LogoutOwn ==
    ASSUME TypeOK, WorkInv, CreateInv, LogoutInv, NEW w \in Workers, WStep(w),
           req[w].do = "logout", Sid(w) \notin tangled'
    PROVE  /\ \A i \in 1..N : i < row'[w] \/ pc'[w] \in {"destroyed", "done"} =>
                cols'[Sid(w)][i] = {}
           /\ pc'[w] = "delexpiry" => "user" \notin cols'[Sid(w)][row'[w]]
<1>1. Frame(w) /\ TypeOK'
  BY FrameStep
<1>2. pc[w] # "idle" /\ Sid(w) \in Sids /\ req[w] # Nil /\ Sid(w) \notin tangled
  <2>1. pc[w] # "idle" /\ Sid(w) \notin tangled
    BY <1>1 DEF Frame
  <2> QED BY <2>1, RequestFacts
<1>3. pc[w] \in Deleting \cup {"done"}
  BY <1>2 DEF WorkInv, Places
<1>4. /\ \A i \in 1..N : i < row[w] \/ pc[w] \in {"destroyed", "done"} => cols[Sid(w)][i] = {}
      /\ pc[w] = "delexpiry" => "user" \notin cols[Sid(w)][row[w]]
      /\ Repairing(Sid(w)) = {}
  BY <1>2 DEF LogoutInv
<1>5. \A i \in 1..N : cols'[Sid(w)][i] \subseteq cols[Sid(w)][i]
  BY <1>2, <1>4, OnlyDeleted
<1>6. row[w] \in 1..N /\ N \in Nat /\ {"user"} \in SUBSET Both /\ {"expiry"} \in SUBSET Both
  BY SessionAssumption DEF TypeOK, Both
<1>7. CASE DelUser(w)
  <2>1. pc'[w] = "delexpiry" /\ row' = row /\ Del(w, {"user"})
    BY <1>2, <1>7, GotoType DEF DelUser, Labels
  <2>2. "user" \notin cols'[Sid(w)][row[w]]
    BY <1>2, <1>6, <2>1, DelRow
  <2> QED BY <1>4, <1>5, <1>7, <2>1, <2>2 DEF DelUser
<1>8. CASE DelExpiry(w)
  <2>1. pc[w] = "delexpiry" /\ Del(w, {"expiry"})
    BY <1>2, <1>8 DEF DelExpiry
  <2>2. cols'[Sid(w)][row[w]] = cols[Sid(w)][row[w]] \ {"expiry"}
    BY <1>2, <1>6, <2>1, DelRow
  <2>3. cols[Sid(w)][row[w]] \subseteq Both
    <3>1. cols[Sid(w)] \in [1..N -> SUBSET Both]
      BY <1>2 DEF TypeOK
    <3> QED BY <1>6, <3>1
  <2>4. cols'[Sid(w)][row[w]] = {}
    BY <1>4, <2>1, <2>2, <2>3 DEF Both
  <2>5. \/ row[w] < N /\ pc'[w] = "deluser" /\ row'[w] = row[w] + 1
        \/ row[w] = N /\ pc'[w] = "destroyed" /\ row'[w] = 1
    BY <1>8, AdvanceType DEF DelExpiry, Labels
  <2>6. \A i \in 1..N : i <= row[w] => cols'[Sid(w)][i] = {}
    BY <1>4, <1>5, <1>6, <2>4
  <2> QED BY <1>6, <2>5, <2>6
<1>9. CASE Verdict(w)
  <2>1. pc[w] = "destroyed" /\ pc'[w] = "done" /\ row' = row
    BY <1>3, <1>9, GotoType DEF Verdict, Deleting, Labels
  <2> QED BY <1>4, <1>5, <2>1
<1>10. CASE Crash(w)
  BY <1>10 DEF Crash
<1>11. CASE ~(DelUser(w) \/ DelExpiry(w) \/ Verdict(w) \/ Crash(w))
  BY <1>3, <1>11 DEF WStep, Step, PutUser, PutExpiry, Undo, FixUser, FixExpiry, ReadUser,
     ReadExpiry, ReadFails, Login, Rehash, Signup, ChangePassword, PutPwd, PutPwdFails,
     Created, NotCreated, Deleting
<1> QED BY <1>7, <1>8, <1>9, <1>10, <1>11

\* A finished logout leaves no row that a check would accept.
LEMMA LogoutStep ==
    ASSUME TypeOK, WorkInv, CreateInv, LogoutInv, NEW w \in Workers, WStep(w)
    PROVE  LogoutInv'
<1>1. Frame(w) /\ TypeOK' /\ \A x \in Workers : Sid(x)' = Sid(x)
  BY FrameStep DEF Frame, Sid
<1>2. SUFFICES ASSUME NEW x \in Workers, req[x] # Nil, req[x].do = "logout", Sid(x) \notin tangled'
               PROVE  /\ Repairing(Sid(x))' = {}
                      /\ \A i \in 1..N : i < row'[x] \/ pc'[x] \in {"destroyed", "done"} =>
                           cols'[Sid(x)][i] = {}
                      /\ pc'[x] = "delexpiry" => "user" \notin cols'[Sid(x)][row'[x]]
  BY <1>1 DEF LogoutInv, Frame
<1>3. /\ Repairing(Sid(x)) = {}
      /\ \A i \in 1..N : i < row[x] \/ pc[x] \in {"destroyed", "done"} => cols[Sid(x)][i] = {}
      /\ pc[x] = "delexpiry" => "user" \notin cols[Sid(x)][row[x]]
  BY <1>1, <1>2 DEF LogoutInv, Frame
<1>4. \A i \in 1..N : cols'[Sid(x)][i] \subseteq cols[Sid(x)][i]
  BY <1>2, <1>3, OnlyDeleted
<1>5. Repairing(Sid(x))' = {}
  <2>1. SUFFICES ASSUME NEW y \in Workers, Sid(y) = Sid(x), pc'[y] \in {"fixuser", "fixexpiry"}
                 PROVE  FALSE
    BY <1>1 DEF Repairing, Busy
  <2>2. pc[y] \notin {"fixuser", "fixexpiry"}
    BY <1>3, <2>1 DEF Repairing, Busy
  <2>3. y = w
    BY <1>1, <2>1, <2>2 DEF Frame
  <2>4. "expiry" \in cols[Sid(x)][N] /\ LoggingOut(Sid(x)) = {}
    BY <1>2, <2>1, <2>2, <2>3, RepairBegins
  <2>5. pc[x] = "done"
    BY <1>2, <2>4 DEF LoggingOut, Busy, WorkInv
  <2> QED BY <1>3, <2>4, <2>5, SessionAssumption
<1>6. CASE x = w
  BY <1>2, <1>5, <1>6, LogoutOwn
<1>7. CASE x # w
  <2>1. pc'[x] = pc[x] /\ row'[x] = row[x] /\ row[x] \in 1..N
    BY <1>1, <1>7 DEF Frame, TypeOK
  <2> QED BY <1>3, <1>4, <1>5, <2>1
<1> QED BY <1>6, <1>7

-----------------------------------------------------------------------------
(* Passwords. *)

\* A worker that is at a write of the password, or signs up, is a writer.
LEMMA WriterFacts ==
    ASSUME TypeOK, WorkInv, NEW u \in Users, PasswordOf(u), NEW w \in Busy, User(w) = u,
           req[w].do \in {"signup", "change"} \/ pc[w] = "rehash"
    PROVE  w \in Writers(u)
  BY DEF PasswordOf, Writers, Writes, Busy

\* Nobody becomes a writer when a password is left alone, deleted or hashed.
LEMMA NoNewWriter ==
    ASSUME TypeOK, WorkInv, NEW w \in Workers, WStep(w), NEW u \in Users,
           pwd'[u] = pwd[u] \/ pwd'[u] = Nil \/ pwd'[u].form = "hash"
    PROVE  /\ Writers(u)' \subseteq Writers(u)
           /\ \A x \in Writers(u) : x # w /\ pwd'[u] = pwd[u] => x \in Writers(u)'
           /\ \A x \in Busy' : x \in Busy /\ x \in Workers
<1>1. Frame(w) /\ \A x \in Workers : User(x)' = User(x)
  BY FrameStep DEF Frame, User
<1>2. pc[w] # "done"
  BY DEF WStep, Step, PutUser, PutExpiry, Undo, DelUser, DelExpiry, FixUser, FixExpiry,
         ReadUser, ReadExpiry, ReadFails, Verdict, Login, Rehash, Signup, ChangePassword,
         PutPwd, PutPwdFails, Created, NotCreated, Crash, Busy
<1>3. \A x \in Busy' : x \in Busy /\ x \in Workers
  BY <1>1, <1>2 DEF Frame, Busy
<1>4. \A x \in Workers : User(x) = u /\ Writes(req[x])' => Writes(req[x])
  BY <1>1 DEF Frame, Writes, User
<1>5. \A x \in Writers(u) : x # w /\ pwd'[u] = pwd[u] => x \in Writers(u)'
  BY <1>1 DEF Frame, Writes, User, Writers, Busy
<1> QED BY <1>1, <1>3, <1>4, <1>5 DEF Writers

\* A step that leaves the password of u alone, and the place of w among the
\* writers of u.
LEMMA PasswordQuiet ==
    ASSUME TypeOK, WorkInv, NEW w \in Workers, WStep(w), NEW u \in Users, PasswordOf(u),
           pwd'[u] = pwd[u], agreed'[u] = agreed[u],
           User(w) = u =>
             /\ req[w].do = "signup" => (pc'[w] \in Storing <=> pc[w] \in Storing)
             /\ pc'[w] = "rehash" => Writes(req[w]) /\ pwd[u].pw = req[w].pw
             /\ req[w].do = "signup" /\ pc'[w] = "putpwd" => pwd[u] = Nil
    PROVE  PasswordOf(u)'
<1>1. Frame(w) /\ (\A x \in Workers : User(x)' = User(x)) /\ req' = req
  BY FrameStep DEF Frame, User
<1>2. /\ Writers(u)' \subseteq Writers(u)
      /\ \A x \in Writers(u) : x # w => x \in Writers(u)'
      /\ \A x \in Busy' : x \in Busy /\ x \in Workers
  BY NoNewWriter
<1>3. \A x \in Workers : User(x) = u => (Writes(req[x])' <=> Writes(req[x]))
  BY <1>1 DEF Writes, User
<1>4. (\A x, y \in Writers(u) : x = y)'
  BY <1>2 DEF PasswordOf
<1>5. (Agrees(u) \/ \E x \in Writers(u) : req[x].do = "signup" /\ pc[x] \in Storing)'
  <2>1. CASE Agrees(u)
    BY <2>1 DEF Agrees
  <2>2. CASE \E x \in Writers(u) : req[x].do = "signup" /\ pc[x] \in Storing
    <3>1. PICK x \in Writers(u) : req[x].do = "signup" /\ pc[x] \in Storing
      BY <2>2
    <3>2. x \in Workers /\ User(x) = u
      BY DEF Writers, Busy
    <3>3. pc'[x] \in Storing
      BY <1>1, <3>1, <3>2 DEF Frame
    <3>4. x \in Writers(u)'
      BY <1>1, <1>3, <3>1, <3>2, <3>3 DEF Writers, Busy, Storing
    <3> QED BY <1>1, <3>1, <3>3, <3>4
  <2> QED BY <2>1, <2>2 DEF PasswordOf
<1>6. (\A x \in Busy : User(x) = u =>
         /\ pc[x] = "rehash" => Writes(req[x]) /\ pwd[u].pw = req[x].pw
         /\ req[x].do = "signup" /\ pc[x] = "putpwd" => pwd[u] = Nil
         /\ req[x].do = "signup" /\ pc[x] \in Storing =>
              pwd[u] # Nil /\ pwd[u].pw = req[x].new /\ agreed[u] = Nil)'
  <2>1. SUFFICES ASSUME NEW x \in Busy', User(x) = u
                 PROVE  /\ pc'[x] = "rehash" => Writes(req[x]) /\ pwd[u].pw = req[x].pw
                        /\ req[x].do = "signup" /\ pc'[x] = "putpwd" => pwd[u] = Nil
                        /\ req[x].do = "signup" /\ pc'[x] \in Storing =>
                             pwd[u] # Nil /\ pwd[u].pw = req[x].new /\ agreed[u] = Nil
    BY <1>1, <1>2, <1>3
  <2>2. x \in Busy /\ x \in Workers
    BY <1>2
  <2>3. CASE x = w
    BY <2>1, <2>2, <2>3 DEF PasswordOf
  <2>4. CASE x # w
    BY <1>1, <2>1, <2>2, <2>4 DEF PasswordOf, Frame
  <2> QED BY <2>3, <2>4
<1> QED BY <1>4, <1>5, <1>6 DEF PasswordOf

\* The only writer writes: nobody else is at a write, or signs up.
LEMMA PasswordWritten ==
    ASSUME TypeOK, WorkInv, NEW w \in Workers, WStep(w), NEW u \in Users, PasswordOf(u),
           w \in Writers(u), pwd'[u] = pwd[u] \/ pwd'[u] = Nil \/ pwd'[u].form = "hash",
           pc'[w] \notin {"rehash", "putpwd"},
           req[w].do # "signup" \/ pc'[w] \notin Storing => Agrees(u)',
           req[w].do = "signup" /\ pc'[w] \in Storing =>
             pwd'[u] # Nil /\ pwd'[u].pw = req[w].new /\ agreed'[u] = Nil
    PROVE  PasswordOf(u)'
<1>1. Frame(w) /\ (\A x \in Workers : User(x)' = User(x)) /\ req' = req
  BY FrameStep DEF Frame, User
<1>2. /\ Writers(u)' \subseteq Writers(u)
      /\ \A x \in Busy' : x \in Busy /\ x \in Workers
  BY NoNewWriter
<1>3. (\A x, y \in Writers(u) : x = y)'
  BY <1>2 DEF PasswordOf
<1>4. (Agrees(u) \/ \E x \in Writers(u) : req[x].do = "signup" /\ pc[x] \in Storing)'
  <2>1. CASE req[w].do = "signup" /\ pc'[w] \in Storing
    <3>1. w \in Writers(u)'
      BY <1>1, <2>1 DEF Writers, Busy, Storing, Writes
    <3> QED BY <1>1, <2>1, <3>1
  <2> QED BY <2>1
<1>5. ASSUME NEW x \in Busy', User(x) = u, x # w
      PROVE  pc'[x] # "rehash" /\ req[x].do # "signup"
  <2>1. x \in Busy /\ pc'[x] = pc[x]
    BY <1>1, <1>2, <1>5 DEF Frame
  <2>2. x \notin Writers(u)
    BY <1>5 DEF PasswordOf
  <2> QED BY <1>5, <2>1, <2>2, WriterFacts
<1>6. (\A x \in Busy : User(x) = u =>
         /\ pc[x] = "rehash" => Writes(req[x]) /\ pwd[u].pw = req[x].pw
         /\ req[x].do = "signup" /\ pc[x] = "putpwd" => pwd[u] = Nil
         /\ req[x].do = "signup" /\ pc[x] \in Storing =>
              pwd[u] # Nil /\ pwd[u].pw = req[x].new /\ agreed[u] = Nil)'
  <2>1. SUFFICES ASSUME NEW x \in Busy', User(x) = u
                 PROVE  /\ pc'[x] = "rehash" => Writes(req[x])' /\ pwd'[u].pw = req[x].pw
                        /\ req[x].do = "signup" /\ pc'[x] = "putpwd" => pwd'[u] = Nil
                        /\ req[x].do = "signup" /\ pc'[x] \in Storing =>
                             pwd'[u] # Nil /\ pwd'[u].pw = req[x].new /\ agreed'[u] = Nil
    BY <1>1, <1>2
  <2>2. CASE x # w
    BY <1>5, <2>1, <2>2
  <2>3. CASE x = w
    BY <2>3
  <2> QED BY <2>2, <2>3
<1> QED BY <1>3, <1>4, <1>6 DEF PasswordOf

\* Each step on the password of the user it is about.
LEMMA PasswordStep ==
    ASSUME TypeOK, WorkInv, PasswordInv, NEW w \in Workers, WStep(w)
    PROVE  PasswordInv'
<1>1. Frame(w) /\ TypeOK'
  BY FrameStep
<1>2. SUFFICES ASSUME NEW u \in Users, u \notin muddled'
               PROVE  PasswordOf(u)'
  BY DEF PasswordInv
<1>3. PasswordOf(u)
  BY <1>1, <1>2 DEF PasswordInv, Frame
<1>4. CASE User(w) # u
  <2>1. pwd'[u] = pwd[u] /\ agreed'[u] = agreed[u]
    BY <1>1, <1>4 DEF Frame
  <2> QED BY <1>3, <1>4, <2>1, PasswordQuiet
<1>5. CASE User(w) = u
  <2>1. pc[w] # "idle" /\ pc[w] # "done" /\ w \in Busy
    BY <1>1 DEF Frame, WStep, Step, PutUser, PutExpiry, Undo, DelUser, DelExpiry, FixUser,
         FixExpiry, ReadUser, ReadExpiry, ReadFails, Verdict, Login, Rehash, Signup,
         ChangePassword, PutPwd, PutPwdFails, Created, NotCreated, Crash, Busy
  <2>2. /\ req[w].do \in ReqKinds /\ pc[w] \in Places(req[w].do) /\ req[w] \in plan.made
        /\ plan \in Scenarios /\ DOMAIN pwd = Users /\ DOMAIN agreed = Users
    BY <2>1, RequestFacts DEF WorkInv, TypeOK
  <2>3. /\ pwd[u] = Nil => (Agrees(u) <=> agreed[u] = Nil)
        /\ pwd[u] # Nil => (Agrees(u) <=> pwd[u].pw = agreed[u])
    BY DEF Agrees
  <2>4. /\ pc[w] = "rehash" => Writes(req[w]) /\ pwd[u].pw = req[w].pw
        /\ req[w].do = "signup" /\ pc[w] = "putpwd" => pwd[u] = Nil
        /\ req[w].do = "signup" /\ pc[w] \in Storing =>
             pwd[u] # Nil /\ pwd[u].pw = req[w].new /\ agreed[u] = Nil
    BY <1>3, <1>5, <2>1 DEF PasswordOf
  <2>5. ASSUME w \in Writers(u), req[w].do # "signup" \/ pc[w] \notin Storing
        PROVE  Agrees(u)
    BY <1>3, <2>5 DEF PasswordOf
  <2>6. [pw |-> req[w].pw, form |-> "hash"] # Nil /\ [pw |-> req[w].new, form |-> "hash"] # Nil
    BY <2>2, PasswordAssumption
  <2>7. CASE \/ PutUser(w) \/ PutExpiry(w) \/ Undo(w) \/ DelUser(w) \/ DelExpiry(w) \/ FixUser(w)
             \/ FixExpiry(w) \/ ReadUser(w) \/ ReadExpiry(w) \/ ReadFails(w) \/ Verdict(w)
             \/ ChangePassword(w)
    <3>1. pwd' = pwd /\ agreed' = agreed
      BY <2>7 DEF PutUser, PutExpiry, Undo, DelUser, DelExpiry, FixUser, FixExpiry, ReadUser,
         ReadExpiry, ReadFails, Verdict, ChangePassword, gh, kv
    <3>2. CASE PutUser(w) \/ PutExpiry(w) \/ Undo(w)
      <4>1. pc[w] \in Storing /\ pc'[w] \in Storing
        BY <3>2, GotoType, AdvanceType DEF PutUser, PutExpiry, Undo, Storing, Labels
      <4> QED BY <1>3, <3>1, <4>1, PasswordQuiet DEF Storing
    <3>3. CASE ~(PutUser(w) \/ PutExpiry(w) \/ Undo(w))
      <4>1. req[w].do # "signup"
        BY <2>2, <2>7, <3>3 DEF DelUser, DelExpiry, FixUser, FixExpiry, ReadUser, ReadExpiry,
           ReadFails, Verdict, ChangePassword, Places, Storing
      <4>2. pc'[w] # "rehash"
        BY <2>7, <3>3, GotoType, AdvanceType DEF DelUser, DelExpiry, FixUser, FixExpiry,
           ReadUser, ReadExpiry, ReadFails, Verdict, ChangePassword, Refuse, Labels
      <4> QED BY <1>3, <3>1, <4>1, <4>2, PasswordQuiet
    <3> QED BY <3>2, <3>3
  <2>8. CASE Login(w)
    <3>1. pwd' = pwd /\ agreed' = agreed /\ req[w].do = "login"
      BY <2>8 DEF Login, gh, kv
    <3>2. pc'[w] = "rehash" => Writes(req[w]) /\ pwd[u].pw = req[w].pw
      BY <1>5, <2>8, GotoType DEF Login, Verified, Writes, Refuse, Labels, User
    <3> QED BY <1>3, <3>1, <3>2, PasswordQuiet
  <2>9. CASE Signup(w)
    <3>1. pwd' = pwd /\ agreed' = agreed /\ req[w].do = "signup" /\ pc[w] = "auth"
      BY <2>9 DEF Signup, gh, kv
    <3>2. pc'[w] \in {"putpwd", "done"} /\ (pc'[w] = "putpwd" => pwd[u] = Nil)
      BY <1>5, <2>9, GotoType DEF Signup, Refuse, Labels
    <3> QED BY <1>3, <3>1, <3>2, PasswordQuiet DEF Storing
  <2>10. CASE Rehash(w)
    <3>1. /\ pc[w] = "rehash" /\ pc'[w] = "user" /\ agreed'[u] = agreed[u]
          /\ pwd'[u] = pwd[u] \/ pwd'[u] = [pw |-> req[w].pw, form |-> "hash"]
      BY <1>5, <2>2, <2>10, GotoType DEF Rehash, Labels, gh
    <3>2. req[w].do = "login" /\ w \in Writers(u)
      BY <1>5, <2>1, <2>2, <2>4, <3>1 DEF Writers, Places, Storing, Deleting, ReqKinds
    <3>3. Agrees(u) /\ pwd[u] # Nil /\ pwd[u].pw = req[w].pw
      BY <1>5, <2>4, <2>5, <3>1, <3>2 DEF Writes, User
    <3>4. agreed[u] = req[w].pw
      BY <2>3, <3>3
    <3>5. pwd'[u] # Nil /\ pwd'[u].pw = req[w].pw
      BY <2>6, <3>1, <3>3
    <3>6. Agrees(u)'
      BY <3>1, <3>4, <3>5 DEF Agrees
    <3>7. pwd'[u] = pwd[u] \/ pwd'[u].form = "hash"
      BY <3>1
    <3> QED BY <1>3, <3>1, <3>2, <3>6, <3>7, PasswordWritten
  <2>11. CASE PutPwd(w)
    <3>1. pc[w] = "putpwd" /\ pwd'[u] = [pw |-> req[w].new, form |-> "hash"]
      BY <1>5, <2>2, <2>11 DEF PutPwd
    <3>2. req[w].do \in {"signup", "change"} /\ w \in Writers(u)
      BY <1>5, <2>1, <2>2, <3>1 DEF Writers, Writes, Places, Storing, Deleting, ReqKinds
    <3>3. Agrees(u)
      BY <2>5, <3>1, <3>2 DEF Storing
    <3>4. pwd'[u] # Nil /\ pwd'[u].pw = req[w].new /\ pwd'[u].form = "hash"
      BY <2>6, <3>1
    <3>5. CASE req[w].do = "signup"
      <4>1. pc'[w] = "user" /\ agreed'[u] = agreed[u]
        BY <2>11, <3>5, GotoType DEF PutPwd, Labels
      <4>2. agreed[u] = Nil
        BY <2>3, <2>4, <3>1, <3>3, <3>5
      <4> QED BY <1>3, <3>2, <3>4, <3>5, <4>1, <4>2, PasswordWritten DEF Storing
    <3>6. CASE req[w].do # "signup"
      <4>1. pc'[w] = "done" /\ agreed'[u] = req[w].new
        BY <1>5, <2>2, <2>11, <3>6, GotoType DEF PutPwd, Labels
      <4>2. Agrees(u)'
        BY <3>4, <4>1 DEF Agrees
      <4> QED BY <1>3, <3>2, <3>4, <3>6, <4>1, <4>2, PasswordWritten
    <3> QED BY <3>5, <3>6
  <2>12. CASE PutPwdFails(w)
    BY <1>2, <1>5, <2>12 DEF PutPwdFails
  <2>13. CASE Created(w)
    <3>1. pc[w] = "created" /\ pwd' = pwd /\ pc'[w] = "done"
      BY <2>13, GotoType DEF Created, kv, Labels
    <3>2. CASE req[w].do = "signup"
      <4>1. w \in Writers(u) /\ agreed'[u] = req[w].new
        BY <1>5, <2>1, <2>2, <2>13, <3>2 DEF Created, Writers, Writes
      <4>2. Agrees(u)'
        BY <2>4, <3>1, <3>2, <4>1 DEF Agrees, Storing
      <4> QED BY <1>3, <3>1, <3>2, <4>1, <4>2, PasswordWritten DEF Storing
    <3>3. CASE req[w].do # "signup"
      <4>1. agreed' = agreed
        BY <2>13, <3>3 DEF Created
      <4> QED BY <1>3, <3>1, <3>3, <4>1, PasswordQuiet
    <3> QED BY <3>2, <3>3
  <2>14. CASE NotCreated(w)
    <3>1. pc[w] = "created" /\ agreed' = agreed /\ pc'[w] = "done"
      BY <2>14, GotoType DEF NotCreated, Labels, Refuse
    <3>2. req[w].do \in {"login", "signup"}
      BY <2>2, <3>1 DEF Places, Storing, Deleting, ReqKinds
    <3>3. CASE req[w].do = "signup"
      <4>1. w \in Writers(u) /\ pwd'[u] = Nil /\ agreed[u] = Nil
        BY <1>2, <1>5, <2>1, <2>2, <2>4, <2>14, <3>1, <3>3
           DEF NotCreated, Writers, Writes, Storing
      <4>2. Agrees(u)'
        BY <3>1, <4>1 DEF Agrees
      <4> QED BY <1>3, <3>1, <3>3, <4>1, <4>2, PasswordWritten DEF Storing
    <3>4. CASE req[w].do = "login"
      <4>1. pwd' = pwd
        BY <2>14, <3>4 DEF NotCreated
      <4> QED BY <1>3, <3>1, <3>4, <4>1, PasswordQuiet
    <3> QED BY <3>2, <3>3, <3>4
  <2>15. CASE Crash(w)
    <3>1. ~Writes(req[w]) /\ pwd' = pwd /\ agreed' = agreed /\ pc'[w] = "done"
      BY <1>2, <1>5, <2>15, GotoType DEF Crash, kv, Labels
    <3>2. req[w].do # "signup"
      BY <3>1 DEF Writes
    <3> QED BY <1>3, <3>1, <3>2, PasswordQuiet
  <2> QED BY <2>7, <2>8, <2>9, <2>10, <2>11, <2>12, <2>13, <2>14, <2>15 DEF WStep, Step
<1> QED BY <1>4, <1>5

-----------------------------------------------------------------------------
(* Requests and the passing of time. *)

\* A request arrives at an idle worker.
LEMMA RequestInv ==
    ASSUME SessionInv, NEW w \in Workers, NEW r \in plan.made, Request(w, r)
    PROVE  SessionInv'
<1> USE DEF SessionInv
<1>1. /\ plan \in Scenarios /\ r.do \in ReqKinds /\ r.user \in Users /\ r.sid \in Sids /\ r # Nil
      /\ pc[w] = "idle" /\ req[w] = Nil /\ row[w] = 1 /\ ~flag[w]
  BY SessionAssumption DEF TypeOK, WorkInv, Request
<1>2. /\ UNCHANGED <<cols, pwd, expired, row, flag, faults, begun, agreed, plan>>
      /\ req' = [req EXCEPT ![w] = r]
      /\ \A x \in Workers : req[x] # r
      /\ ~Creates(r) => r.sid \in begun
  BY <1>1 DEF Request, kv, Creates, ReqKinds
<1>3. /\ req'[w] = r /\ Sid(w)' = r.sid /\ User(w)' = r.user
      /\ \A x \in Workers \ {w} : req'[x] = req[x] /\ Sid(x)' = Sid(x) /\ User(x)' = User(x)
  BY <1>2 DEF TypeOK, Sid, User
<1>4. /\ pc'[w] = IF r.do = "logout" THEN "deluser"
                  ELSE IF Creates(r) THEN "auth" ELSE "readuser"
      /\ \A x \in Workers \ {w} : pc'[x] = pc[x]
      /\ pc' \in [Workers -> Labels] /\ DOMAIN reply' = Workers
  <2>1. CASE r.do = "logout"
    <3>1. Goto(w, "deluser") /\ Reply(w, "ok")
      BY <2>1 DEF Request
    <3> QED BY <2>1, <3>1, GotoType DEF Labels, Reply, TypeOK
  <2>2. CASE r.do \in {"check", "change"}
    <3>1. Goto(w, "readuser") /\ reply' = reply
      BY <2>2 DEF Request
    <3> QED BY <2>2, <3>1, GotoType DEF Labels, TypeOK, Creates
  <2>3. CASE Creates(r)
    <3>1. Goto(w, "auth") /\ reply' = reply
      BY <2>3 DEF Request, Creates
    <3> QED BY <2>3, <3>1, GotoType DEF Labels, TypeOK, Creates
  <2> QED BY <1>1, <2>1, <2>2, <2>3 DEF ReqKinds, Creates
<1>5. /\ ended' = IF r.do = "logout" THEN ended \cup {r.sid} ELSE ended
      /\ tangled \subseteq tangled' /\ tangled' \subseteq tangled \cup {r.sid}
      /\ r.do = "logout" /\ Repairing(r.sid) # {} => r.sid \in tangled'
      /\ muddled \subseteq muddled' /\ muddled' \subseteq muddled \cup {r.user}
      /\ Writes(r) /\ Writers(r.user) # {} => r.user \in muddled'
  BY DEF Request
<1>6. TypeOK'
  <2>1. req' \in [Workers -> plan.made \cup {Nil}]
    BY <1>2 DEF TypeOK
  <2>2. ended' \subseteq Sids /\ tangled' \subseteq Sids /\ muddled' \subseteq Users
    BY <1>1, <1>5 DEF TypeOK
  <2> QED BY <1>2, <1>4, <2>1, <2>2 DEF TypeOK
<1>7. Creates(r) => r.sid \notin begun
  <2>1. SUFFICES ASSUME Creates(r), r.sid \in begun PROVE FALSE
    OBVIOUS
  <2>2. r.sid \notin OldSids
    BY <1>1, <2>1, SidAssumption
  <2>3. PICK x \in Workers : req[x] # Nil /\ Creates(req[x]) /\ Sid(x) = r.sid
    BY <2>1, <2>2 DEF WorkInv
  <2>4. req[x] \in plan.made
    BY <2>3 DEF TypeOK
  <2> QED BY <1>1, <1>2, <2>1, <2>3, <2>4, SidAssumption DEF Sid
<1>8. WorkInv'
  <2>1. expired' \subseteq ended'
    BY <1>2, <1>5 DEF WorkInv
  <2>2. (\A s \in begun \ OldSids : \E x \in Workers :
           req[x] # Nil /\ Creates(req[x]) /\ Sid(x) = s)'
    <3>1. ASSUME NEW s \in begun \ OldSids
          PROVE  \E x \in Workers : req'[x] # Nil /\ Creates(req'[x]) /\ Sid(x)' = s
      <4>1. PICK x \in Workers : req[x] # Nil /\ Creates(req[x]) /\ Sid(x) = s
        BY DEF WorkInv
      <4>2. x # w
        BY <1>1, <4>1
      <4> QED BY <1>3, <4>1, <4>2
    <3> QED BY <1>2, <3>1
  <2>3. (\A v, x \in Workers : req[v] = req[x] => v = x \/ req[v] = Nil)'
    BY <1>2, <1>3 DEF WorkInv
  <2>4. ASSUME NEW x \in Workers
        PROVE  (/\ pc[x] = "idle" <=> req[x] = Nil
                /\ pc[x] = "idle" => row[x] = 1 /\ ~flag[x]
                /\ pc[x] # "idle" =>
                     /\ pc[x] \in Places(req[x].do) \cup {"done"}
                     /\ ~Creates(req[x]) => Sid(x) \in begun
                     /\ req[x].do = "logout" \/ pc[x] \in Deleting => Sid(x) \in ended)'
    <3>1. CASE x # w
      BY <1>2, <1>3, <1>4, <1>5, <3>1 DEF WorkInv
    <3>2. CASE x = w
      <4>1. pc'[w] \in Places(r.do) /\ pc'[w] # "idle"
        BY <1>1, <1>4 DEF Places, Deleting, Storing, Labels, Creates, ReqKinds
      <4>2. pc'[w] \in Deleting => r.do = "logout"
        BY <1>4 DEF Deleting
      <4> QED BY <1>1, <1>2, <1>3, <1>5, <3>2, <4>1, <4>2
    <3> QED BY <3>1, <3>2
  <2> QED BY <2>1, <2>2, <2>3, <2>4 DEF WorkInv
<1>9. CreateInv'
  <2>1. SUFFICES ASSUME NEW x \in Busy', Creates(req[x])'
                 PROVE  (/\ Sid(x) \notin begun
                         /\ pc[x] \notin Storing => row[x] = 1 /\ ~flag[x]
                         /\ pc[x] = "expiry" => "user" \in cols[Sid(x)][row[x]]
                         /\ flag[x] => \E i \in 1..N :
                              cols[Sid(x)][i] = Both /\ (i < row[x] \/ pc[x] = "created"))'
    BY DEF CreateInv
  <2>2. CASE x = w
    BY <1>1, <1>2, <1>3, <1>4, <1>7, <2>1, <2>2 DEF Creates
  <2>3. CASE x # w
    <3>1. x \in Busy /\ x \in Workers
      BY <1>4, <2>3 DEF Busy
    <3> QED BY <1>2, <1>3, <1>4, <2>1, <2>3, <3>1 DEF CreateInv
  <2> QED BY <2>2, <2>3
<1>10. RowLeft'
  BY <1>2, <1>5 DEF RowLeft
<1>11. ReadInv'
  <2>1. SUFFICES ASSUME NEW x \in Workers, ~flag[x]
                 PROVE  (/\ pc[x] \in {"readuser", "readexpiry"} /\ Sid(x) \notin ended =>
                              \E i \in row[x]..N : cols[Sid(x)][i] = Both
                         /\ pc[x] = "invalid" => Sid(x) \in ended)'
    BY <1>2 DEF ReadInv
  <2>2. CASE x # w
    BY <1>2, <1>3, <1>4, <1>5, <2>1, <2>2 DEF ReadInv
  <2>3. CASE x = w
    <3>1. pc'[w] # "invalid"
      BY <1>4
    <3>2. pc'[w] = "readuser" => r.sid \in begun
      BY <1>2, <1>4
    <3> QED BY <1>1, <1>2, <1>3, <1>4, <1>5, <2>3, <3>1, <3>2 DEF RowLeft
  <2> QED BY <2>2, <2>3
<1>12. LogoutInv'
  <2>1. SUFFICES ASSUME NEW x \in Workers, req'[x] # Nil, req'[x].do = "logout", Sid(x)' \notin tangled'
                 PROVE  (/\ Repairing(Sid(x)) = {}
                         /\ \A i \in 1..N : i < row[x] \/ pc[x] \in {"destroyed", "done"} =>
                              cols[Sid(x)][i] = {}
                         /\ pc[x] = "delexpiry" => "user" \notin cols[Sid(x)][row[x]])'
    BY DEF LogoutInv
  <2>2. ASSUME NEW s, NEW y \in Repairing(s)' PROVE y \in Repairing(s)
    <3>1. y \in Workers /\ pc'[y] \in {"fixuser", "fixexpiry"} /\ Sid(y)' = s
      BY <2>2 DEF Repairing, Busy
    <3>2. y # w
      BY <1>4, <3>1
    <3> QED BY <1>3, <1>4, <3>1, <3>2 DEF Repairing, Busy
  <2>3. CASE x = w
    <3>1. r.do = "logout" /\ pc'[w] = "deluser" /\ row'[w] = 1 /\ r.sid \notin tangled'
      BY <1>1, <1>2, <1>3, <1>4, <2>1, <2>3
    <3>2. Repairing(r.sid) = {}
      BY <1>5, <3>1
    <3>3. Repairing(Sid(w))' = {}
      BY <1>3, <2>2, <3>2 DEF Repairing
    <3>4. \A i \in 1..N : ~(i < 1)
      OBVIOUS
    <3> QED BY <2>3, <3>1, <3>3, <3>4
  <2>4. CASE x # w
    <3>1. Sid(x)' = Sid(x) /\ req'[x] = req[x] /\ pc'[x] = pc[x] /\ Sid(x) \notin tangled
      BY <1>3, <1>4, <1>5, <2>1, <2>4
    <3>2. Repairing(Sid(x)) = {}
      BY <2>1, <3>1 DEF LogoutInv
    <3>3. Repairing(Sid(x))' = {}
      BY <2>2, <3>1, <3>2 DEF Repairing
    <3> QED BY <1>2, <2>1, <3>1, <3>3 DEF LogoutInv
  <2> QED BY <2>3, <2>4
<1>13. PasswordInv'
  <2>1. SUFFICES ASSUME NEW u \in Users, u \notin muddled' PROVE PasswordOf(u)'
    BY DEF PasswordInv
  <2>2. PasswordOf(u)
    BY <1>5, <2>1 DEF PasswordInv
  <2>3. \A q : Writes(q)' <=> Writes(q)
    BY <1>2 DEF Writes
  <2>4. \A x \in Workers \ {w} : x \in Writers(u)' <=> x \in Writers(u)
    BY <1>3, <1>4, <2>3 DEF Writers, Busy
  <2>5. w \notin Writers(u) /\ (w \in Writers(u)' => Writes(r) /\ r.user = u)
    BY <1>1, <1>3, <2>3 DEF Writers, Busy
  <2>6. (\A v, x \in Writers(u) : v = x)'
    <3>1. CASE w \in Writers(u)'
      <4>1. Writers(u) = {}
        BY <1>5, <2>1, <2>5, <3>1
      <4> QED BY <2>4, <4>1 DEF Writers, Busy
    <3>2. CASE w \notin Writers(u)'
      <4>1. Writers(u)' \subseteq Writers(u)
        BY <2>4, <3>2 DEF Writers, Busy
      <4> QED BY <2>2, <4>1 DEF PasswordOf
    <3> QED BY <3>1, <3>2
  <2>7. (Agrees(u) \/ \E x \in Writers(u) : req[x].do = "signup" /\ pc[x] \in Storing)'
    <3>1. CASE Agrees(u)
      BY <1>2, <3>1 DEF Agrees
    <3>2. CASE \E x \in Writers(u) : req[x].do = "signup" /\ pc[x] \in Storing
      <4>1. PICK x \in Writers(u) : req[x].do = "signup" /\ pc[x] \in Storing
        BY <3>2
      <4>2. x \in Workers \ {w}
        BY <2>5 DEF Writers, Busy
      <4> QED BY <1>3, <1>4, <2>4, <4>1, <4>2
    <3> QED BY <2>2, <3>1, <3>2 DEF PasswordOf
  <2>8. (\A x \in Busy : User(x) = u =>
           /\ pc[x] = "rehash" => Writes(req[x]) /\ pwd[u].pw = req[x].pw
           /\ req[x].do = "signup" /\ pc[x] = "putpwd" => pwd[u] = Nil
           /\ req[x].do = "signup" /\ pc[x] \in Storing =>
                pwd[u] # Nil /\ pwd[u].pw = req[x].new /\ agreed[u] = Nil)'
    <3>1. SUFFICES ASSUME NEW x \in Busy', User(x)' = u
                   PROVE  (/\ pc[x] = "rehash" => Writes(req[x]) /\ pwd[u].pw = req[x].pw
                           /\ req[x].do = "signup" /\ pc[x] = "putpwd" => pwd[u] = Nil
                           /\ req[x].do = "signup" /\ pc[x] \in Storing =>
                                pwd[u] # Nil /\ pwd[u].pw = req[x].new /\ agreed[u] = Nil)'
      OBVIOUS
    <3>2. CASE x = w
      BY <1>4, <3>2 DEF Storing
    <3>3. CASE x # w
      <4>1. x \in Busy /\ x \in Workers /\ User(x) = u /\ req'[x] = req[x] /\ pc'[x] = pc[x]
        BY <1>3, <1>4, <3>1, <3>3 DEF Busy
      <4> QED BY <1>2, <2>2, <2>3, <4>1 DEF PasswordOf
    <3> QED BY <3>2, <3>3
  <2> QED BY <2>6, <2>7, <2>8 DEF PasswordOf
<1> QED BY <1>6, <1>8, <1>9, <1>10, <1>11, <1>12, <1>13

\* A session's time runs out.
LEMMA ExpireInv ==
    ASSUME SessionInv, NEW s \in Sids, Expire(s)
    PROVE  SessionInv'
<1> USE DEF SessionInv
<1>1. /\ UNCHANGED <<cols, pwd, pc, req, reply, row, flag, plan, faults, begun, tangled, agreed, muddled>>
      /\ expired' = expired \cup {s} /\ ended' = ended \cup {s}
  BY DEF Expire, kv, wk
<1>2. TypeOK'
  BY <1>1 DEF TypeOK
<1>3. WorkInv'
  BY <1>1 DEF WorkInv, Sid
<1>4. CreateInv' /\ RowLeft'
  BY <1>1 DEF CreateInv, RowLeft, Busy, Sid
<1>5. ReadInv' /\ LogoutInv'
  BY <1>1 DEF ReadInv, LogoutInv, Repairing, Busy, Sid
<1>6. PasswordInv'
  BY <1>1 DEF PasswordInv, PasswordOf, Agrees, Writers, Writes, Busy, User
<1> QED BY <1>2, <1>3, <1>4, <1>5, <1>6

\* A step that changes nothing.
LEMMA StutterInv ==
    ASSUME SessionInv, UNCHANGED svars
    PROVE  SessionInv'
<1>1. UNCHANGED <<cols, pwd, expired, pc, req, reply, row, flag, plan, faults, begun, ended, tangled,
                  agreed, muddled>>
  BY DEF svars, kv, wk, gh
<1>2. TypeOK' /\ WorkInv'
  BY <1>1 DEF SessionInv, TypeOK, WorkInv, Sid
<1>3. CreateInv' /\ RowLeft'
  BY <1>1 DEF SessionInv, CreateInv, RowLeft, Busy, Sid
<1>4. ReadInv' /\ LogoutInv'
  BY <1>1 DEF SessionInv, ReadInv, LogoutInv, Repairing, Busy, Sid
<1>5. PasswordInv'
  BY <1>1 DEF SessionInv, PasswordInv, PasswordOf, Agrees, Writers, Writes, Busy, User
<1> QED BY <1>2, <1>3, <1>4, <1>5 DEF SessionInv

\* Every step of the sessions keeps the invariant.
LEMMA NextInv == SessionInv /\ [Next]_svars => SessionInv'
<1> SUFFICES ASSUME SessionInv, [Next]_svars PROVE SessionInv'
  OBVIOUS
<1>1. CASE UNCHANGED svars
  BY <1>1, StutterInv
<1>2. ASSUME NEW w \in Workers, WStep(w) PROVE SessionInv'
  BY <1>2, FrameStep, WorkStep, CreateStep, RowLeftStep, ReadStep, LogoutStep, PasswordStep
     DEF SessionInv
<1>3. ASSUME NEW w \in Workers, NEW r \in plan.made, Request(w, r) PROVE SessionInv'
  BY <1>3, RequestInv
<1>4. ASSUME NEW s \in Sids, Expire(s) PROVE SessionInv'
  BY <1>4, ExpireInv
<1> QED BY <1>1, <1>2, <1>3, <1>4 DEF Next, WStep

-----------------------------------------------------------------------------
(* Theorems. *)

\* Types and the inductive invariant, whatever requests, failed calls and killed
\* processes there are.
THEOREM SessionInvariant == Spec => []SessionInv
<1>1. Init => SessionInv
  BY InitInv
<1>2. SessionInv /\ [Next]_svars => SessionInv'
  BY NextInv
<1> QED BY <1>1, <1>2, PTL DEF Spec

\* A logout that ran through leaves no row that a check would accept, unless a
\* call failed or a repair met it (destroy_async, repair_session_copies).
THEOREM LogoutIsFinal == Spec => []LogoutHolds
<1>1. SessionInv => LogoutHolds
  <2>1. Both # {}
    BY DEF Both
  <2> QED BY <2>1 DEF SessionInv, LogoutInv, LogoutHolds
<1> QED BY <1>1, SessionInvariant, PTL

\* A session that a client was told of has a complete row until it is ended
\* (SessionManager::create, validate_status).
THEOREM SessionHasRow == Spec => []RowLeft
<1>1. SessionInv => RowLeft
  BY DEF SessionInv
<1> QED BY <1>1, SessionInvariant, PTL

\* A client whose session has not ended is never told that it has none
\* (validate_status, handle_session).
THEOREM SessionNotDenied == Spec => SessionKept
<1>1. SessionInv /\ [Next]_svars =>
        [\A w \in Workers : reply'[w] = "out" /\ reply[w] # "out" /\ req[w].do = "check"
            => Sid(w) \in ended]_svars
  <2>1. SUFFICES ASSUME SessionInv, Next, NEW w \in Workers,
                        reply'[w] = "out", reply[w] # "out", req[w].do = "check"
                 PROVE  Sid(w) \in ended
    OBVIOUS
  <2>2. ASSUME NEW v \in Workers, NEW r \in plan.made, Request(v, r) PROVE FALSE
    BY <2>1, <2>2, SessionAssumption DEF SessionInv, TypeOK, Request, Reply, ReqKinds
  <2>3. ASSUME NEW s \in Sids, Expire(s) PROVE FALSE
    BY <2>1, <2>3 DEF Expire, wk
  <2>4. PICK v \in Workers : WStep(v)
    BY <2>1, <2>2, <2>3 DEF Next, WStep
  <2>5. Verdict(v) /\ v = w
    BY <2>1, <2>4 DEF WStep, Step, PutUser, PutExpiry, Undo, DelUser, DelExpiry, FixUser,
       FixExpiry, ReadUser, ReadExpiry, ReadFails, Verdict, Login, Rehash, Signup,
       ChangePassword, PutPwd, PutPwdFails, Created, NotCreated, Crash, Refuse, Reply,
       SessionInv, TypeOK
  <2>6. CASE pc[w] = "invalid"
    <3>1. ~flag[w]
      BY <2>1, <2>5, <2>6 DEF Verdict, Reply, SessionInv, TypeOK
    <3> QED BY <2>1, <2>6, <3>1 DEF SessionInv, ReadInv
  <2>7. CASE pc[w] = "destroyed"
    BY <2>1, <2>7 DEF SessionInv, WorkInv, Deleting
  <2>8. pc[w] = "invalid" \/ pc[w] = "destroyed"
    BY <2>1, <2>5 DEF Verdict, Reply, SessionInv, TypeOK
  <2> QED BY <2>6, <2>7, <2>8
<1> QED BY <1>1, SessionInvariant, PTL DEF Spec, SessionKept

\* The stored password is the one last confirmed to its user, unless two writes
\* of it overlapped or one failed (handle_login, handle_signup,
\* handle_change_password).
THEOREM PasswordIsAgreed == Spec => []PasswordAgreed
<1>1. SessionInv => PasswordAgreed
  BY DEF SessionInv, PasswordInv, PasswordOf, PasswordAgreed, Agrees
<1> QED BY <1>1, SessionInvariant, PTL

-----------------------------------------------------------------------------
(* Outbound mail. *)

\* The steps of a dialogue are those with a command.
LEMMA TalkingIsDomain == DOMAIN NextCmd = Talking
  BY DEF NextCmd, Talking

\* A count goes up for the job in hand.
LEMMA CountFacts ==
    ASSUME NEW f \in [Jobs -> Nat], job \in Jobs, NEW n \in Nat
    PROVE  /\ Count(f, n) \in [Jobs -> Nat]
           /\ Count(f, n)[job] = f[job] + n
           /\ \A j \in Jobs \ {job} : Count(f, n)[j] = f[j]
  BY DEF Count

\* A way that failed: the other one, or the end.
Failed ==
    /\ at' \in {"relay", "lookup", "idle"} /\ second' \in BOOLEAN /\ mx' \in Nat
    /\ at' # "idle" => job' = job /\ result' = result
    /\ at' = "idle" => job' = None /\ result' = "failed"

\* What the end of one way does.
LEMMA LegFailsEffect ==
    ASSUME OutType, LegFails
    PROVE  Failed
<1>1. CASE HasFallback /\ ~second
  BY <1>1 DEF LegFails, OtherLeg, Failed
<1>2. CASE ~(HasFallback /\ ~second)
  BY <1>2 DEF LegFails, Finish, Failed, OutType
<1> QED BY <1>1, <1>2

\* One if the copy of the present job is accepted and not yet reported.
Open == IF mine \/ (at = "idle" /\ result = "ok") THEN 1 ELSE 0

\* What a step of the outbound client, or of a server, does.
OutEffect ==
    /\ at # "idle" /\ env' = env
    /\ \A j \in Jobs : taken[j] <= taken'[j]
    /\ \A j \in Jobs \ {job} : taken'[j] = taken[j] /\ unsure'[j] = unsure[j]
    /\ at' # "idle" => job' = job
    /\ at' = "idle" /\ result' = "ok" => taken'[job] > 0
    /\ taken'[job] + unsure[job] + Open <= taken[job] + unsure'[job] + Open'

OutStep == LookupMx \/ Connect \/ NoReply \/ ReadReply \/ Relay \/ Submit \/ Answer

\* The connection is given up.
LEMMA GivenUp ==
    ASSUME HangUp, at' \notin Talking
    PROVE  /\ cmds' \in Seq(Talking) /\ reps' \in Seq({2, 3, 4, 5}) /\ mine' = FALSE
           /\ InStep'
<1>1. cmds' = <<>> /\ reps' = <<>> /\ mine' = FALSE
  BY DEF HangUp
<1>2. Len(cmds') = 0 /\ Len(reps') = 0
  BY <1>1
<1>3. InStep'
  BY <1>1, <1>2 DEF InStep, Talking
<1> QED BY <1>1, <1>3

\* An attempt that failed: a copy that was accepted is counted as unsure.
LEMMA AttemptFailsEffect ==
    ASSUME OutType, InStep, NEW temp \in BOOLEAN, AttemptFails(temp), at # "idle",
           UNCHANGED <<env, taken>>
    PROVE  OutType' /\ InStep' /\ OutEffect
<1>1. job \in Jobs /\ result = "none"
  BY DEF OutType
<1>2. /\ at' \in {"connect", "relay", "lookup", "idle"} /\ second' \in BOOLEAN /\ mx' \in Nat
      /\ at' # "idle" => job' = job /\ result' = result
      /\ at' = "idle" => job' = None /\ result' = "failed"
  <2>1. CASE ~temp /\ mx > 1 /\ at' = "connect" /\ mx' = mx - 1 /\ UNCHANGED <<job, second, result>>
    BY <2>1 DEF OutType
  <2>2. CASE LegFails
    BY <2>2, LegFailsEffect DEF Failed
  <2> QED BY <2>1, <2>2 DEF AttemptFails
<1>3. /\ cmds' \in Seq(Talking) /\ reps' \in Seq({2, 3, 4, 5}) /\ mine' = FALSE
      /\ InStep'
  BY <1>2, GivenUp DEF AttemptFails, Talking
<1>4. /\ unsure' \in [Jobs -> Nat]
      /\ unsure'[job] = unsure[job] + (IF mine THEN 1 ELSE 0)
      /\ \A j \in Jobs \ {job} : unsure'[j] = unsure[j]
  <2>1. CASE mine
    <3>1. unsure' = Count(unsure, 1)
      BY <2>1 DEF AttemptFails
    <3>2. unsure \in [Jobs -> Nat]
      BY DEF OutType
    <3>3. /\ Count(unsure, 1) \in [Jobs -> Nat]
          /\ Count(unsure, 1)[job] = unsure[job] + 1
          /\ \A j \in Jobs \ {job} : Count(unsure, 1)[j] = unsure[j]
      BY <1>1, <3>2, CountFacts
    <3> QED BY <2>1, <3>1, <3>3
  <2>2. CASE ~mine
    BY <1>1, <2>2 DEF AttemptFails, OutType
  <2> QED BY <2>1, <2>2
<1>5. OutType'
  <2>1. at' \in Talking \cup {"idle", "relay", "submit", "lookup", "connect"}
    BY <1>2
  <2>2. result' \in {"none", "ok", "failed"} /\ job' \in Jobs \cup {None}
    BY <1>1, <1>2
  <2> QED BY <1>1, <1>2, <1>3, <1>4, <2>1, <2>2 DEF OutType
<1>6. Open = (IF mine THEN 1 ELSE 0) /\ Open' = 0
  BY <1>2, <1>3, <1>1 DEF Open
<1>7. taken'[job] + unsure[job] + Open <= taken[job] + unsure'[job] + Open'
  BY <1>1, <1>4, <1>6 DEF OutType
<1> QED BY <1>1, <1>2, <1>3, <1>4, <1>5, <1>7 DEF OutEffect, OutType

\* A step that leaves the connection and the counts alone.
LEMMA QuietEffect ==
    ASSUME OutType, InStep, at \notin Talking, at # "idle", at' \notin Talking,
           UNCHANGED <<env, conn, taken, unsure>>,
           at' \in {"relay", "submit", "lookup", "connect", "idle"}, second' \in BOOLEAN, mx' \in Nat,
           at' # "idle" => job' = job /\ result' = result,
           at' = "idle" => job' = None /\ result' = "failed"
    PROVE  OutType' /\ InStep' /\ OutEffect
<1>1. cmds' = <<>> /\ reps' = <<>> /\ cmds = <<>> /\ reps = <<>> /\ mine = FALSE /\ mine' = FALSE
  <2>1. at # "body"
    BY DEF Talking
  <2> QED BY <2>1 DEF InStep, conn, OutType
<1>2. job \in Jobs /\ result = "none" /\ taken[job] \in Nat /\ unsure[job] \in Nat
  BY DEF OutType
<1>3. InStep'
  BY <1>1, GivenUp DEF HangUp
<1>4. OutType'
  BY <1>1, <1>2 DEF OutType, conn
<1>5. Open = 0 /\ Open' = 0
  BY <1>1, <1>2 DEF Open
<1>6. taken'[job] + unsure[job] + Open <= taken[job] + unsure'[job] + Open'
  BY <1>2, <1>5
<1>7. \A j \in Jobs : taken[j] <= taken'[j]
  BY DEF OutType
<1>8. ~(at' = "idle" /\ result' = "ok")
  OBVIOUS
<1> QED BY <1>3, <1>4, <1>6, <1>7, <1>8 DEF OutEffect

\* The lookup of the mail servers.
LEMMA LookupMxEffect ==
    ASSUME OutType, InStep, LookupMx
    PROVE  OutType' /\ InStep' /\ OutEffect
<1>1. mx' \in Nat
  BY SmtpOutAssumption DEF LookupMx
<1> QED BY <1>1, QuietEffect DEF LookupMx, Talking, OutType

\* The start of the way over the relay.
LEMMA RelayEffect ==
    ASSUME OutType, InStep, Relay
    PROVE  OutType' /\ InStep' /\ OutEffect
<1>1. at = "relay" /\ at \notin Talking
  BY DEF Relay, Talking
<1>2. CASE at' = "submit" /\ UNCHANGED <<job, second, mx, result>>
  BY <1>1, <1>2, QuietEffect DEF Relay, Talking, OutType
<1>3. CASE LegFails
  <2>1. Failed
    BY <1>3, LegFailsEffect
  <2> QED BY <1>1, <2>1, QuietEffect DEF Relay, Talking, Failed
<1> QED BY <1>2, <1>3 DEF Relay

\* The submission to the relay.
LEMMA SubmitEffect ==
    ASSUME OutType, InStep, Submit
    PROVE  OutType' /\ InStep' /\ OutEffect
<1>1. at = "submit" /\ at \notin Talking /\ at # "body"
  BY DEF Submit, Talking
<1>2. job \in Jobs /\ result = "none" /\ taken[job] \in Nat /\ unsure[job] \in Nat /\ mine = FALSE
  BY <1>1 DEF OutType, InStep
<1>3. CASE LegFails /\ UNCHANGED <<taken, unsure>>
  <2>1. Failed
    BY <1>3, LegFailsEffect
  <2> QED BY <1>1, <1>3, <2>1, QuietEffect DEF Submit, Talking, Failed
<1>4. ASSUME taken' = Count(taken, 1),
             \/ Finish("ok") /\ UNCHANGED unsure
             \/ unsure' = Count(unsure, 1) /\ LegFails
      PROVE  OutType' /\ InStep' /\ OutEffect
  <2>1. /\ taken' \in [Jobs -> Nat] /\ taken'[job] = taken[job] + 1
        /\ \A j \in Jobs \ {job} : taken'[j] = taken[j]
    <3>1. taken \in [Jobs -> Nat]
      BY DEF OutType
    <3>2. /\ Count(taken, 1) \in [Jobs -> Nat] /\ Count(taken, 1)[job] = taken[job] + 1
          /\ \A j \in Jobs \ {job} : Count(taken, 1)[j] = taken[j]
      BY <1>2, <3>1, CountFacts
    <3> QED BY <1>4, <3>2
  <2>2. cmds' = <<>> /\ reps' = <<>> /\ mine' = FALSE /\ env' = env
    BY <1>1, <1>2 DEF Submit, InStep, conn
  <2>3. \A j \in Jobs : taken[j] <= taken'[j]
    <3>1. \A j \in Jobs : taken[j] \in Nat
      BY DEF OutType
    <3> QED BY <1>2, <2>1, <3>1
  <2>4. CASE Finish("ok") /\ UNCHANGED unsure
    <3>1. at' = "idle" /\ result' = "ok" /\ job' = None /\ mx' = 0 /\ second' = second
      BY <2>4 DEF Finish
    <3>2. InStep'
      BY <2>2, <3>1, GivenUp DEF HangUp, Talking
    <3>3. OutType'
      <4>1. cmds' \in Seq(Talking) /\ reps' \in Seq({2, 3, 4, 5})
        BY <2>2
      <4> QED BY <2>1, <2>2, <2>4, <3>1, <4>1 DEF OutType
    <3>4. Open = 0 /\ Open' = 1
      BY <1>1, <1>2, <2>2, <3>1 DEF Open
    <3>5. taken'[job] + unsure[job] + Open <= taken[job] + unsure'[job] + Open'
      BY <1>2, <2>1, <2>4, <3>4
    <3>6. taken'[job] > 0
      BY <1>2, <2>1
    <3> QED BY <1>1, <2>1, <2>2, <2>3, <2>4, <3>1, <3>2, <3>3, <3>5, <3>6 DEF OutEffect
  <2>5. CASE unsure' = Count(unsure, 1) /\ LegFails
    <3>1. Failed
      BY <2>5, LegFailsEffect
    <3>2. /\ unsure' \in [Jobs -> Nat] /\ unsure'[job] = unsure[job] + 1
          /\ \A j \in Jobs \ {job} : unsure'[j] = unsure[j]
      <4>1. unsure \in [Jobs -> Nat]
        BY DEF OutType
      <4>2. /\ Count(unsure, 1) \in [Jobs -> Nat] /\ Count(unsure, 1)[job] = unsure[job] + 1
            /\ \A j \in Jobs \ {job} : Count(unsure, 1)[j] = unsure[j]
        BY <1>2, <4>1, CountFacts
      <4> QED BY <2>5, <4>2
    <3>3. InStep'
      BY <2>2, <3>1, GivenUp DEF HangUp, Talking, Failed
    <3>4. OutType'
      <4>1. cmds' \in Seq(Talking) /\ reps' \in Seq({2, 3, 4, 5})
        BY <2>2
      <4> QED BY <1>2, <2>1, <2>2, <3>1, <3>2, <4>1 DEF OutType, Failed
    <3>5. Open = 0 /\ Open' = 0
      BY <1>1, <1>2, <2>2, <3>1 DEF Open, Failed
    <3>6. taken'[job] + unsure[job] + Open <= taken[job] + unsure'[job] + Open'
      BY <1>2, <2>1, <3>2, <3>5
    <3>7. taken'[job] > 0
      BY <1>2, <2>1
    <3> QED BY <1>1, <2>1, <2>2, <2>3, <3>1, <3>2, <3>3, <3>4, <3>6, <3>7 DEF OutEffect, Failed
  <2> QED BY <1>4, <2>4, <2>5
<1> QED BY <1>3, <1>4 DEF Submit

\* Nothing but the dialogue moves.
LEMMA TalkEffect ==
    ASSUME OutType, at \in Talking \cup {"connect"}, at' \in Talking,
           UNCHANGED <<env, job, second, mx, result, mine, taken, unsure>>,
           cmds' \in Seq(Talking), reps' \in Seq({2, 3, 4, 5})
    PROVE  OutType' /\ OutEffect
<1>1. at # "idle" /\ at' # "idle"
  BY DEF Talking
<1>2. job \in Jobs /\ taken[job] \in Nat /\ unsure[job] \in Nat
  BY <1>1 DEF OutType
<1>3. OutType'
  BY <1>1 DEF OutType
<1>4. Open = Open' /\ Open \in Nat
  BY <1>1 DEF Open
<1>5. taken'[job] + unsure[job] + Open <= taken[job] + unsure'[job] + Open'
  BY <1>2, <1>4
<1>6. \A j \in Jobs : taken[j] <= taken'[j]
  BY DEF OutType
<1> QED BY <1>1, <1>3, <1>5, <1>6 DEF OutEffect

\* A connection to the next server.
LEMMA ConnectEffect ==
    ASSUME OutType, InStep, Connect
    PROVE  OutType' /\ InStep' /\ OutEffect
<1>1. at = "connect" /\ at # "idle" /\ UNCHANGED <<env, taken>>
  BY DEF Connect
<1>2. CASE AttemptFails(FALSE)
  BY <1>1, <1>2, AttemptFailsEffect
<1>3. CASE cmds' = <<"greet">> /\ at' = "greet" /\ UNCHANGED <<job, second, mx, result, reps, mine, unsure>>
  <2>1. reps = <<>> /\ mine = FALSE
    BY <1>1 DEF InStep, Talking, OutType
  <2>2. cmds' \in Seq(Talking) /\ Len(cmds') = 1 /\ cmds'[1] = "greet" /\ Len(reps') = 0
    BY <1>3, <2>1 DEF Talking
  <2>3. OutType' /\ OutEffect
    BY <1>1, <1>3, <2>2, TalkEffect DEF OutType, Talking
  <2>4. InStep'
    BY <1>3, <2>1, <2>2 DEF InStep, Talking
  <2> QED BY <2>3, <2>4
<1> QED BY <1>2, <1>3 DEF Connect

\* Sequences with an element added or taken away.
LEMMA AppendFacts ==
    ASSUME NEW S, NEW q \in Seq(S), NEW x \in S
    PROVE  /\ Append(q, x) \in Seq(S) /\ Len(Append(q, x)) = Len(q) + 1
           /\ Append(q, x)[Len(q) + 1] = x
           /\ \A i \in 1..Len(q) : Append(q, x)[i] = q[i]
  OBVIOUS

\* The rest of a queue.
LEMMA TailFacts ==
    ASSUME NEW S, NEW q \in Seq(S), q # <<>>
    PROVE  /\ Head(q) = q[1] /\ Head(q) \in S /\ Len(q) \in Nat /\ Len(q) > 0
           /\ Tail(q) \in Seq(S) /\ Len(Tail(q)) = Len(q) - 1
           /\ \A i \in 1..Len(Tail(q)) : Tail(q)[i] = q[i + 1] /\ i + 1 \in 1..Len(q)
           /\ Len(q) = 1 => Tail(q) = <<>>
<1>1. Len(q) \in Nat /\ Len(q) > 0 /\ Head(q) = q[1]
  OBVIOUS
<1>2. q[1] \in S
  BY <1>1
<1>3. Tail(q) \in Seq(S) /\ Len(Tail(q)) = Len(q) - 1
  OBVIOUS
<1>4. \A i \in 1..Len(Tail(q)) : Tail(q)[i] = q[i + 1] /\ i + 1 \in 1..Len(q)
  BY <1>1, <1>3
<1>5. Len(q) = 1 => Tail(q) = <<>>
  <2>1. \A r \in Seq(S) : Len(r) = 0 => r = <<>>
    OBVIOUS
  <2>2. Len(q) = 1 => Len(Tail(q)) = 0
    BY <1>3
  <2> QED BY <1>3, <2>1, <2>2
<1> QED BY <1>1, <1>2, <1>3, <1>4, <1>5

\* The next command is sent: in particular the message, once the answer 3 is read.
LEMMA CommandEffect ==
    ASSUME OutType, InStep, at \in Talking \ {"body"}, NEW c \in Talking, Command(c),
           UNCHANGED <<env, taken>>,
           \/ reps' = reps
           \/ reps # <<>> /\ reps' = Tail(reps),
           c = "body" => at = "data" /\ reps # <<>> /\ reps' = Tail(reps) /\ Head(reps) = 3,
           at = "data" => c = "body"
    PROVE  OutType' /\ InStep' /\ OutEffect
<1>1. /\ cmds' = Append(cmds, c) /\ at' = c /\ UNCHANGED <<job, second, mx, result, mine, unsure>>
      /\ cmds \in Seq(Talking) /\ reps \in Seq({2, 3, 4, 5}) /\ mine = FALSE
  BY DEF Command, OutType, InStep
<1>2. /\ cmds' \in Seq(Talking) /\ Len(cmds') = Len(cmds) + 1 /\ cmds'[Len(cmds) + 1] = c
      /\ \A i \in 1..Len(cmds) : cmds'[i] = cmds[i]
  BY <1>1, AppendFacts
<1>3. reps' \in Seq({2, 3, 4, 5})
  BY <1>1, TailFacts
<1>4. Len(cmds) \in Nat /\ Len(reps) \in Nat
  BY <1>1
<1>5. OutType' /\ OutEffect
  BY <1>1, <1>2, <1>3, TalkEffect
<1>6. CASE at = "data"
  <2>1. c = "body" /\ reps # <<>> /\ reps' = Tail(reps) /\ Head(reps) = 3
    BY <1>6
  <2>2. reps[1] = 3 /\ 1 \in 1..Len(reps)
    BY <1>1, <2>1, TailFacts
  <2>3. Len(reps) = 1 /\ cmds = <<>>
    BY <1>6, <2>2 DEF InStep
  <2>4. reps' = <<>> /\ cmds' = <<"body">>
    BY <1>1, <2>1, <2>3, TailFacts
  <2> QED BY <1>1, <1>5, <2>1, <2>4 DEF InStep, Talking
<1>7. CASE at # "data"
  <2>1. c # "body"
    BY <1>7
  <2>2. /\ \A i \in 1..Len(cmds) : cmds[i] # "body" /\ cmds[i] # "data"
        /\ \A i \in 1..Len(reps) : reps[i] # 3
    BY <1>7 DEF InStep
  <2>3. \A i \in 1..Len(reps') : reps'[i] # 3
    <3>1. CASE reps' = reps
      BY <2>2, <3>1
    <3>2. CASE reps # <<>> /\ reps' = Tail(reps)
      BY <1>1, <2>2, <3>2, TailFacts
    <3> QED BY <3>1, <3>2
  <2>4. \A i \in 1..Len(cmds') : i \in 1..Len(cmds) \/ i = Len(cmds')
    BY <1>2, <1>4
  <2>5. \A i \in 1..Len(cmds') : cmds'[i] # "body" /\ (cmds'[i] = "data" => i = Len(cmds') /\ c = "data")
    BY <1>2, <2>1, <2>2, <2>4
  <2> QED BY <1>1, <1>5, <2>1, <2>3, <2>5 DEF InStep
<1> QED BY <1>6, <1>7

\* A wait that ends without an answer.
LEMMA NoReplyEffect ==
    ASSUME OutType, InStep, NoReply
    PROVE  OutType' /\ InStep' /\ OutEffect
<1>1. at \in Talking /\ at # "idle" /\ UNCHANGED <<env, taken>>
  BY TalkingIsDomain DEF NoReply, Talking
<1>2. CASE at = "ehlo"
  BY <1>1, <1>2, CommandEffect DEF NoReply, Talking
<1>3. CASE at # "ehlo"
  BY <1>1, <1>3, AttemptFailsEffect DEF NoReply
<1> QED BY <1>2, <1>3

\* An answer, maybe to the command before.
LEMMA ReadReplyEffect ==
    ASSUME OutType, InStep, ReadReply
    PROVE  OutType' /\ InStep' /\ OutEffect
<1>1. at \in Talking /\ at # "idle" /\ UNCHANGED <<env, taken>> /\ reps # <<>>
  BY TalkingIsDomain DEF ReadReply, Talking
<1> DEFINE k == Head(reps)
<1>2. CASE k = Wanted(at) /\ at = "body" /\ HangUp /\ Finish("ok") /\ UNCHANGED unsure
  <2>1. reps[1] = 2 /\ mine
    <3>1. Head(reps) = reps[1]
      BY <1>1, TailFacts DEF OutType
    <3> QED BY <1>1, <1>2, <3>1 DEF Wanted, InStep
  <2>2. at' = "idle" /\ result' = "ok" /\ job' = None /\ mx' = 0 /\ second' = second
    BY <1>2 DEF Finish
  <2>3. /\ cmds' \in Seq(Talking) /\ reps' \in Seq({2, 3, 4, 5}) /\ mine' = FALSE
        /\ InStep'
    BY <1>2, <2>2, GivenUp DEF Talking
  <2>4. OutType'
    BY <1>1, <1>2, <2>2, <2>3 DEF OutType
  <2>5. Open = 1 /\ Open' = 1 /\ taken[job] > 0
    BY <2>1, <2>2 DEF Open, InStep
  <2>6. job \in Jobs /\ taken[job] \in Nat /\ unsure[job] \in Nat
    BY <1>1 DEF OutType
  <2>7. taken'[job] + unsure[job] + Open <= taken[job] + unsure'[job] + Open'
    BY <1>1, <1>2, <2>5, <2>6
  <2>8. \A j \in Jobs : taken[j] <= taken'[j]
    BY <1>1 DEF OutType
  <2> QED BY <1>1, <1>2, <2>2, <2>3, <2>4, <2>5, <2>7, <2>8 DEF OutEffect
<1>3. CASE k = Wanted(at) /\ at # "body" /\ Command(NextCmd[at]) /\ reps' = Tail(reps)
  <2>1. /\ NextCmd[at] \in Talking
        /\ NextCmd[at] = "body" <=> at = "data"
    BY <1>1, <1>3 DEF NextCmd, Talking
  <2>2. at = "data" => Head(reps) = 3
    BY <1>3 DEF Wanted
  <2> QED BY <1>1, <1>3, <2>1, <2>2, CommandEffect
<1>4. CASE at = "ehlo" /\ Command("helo") /\ reps' = Tail(reps)
  BY <1>1, <1>4, CommandEffect DEF Talking
<1>5. CASE AttemptFails(k = 4 /\ at # "helo")
  BY <1>1, <1>5, AttemptFailsEffect
<1> QED BY <1>2, <1>3, <1>4, <1>5 DEF ReadReply

\* The server answers.
LEMMA AnswerEffect ==
    ASSUME OutType, InStep, Answer
    PROVE  OutType' /\ InStep' /\ OutEffect
<1>1. /\ cmds # <<>> /\ cmds' = Tail(cmds) /\ UNCHANGED <<env, leg, unsure>>
      /\ cmds \in Seq(Talking) /\ reps \in Seq({2, 3, 4, 5})
  BY DEF Answer, OutType
<1>2. at \in Talking /\ at # "idle"
  BY <1>1 DEF InStep, Talking
<1>3. PICK k \in {Wanted(Head(cmds)), 4, 5} :
        /\ reps' = Append(reps, k)
        /\ IF Head(cmds) = "body" /\ k = 2 THEN mine' = TRUE /\ taken' = Count(taken, 1)
           ELSE UNCHANGED <<mine, taken>>
  BY DEF Answer
<1>4. k \in {2, 3, 4, 5} /\ (k = 3 => Head(cmds) = "data")
  <2>1. Wanted(Head(cmds)) \in {2, 3} /\ (Wanted(Head(cmds)) = 3 <=> Head(cmds) = "data")
    BY DEF Wanted
  <2>2. CASE k = Wanted(Head(cmds))
    BY <2>1, <2>2
  <2>3. CASE k \in {4, 5}
    BY <2>3
  <2> QED BY <1>3, <2>2, <2>3
<1>5. /\ Head(cmds) = cmds[1] /\ Len(cmds) \in Nat /\ Len(cmds) > 0
      /\ cmds' \in Seq(Talking) /\ Len(cmds') = Len(cmds) - 1
      /\ \A i \in 1..Len(cmds') : cmds'[i] = cmds[i + 1] /\ i + 1 \in 1..Len(cmds)
      /\ Len(cmds) = 1 => cmds' = <<>>
  BY <1>1, TailFacts
<1>6. /\ reps' \in Seq({2, 3, 4, 5}) /\ Len(reps') = Len(reps) + 1 /\ reps'[Len(reps) + 1] = k
      /\ \A i \in 1..Len(reps) : reps'[i] = reps[i]
      /\ Len(reps) \in Nat
  BY <1>1, <1>3, <1>4, AppendFacts
<1>7. /\ job \in Jobs /\ taken \in [Jobs -> Nat] /\ taken[job] \in Nat /\ unsure[job] \in Nat
      /\ UNCHANGED <<at, job, second, mx, result>>
  BY <1>1, <1>2 DEF OutType, leg
<1>8. CASE Head(cmds) = "body"
  <2>1. at = "body" /\ cmds = <<"body">> /\ reps = <<>> /\ mine = FALSE
    <3>1. at = "body"
      BY <1>5, <1>8 DEF InStep
    <3> QED BY <1>1, <3>1 DEF InStep, OutType
  <2>2. cmds' = <<>> /\ Len(reps') = 1 /\ reps'[1] = k
    <3>1. Len(cmds) = 1 /\ Len(reps) = 0
      BY <2>1
    <3> QED BY <1>5, <1>6, <3>1
  <2>3. CASE k = 2
    <3>1. mine' = TRUE /\ taken' = Count(taken, 1)
      BY <1>3, <1>8, <2>3
    <3>2. /\ Count(taken, 1) \in [Jobs -> Nat] /\ Count(taken, 1)[job] = taken[job] + 1
          /\ \A j \in Jobs \ {job} : Count(taken, 1)[j] = taken[j]
      BY <1>7, CountFacts
    <3>3. /\ taken' \in [Jobs -> Nat] /\ taken'[job] = taken[job] + 1 /\ taken'[job] > 0
          /\ \A j \in Jobs \ {job} : taken'[j] = taken[j]
      BY <1>7, <3>1, <3>2
    <3>4. InStep'
      BY <1>7, <2>1, <2>2, <2>3, <3>1, <3>3 DEF InStep, Talking
    <3>5. OutType'
      BY <1>1, <1>5, <1>6, <1>7, <3>1, <3>3 DEF OutType
    <3>6. Open = 0 /\ Open' = 1
      BY <1>2, <2>1, <3>1 DEF Open
    <3>7. taken'[job] + unsure[job] + Open <= taken[job] + unsure'[job] + Open'
      BY <1>1, <1>7, <3>3, <3>6
    <3>8. \A j \in Jobs : taken[j] <= taken'[j]
      BY <1>7, <3>3
    <3> QED BY <1>1, <1>2, <1>7, <3>3, <3>4, <3>5, <3>7, <3>8 DEF OutEffect
  <2>4. CASE k # 2
    <3>1. UNCHANGED <<mine, taken>>
      BY <1>3, <2>4
    <3>2. OutType' /\ OutEffect
      BY <1>1, <1>2, <1>5, <1>6, <1>7, <3>1, TalkEffect
    <3>3. InStep'
      BY <1>7, <2>1, <2>2, <2>4, <3>1 DEF InStep, Talking
    <3> QED BY <3>2, <3>3
  <2> QED BY <2>3, <2>4
<1>9. CASE Head(cmds) # "body"
  <2>1. UNCHANGED <<mine, taken>>
    BY <1>3, <1>9
  <2>2. OutType' /\ OutEffect
    BY <1>1, <1>2, <1>5, <1>6, <1>7, <2>1, TalkEffect
  <2>3. at # "body"
    <3>1. ASSUME at = "body" PROVE cmds = <<"body">>
      BY <1>1, <3>1 DEF InStep
    <3> QED BY <1>9, <3>1
  <2>4. \A i \in 1..Len(reps') : i \in 1..Len(reps) \/ i = Len(reps')
    BY <1>6
  <2>5. \A i \in 1..Len(cmds') : cmds'[i] # "body"
    BY <1>5, <2>3 DEF InStep
  <2>6. CASE at # "data"
    <3>1. /\ \A i \in 1..Len(cmds) : cmds[i] # "data"
          /\ \A i \in 1..Len(reps) : reps[i] # 3
      BY <2>3, <2>6 DEF InStep
    <3>2. k # 3
      BY <1>4, <1>5, <3>1
    <3>3. \A i \in 1..Len(reps') : reps'[i] # 3
      BY <1>6, <2>4, <3>1, <3>2
    <3>4. \A i \in 1..Len(cmds') : cmds'[i] # "data"
      BY <1>5, <3>1
    <3> QED BY <1>2, <1>7, <2>1, <2>2, <2>3, <2>5, <2>6, <3>3, <3>4 DEF InStep
  <2>7. CASE at = "data"
    <3>1. /\ \A i \in 1..Len(cmds) : cmds[i] = "data" => i = Len(cmds)
          /\ \A i \in 1..Len(reps) : reps[i] # 3
      BY <1>1, <2>7 DEF InStep
    <3>2. \A i \in 1..Len(cmds') : cmds'[i] = "data" => i = Len(cmds')
      BY <1>5, <3>1
    <3>3. k = 3 => cmds' = <<>>
      <4>1. k = 3 => cmds[1] = "data" /\ 1 \in 1..Len(cmds)
        BY <1>4, <1>5
      <4> QED BY <1>5, <3>1, <4>1
    <3>4. \A i \in 1..Len(reps') : reps'[i] = 3 => i = Len(reps') /\ cmds' = <<>>
      BY <1>6, <2>4, <3>1, <3>3
    <3> QED BY <1>2, <1>7, <2>1, <2>2, <2>5, <2>7, <3>2, <3>4 DEF InStep
  <2> QED BY <2>6, <2>7
<1> QED BY <1>8, <1>9

\* All steps of a job.
LEMMA OutStepEffect ==
    ASSUME OutType, InStep, OutStep
    PROVE  OutType' /\ InStep' /\ OutEffect
  BY LookupMxEffect, ConnectEffect, NoReplyEffect, ReadReplyEffect, RelayEffect, SubmitEffect,
     AnswerEffect DEF OutStep

-----------------------------------------------------------------------------
(* The connection. *)

SmtpInv == SmtpTypeOK /\ InStep /\ ViewInv /\ JobInv /\ ServedInv /\ CopiesInv /\ Delivered250

\* How often r is among the first n of q.
Hits(q, n, r) == Cardinality({i \in 1..n : q[i] = r})

\* Places in a list of recipients.
LEMMA HitsFacts ==
    ASSUME NEW q, NEW r, NEW n \in Nat
    PROVE  /\ Hits(q, n, r) \in Nat /\ Hits(q, 0, r) = 0
           /\ Hits(q, n + 1, r) = Hits(q, n, r) + (IF q[n + 1] = r THEN 1 ELSE 0)
<1> DEFINE H(k) == {i \in 1..k : q[i] = r}
<1>1. IsFiniteSet(1..n)
  BY FS_Interval
<1>2. H(n) \in SUBSET (1..n)
  OBVIOUS
<1>3. IsFiniteSet(H(n)) /\ Cardinality(H(n)) \in Nat
  BY <1>1, <1>2, FS_Subset, FS_CardinalityType
<1>4. H(0) = {}
  OBVIOUS
<1>5. Hits(q, 0, r) = 0
  BY <1>4, FS_EmptySet DEF Hits
<1>6. CASE q[n + 1] = r
  <2>1. H(n + 1) = H(n) \cup {n + 1} /\ n + 1 \notin H(n)
    BY <1>6
  <2>2. Cardinality(H(n) \cup {n + 1}) = Cardinality(H(n)) + 1
    BY <1>3, <2>1, FS_AddElement
  <2> QED BY <1>3, <1>5, <1>6, <2>1, <2>2 DEF Hits
<1>7. CASE q[n + 1] # r
  <2>1. H(n + 1) = H(n)
    BY <1>7
  <2> QED BY <1>3, <1>5, <1>7, <2>1 DEF Hits
<1> QED BY <1>6, <1>7

\* The numbers in the invariant about copies.
LEMMA CopyTypes ==
    ASSUME SmtpTypeOK, NEW m \in Msgs, NEW r \in Rcpts
    PROVE  /\ Got(m, r) \in Nat /\ Doubtful(m, r) \in Nat
           /\ Served(m) \in Nat /\ ServedTimes(m, r) \in Nat
           /\ ServedTimes(m, r) = Hits(meant[m], Served(m), r)
<1>1. Got(m, r) \in Nat /\ Doubtful(m, r) \in Nat
  <2>1. CASE r \in Local
    <3>1. <<m, r>> \in Msgs \X Local
      BY <2>1
    <3> QED BY <2>1, <3>1 DEF Got, Doubtful, SmtpTypeOK
  <2>2. CASE r \notin Local
    <3>1. <<m, r>> \in Jobs
      BY <2>2, SmtpAssumption DEF Rcpts
    <3> QED BY <2>2, <3>1 DEF Got, Doubtful, SmtpTypeOK, OutType
  <2> QED BY <2>1, <2>2
<1>3. Served(m) \in Nat
  <2>1. meant[m] \in Seq(Rcpts) /\ Len(meant[m]) \in Nat
    BY DEF SmtpTypeOK
  <2>2. mode = "deliver" => next - 1 \in Nat
    <3>1. rcpts \in Seq(Rcpts) /\ Len(rcpts) \in Nat
      BY DEF SmtpTypeOK
    <3> QED BY <3>1 DEF SmtpTypeOK
  <2> QED BY <2>1, <2>2 DEF Served
<1>4. ServedTimes(m, r) = Hits(meant[m], Served(m), r)
  BY DEF ServedTimes, Hits
<1>5. ServedTimes(m, r) \in Nat
  BY <1>3, <1>4, HitsFacts
<1> QED BY <1>1, <1>3, <1>4, <1>5

\* The invariant at the start.
LEMMA SmtpInitInv == SmtpInit => SmtpInv
<1> SUFFICES ASSUME SmtpInit PROVE SmtpInv
  OBVIOUS
<1> USE DEF SmtpInit, OutInit
<1>1. OutType
  <2>1. cmds \in Seq(Talking) /\ reps \in Seq({2, 3, 4, 5})
    OBVIOUS
  <2> QED BY <2>1 DEF OutType
<1>2. SmtpTypeOK
  <2>1. box \in [Msgs \X Local -> Nat] /\ meant \in [Msgs -> Seq(Rcpts)]
    OBVIOUS
  <2>2. rcpts \in Seq(Rcpts) /\ asked \in Seq(Rcpts) /\ Len(rcpts) = 0
    OBVIOUS
  <2> QED BY <1>1, <2>1, <2>2 DEF SmtpTypeOK
<1>3. InStep
  <2>1. Len(cmds) = 0 /\ Len(reps) = 0
    OBVIOUS
  <2> QED BY <2>1 DEF InStep, Talking
<1>4. ViewInv
  <2>1. \A m \in Msgs : told[m] \in {"250", "550"} => FALSE
    BY AnswerAssumption
  <2> QED BY <2>1 DEF ViewInv
<1>5. JobInv /\ ServedInv
  BY DEF JobInv, ServedInv
<1>6. CopiesInv
  <2>1. SUFFICES ASSUME NEW m \in Msgs, NEW r \in Rcpts
                 PROVE  Got(m, r) <= ServedTimes(m, r) + Doubtful(m, r) + (IF Pending(m, r) THEN 1 ELSE 0)
    BY DEF CopiesInv
  <2>2. Got(m, r) = 0
    <3>1. CASE r \in Local
      BY <3>1 DEF Got
    <3>2. CASE r \notin Local
      BY <3>2, SmtpAssumption DEF Got, Rcpts
    <3> QED BY <3>1, <3>2
  <2>3. ServedTimes(m, r) \in Nat /\ Doubtful(m, r) \in Nat
    BY <1>2, CopyTypes
  <2> QED BY <2>2, <2>3
<1>7. Delivered250
  BY AnswerAssumption DEF Delivered250
<1> QED BY <1>2, <1>3, <1>4, <1>5, <1>6, <1>7 DEF SmtpInv

\* Outside a delivery nothing is under way.
LEMMA Resting ==
    ASSUME SmtpInv, mode # "deliver"
    PROVE  ~waiting /\ at = "idle"
  BY DEF SmtpInv, JobInv, Serving

\* The bound on copies is kept when everything it is about is.
LEMMA CopiesKept ==
    ASSUME SmtpInv, UNCHANGED <<box, blurred, taken, unsure, meant>>,
           \A m \in Msgs : Served(m)' = Served(m),
           \A m \in Msgs, r \in Rcpts : Pending(m, r)' <=> Pending(m, r)
    PROVE  CopiesInv'
<1>1. \A m, r : Got(m, r)' = Got(m, r) /\ Doubtful(m, r)' = Doubtful(m, r)
  BY DEF Got, Doubtful
<1>2. \A m \in Msgs, r \in Rcpts : ServedTimes(m, r)' = ServedTimes(m, r)
  BY DEF ServedTimes
<1> QED BY <1>1, <1>2 DEF SmtpInv, CopiesInv, Rcpts

\* A step of the dialogue with the client.
LEMMA DialogueInv ==
    ASSUME SmtpInv, mode # "deliver", mode' # "deliver", SmtpTypeOK', ViewInv',
           UNCHANGED <<outvars, waiting, mail, meant, told>>
    PROVE  SmtpInv'
<1>1. ~waiting /\ at = "idle" /\ ~waiting' /\ at' = "idle"
  BY Resting DEF outvars, leg
<1>2. UNCHANGED <<box, blurred, taken, unsure, cmds, reps, mine, at, job>>
  BY DEF mail, outvars, conn, leg
<1>3. InStep'
  BY <1>2 DEF SmtpInv, InStep
<1>4. JobInv' /\ ServedInv'
  BY <1>1 DEF JobInv, ServedInv
<1>5. CopiesInv'
  <2>1. \A m \in Msgs : Served(m)' = Served(m)
    BY DEF Served
  <2>2. \A m \in Msgs, r \in Rcpts : Pending(m, r)' <=> Pending(m, r)
    BY <1>1 DEF Pending
  <2> QED BY <1>2, <2>1, <2>2, CopiesKept
<1>6. Delivered250'
  BY <1>2 DEF SmtpInv, Delivered250, Got
<1> QED BY <1>3, <1>4, <1>5, <1>6 DEF SmtpInv

\* HELO and EHLO.
LEMMA HeloInv == ASSUME SmtpInv, Helo PROVE SmtpInv'
<1>1. UNCHANGED <<outvars, from, rcpts, mode, msg, next, allok, waiting, peer, mail, view>> /\ greeted' = TRUE
      /\ mode = "command"
  BY DEF Helo
<1>2. SmtpTypeOK'
  BY <1>1 DEF SmtpInv, SmtpTypeOK, OutType, outvars, leg, conn, mail, view
<1>3. ViewInv'
  BY <1>1 DEF SmtpInv, ViewInv, view
<1> QED BY <1>1, <1>2, <1>3, DialogueInv DEF view

\* MAIL FROM and RSET.
LEMMA MailFromInv == ASSUME SmtpInv, NEW f \in BOOLEAN, MailFrom(f) PROVE SmtpInv'
<1>1. /\ UNCHANGED <<outvars, greeted, mode, msg, next, allok, waiting, peer, mail, meant, told>>
      /\ from' = f /\ rcpts' = <<>> /\ asked' = <<>> /\ mode = "command"
  BY DEF MailFrom, ResetMessage
<1>2. SmtpTypeOK'
  <2>1. rcpts' \in Seq(Rcpts) /\ asked' \in Seq(Rcpts)
    BY <1>1
  <2> QED BY <1>1, <2>1 DEF SmtpInv, SmtpTypeOK, OutType, outvars, leg, conn, mail
<1>3. ViewInv'
  BY <1>1 DEF SmtpInv, ViewInv
<1> QED BY <1>1, <1>2, <1>3, DialogueInv

\* RCPT TO.
LEMMA RcptToInv == ASSUME SmtpInv, NEW r \in Rcpts, RcptTo(r) PROVE SmtpInv'
<1>1. /\ UNCHANGED <<outvars, greeted, from, mode, msg, next, allok, waiting, peer, mail, meant, told>>
      /\ rcpts' = Append(rcpts, r) /\ asked' = Append(asked, r) /\ mode = "command"
  BY DEF RcptTo
<1>2. SmtpTypeOK'
  <2>1. rcpts' \in Seq(Rcpts) /\ asked' \in Seq(Rcpts)
    BY <1>1, AppendFacts DEF SmtpInv, SmtpTypeOK
  <2> QED BY <1>1, <2>1 DEF SmtpInv, SmtpTypeOK, OutType, outvars, leg, conn, mail
<1>3. ViewInv'
  BY <1>1 DEF SmtpInv, ViewInv
<1> QED BY <1>1, <1>2, <1>3, DialogueInv

\* DATA.
LEMMA DataInv == ASSUME SmtpInv, NEW m \in Msgs, Data(m) PROVE SmtpInv'
<1>1. /\ UNCHANGED <<outvars, greeted, from, rcpts, next, allok, waiting, peer, mail, view>>
      /\ mode = "command" /\ mode' = "data" /\ msg' = m /\ meant[m] = <<>> /\ rcpts # <<>>
  BY DEF Data
<1>2. SmtpTypeOK'
  BY <1>1 DEF SmtpInv, SmtpTypeOK, OutType, outvars, leg, conn, mail, view
<1>3. ViewInv'
  BY <1>1 DEF SmtpInv, ViewInv, view
<1> QED BY <1>1, <1>2, <1>3, DialogueInv DEF view

\* QUIT, and the end of the connection.
LEMMA CloseInv == ASSUME SmtpInv, Close PROVE SmtpInv'
<1>1. /\ UNCHANGED <<outvars, greeted, from, rcpts, next, allok, waiting, peer, mail, view>>
      /\ mode \in {"command", "data"} /\ mode' = "closed" /\ msg' = None
  BY DEF Close
<1>2. SmtpTypeOK'
  BY <1>1 DEF SmtpInv, SmtpTypeOK, OutType, outvars, leg, conn, mail, view
<1>3. ViewInv'
  BY <1>1 DEF SmtpInv, ViewInv, view
<1> QED BY <1>1, <1>2, <1>3, DialogueInv DEF view

\* The client goes away, or nothing happens.
LEMMA PeerInv ==
    ASSUME SmtpInv, UNCHANGED <<outvars, greeted, from, rcpts, mode, msg, next, allok, waiting, mail, view>>,
           peer' \in BOOLEAN
    PROVE  SmtpInv'
<1>1. UNCHANGED <<env, job, at, second, mx, result, cmds, reps, mine, taken, unsure, box, blurred,
                  asked, meant, told>>
  BY DEF outvars, leg, conn, mail, view
<1>2. SmtpTypeOK'
  BY <1>1 DEF SmtpInv, SmtpTypeOK, OutType
<1>3. InStep' /\ ViewInv'
  BY <1>1 DEF SmtpInv, InStep, ViewInv
<1>4. JobInv' /\ ServedInv'
  BY <1>1 DEF SmtpInv, JobInv, ServedInv, Serving, Got
<1>5. CopiesInv'
  BY <1>1, CopiesKept DEF Served, Pending
<1>6. Delivered250'
  BY <1>1 DEF SmtpInv, Delivered250, Got
<1> QED BY <1>2, <1>3, <1>4, <1>5, <1>6 DEF SmtpInv

-----------------------------------------------------------------------------
(* The delivery. *)

\* The recipients are known, and one after the other is served.
LEMMA EndDataInv == ASSUME SmtpInv, EndData PROVE SmtpInv'
<1>1. /\ UNCHANGED <<outvars, greeted, from, rcpts, msg, waiting, peer, mail, told>>
      /\ mode = "data" /\ mode' = "deliver" /\ next' = 1 /\ allok' = TRUE
      /\ meant' = [meant EXCEPT ![msg] = asked] /\ asked' = <<>>
  BY DEF EndData
<1>2. UNCHANGED <<env, job, at, second, mx, result, cmds, reps, mine, taken, unsure, box, blurred>>
  BY <1>1 DEF outvars, leg, conn, mail
<1>3. /\ msg \in Msgs /\ asked = rcpts /\ rcpts # <<>> /\ meant[msg] = <<>> /\ rcpts \in Seq(Rcpts)
      /\ Len(rcpts) \in Nat
  BY <1>1 DEF SmtpInv, SmtpTypeOK, ViewInv
<1>4. /\ meant' \in [Msgs -> Seq(Rcpts)] /\ meant'[msg] = rcpts
      /\ \A m \in Msgs \ {msg} : meant'[m] = meant[m]
  BY <1>1, <1>3 DEF SmtpInv, SmtpTypeOK
<1>5. ~waiting /\ at = "idle"
  BY <1>1, Resting
<1>6. SmtpTypeOK'
  <2>1. asked' \in Seq(Rcpts) /\ next' \in 1..(Len(rcpts) + 1)
    BY <1>1, <1>3
  <2> QED BY <1>1, <1>2, <1>3, <1>4, <2>1 DEF SmtpInv, SmtpTypeOK, OutType
<1>7. InStep'
  BY <1>2 DEF SmtpInv, InStep
<1>8. told[msg] \notin {"250", "550"}
  BY <1>3 DEF SmtpInv, ViewInv
<1>9. ViewInv'
  BY <1>1, <1>3, <1>4, <1>8 DEF SmtpInv, ViewInv
<1>10. JobInv' /\ ServedInv'
  BY <1>1, <1>2, <1>5 DEF JobInv, ServedInv
<1>11. CopiesInv'
  <2>1. SUFFICES ASSUME NEW m \in Msgs, NEW r \in Rcpts
                 PROVE  (Got(m, r) <= ServedTimes(m, r) + Doubtful(m, r) + (IF Pending(m, r) THEN 1 ELSE 0))'
    BY DEF CopiesInv, Rcpts
  <2>2. Got(m, r)' = Got(m, r) /\ Doubtful(m, r)' = Doubtful(m, r) /\ ~Pending(m, r) /\ ~Pending(m, r)'
    BY <1>1, <1>2, <1>5 DEF Got, Doubtful, Pending
  <2>3. ServedTimes(m, r)' = ServedTimes(m, r)
    <3>1. CASE m = msg
      <4>1. Served(m) = 0 /\ Served(m)' = 0
        BY <1>1, <1>3, <3>1 DEF Served
      <4>2. {i \in 1..0 : meant[m][i] = r} = {} /\ {i \in 1..0 : meant'[m][i] = r} = {}
        OBVIOUS
      <4> QED BY <4>1, <4>2 DEF ServedTimes
    <3>2. CASE m # msg
      <4>1. Served(m)' = Served(m) /\ meant'[m] = meant[m]
        BY <1>1, <1>4, <3>2 DEF Served
      <4> QED BY <4>1 DEF ServedTimes
    <3> QED BY <3>1, <3>2
  <2>4. Got(m, r) <= ServedTimes(m, r) + Doubtful(m, r) + 0
    BY <2>2 DEF SmtpInv, CopiesInv, Rcpts
  <2> QED BY <2>2, <2>3, <2>4
<1>12. Delivered250'
  BY <1>1, <1>2, <1>4, <1>8 DEF SmtpInv, Delivered250, Got
<1> QED BY <1>6, <1>7, <1>9, <1>10, <1>11, <1>12 DEF SmtpInv

\* The recipient served next.
LEMMA ServingFacts ==
    ASSUME SmtpInv, Serving
    PROVE  /\ mode = "deliver" /\ msg \in Msgs /\ next \in Nat /\ next > 0 /\ next \in 1..Len(rcpts)
           /\ rcpts \in Seq(Rcpts) /\ Len(rcpts) \in Nat /\ rcpts[next] \in Rcpts
           /\ meant[msg] = rcpts /\ next - 1 \in Nat
           /\ Served(msg) = next - 1 /\ (next - 1) + 1 = next
<1>1. mode = "deliver" /\ next <= Len(rcpts)
  BY DEF Serving
<1>2. msg \in Msgs /\ next \in 1..(Len(rcpts) + 1) /\ rcpts \in Seq(Rcpts) /\ meant[msg] = rcpts
  BY <1>1 DEF SmtpInv, SmtpTypeOK, ViewInv
<1>3. Len(rcpts) \in Nat
  BY <1>2
<1>4. next \in 1..Len(rcpts) /\ next > 0 /\ next - 1 \in Nat /\ (next - 1) + 1 = next /\ next \in Nat
  BY <1>1, <1>2, <1>3
<1> QED BY <1>1, <1>2, <1>3, <1>4 DEF Served

\* The recipient is done with: one hit more for it, none for the others.
LEMMA RecordHits ==
    ASSUME SmtpInv, Serving, next' = next + 1, UNCHANGED <<mode, msg, meant>>,
           NEW m \in Msgs, NEW r \in Rcpts
    PROVE  ServedTimes(m, r)' =
             ServedTimes(m, r) + (IF m = msg /\ r = rcpts[next] THEN 1 ELSE 0)
<1>1. ServedTimes(m, r) \in Nat
  BY CopyTypes DEF SmtpInv
<1>2. CASE m = msg
  <2>1. Served(m) = next - 1 /\ Served(m)' = next /\ meant[m] = rcpts /\ meant'[m] = rcpts
    BY <1>2, ServingFacts DEF Served
  <2>2. Hits(rcpts, (next - 1) + 1, r) =
          Hits(rcpts, next - 1, r) + (IF rcpts[(next - 1) + 1] = r THEN 1 ELSE 0)
    BY ServingFacts, HitsFacts
  <2>3. Hits(rcpts, next, r) = Hits(rcpts, next - 1, r) + (IF rcpts[next] = r THEN 1 ELSE 0)
    BY <2>2, ServingFacts
  <2>4. ServedTimes(m, r) = Hits(rcpts, next - 1, r) /\ ServedTimes(m, r)' = Hits(rcpts, next, r)
    BY <2>1 DEF ServedTimes, Hits
  <2> QED BY <1>2, <2>3, <2>4
<1>3. CASE m # msg
  <2>1. Served(m)' = Served(m) /\ meant'[m] = meant[m]
    BY <1>3 DEF Served
  <2>2. ServedTimes(m, r)' = ServedTimes(m, r)
    BY <2>1 DEF ServedTimes
  <2> QED BY <1>1, <1>3, <2>2
<1> QED BY <1>2, <1>3

\* A local mailbox.
LEMMA DeliverLocalInv == ASSUME SmtpInv, DeliverLocal PROVE SmtpInv'
<1>1. /\ Serving /\ rcpts[next] \in Local /\ next' = next + 1
      /\ UNCHANGED <<outvars, greeted, from, rcpts, mode, msg, waiting, peer, view>>
  BY DEF DeliverLocal, Record
<1>2. UNCHANGED <<env, job, at, second, mx, result, cmds, reps, mine, taken, unsure, asked, meant, told>>
  BY <1>1 DEF outvars, leg, conn, view
<1> DEFINE r == rcpts[next]
           x == <<msg, r>>
<1>3. x \in Msgs \X Local /\ x \notin Jobs /\ r \notin Remote
  BY <1>1, ServingFacts, SmtpAssumption
<1>4. ~waiting /\ at = "idle"
  BY <1>1, <1>3 DEF SmtpInv, JobInv
<1>5. \E n, k \in {0, 1} :
        /\ box' = [box EXCEPT ![x] = @ + n] /\ blurred' = [blurred EXCEPT ![x] = @ + k] /\ n <= k + 1
        /\ allok' = (allok /\ n = 1 /\ k = 0)
  <2>0. box = [box EXCEPT ![x] = @ + 0] /\ blurred = [blurred EXCEPT ![x] = @ + 0]
    BY <1>3 DEF SmtpInv, SmtpTypeOK
  <2>1. CASE Record(TRUE) /\ box' = [box EXCEPT ![x] = @ + 1] /\ UNCHANGED blurred
    BY <2>0, <2>1 DEF Record
  <2>2. CASE Record(FALSE) /\ UNCHANGED mail
    BY <2>0, <2>2 DEF Record, mail
  <2>3. CASE /\ Record(FALSE) /\ box' = [box EXCEPT ![x] = @ + 1]
             /\ blurred' = [blurred EXCEPT ![x] = @ + 1]
    BY <2>3 DEF Record
  <2> QED BY <2>1, <2>2, <2>3 DEF DeliverLocal
<1>6. PICK n, k \in {0, 1} :
        /\ box' = [box EXCEPT ![x] = @ + n] /\ blurred' = [blurred EXCEPT ![x] = @ + k] /\ n <= k + 1
        /\ allok' = (allok /\ n = 1 /\ k = 0)
  BY <1>5
<1>7. /\ box' \in [Msgs \X Local -> Nat] /\ box'[x] = box[x] + n
      /\ \A y \in Msgs \X Local : y # x => box'[y] = box[y]
  BY <1>3, <1>6 DEF SmtpInv, SmtpTypeOK
<1>8. /\ blurred' \in [Msgs \X Local -> Nat] /\ blurred'[x] = blurred[x] + k
      /\ \A y \in Msgs \X Local : y # x => blurred'[y] = blurred[y]
  BY <1>3, <1>6 DEF SmtpInv, SmtpTypeOK
<1>9. SmtpTypeOK'
  <2>1. next' \in 1..(Len(rcpts) + 1) /\ next' \in Nat
    BY <1>1, ServingFacts
  <2>2. allok' \in BOOLEAN
    BY <1>6 DEF SmtpInv, SmtpTypeOK
  <2> QED BY <1>1, <1>2, <1>7, <1>8, <2>1, <2>2 DEF SmtpInv, SmtpTypeOK, OutType
<1>10. InStep' /\ ViewInv'
  BY <1>1, <1>2 DEF SmtpInv, InStep, ViewInv
<1>11. ASSUME NEW m \in Msgs, NEW q \in Rcpts
       PROVE  /\ Got(m, q)' = Got(m, q) + (IF m = msg /\ q = r THEN n ELSE 0)
              /\ Doubtful(m, q)' = Doubtful(m, q) + (IF m = msg /\ q = r THEN k ELSE 0)
  <2>1. Got(m, q) \in Nat /\ Doubtful(m, q) \in Nat
    BY CopyTypes DEF SmtpInv
  <2>2. CASE m = msg /\ q = r
    BY <1>1, <1>7, <1>8, <2>2 DEF Got, Doubtful
  <2>3. CASE ~(m = msg /\ q = r)
    <3>1. <<m, q>> # x
      BY <2>3
    <3>2. CASE q \in Local
      BY <1>7, <1>8, <2>1, <2>3, <3>1, <3>2 DEF Got, Doubtful
    <3>3. CASE q \notin Local
      BY <1>2, <2>1, <2>3, <3>3 DEF Got, Doubtful
    <3> QED BY <3>2, <3>3
  <2> QED BY <2>2, <2>3
<1>12. \A m \in Msgs, q \in Rcpts : Got(m, q)' >= Got(m, q) /\ Got(m, q) \in Nat /\ Got(m, q)' \in Nat
  <2>1. \A m \in Msgs, q \in Rcpts : Got(m, q) \in Nat
    BY CopyTypes DEF SmtpInv
  <2>2. n \in Nat
    BY <1>6
  <2> QED BY <1>11, <2>1, <2>2
<1>13. JobInv' /\ ServedInv'
  <2>1. JobInv'
    BY <1>1, <1>2, <1>4 DEF JobInv
  <2>0. next' - 1 = next /\ next \in Nat
    BY <1>1, ServingFacts
  <2>2. ASSUME allok', NEW i \in 1..next, NEW m \in Msgs, NEW q \in Rcpts, m = msg, q = rcpts[i]
        PROVE  Got(m, q)' > 0
    <3>0. n = 1 /\ allok
      BY <1>6, <2>2
    <3>1. CASE i = next
      <4>1. Got(m, q)' = Got(m, q) + 1 /\ Got(m, q) \in Nat
        BY <1>11, <1>12, <2>2, <3>0, <3>1
      <4> QED BY <4>1
    <3>2. CASE i # next
      <4>1. i \in 1..(next - 1)
        BY <2>0, <3>2
      <4>2. Got(m, q) > 0
        BY <1>1, <2>2, <3>0, <4>1, ServingFacts DEF SmtpInv, ServedInv
      <4> QED BY <1>12, <4>2
    <3> QED BY <3>1, <3>2
  <2>3. msg \in Msgs /\ \A i \in 1..next : rcpts[i] \in Rcpts
    BY <1>1, ServingFacts
  <2>4. allok' => \A i \in 1..next : Got(msg, rcpts[i])' > 0
    BY <1>1, <2>2, <2>3 DEF Got
  <2> QED BY <1>1, <1>4, <2>0, <2>1, <2>4 DEF ServedInv
<1>14. CopiesInv'
  <2>1. SUFFICES ASSUME NEW m \in Msgs, NEW q \in Rcpts
                 PROVE  (Got(m, q) <= ServedTimes(m, q) + Doubtful(m, q) + (IF Pending(m, q) THEN 1 ELSE 0))'
    BY DEF CopiesInv, Rcpts
  <2>2. ~Pending(m, q) /\ ~Pending(m, q)'
    BY <1>1, <1>4 DEF Pending
  <2>3. Got(m, q) <= ServedTimes(m, q) + Doubtful(m, q) + 0
    BY <2>2 DEF SmtpInv, CopiesInv, Rcpts
  <2>4. ServedTimes(m, q)' = ServedTimes(m, q) + (IF m = msg /\ q = r THEN 1 ELSE 0)
    BY <1>1, <1>2, RecordHits
  <2>5. Got(m, q) \in Nat /\ Doubtful(m, q) \in Nat /\ ServedTimes(m, q) \in Nat
    BY CopyTypes DEF SmtpInv
  <2>6. CASE m = msg /\ q = r
    <3>1. /\ Got(m, q)' = Got(m, q) + n /\ Doubtful(m, q)' = Doubtful(m, q) + k
          /\ ServedTimes(m, q)' = ServedTimes(m, q) + 1
      BY <1>11, <2>4, <2>6
    <3>2. n \in Nat /\ k \in Nat /\ n <= k + 1
      BY <1>6
    <3> QED BY <2>2, <2>3, <2>5, <3>1, <3>2
  <2>7. CASE ~(m = msg /\ q = r)
    <3>1. /\ Got(m, q)' = Got(m, q) /\ Doubtful(m, q)' = Doubtful(m, q)
          /\ ServedTimes(m, q)' = ServedTimes(m, q)
      BY <1>11, <2>4, <2>5, <2>7
    <3> QED BY <2>2, <2>3, <2>5, <3>1
  <2> QED BY <2>6, <2>7
<1>15. Delivered250'
  <2>1. SUFFICES ASSUME NEW m \in Msgs, told[m] = "250", NEW i \in 1..Len(meant[m]),
                        NEW q, q = meant[m][i]
                 PROVE  Got(m, q)' > 0
    BY <1>2 DEF Delivered250, Got
  <2>2. q \in Rcpts /\ Got(m, q) > 0
    BY <2>1 DEF SmtpInv, Delivered250, SmtpTypeOK
  <2> QED BY <1>12, <2>2
<1> QED BY <1>9, <1>10, <1>13, <1>14, <1>15 DEF SmtpInv

\* What was delivered stays delivered while counts only go up.
LEMMA DeliveredKept ==
    ASSUME SmtpInv, UNCHANGED <<told, meant>>,
           \A m \in Msgs, q \in Rcpts : Got(m, q)' >= Got(m, q) /\ Got(m, q)' \in Nat
    PROVE  Delivered250'
<1>1. SUFFICES ASSUME NEW m \in Msgs, told[m] = "250", NEW i \in 1..Len(meant[m]),
                      NEW q, q = meant[m][i]
               PROVE  Got(m, q)' > 0
  BY DEF Delivered250, Got
<1>2. q \in Rcpts /\ Got(m, q) > 0 /\ Got(m, q) \in Nat
  <2>1. q \in Rcpts
    BY <1>1 DEF SmtpInv, SmtpTypeOK
  <2> QED BY <1>1, <2>1, CopyTypes DEF SmtpInv, Delivered250
<1> QED BY <1>2

\* A job is started.
LEMMA SendOutInv == ASSUME SmtpInv, SendOut PROVE SmtpInv'
<1>1. /\ Serving /\ rcpts[next] \in Remote /\ ~waiting /\ waiting' = TRUE
      /\ at = "idle" /\ job' = <<msg, rcpts[next]>> /\ at' \in {"lookup", "relay"}
      /\ second' = FALSE /\ result' = "none"
      /\ UNCHANGED <<env, mx, conn, taken, unsure>>
      /\ UNCHANGED <<greeted, from, rcpts, mode, msg, next, allok, peer, mail, view>>
  BY DEF SendOut, StartSend, FirstLeg
<1>2. UNCHANGED <<cmds, reps, mine, box, blurred, asked, meant, told>>
  BY <1>1 DEF conn, mail, view
<1>3. msg \in Msgs /\ <<msg, rcpts[next]>> \in Jobs
  BY <1>1, ServingFacts, SmtpAssumption
<1>4. SmtpTypeOK'
  <2>1. OutType'
    BY <1>1, <1>2, <1>3 DEF SmtpInv, SmtpTypeOK, OutType
  <2> QED BY <1>1, <1>2, <2>1 DEF SmtpInv, SmtpTypeOK
<1>5. cmds = <<>> /\ reps = <<>> /\ mine = FALSE
  BY <1>1 DEF SmtpInv, InStep, Talking, SmtpTypeOK, OutType
<1>6. InStep'
  BY <1>1, <1>2, <1>5, GivenUp DEF HangUp, Talking
<1>7. ViewInv'
  BY <1>1, <1>2 DEF SmtpInv, ViewInv
<1>8. JobInv'
  BY <1>1 DEF JobInv, Serving
<1>9. ServedInv'
  <2>1. mode' = "deliver" /\ allok' => \A i \in 1..(next' - 1) : Got(msg, rcpts[i])' > 0
    BY <1>1, <1>2 DEF SmtpInv, ServedInv, Got
  <2> QED BY <1>1, <2>1 DEF ServedInv
<1>10. CopiesInv'
  <2>1. \A m \in Msgs : Served(m)' = Served(m)
    BY <1>1, <1>2 DEF Served
  <2>2. \A m \in Msgs, r \in Rcpts : ~Pending(m, r)' /\ ~Pending(m, r)
    BY <1>1, <1>2, <1>5 DEF Pending
  <2> QED BY <1>1, <1>2, <2>1, <2>2, CopiesKept
<1>11. Delivered250'
  BY <1>1, <1>2 DEF SmtpInv, Delivered250, Got
<1> QED BY <1>4, <1>6, <1>7, <1>8, <1>9, <1>10, <1>11 DEF SmtpInv

\* A step of the job: what OutEffect says is what the invariant needs.
LEMMA OutInv ==
    ASSUME SmtpInv, OutStep, UNCHANGED <<session, mail, view>>
    PROVE  SmtpInv'
<1>1. OutType' /\ InStep' /\ OutEffect
  BY OutStepEffect DEF SmtpInv, SmtpTypeOK
<1>2. /\ UNCHANGED <<greeted, from, rcpts, mode, msg, next, allok, waiting, peer, box, blurred>>
      /\ UNCHANGED <<asked, meant, told>>
  BY DEF session, mail, view
<1>3. /\ waiting /\ Serving /\ rcpts[next] \in Remote /\ job = <<msg, rcpts[next]>> /\ job \in Jobs
      /\ at # "idle" /\ rcpts[next] \notin Local
  BY <1>1, SmtpAssumption DEF SmtpInv, JobInv, OutEffect, SmtpTypeOK, OutType
<1>4. SmtpTypeOK'
  BY <1>1, <1>2 DEF SmtpInv, SmtpTypeOK
<1>5. ViewInv'
  BY <1>2 DEF SmtpInv, ViewInv
<1>6. JobInv'
  BY <1>1, <1>2, <1>3 DEF JobInv, Serving, OutEffect
<1>7. ASSUME NEW m \in Msgs, NEW q \in Rcpts
      PROVE  /\ Got(m, q) \in Nat /\ Got(m, q)' \in Nat /\ Got(m, q)' >= Got(m, q)
             /\ Doubtful(m, q) \in Nat /\ Doubtful(m, q)' \in Nat
             /\ <<m, q>> # job => Got(m, q)' = Got(m, q) /\ Doubtful(m, q)' = Doubtful(m, q)
  <2>1. Got(m, q) \in Nat /\ Doubtful(m, q) \in Nat
    BY CopyTypes DEF SmtpInv
  <2>2. CASE q \in Local
    BY <1>2, <2>1, <2>2 DEF Got, Doubtful
  <2>3. CASE q \notin Local
    <3>1. <<m, q>> \in Jobs
      BY <2>3, SmtpAssumption DEF Rcpts
    <3>2. taken'[<<m, q>>] \in Nat /\ unsure'[<<m, q>>] \in Nat
      BY <1>1, <3>1 DEF OutType
    <3> QED BY <1>1, <2>1, <2>3, <3>1, <3>2 DEF Got, Doubtful, OutEffect
  <2> QED BY <2>2, <2>3
<1>8. ServedInv'
  <2>1. ASSUME allok, NEW i \in 1..(next - 1), NEW m \in Msgs, NEW q \in Rcpts, m = msg, q = rcpts[i]
        PROVE  Got(m, q)' > 0
    <3>1. Got(m, q) > 0
      BY <1>3, <2>1, ServingFacts DEF SmtpInv, ServedInv
    <3> QED BY <1>7, <3>1
  <2>2. msg \in Msgs /\ \A i \in 1..(next - 1) : rcpts[i] \in Rcpts
    BY <1>3, ServingFacts
  <2>3. allok' => \A i \in 1..(next' - 1) : Got(msg, rcpts[i])' > 0
    BY <1>2, <2>1, <2>2 DEF Got
  <2>4. at' = "idle" /\ result' = "ok" => Got(msg, rcpts[next])' > 0
    BY <1>1, <1>2, <1>3 DEF Got, OutEffect
  <2> QED BY <2>3, <2>4 DEF ServedInv
<1>9. CopiesInv'
  <2>1. SUFFICES ASSUME NEW m \in Msgs, NEW q \in Rcpts
                 PROVE  (Got(m, q) <= ServedTimes(m, q) + Doubtful(m, q) + (IF Pending(m, q) THEN 1 ELSE 0))'
    BY DEF CopiesInv, Rcpts
  <2>2. ServedTimes(m, q)' = ServedTimes(m, q) /\ ServedTimes(m, q) \in Nat
    BY <1>2, CopyTypes DEF ServedTimes, Served, SmtpInv
  <2>3. Got(m, q) <= ServedTimes(m, q) + Doubtful(m, q) + (IF Pending(m, q) THEN 1 ELSE 0)
    BY DEF SmtpInv, CopiesInv, Rcpts
  <2>4. CASE <<m, q>> = job
    <3>1. m = msg /\ q = rcpts[next] /\ q \notin Local
      BY <1>3, <2>4
    <3>2. /\ Got(m, q) = taken[job] /\ Doubtful(m, q) = unsure[job]
          /\ Got(m, q)' = taken'[job] /\ Doubtful(m, q)' = unsure'[job]
      BY <2>4, <3>1 DEF Got, Doubtful
    <3>3. (IF Pending(m, q) THEN 1 ELSE 0) = Open /\ (IF Pending(m, q)' THEN 1 ELSE 0) = Open'
      BY <1>2, <1>3, <3>1 DEF Pending, Open
    <3>4. Open \in Nat /\ Open' \in Nat
      BY DEF Open
    <3>5. Got(m, q)' + Doubtful(m, q) + Open <= Got(m, q) + Doubtful(m, q)' + Open'
      BY <1>1, <3>2 DEF OutEffect
    <3>6. Got(m, q) <= ServedTimes(m, q) + Doubtful(m, q) + Open
      BY <2>3, <3>3
    <3>7. Got(m, q)' <= ServedTimes(m, q) + Doubtful(m, q)' + Open'
      BY <1>7, <2>2, <3>4, <3>5, <3>6
    <3> QED BY <2>2, <3>3, <3>7
  <2>5. CASE <<m, q>> # job
    <3>1. ~Pending(m, q) /\ ~Pending(m, q)'
      BY <1>2, <1>3, <2>5 DEF Pending
    <3> QED BY <1>7, <2>2, <2>3, <2>5, <3>1
  <2> QED BY <2>4, <2>5
<1>10. Delivered250'
  BY <1>2, <1>7, DeliveredKept
<1> QED BY <1>1, <1>4, <1>5, <1>6, <1>8, <1>9, <1>10 DEF SmtpInv

\* The result of the job is recorded.
LEMMA SentOutInv == ASSUME SmtpInv, SentOut PROVE SmtpInv'
<1>1. /\ waiting /\ at = "idle" /\ waiting' = FALSE /\ next' = next + 1
      /\ allok' = (allok /\ result = "ok")
      /\ UNCHANGED <<outvars, greeted, from, rcpts, mode, msg, peer, mail, view>>
  BY DEF SentOut, Record
<1>2. UNCHANGED <<env, job, at, second, mx, result, cmds, reps, mine, taken, unsure, box, blurred,
                  asked, meant, told>>
  BY <1>1 DEF outvars, leg, conn, mail, view
<1>3. Serving /\ rcpts[next] \in Remote
  BY <1>1 DEF SmtpInv, JobInv
<1>4. mine = FALSE
  BY <1>1 DEF SmtpInv, InStep, SmtpTypeOK, OutType
<1>5. SmtpTypeOK'
  <2>1. next' \in 1..(Len(rcpts) + 1) /\ next' \in Nat
    BY <1>1, <1>3, ServingFacts
  <2>2. allok' \in BOOLEAN
    BY <1>1 DEF SmtpInv, SmtpTypeOK
  <2> QED BY <1>1, <1>2, <2>1, <2>2 DEF SmtpInv, SmtpTypeOK, OutType
<1>6. InStep' /\ ViewInv'
  BY <1>1, <1>2 DEF SmtpInv, InStep, ViewInv
<1>7. JobInv'
  BY <1>1, <1>2 DEF JobInv
<1>8. ServedInv'
  <2>0. next' - 1 = next /\ next \in Nat
    BY <1>1, <1>3, ServingFacts
  <2>1. ASSUME allok', NEW i \in 1..next PROVE Got(msg, rcpts[i]) > 0
    <3>1. CASE i = next
      BY <1>1, <2>1, <3>1 DEF SmtpInv, ServedInv
    <3>2. CASE i # next
      <4>1. i \in 1..(next - 1)
        BY <2>0, <3>2
      <4> QED BY <1>1, <1>3, <2>1, <4>1, ServingFacts DEF SmtpInv, ServedInv
    <3> QED BY <3>1, <3>2
  <2>2. allok' => \A i \in 1..(next' - 1) : Got(msg, rcpts[i])' > 0
    BY <1>1, <1>2, <2>0, <2>1 DEF Got
  <2> QED BY <1>1, <2>2 DEF ServedInv
<1>9. CopiesInv'
  <2>1. SUFFICES ASSUME NEW m \in Msgs, NEW q \in Rcpts
                 PROVE  (Got(m, q) <= ServedTimes(m, q) + Doubtful(m, q) + (IF Pending(m, q) THEN 1 ELSE 0))'
    BY DEF CopiesInv, Rcpts
  <2>2. Got(m, q)' = Got(m, q) /\ Doubtful(m, q)' = Doubtful(m, q) /\ ~Pending(m, q)'
    BY <1>1, <1>2 DEF Got, Doubtful, Pending
  <2>3. ServedTimes(m, q)' = ServedTimes(m, q) + (IF m = msg /\ q = rcpts[next] THEN 1 ELSE 0)
    BY <1>1, <1>2, <1>3, RecordHits
  <2>4. Got(m, q) \in Nat /\ Doubtful(m, q) \in Nat /\ ServedTimes(m, q) \in Nat
    BY CopyTypes DEF SmtpInv
  <2>5. Pending(m, q) => m = msg /\ q = rcpts[next]
    BY DEF Pending
  <2>6. Got(m, q) <= ServedTimes(m, q) + Doubtful(m, q) + (IF Pending(m, q) THEN 1 ELSE 0)
    BY DEF SmtpInv, CopiesInv, Rcpts
  <2>7. Got(m, q) <= ServedTimes(m, q)' + Doubtful(m, q)
    <3>1. CASE Pending(m, q)
      BY <2>3, <2>4, <2>5, <2>6, <3>1
    <3>2. CASE ~Pending(m, q)
      BY <2>3, <2>4, <2>6, <3>2
    <3> QED BY <3>1, <3>2
  <2>8. ServedTimes(m, q)' \in Nat
    BY <2>3, <2>4
  <2> QED BY <2>2, <2>4, <2>7, <2>8
<1>10. Delivered250'
  BY <1>2 DEF SmtpInv, Delivered250, Got
<1> QED BY <1>5, <1>6, <1>7, <1>8, <1>9, <1>10 DEF SmtpInv

\* The client is answered.
LEMMA ConcludeInv == ASSUME SmtpInv, Conclude PROVE SmtpInv'
<1>1. /\ mode = "deliver" /\ next > Len(rcpts) /\ rcpts' = <<>> /\ from' = FALSE /\ msg' = None
      /\ mode' \in {"command", "closed"} /\ (mode' = "command" => peer)
      /\ UNCHANGED <<outvars, greeted, next, allok, waiting, peer, mail, asked, meant>>
  BY DEF Conclude, ResetMessage
<1>2. UNCHANGED <<env, job, at, second, mx, result, cmds, reps, mine, taken, unsure, box, blurred>>
  BY <1>1 DEF outvars, leg, conn, mail
<1>3. /\ msg \in Msgs /\ meant[msg] = rcpts /\ rcpts # <<>> /\ next - 1 = Len(rcpts) /\ rcpts \in Seq(Rcpts)
  <2>1. /\ msg \in Msgs /\ meant[msg] = rcpts /\ rcpts # <<>> /\ rcpts \in Seq(Rcpts)
        /\ next \in 1..(Len(rcpts) + 1)
    BY <1>1 DEF SmtpInv, SmtpTypeOK, ViewInv
  <2>2. Len(rcpts) \in Nat
    BY <2>1
  <2> QED BY <1>1, <2>1, <2>2
<1>4. ~waiting /\ at = "idle"
  <2>1. ~Serving
    <3>1. Len(rcpts) \in Nat /\ next \in Nat
      BY DEF SmtpInv, SmtpTypeOK
    <3> QED BY <1>1, <3>1 DEF Serving
  <2> QED BY <2>1 DEF SmtpInv, JobInv
<1>5. /\ DOMAIN told' = Msgs /\ \A m \in Msgs \ {msg} : told'[m] = told[m]
      /\ told'[msg] = "250" => allok \/ told[msg] = "250"
  <2>1. CASE peer
    <3>1. told' = [told EXCEPT ![msg] = IF allok THEN "250" ELSE "550"]
      BY <2>1 DEF Conclude
    <3> QED BY <1>3, <3>1 DEF SmtpInv, SmtpTypeOK
  <2>2. CASE ~peer
    BY <2>2 DEF Conclude, SmtpInv, SmtpTypeOK
  <2> QED BY <2>1, <2>2
<1>6. asked' = asked /\ asked \in Seq(Rcpts) /\ rcpts' \in Seq(Rcpts)
  BY <1>1 DEF SmtpInv, SmtpTypeOK
<1>7. SmtpTypeOK'
  BY <1>1, <1>2, <1>5, <1>6 DEF SmtpInv, SmtpTypeOK, OutType
<1>8. InStep'
  BY <1>2 DEF SmtpInv, InStep
<1>9. ViewInv'
  BY <1>1, <1>3, <1>5 DEF SmtpInv, ViewInv
<1>10. JobInv' /\ ServedInv'
  BY <1>1, <1>2, <1>4 DEF JobInv, ServedInv
<1>11. CopiesInv'
  <2>1. \A m \in Msgs : Served(m)' = Served(m)
    BY <1>1, <1>3 DEF Served
  <2>2. \A m \in Msgs, r \in Rcpts : Pending(m, r)' <=> Pending(m, r)
    BY <1>1, <1>4 DEF Pending
  <2> QED BY <1>1, <1>2, <2>1, <2>2, CopiesKept
<1>12. Delivered250'
  <2>1. ASSUME allok PROVE \A i \in 1..Len(meant[msg]) : Got(msg, meant[msg][i]) > 0
    BY <1>1, <1>3, <2>1 DEF SmtpInv, ServedInv
  <2>2. ASSUME NEW m \in Msgs, told'[m] = "250", NEW i \in 1..Len(meant[m])
        PROVE  Got(m, meant[m][i]) > 0
    BY <1>5, <2>1, <2>2 DEF SmtpInv, Delivered250
  <2> QED BY <1>1, <1>2, <2>2 DEF Delivered250, Got
<1> QED BY <1>7, <1>8, <1>9, <1>10, <1>11, <1>12 DEF SmtpInv

\* Every step of a connection keeps the invariant.
LEMMA SmtpNextInv == SmtpInv /\ [SmtpNext]_vars => SmtpInv'
<1> SUFFICES ASSUME SmtpInv, [SmtpNext]_vars PROVE SmtpInv'
  OBVIOUS
<1>1. CASE UNCHANGED vars \/ PeerGone
  <2>1. UNCHANGED <<outvars, greeted, from, rcpts, mode, msg, next, allok, waiting, mail, view>>
    BY <1>1 DEF vars, session, PeerGone
  <2>2. peer' \in BOOLEAN
    BY <1>1 DEF vars, session, PeerGone, SmtpInv, SmtpTypeOK
  <2> QED BY <2>1, <2>2, PeerInv
<1>2. CASE Helo \/ Close \/ EndData
  BY <1>2, HeloInv, CloseInv, EndDataInv
<1>3. CASE \E f \in BOOLEAN : MailFrom(f)
  BY <1>3, MailFromInv
<1>4. CASE \E r \in Local \cup Remote : RcptTo(r)
  BY <1>4, RcptToInv DEF Rcpts
<1>5. CASE \E m \in Msgs : Data(m)
  BY <1>5, DataInv
<1>6. CASE DeliverLocal \/ SendOut \/ SentOut \/ Conclude
  BY <1>6, DeliverLocalInv, SendOutInv, SentOutInv, ConcludeInv
<1>7. CASE OutMx \/ OutDialogue \/ OutRelay \/ OutSubmit \/ OutAnswer
  BY <1>7, OutInv DEF OutMx, OutDialogue, OutRelay, OutSubmit, OutAnswer, OutStep
<1> QED BY <1>1, <1>2, <1>3, <1>4, <1>5, <1>6, <1>7 DEF SmtpNext, ServerStep

-----------------------------------------------------------------------------
(* Theorems. *)

\* Types and the inductive invariant: client and servers stay in step, and the
\* copies of a message are accounted for.
THEOREM SmtpInvariant == SmtpSpec => []SmtpInv
<1>1. SmtpInit => SmtpInv
  BY SmtpInitInv
<1>2. SmtpInv /\ [SmtpNext]_vars => SmtpInv'
  BY SmtpNextInv
<1> QED BY <1>1, <1>2, PTL DEF SmtpSpec

\* A client that hears 250 knows that every recipient has the message
\* (handle_data_mode, try_send_once).
THEOREM AnsweredIsDelivered == SmtpSpec => []Delivered250
<1>1. SmtpInv => Delivered250
  BY DEF SmtpInv
<1> QED BY <1>1, SmtpInvariant, PTL

\* Nobody gets more copies than were asked for, but for attempts that took
\* effect and looked failed (reset_message_state, smtp_send_direct,
\* smtp_send_external).
THEOREM NoExtraCopy == SmtpSpec => []OneCopy
<1>1. SmtpInv => OneCopy
  <2>1. SUFFICES ASSUME SmtpInv, NEW m \in Msgs, NEW r \in Rcpts
                 PROVE  Got(m, r) <= Times(m, r) + Doubtful(m, r)
    BY DEF OneCopy, Rcpts
  <2>2. /\ Got(m, r) \in Nat /\ Doubtful(m, r) \in Nat /\ Served(m) \in Nat
        /\ ServedTimes(m, r) \in Nat /\ ServedTimes(m, r) = Hits(meant[m], Served(m), r)
    BY <2>1, CopyTypes DEF SmtpInv
  <2>3. Got(m, r) <= ServedTimes(m, r) + Doubtful(m, r) + (IF Pending(m, r) THEN 1 ELSE 0)
    BY <2>1 DEF SmtpInv, CopiesInv, Rcpts
  <2>4. Len(meant[m]) \in Nat
    BY <2>1 DEF SmtpInv, SmtpTypeOK
  <2>5. Times(m, r) \in Nat /\ Times(m, r) = Hits(meant[m], Len(meant[m]), r)
    <3>1. Times(m, r) = Hits(meant[m], Len(meant[m]), r)
      BY DEF Times, Hits
    <3> QED BY <2>4, <3>1, HitsFacts
  <2>6. CASE ~Pending(m, r)
    <3>1. Served(m) <= Len(meant[m])
      <4>1. CASE mode = "deliver" /\ m = msg
        BY <2>1, <2>4, <4>1 DEF SmtpInv, SmtpTypeOK, ViewInv, Served
      <4>2. CASE ~(mode = "deliver" /\ m = msg)
        BY <2>4, <4>2 DEF Served
      <4> QED BY <4>1, <4>2
    <3>2. ServedTimes(m, r) <= Times(m, r)
      <4>1. IsFiniteSet(1..Len(meant[m]))
        BY <2>4, FS_Interval
      <4>2. IsFiniteSet({i \in 1..Len(meant[m]) : meant[m][i] = r})
        BY <4>1, FS_Subset
      <4>3. {i \in 1..Served(m) : meant[m][i] = r}
              \in SUBSET {i \in 1..Len(meant[m]) : meant[m][i] = r}
        BY <2>2, <2>4, <3>1
      <4> QED BY <4>2, <4>3, FS_Subset DEF ServedTimes, Times
    <3> QED BY <2>2, <2>3, <2>5, <2>6, <3>2
  <2>7. CASE Pending(m, r)
    <3>1. Serving /\ m = msg /\ r = rcpts[next]
      BY <2>1, <2>7 DEF Pending, SmtpInv, JobInv
    <3>2. Served(m) + 1 = next /\ next \in 1..Len(meant[m]) /\ meant[m][next] = r
      BY <2>1, <3>1, ServingFacts
    <3>3. Hits(meant[m], Served(m) + 1, r) = ServedTimes(m, r) + 1
      <4>1. Hits(meant[m], Served(m) + 1, r) =
              Hits(meant[m], Served(m), r) + (IF meant[m][Served(m) + 1] = r THEN 1 ELSE 0)
        BY <2>2, HitsFacts
      <4> QED BY <2>2, <3>2, <4>1
    <3>4. Hits(meant[m], next, r) <= Times(m, r)
      <4>1. IsFiniteSet(1..Len(meant[m]))
        BY <2>4, FS_Interval
      <4>2. IsFiniteSet({i \in 1..Len(meant[m]) : meant[m][i] = r})
        BY <4>1, FS_Subset
      <4>3. {i \in 1..next : meant[m][i] = r}
              \in SUBSET {i \in 1..Len(meant[m]) : meant[m][i] = r}
        BY <2>4, <3>2
      <4> QED BY <4>2, <4>3, FS_Subset DEF Hits, Times
    <3> QED BY <2>2, <2>3, <2>5, <2>7, <3>2, <3>3, <3>4
  <2> QED BY <2>6, <2>7
<1> QED BY <1>1, SmtpInvariant, PTL
=============================================================================
