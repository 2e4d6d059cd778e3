------------------------------ MODULE Session ------------------------------
(***************************************************************************)
(* Sessions and accounts (frontend/src/session.h and the auth handlers of  *)
(* fe_server.cc).  A session is kept in several rows, one per tablet plus  *)
(* a legacy row, so that it outlives the loss of a tablet.  Every row has  *)
(* two columns, user and expiry.  A check takes the first row that has     *)
(* both; if that is the legacy row, the last one, it writes all the others *)
(* again.  A logout deletes the rows in the same order, in a thread of its *)
(* own, after the client was answered.                                     *)
(*                                                                         *)
(* The requests of all front ends run side by side, one call of the        *)
(* storage client per step.                                                *)
(***************************************************************************)
EXTENDS Naturals, FiniteSets

CONSTANTS
    Workers,
    N,          \* rows of a session, 9 in the code; the last is the legacy row
    Sids,
    Users,
    Nil,
    Scenarios,  \* [made, faults]: requests, each made once, and a bound on the failed
                \* calls and killed processes meanwhile
    OldSids,    \* sessions an older build left in the legacy row only
    Accounts,   \* Accounts[u]: the stored password of u, or Nil
    MayExpire   \* the sessions that may expire

\* A request has a kind, a user, a session, the password it presents and a new
\* password.  A stored password is hashed or, in old accounts, "plain".
ReqKinds == {"login", "signup", "check", "logout", "change"}

\* The requests that make a session.
Creates(r) == r.do \in {"login", "signup"}

ASSUME SessionAssumption ==
    /\ N \in Nat \ {0}
    /\ OldSids \subseteq Sids /\ MayExpire \subseteq Sids /\ DOMAIN Accounts = Users
    /\ \A p \in Scenarios :
         /\ p.faults \in Nat
         /\ Nil \notin p.made
         /\ \A r \in p.made : r.do \in ReqKinds /\ r.user \in Users /\ r.sid \in Sids

\* A new session has an identifier of its own: generate_sid draws 128
\* random bits.
ASSUME SidAssumption ==
    \A p \in Scenarios : \A r \in p.made : Creates(r) =>
        r.sid \notin OldSids /\ \A q \in p.made : Creates(q) /\ q.sid = r.sid => q = r

\* A stored password is not the absence of one.
ASSUME PasswordAssumption ==
    \A p \in Scenarios : \A r \in p.made : \A q \in {r.pw, r.new} :
        [pw |-> q, form |-> "hash"] # Nil

VARIABLES
    cols,     \* cols[s][i]: the columns that row i of session s has
    pwd,      \* pwd[u]: [pw, form], or Nil
    expired,  \* the sessions whose time has run out
    pc, req, reply,
    row,      \* row[w]: the row that w is at
    flag,     \* flag[w]: some row was stored, or was unavailable
    faults,
    plan,     \* the scenario of this behaviour
    begun,    \* history: sessions that a client was told of
    ended,    \* history: sessions logged out or expired
    tangled,  \* history: sessions whose logout met a repair or a fault
    agreed,   \* history: agreed[u]: the password last confirmed to u
    muddled   \* history: users with two writes of a password at a time, or a failed one

kv == <<cols, pwd>>
wk == <<pc, req, reply, row, flag, plan>>
gh == <<begun, ended, tangled, agreed, muddled>>
svars == <<kv, expired, wk, faults, gh>>

Both == {"user", "expiry"}

Init ==
    /\ cols = [s \in Sids |-> [i \in 1..N |-> IF s \in OldSids /\ i = N THEN Both ELSE {}]]
    /\ pwd = Accounts /\ expired = {}
    /\ pc = [w \in Workers |-> "idle"] /\ req = [w \in Workers |-> Nil]
    /\ reply = [w \in Workers |-> "none"]
    /\ row = [w \in Workers |-> 1] /\ flag = [w \in Workers |-> FALSE]
    /\ faults = 0 /\ plan \in Scenarios
    /\ begun = OldSids /\ ended = {} /\ tangled = {}
    /\ agreed = [u \in Users |-> IF Accounts[u] = Nil THEN Nil ELSE Accounts[u].pw]
    /\ muddled = {}

Fault == faults < plan.faults /\ faults' = faults + 1

Sid(w) == req[w].sid
User(w) == req[w].user
Goto(w, label) == pc' = [pc EXCEPT ![w] = label]
Reply(w, res) == reply' = [reply EXCEPT ![w] = res]
Busy == {w \in Workers : pc[w] \notin {"idle", "done"}}

\* Requests that may write the password of their user.
Writes(r) ==
    \/ r.do \in {"signup", "change"}
    \/ r.do = "login" /\ pwd[r.user] # Nil /\ pwd[r.user].form = "plain"
Writers(u) == {w \in Busy : User(w) = u /\ Writes(req[w])}

\* Workers that do the logout, or the repair, of a session.
LoggingOut(s) == {w \in Busy : Sid(w) = s /\ req[w].do = "logout"}
Repairing(s) == {w \in Busy : Sid(w) = s /\ pc[w] \in {"fixuser", "fixexpiry"}}

\* A request arrives; idle workers are alike, so it takes a fixed one of them.
\* A client presents a session that it was told of.  handle_logout answers at
\* once and leaves the rest to a thread.
Request(w, r) ==
    /\ pc[w] = "idle" /\ w = CHOOSE x \in Workers : pc[x] = "idle"
    /\ \A x \in Workers : req[x] # r
    /\ r.do \in {"check", "logout", "change"} => r.sid \in begun
    /\ req' = [req EXCEPT ![w] = r]
    /\ CASE r.do = "logout" -> Goto(w, "deluser") /\ Reply(w, "ok")
         [] r.do \in {"check", "change"} -> Goto(w, "readuser") /\ UNCHANGED reply
         [] OTHER -> Goto(w, "auth") /\ UNCHANGED reply
    /\ ended' = IF r.do = "logout" THEN ended \cup {r.sid} ELSE ended
    /\ tangled' = IF r.do = "logout" /\ Repairing(r.sid) # {} THEN tangled \cup {r.sid} ELSE tangled
    /\ muddled' = IF Writes(r) /\ Writers(r.user) # {} THEN muddled \cup {r.user} ELSE muddled
    /\ UNCHANGED <<kv, expired, row, flag, faults, begun, agreed, plan>>

\* SESSION_TTL_SECONDS pass.
Expire(s) ==
    /\ s \in (begun \cap MayExpire) \ expired
    /\ expired' = expired \cup {s} /\ ended' = ended \cup {s}
    /\ UNCHANGED <<kv, wk, faults, begun, tangled, agreed, muddled>>

-----------------------------------------------------------------------------
(* Loops over the rows. *)

\* Variant: the row is not moved on.
AdvanceStays(w, label, end) == Goto(w, label) /\ UNCHANGED row

\* The next row at label, or label end after the last one.
Advance(w, label, end) ==
    IF row[w] < N THEN Goto(w, label) /\ row' = [row EXCEPT ![w] = @ + 1]
    ELSE Goto(w, end) /\ row' = [row EXCEPT ![w] = 1]

\* A column of w's present row is written or deleted.
Put(w, c) == cols' = [cols EXCEPT ![Sid(w)][row[w]] = @ \cup {c}]
Del(w, c) == cols' = [cols EXCEPT ![Sid(w)][row[w]] = @ \ c]

\* SessionManager::create.  A row counts when both columns are stored.
PutUser(w) ==
    /\ pc[w] = "user"
    /\ \/ Put(w, "user") /\ Goto(w, "expiry") /\ UNCHANGED <<row, faults>>
       \/ Fault /\ (Put(w, "user") \/ UNCHANGED cols) /\ Advance(w, "user", "created")
    /\ UNCHANGED <<pwd, expired, req, reply, flag, gh, plan>>

\* Variant: a row is counted whether or not its expiry was stored.
PutExpiryCounts(w) ==
    /\ pc[w] = "expiry"
    /\ flag' = [flag EXCEPT ![w] = TRUE]
    /\ \/ Put(w, "expiry") /\ Advance(w, "user", "created") /\ UNCHANGED faults
       \/ /\ Fault /\ (Put(w, "expiry") \/ UNCHANGED cols)
          /\ Goto(w, "undo") /\ UNCHANGED row
    /\ UNCHANGED <<pwd, expired, req, reply, gh, plan>>

PutExpiry(w) ==
    /\ pc[w] = "expiry"
    /\ \/ /\ Put(w, "expiry") /\ flag' = [flag EXCEPT ![w] = TRUE]
          /\ Advance(w, "user", "created") /\ UNCHANGED faults
       \/ /\ Fault /\ (Put(w, "expiry") \/ UNCHANGED cols)
          /\ Goto(w, "undo") /\ UNCHANGED <<row, flag>>
    /\ UNCHANGED <<pwd, expired, req, reply, gh, plan>>

Undo(w) ==
    /\ pc[w] = "undo"
    /\ \/ Del(w, Both) /\ UNCHANGED faults
       \/ Fault /\ \E c \in {{}, {"user"}, {"expiry"}} : Del(w, c)
    /\ Advance(w, "user", "created")
    /\ UNCHANGED <<pwd, expired, req, reply, flag, gh, plan>>

\* destroy, destroy_async.
DelUser(w) ==
    /\ pc[w] = "deluser"
    /\ \/ Del(w, {"user"}) /\ UNCHANGED <<faults, tangled>>
       \/ /\ Fault /\ tangled' = tangled \cup {Sid(w)}
          /\ Del(w, {"user"}) \/ UNCHANGED cols
    /\ Goto(w, "delexpiry")
    /\ UNCHANGED <<pwd, expired, req, reply, row, flag, begun, ended, agreed, muddled, plan>>

\* Variant: the legacy row is left out.
DelExpiryShort(w) ==
    /\ pc[w] = "delexpiry"
    /\ Del(w, {"expiry"})
    /\ IF row[w] < N - 1 THEN Advance(w, "deluser", "destroyed")
       ELSE Goto(w, "destroyed") /\ row' = [row EXCEPT ![w] = 1]
    /\ UNCHANGED <<pwd, expired, req, reply, flag, faults, gh, plan>>

DelExpiry(w) ==
    /\ pc[w] = "delexpiry"
    /\ \/ Del(w, {"expiry"}) /\ UNCHANGED <<faults, tangled>>
       \/ /\ Fault /\ tangled' = tangled \cup {Sid(w)}
          /\ Del(w, {"expiry"}) \/ UNCHANGED cols
    /\ Advance(w, "deluser", "destroyed")
    /\ UNCHANGED <<pwd, expired, req, reply, flag, begun, ended, agreed, muddled, plan>>

\* repair_session_copies, without a look at the outcomes.
FixUser(w) ==
    /\ pc[w] = "fixuser"
    /\ \/ Put(w, "user") /\ UNCHANGED faults
       \/ Fault /\ (Put(w, "user") \/ UNCHANGED cols)
    /\ Goto(w, "fixexpiry")
    /\ UNCHANGED <<pwd, expired, req, reply, row, flag, gh, plan>>

FixExpiry(w) ==
    /\ pc[w] = "fixexpiry"
    /\ \/ Put(w, "expiry") /\ UNCHANGED faults
       \/ Fault /\ (Put(w, "expiry") \/ UNCHANGED cols)
    /\ Advance(w, "fixuser", "valid")
    /\ UNCHANGED <<pwd, expired, req, reply, flag, gh, plan>>

\* validate_status: the first row with both columns decides.  A column that is
\* not there, or whose reads all failed, passes on to the next row.
ReadUser(w) ==
    /\ pc[w] = "readuser"
    /\ IF "user" \in cols[Sid(w)][row[w]] THEN Goto(w, "readexpiry") /\ UNCHANGED row
       ELSE Advance(w, "readuser", "invalid")
    /\ UNCHANGED <<kv, expired, req, reply, flag, faults, gh, plan>>

ReadExpiry(w) ==
    LET found == "expiry" \in cols[Sid(w)][row[w]]
        repair == found /\ Sid(w) \notin expired /\ row[w] = N
    IN /\ pc[w] = "readexpiry"
       /\ IF ~found THEN Advance(w, "readuser", "invalid")
          ELSE /\ row' = [row EXCEPT ![w] = 1]
               /\ Goto(w, IF Sid(w) \in expired THEN "deluser"
                          ELSE IF repair THEN "fixuser" ELSE "valid")
       /\ tangled' = IF repair /\ LoggingOut(Sid(w)) # {} THEN tangled \cup {Sid(w)} ELSE tangled
       /\ UNCHANGED <<kv, expired, req, reply, flag, faults, begun, ended, agreed, muddled, plan>>

\* Variant: an unavailable row is taken for an absent one.
ReadFailsSilent(w) ==
    /\ pc[w] \in {"readuser", "readexpiry"}
    /\ Fault
    /\ Advance(w, "readuser", "invalid")
    /\ UNCHANGED <<kv, expired, req, reply, flag, gh, plan>>

\* retry_get_status has tried all its attempts.
ReadFails(w) ==
    /\ pc[w] \in {"readuser", "readexpiry"}
    /\ Fault
    /\ flag' = [flag EXCEPT ![w] = TRUE]
    /\ Advance(w, "readuser", "invalid")
    /\ UNCHANGED <<kv, expired, req, reply, gh, plan>>

-----------------------------------------------------------------------------
(* The handlers. *)

\* handle_session and get_user: what the client hears.
Verdict(w) ==
    /\ \/ pc[w] = "valid" /\ req[w].do = "check" /\ Reply(w, "in")
       \/ /\ pc[w] = "invalid"
          /\ Reply(w, IF flag[w] /\ req[w].do = "check" THEN "unavailable" ELSE "out")
       \/ pc[w] = "destroyed" /\ req[w].do # "logout" /\ Reply(w, "out")
       \/ pc[w] = "destroyed" /\ req[w].do = "logout" /\ UNCHANGED reply
    /\ Goto(w, "done")
    /\ UNCHANGED <<kv, expired, req, row, flag, faults, gh, plan>>

Refuse(w) == Goto(w, "done") /\ Reply(w, "refused")

\* The password presented is the stored one.
Verified(w) == pwd[User(w)] # Nil /\ pwd[User(w)].pw = req[w].pw

\* handle_login up to create: an old password that matches is hashed.
Login(w) ==
    /\ pc[w] = "auth" /\ req[w].do = "login"
    /\ \/ ~Verified(w) /\ Refuse(w) /\ UNCHANGED faults
       \/ /\ Verified(w)
          /\ Goto(w, IF pwd[User(w)].form = "plain" THEN "rehash" ELSE "user")
          /\ UNCHANGED <<reply, faults, plan>>
       \/ Fault /\ Refuse(w)
    /\ UNCHANGED <<kv, expired, req, row, flag, gh, plan>>

Rehash(w) ==
    /\ pc[w] = "rehash"
    /\ \/ pwd' = [pwd EXCEPT ![User(w)] = [pw |-> req[w].pw, form |-> "hash"]] /\ UNCHANGED faults
       \/ Fault /\ UNCHANGED pwd
    /\ Goto(w, "user")
    /\ UNCHANGED <<cols, expired, req, reply, row, flag, gh, plan>>

\* Variant: the name is not looked up.
SignupBlind(w) ==
    /\ pc[w] = "auth" /\ req[w].do = "signup"
    /\ Goto(w, "putpwd")
    /\ UNCHANGED <<kv, expired, req, reply, row, flag, faults, gh, plan>>

\* handle_signup up to create.
Signup(w) ==
    /\ pc[w] = "auth" /\ req[w].do = "signup"
    /\ \/ pwd[User(w)] = Nil /\ Goto(w, "putpwd") /\ UNCHANGED <<reply, faults>>
       \/ pwd[User(w)] # Nil /\ Refuse(w) /\ UNCHANGED faults
       \/ Fault /\ Refuse(w)
    /\ UNCHANGED <<kv, expired, req, row, flag, gh, plan>>

\* handle_change_password after the session check.
ChangePassword(w) ==
    /\ pc[w] = "valid" /\ req[w].do = "change"
    /\ \/ Verified(w) /\ Goto(w, "putpwd") /\ UNCHANGED <<reply, faults>>
       \/ ~Verified(w) /\ Refuse(w) /\ UNCHANGED faults
       \/ Fault /\ Refuse(w)
    /\ UNCHANGED <<kv, expired, req, row, flag, gh, plan>>

PutPwd(w) ==
    /\ pc[w] = "putpwd"
    /\ pwd' = [pwd EXCEPT ![User(w)] = [pw |-> req[w].new, form |-> "hash"]]
    /\ IF req[w].do = "signup" THEN Goto(w, "user") /\ UNCHANGED <<reply, agreed>>
       ELSE /\ Goto(w, "done") /\ Reply(w, "ok")
            /\ agreed' = [agreed EXCEPT ![User(w)] = req[w].new]
    /\ UNCHANGED <<cols, expired, req, row, flag, faults, begun, ended, tangled, muddled, plan>>

PutPwdFails(w) ==
    /\ pc[w] = "putpwd"
    /\ Fault
    /\ \/ pwd' = [pwd EXCEPT ![User(w)] = [pw |-> req[w].new, form |-> "hash"]]
       \/ UNCHANGED pwd
    /\ Refuse(w)
    /\ muddled' = muddled \cup {User(w)}
    /\ UNCHANGED <<cols, expired, req, row, flag, begun, ended, tangled, agreed, plan>>

\* create has stored some row.
Created(w) ==
    /\ pc[w] = "created" /\ flag[w]
    /\ Goto(w, "done") /\ Reply(w, "ok")
    /\ begun' = begun \cup {Sid(w)}
    /\ agreed' = IF req[w].do = "signup" THEN [agreed EXCEPT ![User(w)] = req[w].new] ELSE agreed
    /\ UNCHANGED <<kv, expired, req, row, flag, faults, ended, tangled, muddled, plan>>

\* It has stored none: a new account is deleted again.
NotCreated(w) ==
    /\ pc[w] = "created" /\ ~flag[w]
    /\ IF req[w].do = "login" THEN UNCHANGED <<pwd, faults, muddled>>
       ELSE \/ pwd' = [pwd EXCEPT ![User(w)] = Nil] /\ UNCHANGED <<faults, muddled>>
            \/ Fault /\ muddled' = muddled \cup {User(w)} /\ UNCHANGED pwd
    /\ Refuse(w)
    /\ UNCHANGED <<cols, expired, req, row, flag, begun, ended, tangled, agreed, plan>>

\* The process is killed, and with it the thread of a logout.
Crash(w) ==
    /\ w \in Busy
    /\ Fault
    /\ Goto(w, "done")
    /\ tangled' = tangled \cup {Sid(w)}
    /\ muddled' = IF Writes(req[w]) THEN muddled \cup {User(w)} ELSE muddled
    /\ UNCHANGED <<kv, expired, req, reply, row, flag, begun, ended, agreed, plan>>

Step(w) ==
    \/ PutUser(w) \/ PutExpiry(w) \/ Undo(w) \/ DelUser(w) \/ DelExpiry(w)
    \/ FixUser(w) \/ FixExpiry(w) \/ ReadUser(w) \/ ReadExpiry(w) \/ ReadFails(w) \/ Verdict(w)
    \/ Login(w) \/ Rehash(w) \/ Signup(w) \/ ChangePassword(w)
    \/ PutPwd(w) \/ PutPwdFails(w) \/ Created(w) \/ NotCreated(w)

Next ==
    \/ \E w \in Workers : Step(w) \/ Crash(w) \/ \E r \in plan.made : Request(w, r)
    \/ \E s \in Sids : Expire(s)

Spec == Init /\ [][Next]_svars

\* Threads run, that of a logout too.
FairSpec == Spec /\ \A w \in Workers : WF_svars(Step(w))

-----------------------------------------------------------------------------
(* Properties. *)

\* A client with a session is told that it has none only when it was logged out
\* or its time has run out: failed calls, rows that were never stored and rows
\* being repaired make it "unavailable" at worst (validate_status).
SessionKept ==
    [][\A w \in Workers :
          reply'[w] = "out" /\ reply[w] # "out" /\ req[w].do = "check" => Sid(w) \in ended]_svars

\* A logout that ran through leaves no row that a later check would accept,
\* whatever checks ran meanwhile, unless a call failed or a check found only the
\* legacy row and wrote all rows again at the same time (destroy_async,
\* repair_session_copies).
LogoutHolds ==
    \A w \in Workers : req[w] # Nil /\ req[w].do = "logout" /\ pc[w] = "done" =>
        Sid(w) \in tangled \/ \A i \in 1..N : cols[Sid(w)][i] # Both

\* A session that a client was told of can be found until it is ended: some row
\* of it is complete.
RowLeft == \A s \in begun \ ended : \E i \in 1..N : cols[s][i] = Both

\* The stored password is the one last confirmed to the user, unless two writes
\* of it overlapped or one failed; a login never changes it (handle_login).
PasswordAgreed ==
    \A u \in Users \ muddled : Writers(u) = {} =>
        IF pwd[u] = Nil THEN agreed[u] = Nil ELSE pwd[u].pw = agreed[u]

\* Every request is answered and every logout carried out, unless the process
\* is killed.
Finished == \A w \in Workers : w \in Busy ~> w \notin Busy
-----------------------------------------------------------------------------
(* The inductive invariant. *)

Labels ==
    {"idle", "done", "auth", "rehash", "putpwd", "user", "expiry", "undo", "created",
     "readuser", "readexpiry", "valid", "invalid", "fixuser", "fixexpiry",
     "deluser", "delexpiry", "destroyed"}

\* Where create, and where a deletion of all rows, may be.
Storing == {"user", "expiry", "undo", "created"}
Deleting == {"deluser", "delexpiry", "destroyed"}

TypeOK ==
    /\ cols \in [Sids -> [1..N -> SUBSET Both]]
    /\ DOMAIN pwd = Users /\ DOMAIN agreed = Users
    /\ plan \in Scenarios /\ faults \in 0..plan.faults
    /\ pc \in [Workers -> Labels] /\ req \in [Workers -> plan.made \cup {Nil}]
    /\ DOMAIN reply = Workers
    /\ row \in [Workers -> 1..N] /\ flag \in [Workers -> BOOLEAN]
    /\ begun \subseteq Sids /\ ended \subseteq Sids
    /\ tangled \subseteq Sids /\ muddled \subseteq Users

\* The labels of each kind of request.
Places(do) ==
    CASE do = "login" -> {"auth", "rehash"} \cup Storing
      [] do = "signup" -> {"auth", "putpwd"} \cup Storing
      [] do = "logout" -> Deleting
      [] do = "check" -> Labels \ ({"idle", "auth", "rehash", "putpwd"} \cup Storing)
      [] do = "change" -> Labels \ ({"idle", "auth", "rehash"} \cup Storing)

\* A worker does what its request calls for.  Rows are deleted only when the
\* session has ended.
WorkInv ==
    /\ expired \subseteq ended
    /\ \A s \in begun \ OldSids : \E w \in Workers :
         req[w] # Nil /\ Creates(req[w]) /\ Sid(w) = s
    /\ \A w, x \in Workers : req[w] = req[x] => w = x \/ req[w] = Nil
    /\ \A w \in Workers :
         /\ pc[w] = "idle" <=> req[w] = Nil
         /\ pc[w] = "idle" => row[w] = 1 /\ ~flag[w]
         /\ pc[w] # "idle" =>
              /\ pc[w] \in Places(req[w].do) \cup {"done"}
              /\ ~Creates(req[w]) => Sid(w) \in begun
              /\ req[w].do = "logout" \/ pc[w] \in Deleting => Sid(w) \in ended

\* A session that is being made is not known to anyone, and the rows counted
\* so far are complete.
CreateInv ==
    \A w \in Busy : Creates(req[w]) =>
        /\ Sid(w) \notin begun
        /\ pc[w] \notin Storing => row[w] = 1 /\ ~flag[w]
        /\ pc[w] = "expiry" => "user" \in cols[Sid(w)][row[w]]
        /\ flag[w] => \E i \in 1..N :
             cols[Sid(w)][i] = Both /\ (i < row[w] \/ pc[w] = "created")

\* A check of a session that has not ended has a complete row before it, or has
\* met a row that was unavailable.
ReadInv ==
    \A w \in Workers : ~flag[w] =>
        /\ pc[w] \in {"readuser", "readexpiry"} /\ Sid(w) \notin ended =>
             \E i \in row[w]..N : cols[Sid(w)][i] = Both
        /\ pc[w] = "invalid" => Sid(w) \in ended

\* The rows that a logout has passed are empty, and nobody fills them again.
LogoutInv ==
    \A w \in Workers : req[w] # Nil /\ req[w].do = "logout" /\ Sid(w) \notin tangled =>
        /\ Repairing(Sid(w)) = {}
        /\ \A i \in 1..N : i < row[w] \/ pc[w] \in {"destroyed", "done"} => cols[Sid(w)][i] = {}
        /\ pc[w] = "delexpiry" => "user" \notin cols[Sid(w)][row[w]]

Agrees(u) == IF pwd[u] = Nil THEN agreed[u] = Nil ELSE pwd[u].pw = agreed[u]

\* One writer at a time.  The stored password is the agreed one but while a
\* sign-up has stored it and not yet answered.
PasswordOf(u) ==
    /\ \A w, x \in Writers(u) : w = x
    /\ Agrees(u) \/ \E w \in Writers(u) : req[w].do = "signup" /\ pc[w] \in Storing
    /\ \A w \in Busy : User(w) = u =>
         /\ pc[w] = "rehash" => Writes(req[w]) /\ pwd[u].pw = req[w].pw
         /\ req[w].do = "signup" /\ pc[w] = "putpwd" => pwd[u] = Nil
         /\ req[w].do = "signup" /\ pc[w] \in Storing =>
              pwd[u] # Nil /\ pwd[u].pw = req[w].new /\ agreed[u] = Nil

PasswordInv == \A u \in Users \ muddled : PasswordOf(u)
=============================================================================
