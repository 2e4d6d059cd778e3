----------------------------- MODULE MCSession -----------------------------
(***************************************************************************)
(* Instances of Session for TLC: an old account with a legacy session, and *)
(* a user who signs up.                                                    *)
(***************************************************************************)
EXTENDS Session, TLC

R(do, u, s, p, q) == [do |-> do, user |-> u, sid |-> s, pw |-> p, new |-> q]

MCAccounts == "a" :> [pw |-> "p", form |-> "plain"] @@ "b" :> Nil
P(n, made) == [faults |-> n, made |-> made]

MCScenarios ==
    {P(1, {R("login", "a", "s1", "p", Nil), R("check", "a", "s1", Nil, Nil),
           R("logout", "a", "s1", Nil, Nil)}),
     P(1, {R("check", "a", "s0", Nil, Nil), R("check", "a", "s0", Nil, "again"),
           R("logout", "a", "s0", Nil, Nil)}),
     P(1, {R("login", "a", "s1", "p", Nil), R("change", "a", "s0", "p", "q")}),
     P(2, {R("change", "a", "s0", "p", "q"), R("logout", "a", "s0", Nil, Nil)}),
     P(2, {R("signup", "b", "s2", Nil, "p"), R("signup", "b", "s3", Nil, "q")})}
=============================================================================
