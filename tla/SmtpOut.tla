------------------------------ MODULE SmtpOut ------------------------------
(***************************************************************************)
(* Outbound mail (smtp_send_external of smtp_client.h, kept in two copies  *)
(* with the same control in frontend/src and smtp_server/src).  A message  *)
(* for one recipient goes directly to at most MaxMx mail servers of the    *)
(* recipient's domain, one after the other, or through a relay, or by the  *)
(* one after the other failed.                                             *)
(*                                                                         *)
(* The servers and the relay are not of this repository.  A server answers *)
(* the commands of a connection in order, when it likes or never.  The     *)
(* client waits a limited time.  It hangs up when no answer came, but not  *)
(* after EHLO: the answer may still come, and is then read as the answer   *)
(* to the next command.                                                    *)
(***************************************************************************)
EXTENDS Naturals, Sequences

CONSTANTS
    Jobs,     \* a message and an external recipient of it
    None,
    Envs,     \* settings: listed, mode, fallback, relay
    MaxMx,    \* servers tried, 3 in the code
    Found     \* the numbers of servers that a DNS answer may hold

ASSUME SmtpOutAssumption ==
    /\ MaxMx \in Nat \ {0} /\ Found \subseteq Nat
    /\ \A e \in Envs : /\ {e.listed, e.fallback, e.relay} \subseteq BOOLEAN
                       /\ e.mode \in {"direct", "relay"}

VARIABLES
    env,     \* the settings of this process
    job,     \* the message being sent, or None
    at,      \* the command whose answer the client awaits, or another step
    second,  \* the fallback is in use
    mx,      \* the servers still to be tried, the present one included
    cmds,    \* commands that the server has not answered
    reps,    \* the classes of its answers that the client has not read
    mine,    \* the server has accepted the message
    result,  \* of the last job
    taken,   \* history: taken[j]: copies of job j that were accepted
    unsure   \* history: unsure[j]: the ones whose attempt the client took for failed

conn == <<cmds, reps, mine>>
leg == <<job, at, second, mx, result>>
outvars == <<env, leg, conn, taken, unsure>>

OutInit ==
    /\ env \in Envs /\ job = None /\ at = "idle" /\ second = FALSE /\ mx = 0
    /\ cmds = <<>> /\ reps = <<>> /\ mine = FALSE /\ result = "none"
    /\ taken = [j \in Jobs |-> 0] /\ unsure = [j \in Jobs |-> 0]

\* The way tried first, and the one tried after it.
FirstLeg == IF env.listed \/ env.mode = "direct" THEN "lookup" ELSE "relay"
HasFallback == env.mode = "relay" /\ env.fallback
OtherLeg == IF FirstLeg = "lookup" THEN "relay" ELSE "lookup"

\* smtp_send_external
StartSend(j) ==
    /\ at = "idle"
    /\ job' = j /\ at' = FirstLeg /\ second' = FALSE /\ result' = "none"
    /\ UNCHANGED <<env, mx, conn, taken, unsure>>

Finish(res) ==
    /\ at' = "idle" /\ result' = res /\ job' = None /\ mx' = 0
    /\ UNCHANGED second

LegFails ==
    IF HasFallback /\ ~second
    THEN at' = OtherLeg /\ second' = TRUE /\ mx' = 0 /\ UNCHANGED <<job, result>>
    ELSE Finish("failed")

Count(f, n) == [f EXCEPT ![job] = @ + n]

\* smtp_send_via_relay: without settings, or when the message cannot be handed to
\* curl (no curl, no temporary file, no handle), nothing is submitted.
Relay ==
    /\ at = "relay"
    /\ \/ env.relay /\ at' = "submit" /\ UNCHANGED <<job, second, mx, result>>
       \/ LegFails
    /\ UNCHANGED <<env, conn, taken, unsure>>

\* curl does the dialogue, as a library or, in smtp_send_via_curl_cli, as a
\* program.  It gives up after a time in which the relay may have accepted the
\* message.
Submit ==
    /\ at = "submit"
    /\ \/ taken' = Count(taken, 1) /\ Finish("ok") /\ UNCHANGED unsure
       \/ taken' = Count(taken, 1) /\ unsure' = Count(unsure, 1) /\ LegFails
       \/ LegFails /\ UNCHANGED <<taken, unsure>>
    /\ UNCHANGED <<env, conn>>

\* lookup_mx: a domain without a server is taken for one itself.
LookupMx ==
    /\ at = "lookup"
    /\ \E n \in Found : mx' = IF n = 0 THEN 1 ELSE IF n > MaxMx THEN MaxMx ELSE n
    /\ at' = "connect"
    /\ UNCHANGED <<env, job, second, result, conn, taken, unsure>>

-----------------------------------------------------------------------------
(* try_send_once: the dialogue with one server. *)

HangUp == cmds' = <<>> /\ reps' = <<>> /\ mine' = FALSE

\* Variant: the same server is tried again.
AttemptFailsStays(temp) ==
    /\ HangUp /\ unsure' = IF mine THEN Count(unsure, 1) ELSE unsure
    /\ at' = "connect" /\ UNCHANGED <<job, second, mx, result>>

\* A temporary failure ends the direct way; after another failure the next
\* server is tried, unless the deadline of smtp_send_direct has passed.
AttemptFails(temp) ==
    /\ HangUp /\ unsure' = IF mine THEN Count(unsure, 1) ELSE unsure
    /\ \/ ~temp /\ mx > 1 /\ at' = "connect" /\ mx' = mx - 1 /\ UNCHANGED <<job, second, result>>
       \/ LegFails

\* connect_host_port; the server greets.
Connect ==
    /\ at = "connect"
    /\ \/ /\ cmds' = <<"greet">> /\ at' = "greet"
          /\ UNCHANGED <<job, second, mx, result, reps, mine, unsure>>
       \/ AttemptFails(FALSE)
    /\ UNCHANGED <<env, taken>>

\* The command after a good answer, and the class of a good answer.
NextCmd == [greet |-> "ehlo", ehlo |-> "mail", helo |-> "mail", mail |-> "rcpt",
            rcpt |-> "data", data |-> "body", body |-> "quit"]
Wanted(c) == IF c = "data" THEN 3 ELSE 2

\* send_cmd_expect, up to the wait for an answer.
Command(c) == cmds' = Append(cmds, c) /\ at' = c /\ UNCHANGED <<job, second, mx, result, mine, unsure>>

\* Variant: a message without a final answer counts as sent.
NoReplyHopeful ==
    /\ at \in DOMAIN NextCmd
    /\ IF at = "body" THEN HangUp /\ Finish("ok") /\ UNCHANGED unsure ELSE AttemptFails(FALSE)
    /\ UNCHANGED <<env, taken>>

\* The wait is over, or the connection is lost.
NoReply ==
    /\ at \in DOMAIN NextCmd
    /\ IF at = "ehlo" THEN Command("helo") /\ UNCHANGED reps ELSE AttemptFails(FALSE)
    /\ UNCHANGED <<env, taken>>

\* An answer of class k is read in time: expect_code_class, read_smtp_reply.
ReadReply ==
    /\ at \in DOMAIN NextCmd /\ reps # <<>>
    /\ LET k == Head(reps)
           good == k = Wanted(at)
       IN \/ good /\ at = "body" /\ HangUp /\ Finish("ok") /\ UNCHANGED unsure
          \/ good /\ at # "body" /\ Command(NextCmd[at]) /\ reps' = Tail(reps)
          \/ ~good /\ at = "ehlo" /\ Command("helo") /\ reps' = Tail(reps)
          \/ ~good /\ at # "ehlo" /\ AttemptFails(k = 4 /\ at # "helo")
    /\ UNCHANGED <<env, taken>>

\* The server answers its oldest command.  It takes a message when it has
\* answered 2 to the body.
Answer ==
    /\ cmds # <<>>
    /\ \E k \in {Wanted(Head(cmds)), 4, 5} :
          /\ reps' = Append(reps, k)
          /\ IF Head(cmds) = "body" /\ k = 2 THEN mine' = TRUE /\ taken' = Count(taken, 1)
             ELSE UNCHANGED <<mine, taken>>
    /\ cmds' = Tail(cmds)
    /\ UNCHANGED <<env, leg, unsure>>

-----------------------------------------------------------------------------
(* The inductive invariant of a dialogue. *)

Talking == {"greet", "ehlo", "helo", "mail", "rcpt", "data", "body"}

OutType ==
    /\ env \in Envs /\ job \in Jobs \cup {None}
    /\ at \in Talking \cup {"idle", "relay", "submit", "lookup", "connect"}
    /\ second \in BOOLEAN /\ mx \in Nat
    /\ cmds \in Seq(Talking) /\ reps \in Seq({2, 3, 4, 5}) /\ mine \in BOOLEAN
    /\ result \in {"none", "ok", "failed"}
    /\ taken \in [Jobs -> Nat] /\ unsure \in [Jobs -> Nat]
    /\ at # "idle" => job \in Jobs /\ result = "none"

\* A late answer to EHLO puts the client one answer behind.  Only DATA is
\* answered 3, so a client that has read 3 after DATA is up to date, and the
\* next answer is the one to its message.
InStep ==
    /\ at \notin Talking => cmds = <<>> /\ reps = <<>>
    /\ at # "body" => ~mine /\ \A i \in 1..Len(cmds) : cmds[i] # "body"
    /\ at \notin {"data", "body"} =>
         /\ \A i \in 1..Len(cmds) : cmds[i] # "data"
         /\ \A i \in 1..Len(reps) : reps[i] # 3
    /\ at = "data" =>
         /\ \A i \in 1..Len(cmds) : cmds[i] = "data" => i = Len(cmds)
         /\ \A i \in 1..Len(reps) : reps[i] = 3 => i = Len(reps) /\ cmds = <<>>
    /\ at = "body" =>
         \/ cmds = <<"body">> /\ reps = <<>> /\ ~mine
         \/ cmds = <<>> /\ Len(reps) = 1 /\ (mine <=> reps[1] = 2)
    /\ mine => taken[job] > 0
=============================================================================
