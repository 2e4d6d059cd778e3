-------------------------------- MODULE Smtp --------------------------------
(***************************************************************************)
(* A connection to the SMTP server (smtp_server.cc): the command automaton *)
(* of handle_client, and handle_data_mode, which hands the message to one  *)
(* recipient after the other, to local mailboxes through deliver_local     *)
(* (detailed in Mail) and to other domains through SmtpOut.  Connections   *)
(* share only the lock of deliver_local, which Mail models.                *)
(*                                                                         *)
(* A command that is refused changes nothing, as do NOOP and unknown ones. *)
(***************************************************************************)
EXTENDS SmtpOut, FiniteSets, Functions

CONSTANTS
    Local, Remote,  \* recipients with a mailbox here, and in other domains
    Msgs,           \* bound: messages sent over the connection
    MaxRcpts        \* bound: recipients of all messages sent over it

ASSUME SmtpAssumption ==
    /\ Local \cap Remote = {} /\ MaxRcpts \in Nat
    /\ Jobs = Msgs \X Remote

\* No answer yet is not an answer.
ASSUME AnswerAssumption == None \notin {"250", "550"}

VARIABLES
    greeted, from,  \* Session::greeted; mail_from is set
    rcpts,          \* Session::rcpt_to
    mode,           \* "command", "data", "deliver" or "closed"
    msg,            \* the message being received or handed out, or None
    next,           \* the recipient to be served next
    allok,          \* all_ok
    waiting,        \* the job of the present recipient is at SmtpOut
    peer,           \* the client is there
    box,            \* box[m, r]: copies of m in the mailbox of r
    blurred,        \* history: blurred[m, r]: copies put there by a failed delivery
    asked,          \* history: the recipients the client was granted since MAIL or RSET
    meant,          \* history: meant[m]: the recipients granted for message m
    told            \* history: told[m]: the final answer, or None

session == <<greeted, from, rcpts, mode, msg, next, allok, waiting, peer>>
mail == <<box, blurred>>
view == <<asked, meant, told>>
vars == <<outvars, session, mail, view>>

SmtpInit ==
    /\ OutInit
    /\ greeted = FALSE /\ from = FALSE /\ rcpts = <<>> /\ mode = "command"
    /\ msg = None /\ next = 1 /\ allok = TRUE /\ waiting = FALSE /\ peer = TRUE
    /\ box = [x \in Msgs \X Local |-> 0] /\ blurred = box
    /\ asked = <<>> /\ meant = [m \in Msgs |-> <<>>] /\ told = [m \in Msgs |-> None]

-----------------------------------------------------------------------------
(* handle_client *)

\* Variant: the recipients stay.
ResetMessageKeeps(f) == from' = f /\ UNCHANGED rcpts

\* reset_message_state; then mail_from is set, or not.
ResetMessage(f) == from' = f /\ rcpts' = <<>>

\* HELO or EHLO, also in the middle of a message.
Helo ==
    /\ mode = "command" /\ peer /\ ~greeted
    /\ greeted' = TRUE
    /\ UNCHANGED <<outvars, from, rcpts, mode, msg, next, allok, waiting, peer, mail, view>>

\* MAIL FROM with an address (f) and RSET.
MailFrom(f) ==
    /\ mode = "command" /\ peer /\ (f => greeted)
    /\ ResetMessage(f)
    /\ asked' = <<>>
    /\ UNCHANGED <<outvars, greeted, mode, msg, next, allok, waiting, peer, mail, meant, told>>

\* Recipients of the messages sent so far.
Granted == SumFunction([m \in Msgs |-> Len(meant[m])])

\* RCPT TO with a recipient that is external or has an account; an unknown one,
\* or one that cannot be looked up, is refused.
RcptTo(r) ==
    /\ mode = "command" /\ peer /\ from
    /\ Len(asked) + Granted < MaxRcpts
    /\ rcpts' = Append(rcpts, r) /\ asked' = Append(asked, r)
    /\ UNCHANGED <<outvars, greeted, from, mode, msg, next, allok, waiting, peer, mail, meant, told>>

\* DATA; the client sends a message that it has not sent before.
Data(m) ==
    /\ mode = "command" /\ peer /\ rcpts # <<>>
    /\ meant[m] = <<>>
    /\ mode' = "data" /\ msg' = m
    /\ UNCHANGED <<outvars, greeted, from, rcpts, next, allok, waiting, peer, mail, view>>

\* QUIT, or the end of the connection before a message is complete.
Close ==
    /\ mode \in {"command", "data"}
    /\ mode' = "closed" /\ msg' = None
    /\ UNCHANGED <<outvars, greeted, from, rcpts, next, allok, waiting, peer, mail, view>>

\* The client goes away while its message is handed out; the server will notice
\* when it answers.
PeerGone ==
    /\ mode = "deliver" /\ peer
    /\ peer' = FALSE
    /\ UNCHANGED <<outvars, greeted, from, rcpts, mode, msg, next, allok, waiting, mail, view>>

-----------------------------------------------------------------------------
(* handle_data_mode *)

\* The line with a dot.
EndData ==
    /\ mode = "data"
    /\ mode' = "deliver" /\ next' = 1 /\ allok' = TRUE
    /\ meant' = [meant EXCEPT ![msg] = asked] /\ asked' = <<>>
    /\ UNCHANGED <<outvars, greeted, from, rcpts, msg, waiting, peer, mail, told>>

Serving == mode = "deliver" /\ next <= Len(rcpts)

Record(ok) == next' = next + 1 /\ allok' = (allok /\ ok)

\* deliver_local; a failed delivery may have stored the message.
DeliverLocal ==
    /\ Serving /\ rcpts[next] \in Local
    /\ LET x == <<msg, rcpts[next]>>
       IN \/ Record(TRUE) /\ box' = [box EXCEPT ![x] = @ + 1] /\ UNCHANGED blurred
          \/ Record(FALSE) /\ UNCHANGED mail
          \/ /\ Record(FALSE) /\ box' = [box EXCEPT ![x] = @ + 1]
             /\ blurred' = [blurred EXCEPT ![x] = @ + 1]
    /\ UNCHANGED <<outvars, greeted, from, rcpts, mode, msg, waiting, peer, view>>

\* smtp_send_external is called, and runs in this thread.
SendOut ==
    /\ Serving /\ rcpts[next] \in Remote /\ ~waiting
    /\ StartSend(<<msg, rcpts[next]>>)
    /\ waiting' = TRUE
    /\ UNCHANGED <<greeted, from, rcpts, mode, msg, next, allok, peer, mail, view>>

OutMx == (LookupMx \/ Connect) /\ UNCHANGED <<session, mail, view>>
OutDialogue == (NoReply \/ ReadReply) /\ UNCHANGED <<session, mail, view>>
OutRelay == Relay /\ UNCHANGED <<session, mail, view>>
OutSubmit == Submit /\ UNCHANGED <<session, mail, view>>
OutAnswer == Answer /\ UNCHANGED <<session, mail, view>>

SentOut ==
    /\ waiting /\ at = "idle"
    /\ Record(result = "ok")
    /\ waiting' = FALSE
    /\ UNCHANGED <<outvars, greeted, from, rcpts, mode, msg, peer, mail, view>>

\* The state of the message is reset and the client answered: 250 or 550.
Conclude ==
    /\ mode = "deliver" /\ next > Len(rcpts)
    /\ ResetMessage(FALSE)
    /\ IF peer THEN /\ mode' = "command"
                    /\ told' = [told EXCEPT ![msg] = IF allok THEN "250" ELSE "550"]
       ELSE mode' = "closed" /\ UNCHANGED told
    /\ msg' = None
    /\ UNCHANGED <<outvars, greeted, next, allok, waiting, peer, mail, asked, meant>>

ServerStep ==
    DeliverLocal \/ SendOut \/ OutMx \/ OutDialogue \/ OutRelay \/ OutSubmit \/ SentOut \/ Conclude

SmtpNext ==
    \/ Helo \/ Close \/ PeerGone \/ EndData
    \/ \E f \in BOOLEAN : MailFrom(f)
    \/ \E r \in Local \cup Remote : RcptTo(r)
    \/ \E m \in Msgs : Data(m)
    \/ ServerStep \/ OutAnswer

SmtpSpec == SmtpInit /\ [][SmtpNext]_vars

\* The server's thread runs, and its reads and writes time out.
SmtpFairSpec == SmtpSpec /\ WF_vars(ServerStep)

-----------------------------------------------------------------------------
(* Properties. *)

\* The copies of message m that r has.
Got(m, r) == IF r \in Local THEN box[<<m, r>>] ELSE taken[<<m, r>>]
Doubtful(m, r) == IF r \in Local THEN blurred[<<m, r>>] ELSE unsure[<<m, r>>]
Times(m, r) == Cardinality({i \in 1..Len(meant[m]) : meant[m][i] = r})

\* A client that hears 250 for its message knows that every recipient it was
\* granted has it, in a mailbox or at a server that took it over, late answers
\* and fallbacks notwithstanding (handle_data_mode, try_send_once).
Delivered250 ==
    \A m \in Msgs : told[m] = "250" =>
        \A i \in 1..Len(meant[m]) : Got(m, meant[m][i]) > 0

\* Nobody gets a message that was not meant for them, and nobody gets it more
\* often than it was asked for, but for attempts that took effect and looked
\* failed (reset_message_state, smtp_send_direct, smtp_send_external).
OneCopy ==
    \A m \in Msgs, r \in Local \cup Remote : Got(m, r) <= Times(m, r) + Doubtful(m, r)

\* The delivery of a message ends, whatever the servers do.
Concluded == mode = "deliver" ~> mode # "deliver"

-----------------------------------------------------------------------------
(* The inductive invariant. *)

Rcpts == Local \cup Remote

SmtpTypeOK ==
    /\ OutType
    /\ {greeted, from, allok, waiting, peer} \subseteq BOOLEAN
    /\ rcpts \in Seq(Rcpts) /\ asked \in Seq(Rcpts) /\ meant \in [Msgs -> Seq(Rcpts)]
    /\ mode \in {"command", "data", "deliver", "closed"}
    /\ mode \in {"data", "deliver"} => msg \in Msgs
    /\ next \in 1..(Len(rcpts) + 1) \/ mode # "deliver"
    /\ next \in Nat
    /\ box \in [Msgs \X Local -> Nat] /\ blurred \in [Msgs \X Local -> Nat]
    /\ DOMAIN told = Msgs

\* The recipients the server has are the ones the client was granted.
ViewInv ==
    /\ mode \in {"command", "data"} => asked = rcpts
    /\ mode = "data" => rcpts # <<>> /\ meant[msg] = <<>>
    /\ mode = "deliver" => rcpts # <<>> /\ meant[msg] = rcpts /\ asked = <<>>
    /\ \A m \in Msgs : told[m] \in {"250", "550"} =>
         meant[m] # <<>> /\ (mode = "deliver" => m # msg)

\* The thread that waits is the one that serves the recipient of the job.
JobInv ==
    /\ waiting => Serving /\ rcpts[next] \in Remote
    /\ at # "idle" => waiting /\ job = <<msg, rcpts[next]>>

\* While all is well, every recipient served so far has the message.
ServedInv ==
    /\ mode = "deliver" /\ allok => \A i \in 1..(next - 1) : Got(msg, rcpts[i]) > 0
    /\ waiting /\ at = "idle" /\ result = "ok" => Got(msg, rcpts[next]) > 0

\* The recipients of m served so far, and the copy that the present job has
\* handed over and not yet reported.
Served(m) == IF mode = "deliver" /\ m = msg THEN next - 1 ELSE Len(meant[m])
ServedTimes(m, r) == Cardinality({i \in 1..Served(m) : meant[m][i] = r})
Pending(m, r) ==
    /\ waiting /\ m = msg /\ r = rcpts[next]
    /\ mine \/ (at = "idle" /\ result = "ok")

CopiesInv ==
    \A m \in Msgs, r \in Rcpts :
        Got(m, r) <= ServedTimes(m, r) + Doubtful(m, r) + (IF Pending(m, r) THEN 1 ELSE 0)
=============================================================================
