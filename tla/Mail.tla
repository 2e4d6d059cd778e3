-------------------------------- MODULE Mail --------------------------------
(***************************************************************************)
(* Webmail and chat (frontend/src/handlers_mail.cc, the chat handlers of   *)
(* fe_server.cc) and the delivery of inbound mail (deliver_local of        *)
(* smtp_server.cc).  A message is a pair of columns, its metadata and its  *)
(* body, and exists for its owner once its uid is in one of the owner's    *)
(* folders.  Every request runs in a thread of some front end or SMTP      *)
(* process; the processes share nothing but the storage.  A page of one    *)
(* user is open and hears of new mail.                                     *)
(*                                                                         *)
(* The columns of a message are written under a uid no other request       *)
(* knows, so the writes that precede its listing are one step here.        *)
(***************************************************************************)
EXTENDS CasLoop

CONSTANTS
    Uids,      \* uids of messages, attachments, chat messages; names of peers
    Requests,  \* the requests made, each at most once
    Folders,   \* Folders[l]: the initial content of list l, or Nil
    Copies,    \* Copies[l]: the initial legacy copy of an indexed list l
    Whole,     \* attachments in the store at the start
    Book,      \* the contacts of the user at the start
    Watched    \* the inbox whose owner has a page open

\* A request has the fields of its kind: uid and copy are the messages that a
\* send creates, to and own the lists they go to; uid moves between the lists
\* from and to; att and dup are an attachment and the copy a send makes of it.  The
\* uid of a contact is its address.
ContactKinds == {"contact", "forget"}
ChatKinds == {"chat", "dm"}
MakingKinds == {"send", "external", "smtp"} \cup ChatKinds
ReqKinds == {"move", "purge", "upload"} \cup MakingKinds \cup ContactKinds

Of(kinds) == {r \in Requests : r.do \in kinds}
Chats == {r.uid : r \in Of(ChatKinds)}
People == Book \cup {r.uid : r \in Of(ContactKinds)}
Initial(l) == IF Folders[l] = Nil THEN {} ELSE Items(Folders[l])

\* The messages that a request creates, and the lists that it changes.
Made(r) == IF r.do \in MakingKinds THEN {r.uid, r.copy} ELSE {}
Changed(r) ==
    (IF r.do \in {"send", "smtp", "move"} \cup ChatKinds THEN {r.to} ELSE {})
    \cup (IF r.do \in {"send", "external"} THEN {r.own} ELSE {})
    \cup (IF r.do \in {"move", "purge"} THEN {r.from} ELSE {})
    \cup (IF r.do = "dm" THEN {r.mine, r.theirs} ELSE {})

ASSUME RequestAssumption ==
    /\ Watched \in Indexed /\ Nil \notin Requests /\ Nil \notin Workers
    /\ {Nil, "ended"} \cap Uids = {}
    /\ Nil \notin Seq(Uids) /\ Whole \subseteq Uids /\ Book \subseteq Uids
    /\ \A r \in Requests : r.do \in ReqKinds /\ r.uid \in Uids /\ Changed(r) \subseteq Lists
    /\ \A r \in Of(MakingKinds) : r.copy \in Uids
    /\ \A r \in Of({"send", "external"}) : r.att \in Uids /\ r.uid # r.copy
    /\ \A r \in Of({"send"}) : r.dup \in Uids
    /\ \A r \in Of({"send", "smtp"}) : r.to \in Indexed
    /\ \A r \in Of({"smtp"} \cup ChatKinds) : r.copy = r.uid
    /\ \A r \in Of({"dm"}) :
          r.peer \in Uids /\ r.me \in Uids /\ r.to \notin {r.mine, r.theirs}
    /\ \A r \in Of({"move"}) : r.from # r.to

ASSUME FolderAssumption ==
    /\ Folders \in [Lists -> Seq(Uids) \cup {Nil}] /\ Copies \in [Indexed -> Seq(Uids)]
    /\ \A l \in Indexed : Items(Copies[l]) \subseteq UNION {Initial(k) : k \in Lists}

\* Rooms and threads are cut to a length, other lists are not, and a list of
\* partners is no folder.
ASSUME CapAssumption ==
    /\ \A r \in Requests : \A l \in Changed(r) :
          Cap[l] # 0 <=> r.do \in ChatKinds /\ l = r.to
    /\ \A r \in Of({"dm"}), x \in Of({"move", "purge"}) :
          {r.mine, r.theirs} \cap Changed(x) = {}
    /\ \A l \in Lists : Cap[l] # 0 =>
          l \notin Indexed /\ (Folders[l] # Nil => Len(Folders[l]) <= Cap[l])

\* new_uid_mail and drive_new_uid take the clock in nanoseconds and a random or a
\* running number: no two are alike.  A uid is no address and no user name.
ASSUME UidAssumption ==
    /\ \A r \in Requests : \A x \in Requests \ {r} : Made(r) \cap Made(x) = {}
    /\ \A r \in Requests : Made(r) \cap People = {}
    /\ \A r \in Requests, l \in Lists : Made(r) \cap Initial(l) = {}
    /\ \A r \in Requests, x \in Of({"dm"}) : Made(r) \cap {x.peer, x.me} = {}
    /\ \A l \in Lists : Initial(l) \cap People = {}

VARIABLES
    pc,       \* pc[w]: the step of the handler that w runs
    req,      \* req[w]: the request it serves
    stored,   \* uids whose columns are stored
    blob,     \* blob[a]: the bytes of attachment a: "none", "whole" or "cut"
    lock,     \* kv_mu_ of the SMTP process
    notify,   \* notify[l]: the uid last announced to the owner of inbox l, or Nil
    stream,   \* last_notify of the page of Watched, or "ended"
    contacts, \* the column with the contacts, a set
    seen,     \* seen[w]: the contacts that w has read
    reply,    \* reply[w]: what the client was told
    acked,    \* history: uids that a success was reported for
    purged,   \* history: uids that a user asked to delete for good
    crossed   \* history: uids with two requests at a time, contacts not read,
              \* mail found in the legacy copy alone

hvars == <<pc, req, stored, blob, lock, notify, reply>>
pvars == <<stream, contacts, seen>>
mvars == <<lvars, hvars, pvars, acked, purged, crossed>>

Init ==
    /\ LoopInit(Folders, Copies)
    /\ pc = [w \in Workers |-> "idle"] /\ req = [w \in Workers |-> Nil]
    /\ stored = UNION {Initial(l) : l \in Lists}
    /\ blob = [a \in Uids |-> IF a \in Whole THEN "whole" ELSE "none"]
    /\ lock = Nil /\ notify = [l \in Indexed |-> Nil]
    /\ stream = Nil /\ contacts = Book /\ seen = [w \in Workers |-> {}]
    /\ reply = [w \in Workers |-> "none"]
    /\ acked = Book \cup UNION {Initial(l) : l \in {l \in Lists : Cap[l] = 0}}
    /\ purged = {} /\ crossed = {}

-----------------------------------------------------------------------------
At(w, label, kinds) == pc[w] = label /\ req[w].do \in kinds
Goto(w, label) == pc' = [pc EXCEPT ![w] = label]
Busy == {w \in Workers : pc[w] \notin {"idle", "done"}}

Reply(w, res) ==
    /\ Goto(w, "done")
    /\ reply' = [reply EXCEPT ![w] = res]

\* Two requests get in each other's way.
Overlap(r, x) == r.uid = x.uid \/ {r.do, x.do} \subseteq ContactKinds

\* A request arrives at an idle thread.
Request(w, r) ==
    /\ pc[w] = "idle"
    /\ \A x \in Workers : req[x] # r
    /\ Goto(w, "begin")
    /\ req' = [req EXCEPT ![w] = r]
    /\ crossed' = crossed \cup UNION {{r.uid, x.uid} :
                     x \in {x \in {req[v] : v \in Busy} : Overlap(r, x)}}
    /\ purged' = IF r.do \in {"purge", "forget"} THEN purged \cup {r.uid} ELSE purged
    /\ UNCHANGED <<lvars, stored, blob, lock, notify, reply, pvars, acked>>

-----------------------------------------------------------------------------
(* handle_send_email, deliver_local. *)

\* get_attachment_bytes, put_attachment_bytes.
BytesOf(a) == blob[a]
PutBytes(a, b) == blob' = [blob EXCEPT ![a] = b]

\* The attachment of a send exists and is the user's.
Attached(w) == req[w].do = "smtp" \/ BytesOf(req[w].att) # "none"

\* The recipient exists, and the attachment is copied for it: name, type, size
\* and chunks.  A chunk that cannot be read is left out of the copy.
Prepare(w) ==
    /\ At(w, "begin", {"send"}) /\ Attached(w)
    /\ \/ PutBytes(req[w].dup, BytesOf(req[w].att)) /\ UNCHANGED faults
       \/ Fault /\ BytesOf(req[w].att) = "whole" /\ PutBytes(req[w].dup, "cut")
    /\ Goto(w, "deliver")
    /\ UNCHANGED <<list, index, loop, misled, req, stored, lock, notify, reply,
                   pvars, acked, purged, crossed>>

\* The recipient is unknown or the storage is not available, the attachment is
\* not there, its copy fails and is deleted again, or smtp_send_external reports
\* failure.
PrepareFails(w) ==
    /\ At(w, "begin", {"send", "smtp", "external"})
    /\ Fault \/ (~Attached(w) /\ UNCHANGED faults)
    /\ Reply(w, "failed")
    /\ UNCHANGED <<list, index, loop, misled, req, stored, blob, lock, notify,
                   pvars, acked, purged, crossed>>

\* The SMTP server has checked the recipient and takes kv_mu_.
Lock(w) ==
    /\ At(w, "begin", {"smtp"})
    /\ lock = Nil
    /\ lock' = w
    /\ Goto(w, "deliver")
    /\ UNCHANGED <<lvars, req, stored, blob, notify, reply, pvars, acked, purged, crossed>>

\* The attachment is loaded, and smtp_send_external reports success (see Smtp).
Relayed(w) ==
    /\ At(w, "begin", {"external"}) /\ Attached(w)
    /\ Goto(w, "copy")
    /\ UNCHANGED <<lvars, req, stored, blob, lock, notify, reply, pvars, acked, purged, crossed>>

\* The message that the step pc[w] of a send stores, and where it lists it.
Msg(w) == IF pc[w] \in {"deliver", "delivering"} THEN req[w].uid ELSE req[w].copy
Box(w) == IF pc[w] \in {"deliver", "delivering"} THEN req[w].to ELSE req[w].own

\* Variant: the folder without the columns.
StoreMessageBare(w) ==
    /\ pc[w] \in {"deliver", "copy"}
    /\ StartLoop(w, "prepend", Box(w), Msg(w))
    /\ Goto(w, IF pc[w] = "deliver" THEN "delivering" ELSE "copying")
    /\ UNCHANGED <<list, index, faults, misled, req, stored, blob, lock, notify, reply,
                   pvars, acked, purged, crossed>>

\* store_message: the two columns, then the folder.
StoreMessage(w) ==
    /\ pc[w] \in {"deliver", "copy"}
    /\ stored' = stored \cup {Msg(w)}
    /\ StartLoop(w, "prepend", Box(w), Msg(w))
    /\ Goto(w, IF pc[w] = "deliver" THEN "delivering" ELSE "copying")
    /\ UNCHANGED <<list, index, faults, misled, req, blob, lock, notify, reply,
                   pvars, acked, purged, crossed>>

\* Variant: kv_mu_ is never released.
UnlockNever(w) == UNCHANGED lock

\* The end of the scope of kv_mu_'s guard.
Unlock(w) == lock' = IF lock = w THEN Nil ELSE lock

\* One of the two puts fails.  What the other one wrote stays, unlisted.  A
\* missing sent copy is only a warning.
StoreFails(w) ==
    /\ pc[w] \in {"deliver", "copy"}
    /\ Fault
    /\ Reply(w, IF pc[w] = "deliver" THEN "failed" ELSE "ok")
    /\ Unlock(w)
    /\ acked' = IF pc[w] = "copy" /\ req[w].do = "send"
                THEN acked \cup {req[w].uid} ELSE acked
    /\ UNCHANGED <<list, index, loop, misled, req, stored, blob, notify, pvars, purged, crossed>>

\* The message is in the recipient's inbox: announce it, without a look at the
\* outcome, and go on with the sender's copy.
Delivered(w) ==
    /\ pc[w] = "delivering" /\ loop[w].st = "yes"
    /\ EndLoop(w)
    /\ \/ notify' = [notify EXCEPT ![req[w].to] = req[w].uid] /\ UNCHANGED faults
       \/ Fault /\ UNCHANGED notify
    /\ Unlock(w)
    /\ IF req[w].do = "send"
       THEN Goto(w, "copy") /\ UNCHANGED <<reply, acked>>
       ELSE Reply(w, "ok") /\ acked' = acked \cup {req[w].uid}
    /\ UNCHANGED <<list, index, misled, req, stored, blob, pvars, purged, crossed>>

\* Variant: the sender's copy is stored all the same.
NotListedGoesOn(w) ==
    /\ pc[w] \in {"delivering", "copying"} /\ loop[w].st = "no"
    /\ EndLoop(w)
    /\ stored' = stored \ {Msg(w)}
    /\ Unlock(w)
    /\ IF pc[w] = "delivering" /\ req[w].do = "send" THEN Goto(w, "copy") /\ UNCHANGED reply
       ELSE Reply(w, "failed")
    /\ UNCHANGED <<list, index, faults, misled, req, blob, notify, pvars, acked, purged, crossed>>

\* It could not be listed: its columns are deleted, or left behind when that
\* fails too.
NotListed(w) ==
    /\ pc[w] \in {"delivering", "copying"} /\ loop[w].st = "no"
    /\ EndLoop(w)
    /\ \/ stored' = stored \ {Msg(w)} /\ UNCHANGED faults
       \/ Fault /\ UNCHANGED stored
    /\ Unlock(w)
    /\ Reply(w, IF pc[w] = "delivering" THEN "failed" ELSE "ok")
    /\ acked' = IF pc[w] = "copying" /\ req[w].do = "send"
                THEN acked \cup {req[w].uid} ELSE acked
    /\ UNCHANGED <<list, index, misled, req, blob, notify, pvars, purged, crossed>>

Copied(w) ==
    /\ pc[w] = "copying" /\ loop[w].st = "yes"
    /\ EndLoop(w)
    /\ Reply(w, "ok")
    /\ acked' = acked \cup {req[w].copy} \cup (IF req[w].do = "send" THEN {req[w].uid} ELSE {})
    /\ UNCHANGED <<list, index, faults, misled, req, stored, blob, lock, notify,
                   pvars, purged, crossed>>

-----------------------------------------------------------------------------
(* handle_delete_email, handle_restore_email. *)

\* folder_index: an empty inbox is looked up in the legacy copy.
View(l) == IF Stored(l) = <<>> /\ l \in Indexed THEN index[l] ELSE Stored(l)

\* handle_inbox and handle_get_email show the listed messages that have columns.
Shown(l) == {m \in Items(View(l)) : m \in stored}

\* handle_mail_download_attachment: the bytes of attachment a of message m.
Download(m, a) == IF \E l \in Lists : m \in Shown(l) THEN BytesOf(a) ELSE "none"

\* A move to the trash or back lists the message in its new folder first; a
\* purge takes it out of the trash.  An inbox that cannot be read is looked up in
\* the legacy copy too, and that copy may be out of date.
BeginMove(w) ==
    /\ At(w, "begin", {"move", "purge"})
    /\ \/ req[w].uid \in Items(View(req[w].from)) /\ UNCHANGED faults
       \/ /\ Fault /\ req[w].from \in Indexed
          /\ req[w].uid \in Items(index[req[w].from])
    /\ crossed' = IF req[w].uid \in Items(Stored(req[w].from)) THEN crossed
                  ELSE crossed \cup {req[w].uid}
    /\ IF req[w].do = "move"
       THEN StartLoop(w, "prepend", req[w].to, req[w].uid) /\ Goto(w, "listing")
       ELSE StartLoop(w, "remove", req[w].from, req[w].uid) /\ Goto(w, "purging")
    /\ UNCHANGED <<list, index, misled, req, stored, blob, lock, notify,
                   reply, pvars, acked, purged>>

NotInFolder(w) ==
    /\ At(w, "begin", {"move", "purge"})
    /\ \/ req[w].uid \notin Items(View(req[w].from)) /\ UNCHANGED faults
       \/ Fault
    /\ Reply(w, "failed")
    /\ UNCHANGED <<list, index, loop, misled, req, stored, blob, lock, notify,
                   pvars, acked, purged, crossed>>

\* Variant: the old entry stays.
ListedTwice(w) ==
    /\ pc[w] = "listing" /\ loop[w].st = "yes"
    /\ EndLoop(w)
    /\ Reply(w, "ok")
    /\ UNCHANGED <<list, index, faults, misled, req, stored, blob, lock, notify,
                   pvars, acked, purged, crossed>>

\* Then it is removed from the old folder.
Listed(w) ==
    /\ pc[w] = "listing" /\ loop[w].st = "yes"
    /\ StartLoop(w, "remove", req[w].from, req[w].uid)
    /\ Goto(w, "unlisting")
    /\ UNCHANGED <<list, index, faults, misled, req, stored, blob, lock, notify,
                   reply, pvars, acked, purged, crossed>>

\* If that fails, the new entry is removed again.
RollBack(w) ==
    /\ pc[w] = "unlisting" /\ loop[w].st = "no"
    /\ StartLoop(w, "remove", req[w].to, req[w].uid)
    /\ Goto(w, "rollback")
    /\ UNCHANGED <<list, index, faults, misled, req, stored, blob, lock, notify,
                   reply, pvars, acked, purged, crossed>>

\* The two columns of a purged message are deleted; one of the deletes may fail.
Purge(w) ==
    /\ pc[w] = "purging" /\ loop[w].st = "yes"
    /\ EndLoop(w)
    /\ \/ stored' = stored \ {req[w].uid} /\ Reply(w, "ok") /\ UNCHANGED faults
       \/ Fault /\ Reply(w, "failed") /\ UNCHANGED stored
    /\ UNCHANGED <<list, index, misled, req, blob, lock, notify, pvars, acked, purged, crossed>>

\* The moves and loops whose end is the end of the request.
EndMove(w) ==
    /\ \/ pc[w] = "listing" /\ loop[w].st = "no"
       \/ pc[w] = "unlisting" /\ loop[w].st = "yes"
       \/ pc[w] = "rollback" /\ loop[w].st \in {"yes", "no"}
       \/ pc[w] = "purging" /\ loop[w].st = "no"
    /\ EndLoop(w)
    /\ Reply(w, IF pc[w] = "unlisting" THEN "ok" ELSE "failed")
    /\ UNCHANGED <<list, index, faults, misled, req, stored, blob, lock, notify,
                   pvars, acked, purged, crossed>>

-----------------------------------------------------------------------------
(* handle_mail_upload_attachment, handle_chat_send, handle_chat_dm_send. *)

\* Six kinds of column; if one fails, the record is deleted.
Upload(w) ==
    /\ At(w, "begin", {"upload"})
    /\ \/ PutBytes(req[w].uid, "whole") /\ Reply(w, "ok") /\ UNCHANGED faults
       \/ Fault /\ Reply(w, "failed") /\ UNCHANGED blob
    /\ UNCHANGED <<list, index, loop, misled, req, stored, lock, notify,
                   pvars, acked, purged, crossed>>

\* handle_chat_messages, handle_chat_dm_messages, handle_chat_dms.
Posts(l) == {m \in Items(Stored(l)) : m \in stored}
Peers(l) == Items(Stored(l))

\* The columns of a chat message are stored, then its id is appended to the
\* room or thread.
ChatStore(w) ==
    /\ At(w, "begin", {"chat", "dm"})
    /\ stored' = stored \cup {req[w].uid}
    /\ StartLoop(w, "append", req[w].to, req[w].uid)
    /\ Goto(w, "appending")
    /\ UNCHANGED <<list, index, faults, misled, req, blob, lock, notify, reply,
                   pvars, acked, purged, crossed>>

ChatFails(w) ==
    /\ \/ At(w, "begin", {"chat", "dm"}) /\ Fault /\ UNCHANGED loop
       \/ /\ pc[w] \in {"appending", "peering", "peered"} /\ loop[w].st = "no"
          /\ EndLoop(w) /\ UNCHANGED faults
    /\ Reply(w, "failed")
    /\ UNCHANGED <<list, index, misled, req, stored, blob, lock, notify,
                   pvars, acked, purged, crossed>>

\* append_dm_peer, for the sender and then for the peer.
ListPeer(w) ==
    /\ pc[w] \in {"appending", "peering"} /\ req[w].do = "dm" /\ loop[w].st = "yes"
    /\ IF pc[w] = "appending"
       THEN StartLoop(w, "prepend", req[w].mine, req[w].peer) /\ Goto(w, "peering")
       ELSE StartLoop(w, "prepend", req[w].theirs, req[w].me) /\ Goto(w, "peered")
    /\ UNCHANGED <<list, index, faults, misled, req, stored, blob, lock, notify,
                   reply, pvars, acked, purged, crossed>>

ChatSent(w) ==
    /\ loop[w].st = "yes"
    /\ \/ pc[w] = "appending" /\ req[w].do = "chat"
       \/ pc[w] = "peered"
    /\ EndLoop(w)
    /\ Reply(w, "ok")
    /\ acked' = acked \cup {req[w].uid}
    /\ UNCHANGED <<list, index, faults, misled, req, stored, blob, lock, notify,
                   pvars, purged, crossed>>

-----------------------------------------------------------------------------
(* handle_contacts_add, handle_contacts_delete, handle_sse. *)

\* The column is read.  What cannot be read looks empty.
ReadContacts(w) ==
    /\ At(w, "begin", ContactKinds)
    /\ \/ seen' = [seen EXCEPT ![w] = contacts] /\ UNCHANGED <<faults, crossed>>
       \/ Fault /\ crossed' = crossed \cup contacts /\ UNCHANGED seen
    /\ Goto(w, "saving")
    /\ UNCHANGED <<list, index, loop, misled, req, stored, blob, lock, notify, reply,
                   stream, contacts, acked, purged>>

\* A plain put of the new list.
SaveContacts(w) ==
    LET new == IF req[w].do = "contact" THEN seen[w] \cup {req[w].uid}
               ELSE seen[w] \ {req[w].uid}
    IN  /\ pc[w] = "saving"
        /\ \/ /\ contacts' = new /\ Reply(w, "ok") /\ UNCHANGED faults
              /\ acked' = IF req[w].do = "contact" THEN acked \cup {req[w].uid} ELSE acked
           \/ Fault /\ contacts' \in {contacts, new} /\ Reply(w, "failed") /\ UNCHANGED acked
        /\ UNCHANGED <<list, index, loop, misled, req, stored, blob, lock, notify,
                       stream, seen, purged, crossed>>

\* The page has heard of the latest announcement, or is gone.
Heard == stream = "ended" \/ notify[Watched] \in {Nil, stream}

\* A look at the column of announcements: a new one is sent to the page.
Poll ==
    /\ ~Heard
    /\ stream' = notify[Watched]
    /\ UNCHANGED <<lvars, hvars, contacts, seen, acked, purged, crossed>>

\* The user is logged out, or the page is gone.  It makes a difference when there
\* is something to send.
StreamEnds ==
    /\ ~Heard
    /\ stream' = "ended"
    /\ UNCHANGED <<lvars, hvars, contacts, seen, acked, purged, crossed>>

-----------------------------------------------------------------------------
\* The process that serves w is killed.
Crash(w) ==
    /\ w \in Busy
    /\ Fault
    /\ Goto(w, "done") /\ EndLoop(w) /\ Unlock(w)
    /\ UNCHANGED <<list, index, misled, req, stored, blob, notify, reply,
                   pvars, acked, purged, crossed>>

Loop(w) == LoopStep(w) /\ UNCHANGED <<hvars, pvars, acked, purged, crossed>>

Step(w) ==
    \/ Loop(w)
    \/ Prepare(w) \/ PrepareFails(w) \/ Lock(w) \/ Relayed(w)
    \/ StoreMessage(w) \/ StoreFails(w) \/ Delivered(w) \/ NotListed(w) \/ Copied(w)
    \/ BeginMove(w) \/ NotInFolder(w) \/ Listed(w) \/ RollBack(w) \/ Purge(w) \/ EndMove(w)
    \/ Upload(w) \/ ChatStore(w) \/ ChatFails(w) \/ ListPeer(w) \/ ChatSent(w)
    \/ ReadContacts(w) \/ SaveContacts(w)

Next ==
    \/ \E w \in Workers : Step(w) \/ Crash(w) \/ \E r \in Requests : Request(w, r)
    \/ Poll \/ StreamEnds

Spec == Init /\ [][Next]_mvars

\* A thread that serves a request runs, and so does the one of the open page.
FairSpec == Spec /\ WF_mvars(Poll) /\ \A w \in Workers : WF_mvars(Step(w))

-----------------------------------------------------------------------------
(* Properties. *)

Labels == {"idle", "begin", "deliver", "copy", "saving", "done", "delivering", "copying",
           "listing", "unlisting", "rollback", "purging", "appending", "peering", "peered"}

\* The variables have their types, and the loops stay within their attempts.
TypeOK ==
    /\ LoopTypeOK(Uids)
    /\ pc \in [Workers -> Labels] /\ req \in [Workers -> Requests \cup {Nil}]
    /\ stored \subseteq Uids /\ blob \in [Uids -> {"none", "whole", "cut"}]
    /\ lock \in Workers \cup {Nil} /\ notify \in [Indexed -> Uids \cup {Nil}]
    /\ stream \in Uids \cup {Nil, "ended"}
    /\ contacts \subseteq Uids /\ seen \in [Workers -> SUBSET Uids]
    /\ reply \in [Workers -> {"none", "ok", "failed"}]
    /\ acked \subseteq Uids /\ purged \subseteq Uids /\ crossed \subseteq Uids

Where(m) == {l \in Lists : m \in Items(Stored(l))}
Full(l) == Cap[l] # 0 /\ Len(Stored(l)) = Cap[l]

\* What the properties make no promise for: deleted for good by its owner,
\* handled by two requests at a time, or treated as failed or absent although it
\* was not.
Excused == purged \cup crossed \cup misled
Letters == acked \ (Excused \cup Chats \cup People)

\* What was reported as delivered, saved or posted stays where its owner finds
\* it at every moment, through concurrent deliveries, moves, failed calls and
\* killed processes: a mail in one of the folders, a chat message in its room or
\* thread, unless that is full, the partners of a thread with each other, and a
\* contact in the book (store_message, handle_delete_email, append_csv_item_cas,
\* handle_contacts_add).
Kept ==
    /\ \A m \in Letters : Where(m) # {} /\ \E l \in Lists : m \in Shown(l)
    /\ \A r \in Of({"chat", "dm"}) : r.uid \in acked => r.uid \in Posts(r.to) \/ Full(r.to)
    /\ \A r \in Of({"dm"}) :
          r.uid \in acked => r.peer \in Peers(r.mine) /\ r.me \in Peers(r.theirs)
    /\ (acked \cap People) \ Excused \subseteq contacts

\* When all requests are answered and no call failed, a mail is in exactly one
\* folder: the moves of other mails through the same lists leave no second entry.
Settled ==
    Busy = {} /\ faults = 0 =>
        \A m \in Letters : Cardinality(Where(m)) = 1

\* A sender's copy never speaks of a mail that was not delivered.
NoOrphanCopy ==
    \A r \in Of({"send"}) :
        Where(r.copy) # {} => Where(r.uid) # {} \/ r.uid \in Excused

\* What a folder or room lists can be opened: the columns are there, and the
\* attachment too.  The page hears only of mail that is there.  A send that was
\* reported as failed is not listed.
Openable ==
    /\ \A r \in Of({"send", "smtp", "external", "chat", "dm"}) : \A m \in {r.uid, r.copy} :
          Where(m) # {} => m \in stored \cup Excused
    /\ \A r \in Of({"send"}) : Where(r.uid) # {} /\ r.uid \notin Excused =>
          Download(r.uid, r.dup) = "whole" \/ (Download(r.uid, r.dup) = "cut" /\ faults > 0)
    /\ stream \in stored \cup Excused \cup {Nil, "ended"}
    /\ \A w \in Workers : reply[w] = "failed" /\ req[w].do \in {"send", "smtp"} =>
          Where(req[w].uid) = {} \/ req[w].uid \in Excused

\* What README.md says of the folder indexes: they are kept consistent under
\* concurrent delivery.  A mail reported as delivered is in its folder.
ConcurrentDeliveries ==
    \A r \in Of({"send", "smtp"}) : r.uid \in acked \ Excused => Where(r.uid) # {}

\* Every request is answered, unless its process is killed, and the page catches
\* up with the announcements.
Answered ==
    /\ \A w \in Workers : w \in Busy ~> w \notin Busy
    /\ ~Heard ~> Heard
=============================================================================
