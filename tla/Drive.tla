------------------------------- MODULE Drive -------------------------------
(***************************************************************************)
(* The drive handlers of the front ends (frontend/src/fe_server.cc).  An   *)
(* object has columns of its own (name, parent, size, its bytes) and is    *)
(* found through the list of children of its folder.  The two are separate *)
(* writes, and so is the cached counter of used bytes.  Requests of        *)
(* several front ends run side by side on nothing but the storage.         *)
(*                                                                         *)
(* A path stands for the object it leads to, and the reads with which a    *)
(* handler checks a request are one step; every write is a step, except    *)
(* for columns under a uid that no other request can know.                 *)
(***************************************************************************)
EXTENDS CasLoop, Integers

CONSTANTS
    Objects,   \* uids of files and folders; the folders are the Lists
    Root,      \* the user's root folder
    Tree,      \* Tree[l]: the initial children of folder l, Nil if it is not there
    Names,     \* Names[o]: the initial name of o
    Sizes,     \* Sizes[o]: the bytes of a file, 0 for a folder
    Requests,  \* the requests made, each at most once
    Limit      \* quota_bytes at the start

\* A request has a uid, the object it creates or is about; dir is the folder it
\* is to be in, name its name to be.
Creates == {"upload", "mkdir"}
Changes == {"rename", "move", "delete"}
ReqKinds == Creates \cup Changes \cup {"status", "limit"}

InitialKids(d) == IF Tree[d] = Nil THEN {} ELSE Items(Tree[d])
InitialObjects == {Root} \cup UNION {InitialKids(d) : d \in Lists}

\* Drive lists are not cut to a length and have no copies.  The handlers refuse
\* to rename, move or delete the root.
ASSUME DriveAssumption ==
    /\ IsFiniteSet(Objects) /\ Nil \notin Objects /\ Nil \notin Seq(Objects)
    /\ Lists \subseteq Objects /\ Root \in Lists /\ Nil \notin Requests
    /\ Indexed = {} /\ \A l \in Lists : Cap[l] = 0
    /\ Sizes \in [Objects -> Nat] /\ \A l \in Lists : Sizes[l] = 0
    /\ Limit \in Nat
    /\ \A r \in Requests :
          /\ r.do \in ReqKinds /\ r.uid \in Objects
          /\ r.do \in Changes => r.uid # Root
          /\ r.do \in Creates => (r.uid \in Lists <=> r.do = "mkdir")
          /\ r.do = "limit" => r.limit \in Nat

\* drive_new_uid takes the clock in nanoseconds and a running number: a new uid is
\* no other object's.
ASSUME NewUidAssumption ==
    \A r \in Requests : r.do \in Creates =>
        /\ r.uid \notin InitialObjects
        /\ \A x \in Requests : x.do \in Creates /\ x.uid = r.uid => x = r

\* The drive is a tree at the start: each object but the root is in one folder, all
\* can be reached, a folder has a list, and its children have different names.
ASSUME TreeAssumption ==
    /\ Tree \in [Lists -> Seq(Objects) \cup {Nil}]
    /\ \A d \in Lists : Tree[d] # Nil <=> d \in InitialObjects
    /\ \A d \in Lists : Root \notin InitialKids(d)
    /\ \A d, e \in Lists : InitialKids(d) \cap InitialKids(e) # {} => d = e
    /\ \A S \in SUBSET Objects :
          Root \in S /\ (\A d \in S \cap Lists : InitialKids(d) \subseteq S)
          => InitialObjects \subseteq S
    /\ Names = [o \in Objects |-> Names[o]]
    /\ \A d \in Lists : \A x, y \in InitialKids(d) : x # y => Names[x] # Names[y]

VARIABLES
    pc, req, reply,  \* the handlers, as in Mail
    there,    \* the objects that have columns
    parent,   \* parent[o]: the parent column, Nil for the root
    name,     \* name[o]: the name column
    whole,    \* the files whose chunks are all stored
    src,      \* src[w]: the folder that w has found its object in
    nodes,    \* nodes[w]: the subtree that w still has to delete
    used,     \* used_bytes, which exists from the first upload on
    quota,    \* quota_bytes
    tally,    \* tally[w]: the change of used_bytes that w has to make
    crossed,  \* history: what two conflicting requests handled at a time
    stranded, \* history: objects a failed request left in or out of a wrong list
    gone,     \* history: objects of the subtrees that were taken out to be deleted
    raced     \* history: used_bytes was recomputed while a request changed it, or a
              \* change of it was given up

hvars == <<pc, req, reply>>
ovars == <<there, parent, name, whole, src, nodes>>
uvars == <<used, quota, tally>>
gvars == <<crossed, stranded, gone, raced>>
dvars == <<lvars, hvars, ovars, uvars, gvars>>

NoTally == [st |-> "off", delta |-> 0, old |-> 0, att |-> 0]

-----------------------------------------------------------------------------
(* The tree. *)

Kids(d) == IF d \in Lists THEN Items(Stored(d)) ELSE {}

\* The sum of the sizes: as many as there are bytes.
Bytes(S) == Cardinality(UNION {{o} \X (1..Sizes[o]) : o \in S})

\* What next leads to from o, in any number of steps.
Reach(o, next) ==
    LET Far[n \in 0..Cardinality(Objects)] ==
            IF n = 0 THEN {o} ELSE Far[n - 1] \cup UNION {next[x] : x \in Far[n - 1]}
    IN  Far[Cardinality(Objects)]

\* The lists of the folders in via.  collect_subtree looks at the type of an object
\* before it reads its list.
Links(via) == [o \in Objects |-> IF o \in via THEN Kids(o) ELSE {}]
Subtree(o) == Reach(o, Links(there))

\* What the pages show, and resolve_path: a path leads to objects with a name.
Listed == Subtree(Root)
Found == Listed \cap there

\* is_descendant_of follows the parent columns.
Above(o) == Reach(o, [x \in Objects |-> {parent[x]} \ {Nil}])

\* child_name_exists.
Taken(d, nm, skip) == \E o \in Kids(d) \ {skip} : o \in there /\ name[o] = nm

\* The check of a new name.  What cannot be read looks free.
FreeName(d, nm, skip) ==
    \/ ~Taken(d, nm, skip) /\ UNCHANGED faults
    \/ Taken(d, nm, skip) /\ Fault

\* handle_drive_list: every child, with the name that its columns give.
Listing(d) == [o \in Kids(d) |-> IF o \in there THEN name[o] ELSE Nil]

\* get_file_bytes and handle_download: a file with columns and all its chunks.
AllBytes(o) == o \in whole
Downloads(o) == o \in there \ Lists /\ AllBytes(o)

\* A path to a folder: resolve_move_destination and the like.
Destination(d) == d \in Found \cap Lists

\* put_file_chunks, and the columns of a new folder.
PutContent(o) ==
    /\ whole' = IF o \in Lists THEN whole ELSE whole \cup {o}
    /\ list' = IF o \in Lists THEN [list EXCEPT ![o] = <<>>] ELSE list

\* delete_file_bytes, and the other columns of an object.
DeleteColumns(o) ==
    /\ there' = there \ {o} /\ whole' = whole \ {o}
    /\ parent' = [parent EXCEPT ![o] = Nil]
    /\ list' = IF o \in Lists THEN [list EXCEPT ![o] = Nil] ELSE list

\* user_drive_used_bytes: the sizes of all files in the tree.
ActualBytes == Bytes(Reach(Root, Links(Objects)) \cap there)

Init ==
    /\ LoopInit(Tree, <<>>)
    /\ there = InitialObjects
    /\ parent = [o \in Objects |-> IF \E d \in Lists : o \in InitialKids(d)
                                   THEN CHOOSE d \in Lists : o \in InitialKids(d) ELSE Nil]
    /\ name = Names /\ whole = there \ Lists
    /\ used = Bytes(there) /\ quota = Limit
    /\ pc = [w \in Workers |-> "idle"] /\ req = [w \in Workers |-> Nil]
    /\ reply = [w \in Workers |-> "none"]
    /\ tally = [w \in Workers |-> NoTally] /\ nodes = [w \in Workers |-> {}]
    /\ src = [w \in Workers |-> Nil]
    /\ crossed = {} /\ stranded = {} /\ gone = {} /\ raced = FALSE

-----------------------------------------------------------------------------
At(w, label, kinds) == pc[w] = label /\ req[w].do \in kinds
Goto(w, label) == pc' = [pc EXCEPT ![w] = label]
Busy == {w \in Workers : pc[w] \notin {"idle", "done"}}

Reply(w, res) ==
    /\ Goto(w, "done")
    /\ reply' = [reply EXCEPT ![w] = res]

\* A request arrives at an idle thread.
Request(w, r) ==
    /\ pc[w] = "idle"
    /\ \A x \in Workers : req[x] # r
    /\ Goto(w, "begin")
    /\ req' = [req EXCEPT ![w] = r]
    /\ UNCHANGED <<lvars, reply, ovars, uvars, gvars>>

\* From its checks on a request acts on what it has read.  At the Shaky labels its
\* object may be in a wrong list or in none.
Shaky == {"linking", "taking", "putting", "dropping", "restoring", "unlinking"}
Labels == Shaky \cup {"idle", "begin", "place", "renaming", "counting", "deleting", "freeing",
                     "done"}
Active == {w \in Workers : pc[w] \in Shaky \cup {"renaming", "counting"}}

\* The properties make no promise for these objects.
Excused == crossed \cup stranded

\* Two requests conflict when one is about something that holds what the other is
\* about, takes it from or puts it into, or when both give out a name in a folder.
Home(w) == IF w \in Active THEN src[w] ELSE parent[req[w].uid]
Needs(w) == {req[w].uid, req[w].dir, Home(w)}
GivenNames(r) ==
    IF r.do = "move" THEN {name[r.uid]} ELSE IF r.do = "delete" THEN {} ELSE {r.name}
Conflict(v, w) ==
    \/ Subtree(req[v].uid) \cap Needs(w) # {} \/ Subtree(req[w].uid) \cap Needs(v) # {}
    \/ /\ GivenNames(req[v]) \cap GivenNames(req[w]) # {}
       /\ {req[v].dir, Home(v)} \cap {req[w].dir, Home(w)} \cap Objects # {}

\* Conflicts with requests under way do harm, and so does a request about an excused
\* object or into a folder that is being deleted.
Clashing(w) == {v \in Active : Conflict(v, w)}
Harm(w) ==
    {req[v].uid : v \in Clashing(w)}
    \cup {o \in {req[w].uid} : Clashing(w) # {} \/ o \in Excused \/ req[w].dir \in gone}
    \cup {o \in Excused : req[w].do = "delete" /\ o \in Subtree(req[w].uid)}

\* The checks of w are passed.
Commit(w) ==
    /\ crossed' = crossed \cup UNION {Subtree(o) : o \in Harm(w)}
    /\ src' = [src EXCEPT ![w] = parent[req[w].uid]]

StrandedIf(w, wrong) ==
    stranded' = IF wrong THEN stranded \cup {req[w].uid} ELSE stranded

-----------------------------------------------------------------------------
(* The counter of used bytes. *)

\* update_drive_used_bytes: a loop like the others, on a number.
StartTally(w, d) ==
    tally' = [tally EXCEPT ![w] = IF d = 0 THEN NoTally
                                  ELSE [NoTally EXCEPT !.st = "read", !.delta = d]]

TallyAgain(w) ==
    LET more == tally[w].att + 1 < Attempts
    IN  /\ tally' = IF more THEN [tally EXCEPT ![w].st = "read", ![w].att = @ + 1]
                    ELSE [tally EXCEPT ![w] = NoTally]
        /\ raced' = (raced \/ ~more)

TallyRead(w) ==
    /\ tally[w].st = "read"
    /\ \/ /\ tally' = [tally EXCEPT ![w].st = "write", ![w].old = used]
          /\ UNCHANGED <<faults, raced>>
       \/ Fault /\ TallyAgain(w)
    /\ UNCHANGED <<list, index, loop, misled, hvars, ovars, used, quota,
                   crossed, stranded, gone>>

\* Variant: a put where the code compares.
TallyWriteBlind(w) ==
    /\ tally[w].st = "write"
    /\ used' = IF tally[w].old + tally[w].delta > 0 THEN tally[w].old + tally[w].delta ELSE 0
    /\ tally' = [tally EXCEPT ![w] = NoTally]
    /\ UNCHANGED <<lvars, hvars, ovars, quota, gvars>>

\* A counter below zero is stored as zero, and the value that was read is not
\* written again.
TallyWrite(w) ==
    /\ tally[w].st = "write"
    /\ LET sum == tally[w].old + tally[w].delta
           new == IF sum > 0 THEN sum ELSE 0
           end == tally' = [tally EXCEPT ![w] = NoTally] /\ UNCHANGED <<faults, raced>>
       IN  \/ new = tally[w].old /\ end /\ UNCHANGED used
           \/ /\ new # tally[w].old /\ used = tally[w].old
              /\ used' = new
              /\ end \/ (Fault /\ TallyAgain(w))
           \/ /\ new # tally[w].old /\ used # tally[w].old
              /\ TallyAgain(w) /\ UNCHANGED <<used, faults>>
           \/ new # tally[w].old /\ Fault /\ TallyAgain(w) /\ UNCHANGED used
    /\ UNCHANGED <<list, index, loop, misled, hvars, ovars, quota,
                   crossed, stranded, gone>>

\* user_drive_used_bytes_reconciled: a plain put of what the tree adds up to.  A
\* folder that cannot be read counts nothing (total is 0), and the put may fail.
Reconcile(w, total) ==
    /\ \/ total = ActualBytes /\ used' = total /\ UNCHANGED faults
       \/ Fault /\ used' \in {used, total}
    /\ raced' = (raced \/ Busy # {w})

-----------------------------------------------------------------------------
(* handle_upload, handle_mkdir. *)

\* user_drive_used_bytes_fast recomputes a counter that it cannot read, and the
\* handler one that says no.
Recounted(size) == used + size > quota \/ faults' # faults

\* The quota is checked against the counter, or against the tree.
CheckQuota(w) ==
    /\ At(w, "begin", {"upload"})
    /\ LET size == Sizes[req[w].uid] IN
          \/ /\ used + size <= quota
             /\ Goto(w, "place")
             /\ UNCHANGED <<faults, reply, used, raced>>
          \/ \E total \in {0, ActualBytes} :
             /\ Reconcile(w, total) /\ Recounted(size)
             /\ IF total + size > quota THEN Reply(w, "failed")
                ELSE Goto(w, "place") /\ UNCHANGED reply
    /\ UNCHANGED <<list, index, loop, misled, req, ovars, quota, tally,
                   crossed, stranded, gone>>

\* Variant: the names in the folder are not looked at.
PlaceableAnyway(w) ==
    /\ pc[w] = "place" \/ At(w, "begin", {"mkdir"})
    /\ Destination(req[w].dir)
    /\ UNCHANGED <<faults, stranded>>

\* The folder is there, and has no such name.
Placeable(w) ==
    /\ pc[w] = "place" \/ At(w, "begin", {"mkdir"})
    /\ Destination(req[w].dir)
    /\ FreeName(req[w].dir, req[w].name, Nil)
    /\ StrandedIf(w, Taken(req[w].dir, req[w].name, Nil))

\* All columns of the new object, then the folder's list.
Place(w) ==
    /\ Placeable(w)
    /\ LET o == req[w].uid IN
          /\ there' = there \cup {o}
          /\ parent' = [parent EXCEPT ![o] = req[w].dir]
          /\ name' = [name EXCEPT ![o] = req[w].name]
          /\ PutContent(o)
          /\ StartLoop(w, "append", req[w].dir, o)
    /\ Commit(w)
    /\ Goto(w, "linking")
    /\ UNCHANGED <<index, misled, req, reply, nodes, uvars, gone, raced>>

\* What had been written before a failure is deleted.
PlaceFails(w) ==
    /\ \/ pc[w] = "place" \/ At(w, "begin", {"mkdir"})
    /\ \/ /\ ~Destination(req[w].dir) \/ Taken(req[w].dir, req[w].name, Nil)
          /\ UNCHANGED faults
       \/ Fault
    /\ Reply(w, "failed")
    /\ UNCHANGED <<list, index, loop, misled, req, ovars, uvars, gvars>>

Linked(w) ==
    /\ pc[w] = "linking" /\ loop[w].st = "yes"
    /\ EndLoop(w)
    /\ IF req[w].do = "upload"
       THEN StartTally(w, Sizes[req[w].uid]) /\ Goto(w, "counting") /\ UNCHANGED reply
       ELSE Reply(w, "ok") /\ UNCHANGED tally
    /\ UNCHANGED <<list, index, faults, misled, req, ovars, used, quota, gvars>>

NotLinked(w) ==
    /\ pc[w] = "linking" /\ loop[w].st = "no"
    /\ EndLoop(w)
    /\ DeleteColumns(req[w].uid)
    /\ StrandedIf(w, req[w].uid \in Kids(req[w].dir))
    /\ Reply(w, "failed")
    /\ UNCHANGED <<index, faults, misled, req, name, src, nodes, uvars,
                   crossed, gone, raced>>

\* An upload or a deletion answers when the counter is done, well or not.
Counted(w) ==
    /\ pc[w] \in {"counting", "freeing"} /\ tally[w].st = "off"
    /\ Reply(w, "ok")
    /\ UNCHANGED <<lvars, req, ovars, uvars, gvars>>

-----------------------------------------------------------------------------
(* handle_rename, handle_move. *)

BeginRename(w) ==
    /\ At(w, "begin", {"rename"})
    /\ req[w].uid \in Found
    /\ FreeName(parent[req[w].uid], req[w].name, req[w].uid)
    /\ StrandedIf(w, Taken(parent[req[w].uid], req[w].name, req[w].uid))
    /\ Commit(w)
    /\ Goto(w, "renaming")
    /\ UNCHANGED <<list, index, loop, misled, req, reply, there, parent, name, whole, nodes,
                   uvars, gone, raced>>

\* Nobody looks at the outcome of the put.
Rename(w) ==
    /\ pc[w] = "renaming"
    /\ \/ name' = [name EXCEPT ![req[w].uid] = req[w].name] /\ UNCHANGED faults
       \/ Fault /\ UNCHANGED name
    /\ Reply(w, "ok")
    /\ UNCHANGED <<list, index, loop, misled, req, there, parent, whole, src, nodes,
                   uvars, gvars>>

\* is_descendant_of: no folder goes into itself.  A parent that cannot be read
\* looks like the root.
NotInside(o, d) ==
    \/ (o \in Lists => o \notin Above(d)) /\ UNCHANGED faults
    \/ o \in Lists /\ o \in Above(d) \ {d} /\ Fault

Movable(w) ==
    LET o == req[w].uid
        d == req[w].dir
    IN  /\ o \in Found /\ Destination(d)
        /\ \/ NotInside(o, d) /\ ~Taken(d, name[o], o)
           \/ o \notin Lists \cap Above(d) /\ FreeName(d, name[o], o)

Refused(w) ==
    /\ \/ /\ At(w, "begin", {"move"})
          /\ \/ req[w].uid \notin Found \/ ~Destination(req[w].dir)
             \/ req[w].uid \in Lists \cap Above(req[w].dir)
             \/ Taken(req[w].dir, name[req[w].uid], req[w].uid)
          /\ UNCHANGED faults
       \/ /\ At(w, "begin", {"rename"})
          /\ req[w].uid \notin Found \/ Taken(parent[req[w].uid], req[w].name, req[w].uid)
          /\ UNCHANGED faults
       \/ At(w, "begin", {"delete"}) /\ req[w].uid \notin Found /\ UNCHANGED faults
       \/ At(w, "begin", ReqKinds) /\ Fault
    /\ Reply(w, "failed")
    /\ UNCHANGED <<list, index, loop, misled, req, ovars, uvars, gvars>>

\* Out of the old folder first.
BeginMove(w) ==
    /\ At(w, "begin", {"move"})
    /\ Movable(w)
    /\ LET o == req[w].uid IN
          IF parent[o] = req[w].dir
          THEN Reply(w, "ok") /\ UNCHANGED <<loop, src, crossed, stranded>>
          ELSE /\ StartLoop(w, "take", parent[o], o)
               /\ StrandedIf(w, Taken(req[w].dir, name[o], o))
               /\ Commit(w)
               /\ Goto(w, "taking") /\ UNCHANGED reply
    /\ UNCHANGED <<list, index, misled, req, there, parent, name, whole, nodes,
                   uvars, gone, raced>>

Took(w) ==
    /\ pc[w] = "taking" /\ loop[w].st = "yes"
    /\ StartLoop(w, "append", req[w].dir, req[w].uid)
    /\ Goto(w, "putting")
    /\ UNCHANGED <<list, index, faults, misled, req, reply, ovars, uvars, gvars>>

\* In the new folder: the parent column.
PutParent(w) ==
    /\ pc[w] = "putting" /\ loop[w].st = "yes"
    /\ parent' = [parent EXCEPT ![req[w].uid] = req[w].dir]
    /\ EndLoop(w)
    /\ Reply(w, "ok")
    /\ UNCHANGED <<list, index, faults, misled, req, there, name, whole, src, nodes,
                   uvars, gvars>>

\* If that fails, out of the new folder again.  The column may have been written.
PutParentFails(w) ==
    /\ pc[w] = "putting" /\ loop[w].st = "yes"
    /\ Fault
    /\ \/ UNCHANGED <<parent, stranded>>
       \/ /\ parent' = [parent EXCEPT ![req[w].uid] = req[w].dir]
          /\ StrandedIf(w, TRUE)
    /\ StartLoop(w, "drop", req[w].dir, req[w].uid)
    /\ Goto(w, "dropping")
    /\ UNCHANGED <<list, index, misled, req, reply, there, name, whole, src, nodes, uvars,
                   crossed, gone, raced>>

\* Variant: the request ends without that.
PutBackNever(w) ==
    /\ pc[w] \in {"putting", "dropping"} /\ loop[w].st \in {"yes", "no"}
    /\ pc[w] = "putting" => loop[w].st = "no"
    /\ EndLoop(w)
    /\ Reply(w, "failed")
    /\ UNCHANGED <<list, index, faults, misled, req, ovars, uvars, gvars>>

\* And back into the old one.
PutBack(w) ==
    /\ \/ pc[w] = "putting" /\ loop[w].st = "no"
       \/ pc[w] = "dropping" /\ loop[w].st \in {"yes", "no"}
    /\ StrandedIf(w, req[w].uid \in Kids(req[w].dir))
    /\ StartLoop(w, "append", src[w], req[w].uid)
    /\ Goto(w, "restoring")
    /\ UNCHANGED <<list, index, faults, misled, req, reply, ovars, uvars,
                   crossed, gone, raced>>

\* Whatever comes of that, the request has failed.
NotMoved(w) ==
    /\ \/ pc[w] \in {"taking", "unlinking"} /\ loop[w].st = "no"
       \/ pc[w] = "restoring" /\ loop[w].st \in {"yes", "no"}
    /\ StrandedIf(w, req[w].uid \notin Kids(src[w]))
    /\ EndLoop(w)
    /\ Reply(w, "failed")
    /\ UNCHANGED <<list, index, faults, misled, req, ovars, uvars, crossed, gone, raced>>

-----------------------------------------------------------------------------
(* handle_delete_path, handle_quota_status, handle_quota_update. *)

\* Variant: the objects are deleted while the folder still lists them.
BeginDeleteListed(w) ==
    /\ At(w, "begin", {"delete"})
    /\ req[w].uid \in Found
    /\ nodes' = [nodes EXCEPT ![w] = Subtree(req[w].uid)]
    /\ Goto(w, "deleting")
    /\ UNCHANGED <<lvars, req, reply, there, parent, name, whole, src, uvars, gvars>>

BeginDelete(w) ==
    /\ At(w, "begin", {"delete"})
    /\ req[w].uid \in Found
    /\ StartLoop(w, "take", parent[req[w].uid], req[w].uid)
    /\ Commit(w)
    /\ Goto(w, "unlinking")
    /\ UNCHANGED <<list, index, faults, misled, req, reply, there, parent, name, whole, nodes,
                   uvars, stranded, gone, raced>>

\* Once nothing leads to it, the subtree is collected.  A folder that cannot be
\* read looks empty.
Unlinked(w) ==
    /\ pc[w] = "unlinking" /\ loop[w].st = "yes"
    /\ \/ nodes' = [nodes EXCEPT ![w] = Subtree(req[w].uid)] /\ UNCHANGED faults
       \/ Fault /\ nodes' = [nodes EXCEPT ![w] = {req[w].uid}]
    /\ gone' = gone \cup Subtree(req[w].uid)
    /\ EndLoop(w)
    /\ Goto(w, "deleting")
    /\ UNCHANGED <<list, index, misled, req, reply, there, parent, name, whole, src,
                   uvars, crossed, stranded, raced>>

\* Variant: the loop does not get on.
DeleteNodeAgain(w) ==
    /\ pc[w] = "deleting"
    /\ \E o \in nodes[w] : DeleteColumns(o)
    /\ UNCHANGED <<index, faults, loop, misled, hvars, name, src, nodes, uvars, gvars>>

\* Children before their folders; in a cycle the order is that of the collection.
Leaves(S) ==
    LET ends == {o \in S : Kids(o) \cap S \subseteq {o}} IN IF ends = {} THEN S ELSE ends

\* Its objects are deleted from the leaves up.  Failed deletions go unnoticed.
DeleteNode(w) ==
    /\ pc[w] = "deleting"
    /\ \E o \in Leaves(nodes[w]) :
          /\ nodes' = [nodes EXCEPT ![w] = @ \ {o}]
          /\ tally' = [tally EXCEPT ![w].delta = IF o \in there THEN @ - Sizes[o] ELSE @]
          /\ \/ DeleteColumns(o) /\ UNCHANGED faults
             \/ Fault /\ UNCHANGED <<there, whole, parent, list>>
    /\ UNCHANGED <<index, loop, misled, hvars, name, src, used, quota, gvars>>

Deleted(w) ==
    /\ pc[w] = "deleting" /\ nodes[w] = {}
    /\ IF tally[w].delta = 0 THEN Reply(w, "ok") /\ UNCHANGED tally
       ELSE StartTally(w, tally[w].delta) /\ Goto(w, "freeing") /\ UNCHANGED reply
    /\ UNCHANGED <<lvars, req, ovars, used, quota, gvars>>

\* handle_quota_update ends with handle_quota_status.
QuotaRequest(w) ==
    /\ At(w, "begin", {"status", "limit"})
    /\ \E total \in {0, ActualBytes} :
          /\ Reconcile(w, total)
          /\ IF req[w].do = "limit" /\ req[w].limit < total
             THEN Reply(w, "failed") /\ UNCHANGED quota
             ELSE /\ Reply(w, "ok")
                  /\ quota' = IF req[w].do = "limit" THEN req[w].limit ELSE quota
    /\ UNCHANGED <<list, index, loop, misled, req, ovars, tally, crossed, stranded, gone>>

-----------------------------------------------------------------------------
\* The process that serves w is killed.
Crash(w) ==
    /\ w \in Busy
    /\ Fault
    /\ Goto(w, "done") /\ EndLoop(w)
    /\ tally' = [tally EXCEPT ![w] = NoTally]
    /\ nodes' = [nodes EXCEPT ![w] = {}]
    /\ StrandedIf(w, pc[w] \in Shaky)
    /\ UNCHANGED <<list, index, misled, req, reply, there, parent, name, whole, src,
                   used, quota, crossed, gone, raced>>

Loop(w) == LoopStep(w) /\ UNCHANGED <<hvars, ovars, uvars, gvars>>

Step(w) ==
    \/ Loop(w) \/ TallyRead(w) \/ TallyWrite(w)
    \/ CheckQuota(w) \/ Place(w) \/ PlaceFails(w) \/ Linked(w) \/ NotLinked(w) \/ Counted(w)
    \/ BeginRename(w) \/ Rename(w) \/ Refused(w)
    \/ BeginMove(w) \/ Took(w) \/ PutParent(w) \/ PutParentFails(w) \/ PutBack(w) \/ NotMoved(w)
    \/ BeginDelete(w) \/ Unlinked(w) \/ DeleteNode(w) \/ Deleted(w)
    \/ QuotaRequest(w)

Next ==
    \E w \in Workers : Step(w) \/ Crash(w) \/ \E r \in Requests : Request(w, r)

Spec == Init /\ [][Next]_dvars

\* A thread that serves a request runs.
FairSpec == Spec /\ \A w \in Workers : WF_dvars(Step(w))

-----------------------------------------------------------------------------
(* Properties. *)

\* The variables have their types, and the loops stay within their attempts.
TypeOK ==
    /\ LoopTypeOK(Objects)
    /\ pc \in [Workers -> Labels] /\ req \in [Workers -> Requests \cup {Nil}]
    /\ reply \in [Workers -> {"none", "ok", "failed"}]
    /\ there \subseteq Objects /\ whole \subseteq Objects
    /\ parent \in [Objects -> Objects \cup {Nil}]
    /\ src \in [Workers -> Objects \cup {Nil}] /\ nodes \in [Workers -> SUBSET Objects]
    /\ used \in Nat /\ quota \in Nat
    /\ tally \in [Workers -> [st : {"off", "read", "write"}, delta : Int, old : Nat,
                              att : 0..Attempts - 1]]
    /\ Excused \cup gone \subseteq Objects /\ raced \in BOOLEAN

Made ==
    {req[w].uid : w \in {v \in Workers : reply[v] = "ok" /\ req[v].do \in Creates}}
    \cup UNION {InitialKids(d) : d \in Lists}

\* When all requests are answered, every object that was created and not
\* deleted is in the list of exactly one folder, the one its parent column
\* names, whatever other requests did to the same lists (handle_move).
Kept ==
    Busy = {} => \A o \in Made \ (Excused \cup gone) :
        o \in there /\ {d \in Lists : o \in Kids(d)} = {parent[o]}

\* What a path leads to can be opened at every moment: it has its columns, and
\* a file all its bytes.  Uploads list the file last, deletions unlist it first.
Whole == \A o \in Listed \ Excused : IF o \in Lists THEN o \in there ELSE Downloads(o)

\* A folder has no two children of the same name.
UniqueNames ==
    \A d \in Found \cap Lists : \A x, y \in Kids(d) \ Excused :
        x # y => Listing(d)[x] # Listing(d)[y]

\* When all requests are answered and no call failed, the counter is what the
\* tree adds up to, unless it was recomputed while another request was changing
\* it (update_drive_used_bytes).
UsedExact ==
    Busy = {} /\ faults = 0 /\ ~raced /\ Excused = {} => used = ActualBytes

\* Every request is answered, unless its process is killed.
Answered == \A w \in Workers : w \in Busy ~> w \notin Busy
=============================================================================
