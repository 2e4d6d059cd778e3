----------------------------- MODULE MailProofs -----------------------------
(***************************************************************************)
(* Proofs about Mail, for any users, folders, requests, workers, attempts  *)
(* and faults: what is listed can be opened (Openable), what was           *)
(* acknowledged stays (Kept), and no sender's copy speaks of a mail that   *)
(* was not delivered (NoOrphanCopy).                                       *)
(*                                                                         *)
(* A step is a step of a loop (CasLoopProofs), a turn of a handler between *)
(* two loops (Turn), a new request, or a look of the open page.            *)
(***************************************************************************)
EXTENDS Mail, CasLoopProofs

-----------------------------------------------------------------------------
(* Handlers and their loops. *)

Looping == {"delivering", "copying", "listing", "unlisting", "rollback", "purging",
            "appending", "peering", "peered"}

\* The loop that request r runs at a label: its kind, its list and its item.
KindAt(p) ==
    IF p \in {"unlisting", "rollback", "purging"} THEN "remove"
    ELSE IF p = "appending" THEN "append" ELSE "prepend"
ListAt(p, r) ==
    CASE p \in {"delivering", "listing", "rollback", "appending"} -> r.to
      [] p = "copying" -> r.own
      [] p \in {"unlisting", "purging"} -> r.from
      [] p = "peering" -> r.mine
      [] p = "peered"  -> r.theirs
ItemAt(p, r) ==
    CASE p = "copying" -> r.copy
      [] p = "peering" -> r.peer
      [] p = "peered"  -> r.me
      [] OTHER -> r.uid

\* The loop at the start of a label.
LoopAt(p, r) ==
    IF p \in Looping
    THEN [NoLoop EXCEPT !.st = "read", !.kind = KindAt(p), !.on = ListAt(p, r),
                        !.item = ItemAt(p, r)]
    ELSE NoLoop

\* The requests that come to a label.
KindsAt(p) ==
    CASE p \in {"deliver", "delivering"} -> {"send", "smtp"}
      [] p \in {"copy", "copying"} -> {"send", "external"}
      [] p \in {"listing", "unlisting", "rollback"} -> {"move"}
      [] p = "purging" -> {"purge"}
      [] p = "appending" -> ChatKinds
      [] p \in {"peering", "peered"} -> {"dm"}
      [] p = "saving" -> ContactKinds
      [] OTHER -> ReqKinds

\* A handler and its loop fit together, and every request has one worker.
StageInv ==
    \A w \in Workers :
        /\ pc[w] = "idle" <=> req[w] = Nil
        /\ pc[w] # "idle" => req[w].do \in KindsAt(pc[w])
        /\ pc[w] \notin Looping => loop[w] = NoLoop
        /\ pc[w] \in Looping =>
              /\ loop[w].st # "off" /\ loop[w].kind = KindAt(pc[w])
              /\ loop[w].on = ListAt(pc[w], req[w]) /\ loop[w].item = ItemAt(pc[w], req[w])
        /\ pc[w] # "done" => reply[w] = "none"
        /\ \A x \in Workers \ {w} : req[w] # Nil => req[x] # req[w]

\* The fields of a request.
LEMMA RequestTypes ==
    ASSUME NEW r \in Requests
    PROVE  /\ r.do \in ReqKinds /\ r.uid \in Uids
           /\ r.do \in MakingKinds => r.copy \in Uids /\ Made(r) = {r.uid, r.copy}
           /\ r.do \in {"send", "smtp", "move"} \cup ChatKinds => r.to \in Lists /\ r.to \in Changed(r)
           /\ r.do \in {"send", "external"} =>
                 r.own \in Lists /\ r.own \in Changed(r) /\ r.att \in Uids /\ r.uid # r.copy
           /\ r.do \in {"move", "purge"} => r.from \in Lists /\ r.from \in Changed(r)
           /\ r.do = "dm" => /\ r.mine \in Lists /\ r.theirs \in Lists
                             /\ r.mine \in Changed(r) /\ r.theirs \in Changed(r)
                             /\ r.peer \in Uids /\ r.me \in Uids
                             /\ r.mine # r.to /\ r.theirs # r.to
           /\ r.do = "send" => r.dup \in Uids
           /\ r.do \in {"send", "smtp"} => r.to \in Indexed
           /\ r.do \in {"smtp"} \cup ChatKinds => r.copy = r.uid
           /\ r.do = "move" => r.from # r.to
  BY RequestAssumption DEF Changed, Of, Made

\* The loop of a label works on a list of the request.
LEMMA TaskTypes ==
    ASSUME NEW r \in Requests, NEW p \in Looping, r.do \in KindsAt(p)
    PROVE  /\ KindAt(p) \in Kinds
           /\ ListAt(p, r) \in Lists /\ ListAt(p, r) \in Changed(r)
           /\ ItemAt(p, r) \in Uids
           /\ (Cap[ListAt(p, r)] # 0 <=> p = "appending")
<1>0. Looping = {"delivering", "copying", "listing", "unlisting", "rollback", "purging",
            "appending", "peering", "peered"}
  BY DEF Looping
<1>1. r.do = "chat" \/ r.do = "dm" <=> r.do \in ChatKinds
  BY DEF ChatKinds
<1>2. /\ KindAt(p) \in Kinds
      /\ ListAt(p, r) \in Lists /\ ListAt(p, r) \in Changed(r)
      /\ ItemAt(p, r) \in Uids
  <2>1. KindAt(p) \in Kinds
    BY DEF KindAt, Kinds
  <2>2. ListAt(p, r) \in Lists /\ ListAt(p, r) \in Changed(r)
    BY <1>0, <1>1, RequestTypes DEF ListAt, KindsAt
  <2>3. ItemAt(p, r) \in Uids
    BY <1>0, <1>1, RequestTypes DEF ItemAt, KindsAt, MakingKinds
  <2> QED BY <2>1, <2>2, <2>3
<1>3. Cap[ListAt(p, r)] # 0 <=> r.do \in ChatKinds /\ ListAt(p, r) = r.to
  BY <1>2, CapAssumption
<1>4. p = "appending" => r.do \in ChatKinds /\ ListAt(p, r) = r.to
  BY DEF KindsAt, ListAt
<1>5. r.do \in ChatKinds /\ ListAt(p, r) = r.to => p = "appending"
  BY <1>0, <1>1, RequestTypes DEF KindsAt, ListAt
<1> QED BY <1>2, <1>3, <1>4, <1>5

\* The loop at the start of a label.
LEMMA LoopAtTypes ==
    ASSUME NEW r \in Requests, NEW p \in Labels, p \in Looping => r.do \in KindsAt(p)
    PROVE  /\ LoopAt(p, r) \in LoopStates(Uids)
           /\ LoopAt(p, r).old = <<>> /\ ~LoopAt(p, r).hit
           /\ p \notin Looping => LoopAt(p, r) = NoLoop /\ LoopAt(p, r).st = "off"
           /\ p \in Looping =>
                 /\ LoopAt(p, r).st = "read"
                 /\ LoopAt(p, r).kind = KindAt(p) /\ LoopAt(p, r).on = ListAt(p, r)
                 /\ LoopAt(p, r).item = ItemAt(p, r)
<1>1. NoLoop \in LoopStates(Uids) /\ NoLoop.old = <<>> /\ ~NoLoop.hit /\ NoLoop.st = "off"
  <2>1. 0 \in 0..Attempts - 1
    BY LoopAssumption
  <2>2. <<>> \in Seq(Uids)
    OBVIOUS
  <2> QED BY <2>1, <2>2 DEF NoLoop, LoopStates, Kinds
<1>2. CASE p \notin Looping
  BY <1>1, <1>2 DEF LoopAt
<1>3. CASE p \in Looping
  <2>1. KindAt(p) \in Kinds /\ ListAt(p, r) \in Lists /\ ItemAt(p, r) \in Uids
    BY <1>3, TaskTypes
  <2> DEFINE q == [NoLoop EXCEPT !.st = "read", !.kind = KindAt(p), !.on = ListAt(p, r),
                        !.item = ItemAt(p, r)]
  <2>2. LoopAt(p, r) = q
    BY <1>3 DEF LoopAt
  <2>3. q \in LoopStates(Uids)
    BY <1>1, <2>1 DEF LoopStates
  <2>4. q.old = <<>> /\ q.hit = FALSE /\ q.st = "read" /\ q.kind = KindAt(p)
        /\ q.on = ListAt(p, r) /\ q.item = ItemAt(p, r)
    BY DEF NoLoop
  <2> HIDE DEF q
  <2> QED BY <1>3, <2>2, <2>3, <2>4
<1> QED BY <1>2, <1>3

-----------------------------------------------------------------------------
(* Turns: the steps of a handler outside its loops. *)

\* What a turn of w leaves alone.
Frame(w) ==
    /\ list' = list /\ index' = index /\ misled' = misled /\ req' = req
    /\ stream' = stream /\ purged' = purged
    /\ crossed \subseteq crossed' /\ faults <= faults'
    /\ w \in Busy
    /\ \A x \in Workers \ {w} : /\ pc'[x] = pc[x] /\ loop'[x] = loop[x]
                                /\ reply'[x] = reply[x] /\ seen'[x] = seen[x]
    /\ loop'[w] = LoopAt(pc'[w], req[w])
    /\ pc'[w] # "done" => reply'[w] = reply[w]

\* Mail m is in list l or, as far as the copy tells, may be.
Found(m, l) == m \in Items(Stored(l)) \/ (l \in Indexed /\ m \in Items(index[l]))

\* From which label to which, and what is known then.
Hop(w) ==
    LET p == pc[w]
        q == pc'[w]
        s == loop[w].st
        r == req[w]
    IN  \/ q = "done"
        \/ p = "begin" /\ q = "deliver" /\ r.do = "send" /\ blob'[r.dup] # "none"
        \/ p = "begin" /\ q = "deliver" /\ r.do = "smtp"
        \/ p = "begin" /\ q = "copy" /\ r.do = "external"
        \/ /\ p = "begin" /\ q = "listing" /\ r.do = "move" /\ Found(r.uid, r.from)
           /\ r.uid \in Items(Stored(r.from)) \cup crossed'
        \/ p = "begin" /\ q = "purging" /\ r.do = "purge" /\ Found(r.uid, r.from)
        \/ p = "begin" /\ q = "appending" /\ r.do \in ChatKinds
        \/ /\ p = "begin" /\ q = "saving" /\ r.do \in ContactKinds
           /\ seen'[w] = contacts \/ contacts \subseteq crossed'
        \/ p = "deliver" /\ q = "delivering"
        \/ p = "copy" /\ q = "copying"
        \/ p = "delivering" /\ q = "copy" /\ s = "yes" /\ r.do = "send"
        \/ p = "listing" /\ q = "unlisting" /\ s = "yes"
        \/ p = "unlisting" /\ q = "rollback" /\ s = "no"
        \/ p = "appending" /\ q = "peering" /\ s = "yes" /\ r.do = "dm"
        \/ p = "peering" /\ q = "peered" /\ s = "yes"

\* A turn of w deletes the columns of m: purged for good, or never listed.
Drops(w, m) ==
    /\ pc'[w] = "done"
    /\ \/ pc[w] = "purging" /\ m = req[w].uid
       \/ pc[w] \in {"delivering", "copying"} /\ loop[w].st = "no" /\ m = loop[w].item

\* A turn of w reports success for m.
Earns(w, m) ==
    LET r == req[w]
        s == loop[w].st
    IN  /\ pc'[w] = "done"
        /\ \/ pc[w] \in {"copy", "copying"} /\ r.do = "send" /\ m = r.uid
           \/ pc[w] = "delivering" /\ s = "yes" /\ r.do = "smtp" /\ m = r.uid
           \/ pc[w] = "copying" /\ s = "yes" /\ m = r.copy
           \/ pc[w] = "appending" /\ s = "yes" /\ r.do = "chat" /\ m = r.uid
           \/ pc[w] = "peered" /\ s = "yes" /\ m = r.uid
           \/ pc[w] = "saving" /\ r.do = "contact" /\ m = r.uid /\ m \in contacts'

\* What a turn of w stores and reports.
Books(w) ==
    /\ \A m \in stored \ stored' : Drops(w, m)
    /\ pc'[w] \in {"delivering", "copying", "appending"} => ItemAt(pc'[w], req[w]) \in stored'
    /\ acked \subseteq acked' /\ \A m \in acked' \ acked : Earns(w, m)
    /\ \A l \in Indexed : \/ notify'[l] = notify[l]
                          \/ /\ pc[w] = "delivering" /\ loop[w].st = "yes"
                             /\ notify'[l] = req[w].uid
    /\ \A a \in Uids : (blob[a] # "none" => blob'[a] # "none")
                       /\ (blob'[a] = "cut" => faults' > 0 \/ \E b \in Uids : blob[b] = "cut")
    /\ \/ contacts' = contacts
       \/ /\ pc[w] = "saving" /\ pc'[w] = "done"
          /\ contacts' = IF req[w].do = "contact" THEN seen[w] \cup {req[w].uid}
                         ELSE seen[w] \ {req[w].uid}
    /\ reply'[w] = "failed" /\ req[w].do \in {"send", "smtp"} =>
          \/ reply[w] = "failed" \/ pc[w] \in {"begin", "deliver"}
          \/ pc[w] = "delivering" /\ loop[w].st = "no"

Turn(w) == Frame(w) /\ Hop(w) /\ Books(w)

\* What is known of a worker that serves a request.
LEMMA BusyTypes ==
    ASSUME TypeOK, StageInv, NEW w \in Workers, pc[w] \notin {"idle", "done"}
    PROVE  /\ w \in Busy /\ req[w] \in Requests /\ req[w].do \in KindsAt(pc[w])
           /\ pc[w] \in Labels /\ reply[w] = "none"
           /\ pc[w] \notin Looping => loop[w] = NoLoop
<1>1. req[w] \in Requests \cup {Nil} /\ pc[w] \in Labels
  BY DEF TypeOK
<1>2. req[w] # Nil
  BY DEF StageInv
<1> QED BY <1>1, <1>2 DEF StageInv, Busy

\* A turn keeps the types of the lists and loops.
LEMMA TurnLoopTypes ==
    ASSUME TypeOK, NEW w \in Workers, NEW r \in Requests, NEW p \in Labels,
           p \in Looping => r.do \in KindsAt(p),
           loop' = [loop EXCEPT ![w] = LoopAt(p, r)],
           list' = list, index' = index, misled' = misled, faults' \in 0..MaxFaults
    PROVE  LoopTypeOK(Uids)'
<1>1. LoopTypeOK(Uids)
  BY DEF TypeOK
<1>2. LoopAt(p, r) \in LoopStates(Uids)
  BY LoopAtTypes
<1>3. loop \in [Workers -> LoopStates(Uids)]
  BY <1>1 DEF LoopTypeOK
<1>4. loop' \in [Workers -> LoopStates(Uids)]
  BY <1>2, <1>3
<1>5. ASSUME NEW x \in Workers, loop'[x].st # "off"
      PROVE  loop'[x].on \in Lists /\ loop'[x].item \in Uids
  <2>1. CASE x = w
    <3>1. loop'[x] = LoopAt(p, r)
      BY <1>3, <2>1
    <3>2. p \in Looping
      BY <1>5, <3>1, LoopAtTypes
    <3> QED BY <3>1, <3>2, LoopAtTypes, TaskTypes
  <2>2. CASE x # w
    BY <1>1, <1>3, <1>5, <2>2 DEF LoopTypeOK
  <2> QED BY <2>1, <2>2
<1> QED BY <1>1, <1>4, <1>5 DEF LoopTypeOK

\* The faults after a turn.
LEMMA TurnFaults ==
    ASSUME TypeOK, Fault \/ UNCHANGED faults
    PROVE  faults' \in 0..MaxFaults /\ faults <= faults' /\ (Fault => faults' > 0)
<1>1. LoopTypeOK(Uids)
  BY DEF TypeOK
<1>2. faults \in 0..MaxFaults /\ MaxFaults \in Nat
  BY <1>1, LoopAssumption DEF LoopTypeOK
<1> QED BY <1>2 DEF Fault

\* The part that the turns have in common: w comes to label p.
Shape(w, p) ==
    /\ pc' = [pc EXCEPT ![w] = p] /\ loop' = [loop EXCEPT ![w] = LoopAt(p, req[w])]
    /\ \/ reply' = reply
       \/ p = "done" /\ \E res \in {"ok", "failed"} : reply' = [reply EXCEPT ![w] = res]
    /\ seen' = seen \/ \E s \in SUBSET Uids : seen' = [seen EXCEPT ![w] = s]
    /\ list' = list /\ index' = index /\ misled' = misled /\ req' = req /\ stream' = stream
    /\ purged' = purged /\ crossed \subseteq crossed' /\ crossed' \subseteq Uids
    /\ Fault \/ UNCHANGED faults
    /\ stored' \subseteq Uids /\ acked' \subseteq Uids /\ contacts' \subseteq Uids
    /\ lock' \in Workers \cup {Nil} /\ notify' \in [Indexed -> Uids \cup {Nil}]
    /\ blob' \in [Uids -> {"none", "whole", "cut"}]

\* A turn of that shape keeps the types and leaves the other workers alone.
LEMMA TurnFrame ==
    ASSUME TypeOK, StageInv, NEW w \in Workers, w \in Busy,
           NEW p \in Labels \ {"idle"}, p \in Looping => req[w].do \in KindsAt(p),
           Shape(w, p)
    PROVE  TypeOK' /\ Frame(w) /\ pc'[w] = p
<1>1. pc[w] \notin {"idle", "done"}
  BY DEF Busy
<1>2. req[w] \in Requests
  BY <1>1, BusyTypes
<1>3. faults' \in 0..MaxFaults /\ faults <= faults'
  BY TurnFaults DEF Shape
<1>4. LoopTypeOK(Uids)'
  BY <1>2, <1>3, TurnLoopTypes DEF Shape
<1>5. loop \in [Workers -> LoopStates(Uids)] /\ pc \in [Workers -> Labels]
      /\ reply \in [Workers -> {"none", "ok", "failed"}] /\ seen \in [Workers -> SUBSET Uids]
  BY DEF TypeOK, LoopTypeOK
<1>6. loop'[w] = LoopAt(p, req[w]) /\ \A x \in Workers \ {w} : loop'[x] = loop[x]
  BY <1>5 DEF Shape
<1>7. pc' \in [Workers -> Labels] /\ pc'[w] = p /\ \A x \in Workers \ {w} : pc'[x] = pc[x]
  BY <1>5 DEF Shape
<1>8. /\ reply' \in [Workers -> {"none", "ok", "failed"}]
      /\ \A x \in Workers \ {w} : reply'[x] = reply[x]
      /\ p # "done" => reply'[w] = reply[w]
  BY <1>5 DEF Shape
<1>9. seen' \in [Workers -> SUBSET Uids] /\ \A x \in Workers \ {w} : seen'[x] = seen[x]
  BY <1>5 DEF Shape
<1>10. TypeOK'
  BY <1>4, <1>7, <1>8, <1>9 DEF TypeOK, Shape
<1> QED BY <1>1, <1>3, <1>6, <1>7, <1>8, <1>9, <1>10 DEF Frame, Shape

\* The attachment of a send is copied.
LEMMA PrepareTurn ==
    ASSUME TypeOK, StageInv, NEW w \in Workers, Prepare(w)
    PROVE  TypeOK' /\ Turn(w)
<1> DEFINE p == "deliver"
<1>1. w \in Busy /\ pc[w] \notin {"idle", "done"}
  BY DEF Prepare, At, Busy
<1>2. /\ req[w] \in Requests /\ req[w].do \in KindsAt(pc[w])
      /\ pc[w] \notin Looping => loop[w] = NoLoop
  BY <1>1, BusyTypes
<1>3. p \in Labels \ {"idle"} /\ (p \in Looping => req[w].do \in KindsAt(p))
  BY <1>2 DEF Prepare, At, Labels, Looping, KindsAt
<1>4. loop' = [loop EXCEPT ![w] = LoopAt(p, req[w])]
  BY <1>2 DEF Prepare, At, LoopAt, Looping, TypeOK, LoopTypeOK
<1>5. Shape(w, p)
  BY <1>2, <1>4, RequestTypes DEF Shape, Prepare, TypeOK, Goto, pvars, PutBytes, BytesOf, At
<1>6. TypeOK' /\ Frame(w) /\ pc'[w] = p
  <2> HIDE DEF p
  <2> QED BY <1>1, <1>3, <1>5, TurnFrame
<1>7. Hop(w)
  BY <1>2, <1>6, RequestTypes DEF Hop, Prepare, At, Attached, BytesOf, PutBytes, TypeOK
<1>8. Books(w)
  <2>1. \A a \in Uids : (blob[a] # "none" => blob'[a] # "none")
                        /\ (blob'[a] = "cut" => faults' > 0 \/ \E b \in Uids : blob[b] = "cut")
    <3>1. CASE PutBytes(req[w].dup, BytesOf(req[w].att))
      <4>1. blob[req[w].att] # "none" /\ req[w].att \in Uids
        BY <1>2, <3>1, RequestTypes DEF Prepare, At, Attached, BytesOf
      <4> QED BY <3>1, <4>1 DEF PutBytes, BytesOf, TypeOK
    <3>2. CASE Fault /\ PutBytes(req[w].dup, "cut")
      BY <3>2, TurnFaults DEF PutBytes, TypeOK
    <3> QED BY <3>1, <3>2 DEF Prepare
  <2> QED BY <1>6, <2>1 DEF Books, Prepare, At, pvars
<1> QED BY <1>6, <1>7, <1>8 DEF Turn

\* A send or a delivery fails before it has stored anything.
LEMMA PrepareFailsTurn ==
    ASSUME TypeOK, StageInv, NEW w \in Workers, PrepareFails(w)
    PROVE  TypeOK' /\ Turn(w)
<1> DEFINE p == "done"
<1>1. w \in Busy /\ pc[w] \notin {"idle", "done"}
  BY DEF PrepareFails, At, Busy
<1>2. /\ req[w] \in Requests /\ req[w].do \in KindsAt(pc[w])
      /\ pc[w] \notin Looping => loop[w] = NoLoop
  BY <1>1, BusyTypes
<1>3. p \in Labels \ {"idle"} /\ (p \in Looping => req[w].do \in KindsAt(p))
  BY <1>2 DEF PrepareFails, At, Labels, Looping, KindsAt
<1>4. loop' = [loop EXCEPT ![w] = LoopAt(p, req[w])]
  BY <1>2 DEF PrepareFails, At, LoopAt, Looping, TypeOK, LoopTypeOK
<1>5. Shape(w, p)
  BY <1>2, <1>4, RequestTypes DEF Shape, PrepareFails, TypeOK, Goto, Reply, pvars, At
<1>6. TypeOK' /\ Frame(w) /\ pc'[w] = p
  <2> HIDE DEF p
  <2> QED BY <1>1, <1>3, <1>5, TurnFrame
<1>7. Hop(w)
  BY <1>2, <1>6, RequestTypes DEF Hop, PrepareFails, At, Attached
<1>8. Books(w)
  BY <1>2, <1>6, RequestTypes, TurnFaults DEF Books, PrepareFails, At, pvars, Reply, TypeOK
<1> QED BY <1>6, <1>7, <1>8 DEF Turn

\* The SMTP server takes its mutex.
LEMMA LockTurn ==
    ASSUME TypeOK, StageInv, NEW w \in Workers, Lock(w)
    PROVE  TypeOK' /\ Turn(w)
<1> DEFINE p == "deliver"
<1>1. w \in Busy /\ pc[w] \notin {"idle", "done"}
  BY DEF Lock, At, Busy
<1>2. /\ req[w] \in Requests /\ req[w].do \in KindsAt(pc[w])
      /\ pc[w] \notin Looping => loop[w] = NoLoop
  BY <1>1, BusyTypes
<1>3. p \in Labels \ {"idle"} /\ (p \in Looping => req[w].do \in KindsAt(p))
  BY <1>2 DEF Lock, At, Labels, Looping, KindsAt
<1>4. loop' = [loop EXCEPT ![w] = LoopAt(p, req[w])]
  BY <1>2 DEF Lock, At, LoopAt, Looping, TypeOK, LoopTypeOK, lvars
<1>5. Shape(w, p)
  BY <1>2, <1>4, RequestTypes DEF Shape, Lock, TypeOK, Goto, lvars, pvars, At
<1>6. TypeOK' /\ Frame(w) /\ pc'[w] = p
  <2> HIDE DEF p
  <2> QED BY <1>1, <1>3, <1>5, TurnFrame
<1>7. Hop(w)
  BY <1>2, <1>6, RequestTypes DEF Hop, Lock, At
<1>8. Books(w)
  BY <1>2, <1>6, RequestTypes, TurnFaults DEF Books, Lock, At, pvars, TypeOK
<1> QED BY <1>6, <1>7, <1>8 DEF Turn

\* A mail has been relayed.
LEMMA RelayedTurn ==
    ASSUME TypeOK, StageInv, NEW w \in Workers, Relayed(w)
    PROVE  TypeOK' /\ Turn(w)
<1> DEFINE p == "copy"
<1>1. w \in Busy /\ pc[w] \notin {"idle", "done"}
  BY DEF Relayed, At, Busy
<1>2. /\ req[w] \in Requests /\ req[w].do \in KindsAt(pc[w])
      /\ pc[w] \notin Looping => loop[w] = NoLoop
  BY <1>1, BusyTypes
<1>3. p \in Labels \ {"idle"} /\ (p \in Looping => req[w].do \in KindsAt(p))
  BY <1>2 DEF Relayed, At, Labels, Looping, KindsAt
<1>4. loop' = [loop EXCEPT ![w] = LoopAt(p, req[w])]
  BY <1>2 DEF Relayed, At, LoopAt, Looping, TypeOK, LoopTypeOK, lvars
<1>5. Shape(w, p)
  BY <1>2, <1>4, RequestTypes DEF Shape, Relayed, TypeOK, Goto, lvars, pvars, At, KindsAt,
      MakingKinds, ChatKinds
<1>6. TypeOK' /\ Frame(w) /\ pc'[w] = p
  <2> HIDE DEF p
  <2> QED BY <1>1, <1>3, <1>5, TurnFrame
<1>7. Hop(w)
  BY <1>2, <1>6, RequestTypes DEF Hop, Relayed, At, Attached
<1>8. Books(w)
  BY <1>2, <1>6, RequestTypes, TurnFaults DEF Books, Relayed, At, pvars, TypeOK
<1> QED BY <1>6, <1>7, <1>8 DEF Turn

\* The columns of a message are stored.
LEMMA StoreMessageTurn ==
    ASSUME TypeOK, StageInv, NEW w \in Workers, StoreMessage(w)
    PROVE  TypeOK' /\ Turn(w)
<1> DEFINE p == IF pc[w] = "deliver" THEN "delivering" ELSE "copying"
<1>1. w \in Busy /\ pc[w] \notin {"idle", "done"}
  BY DEF StoreMessage, Busy
<1>2. /\ req[w] \in Requests /\ req[w].do \in KindsAt(pc[w])
      /\ pc[w] \notin Looping => loop[w] = NoLoop
  BY <1>1, BusyTypes
<1>3. p \in Labels \ {"idle"} /\ (p \in Looping => req[w].do \in KindsAt(p))
  BY <1>2 DEF StoreMessage, Labels, Looping, KindsAt
<1>4. loop' = [loop EXCEPT ![w] = LoopAt(p, req[w])]
  BY <1>2 DEF StoreMessage, StartLoop, LoopAt, KindAt, ListAt, ItemAt, Looping, Msg, Box
<1>5. Shape(w, p)
  BY <1>2, <1>4, RequestTypes DEF Shape, StoreMessage, TypeOK, Goto, pvars, Msg, KindsAt,
      MakingKinds, ChatKinds
<1>6. TypeOK' /\ Frame(w) /\ pc'[w] = p
  <2> HIDE DEF p
  <2> QED BY <1>1, <1>3, <1>5, TurnFrame
<1>7. Hop(w)
  BY <1>2, <1>6, RequestTypes DEF Hop, StoreMessage
<1>8. Books(w)
  BY <1>2, <1>6, RequestTypes, TurnFaults DEF Books, StoreMessage, Drops, ItemAt, Msg, pvars,
      TypeOK
<1> QED BY <1>6, <1>7, <1>8 DEF Turn

\* They are not.
LEMMA StoreFailsTurn ==
    ASSUME TypeOK, StageInv, NEW w \in Workers, StoreFails(w)
    PROVE  TypeOK' /\ Turn(w)
<1> DEFINE p == "done"
<1>1. w \in Busy /\ pc[w] \notin {"idle", "done"}
  BY DEF StoreFails, Busy
<1>2. /\ req[w] \in Requests /\ req[w].do \in KindsAt(pc[w])
      /\ pc[w] \notin Looping => loop[w] = NoLoop
  BY <1>1, BusyTypes
<1>3. p \in Labels \ {"idle"} /\ (p \in Looping => req[w].do \in KindsAt(p))
  BY <1>2 DEF StoreFails, Labels, Looping, KindsAt
<1>4. loop' = [loop EXCEPT ![w] = LoopAt(p, req[w])]
  BY <1>2 DEF StoreFails, LoopAt, Looping, TypeOK, LoopTypeOK
<1>5. Shape(w, p)
  BY <1>2, <1>4, RequestTypes DEF Shape, StoreFails, TypeOK, Goto, Reply, pvars, Unlock,
      KindsAt, MakingKinds, ChatKinds
<1>6. TypeOK' /\ Frame(w) /\ pc'[w] = p
  <2> HIDE DEF p
  <2> QED BY <1>1, <1>3, <1>5, TurnFrame
<1>7. Hop(w)
  BY <1>2, <1>6, RequestTypes DEF Hop, StoreFails
<1>8. Books(w)
  BY <1>2, <1>6, RequestTypes, TurnFaults DEF Books, StoreFails, Earns, KindsAt, pvars, Reply,
      TypeOK
<1> QED BY <1>6, <1>7, <1>8 DEF Turn

\* A mail is listed for its recipient.
LEMMA DeliveredTurn ==
    ASSUME TypeOK, StageInv, NEW w \in Workers, Delivered(w)
    PROVE  TypeOK' /\ Turn(w)
<1> DEFINE p == IF req[w].do = "send" THEN "copy" ELSE "done"
<1>1. w \in Busy /\ pc[w] \notin {"idle", "done"}
  BY DEF Delivered, Busy
<1>2. /\ req[w] \in Requests /\ req[w].do \in KindsAt(pc[w])
      /\ pc[w] \notin Looping => loop[w] = NoLoop
  BY <1>1, BusyTypes
<1>3. p \in Labels \ {"idle"} /\ (p \in Looping => req[w].do \in KindsAt(p))
  BY <1>2 DEF Delivered, Labels, Looping, KindsAt
<1>4. loop' = [loop EXCEPT ![w] = LoopAt(p, req[w])]
  BY <1>2 DEF Delivered, EndLoop, LoopAt, Looping
<1>5. Shape(w, p)
  BY <1>2, <1>4, RequestTypes DEF Shape, Delivered, TypeOK, Goto, Reply, pvars, Unlock, KindsAt,
      MakingKinds, ChatKinds
<1>6. TypeOK' /\ Frame(w) /\ pc'[w] = p
  <2> HIDE DEF p
  <2> QED BY <1>1, <1>3, <1>5, TurnFrame
<1>7. Hop(w)
  BY <1>2, <1>6, RequestTypes DEF Hop, Delivered
<1>8. Books(w)
  BY <1>2, <1>6, RequestTypes, TurnFaults DEF Books, Delivered, Earns, KindsAt, pvars, Reply,
      TypeOK
<1> QED BY <1>6, <1>7, <1>8 DEF Turn

\* A mail could not be listed.
LEMMA NotListedTurn ==
    ASSUME TypeOK, StageInv, NEW w \in Workers, NotListed(w)
    PROVE  TypeOK' /\ Turn(w)
<1> DEFINE p == "done"
<1>1. w \in Busy /\ pc[w] \notin {"idle", "done"}
  BY DEF NotListed, Busy
<1>2. /\ req[w] \in Requests /\ req[w].do \in KindsAt(pc[w])
      /\ pc[w] \notin Looping => loop[w] = NoLoop
  BY <1>1, BusyTypes
<1>3. p \in Labels \ {"idle"} /\ (p \in Looping => req[w].do \in KindsAt(p))
  BY <1>2 DEF NotListed, Labels, Looping, KindsAt
<1>4. loop' = [loop EXCEPT ![w] = LoopAt(p, req[w])]
  BY <1>2 DEF NotListed, EndLoop, LoopAt, Looping, Msg
<1>5. Shape(w, p)
  BY <1>2, <1>4, RequestTypes DEF Shape, NotListed, TypeOK, Goto, Reply, pvars, Unlock, Msg,
      KindsAt, MakingKinds, ChatKinds
<1>6. TypeOK' /\ Frame(w) /\ pc'[w] = p
  <2> HIDE DEF p
  <2> QED BY <1>1, <1>3, <1>5, TurnFrame
<1>7. Hop(w)
  BY <1>2, <1>6, RequestTypes DEF Hop, NotListed
<1>8. Books(w)
  BY <1>2, <1>6, RequestTypes, TurnFaults DEF Books, NotListed, Drops, Earns, KindsAt, Msg,
      StageInv, Looping, ItemAt, pvars, Reply, TypeOK
<1> QED BY <1>6, <1>7, <1>8 DEF Turn

\* The sender has a copy.
LEMMA CopiedTurn ==
    ASSUME TypeOK, StageInv, NEW w \in Workers, Copied(w)
    PROVE  TypeOK' /\ Turn(w)
<1> DEFINE p == "done"
<1>1. w \in Busy /\ pc[w] \notin {"idle", "done"}
  BY DEF Copied, Busy
<1>2. /\ req[w] \in Requests /\ req[w].do \in KindsAt(pc[w])
      /\ pc[w] \notin Looping => loop[w] = NoLoop
  BY <1>1, BusyTypes
<1>3. p \in Labels \ {"idle"} /\ (p \in Looping => req[w].do \in KindsAt(p))
  BY <1>2 DEF Copied, Labels, Looping, KindsAt
<1>4. loop' = [loop EXCEPT ![w] = LoopAt(p, req[w])]
  BY <1>2 DEF Copied, EndLoop, LoopAt, Looping
<1>5. Shape(w, p)
  BY <1>2, <1>4, RequestTypes DEF Shape, Copied, TypeOK, Goto, Reply, pvars, KindsAt,
      MakingKinds, ChatKinds
<1>6. TypeOK' /\ Frame(w) /\ pc'[w] = p
  <2> HIDE DEF p
  <2> QED BY <1>1, <1>3, <1>5, TurnFrame
<1>7. Hop(w)
  BY <1>2, <1>6, RequestTypes DEF Hop, Copied
<1>8. Books(w)
  BY <1>2, <1>6, RequestTypes, TurnFaults DEF Books, Copied, Earns, KindsAt, pvars, Reply,
      TypeOK
<1> QED BY <1>6, <1>7, <1>8 DEF Turn

\* A move or a purge begins.
LEMMA BeginMoveTurn ==
    ASSUME TypeOK, StageInv, NEW w \in Workers, BeginMove(w)
    PROVE  TypeOK' /\ Turn(w)
<1> DEFINE p == IF req[w].do = "move" THEN "listing" ELSE "purging"
<1>1. w \in Busy /\ pc[w] \notin {"idle", "done"}
  BY DEF BeginMove, At, Busy
<1>2. /\ req[w] \in Requests /\ req[w].do \in KindsAt(pc[w])
      /\ pc[w] \notin Looping => loop[w] = NoLoop
  BY <1>1, BusyTypes
<1>3. p \in Labels \ {"idle"} /\ (p \in Looping => req[w].do \in KindsAt(p))
  BY <1>2 DEF BeginMove, At, Labels, Looping, KindsAt
<1>4. loop' = [loop EXCEPT ![w] = LoopAt(p, req[w])]
  BY <1>2 DEF BeginMove, At, StartLoop, LoopAt, KindAt, ListAt, ItemAt, Looping
<1>5. Shape(w, p)
  BY <1>2, <1>4, RequestTypes DEF Shape, BeginMove, TypeOK, Goto, pvars, At
<1>6. TypeOK' /\ Frame(w) /\ pc'[w] = p
  <2> HIDE DEF p
  <2> QED BY <1>1, <1>3, <1>5, TurnFrame
<1>7. Hop(w)
  BY <1>2, <1>6, RequestTypes DEF Hop, BeginMove, At, View, Found
<1>8. Books(w)
  BY <1>2, <1>6, RequestTypes, TurnFaults DEF Books, BeginMove, ItemAt, At, pvars, TypeOK
<1> QED BY <1>6, <1>7, <1>8 DEF Turn

\* There is nothing to move.
LEMMA NotInFolderTurn ==
    ASSUME TypeOK, StageInv, NEW w \in Workers, NotInFolder(w)
    PROVE  TypeOK' /\ Turn(w)
<1> DEFINE p == "done"
<1>1. w \in Busy /\ pc[w] \notin {"idle", "done"}
  BY DEF NotInFolder, At, Busy
<1>2. /\ req[w] \in Requests /\ req[w].do \in KindsAt(pc[w])
      /\ pc[w] \notin Looping => loop[w] = NoLoop
  BY <1>1, BusyTypes
<1>3. p \in Labels \ {"idle"} /\ (p \in Looping => req[w].do \in KindsAt(p))
  BY <1>2 DEF NotInFolder, At, Labels, Looping, KindsAt
<1>4. loop' = [loop EXCEPT ![w] = LoopAt(p, req[w])]
  BY <1>2 DEF NotInFolder, At, LoopAt, Looping, TypeOK, LoopTypeOK
<1>5. Shape(w, p)
  BY <1>2, <1>4, RequestTypes DEF Shape, NotInFolder, TypeOK, Goto, Reply, pvars, At
<1>6. TypeOK' /\ Frame(w) /\ pc'[w] = p
  <2> HIDE DEF p
  <2> QED BY <1>1, <1>3, <1>5, TurnFrame
<1>7. Hop(w)
  BY <1>2, <1>6, RequestTypes DEF Hop, NotInFolder, At, View, Found
<1>8. Books(w)
  BY <1>2, <1>6, RequestTypes, TurnFaults DEF Books, NotInFolder, At, pvars, Reply, TypeOK
<1> QED BY <1>6, <1>7, <1>8 DEF Turn

\* A moved mail is in its new folder.
LEMMA ListedTurn ==
    ASSUME TypeOK, StageInv, NEW w \in Workers, Listed(w)
    PROVE  TypeOK' /\ Turn(w)
<1> DEFINE p == "unlisting"
<1>1. w \in Busy /\ pc[w] \notin {"idle", "done"}
  BY DEF Listed, Busy
<1>2. /\ req[w] \in Requests /\ req[w].do \in KindsAt(pc[w])
      /\ pc[w] \notin Looping => loop[w] = NoLoop
  BY <1>1, BusyTypes
<1>3. p \in Labels \ {"idle"} /\ (p \in Looping => req[w].do \in KindsAt(p))
  BY <1>2 DEF Listed, Labels, Looping, KindsAt
<1>4. loop' = [loop EXCEPT ![w] = LoopAt(p, req[w])]
  BY <1>2 DEF Listed, StartLoop, LoopAt, KindAt, ListAt, ItemAt, Looping
<1>5. Shape(w, p)
  BY <1>2, <1>4, RequestTypes DEF Shape, Listed, TypeOK, Goto, pvars
<1>6. TypeOK' /\ Frame(w) /\ pc'[w] = p
  <2> HIDE DEF p
  <2> QED BY <1>1, <1>3, <1>5, TurnFrame
<1>7. Hop(w)
  BY <1>2, <1>6, RequestTypes DEF Hop, Listed
<1>8. Books(w)
  BY <1>2, <1>6, RequestTypes, TurnFaults DEF Books, Listed, ItemAt, pvars, TypeOK
<1> QED BY <1>6, <1>7, <1>8 DEF Turn

\* It could not be taken out of the old one.
LEMMA RollBackTurn ==
    ASSUME TypeOK, StageInv, NEW w \in Workers, RollBack(w)
    PROVE  TypeOK' /\ Turn(w)
<1> DEFINE p == "rollback"
<1>1. w \in Busy /\ pc[w] \notin {"idle", "done"}
  BY DEF RollBack, Busy
<1>2. /\ req[w] \in Requests /\ req[w].do \in KindsAt(pc[w])
      /\ pc[w] \notin Looping => loop[w] = NoLoop
  BY <1>1, BusyTypes
<1>3. p \in Labels \ {"idle"} /\ (p \in Looping => req[w].do \in KindsAt(p))
  BY <1>2 DEF RollBack, Labels, Looping, KindsAt
<1>4. loop' = [loop EXCEPT ![w] = LoopAt(p, req[w])]
  BY <1>2 DEF RollBack, StartLoop, LoopAt, KindAt, ListAt, ItemAt, Looping
<1>5. Shape(w, p)
  BY <1>2, <1>4, RequestTypes DEF Shape, RollBack, TypeOK, Goto, pvars
<1>6. TypeOK' /\ Frame(w) /\ pc'[w] = p
  <2> HIDE DEF p
  <2> QED BY <1>1, <1>3, <1>5, TurnFrame
<1>7. Hop(w)
  BY <1>2, <1>6, RequestTypes DEF Hop, RollBack
<1>8. Books(w)
  BY <1>2, <1>6, RequestTypes, TurnFaults DEF Books, RollBack, ItemAt, pvars, TypeOK
<1> QED BY <1>6, <1>7, <1>8 DEF Turn

\* A mail is deleted for good.
LEMMA PurgeTurn ==
    ASSUME TypeOK, StageInv, NEW w \in Workers, Purge(w)
    PROVE  TypeOK' /\ Turn(w)
<1> DEFINE p == "done"
<1>1. w \in Busy /\ pc[w] \notin {"idle", "done"}
  BY DEF Purge, Busy
<1>2. /\ req[w] \in Requests /\ req[w].do \in KindsAt(pc[w])
      /\ pc[w] \notin Looping => loop[w] = NoLoop
  BY <1>1, BusyTypes
<1>3. p \in Labels \ {"idle"} /\ (p \in Looping => req[w].do \in KindsAt(p))
  BY <1>2 DEF Purge, Labels, Looping, KindsAt
<1>4. loop' = [loop EXCEPT ![w] = LoopAt(p, req[w])]
  BY <1>2 DEF Purge, EndLoop, LoopAt, Looping
<1>5. Shape(w, p)
  BY <1>2, <1>4, RequestTypes DEF Shape, Purge, TypeOK, Goto, Reply, pvars
<1>6. TypeOK' /\ Frame(w) /\ pc'[w] = p
  <2> HIDE DEF p
  <2> QED BY <1>1, <1>3, <1>5, TurnFrame
<1>7. Hop(w)
  BY <1>2, <1>6, RequestTypes DEF Hop, Purge
<1>8. Books(w)
  BY <1>2, <1>6, RequestTypes, TurnFaults DEF Books, Purge, Drops, pvars, Reply, KindsAt,
      ChatKinds, TypeOK
<1> QED BY <1>6, <1>7, <1>8 DEF Turn

\* A move ends.
LEMMA EndMoveTurn ==
    ASSUME TypeOK, StageInv, NEW w \in Workers, EndMove(w)
    PROVE  TypeOK' /\ Turn(w)
<1> DEFINE p == "done"
<1>1. w \in Busy /\ pc[w] \notin {"idle", "done"}
  BY DEF EndMove, Busy
<1>2. /\ req[w] \in Requests /\ req[w].do \in KindsAt(pc[w])
      /\ pc[w] \notin Looping => loop[w] = NoLoop
  BY <1>1, BusyTypes
<1>3. p \in Labels \ {"idle"} /\ (p \in Looping => req[w].do \in KindsAt(p))
  BY <1>2 DEF EndMove, Labels, Looping, KindsAt
<1>4. loop' = [loop EXCEPT ![w] = LoopAt(p, req[w])]
  BY <1>2 DEF EndMove, EndLoop, LoopAt, Looping
<1>5. Shape(w, p)
  BY <1>2, <1>4, RequestTypes DEF Shape, EndMove, TypeOK, Goto, Reply, pvars
<1>6. TypeOK' /\ Frame(w) /\ pc'[w] = p
  <2> HIDE DEF p
  <2> QED BY <1>1, <1>3, <1>5, TurnFrame
<1>7. Hop(w)
  BY <1>2, <1>6, RequestTypes DEF Hop, EndMove
<1>8. Books(w)
  BY <1>2, <1>6, RequestTypes, TurnFaults DEF Books, EndMove, pvars, Reply, KindsAt, ChatKinds,
      TypeOK
<1> QED BY <1>6, <1>7, <1>8 DEF Turn

\* An attachment is uploaded.
LEMMA UploadTurn ==
    ASSUME TypeOK, StageInv, NEW w \in Workers, Upload(w)
    PROVE  TypeOK' /\ Turn(w)
<1> DEFINE p == "done"
<1>1. w \in Busy /\ pc[w] \notin {"idle", "done"}
  BY DEF Upload, At, Busy
<1>2. /\ req[w] \in Requests /\ req[w].do \in KindsAt(pc[w])
      /\ pc[w] \notin Looping => loop[w] = NoLoop
  BY <1>1, BusyTypes
<1>3. p \in Labels \ {"idle"} /\ (p \in Looping => req[w].do \in KindsAt(p))
  BY <1>2 DEF Upload, At, Labels, Looping, KindsAt
<1>4. loop' = [loop EXCEPT ![w] = LoopAt(p, req[w])]
  BY <1>2 DEF Upload, At, LoopAt, Looping, TypeOK, LoopTypeOK
<1>5. Shape(w, p)
  BY <1>2, <1>4, RequestTypes DEF Shape, Upload, TypeOK, Goto, Reply, pvars, PutBytes, At
<1>6. TypeOK' /\ Frame(w) /\ pc'[w] = p
  <2> HIDE DEF p
  <2> QED BY <1>1, <1>3, <1>5, TurnFrame
<1>7. Hop(w)
  BY <1>2, <1>6, RequestTypes DEF Hop, Upload, At, PutBytes, TypeOK
<1>8. Books(w)
  BY <1>2, <1>6, RequestTypes, TurnFaults DEF Books, Upload, PutBytes, At, pvars, Reply, TypeOK
<1> QED BY <1>6, <1>7, <1>8 DEF Turn

\* The columns of a chat message are stored.
LEMMA ChatStoreTurn ==
    ASSUME TypeOK, StageInv, NEW w \in Workers, ChatStore(w)
    PROVE  TypeOK' /\ Turn(w)
<1> DEFINE p == "appending"
<1>1. w \in Busy /\ pc[w] \notin {"idle", "done"}
  BY DEF ChatStore, At, Busy
<1>2. /\ req[w] \in Requests /\ req[w].do \in KindsAt(pc[w])
      /\ pc[w] \notin Looping => loop[w] = NoLoop
  BY <1>1, BusyTypes
<1>3. p \in Labels \ {"idle"} /\ (p \in Looping => req[w].do \in KindsAt(p))
  BY <1>2 DEF ChatStore, At, Labels, Looping, KindsAt, ChatKinds
<1>4. loop' = [loop EXCEPT ![w] = LoopAt(p, req[w])]
  BY <1>2 DEF ChatStore, At, StartLoop, LoopAt, KindAt, ListAt, ItemAt, Looping
<1>5. Shape(w, p)
  BY <1>2, <1>4, RequestTypes DEF Shape, ChatStore, TypeOK, Goto, pvars, At
<1>6. TypeOK' /\ Frame(w) /\ pc'[w] = p
  <2> HIDE DEF p
  <2> QED BY <1>1, <1>3, <1>5, TurnFrame
<1>7. Hop(w)
  BY <1>2, <1>6, RequestTypes DEF Hop, ChatStore, At, ChatKinds
<1>8. Books(w)
  BY <1>2, <1>6, RequestTypes, TurnFaults DEF Books, ChatStore, Drops, ItemAt, At, pvars, TypeOK
<1> QED BY <1>6, <1>7, <1>8 DEF Turn

\* A chat message fails.
LEMMA ChatFailsTurn ==
    ASSUME TypeOK, StageInv, NEW w \in Workers, ChatFails(w)
    PROVE  TypeOK' /\ Turn(w)
<1> DEFINE p == "done"
<1>1. w \in Busy /\ pc[w] \notin {"idle", "done"}
  BY DEF ChatFails, At, Busy
<1>2. /\ req[w] \in Requests /\ req[w].do \in KindsAt(pc[w])
      /\ pc[w] \notin Looping => loop[w] = NoLoop
  BY <1>1, BusyTypes
<1>3. p \in Labels \ {"idle"} /\ (p \in Looping => req[w].do \in KindsAt(p))
  BY <1>2 DEF ChatFails, At, Labels, Looping, KindsAt, ChatKinds
<1>4. loop' = [loop EXCEPT ![w] = LoopAt(p, req[w])]
  BY <1>2 DEF ChatFails, At, EndLoop, LoopAt, Looping, TypeOK, LoopTypeOK
<1>5. Shape(w, p)
  BY <1>2, <1>4, RequestTypes DEF Shape, ChatFails, TypeOK, Goto, Reply, pvars, At
<1>6. TypeOK' /\ Frame(w) /\ pc'[w] = p
  <2> HIDE DEF p
  <2> QED BY <1>1, <1>3, <1>5, TurnFrame
<1>7. Hop(w)
  BY <1>2, <1>6, RequestTypes DEF Hop, ChatFails, At, ChatKinds
<1>8. Books(w)
  BY <1>2, <1>6, RequestTypes, TurnFaults DEF Books, ChatFails, At, pvars, Reply, KindsAt,
      ChatKinds, TypeOK
<1> QED BY <1>6, <1>7, <1>8 DEF Turn

\* The partners of a thread are listed.
LEMMA ListPeerTurn ==
    ASSUME TypeOK, StageInv, NEW w \in Workers, ListPeer(w)
    PROVE  TypeOK' /\ Turn(w)
<1> DEFINE p == IF pc[w] = "appending" THEN "peering" ELSE "peered"
<1>1. w \in Busy /\ pc[w] \notin {"idle", "done"}
  BY DEF ListPeer, Busy
<1>2. /\ req[w] \in Requests /\ req[w].do \in KindsAt(pc[w])
      /\ pc[w] \notin Looping => loop[w] = NoLoop
  BY <1>1, BusyTypes
<1>3. p \in Labels \ {"idle"} /\ (p \in Looping => req[w].do \in KindsAt(p))
  BY <1>2 DEF ListPeer, Labels, Looping, KindsAt, ChatKinds
<1>4. loop' = [loop EXCEPT ![w] = LoopAt(p, req[w])]
  BY <1>2 DEF ListPeer, StartLoop, LoopAt, KindAt, ListAt, ItemAt, Looping
<1>5. Shape(w, p)
  BY <1>2, <1>4, RequestTypes DEF Shape, ListPeer, TypeOK, Goto, pvars
<1>6. TypeOK' /\ Frame(w) /\ pc'[w] = p
  <2> HIDE DEF p
  <2> QED BY <1>1, <1>3, <1>5, TurnFrame
<1>7. Hop(w)
  BY <1>2, <1>6, RequestTypes DEF Hop, ListPeer
<1>8. Books(w)
  BY <1>2, <1>6, RequestTypes, TurnFaults DEF Books, ListPeer, ItemAt, pvars, TypeOK
<1> QED BY <1>6, <1>7, <1>8 DEF Turn

\* A chat message is sent.
LEMMA ChatSentTurn ==
    ASSUME TypeOK, StageInv, NEW w \in Workers, ChatSent(w)
    PROVE  TypeOK' /\ Turn(w)
<1> DEFINE p == "done"
<1>1. w \in Busy /\ pc[w] \notin {"idle", "done"}
  BY DEF ChatSent, Busy
<1>2. /\ req[w] \in Requests /\ req[w].do \in KindsAt(pc[w])
      /\ pc[w] \notin Looping => loop[w] = NoLoop
  BY <1>1, BusyTypes
<1>3. p \in Labels \ {"idle"} /\ (p \in Looping => req[w].do \in KindsAt(p))
  BY <1>2 DEF ChatSent, Labels, Looping, KindsAt, ChatKinds
<1>4. loop' = [loop EXCEPT ![w] = LoopAt(p, req[w])]
  BY <1>2 DEF ChatSent, EndLoop, LoopAt, Looping
<1>5. Shape(w, p)
  BY <1>2, <1>4, RequestTypes DEF Shape, ChatSent, TypeOK, Goto, Reply, pvars
<1>6. TypeOK' /\ Frame(w) /\ pc'[w] = p
  <2> HIDE DEF p
  <2> QED BY <1>1, <1>3, <1>5, TurnFrame
<1>7. Hop(w)
  BY <1>2, <1>6, RequestTypes DEF Hop, ChatSent, ChatKinds
<1>8. Books(w)
  BY <1>2, <1>6, RequestTypes, TurnFaults DEF Books, ChatSent, Earns, KindsAt, pvars, Reply,
      TypeOK
<1> QED BY <1>6, <1>7, <1>8 DEF Turn

\* The contacts are read.
LEMMA ReadContactsTurn ==
    ASSUME TypeOK, StageInv, NEW w \in Workers, ReadContacts(w)
    PROVE  TypeOK' /\ Turn(w)
<1> DEFINE p == "saving"
<1>1. w \in Busy /\ pc[w] \notin {"idle", "done"}
  BY DEF ReadContacts, At, Busy
<1>2. /\ req[w] \in Requests /\ req[w].do \in KindsAt(pc[w])
      /\ pc[w] \notin Looping => loop[w] = NoLoop
  BY <1>1, BusyTypes
<1>3. p \in Labels \ {"idle"} /\ (p \in Looping => req[w].do \in KindsAt(p))
  BY <1>2 DEF ReadContacts, At, Labels, Looping, KindsAt, ContactKinds
<1>4. loop' = [loop EXCEPT ![w] = LoopAt(p, req[w])]
  BY <1>2 DEF ReadContacts, At, LoopAt, Looping, TypeOK, LoopTypeOK
<1>5. Shape(w, p)
  BY <1>2, <1>4, RequestTypes DEF Shape, ReadContacts, TypeOK, Goto, At
<1>6. TypeOK' /\ Frame(w) /\ pc'[w] = p
  <2> HIDE DEF p
  <2> QED BY <1>1, <1>3, <1>5, TurnFrame
<1>7. Hop(w)
  BY <1>2, <1>6, RequestTypes DEF Hop, ReadContacts, At, ContactKinds, TypeOK
<1>8. Books(w)
  BY <1>2, <1>6, RequestTypes, TurnFaults DEF Books, ReadContacts, At, TypeOK
<1> QED BY <1>6, <1>7, <1>8 DEF Turn

\* The contacts are saved.
LEMMA SaveContactsTurn ==
    ASSUME TypeOK, StageInv, NEW w \in Workers, SaveContacts(w)
    PROVE  TypeOK' /\ Turn(w)
<1> DEFINE p == "done"
<1>1. w \in Busy /\ pc[w] \notin {"idle", "done"}
  BY DEF SaveContacts, Busy
<1>2. /\ req[w] \in Requests /\ req[w].do \in KindsAt(pc[w])
      /\ pc[w] \notin Looping => loop[w] = NoLoop
  BY <1>1, BusyTypes
<1>3. p \in Labels \ {"idle"} /\ (p \in Looping => req[w].do \in KindsAt(p))
  BY <1>2 DEF SaveContacts, Labels, Looping, KindsAt
<1>4. loop' = [loop EXCEPT ![w] = LoopAt(p, req[w])]
  BY <1>2 DEF SaveContacts, LoopAt, Looping, TypeOK, LoopTypeOK
<1>5. Shape(w, p)
  BY <1>2, <1>4, RequestTypes DEF Shape, SaveContacts, TypeOK, Goto, Reply
<1>6. TypeOK' /\ Frame(w) /\ pc'[w] = p
  <2> HIDE DEF p
  <2> QED BY <1>1, <1>3, <1>5, TurnFrame
<1>7. Hop(w)
  BY <1>2, <1>6, RequestTypes DEF Hop, SaveContacts, TypeOK
<1>8. Books(w)
  BY <1>2, <1>6, RequestTypes, TurnFaults DEF Books, SaveContacts, Earns, KindsAt, Reply,
      ChatKinds, ContactKinds, TypeOK
<1> QED BY <1>6, <1>7, <1>8 DEF Turn

\* A process is killed.
LEMMA CrashTurn ==
    ASSUME TypeOK, StageInv, NEW w \in Workers, Crash(w)
    PROVE  TypeOK' /\ Turn(w)
<1> DEFINE p == "done"
<1>1. w \in Busy /\ pc[w] \notin {"idle", "done"}
  BY DEF Crash, Busy
<1>2. /\ req[w] \in Requests /\ req[w].do \in KindsAt(pc[w])
      /\ pc[w] \notin Looping => loop[w] = NoLoop
  BY <1>1, BusyTypes
<1>3. p \in Labels \ {"idle"} /\ (p \in Looping => req[w].do \in KindsAt(p))
  BY <1>2 DEF Crash, Labels, Looping, KindsAt
<1>4. loop' = [loop EXCEPT ![w] = LoopAt(p, req[w])]
  BY <1>2 DEF Crash, EndLoop, LoopAt, Looping
<1>5. Shape(w, p)
  BY <1>2, <1>4, RequestTypes DEF Shape, Crash, TypeOK, Goto, pvars, Unlock
<1>6. TypeOK' /\ Frame(w) /\ pc'[w] = p
  <2> HIDE DEF p
  <2> QED BY <1>1, <1>3, <1>5, TurnFrame
<1>7. Hop(w)
  BY <1>2, <1>6, RequestTypes DEF Hop, Crash
<1>8. Books(w)
  BY <1>2, <1>6, RequestTypes, TurnFaults DEF Books, Crash, pvars, TypeOK
<1> QED BY <1>6, <1>7, <1>8 DEF Turn

\* Every step of a worker is a step of its loop or a turn.
LEMMA StepIsTurn ==
    ASSUME TypeOK, StageInv, NEW w \in Workers, Step(w) \/ Crash(w)
    PROVE  Loop(w) \/ (TypeOK' /\ Turn(w))
  BY PrepareTurn, PrepareFailsTurn, LockTurn, RelayedTurn, StoreMessageTurn, StoreFailsTurn,
     DeliveredTurn, NotListedTurn, CopiedTurn, BeginMoveTurn, NotInFolderTurn, ListedTurn,
     RollBackTurn, PurgeTurn, EndMoveTurn, UploadTurn, ChatStoreTurn, ChatFailsTurn,
     ListPeerTurn, ChatSentTurn, ReadContactsTurn, SaveContactsTurn, CrashTurn
  DEF Step

\* A step of the loop of w, spelt out.
Turning(w) ==
    /\ LoopTypeOK(Uids)' /\ GoesOn(w) /\ LoopEffect(w)
    /\ pc' = pc /\ req' = req /\ stored' = stored /\ blob' = blob /\ lock' = lock
    /\ notify' = notify /\ reply' = reply /\ stream' = stream /\ contacts' = contacts
    /\ seen' = seen /\ acked' = acked /\ purged' = purged /\ crossed' = crossed

\* A step of a loop changes the lists and the loop alone.
LEMMA LoopTurning ==
    ASSUME TypeOK, NEW w \in Workers, Loop(w)
    PROVE  TypeOK' /\ Turning(w) /\ LoopStep(w)
<1>1. LoopTypeOK(Uids) /\ LoopStep(w)
  BY DEF TypeOK, Loop
<1>2. LoopTypeOK(Uids)' /\ GoesOn(w) /\ LoopEffect(w)
  BY <1>1, LoopStepEffect
<1>3. Turning(w)
  BY <1>2 DEF Turning, Loop, hvars, pvars
<1> QED BY <1>1, <1>3 DEF Turning, TypeOK

\* The label of a worker after a turn.
LEMMA HopLabel ==
    ASSUME TypeOK, StageInv, NEW w \in Workers, TypeOK', Turn(w)
    PROVE  /\ pc'[w] \in Labels /\ pc'[w] # "idle" /\ req[w] \in Requests
           /\ req[w].do \in KindsAt(pc'[w])
           /\ pc[w] \notin {"idle", "done"} /\ reply[w] = "none"
<1>1. pc[w] \notin {"idle", "done"} /\ pc'[w] \in Labels
  BY DEF Turn, Frame, Busy, TypeOK
<1>2. req[w] \in Requests /\ req[w].do \in KindsAt(pc[w]) /\ reply[w] = "none"
  BY <1>1, BusyTypes
<1>3. req[w].do \in ReqKinds
  BY <1>2, RequestTypes
<1>4. pc'[w] # "idle" /\ req[w].do \in KindsAt(pc'[w])
  BY <1>2, <1>3 DEF Turn, Hop, KindsAt
<1> QED BY <1>1, <1>2, <1>4

\* A turn leaves handler and loop in step with each other.
LEMMA StageTurn ==
    ASSUME TypeOK, StageInv, NEW w \in Workers, TypeOK', Turn(w)
    PROVE  StageInv'
<1>1. /\ pc'[w] \in Labels /\ pc'[w] # "idle" /\ req[w] \in Requests
      /\ req[w].do \in KindsAt(pc'[w]) /\ reply[w] = "none" /\ pc[w] # "idle"
  BY HopLabel
<1>2. /\ req' = req /\ loop'[w] = LoopAt(pc'[w], req[w])
      /\ pc'[w] # "done" => reply'[w] = reply[w]
      /\ \A x \in Workers \ {w} : pc'[x] = pc[x] /\ loop'[x] = loop[x] /\ reply'[x] = reply[x]
  BY DEF Turn, Frame
<1>3. /\ pc'[w] \notin Looping => loop'[w] = NoLoop
      /\ pc'[w] \in Looping =>
              /\ loop'[w].st # "off" /\ loop'[w].kind = KindAt(pc'[w])
              /\ loop'[w].on = ListAt(pc'[w], req[w]) /\ loop'[w].item = ItemAt(pc'[w], req[w])
  BY <1>1, <1>2, LoopAtTypes
<1>4. req[w] # Nil
  BY <1>1, RequestAssumption
<1>5. ASSUME NEW x \in Workers
      PROVE  /\ pc'[x] = "idle" <=> req'[x] = Nil
             /\ pc'[x] # "idle" => req'[x].do \in KindsAt(pc'[x])
             /\ pc'[x] \notin Looping => loop'[x] = NoLoop
             /\ pc'[x] \in Looping =>
                   /\ loop'[x].st # "off" /\ loop'[x].kind = KindAt(pc'[x])
                   /\ loop'[x].on = ListAt(pc'[x], req'[x])
                   /\ loop'[x].item = ItemAt(pc'[x], req'[x])
             /\ pc'[x] # "done" => reply'[x] = "none"
             /\ \A y \in Workers \ {x} : req'[x] # Nil => req'[y] # req'[x]
  <2>1. \A y \in Workers \ {x} : req'[x] # Nil => req'[y] # req'[x]
    BY <1>2 DEF StageInv
  <2>2. CASE x = w
    BY <1>1, <1>2, <1>3, <1>4, <2>1, <2>2
  <2>3. CASE x # w
    <3>1. pc'[x] = pc[x] /\ loop'[x] = loop[x] /\ reply'[x] = reply[x] /\ req'[x] = req[x]
      BY <1>2, <2>3
    <3> QED BY <2>1, <3>1 DEF StageInv
  <2> QED BY <2>2, <2>3
<1> QED BY <1>5 DEF StageInv

\* So does a step of a loop.
LEMMA StageLoop ==
    ASSUME TypeOK, StageInv, NEW w \in Workers, Turning(w)
    PROVE  StageInv' /\ pc[w] \in Looping /\ w \in Busy /\ req[w] \in Requests
           /\ req[w].do \in KindsAt(pc[w])
<1>1. pc[w] \in Looping
  <2>1. loop[w].st # "off" /\ NoLoop.st = "off"
    BY DEF Turning, LoopEffect, NoLoop
  <2> QED BY <2>1 DEF StageInv
<1>2. pc[w] \notin {"idle", "done"}
  BY <1>1 DEF Looping
<1>3. ASSUME NEW x \in Workers
      PROVE  /\ pc[x] \notin Looping => loop'[x] = NoLoop
             /\ pc[x] \in Looping =>
                   /\ loop'[x].st # "off" /\ loop'[x].kind = KindAt(pc[x])
                   /\ loop'[x].on = ListAt(pc[x], req[x])
                   /\ loop'[x].item = ItemAt(pc[x], req[x])
  <2>1. CASE x = w
    BY <1>1, <2>1 DEF StageInv, Turning, GoesOn
  <2>2. CASE x # w
    BY <2>2 DEF StageInv, Turning, GoesOn
  <2> QED BY <2>1, <2>2
<1>4. StageInv'
  BY <1>3 DEF StageInv, Turning
<1> QED BY <1>1, <1>2, <1>4, BusyTypes

\* A new request.
LEMMA StageRequest ==
    ASSUME TypeOK, StageInv, NEW w \in Workers, NEW r \in Requests, Request(w, r)
    PROVE  /\ TypeOK' /\ StageInv'
           /\ pc[w] = "idle" /\ pc'[w] = "begin" /\ req'[w] = r /\ req[w] = Nil
           /\ \A x \in Workers \ {w} : pc'[x] = pc[x] /\ req'[x] = req[x]
           /\ \A x \in Workers : req[x] # r
<1>1. /\ pc[w] = "idle" /\ pc' = [pc EXCEPT ![w] = "begin"] /\ req' = [req EXCEPT ![w] = r]
      /\ \A x \in Workers : req[x] # r
  BY DEF Request, Goto
<1>2. /\ pc' \in [Workers -> Labels] /\ req' \in [Workers -> Requests \cup {Nil}]
      /\ pc'[w] = "begin" /\ req'[w] = r
      /\ \A x \in Workers \ {w} : pc'[x] = pc[x] /\ req'[x] = req[x]
  BY <1>1 DEF TypeOK, Labels
<1>3. req[w] = Nil /\ loop[w] = NoLoop /\ reply[w] = "none"
  BY <1>1 DEF StageInv, Looping
<1>4. lvars' = lvars /\ reply' = reply
  BY DEF Request
<1>5. TypeOK'
  <2>1. \A x \in Busy : req[x] \in Requests
    <3>1. \A x \in Workers : x \in Busy => pc[x] \notin {"idle", "done"}
      BY DEF Busy
    <3> QED BY <3>1, BusyTypes DEF Busy
  <2>2. UNION {{r.uid, x.uid} : x \in {x \in {req[v] : v \in Busy} : Overlap(r, x)}} \subseteq Uids
    BY <2>1, RequestTypes
  <2>3. crossed' \subseteq Uids
    BY <2>2 DEF Request, TypeOK
  <2>4. purged' \subseteq Uids
    BY RequestTypes DEF Request, TypeOK
  <2>5. LoopTypeOK(Uids)'
    BY <1>4 DEF TypeOK, LoopTypeOK, lvars
  <2> QED BY <1>2, <2>3, <2>4, <2>5 DEF Request, TypeOK, pvars
<1>6. StageInv'
  <2>1. r # Nil /\ r.do \in ReqKinds
    BY RequestAssumption
  <2>2. loop' = loop
    BY <1>4 DEF lvars
  <2>3. ASSUME NEW x \in Workers
        PROVE  /\ pc'[x] = "idle" <=> req'[x] = Nil
               /\ pc'[x] # "idle" => req'[x].do \in KindsAt(pc'[x])
               /\ pc'[x] \notin Looping => loop'[x] = NoLoop
               /\ pc'[x] \in Looping =>
                     /\ loop'[x].st # "off" /\ loop'[x].kind = KindAt(pc'[x])
                     /\ loop'[x].on = ListAt(pc'[x], req'[x])
                     /\ loop'[x].item = ItemAt(pc'[x], req'[x])
               /\ pc'[x] # "done" => reply'[x] = "none"
    <3>1. CASE x = w
      BY <1>2, <1>3, <1>4, <2>1, <2>2, <3>1 DEF KindsAt, Looping
    <3>2. CASE x # w
      BY <1>2, <1>4, <2>2, <3>2 DEF StageInv
    <3> QED BY <3>1, <3>2
  <2>4. \A x \in Workers, y \in Workers : x # y /\ req'[x] # Nil => req'[y] # req'[x]
    BY <1>1, <1>2 DEF StageInv
  <2> QED BY <2>3, <2>4 DEF StageInv
<1> QED BY <1>1, <1>2, <1>3, <1>5, <1>6

\* A look of the open page.
Looking == stream' \in {notify[Watched], "ended"}
           /\ UNCHANGED <<lvars, hvars, contacts, seen, acked, purged, crossed>>

\* It changes nothing but what the page has heard of.
LEMMA StageLooking ==
    ASSUME TypeOK, StageInv, Looking
    PROVE  TypeOK' /\ StageInv'
<1>1. notify[Watched] \in Uids \cup {Nil}
  BY RequestAssumption DEF TypeOK
<1>2. LoopTypeOK(Uids)'
  BY DEF TypeOK, LoopTypeOK, Looking, lvars
<1> QED BY <1>1, <1>2 DEF Looking, TypeOK, StageInv, lvars, hvars

\* The steps of the system.
LEMMA NextCases ==
    ASSUME TypeOK, StageInv, Next
    PROVE  \/ \E w \in Workers : TypeOK' /\ Turn(w)
           \/ \E w \in Workers : Loop(w)
           \/ \E w \in Workers, r \in Requests : Request(w, r)
           \/ Looking
  BY StepIsTurn DEF Next, Poll, StreamEnds, Looking

-----------------------------------------------------------------------------
(* Excused. *)

\* What Excused records is recorded in time.
ExcuseInv ==
    /\ \A w \in Workers : loop[w].st = "no" /\ loop[w].hit => loop[w].item \in misled
    /\ \A w \in Workers : req[w] # Nil /\ req[w].do \in {"purge", "forget"} => req[w].uid \in purged
    /\ \A w, x \in Busy : w # x /\ Overlap(req[w], req[x]) => req[w].uid \in crossed

\* The items that the loop of w adds or removes: at most one.
LEMMA AskedAt ==
    ASSUME StageInv, NEW w \in Workers
    PROVE  Asked(w) = IF pc[w] \in Looping THEN {ItemAt(pc[w], req[w])} ELSE {}
<1>1. CASE pc[w] \in Looping
  BY <1>1 DEF StageInv, Asked
<1>2. CASE pc[w] \notin Looping
  <2>1. loop[w] = NoLoop /\ NoLoop.st = "off"
    BY <1>2 DEF StageInv, NoLoop
  <2> QED BY <1>2, <2>1 DEF Asked
<1> QED BY <1>1, <1>2

\* A turn keeps ExcuseInv.
LEMMA ExcuseTurn ==
    ASSUME TypeOK, StageInv, ExcuseInv, NEW w \in Workers, TypeOK', Turn(w)
    PROVE  ExcuseInv'
<1>1. /\ req' = req /\ misled' = misled /\ purged' = purged /\ crossed \subseteq crossed'
      /\ loop'[w] = LoopAt(pc'[w], req[w]) /\ w \in Busy
      /\ \A x \in Workers \ {w} : pc'[x] = pc[x] /\ loop'[x] = loop[x]
  BY DEF Turn, Frame
<1>2. loop'[w].st # "no"
  BY <1>1, HopLabel, LoopAtTypes
<1>3. \A x \in Workers : loop'[x].st = "no" /\ loop'[x].hit => loop'[x].item \in misled'
  BY <1>1, <1>2 DEF ExcuseInv
<1>4. Busy' \subseteq Busy
  BY <1>1 DEF Busy
<1> QED BY <1>1, <1>3, <1>4 DEF ExcuseInv

\* So does a step of a loop.
LEMMA ExcuseLoop ==
    ASSUME TypeOK, StageInv, ExcuseInv, NEW w \in Workers, Turning(w)
    PROVE  ExcuseInv'
<1>1. \A x \in Workers : loop'[x].st = "no" /\ loop'[x].hit => loop'[x].item \in misled'
  BY DEF ExcuseInv, Turning, GoesOn
<1>2. Busy' = Busy
  BY DEF Busy, Turning
<1> QED BY <1>1, <1>2 DEF ExcuseInv, Turning

\* A request records with whom it overlaps, and what it deletes.
LEMMA ExcuseRequest ==
    ASSUME TypeOK, StageInv, ExcuseInv, NEW w \in Workers, NEW r \in Requests, Request(w, r)
    PROVE  ExcuseInv'
<1>1. /\ pc[w] = "idle" /\ pc'[w] = "begin" /\ req'[w] = r
      /\ \A x \in Workers \ {w} : pc'[x] = pc[x] /\ req'[x] = req[x]
  BY StageRequest
<1>2. loop' = loop /\ misled' = misled
  BY DEF Request, lvars
<1>3. \A x \in Workers : req'[x] # Nil /\ req'[x].do \in {"purge", "forget"} => req'[x].uid \in purged'
  BY <1>1 DEF ExcuseInv, Request
<1>4. w \notin Busy /\ Busy' = Busy \cup {w}
  BY <1>1 DEF Busy
<1>5. \A x \in Busy : Overlap(r, req[x]) => {r.uid, req[x].uid} \subseteq crossed'
  BY DEF Request
<1>6. ASSUME NEW x \in Busy', NEW y \in Busy', x # y, Overlap(req'[x], req'[y])
      PROVE  req'[x].uid \in crossed'
  <2>1. CASE x = w
    BY <1>1, <1>4, <1>5, <1>6, <2>1 DEF Busy
  <2>2. CASE y = w
    <3>1. Overlap(r, req[x])
      BY <1>1, <1>4, <1>6, <2>2 DEF Overlap, Busy
    <3> QED BY <1>1, <1>4, <1>5, <1>6, <2>2, <3>1 DEF Busy
  <2>3. CASE x # w /\ y # w
    <3>1. x \in Busy /\ y \in Busy /\ req'[x] = req[x] /\ req'[y] = req[y]
      BY <1>1, <1>4, <2>3 DEF Busy
    <3> QED BY <1>6, <3>1 DEF ExcuseInv, Request
  <2> QED BY <2>1, <2>2, <2>3
<1> QED BY <1>2, <1>3, <1>6 DEF ExcuseInv

-----------------------------------------------------------------------------
(* What is new. *)

\* Nobody has heard of m: no list, no page, no success.
Unheard(m) ==
    /\ m \notin acked /\ m # stream /\ \A l \in Indexed : notify[l] # m
    /\ m \notin Around(Lists)

\* No loop lists or removes m, or only that of w.
NotAsked(m) == \A x \in Workers : m \notin Asked(x)
OnlyAskedBy(w, m) == \A x \in Workers \ {w} : m \notin Asked(x)

\* The labels before m is listed for the first time.
Before(w, m) ==
    pc[w] \in {"begin", "deliver"} \cup
        (IF m = req[w].uid THEN {} ELSE {"delivering", "copy"})

\* What a request creates is new until the request lists it, and stays so when
\* that fails.
NewInv ==
    /\ \A r \in Requests, m \in Uids : m \in Made(r) /\ (\A w \in Workers : req[w] # r) =>
          Unheard(m) /\ NotAsked(m)
    /\ \A w \in Workers, m \in Uids : req[w] # Nil /\ m \in Made(req[w]) /\ Before(w, m) =>
          Unheard(m) /\ NotAsked(m)
    /\ \A w \in Workers, m \in Uids :
          /\ pc[w] \in {"delivering", "copying"} /\ m \in Asked(w)
          /\ loop[w].st \in {"read", "write", "no"} /\ ~loop[w].hit
          => Unheard(m) /\ OnlyAskedBy(w, m)
    /\ \A w \in Workers, m \in Uids :
          /\ reply[w] = "failed" /\ req[w].do \in {"send", "smtp"}
          /\ m = req[w].uid /\ m \notin misled
          => Unheard(m) /\ NotAsked(m)

\* A turn brings nothing to a list or a copy.
LEMMA TurnAround ==
    ASSUME TypeOK, StageInv, NEW w \in Workers, TypeOK', Turn(w), NEW L
    PROVE  Around(L)' \subseteq Around(L)
<1>1. /\ list' = list /\ index' = index
      /\ loop'[w] = LoopAt(pc'[w], req[w]) /\ \A x \in Workers \ {w} : loop'[x] = loop[x]
  BY DEF Turn, Frame
<1>2. loop'[w].old = <<>>
  BY <1>1, HopLabel, LoopAtTypes
<1>3. Items(loop'[w].old) = {}
  BY <1>2 DEF Items
<1>4. InHands(L)' \subseteq InHands(L)
  BY <1>1, <1>3 DEF InHands
<1>5. OnLists(L)' = OnLists(L) /\ OnCopies(L)' = OnCopies(L)
  BY <1>1 DEF OnLists, OnCopies, Stored
<1> QED BY <1>4, <1>5 DEF Around

\* What the loops are asked for after a turn.
LEMMA TurnAsked ==
    ASSUME TypeOK, StageInv, NEW w \in Workers, TypeOK', Turn(w)
    PROVE  /\ \A x \in Workers \ {w} : Asked(x)' = Asked(x)
           /\ pc'[w] \notin Looping => Asked(w)' = {}
           /\ \A m \in Asked(w)' : pc'[w] \in Looping /\ m = ItemAt(pc'[w], req[w])
<1>1. loop'[w] = LoopAt(pc'[w], req[w])
  BY DEF Turn, Frame
<1>2. /\ pc'[w] \notin Looping => loop'[w].st = "off"
      /\ pc'[w] \in Looping => loop'[w].st = "read" /\ loop'[w].item = ItemAt(pc'[w], req[w])
  BY <1>1, HopLabel, LoopAtTypes
<1>3. req' = req /\ \A x \in Workers \ {w} : loop'[x] = loop[x]
  BY DEF Turn, Frame
<1> QED BY <1>2, <1>3 DEF Asked

\* Where the item of a new loop comes from.
LEMMA TurnItem ==
    ASSUME TypeOK, StageInv, NEW w \in Workers, TypeOK', Turn(w), NEW m, m \in Asked(w)'
    PROVE  \/ m \in Asked(w) /\ pc[w] \in {"listing", "unlisting"}
           \/ m = req[w].uid /\ pc[w] = "deliver" /\ pc'[w] = "delivering"
           \/ m = req[w].copy /\ pc[w] = "copy" /\ pc'[w] = "copying"
           \/ m = req[w].uid /\ pc[w] = "begin" /\ pc'[w] = "appending"
           \/ m = req[w].uid /\ req[w].do \in {"move", "purge"} /\ Found(m, req[w].from)
           \/ req[w].do = "dm" /\ m \in {req[w].peer, req[w].me}
<1>1. pc'[w] \in Looping /\ m = ItemAt(pc'[w], req[w])
  BY TurnAsked
<1>2. req[w].do \in KindsAt(pc'[w])
  BY HopLabel
<1>3. pc[w] \in Looping => Asked(w) = {ItemAt(pc[w], req[w])}
  BY AskedAt
<1> QED BY <1>1, <1>2, <1>3 DEF Turn, Hop, ItemAt, Looping, KindsAt

\* What was found in a folder or its copy is around.
LEMMA FoundAround ==
    ASSUME NEW l \in Lists, NEW m, Found(m, l), NEW L, l \in L
    PROVE  m \in Around(L)
  BY DEF Found, Around, OnLists, OnCopies

\* A turn by which m becomes known reports success for m or announces it.
LEMMA UnheardTurn ==
    ASSUME TypeOK, StageInv, NEW w \in Workers, TypeOK', Turn(w), NEW m, Unheard(m),
           ~Earns(w, m), ~(pc[w] = "delivering" /\ loop[w].st = "yes" /\ m = req[w].uid)
    PROVE  Unheard(m)'
<1>1. m \notin Around(Lists)'
  BY TurnAround DEF Unheard
<1>2. m \notin acked' /\ m # stream'
  BY DEF Unheard, Turn, Books, Frame
<1>3. \A l \in Indexed : notify'[l] # m
  BY DEF Unheard, Turn, Books
<1> QED BY <1>1, <1>2, <1>3 DEF Unheard

\* The uids of one request are none of another's.
LEMMA MadeOnce ==
    ASSUME NEW r \in Requests, NEW x \in Requests, r # x, NEW m, m \in Made(r)
    PROVE  /\ m \notin Made(x)
           /\ m \notin People /\ (x.do = "dm" => m \notin {x.peer, x.me})
           /\ \A l \in Lists : m \notin Initial(l)
  BY UidAssumption DEF Of

\* A turn of w makes nothing known that w does not create, and asks for nothing new.
LEMMA StrangerTurn ==
    ASSUME TypeOK, StageInv, NEW w \in Workers, TypeOK', Turn(w),
           NEW r \in Requests, r # req[w], NEW m, m \in Made(r), Unheard(m), m \notin Asked(w)
    PROVE  Unheard(m)' /\ m \notin Asked(w)'
<1>1. req[w] \in Requests /\ req[w].do \in KindsAt(pc[w])
  BY HopLabel, BusyTypes
<1>2. m \notin Made(req[w]) /\ m \notin People /\ (req[w].do = "dm" => m \notin {req[w].peer, req[w].me})
  BY <1>1, MadeOnce
<1>3. req[w].do \in MakingKinds => m \notin {req[w].uid, req[w].copy}
  BY <1>1, <1>2, RequestTypes
<1>4. req[w].do \in ContactKinds => m # req[w].uid
  BY <1>1, <1>2 DEF People, Of
<1>5. pc[w] \in {"deliver", "copy", "delivering", "copying", "appending", "peering", "peered"}
      => req[w].do \in MakingKinds
  BY <1>1 DEF KindsAt, MakingKinds, ChatKinds
<1>6. pc[w] = "saving" => req[w].do \in ContactKinds
  BY <1>1 DEF KindsAt
<1>7. ~Earns(w, m) /\ ~(pc[w] = "delivering" /\ loop[w].st = "yes" /\ m = req[w].uid)
  BY <1>3, <1>4, <1>5, <1>6 DEF Earns
<1>8. m \notin Asked(w)'
  <2> SUFFICES ASSUME m \in Asked(w)' PROVE FALSE
    OBVIOUS
  <2>1. pc'[w] = "appending" /\ pc[w] = "begin" => req[w].do \in MakingKinds
    BY HopLabel DEF KindsAt, MakingKinds
  <2>2. m = req[w].uid /\ req[w].do \in {"move", "purge"} /\ Found(m, req[w].from)
    BY <1>2, <1>3, <1>5, <2>1, TurnItem
  <2>3. req[w].from \in Lists
    BY <1>1, <2>2, RequestTypes
  <2> QED BY <2>2, <2>3, FoundAround DEF Unheard
<1> QED BY <1>7, <1>8, UnheardTurn

\* A step of a loop makes nothing known but its item.
LEMMA StrangerLoop ==
    ASSUME TypeOK, NEW w \in Workers, Turning(w), LoopStep(w), NEW m, Unheard(m),
           m \notin Asked(w) \/ (loop'[w].st \notin {"index", "yes"} /\ ~loop'[w].hit)
    PROVE  Unheard(m)'
<1>1. LoopTypeOK(Uids)
  BY DEF TypeOK
<1>2. loop[w].st # "off"
  BY DEF Turning, LoopEffect
<1>3. m \notin Around(Lists)'
  BY <1>1, <1>2, LoopAround DEF Unheard, Asked
<1> QED BY <1>3 DEF Unheard, Turning

\* A turn of w and what other requests create.
LEMMA StrangersStayNew ==
    ASSUME TypeOK, StageInv, NEW w \in Workers, TypeOK', Turn(w),
           NEW r \in Requests, r # req[w], NEW m, m \in Made(r), Unheard(m)
    PROVE  /\ NotAsked(m) => Unheard(m)' /\ NotAsked(m)'
           /\ \A x \in Workers \ {w} : OnlyAskedBy(x, m) => Unheard(m)' /\ OnlyAskedBy(x, m)'
<1>1. \A x \in Workers \ {w} : Asked(x)' = Asked(x)
  BY TurnAsked
<1>2. m \notin Asked(w) => Unheard(m)' /\ m \notin Asked(w)'
  BY StrangerTurn
<1>3. NotAsked(m) => NotAsked(m)'
  BY <1>1, <1>2 DEF NotAsked
<1>4. \A x \in Workers \ {w} : OnlyAskedBy(x, m) => OnlyAskedBy(x, m)'
  BY <1>1, <1>2 DEF OnlyAskedBy
<1> QED BY <1>2, <1>3, <1>4 DEF NotAsked, OnlyAskedBy

\* Two workers serve two requests.
LEMMA TwoRequests ==
    ASSUME TypeOK, StageInv, NEW w \in Workers, NEW x \in Workers, w # x, req[w] # Nil
    PROVE  req[w] \in Requests /\ req[x] # req[w]
  BY DEF TypeOK, StageInv

\* The item of a loop that stores a message is one that the request creates.
LEMMA StoringItem ==
    ASSUME TypeOK, StageInv, NEW w \in Workers, pc[w] \in {"delivering", "copying"},
           NEW m, m \in Asked(w)
    PROVE  /\ req[w] \in Requests /\ m \in Made(req[w]) /\ m = loop[w].item
           /\ m = IF pc[w] = "delivering" THEN req[w].uid ELSE req[w].copy
<1>1. req[w] \in Requests /\ req[w].do \in KindsAt(pc[w]) /\ pc[w] \in Looping
  BY BusyTypes DEF Looping
<1>2. m = ItemAt(pc[w], req[w]) /\ m = loop[w].item
  BY <1>1, AskedAt DEF StageInv
<1>3. m = IF pc[w] = "delivering" THEN req[w].uid ELSE req[w].copy
  BY <1>2 DEF ItemAt
<1>4. req[w].do \in MakingKinds
  BY <1>1 DEF KindsAt, MakingKinds
<1> QED BY <1>1, <1>2, <1>3, <1>4, RequestTypes

\* A turn keeps NewInv.
LEMMA NewTurn ==
    ASSUME TypeOK, StageInv, ExcuseInv, NewInv, NEW w \in Workers, TypeOK', Turn(w)
    PROVE  NewInv'
<1>1. /\ req' = req /\ misled' = misled
      /\ loop'[w] = LoopAt(pc'[w], req[w])
      /\ \A x \in Workers \ {w} : pc'[x] = pc[x] /\ loop'[x] = loop[x] /\ reply'[x] = reply[x]
      /\ pc'[w] # "done" => reply'[w] = reply[w]
  BY DEF Turn, Frame
<1>2. /\ pc'[w] # "idle" /\ req[w] \in Requests /\ req[w].do \in KindsAt(pc'[w])
      /\ pc[w] \notin {"idle", "done"} /\ reply[w] = "none"
  BY HopLabel
<1>3. req[w].do \in KindsAt(pc[w]) /\ req[w] # Nil
  BY <1>2, BusyTypes, RequestAssumption
<1>4. \A x \in Workers \ {w} : Asked(x)' = Asked(x)
  BY TurnAsked
<1>5. pc'[w] \notin Looping => Asked(w)' = {}
  BY TurnAsked
<1>6. ASSUME NEW r \in Requests, NEW m \in Uids, m \in Made(r), \A x \in Workers : req'[x] # r
      PROVE  Unheard(m)' /\ NotAsked(m)'
  <2>1. Unheard(m) /\ NotAsked(m) /\ r # req[w]
    BY <1>1, <1>6 DEF NewInv
  <2> QED BY <1>6, <2>1, StrangersStayNew
<1>7. ASSUME NEW x \in Workers, NEW m \in Uids, req'[x] # Nil, m \in Made(req'[x]), Before(x, m)'
      PROVE  Unheard(m)' /\ NotAsked(m)'
  <2>1. CASE x # w
    <3>1. Before(x, m) /\ req[x] # Nil /\ m \in Made(req[x])
      BY <1>1, <1>7, <2>1 DEF Before
    <3>2. Unheard(m) /\ NotAsked(m)
      BY <3>1 DEF NewInv
    <3>3. req[x] \in Requests /\ req[x] # req[w]
      BY <2>1, <3>1, TwoRequests
    <3> QED BY <3>1, <3>2, <3>3, StrangersStayNew
  <2>2. CASE x = w
    <3>1. pc'[w] \in {"begin", "deliver"} \/ (m # req[w].uid /\ pc'[w] \in {"delivering", "copy"})
      BY <1>1, <1>7, <2>2 DEF Before
    <3>2. pc[w] \in {"begin", "deliver"} \/ (m # req[w].uid /\ pc[w] \in {"delivering", "copy"})
      BY <3>1 DEF Turn, Hop
    <3>3. Before(w, m) /\ m \in Made(req[w])
      BY <1>1, <1>7, <2>2, <3>2 DEF Before
    <3>4. Unheard(m) /\ NotAsked(m)
      BY <1>3, <3>3 DEF NewInv
    <3>5. Unheard(m)'
      BY <3>1, <3>2, <3>4, UnheardTurn DEF Earns
    <3>6. m \notin Asked(w)'
      BY <3>1, TurnAsked DEF ItemAt, Looping
    <3> QED BY <1>4, <3>4, <3>5, <3>6 DEF NotAsked
  <2> QED BY <2>1, <2>2
<1>8. ASSUME NEW x \in Workers, NEW m \in Uids,
             pc'[x] \in {"delivering", "copying"}, m \in Asked(x)',
             loop'[x].st \in {"read", "write", "no"}, ~loop'[x].hit
      PROVE  Unheard(m)' /\ OnlyAskedBy(x, m)'
  <2>1. CASE x # w
    <3>1. pc[x] \in {"delivering", "copying"} /\ m \in Asked(x) /\ Unheard(m) /\ OnlyAskedBy(x, m)
      BY <1>1, <1>4, <1>8, <2>1 DEF NewInv
    <3>2. req[x] \in Requests /\ m \in Made(req[x])
      BY <3>1, StoringItem
    <3>3. req[x] # req[w]
      BY <1>3, <2>1, TwoRequests
    <3> QED BY <2>1, <3>1, <3>2, <3>3, StrangersStayNew
  <2>2. CASE x = w
    <3>1. m = ItemAt(pc'[w], req[w])
      BY <1>8, <2>2, TurnAsked
    <3>2. \/ pc[w] = "deliver" /\ pc'[w] = "delivering" /\ m = req[w].uid
          \/ pc[w] = "copy" /\ pc'[w] = "copying" /\ m = req[w].copy
      BY <1>8, <2>2, <3>1 DEF Turn, Hop, ItemAt
    <3>3. req[w].do \in MakingKinds /\ req[w].do \in KindsAt(pc[w])
      BY <1>3, <3>2 DEF KindsAt, MakingKinds
    <3>4. m \in Made(req[w]) /\ (pc[w] = "copy" => m # req[w].uid)
      BY <1>2, <3>2, <3>3, RequestTypes DEF KindsAt
    <3>5. Before(w, m)
      BY <3>2, <3>4 DEF Before
    <3>6. Unheard(m) /\ NotAsked(m)
      BY <1>3, <3>4, <3>5 DEF NewInv
    <3>7. Unheard(m)'
      BY <3>2, <3>6, UnheardTurn DEF Earns
    <3> QED BY <1>4, <2>2, <3>6, <3>7 DEF NotAsked, OnlyAskedBy
  <2> QED BY <2>1, <2>2
<1>9. ASSUME NEW x \in Workers, NEW m \in Uids, reply'[x] = "failed",
             req'[x].do \in {"send", "smtp"}, m = req'[x].uid, m \notin misled'
      PROVE  Unheard(m)' /\ NotAsked(m)'
  <2>1. CASE x # w
    <3>1. Unheard(m) /\ NotAsked(m)
      BY <1>1, <1>9, <2>1 DEF NewInv
    <3>2. req[x] # Nil
      BY <1>1, <1>9, <2>1 DEF StageInv
    <3>3. req[x] \in Requests /\ req[x] # req[w]
      BY <2>1, <3>2, TwoRequests
    <3>4. m \in Made(req[x])
      BY <1>1, <1>9, <3>3, RequestTypes DEF MakingKinds
    <3> QED BY <3>1, <3>3, <3>4, StrangersStayNew
  <2>2. CASE x = w
    <3>1. pc'[w] = "done"
      BY <1>1, <1>2, <1>9, <2>2
    <3>2. pc[w] \in {"begin", "deliver"} \/ (pc[w] = "delivering" /\ loop[w].st = "no")
      BY <1>1, <1>2, <1>9, <2>2 DEF Turn, Books
    <3>3. m \in Made(req[w]) /\ m \in Uids
      BY <1>1, <1>2, <1>9, <2>2, RequestTypes DEF MakingKinds
    <3>4. Unheard(m) /\ OnlyAskedBy(w, m)
      <4>1. CASE pc[w] \in {"begin", "deliver"}
        <5>1. Before(w, m)
          BY <2>2, <4>1 DEF Before
        <5> QED BY <1>3, <3>3, <5>1 DEF NewInv, NotAsked, OnlyAskedBy
      <4>2. CASE pc[w] = "delivering" /\ loop[w].st = "no"
        <5>1. m \in Asked(w) /\ loop[w].item = m
          BY <1>1, <1>9, <2>2, <4>2, AskedAt DEF Looping, ItemAt, StageInv
        <5>2. ~loop[w].hit
          BY <1>1, <1>9, <2>2, <4>2, <5>1 DEF ExcuseInv
        <5> QED BY <3>3, <4>2, <5>1, <5>2 DEF NewInv
      <4> QED BY <3>2, <4>1, <4>2
    <3>5. Unheard(m)'
      BY <3>2, <3>4, UnheardTurn DEF Earns
    <3>6. Asked(w)' = {}
      BY <1>5, <3>1 DEF Looping
    <3>7. NotAsked(m)'
      BY <1>4, <3>4, <3>6 DEF NotAsked, OnlyAskedBy
    <3> QED BY <3>5, <3>7
  <2> QED BY <2>1, <2>2
<1> QED BY <1>6, <1>7, <1>8, <1>9 DEF NewInv

\* A copy of a list is the last step of a loop.
LEMMA IndexEnds ==
    ASSUME TypeOK, NEW w \in Workers, LoopStep(w), loop[w].st = "index"
    PROVE  loop'[w].st = "yes"
<1>1. CopyIndex(w)
  BY DEF LoopStep, LoopRead, LoopReadFails, LoopWrite, LoopWriteFails
<1>2. loop' = [loop EXCEPT ![w].st = "yes"] /\ loop \in [Workers -> LoopStates(Uids)]
  BY <1>1 DEF CopyIndex, Result, TypeOK, LoopTypeOK
<1> QED BY <1>2 DEF LoopStates

\* So does a step of a loop.
LEMMA NewLoop ==
    ASSUME TypeOK, StageInv, NewInv, NEW w \in Workers, Turning(w), LoopStep(w)
    PROVE  NewInv'
<1>1. \A x \in Workers : Asked(x)' = Asked(x)
  <2>1. loop[w].st # "off"
    BY DEF Turning, LoopEffect
  <2> QED BY <2>1 DEF Asked, Turning, GoesOn
<1>2. ASSUME NEW m, Unheard(m), NotAsked(m) PROVE Unheard(m)' /\ NotAsked(m)'
  BY <1>1, <1>2, StrangerLoop DEF NotAsked
<1>3. ASSUME NEW x \in Workers, NEW m \in Uids,
             pc'[x] \in {"delivering", "copying"}, m \in Asked(x)',
             loop'[x].st \in {"read", "write", "no"}, ~loop'[x].hit
      PROVE  Unheard(m)' /\ OnlyAskedBy(x, m)'
  <2>1. loop[x].st \in {"read", "write", "no"} /\ ~loop[x].hit
    <3>1. CASE x = w
      <4>1. loop[w].st \in {"read", "write", "index"} /\ (loop[w].hit => loop'[w].hit)
        BY DEF Turning, LoopEffect, GoesOn
      <4>2. loop[w].st = "index" => loop'[w].st = "yes"
        BY IndexEnds
      <4> QED BY <1>3, <3>1, <4>1, <4>2
    <3>2. CASE x # w
      BY <1>3, <3>2 DEF Turning, GoesOn
    <3> QED BY <3>1, <3>2
  <2>2. Unheard(m) /\ OnlyAskedBy(x, m)
    BY <1>1, <1>3, <2>1 DEF NewInv, Turning
  <2>3. Unheard(m)'
    BY <1>3, <2>2, StrangerLoop DEF OnlyAskedBy
  <2> QED BY <1>1, <2>2, <2>3 DEF OnlyAskedBy
<1>4. misled \subseteq misled' /\ pc' = pc /\ req' = req /\ reply' = reply
  BY DEF Turning, GoesOn
<1>5. ASSUME NEW x \in Workers, NEW m \in Uids, req'[x] # Nil, m \in Made(req'[x]), Before(x, m)'
      PROVE  Unheard(m)' /\ NotAsked(m)'
  BY <1>2, <1>4, <1>5 DEF NewInv, Before
<1>6. ASSUME NEW x \in Workers, NEW m \in Uids, reply'[x] = "failed",
             req'[x].do \in {"send", "smtp"}, m = req'[x].uid, m \notin misled'
      PROVE  Unheard(m)' /\ NotAsked(m)'
  <2>1. Unheard(m) /\ NotAsked(m)
    BY <1>4, <1>6 DEF NewInv
  <2> QED BY <1>2, <2>1
<1>7. ASSUME NEW r \in Requests, NEW m \in Uids, m \in Made(r), \A x \in Workers : req'[x] # r
      PROVE  Unheard(m)' /\ NotAsked(m)'
  BY <1>2, <1>4, <1>7 DEF NewInv
<1> QED BY <1>3, <1>5, <1>6, <1>7 DEF NewInv

\* What a request creates is new when the request comes.
LEMMA NewRequest ==
    ASSUME TypeOK, StageInv, NewInv, NEW w \in Workers, NEW r \in Requests, Request(w, r)
    PROVE  NewInv'
<1>1. /\ pc[w] = "idle" /\ pc'[w] = "begin" /\ req'[w] = r /\ req[w] = Nil
      /\ \A x \in Workers \ {w} : pc'[x] = pc[x] /\ req'[x] = req[x]
      /\ \A x \in Workers : req[x] # r
  BY StageRequest
<1>2. /\ list' = list /\ index' = index /\ loop' = loop /\ misled' = misled
      /\ acked' = acked /\ stream' = stream /\ notify' = notify /\ reply' = reply
  BY DEF Request, lvars, pvars
<1>3. ASSUME NEW m PROVE /\ Unheard(m)' <=> Unheard(m)
                         /\ NotAsked(m)' <=> NotAsked(m)
                         /\ \A x \in Workers : OnlyAskedBy(x, m)' <=> OnlyAskedBy(x, m)
                         /\ \A x \in Workers : Asked(x)' = Asked(x)
  BY <1>2 DEF Unheard, NotAsked, OnlyAskedBy, Asked, Around, OnLists, OnCopies, InHands, Stored
<1>4. ASSUME NEW q \in Requests, NEW m \in Uids, m \in Made(q), \A x \in Workers : req'[x] # q
      PROVE  Unheard(m)' /\ NotAsked(m)'
  <2>1. \A x \in Workers : req[x] # q
    BY <1>1, <1>4, RequestAssumption
  <2>2. Unheard(m) /\ NotAsked(m)
    BY <1>4, <2>1 DEF NewInv
  <2> QED BY <1>3, <2>2
<1>5. ASSUME NEW x \in Workers, NEW m \in Uids, req'[x] # Nil, m \in Made(req'[x]), Before(x, m)'
      PROVE  Unheard(m)' /\ NotAsked(m)'
  <2>1. CASE x = w
    BY <1>1, <1>3, <1>5, <2>1 DEF NewInv
  <2>2. CASE x # w
    BY <1>1, <1>3, <1>5, <2>2 DEF NewInv, Before
  <2> QED BY <2>1, <2>2
<1>6. ASSUME NEW x \in Workers, NEW m \in Uids,
             pc'[x] \in {"delivering", "copying"}, m \in Asked(x)',
             loop'[x].st \in {"read", "write", "no"}, ~loop'[x].hit
      PROVE  Unheard(m)' /\ OnlyAskedBy(x, m)'
  <2>1. pc[x] \in {"delivering", "copying"} /\ m \in Asked(x)
    BY <1>1, <1>3, <1>6
  <2> QED BY <1>2, <1>3, <1>6, <2>1 DEF NewInv
<1>7. ASSUME NEW x \in Workers, NEW m \in Uids, reply'[x] = "failed",
             req'[x].do \in {"send", "smtp"}, m = req'[x].uid, m \notin misled'
      PROVE  Unheard(m)' /\ NotAsked(m)'
  <2>1. x # w
    BY <1>1, <1>2, <1>7 DEF StageInv
  <2>2. Unheard(m) /\ NotAsked(m)
    BY <1>1, <1>2, <1>7, <2>1 DEF NewInv
  <2> QED BY <1>3, <2>2
<1> QED BY <1>4, <1>5, <1>6, <1>7 DEF NewInv

\* A look of the page.
LEMMA NewLooking ==
    ASSUME TypeOK, StageInv, NewInv, Looking
    PROVE  NewInv'
<1>1. /\ list' = list /\ index' = index /\ loop' = loop /\ misled' = misled
      /\ acked' = acked /\ notify' = notify /\ reply' = reply /\ pc' = pc /\ req' = req
      /\ stream' \in {notify[Watched], "ended"}
  BY DEF Looking, lvars, hvars
<1>2. Watched \in Indexed /\ "ended" \notin Uids
  BY RequestAssumption
<1>3. ASSUME NEW m \in Uids, Unheard(m) PROVE Unheard(m)'
  BY <1>1, <1>2, <1>3 DEF Unheard, Around, OnLists, OnCopies, InHands, Stored
<1>4. ASSUME NEW m PROVE /\ NotAsked(m)' <=> NotAsked(m)
                         /\ \A x \in Workers : OnlyAskedBy(x, m)' <=> OnlyAskedBy(x, m)
                         /\ \A x \in Workers : Asked(x)' = Asked(x)
                         /\ \A x \in Workers : Before(x, m)' <=> Before(x, m)
  BY <1>1 DEF NotAsked, OnlyAskedBy, Asked, Before
<1>5. ASSUME NEW x \in Workers, NEW m \in Uids, reply'[x] = "failed",
             req'[x].do \in {"send", "smtp"}, m = req'[x].uid, m \notin misled'
      PROVE  Unheard(m)' /\ NotAsked(m)'
  <2>1. req[x] \in Requests
    BY <1>1, <1>5 DEF StageInv, TypeOK
  <2>2. Unheard(m) /\ NotAsked(m) /\ m \in Uids
    BY <1>1, <1>5, <2>1, RequestTypes DEF NewInv
  <2> QED BY <1>3, <1>4, <2>2
<1> QED BY <1>1, <1>3, <1>4, <1>5 DEF NewInv

-----------------------------------------------------------------------------
(* Columns and attachments. *)

\* The columns of what is listed, about to be listed, announced or acknowledged
\* are there, and those of a mail whose sender's copy is on its way.
ColumnInv ==
    /\ \A r \in Requests, m \in Uids :
          m \in Made(r) /\ (m \in Around(Lists) \/ ~NotAsked(m)) => m \in stored \cup Excused
    /\ \A l \in Indexed : notify[l] \in stored \cup Excused \cup {Nil}
    /\ stream \in stored \cup Excused \cup {Nil, "ended"}
    /\ acked \subseteq stored \cup Excused \cup People
    /\ \A w \in Workers :
          \/ pc[w] \in {"copy", "copying"} /\ req[w].do = "send"
          \/ pc[w] \in {"peering", "peered"}
          => req[w].uid \in stored \cup Excused

\* What the turn of w deletes nobody has heard of, unless it is excused.
LEMMA DropsQuiet ==
    ASSUME TypeOK, StageInv, ExcuseInv, NewInv, NEW w \in Workers, TypeOK', Turn(w),
           NEW m \in Uids, m \in stored \ stored', m \notin Excused
    PROVE  /\ Unheard(m) /\ m \in Made(req[w]) /\ m \in Asked(w) /\ loop[w].st = "no"
           /\ pc[w] \in {"delivering", "copying"} /\ pc'[w] = "done"
           /\ m \notin Around(Lists)' /\ NotAsked(m)'
<1>1. Drops(w, m)
  BY DEF Turn, Books
<1>2. pc[w] # "purging"
  <2>1. ASSUME pc[w] = "purging" PROVE FALSE
    <3>1. req[w] \in Requests /\ req[w].do \in KindsAt(pc[w]) /\ req[w] # Nil
      BY <2>1, BusyTypes, RequestAssumption
    <3>2. req[w].do = "purge" /\ m = req[w].uid
      BY <1>1, <2>1, <3>1 DEF Drops, KindsAt
    <3> QED BY <3>1, <3>2 DEF ExcuseInv, Excused
  <2> QED BY <2>1
<1>3. pc[w] \in {"delivering", "copying"} /\ loop[w].st = "no" /\ m = loop[w].item
      /\ pc'[w] = "done"
  BY <1>1, <1>2 DEF Drops
<1>4. m \in Asked(w)
  BY <1>3 DEF Asked
<1>5. ~loop[w].hit
  BY <1>3 DEF ExcuseInv, Excused
<1>6. Unheard(m) /\ OnlyAskedBy(w, m)
  BY <1>3, <1>4, <1>5 DEF NewInv
<1>7. m \in Made(req[w])
  BY <1>3, <1>4, StoringItem
<1>8. m \notin Around(Lists)'
  BY <1>6, TurnAround DEF Unheard
<1>9. NotAsked(m)'
  <2>1. Asked(w)' = {} /\ \A x \in Workers \ {w} : Asked(x)' = Asked(x)
    BY <1>3, TurnAsked DEF Looping
  <2> QED BY <1>6, <2>1 DEF NotAsked, OnlyAskedBy
<1> QED BY <1>3, <1>4, <1>6, <1>7, <1>8, <1>9

\* Excuses stay.
LEMMA ExcusedTurn ==
    ASSUME NEW w \in Workers, Turn(w)
    PROVE  Excused \subseteq Excused'
  BY DEF Turn, Frame, Excused

\* A turn keeps ColumnInv.
LEMMA ColumnTurn ==
    ASSUME TypeOK, StageInv, ExcuseInv, NewInv, ColumnInv, NEW w \in Workers, TypeOK', Turn(w)
    PROVE  ColumnInv'
<1>1. /\ req' = req /\ stream' = stream
      /\ \A x \in Workers \ {w} : pc'[x] = pc[x] /\ loop'[x] = loop[x]
  BY DEF Turn, Frame
<1>2. /\ req[w] \in Requests /\ req[w].do \in KindsAt(pc'[w])
      /\ pc[w] \notin {"idle", "done"}
  BY HopLabel
<1>3. req[w].do \in KindsAt(pc[w]) /\ req[w] # Nil
  BY <1>2, BusyTypes, RequestAssumption
<1>4. Excused \subseteq Excused'
  BY ExcusedTurn
<1>5. \A x \in Workers \ {w} : Asked(x)' = Asked(x)
  BY TurnAsked
<1>6. stored \subseteq Uids /\ acked' \subseteq Uids
  BY DEF TypeOK
<1>7. ASSUME NEW m \in Uids, m \in stored \cup Excused,
             ~Unheard(m) \/ m \notin Asked(w) \/ loop[w].st # "no"
             \/ m \in Around(Lists)' \/ ~NotAsked(m)'
      PROVE  m \in stored' \cup Excused'
  BY <1>4, <1>7, DropsQuiet
<1>8. ASSUME pc[w] \in {"delivering", "copying", "appending"}
      PROVE  ItemAt(pc[w], req[w]) \in Uids /\ ItemAt(pc[w], req[w]) \in stored \cup Excused
  <2> DEFINE m == ItemAt(pc[w], req[w])
  <2>1. m \in Asked(w) /\ m \in Uids
    BY <1>2, <1>3, <1>8, AskedAt, TaskTypes DEF Looping
  <2>2. req[w].do \in MakingKinds /\ m \in {req[w].uid, req[w].copy}
    BY <1>3, <1>8 DEF KindsAt, MakingKinds, ItemAt
  <2>3. m \in Made(req[w])
    BY <1>2, <2>2, RequestTypes
  <2> QED BY <1>2, <2>1, <2>3 DEF ColumnInv, NotAsked
<1>9. ASSUME NEW r \in Requests, NEW m \in Uids, m \in Made(r), m \in Around(Lists)' \/ ~NotAsked(m)'
      PROVE  m \in stored' \cup Excused'
  <2>1. CASE m \in stored \cup Excused
    BY <1>7, <1>9, <2>1
  <2>2. CASE m \notin stored \cup Excused
    <3>1. m \notin Around(Lists) /\ NotAsked(m)
      BY <1>9, <2>2 DEF ColumnInv
    <3>2. m \notin Around(Lists)'
      BY <3>1, TurnAround
    <3>3. m \in Asked(w)' /\ m \notin Asked(w)
      BY <1>5, <1>9, <3>1, <3>2 DEF NotAsked
    <3>4. ~(req[w].do = "dm" /\ m \in {req[w].peer, req[w].me})
      BY <1>2, <1>9, UidAssumption DEF Of
    <3>5. ~(m = req[w].uid /\ req[w].do \in {"move", "purge"} /\ Found(m, req[w].from))
      BY <1>2, <3>1, FoundAround, RequestTypes
    <3>6. pc'[w] \in {"delivering", "copying", "appending"}
      BY <3>3, <3>4, <3>5, TurnItem
    <3>7. m = ItemAt(pc'[w], req[w])
      BY <3>3, TurnAsked
    <3> QED BY <3>6, <3>7 DEF Turn, Books
  <2> QED BY <2>1, <2>2
<1>10. ASSUME NEW l \in Indexed PROVE notify'[l] \in stored' \cup Excused' \cup {Nil}
  <2>1. notify'[l] \in Uids \cup {Nil}
    BY DEF TypeOK
  <2>2. CASE notify'[l] = notify[l] /\ notify[l] # Nil
    <3>1. notify[l] \in stored \cup Excused /\ ~Unheard(notify[l])
      BY <2>2 DEF ColumnInv, Unheard
    <3> QED BY <1>7, <2>1, <2>2, <3>1
  <2>3. CASE pc[w] = "delivering" /\ loop[w].st = "yes" /\ notify'[l] = req[w].uid
    <3>1. req[w].uid \in Uids /\ req[w].uid \in stored \cup Excused
      BY <1>8, <2>3 DEF ItemAt
    <3> QED BY <1>7, <2>3, <3>1
  <2>4. CASE notify'[l] = Nil
    BY <2>4
  <2> QED BY <2>2, <2>3, <2>4 DEF Turn, Books
<1>11. stream' \in stored' \cup Excused' \cup {Nil, "ended"}
  <2>1. CASE stream \in {Nil, "ended"}
    BY <1>1, <2>1
  <2>2. CASE stream \notin {Nil, "ended"}
    <3>1. stream \in Uids /\ stream \in stored \cup Excused /\ ~Unheard(stream)
      BY <2>2 DEF TypeOK, ColumnInv, Unheard
    <3> QED BY <1>1, <1>7, <3>1
  <2> QED BY <2>1, <2>2
<1>12. ASSUME NEW x \in Workers,
              \/ pc'[x] \in {"copy", "copying"} /\ req[x].do = "send"
              \/ pc'[x] \in {"peering", "peered"}
       PROVE  req[x].uid \in stored' \cup Excused'
  <2>1. CASE x = w
    <3>1. \/ /\ pc[w] = "copy" /\ req[w].do = "send" /\ pc'[w] = "copying"
          \/ pc[w] = "peering" /\ pc'[w] = "peered"
          \/ pc[w] \in {"delivering", "appending"} /\ loop[w].st = "yes"
      BY <1>12, <2>1 DEF Turn, Hop
    <3>2. req[w].uid \in stored \cup Excused
      <4>1. CASE pc[w] \in {"delivering", "appending"}
        BY <1>8, <4>1 DEF ItemAt
      <4>2. CASE pc[w] \in {"copy", "peering"}
        BY <3>1, <4>2 DEF ColumnInv
      <4> QED BY <3>1, <4>1, <4>2
    <3>3. req[w].uid \in Uids
      BY <1>2, RequestTypes
    <3>4. pc'[w] # "done"
      BY <1>12, <2>1
    <3>5. req[w].uid \in stored' \/ req[w].uid \in Excused
      BY <3>2, <3>4 DEF Turn, Books, Drops
    <3> QED BY <1>4, <2>1, <3>5
  <2>2. CASE x # w
    <3>1. pc'[x] = pc[x] /\ pc[x] \notin {"idle", "done"}
      BY <1>1, <1>12, <2>2
    <3>2. req[x] \in Requests /\ req[x].do \in KindsAt(pc[x])
      BY <3>1, BusyTypes
    <3>3. req[x].uid \in stored \cup Excused
      BY <1>12, <3>1 DEF ColumnInv
    <3>4. req[x].do \in MakingKinds
      BY <1>12, <3>1, <3>2 DEF KindsAt, MakingKinds, ChatKinds
    <3>5. req[x].uid \in Made(req[x]) /\ req[x].uid \in Uids
      BY <3>2, <3>4, RequestTypes
    <3>6. req[x] # req[w]
      BY <1>3, <2>2, TwoRequests
    <3>7. req[x].uid \notin Made(req[w])
      BY <1>2, <3>2, <3>5, <3>6, MadeOnce
    <3> QED BY <1>4, <3>3, <3>5, <3>7, DropsQuiet
  <2> QED BY <2>1, <2>2
<1>13. ASSUME NEW m \in acked', m \notin People PROVE m \in stored' \cup Excused'
  <2>1. CASE m \in acked
    <3>1. m \in stored \cup Excused /\ ~Unheard(m)
      BY <1>13, <2>1 DEF ColumnInv, Unheard
    <3> QED BY <1>6, <1>7, <1>13, <3>1
  <2>2. CASE m \notin acked
    <3>1. Earns(w, m)
      BY <1>13, <2>2 DEF Turn, Books
    <3>2. pc[w] # "saving"
      <4>1. ASSUME pc[w] = "saving" PROVE FALSE
        <5>1. m = req[w].uid /\ req[w].do = "contact"
          BY <3>1, <4>1 DEF Earns
        <5> QED BY <1>2, <1>13, <5>1 DEF People, Of, ContactKinds
      <4> QED BY <4>1
    <3>3. CASE /\ pc[w] \in {"delivering", "copying", "appending"} /\ loop[w].st = "yes"
               /\ m = ItemAt(pc[w], req[w])
      BY <1>7, <1>8, <3>3
    <3>4. CASE \/ pc[w] \in {"copy", "copying"} /\ req[w].do = "send" /\ m = req[w].uid
               \/ pc[w] = "peered" /\ m = req[w].uid
      <4>1. m \in stored \cup Excused
        BY <3>4 DEF ColumnInv
      <4>2. m \notin Asked(w) \/ pc[w] = "peered"
        BY <1>2, <3>4, AskedAt, RequestTypes DEF ItemAt, Looping
      <4>3. pc[w] = "peered" => loop[w].st # "no"
        BY <3>1 DEF Earns
      <4> QED BY <1>6, <1>7, <1>13, <4>1, <4>2, <4>3
    <3> QED BY <3>1, <3>2, <3>3, <3>4 DEF Earns, ItemAt
  <2> QED BY <2>1, <2>2
<1> QED BY <1>1, <1>9, <1>10, <1>11, <1>12, <1>13 DEF ColumnInv

\* The loops ask for the same as before.
LEMMA LoopAsked ==
    ASSUME NEW w \in Workers, Turning(w)
    PROVE  \A x \in Workers : Asked(x)' = Asked(x)
<1>1. loop[w].st # "off"
  BY DEF Turning, LoopEffect
<1> QED BY <1>1 DEF Asked, Turning, GoesOn

\* A step of a loop keeps ColumnInv.
LEMMA ColumnLoop ==
    ASSUME TypeOK, StageInv, ColumnInv, NEW w \in Workers, Turning(w), LoopStep(w)
    PROVE  ColumnInv'
<1>1. Excused \subseteq Excused' /\ stored' = stored
  BY DEF Turning, GoesOn, Excused
<1>2. ASSUME NEW r \in Requests, NEW m \in Uids, m \in Made(r), m \in Around(Lists)' \/ ~NotAsked(m)'
      PROVE  m \in stored' \cup Excused'
  <2>1. NotAsked(m)' <=> NotAsked(m)
    BY LoopAsked DEF NotAsked
  <2>2. m \in Around(Lists)' => m \in Around(Lists) \/ ~NotAsked(m)
    <3>1. LoopTypeOK(Uids) /\ loop[w].st # "off"
      BY DEF TypeOK, Turning, LoopEffect
    <3> QED BY <3>1, LoopAround DEF NotAsked, Asked
  <2> QED BY <1>1, <1>2, <2>1, <2>2 DEF ColumnInv
<1> QED BY <1>1, <1>2 DEF ColumnInv, Turning

\* So do a request and a look of the page.
LEMMA ColumnOther ==
    ASSUME TypeOK, StageInv, ColumnInv,
           Looking \/ \E w \in Workers, r \in Requests : Request(w, r)
    PROVE  ColumnInv'
<1>1. /\ list' = list /\ index' = index /\ loop' = loop /\ stored' = stored
      /\ notify' = notify /\ acked' = acked
  BY DEF Looking, Request, lvars, hvars
<1>2. Excused \subseteq Excused'
  BY DEF Looking, Request, lvars, Excused
<1>3. ASSUME NEW m PROVE (m \in Around(Lists)' <=> m \in Around(Lists)) /\ (NotAsked(m)' <=> NotAsked(m))
  BY <1>1 DEF NotAsked, Asked, Around, OnLists, OnCopies, InHands, Stored
<1>4. CASE Looking
  <2>1. stream' \in stored' \cup Excused' \cup {Nil, "ended"}
    BY <1>1, <1>2, <1>4, RequestAssumption DEF Looking, ColumnInv
  <2> QED BY <1>1, <1>2, <1>3, <1>4, <2>1 DEF ColumnInv, Looking, hvars
<1>5. ASSUME NEW w \in Workers, NEW r \in Requests, Request(w, r) PROVE ColumnInv'
  <2>1. pc'[w] = "begin" /\ \A x \in Workers \ {w} : pc'[x] = pc[x] /\ req'[x] = req[x]
    BY <1>5, StageRequest
  <2>2. stream' = stream
    BY <1>5 DEF Request, pvars
  <2>3. \A x \in Workers :
          \/ pc'[x] \in {"copy", "copying"} /\ req'[x].do = "send"
          \/ pc'[x] \in {"peering", "peered"}
          => req'[x].uid \in stored' \cup Excused'
    BY <1>1, <1>2, <2>1 DEF ColumnInv
  <2> QED BY <1>1, <1>2, <1>3, <2>2, <2>3 DEF ColumnInv
<1> QED BY <1>4, <1>5

\* A send is about to list its mail, or has.
Mailed(r) ==
    \/ r.uid \in Around(Lists) \/ ~NotAsked(r.uid)
    \/ \E w \in Workers : req[w] = r /\ pc[w] \in {"deliver", "delivering"}

\* The attachment of a send is there before the mail.
BlobInv ==
    /\ \A a \in Uids : blob[a] = "cut" => faults > 0
    /\ \A r \in Of({"send"}) : Mailed(r) => blob[r.dup] # "none"

\* A turn keeps BlobInv.
LEMMA BlobTurn ==
    ASSUME TypeOK, StageInv, BlobInv, NEW w \in Workers, TypeOK', Turn(w)
    PROVE  BlobInv'
<1>1. faults \in Nat /\ faults' \in Nat /\ faults <= faults'
  BY DEF TypeOK, LoopTypeOK, Turn, Frame
<1>2. \A a \in Uids : blob'[a] = "cut" => faults' > 0
  <2>1. ASSUME NEW a \in Uids, blob'[a] = "cut" PROVE faults' > 0
    <3>1. faults' > 0 \/ \E b \in Uids : blob[b] = "cut"
      BY <2>1 DEF Turn, Books
    <3>2. (\E b \in Uids : blob[b] = "cut") => faults > 0
      BY DEF BlobInv
    <3> QED BY <1>1, <3>1, <3>2
  <2> QED BY <2>1
<1>3. ASSUME NEW r \in Of({"send"}), Mailed(r)' PROVE blob'[r.dup] # "none"
  <2>1. r \in Requests /\ r.do = "send" /\ r.dup \in Uids /\ r.uid \in Made(r) /\ r.uid # r.copy
    BY RequestTypes DEF Of, MakingKinds
  <2>2. blob[r.dup] # "none" => blob'[r.dup] # "none"
    BY <2>1 DEF Turn, Books
  <2>3. req[w] \in Requests /\ req' = req /\ \A x \in Workers \ {w} : pc'[x] = pc[x]
    BY HopLabel DEF Turn, Frame
  <2>4. CASE req[w] = r /\ pc'[w] \in {"deliver", "delivering"}
    <3>1. pc[w] = "deliver" \/ blob'[r.dup] # "none"
      BY <2>1, <2>4 DEF Turn, Hop
    <3> QED BY <2>2, <2>4, <3>1 DEF BlobInv, Mailed
  <2>5. CASE ~(req[w] = r /\ pc'[w] \in {"deliver", "delivering"})
    <3>1. Mailed(r)
      <4>1. CASE r.uid \in Around(Lists)'
        BY <4>1, TurnAround DEF Mailed
      <4>2. CASE \E x \in Workers : req'[x] = r /\ pc'[x] \in {"deliver", "delivering"}
        BY <2>3, <2>5, <4>2 DEF Mailed
      <4>3. CASE ~NotAsked(r.uid)'
        <5>1. PICK x \in Workers : r.uid \in Asked(x)'
          BY <4>3 DEF NotAsked
        <5>2. CASE x # w
          BY <5>1, <5>2, TurnAsked DEF Mailed, NotAsked
        <5>3. CASE x = w
          <6>1. ~(req[w].do = "dm" /\ r.uid \in {req[w].peer, req[w].me})
            BY <2>1, <2>3, UidAssumption DEF Of
          <6>2. r.uid \in Made(req[w]) => req[w] = r
            BY <2>1, <2>3, MadeOnce
          <6>3. req[w].do \in KindsAt(pc'[w])
            BY HopLabel
          <6>4. pc'[w] \in {"delivering", "copying", "appending"} =>
                   Made(req[w]) = {req[w].uid, req[w].copy}
            BY <2>3, <6>3, RequestTypes DEF KindsAt, MakingKinds
          <6>5. \/ r.uid \in Asked(w)
                \/ Found(r.uid, req[w].from) /\ req[w].do \in {"move", "purge"}
            <7>1. pc'[w] = "appending" => req[w] # r
              BY <2>1, <6>3 DEF KindsAt, ChatKinds
            <7>2. ASSUME pc'[w] \in {"delivering", "copying", "appending"},
                         r.uid \in {req[w].uid, req[w].copy}
                  PROVE  pc'[w] = "copying" /\ req[w] = r
              BY <2>5, <6>2, <6>4, <7>1, <7>2
            <7> QED BY <2>1, <5>1, <5>3, <6>1, <7>2, TurnItem
          <6>6. CASE r.uid \in Asked(w)
            BY <6>6 DEF Mailed, NotAsked
          <6>7. CASE Found(r.uid, req[w].from) /\ req[w].do \in {"move", "purge"}
            BY <2>3, <6>7, FoundAround, RequestTypes DEF Mailed
          <6> QED BY <6>5, <6>6, <6>7
        <5> QED BY <5>2, <5>3
      <4> QED BY <1>3, <4>1, <4>2, <4>3 DEF Mailed
    <3> QED BY <2>2, <3>1 DEF BlobInv
  <2> QED BY <2>4, <2>5
<1> QED BY <1>2, <1>3 DEF BlobInv

\* The other steps keep it.
LEMMA BlobOther ==
    ASSUME TypeOK, StageInv, BlobInv,
           \/ Looking \/ \E w \in Workers, r \in Requests : Request(w, r)
           \/ \E w \in Workers : Turning(w) /\ LoopStep(w)
    PROVE  BlobInv'
<1>1. CASE Looking \/ \E w \in Workers, r \in Requests : Request(w, r)
  <2>1. list' = list /\ index' = index /\ loop' = loop /\ blob' = blob /\ faults' = faults
    BY <1>1 DEF Looking, Request, lvars, hvars
  <2>2. ASSUME NEW m PROVE (m \in Around(Lists)' <=> m \in Around(Lists)) /\ (NotAsked(m)' <=> NotAsked(m))
    BY <2>1 DEF NotAsked, Asked, Around, OnLists, OnCopies, InHands, Stored
  <2>3. \A x \in Workers : pc'[x] \in {"deliver", "delivering"} => pc[x] = pc'[x] /\ req[x] = req'[x]
    <3>1. CASE Looking
      BY <3>1 DEF Looking, hvars
    <3>2. CASE \E w \in Workers, r \in Requests : Request(w, r)
      <4>1. PICK w \in Workers, r \in Requests : Request(w, r)
        BY <3>2
      <4>2. pc'[w] = "begin" /\ \A x \in Workers \ {w} : pc'[x] = pc[x] /\ req'[x] = req[x]
        BY <4>1, StageRequest
      <4> QED BY <4>2
    <3> QED BY <1>1, <3>1, <3>2
  <2>4. \A r \in Of({"send"}) : Mailed(r)' => Mailed(r)
    BY <2>2, <2>3 DEF Mailed
  <2> QED BY <2>1, <2>4 DEF BlobInv
<1>2. ASSUME NEW w \in Workers, Turning(w), LoopStep(w) PROVE BlobInv'
  <2>1. blob' = blob /\ faults <= faults' /\ pc' = pc /\ req' = req
    BY <1>2 DEF Turning, LoopEffect
  <2>2. faults \in Nat /\ faults' \in Nat
    BY <1>2 DEF TypeOK, LoopTypeOK, Turning
  <2>3. \A m : NotAsked(m)' <=> NotAsked(m)
    BY <1>2, LoopAsked DEF NotAsked
  <2>4. \A m : m \in Around(Lists)' => m \in Around(Lists) \/ ~NotAsked(m)
    <3>1. LoopTypeOK(Uids) /\ loop[w].st # "off"
      BY <1>2 DEF TypeOK, Turning, LoopEffect
    <3> QED BY <1>2, <3>1, LoopAround DEF NotAsked, Asked
  <2>5. \A r \in Of({"send"}) : Mailed(r)' => Mailed(r)
    BY <2>1, <2>3, <2>4 DEF Mailed
  <2>6. \A a \in Uids : blob'[a] = "cut" => faults' > 0
    <3>1. \A a \in Uids : blob'[a] = "cut" => faults > 0
      BY <2>1 DEF BlobInv
    <3> QED BY <2>1, <2>2, <3>1
  <2> QED BY <2>1, <2>5, <2>6 DEF BlobInv
<1> QED BY <1>1, <1>2

-----------------------------------------------------------------------------
(* Openable. *)

OpenInv == TypeOK /\ StageInv /\ ExcuseInv /\ NewInv /\ ColumnInv /\ BlobInv

\* The variables that the invariants read are left alone.
LEMMA OpenStutter ==
    ASSUME OpenInv, UNCHANGED mvars
    PROVE  OpenInv'
<1>1. /\ list' = list /\ index' = index /\ loop' = loop /\ faults' = faults /\ misled' = misled
      /\ pc' = pc /\ req' = req /\ stored' = stored /\ blob' = blob /\ lock' = lock
      /\ notify' = notify /\ reply' = reply /\ stream' = stream /\ contacts' = contacts
      /\ seen' = seen /\ acked' = acked /\ purged' = purged /\ crossed' = crossed
  BY DEF mvars, lvars, hvars, pvars
<1>2. TypeOK'
  BY <1>1 DEF OpenInv, TypeOK, LoopTypeOK
<1>3. StageInv' /\ ExcuseInv'
  BY <1>1 DEF OpenInv, StageInv, ExcuseInv, Busy
<1>4. /\ Around(Lists)' = Around(Lists) /\ Excused' = Excused
      /\ \A w \in Workers : Asked(w)' = Asked(w)
  BY <1>1 DEF Around, OnLists, OnCopies, InHands, Stored, Asked, Excused
<1>5. ASSUME NEW m
      PROVE  /\ Unheard(m)' = Unheard(m) /\ NotAsked(m)' = NotAsked(m)
             /\ \A w \in Workers : /\ OnlyAskedBy(w, m)' = OnlyAskedBy(w, m)
                                   /\ Before(w, m)' = Before(w, m)
  BY <1>1, <1>4 DEF Unheard, NotAsked, OnlyAskedBy, Before
<1>6. NewInv'
  BY <1>1, <1>4, <1>5 DEF OpenInv, NewInv
<1>7. ColumnInv'
  BY <1>1, <1>4, <1>5 DEF OpenInv, ColumnInv
<1>8. \A r \in Requests : Mailed(r)' = Mailed(r)
  BY <1>1, <1>4, <1>5 DEF Mailed
<1>9. BlobInv'
  BY <1>1, <1>8 DEF OpenInv, BlobInv, Of
<1> QED BY <1>2, <1>3, <1>6, <1>7, <1>9 DEF OpenInv

\* Initially nothing is asked for and nothing new is known.
LEMMA OpenInit ==
    ASSUME Init
    PROVE  OpenInv
<1>1. /\ list = Folders /\ index = Copies /\ loop = [w \in Workers |-> NoLoop]
      /\ faults = 0 /\ misled = {} /\ pc = [w \in Workers |-> "idle"]
      /\ req = [w \in Workers |-> Nil] /\ reply = [w \in Workers |-> "none"]
  BY DEF Init, LoopInit
<1>2. NoLoop \in LoopStates(Uids) /\ NoLoop.st = "off" /\ NoLoop.old = <<>>
  <2>1. 0 \in 0..Attempts - 1 /\ <<>> \in Seq(Uids)
    BY LoopAssumption
  <2> QED BY <2>1 DEF NoLoop, LoopStates, Kinds
<1>3. \A l \in Lists : Initial(l) \subseteq Uids /\ Items(Stored(l)) = Initial(l)
  <2> SUFFICES ASSUME NEW l \in Lists PROVE Initial(l) \subseteq Uids /\ Items(Stored(l)) = Initial(l)
    OBVIOUS
  <2>1. Items(<<>>) = {}
    BY DEF Items
  <2>2. Folders[l] \in Seq(Uids) \cup {Nil}
    BY FolderAssumption
  <2> QED BY <1>1, <2>1, <2>2 DEF Initial, Stored, Items
<1>4. TypeOK
  <2>1. LoopTypeOK(Uids)
    BY <1>1, <1>2, FolderAssumption, LoopAssumption DEF LoopTypeOK
  <2> QED BY <1>1, <1>3, <2>1, RequestAssumption DEF TypeOK, Init, Labels
<1>5. StageInv
  BY <1>1 DEF StageInv, Looping
<1>6. ExcuseInv
  BY <1>1, <1>2 DEF ExcuseInv, Busy
<1>7. \A w \in Workers : Asked(w) = {} /\ Items(loop[w].old) = {}
  BY <1>1, <1>2 DEF Asked, Items
<1>8. Around(Lists) \subseteq UNION {Initial(l) : l \in Lists}
  <2>1. OnLists(Lists) \subseteq UNION {Initial(l) : l \in Lists}
    BY <1>3 DEF OnLists
  <2>2. OnCopies(Lists) \subseteq UNION {Initial(l) : l \in Lists}
    BY <1>1, FolderAssumption DEF OnCopies
  <2>3. InHands(Lists) = {}
    BY <1>7 DEF InHands
  <2> QED BY <2>1, <2>2, <2>3 DEF Around
<1>9. ASSUME NEW r \in Requests, NEW m \in Made(r)
      PROVE  m \notin Around(Lists) /\ m \notin acked
  <2>1. \A l \in Lists : m \notin Initial(l)
    BY UidAssumption
  <2>2. m \notin Book
    BY UidAssumption DEF People
  <2> QED BY <1>8, <2>1, <2>2 DEF Init
<1>10. NewInv
  BY <1>1, <1>7, <1>9, RequestAssumption DEF NewInv, Unheard, NotAsked, Init
<1>11. ColumnInv
  <2>1. acked \subseteq stored \cup People
    BY DEF Init, People
  <2> QED BY <1>1, <1>7, <1>9, <2>1 DEF ColumnInv, NotAsked, Init
<1>12. BlobInv
  <2>1. \A a \in Uids : blob[a] # "cut"
    BY DEF Init
  <2>2. \A r \in Of({"send"}) : ~Mailed(r)
    <3>1. ASSUME NEW r \in Of({"send"}) PROVE ~Mailed(r)
      <4>1. r \in Requests /\ r.uid \in Made(r)
        BY RequestTypes DEF Of, MakingKinds
      <4> QED BY <1>1, <1>7, <1>9, <4>1 DEF Mailed, NotAsked
    <3> QED BY <3>1
  <2> QED BY <2>1, <2>2 DEF BlobInv
<1> QED BY <1>4, <1>5, <1>6, <1>10, <1>11, <1>12 DEF OpenInv

\* Every step keeps OpenInv.
LEMMA OpenNext ==
    ASSUME OpenInv, Next
    PROVE  OpenInv'
<1>1. TypeOK /\ StageInv /\ ExcuseInv /\ NewInv /\ ColumnInv /\ BlobInv
  BY DEF OpenInv
<1>2. CASE \E w \in Workers : TypeOK' /\ Turn(w)
  BY <1>1, <1>2, StageTurn, ExcuseTurn, NewTurn, ColumnTurn, BlobTurn DEF OpenInv
<1>3. CASE \E w \in Workers : Loop(w)
  BY <1>1, <1>3, LoopTurning, StageLoop, ExcuseLoop, NewLoop, ColumnLoop, BlobOther DEF OpenInv
<1>4. CASE \E w \in Workers, r \in Requests : Request(w, r)
  BY <1>1, <1>4, StageRequest, ExcuseRequest, NewRequest, ColumnOther, BlobOther DEF OpenInv
<1>5. CASE Looking
  <2>1. ExcuseInv'
    BY <1>1, <1>5 DEF Looking, lvars, hvars, ExcuseInv, Busy
  <2> QED BY <1>1, <1>5, <2>1, StageLooking, NewLooking, ColumnOther, BlobOther DEF OpenInv
<1> QED BY <1>1, <1>2, <1>3, <1>4, <1>5, NextCases

\* OpenInv holds at every moment.
THEOREM MailInvariant == Spec => []OpenInv
  BY OpenInit, OpenNext, OpenStutter, PTL DEF Spec

\* A listed mail is shown if its columns are there.
LEMMA ListedShows ==
    ASSUME NEW m, m \in stored, NEW l \in Lists, m \in Items(Stored(l))
    PROVE  m \in Shown(l)
<1>1. Stored(l) # <<>>
  BY DEF Items
<1> QED BY <1>1 DEF Shown, View

\* OpenInv is what Openable asks for.
LEMMA OpenInvOpenable ==
    ASSUME OpenInv
    PROVE  Openable
<1>1. TypeOK /\ StageInv /\ ColumnInv /\ NewInv /\ BlobInv
  BY DEF OpenInv
<1>2. \A m : Where(m) # {} => m \in Around(Lists)
  BY DEF Where, Around, OnLists
<1>3. ASSUME NEW r \in Of({"send", "smtp", "external", "chat", "dm"}), NEW m \in {r.uid, r.copy},
             Where(m) # {}
      PROVE  m \in stored \cup Excused
  <2>1. r \in Requests /\ r.do \in MakingKinds
    BY DEF Of, MakingKinds, ChatKinds
  <2>2. m \in Made(r) /\ m \in Uids
    BY <2>1, RequestTypes
  <2> QED BY <1>1, <1>2, <1>3, <2>1, <2>2 DEF ColumnInv
<1>4. ASSUME NEW r \in Of({"send"}), Where(r.uid) # {}, r.uid \notin Excused
      PROVE  Download(r.uid, r.dup) = "whole" \/ (Download(r.uid, r.dup) = "cut" /\ faults > 0)
  <2>1. r \in Requests /\ r.do = "send" /\ r.dup \in Uids
    BY RequestTypes DEF Of
  <2>2. r.uid \in stored
    BY <1>3, <1>4 DEF Of
  <2>3. PICK l \in Lists : r.uid \in Items(Stored(l))
    BY <1>4 DEF Where
  <2>4. Download(r.uid, r.dup) = blob[r.dup]
    BY <2>2, <2>3, ListedShows DEF Download, BytesOf
  <2>5. blob[r.dup] # "none"
    BY <1>1, <1>2, <1>4 DEF BlobInv, Mailed
  <2>6. blob[r.dup] \in {"none", "whole", "cut"}
    BY <1>1, <2>1 DEF TypeOK
  <2> QED BY <1>1, <2>1, <2>4, <2>5, <2>6 DEF BlobInv
<1>5. stream \in stored \cup Excused \cup {Nil, "ended"}
  BY <1>1 DEF ColumnInv
<1>6. ASSUME NEW w \in Workers, reply[w] = "failed", req[w].do \in {"send", "smtp"},
             req[w].uid \notin Excused
      PROVE  Where(req[w].uid) = {}
  <2>1. req[w] \in Requests
    BY <1>1, <1>6 DEF StageInv, TypeOK
  <2>2. req[w].uid \in Uids /\ req[w].uid \notin misled
    BY <1>6, <2>1, RequestTypes DEF Excused
  <2>3. Unheard(req[w].uid)
    BY <1>1, <1>6, <2>2 DEF NewInv
  <2> QED BY <1>2, <2>3 DEF Unheard
<1> QED BY <1>3, <1>4, <1>5, <1>6 DEF Openable

\* What a folder, a room or the open page shows can be opened, with its
\* attachment, and a send that was reported as failed is not listed: for any
\* requests, workers and faults, and for folders that do not exist yet too
\* (store_message, handle_send_email, handle_sse).
THEOREM AlwaysOpenable == Spec => []Openable
  BY MailInvariant, OpenInvOpenable, PTL

-----------------------------------------------------------------------------
(* Nothing is lost. *)

\* Lists that more than one request changes have their columns from the start.
\* Without it two first deliveries to a new user may put the same column, and one
\* mail is gone (see ConcurrentDeliveries).
SharedListsExist ==
    \A l \in Lists, r \in Requests, x \in Requests :
        Folders[l] = Nil /\ l \in Changed(r) \cap Changed(x) => r = x

Uncapped == {l \in Lists : Cap[l] = 0}
Safe(m) == m \in OnLists(Uncapped)

\* A column is put without comparing only while there is none.
PutInv ==
    /\ \A l \in Lists : Folders[l] # Nil => list[l] # Nil
    /\ \A w \in Workers : loop[w].st = "write" /\ ~loop[w].found => list[loop[w].on] = Nil

\* A mail is where its mover left it.
MoveInv ==
    \A w \in Workers, m \in Uids : m = req[w].uid /\ m \notin Excused =>
        /\ pc[w] = "listing" => m \in Items(Stored(req[w].from))
        /\ pc[w] = "listing" /\ HasListed(w) => m \in Items(Stored(req[w].to))
        /\ pc[w] = "unlisting" => m \in Items(Stored(req[w].to))
        /\ pc[w] = "unlisting" /\ ~loop[w].hit /\ loop[w].st \in {"read", "write", "no"} =>
              m \in Items(Stored(req[w].from))
        /\ pc[w] = "rollback" => m \in Items(Stored(req[w].from))

\* The sender's copy of r is listed or on its way.
Sent(r) ==
    \/ r.copy \in Around(Lists) \/ ~NotAsked(r.copy)
    \/ \E w \in Workers : req[w] = r /\ pc[w] \in {"copy", "copying"}

\* The mail m has been listed: it was acknowledged, its loop is done, or the
\* sender's copy is on its way.
Placed(m) ==
    \/ m \in acked \ (Chats \cup People)
    \/ \E w \in Workers : loop[w].kind = "prepend" /\ HasListed(w) /\ loop[w].item = m
    \/ \E r \in Of({"send"}) : r.uid = m /\ Sent(r)
PlacedInv == \A m \in Uids \ Excused : Placed(m) => Safe(m)

\* The loop of a worker and the lists of its request.
LEMMA LoopWork ==
    ASSUME TypeOK, StageInv, NEW w \in Workers, loop[w].st # "off"
    PROVE  /\ pc[w] \in Looping /\ w \in Busy
           /\ req[w] \in Requests /\ req[w] # Nil /\ req[w].do \in KindsAt(pc[w])
           /\ loop[w].kind = KindAt(pc[w]) /\ loop[w].on = ListAt(pc[w], req[w])
           /\ loop[w].item = ItemAt(pc[w], req[w]) /\ Asked(w) = {loop[w].item}
           /\ loop[w].on \in Lists /\ loop[w].on \in Changed(req[w])
           /\ (Cap[loop[w].on] # 0 <=> pc[w] = "appending")
<1>1. pc[w] \in Looping
  <2>1. NoLoop.st = "off"
    BY DEF NoLoop
  <2> QED BY <2>1 DEF StageInv
<1>2. pc[w] \notin {"idle", "done"}
  BY <1>1 DEF Looping
<1>3. w \in Busy /\ req[w] \in Requests /\ req[w].do \in KindsAt(pc[w]) /\ req[w] # Nil
  BY <1>2, BusyTypes, RequestAssumption
<1>4. /\ loop[w].kind = KindAt(pc[w]) /\ loop[w].on = ListAt(pc[w], req[w])
      /\ loop[w].item = ItemAt(pc[w], req[w]) /\ Asked(w) = {loop[w].item}
  BY <1>1 DEF StageInv, Asked
<1> QED BY <1>1, <1>3, <1>4, TaskTypes

\* The folders of a move are not cut.
LEMMA MoveLists ==
    ASSUME NEW r \in Requests, r.do \in {"move", "purge"}
    PROVE  r.from \in Uncapped /\ (r.do = "move" => r.to \in Uncapped /\ r.from # r.to)
<1>1. r.from \in Lists /\ r.from \in Changed(r)
      /\ (r.do = "move" => r.to \in Lists /\ r.to \in Changed(r) /\ r.from # r.to)
  BY RequestTypes
<1>2. r.do \notin ChatKinds
  BY DEF ChatKinds
<1> QED BY <1>1, <1>2, CapAssumption DEF Uncapped

\* A turn keeps PutInv.
LEMMA PutTurn ==
    ASSUME TypeOK, StageInv, PutInv, NEW w \in Workers, TypeOK', Turn(w)
    PROVE  PutInv'
<1>1. list' = list /\ loop'[w] = LoopAt(pc'[w], req[w])
      /\ \A x \in Workers \ {w} : loop'[x] = loop[x]
  BY DEF Turn, Frame
<1>2. loop'[w].st # "write"
  BY <1>1, HopLabel, LoopAtTypes
<1> QED BY <1>1, <1>2 DEF PutInv

\* So does a step of a loop: nobody else changes a list that is still missing.
LEMMA PutLoop ==
    ASSUME SharedListsExist, TypeOK, StageInv, PutInv, NEW w \in Workers, Turning(w)
    PROVE  PutInv'
<1>1. GoesOn(w) /\ LoopEffect(w)
  BY DEF Turning
<1>2. loop[w].st # "off" /\ LoopTypeOK(Uids)
  BY <1>1 DEF LoopEffect, TypeOK
<1>3. \A l \in Lists : list'[l] # list[l] => l = loop[w].on /\ list'[l] # Nil
  <2>1. Update(w) \in Seq(Uids) /\ Nil \notin Seq(Uids)
    BY <1>2, UpdateSeq, RequestAssumption
  <2> QED BY <1>1, <2>1 DEF LoopEffect, Quiet, Writes
<1>4. \A l \in Lists : Folders[l] # Nil => list'[l] # Nil
  BY <1>3 DEF PutInv
<1>5. ASSUME NEW x \in Workers, loop'[x].st = "write", ~loop'[x].found
      PROVE  list'[loop'[x].on] = Nil
  <2>1. CASE x = w
    BY <1>1, <1>5, <2>1 DEF LoopEffect, Quiet, Writes, GoesOn
  <2>2. CASE x # w
    <3>1. loop'[x] = loop[x] /\ list[loop[x].on] = Nil
      BY <1>1, <1>5, <2>2 DEF GoesOn, PutInv
    <3>2. loop[x].on \in Lists /\ loop[x].on \in Changed(req[x]) /\ req[x] \in Requests
      BY <1>5, <3>1, LoopWork
    <3>3. loop[w].on \in Changed(req[w]) /\ req[w] \in Requests /\ req[w] # Nil
      BY <1>2, LoopWork
    <3>4. req[x] # req[w]
      BY <2>2, <3>3, TwoRequests
    <3>5. Folders[loop[x].on] = Nil
      BY <3>1, <3>2 DEF PutInv
    <3>6. loop[x].on # loop[w].on
      BY <3>2, <3>3, <3>4, <3>5 DEF SharedListsExist
    <3> QED BY <1>3, <3>1, <3>2, <3>6
  <2> QED BY <2>1, <2>2
<1> QED BY <1>4, <1>5 DEF PutInv

\* What a loop takes from a list that is not cut: a mail on the move, from a
\* folder where the move does not keep it, or a mail that is excused.
LEMMA Loses ==
    ASSUME TypeOK, StageInv, ExcuseInv, PutInv, NEW w \in Workers, Turning(w), LoopStep(w),
           NEW m \in Uids, m \notin Excused,
           NEW l \in Uncapped, m \in Items(Stored(l)), m \notin Items(Stored(l))'
    PROVE  /\ pc[w] \in {"unlisting", "rollback"} /\ req[w] \in Requests /\ req[w].do = "move"
           /\ m = req[w].uid /\ l = ListAt(pc[w], req[w]) /\ w \in Busy
           /\ loop'[w].hit \/ loop'[w].st \in {"index", "yes"}
<1>1. LoopTypeOK(Uids) /\ Nil \notin Seq(Uids) /\ l \in Lists /\ Cap[l] = 0
  BY RequestAssumption DEF TypeOK, Uncapped
<1>2. loop[w].st = "write" /\ ~loop[w].found => list[loop[w].on] = Nil
  BY DEF PutInv
<1>3. /\ l = loop[w].on /\ m = loop[w].item /\ loop[w].kind \notin Adding
      /\ loop[w].st = "write" /\ (loop'[w].hit \/ loop'[w].st \in {"index", "yes"})
  BY <1>1, <1>2, LoopLoses
<1>4. /\ pc[w] \in Looping /\ w \in Busy /\ req[w] \in Requests /\ req[w] # Nil
      /\ req[w].do \in KindsAt(pc[w])
      /\ loop[w].kind = KindAt(pc[w]) /\ l = ListAt(pc[w], req[w]) /\ m = ItemAt(pc[w], req[w])
  BY <1>3, LoopWork
<1>5. pc[w] \in {"unlisting", "rollback", "purging"}
  BY <1>3, <1>4 DEF KindAt, Adding
<1>6. m = req[w].uid
  BY <1>4, <1>5 DEF ItemAt
<1>7. pc[w] # "purging"
  BY <1>4, <1>6 DEF ExcuseInv, Excused, KindsAt
<1> QED BY <1>3, <1>4, <1>5, <1>6, <1>7 DEF KindsAt

\* A turn keeps MoveInv.
LEMMA MoveTurn ==
    ASSUME TypeOK, StageInv, ExcuseInv, MoveInv, NEW w \in Workers, TypeOK', Turn(w)
    PROVE  MoveInv'
<1>1. /\ list' = list /\ req' = req /\ Excused \subseteq Excused'
      /\ loop'[w] = LoopAt(pc'[w], req[w])
      /\ \A x \in Workers \ {w} : pc'[x] = pc[x] /\ loop'[x] = loop[x]
  BY ExcusedTurn DEF Turn, Frame
<1>2. \A l : Stored(l)' = Stored(l)
  BY <1>1 DEF Stored
<1>3. req[w] \in Requests /\ req[w].do \in KindsAt(pc'[w]) /\ pc'[w] \in Labels
  BY HopLabel
<1>4. loop'[w].st \in {"read", "off"}
  BY <1>1, <1>3, LoopAtTypes
<1>5. ASSUME NEW x \in Workers, NEW m \in Uids, m = req'[x].uid, m \notin Excused'
      PROVE  /\ pc'[x] = "listing" => m \in Items(Stored(req[x].from))
             /\ pc'[x] = "listing" /\ HasListed(x)' => m \in Items(Stored(req[x].to))
             /\ pc'[x] = "unlisting" => m \in Items(Stored(req[x].to))
             /\ pc'[x] = "unlisting" /\ ~loop'[x].hit /\ loop'[x].st \in {"read", "write", "no"} =>
                   m \in Items(Stored(req[x].from))
             /\ pc'[x] = "rollback" => m \in Items(Stored(req[x].from))
  <2>1. m = req[x].uid /\ m \notin Excused
    BY <1>1, <1>5
  <2>2. CASE x # w
    <3>1. pc'[x] = pc[x] /\ loop'[x] = loop[x] /\ (HasListed(x)' <=> HasListed(x))
      BY <1>1, <2>2 DEF HasListed
    <3> QED BY <2>1, <3>1 DEF MoveInv
  <2>3. CASE x = w
    <3>1. ~HasListed(w)'
      BY <1>4 DEF HasListed
    <3>2. pc'[w] = "listing" => m \in Items(Stored(req[w].from))
      BY <1>5, <2>1, <2>3 DEF Turn, Hop, Excused
    <3>3. ASSUME pc'[w] = "unlisting"
          PROVE  m \in Items(Stored(req[w].to)) /\ m \in Items(Stored(req[w].from))
      <4>1. pc[w] = "listing" /\ loop[w].st = "yes"
        BY <3>3 DEF Turn, Hop
      <4>2. HasListed(w)
        BY <4>1 DEF StageInv, Looping, KindAt, HasListed
      <4> QED BY <2>1, <2>3, <4>1, <4>2 DEF MoveInv
    <3>4. ASSUME pc'[w] = "rollback" PROVE m \in Items(Stored(req[w].from))
      <4>1. pc[w] = "unlisting" /\ loop[w].st = "no"
        BY <3>4 DEF Turn, Hop
      <4>2. loop[w].item = m
        BY <2>1, <2>3, <4>1 DEF StageInv, Looping, ItemAt
      <4>3. ~loop[w].hit
        BY <2>1, <4>1, <4>2 DEF ExcuseInv, Excused
      <4> QED BY <2>1, <2>3, <4>1, <4>3 DEF MoveInv
    <3> QED BY <2>3, <3>1, <3>2, <3>3, <3>4
  <2> QED BY <2>2, <2>3
<1> QED BY <1>1, <1>2, <1>5 DEF MoveInv

\* A step of a loop keeps MoveInv.
LEMMA MoveLoop ==
    ASSUME TypeOK, StageInv, ExcuseInv, PutInv, MoveInv,
           NEW w \in Workers, Turning(w), LoopStep(w)
    PROVE  MoveInv'
<1>1. /\ pc' = pc /\ req' = req /\ GoesOn(w) /\ Excused \subseteq Excused'
      /\ loop[w].st \in {"read", "write", "index"}
  BY DEF Turning, GoesOn, Excused, LoopEffect
<1>2. ASSUME NEW x \in Workers, NEW m \in Uids, m = req[x].uid, m \notin Excused',
             pc[x] \in {"listing", "unlisting", "rollback"}, NEW l \in Uncapped,
             m \in Items(Stored(l)), m \notin Items(Stored(l))'
      PROVE  /\ x = w /\ pc[w] \in {"unlisting", "rollback"} /\ l = ListAt(pc[w], req[w])
             /\ loop'[w].hit \/ loop'[w].st \in {"index", "yes"}
  <2>1. /\ pc[w] \in {"unlisting", "rollback"} /\ m = req[w].uid /\ l = ListAt(pc[w], req[w])
        /\ w \in Busy
        /\ loop'[w].hit \/ loop'[w].st \in {"index", "yes"}
    BY <1>1, <1>2, Loses
  <2>2. x \in Busy /\ Overlap(req[x], req[w])
    BY <1>2, <2>1 DEF Busy, Overlap
  <2>3. x # w => m \in crossed
    BY <1>2, <2>1, <2>2 DEF ExcuseInv
  <2>4. m \notin crossed
    BY <1>1, <1>2 DEF Excused
  <2> QED BY <2>1, <2>3, <2>4
<1>3. ASSUME NEW x \in Workers, NEW m \in Uids, m = req[x].uid, m \notin Excused',
             pc[x] \in {"listing", "unlisting", "rollback"}
      PROVE  /\ pc[x] = "listing" => m \in Items(Stored(req[x].from))'
             /\ pc[x] = "listing" /\ HasListed(x)' => m \in Items(Stored(req[x].to))'
             /\ pc[x] = "unlisting" => m \in Items(Stored(req[x].to))'
             /\ pc[x] = "unlisting" /\ ~loop'[x].hit /\ loop'[x].st \in {"read", "write", "no"} =>
                   m \in Items(Stored(req[x].from))'
             /\ pc[x] = "rollback" => m \in Items(Stored(req[x].from))'
  <2>1. m \notin Excused /\ req[x] \in Requests /\ req[x].do = "move"
    BY <1>1, <1>3, BusyTypes DEF KindsAt
  <2>2. PICK f \in Uncapped, t \in Uncapped : f = req[x].from /\ t = req[x].to /\ f # t
    BY <2>1, MoveLists
  <2>3. Stored(req[x].from)' = Stored(f)' /\ Stored(req[x].to)' = Stored(t)'
    BY <1>1, <2>2
  <2>4. pc[x] = "listing" => m \in Items(Stored(f))'
    BY <1>2, <1>3, <2>1, <2>2 DEF MoveInv
  <2>5. ASSUME pc[x] = "listing", HasListed(x)' PROVE m \in Items(Stored(t))'
    <3>1. CASE HasListed(x)
      BY <1>2, <1>3, <2>1, <2>2, <2>5, <3>1 DEF MoveInv
    <3>2. CASE ~HasListed(x)
      <4>1. x = w
        BY <1>1, <2>5, <3>2 DEF HasListed, GoesOn
      <4>2. loop[w].on = t /\ loop[w].item = m
        BY <1>3, <2>2, <2>5, <4>1 DEF StageInv, Looping, ListAt, ItemAt
      <4>3. LoopTypeOK(Uids) /\ Nil \notin Seq(Uids) /\ Cap[t] = 0
        BY RequestAssumption DEF TypeOK, Uncapped
      <4>4. loop[w].item \in Items(Stored(loop[w].on))'
        BY <2>5, <3>2, <4>1, <4>2, <4>3, LoopLists
      <4>5. loop'[w].on = t
        BY <1>1, <4>2 DEF GoesOn
      <4> QED BY <4>2, <4>4, <4>5
    <3> QED BY <3>1, <3>2
  <2>6. pc[x] = "unlisting" => m \in Items(Stored(t))'
    <3>1. ListAt("unlisting", req[x]) = f
      BY <2>2 DEF ListAt
    <3> QED BY <1>2, <1>3, <2>1, <2>2, <3>1 DEF MoveInv
  <2>7. ASSUME pc[x] = "unlisting", ~loop'[x].hit, loop'[x].st \in {"read", "write", "no"}
        PROVE  m \in Items(Stored(f))'
    <3>1. ~loop[x].hit /\ loop[x].st \in {"read", "write", "no"}
      <4>1. CASE x = w
        <5>1. ~loop[w].hit
          BY <1>1, <2>7, <4>1 DEF GoesOn
        <5>2. loop[w].st # "index"
          <6>1. SUFFICES ASSUME loop[w].st = "index" PROVE FALSE
            OBVIOUS
          <6>2. loop'[w].st = "yes"
            BY <6>1, IndexEnds
          <6> QED BY <2>7, <4>1, <6>2
        <5> QED BY <1>1, <4>1, <5>1, <5>2
      <4>2. CASE x # w
        BY <1>1, <2>7, <4>2 DEF GoesOn
      <4> QED BY <4>1, <4>2
    <3>2. m \in Items(Stored(f))
      BY <1>3, <2>1, <2>2, <2>7, <3>1 DEF MoveInv
    <3> QED BY <1>2, <1>3, <2>7, <3>2
  <2>8. pc[x] = "rollback" => m \in Items(Stored(f))'
    <3>1. ListAt("rollback", req[x]) = t
      BY <2>2 DEF ListAt
    <3> QED BY <1>2, <1>3, <2>1, <2>2, <3>1 DEF MoveInv
  <2> QED BY <2>3, <2>4, <2>5, <2>6, <2>7, <2>8
<1> QED BY <1>1, <1>3 DEF MoveInv

\* A turn keeps PlacedInv: what is acknowledged has been listed.
LEMMA PlacedTurn ==
    ASSUME TypeOK, StageInv, ExcuseInv, PlacedInv, NEW w \in Workers, TypeOK', Turn(w)
    PROVE  PlacedInv'
<1>1. /\ list' = list /\ req' = req /\ Excused \subseteq Excused'
      /\ loop'[w] = LoopAt(pc'[w], req[w])
      /\ \A x \in Workers \ {w} : pc'[x] = pc[x] /\ loop'[x] = loop[x]
  BY ExcusedTurn DEF Turn, Frame
<1>2. /\ req[w] \in Requests /\ req[w].do \in KindsAt(pc'[w]) /\ pc'[w] \in Labels
      /\ pc[w] \notin {"idle", "done"}
  BY HopLabel
<1>3. req[w].do \in KindsAt(pc[w])
  BY <1>2, BusyTypes
<1>4. ~HasListed(w)'
  BY <1>1, <1>2, LoopAtTypes DEF HasListed
<1>5. ASSUME pc[w] \in {"delivering", "copying"}, loop[w].st = "yes"
      PROVE  Placed(ItemAt(pc[w], req[w]))
  BY <1>5 DEF StageInv, Looping, KindAt, HasListed, Placed
<1>6. ASSUME NEW r \in Of({"send"}), Sent(r)' PROVE Placed(r.uid)
  <2>1. r \in Requests /\ r.do = "send" /\ r.copy \in Made(r) /\ r.copy # r.uid
    BY RequestTypes DEF Of, MakingKinds
  <2>2. CASE r.copy \in Around(Lists)'
    BY <2>2, TurnAround DEF Placed, Sent
  <2>3. CASE \E x \in Workers : req'[x] = r /\ pc'[x] \in {"copy", "copying"}
    <3>1. PICK x \in Workers : req[x] = r /\ pc'[x] \in {"copy", "copying"}
      BY <1>1, <2>3
    <3>2. CASE pc[x] \in {"copy", "copying"}
      BY <3>1, <3>2 DEF Placed, Sent
    <3>3. CASE pc[x] \notin {"copy", "copying"}
      <4>1. x = w
        BY <1>1, <3>1, <3>3
      <4>2. pc[w] = "delivering" /\ loop[w].st = "yes"
        BY <2>1, <3>1, <3>3, <4>1 DEF Turn, Hop
      <4> QED BY <1>5, <3>1, <4>1, <4>2 DEF ItemAt
    <3> QED BY <3>2, <3>3
  <2>4. CASE ~NotAsked(r.copy)'
    <3>1. PICK x \in Workers : r.copy \in Asked(x)'
      BY <2>4 DEF NotAsked
    <3>2. CASE x # w
      BY <3>1, <3>2, TurnAsked DEF Placed, Sent, NotAsked
    <3>3. CASE x = w
      <4>1. ~(req[w].do = "dm" /\ r.copy \in {req[w].peer, req[w].me})
        BY <1>2, <2>1, UidAssumption DEF Of
      <4>2. r.copy \in Made(req[w]) => req[w] = r
        BY <1>2, <2>1, MadeOnce
      <4>3. pc'[w] \in {"delivering", "copying", "appending"} =>
               Made(req[w]) = {req[w].uid, req[w].copy}
        BY <1>2, RequestTypes DEF KindsAt, MakingKinds
      <4>4. pc'[w] = "appending" => req[w] # r
        BY <1>2, <2>1 DEF KindsAt, ChatKinds
      <4>5. \/ r.copy \in Asked(w)
            \/ req[w] = r /\ pc[w] = "copy"
            \/ Found(r.copy, req[w].from) /\ req[w].do \in {"move", "purge"}
        BY <2>1, <3>1, <3>3, <4>1, <4>2, <4>3, <4>4, TurnItem
      <4>6. Found(r.copy, req[w].from) /\ req[w].do \in {"move", "purge"} =>
               r.copy \in Around(Lists)
        BY <1>2, FoundAround, RequestTypes
      <4> QED BY <4>5, <4>6 DEF Placed, Sent, NotAsked
    <3> QED BY <3>2, <3>3
  <2> QED BY <1>6, <2>2, <2>3, <2>4 DEF Sent
<1>7. ASSUME NEW m, m \in acked' \ (Chats \cup People) PROVE Placed(m)
  <2>1. CASE m \in acked
    BY <1>7, <2>1 DEF Placed
  <2>2. CASE m \notin acked
    <3>1. Earns(w, m)
      BY <1>7, <2>2 DEF Turn, Books
    <3>2. m = req[w].uid => req[w].do \notin ChatKinds \cup ContactKinds
      BY <1>2, <1>7 DEF Chats, People, Of
    <3>3. pc[w] \notin {"saving", "appending", "peered"}
      BY <1>3, <3>1, <3>2 DEF Earns, KindsAt, ChatKinds
    <3>4. CASE pc[w] \in {"copy", "copying"} /\ req[w].do = "send" /\ m = req[w].uid
      BY <1>2, <3>4 DEF Placed, Sent, Of
    <3>5. CASE pc[w] \in {"delivering", "copying"} /\ loop[w].st = "yes" /\ m = ItemAt(pc[w], req[w])
      BY <1>5, <3>5
    <3> QED BY <3>1, <3>3, <3>4, <3>5 DEF Earns, ItemAt
  <2> QED BY <2>1, <2>2
<1>8. ASSUME NEW m \in Uids, m \notin Excused', Placed(m)' PROVE Safe(m)'
  <2>1. Placed(m)
    <3>1. CASE m \in acked' \ (Chats \cup People)
      BY <1>7, <3>1
    <3>2. CASE \E x \in Workers : loop'[x].kind = "prepend" /\ HasListed(x)' /\ loop'[x].item = m
      <4>1. PICK x \in Workers : loop'[x].kind = "prepend" /\ HasListed(x)' /\ loop'[x].item = m
        BY <3>2
      <4>2. loop'[x] = loop[x]
        BY <1>1, <1>4, <4>1
      <4> QED BY <4>1, <4>2 DEF Placed, HasListed
    <3>3. CASE \E r \in Of({"send"}) : r.uid = m /\ Sent(r)'
      BY <1>6, <3>3
    <3> QED BY <1>8, <3>1, <3>2, <3>3 DEF Placed
  <2>2. Safe(m)
    BY <1>1, <1>8, <2>1 DEF PlacedInv
  <2> QED BY <1>1, <2>2 DEF Safe, OnLists, Stored
<1> QED BY <1>8 DEF PlacedInv

\* A step of a loop keeps PlacedInv: a mail that leaves a folder is in another.
LEMMA PlacedLoop ==
    ASSUME TypeOK, StageInv, ExcuseInv, PutInv, MoveInv, PlacedInv,
           NEW w \in Workers, Turning(w), LoopStep(w)
    PROVE  PlacedInv'
<1>1. /\ pc' = pc /\ req' = req /\ acked' = acked /\ GoesOn(w) /\ LoopEffect(w)
      /\ Excused \subseteq Excused' /\ loop[w].st # "off" /\ LoopTypeOK(Uids)
  BY DEF Turning, GoesOn, Excused, LoopEffect, TypeOK
<1>2. ASSUME NEW m \in Uids, m \notin Excused', Safe(m) PROVE Safe(m)'
  <2>1. PICK l \in Uncapped : m \in Items(Stored(l))
    BY <1>2 DEF Safe, OnLists
  <2>2. CASE m \in Items(Stored(l))'
    BY <2>2 DEF Safe, OnLists
  <2>3. CASE m \notin Items(Stored(l))'
    <3>1. /\ pc[w] \in {"unlisting", "rollback"} /\ req[w] \in Requests /\ req[w].do = "move"
          /\ m = req[w].uid /\ l = ListAt(pc[w], req[w])
      BY <1>1, <1>2, <2>1, <2>3, Loses
    <3>2. PICK k \in Uncapped : k # l /\ m \in Items(Stored(k))
      <4>1. req[w].from \in Uncapped /\ req[w].to \in Uncapped /\ req[w].from # req[w].to
        BY <3>1, MoveLists
      <4>2. m \notin Excused
        BY <1>1, <1>2
      <4>3. CASE pc[w] = "unlisting"
        BY <3>1, <4>1, <4>2, <4>3 DEF MoveInv, ListAt
      <4>4. CASE pc[w] = "rollback"
        BY <3>1, <4>1, <4>2, <4>4 DEF MoveInv, ListAt
      <4> QED BY <3>1, <4>3, <4>4
    <3>3. l = loop[w].on
      BY <1>1, <3>1, LoopWork
    <3>4. list'[k] = list[k]
      BY <1>1, <3>2, <3>3 DEF LoopEffect, Uncapped
    <3> QED BY <3>2, <3>4 DEF Safe, OnLists, Stored
  <2> QED BY <2>2, <2>3
<1>3. ASSUME NEW r \in Of({"send"}), Sent(r)' PROVE Sent(r)
  <2>1. NotAsked(r.copy)' <=> NotAsked(r.copy)
    BY LoopAsked DEF NotAsked
  <2>2. r.copy \in Around(Lists)' => r.copy \in Around(Lists) \/ r.copy \in Asked(w)
    BY <1>1, LoopAround DEF Asked
  <2> QED BY <1>1, <1>3, <2>1, <2>2 DEF Sent, NotAsked
<1>4. ASSUME NEW m \in Uids, m \notin Excused', Placed(m)' PROVE Safe(m)'
  <2>1. CASE Placed(m)
    <3>1. Safe(m)
      BY <1>1, <1>4, <2>1 DEF PlacedInv
    <3> QED BY <1>2, <1>4, <3>1
  <2>2. CASE ~Placed(m)
    <3>1. ~(m \in acked \ (Chats \cup People)) /\ ~(\E r \in Of({"send"}) : r.uid = m /\ Sent(r))
      BY <2>2 DEF Placed
    <3>2. \E x \in Workers : loop'[x].kind = "prepend" /\ HasListed(x)' /\ loop'[x].item = m
      BY <1>1, <1>3, <1>4, <3>1 DEF Placed
    <3>3. PICK x \in Workers : loop'[x].kind = "prepend" /\ HasListed(x)' /\ loop'[x].item = m
      BY <3>2
    <3>4. loop[x].kind = "prepend" /\ loop[x].item = m
      BY <1>1, <3>3 DEF GoesOn
    <3>5. ~HasListed(x)
      BY <2>2, <3>4 DEF Placed
    <3>6. x = w
      BY <1>1, <3>3, <3>5 DEF HasListed, GoesOn
    <3>7. Cap[loop[w].on] = 0 /\ loop[w].on \in Lists
      <4>1. /\ loop[w].on \in Lists /\ (Cap[loop[w].on] # 0 <=> pc[w] = "appending")
            /\ loop[w].kind = KindAt(pc[w])
        BY <1>1, LoopWork
      <4> QED BY <3>4, <3>6, <4>1 DEF KindAt
    <3>8. m \in Items(Stored(loop[w].on))'
      BY <1>1, <3>3, <3>4, <3>5, <3>6, <3>7, LoopLists, RequestAssumption
    <3>9. PICK l \in Uncapped : l = loop[w].on
      BY <3>7 DEF Uncapped
    <3>10. m \in Items(Stored(l))'
      BY <1>1, <3>8, <3>9 DEF GoesOn
    <3> QED BY <3>10 DEF Safe, OnLists
  <2> QED BY <2>1, <2>2
<1> QED BY <1>4 DEF PlacedInv

-----------------------------------------------------------------------------
(* Chat. *)

\* A chat message is only in its room or thread.
HomeInv ==
    \A r \in Of(ChatKinds) :
        /\ r.uid \notin Around(Uncapped)
        /\ \A w \in Workers : r.uid \in Asked(w) => loop[w].on \notin Uncapped

\* A turn keeps HomeInv.
LEMMA HomeTurn ==
    ASSUME TypeOK, StageInv, HomeInv, NEW w \in Workers, TypeOK', Turn(w)
    PROVE  HomeInv'
<1>1. /\ loop'[w] = LoopAt(pc'[w], req[w])
      /\ \A x \in Workers \ {w} : loop'[x] = loop[x]
  BY DEF Turn, Frame
<1>2. /\ req[w] \in Requests /\ req[w].do \in KindsAt(pc'[w]) /\ pc'[w] \in Labels
      /\ pc[w] \notin {"idle", "done"}
  BY HopLabel
<1>3. req[w].do \in KindsAt(pc[w])
  BY <1>2, BusyTypes
<1>4. ASSUME NEW r \in Of(ChatKinds), r.uid \in Asked(w)' PROVE loop'[w].on \notin Uncapped
  <2>1. r \in Requests /\ r.do \in ChatKinds /\ r.uid \in Made(r)
    BY RequestTypes DEF Of, MakingKinds
  <2>2. r.uid \notin Around(Uncapped) /\ (r.uid \in Asked(w) => loop[w].on \notin Uncapped)
    BY DEF HomeInv
  <2>3. ~(r.uid \in Asked(w) /\ pc[w] \in {"listing", "unlisting"})
    <3>1. SUFFICES ASSUME r.uid \in Asked(w), pc[w] \in {"listing", "unlisting"} PROVE FALSE
      OBVIOUS
    <3>2. req[w].do = "move" /\ loop[w].on \in {req[w].from, req[w].to}
      BY <1>3, <3>1 DEF KindsAt, StageInv, Looping, ListAt
    <3> QED BY <1>2, <2>2, <3>1, <3>2, MoveLists
  <2>4. ~(req[w].do \in {"move", "purge"} /\ Found(r.uid, req[w].from))
    <3>1. SUFFICES ASSUME req[w].do \in {"move", "purge"}, Found(r.uid, req[w].from) PROVE FALSE
      OBVIOUS
    <3>2. req[w].from \in Uncapped /\ req[w].from \in Lists
      BY <1>2, <3>1, MoveLists DEF Uncapped
    <3> QED BY <2>2, <3>1, <3>2, FoundAround
  <2>5. ~(req[w].do = "dm" /\ r.uid \in {req[w].peer, req[w].me})
    BY <1>2, <2>1, UidAssumption DEF Of
  <2>6. r.uid \in Made(req[w]) => req[w] = r
    BY <1>2, <2>1, MadeOnce
  <2>7. pc'[w] \in {"delivering", "copying"} =>
           r.uid \notin {req[w].uid, req[w].copy}
    <3>1. SUFFICES ASSUME pc'[w] \in {"delivering", "copying"} PROVE r.uid \notin {req[w].uid, req[w].copy}
      OBVIOUS
    <3>2. req[w].do \in {"send", "smtp", "external"} /\ req[w].do \in MakingKinds
      BY <1>2, <3>1 DEF KindsAt, MakingKinds
    <3>3. Made(req[w]) = {req[w].uid, req[w].copy} /\ req[w] # r
      BY <1>2, <2>1, <3>2, RequestTypes DEF ChatKinds
    <3> QED BY <2>6, <3>3
  <2>8. pc'[w] = "appending"
    BY <1>4, <2>3, <2>4, <2>5, <2>7, TurnItem
  <2>9. "appending" \in Looping
    BY DEF Looping
  <2>10. loop'[w].on = ListAt(pc'[w], req[w])
    BY <1>1, <1>2, <2>8, <2>9, LoopAtTypes
  <2>11. Cap[ListAt(pc'[w], req[w])] # 0
    BY <1>2, <2>8, <2>9, TaskTypes
  <2> QED BY <2>10, <2>11 DEF Uncapped
<1>5. \A x \in Workers \ {w} : Asked(x)' = Asked(x)
  BY TurnAsked
<1> QED BY <1>1, <1>4, <1>5, TurnAround DEF HomeInv

\* So does a step of a loop.
LEMMA HomeLoop ==
    ASSUME TypeOK, StageInv, HomeInv, NEW w \in Workers, Turning(w), LoopStep(w)
    PROVE  HomeInv'
<1>1. \A x \in Workers : Asked(x)' = Asked(x) /\ loop'[x].on = loop[x].on
  BY LoopAsked DEF Turning, GoesOn
<1>2. ASSUME NEW r \in Of(ChatKinds) PROVE r.uid \notin Around(Uncapped)'
  <2>1. LoopTypeOK(Uids) /\ Uncapped \in SUBSET Lists /\ loop[w].st # "off"
    BY DEF TypeOK, Uncapped, Turning, LoopEffect
  <2>2. r.uid \notin Around(Uncapped) /\ (r.uid \in Asked(w) => loop[w].on \notin Uncapped)
    BY DEF HomeInv
  <2>3. r.uid = loop[w].item => r.uid \in Asked(w)
    BY <2>1 DEF Asked
  <2> QED BY <2>1, <2>2, <2>3, LoopAround
<1> QED BY <1>1, <1>2 DEF HomeInv

\* Rooms and threads keep to their length, and so does what a loop has read.
LengthInv ==
    /\ \A l \in Lists : Cap[l] # 0 => Len(Stored(l)) <= Cap[l]
    /\ \A w \in Workers : loop[w].st = "write" /\ Cap[loop[w].on] # 0 =>
          Len(loop[w].old) <= Cap[loop[w].on]

\* The handler of w has stored its chat message, appended it to the room or
\* thread, noted the peer for the sender, and the sender for the peer.
Posting(w) == pc[w] \in {"appending", "peering", "peered"}
Appended(w) == (pc[w] = "appending" /\ HasListed(w)) \/ pc[w] \in {"peering", "peered"}
PeerNoted(w) == (pc[w] = "peering" /\ HasListed(w)) \/ pc[w] = "peered"
MeNoted(w) == pc[w] = "peered" /\ HasListed(w)

\* A chat message that was appended stays, or the room is full.
RoomInv ==
    \A r \in Of(ChatKinds) :
        /\ r.uid \in acked \/ (\E w \in Workers : req[w] = r /\ Posting(w)) => r.uid \in stored
        /\ r.uid \in acked \/ (\E w \in Workers : req[w] = r /\ Appended(w)) =>
              r.uid \in Items(Stored(r.to)) \/ Full(r.to)

\* The partners of a thread stay with each other.
PeerInv ==
    \A r \in Of({"dm"}) :
        /\ r.uid \in acked \/ (\E w \in Workers : req[w] = r /\ PeerNoted(w)) =>
              r.peer \in Items(Stored(r.mine))
        /\ r.uid \in acked \/ (\E w \in Workers : req[w] = r /\ MeNoted(w)) =>
              r.me \in Items(Stored(r.theirs))

\* A turn keeps LengthInv.
LEMMA LengthTurn ==
    ASSUME TypeOK, StageInv, LengthInv, NEW w \in Workers, TypeOK', Turn(w)
    PROVE  LengthInv'
<1>1. list' = list /\ loop'[w] = LoopAt(pc'[w], req[w])
      /\ \A x \in Workers \ {w} : loop'[x] = loop[x]
  BY DEF Turn, Frame
<1>2. loop'[w].st # "write"
  BY <1>1, HopLabel, LoopAtTypes
<1>3. \A l \in Lists : Stored(l)' = Stored(l)
  BY <1>1 DEF Stored
<1> QED BY <1>1, <1>2, <1>3 DEF LengthInv

\* What a write leaves of a room: all, or as much as the room holds.
LEMMA RoomLoop ==
    ASSUME TypeOK, StageInv, PutInv, LengthInv, NEW w \in Workers, Turning(w), LoopStep(w),
           NEW l \in Lists, Cap[l] # 0
    PROVE  /\ Len(Stored(l))' <= Cap[l]
           /\ Items(Stored(l)) \subseteq Items(Stored(l))' \/ Full(l)'
           /\ Full(l) => Full(l)'
<1>1. LoopTypeOK(Uids) /\ GoesOn(w) /\ LoopEffect(w) /\ loop[w].st # "off"
  BY DEF Turning, LoopEffect, TypeOK
<1>2. CASE list'[l] = list[l]
  BY <1>2 DEF Stored, Full, LengthInv
<1>3. CASE list'[l] # list[l]
  <2>1. l = loop[w].on /\ Writes(w)
    BY <1>1, <1>3 DEF LoopEffect, Quiet
  <2>2. loop[w].kind = "append" /\ loop[w].item \in Uids /\ loop[w].old \in Seq(Uids)
    <3>1. (Cap[loop[w].on] # 0 <=> pc[w] = "appending") /\ loop[w].kind = KindAt(pc[w])
      BY <1>1, LoopWork
    <3> QED BY <1>1, <2>1, <3>1, LoopFields DEF KindAt
  <2>3. PICK s \in Seq(Uids) : s = loop[w].old /\ Len(s) <= Cap[l]
    BY <2>1, <2>2 DEF Writes, LengthInv
  <2>4. PICK x \in Uids : x = loop[w].item
    BY <2>2
  <2> DEFINE t == NextList(l, "append", s, x)
  <2>5. list'[l] = t
    BY <2>1, <2>2, <2>3, <2>4 DEF Writes, Update
  <2>6. t \in Seq(Uids)
    BY <2>4, NextItems DEF Kinds
  <2>7. /\ Len(t) <= Cap[l] /\ (Items(s) \subseteq Items(t) \/ Len(t) = Cap[l])
        /\ (Len(s) = Cap[l] => Len(t) = Cap[l])
    BY <2>3, <2>4, CutAppend
  <2> HIDE DEF t
  <2>8. Stored(l)' = t
    BY <2>5, <2>6, RequestAssumption DEF Stored
  <2>9. CASE loop[w].found
    <3>1. Stored(l) = s
      <4>1. list[l] = s
        BY <2>1, <2>3, <2>9 DEF Writes
      <4> QED BY <4>1, RequestAssumption DEF Stored
    <3> QED BY <2>7, <2>8, <3>1 DEF Full
  <2>10. CASE ~loop[w].found
    <3>1. list[l] = Nil
      BY <2>1, <2>10 DEF PutInv, Writes
    <3>2. Stored(l) = <<>>
      BY <3>1 DEF Stored
    <3>3. Items(Stored(l)) = {} /\ ~Full(l)
      BY <3>2 DEF Items, Full
    <3> QED BY <2>7, <2>8, <3>3
  <2> QED BY <2>9, <2>10
<1> QED BY <1>2, <1>3

\* A step of a loop keeps LengthInv.
LEMMA LengthLoop ==
    ASSUME TypeOK, StageInv, PutInv, LengthInv, NEW w \in Workers, Turning(w), LoopStep(w)
    PROVE  LengthInv'
<1>1. GoesOn(w) /\ LoopEffect(w) /\ loop[w].st # "off"
  BY DEF Turning, LoopEffect
<1>2. \A l \in Lists : Cap[l] # 0 => Len(Stored(l))' <= Cap[l]
  BY RoomLoop
<1>3. ASSUME NEW x \in Workers, loop'[x].st = "write", Cap[loop'[x].on] # 0
      PROVE  Len(loop'[x].old) <= Cap[loop'[x].on]
  <2>1. CASE x # w
    BY <1>1, <1>3, <2>1 DEF GoesOn, LengthInv
  <2>2. CASE x = w
    <3>1. loop'[w].on = loop[w].on /\ loop[w].on \in Lists
      BY <1>1, LoopWork DEF GoesOn
    <3>2. loop[w].on \notin Indexed
      BY <1>3, <2>2, <3>1, CapAssumption
    <3>3. loop'[w].old = Stored(loop[w].on)
      BY <1>1, <1>3, <2>2, <3>2 DEF LoopEffect
    <3> QED BY <1>3, <2>2, <3>1, <3>3 DEF LengthInv
  <2> QED BY <2>1, <2>2
<1> QED BY <1>2, <1>3 DEF LengthInv

\* A request of chat and its lists.
LEMMA ChatTypes ==
    ASSUME NEW r \in Of(ChatKinds)
    PROVE  /\ r \in Requests /\ r.do \in ChatKinds /\ r.uid \in Made(r) /\ r.uid \in Uids
           /\ r.to \in Lists /\ Cap[r.to] # 0
<1>1. r \in Requests /\ r.do \in ChatKinds /\ r.do \in MakingKinds
  BY DEF Of, MakingKinds
<1>2. r.uid \in Made(r) /\ r.uid \in Uids /\ r.to \in Lists /\ r.to \in Changed(r)
  BY <1>1, RequestTypes
<1> QED BY <1>1, <1>2, CapAssumption

\* The success of a chat message is reported by its handler, at the end.
LEMMA ChatEarned ==
    ASSUME TypeOK, StageInv, NEW w \in Workers, TypeOK', Turn(w),
           NEW r \in Of(ChatKinds), Earns(w, r.uid)
    PROVE  /\ req[w] = r /\ Posting(w) /\ Appended(w)
           /\ r.do = "dm" => PeerNoted(w) /\ MeNoted(w)
<1>1. r \in Requests /\ r.do \in ChatKinds /\ r.uid \in Made(r)
  BY ChatTypes
<1>2. req[w] \in Requests /\ pc[w] \notin {"idle", "done"}
  BY HopLabel
<1>3. req[w].do \in KindsAt(pc[w])
  BY <1>2, BusyTypes
<1>4. r.uid \in Made(req[w]) => req[w] = r
  BY <1>1, <1>2, MadeOnce
<1>5. req[w].do \in MakingKinds => Made(req[w]) = {req[w].uid, req[w].copy}
  BY <1>2, RequestTypes
<1>6. pc[w] # "saving"
  <2>1. SUFFICES ASSUME pc[w] = "saving" PROVE FALSE
    OBVIOUS
  <2>2. req[w].do \in ContactKinds /\ r.uid = req[w].uid
    BY <1>3, <2>1 DEF Earns, KindsAt
  <2>3. r.uid \in People
    BY <1>2, <2>2 DEF People, Of
  <2> QED BY <1>1, <2>3, UidAssumption
<1>7. req[w].do \in MakingKinds /\ r.uid \in {req[w].uid, req[w].copy}
  BY <1>3, <1>6 DEF Earns, KindsAt, MakingKinds, ChatKinds
<1>8. req[w] = r
  BY <1>4, <1>5, <1>7
<1>9. loop[w].st = "yes" /\ ((pc[w] = "appending" /\ r.do = "chat") \/ pc[w] = "peered")
  BY <1>1, <1>3, <1>6, <1>8 DEF Earns, KindsAt, ChatKinds
<1>10. HasListed(w)
  BY <1>9 DEF StageInv, Looping, KindAt, HasListed
<1> QED BY <1>8, <1>9, <1>10 DEF Posting, Appended, PeerNoted, MeNoted

\* A turn deletes the columns of no chat message.
LEMMA ChatStays ==
    ASSUME TypeOK, StageInv, HomeInv, NEW w \in Workers, TypeOK', Turn(w),
           NEW r \in Of(ChatKinds), r.uid \in stored
    PROVE  r.uid \in stored'
<1>1. SUFFICES ASSUME r.uid \notin stored' PROVE FALSE
  OBVIOUS
<1>2. Drops(w, r.uid)
  BY <1>1 DEF Turn, Books
<1>3. pc[w] \in {"purging", "delivering", "copying"} /\ pc[w] \in Looping
  BY <1>2 DEF Drops, Looping
<1>4. loop[w].st # "off" /\ loop[w].item = ItemAt(pc[w], req[w])
  BY <1>3 DEF StageInv
<1>5. r.uid \in Asked(w)
  BY <1>2, <1>4 DEF Drops, ItemAt, Asked
<1>6. loop[w].on \in Uncapped
  BY <1>3, <1>4, LoopWork DEF Uncapped
<1> QED BY <1>5, <1>6 DEF HomeInv

\* A turn keeps RoomInv.
LEMMA RoomTurn ==
    ASSUME TypeOK, StageInv, HomeInv, RoomInv, NEW w \in Workers, TypeOK', Turn(w)
    PROVE  RoomInv'
<1>1. /\ list' = list /\ req' = req /\ loop'[w] = LoopAt(pc'[w], req[w])
      /\ \A x \in Workers \ {w} : pc'[x] = pc[x] /\ loop'[x] = loop[x]
  BY DEF Turn, Frame
<1>2. ~HasListed(w)'
  BY <1>1, HopLabel, LoopAtTypes DEF HasListed
<1>3. ASSUME NEW r \in Of(ChatKinds), r.uid \in acked', r.uid \notin acked
      PROVE  \E x \in Workers : req[x] = r /\ Posting(x) /\ Appended(x)
  BY <1>3, ChatEarned DEF Turn, Books
<1>4. ASSUME NEW r \in Of(ChatKinds), NEW x \in Workers, req[x] = r, Posting(x)'
      PROVE  r.uid \in stored'
  <2>1. CASE Posting(x)
    BY <1>4, <2>1, ChatStays DEF RoomInv
  <2>2. CASE ~Posting(x)
    <3>1. x = w /\ pc'[w] = "appending"
      BY <1>1, <1>4, <2>2 DEF Posting, Turn, Hop
    <3>2. ItemAt("appending", r) \in stored'
      BY <1>4, <3>1 DEF Turn, Books
    <3> QED BY <3>2 DEF ItemAt
  <2> QED BY <2>1, <2>2
<1>5. ASSUME NEW x \in Workers, Appended(x)' PROVE Appended(x)
  <2>1. CASE x # w
    BY <1>1, <1>5, <2>1 DEF Appended, HasListed
  <2>2. CASE x = w
    <3>1. pc'[w] \in {"peering", "peered"}
      BY <1>2, <1>5, <2>2 DEF Appended
    <3>2. pc[w] = "peering" \/ (pc[w] = "appending" /\ loop[w].st = "yes")
      BY <3>1 DEF Turn, Hop
    <3>3. pc[w] = "appending" /\ loop[w].st = "yes" => HasListed(w)
      BY DEF StageInv, Looping, KindAt, HasListed
    <3> QED BY <2>2, <3>2, <3>3 DEF Appended
  <2> QED BY <2>1, <2>2
<1>6. ASSUME NEW r \in Of(ChatKinds),
             r.uid \in acked' \/ \E x \in Workers : req'[x] = r /\ Posting(x)'
      PROVE  r.uid \in stored'
  <2>1. CASE r.uid \in acked'
    <3>1. r.uid \in stored
      BY <1>3, <2>1 DEF RoomInv
    <3> QED BY <3>1, ChatStays
  <2>2. CASE \E x \in Workers : req'[x] = r /\ Posting(x)'
    BY <1>1, <1>4, <2>2
  <2> QED BY <1>6, <2>1, <2>2
<1>7. ASSUME NEW r \in Of(ChatKinds),
             r.uid \in acked' \/ \E x \in Workers : req'[x] = r /\ Appended(x)'
      PROVE  r.uid \in Items(Stored(r.to))' \/ Full(r.to)'
  <2>1. r.uid \in acked \/ \E x \in Workers : req[x] = r /\ Appended(x)
    BY <1>1, <1>3, <1>5, <1>7
  <2>2. r.uid \in Items(Stored(r.to)) \/ Full(r.to)
    BY <2>1 DEF RoomInv
  <2> QED BY <1>1, <2>2 DEF Stored, Full
<1> QED BY <1>6, <1>7 DEF RoomInv

\* A step of a loop keeps RoomInv.
LEMMA RoomInvLoop ==
    ASSUME TypeOK, StageInv, PutInv, LengthInv, RoomInv, NEW w \in Workers, Turning(w), LoopStep(w)
    PROVE  RoomInv'
<1>1. /\ pc' = pc /\ req' = req /\ acked' = acked /\ stored' = stored /\ GoesOn(w)
      /\ LoopTypeOK(Uids) /\ loop[w].st # "off"
  BY DEF Turning, TypeOK, LoopEffect
<1>2. \A x \in Workers : Posting(x)' <=> Posting(x)
  BY <1>1 DEF Posting
<1>3. ASSUME NEW r \in Of(ChatKinds), NEW l \in Lists, l = r.to,
             r.uid \in acked' \/ \E x \in Workers : req'[x] = r /\ Appended(x)'
      PROVE  r.uid \in Items(Stored(l))' \/ Full(l)'
  <2>1. Cap[l] # 0 /\ r.do \in ChatKinds
    BY <1>3, ChatTypes
  <2>2. CASE r.uid \in acked \/ \E x \in Workers : req[x] = r /\ Appended(x)
    <3>1. r.uid \in Items(Stored(l)) \/ Full(l)
      BY <1>3, <2>2 DEF RoomInv
    <3> QED BY <2>1, <3>1, RoomLoop
  <2>3. CASE ~(r.uid \in acked \/ \E x \in Workers : req[x] = r /\ Appended(x))
    <3>1. PICK x \in Workers : req[x] = r /\ Appended(x)'
      BY <1>1, <1>3, <2>3
    <3>2. pc[x] = "appending" /\ HasListed(x)' /\ ~HasListed(x)
      BY <1>1, <2>3, <3>1 DEF Appended
    <3>3. x = w
      BY <1>1, <3>2 DEF HasListed, GoesOn
    <3>4. loop[w].on = l /\ loop[w].item = r.uid
      BY <1>3, <3>1, <3>2, <3>3 DEF StageInv, Looping, ListAt, ItemAt
    <3>5. /\ Len(Stored(loop[w].on)) <= Cap[loop[w].on]
          /\ loop[w].st = "write" => Len(loop[w].old) <= Cap[loop[w].on]
      BY <2>1, <3>4 DEF LengthInv
    <3>6. loop[w].item \in Items(Stored(loop[w].on))'
      BY <1>1, <3>2, <3>3, <3>5, LoopLists, RequestAssumption
    <3>7. loop'[w].on = l
      BY <1>1, <3>4 DEF GoesOn
    <3> QED BY <3>4, <3>6, <3>7
  <2> QED BY <2>2, <2>3
<1>4. ASSUME NEW r \in Of(ChatKinds),
             r.uid \in acked' \/ \E x \in Workers : req'[x] = r /\ Appended(x)'
      PROVE  r.uid \in Items(Stored(r.to))' \/ Full(r.to)'
  <2>1. PICK l \in Lists : l = r.to
    BY ChatTypes
  <2> QED BY <1>3, <1>4, <2>1
<1> QED BY <1>1, <1>2, <1>4 DEF RoomInv

\* A turn keeps PeerInv.
LEMMA PeerTurn ==
    ASSUME TypeOK, StageInv, PeerInv, NEW w \in Workers, TypeOK', Turn(w)
    PROVE  PeerInv'
<1>1. /\ list' = list /\ req' = req /\ loop'[w] = LoopAt(pc'[w], req[w])
      /\ \A x \in Workers \ {w} : pc'[x] = pc[x] /\ loop'[x] = loop[x]
  BY DEF Turn, Frame
<1>2. ~HasListed(w)'
  BY <1>1, HopLabel, LoopAtTypes DEF HasListed
<1>3. ASSUME NEW r \in Of({"dm"}), r.uid \in acked', r.uid \notin acked
      PROVE  \E x \in Workers : req[x] = r /\ PeerNoted(x) /\ MeNoted(x)
  <2>1. r \in Of(ChatKinds) /\ r.do = "dm"
    BY DEF Of, ChatKinds
  <2> QED BY <1>3, <2>1, ChatEarned DEF Turn, Books
<1>4. ASSUME NEW x \in Workers PROVE (MeNoted(x)' => MeNoted(x)) /\ (PeerNoted(x)' => PeerNoted(x))
  <2>1. CASE x # w
    BY <1>1, <2>1 DEF MeNoted, PeerNoted, HasListed
  <2>2. CASE x = w
    <3>1. ~MeNoted(w)' /\ (PeerNoted(w)' => pc'[w] = "peered")
      BY <1>2 DEF MeNoted, PeerNoted
    <3>2. pc'[w] = "peered" => pc[w] = "peering" /\ loop[w].st = "yes"
      BY DEF Turn, Hop
    <3>3. pc[w] = "peering" /\ loop[w].st = "yes" => HasListed(w)
      BY DEF StageInv, Looping, KindAt, HasListed
    <3> QED BY <2>2, <3>1, <3>2, <3>3 DEF PeerNoted
  <2> QED BY <2>1, <2>2
<1>5. \A l : Stored(l)' = Stored(l)
  BY <1>1 DEF Stored
<1> QED BY <1>1, <1>3, <1>4, <1>5 DEF PeerInv

\* A loop takes nothing from a list of partners.
LEMMA PartnersStay ==
    ASSUME TypeOK, StageInv, PutInv, NEW w \in Workers, Turning(w), LoopStep(w),
           NEW r \in Of({"dm"}), NEW l \in {r.mine, r.theirs}, NEW m, m \in Items(Stored(l))
    PROVE  m \in Items(Stored(l))'
<1>1. r \in Requests /\ r.do = "dm" /\ l \in Lists /\ l \in Changed(r) /\ l # r.to
  BY RequestTypes DEF Of
<1>2. Cap[l] = 0
  BY <1>1, CapAssumption
<1>3. SUFFICES ASSUME m \notin Items(Stored(l))' PROVE FALSE
  OBVIOUS
<1>4. LoopTypeOK(Uids) /\ Nil \notin Seq(Uids)
      /\ (loop[w].st = "write" /\ ~loop[w].found => list[loop[w].on] = Nil)
  BY RequestAssumption DEF TypeOK, PutInv
<1>5. l = loop[w].on /\ loop[w].kind \notin Adding /\ loop[w].st = "write"
  BY <1>1, <1>2, <1>3, <1>4, LoopLoses
<1>6. /\ req[w] \in Requests /\ req[w].do \in KindsAt(pc[w]) /\ pc[w] \in Looping
      /\ loop[w].kind = KindAt(pc[w]) /\ loop[w].on \in Changed(req[w])
  BY <1>5, LoopWork
<1>7. req[w].do \in {"move", "purge"}
  BY <1>5, <1>6 DEF KindAt, KindsAt, Adding
<1> QED BY <1>5, <1>6, <1>7, CapAssumption DEF Of

\* A step of a loop keeps PeerInv.
LEMMA PeerLoop ==
    ASSUME TypeOK, StageInv, PutInv, PeerInv, NEW w \in Workers, Turning(w), LoopStep(w)
    PROVE  PeerInv'
<1>1. /\ pc' = pc /\ req' = req /\ acked' = acked /\ GoesOn(w)
      /\ LoopTypeOK(Uids) /\ loop[w].st # "off" /\ Nil \notin Seq(Uids)
  BY RequestAssumption DEF Turning, TypeOK, LoopEffect
<1>2. ASSUME pc[w] \in {"peering", "peered"}, HasListed(w)', ~HasListed(w),
             NEW l, l = ListAt(pc[w], req[w])
      PROVE  ItemAt(pc[w], req[w]) \in Items(Stored(l))'
  <2>1. /\ loop[w].item = ItemAt(pc[w], req[w]) /\ loop[w].on = l
        /\ Cap[loop[w].on] = 0
    BY <1>1, <1>2, LoopWork
  <2>2. loop[w].item \in Items(Stored(loop[w].on))'
    BY <1>1, <1>2, <2>1, LoopLists
  <2>3. loop'[w].on = l
    BY <1>1, <2>1 DEF GoesOn
  <2> QED BY <2>1, <2>2, <2>3
<1>3. \A x \in Workers : HasListed(x)' /\ ~HasListed(x) => x = w
  BY <1>1 DEF HasListed, GoesOn
<1>4. ASSUME NEW r \in Of({"dm"}), NEW l, l = r.mine,
             r.uid \in acked \/ \E x \in Workers : req[x] = r /\ PeerNoted(x)'
      PROVE  r.peer \in Items(Stored(l))'
  <2>1. CASE r.uid \in acked \/ \E x \in Workers : req[x] = r /\ PeerNoted(x)
    <3>1. r.peer \in Items(Stored(l))
      BY <1>4, <2>1 DEF PeerInv
    <3> QED BY <1>4, <3>1, PartnersStay
  <2>2. CASE ~(r.uid \in acked \/ \E x \in Workers : req[x] = r /\ PeerNoted(x))
    <3>1. PICK x \in Workers : req[x] = r /\ PeerNoted(x)'
      BY <1>4, <2>2
    <3>2. pc[x] = "peering" /\ HasListed(x)' /\ ~HasListed(x)
      BY <1>1, <2>2, <3>1 DEF PeerNoted
    <3>3. x = w
      BY <1>3, <3>2
    <3>4. ListAt(pc[w], req[w]) = l /\ ItemAt(pc[w], req[w]) = r.peer
      BY <1>4, <3>1, <3>2, <3>3 DEF ListAt, ItemAt
    <3> QED BY <1>2, <3>2, <3>3, <3>4
  <2> QED BY <2>1, <2>2
<1>5. ASSUME NEW r \in Of({"dm"}), NEW l, l = r.theirs,
             r.uid \in acked \/ \E x \in Workers : req[x] = r /\ MeNoted(x)'
      PROVE  r.me \in Items(Stored(l))'
  <2>1. CASE r.uid \in acked \/ \E x \in Workers : req[x] = r /\ MeNoted(x)
    <3>1. r.me \in Items(Stored(l))
      BY <1>5, <2>1 DEF PeerInv
    <3> QED BY <1>5, <3>1, PartnersStay
  <2>2. CASE ~(r.uid \in acked \/ \E x \in Workers : req[x] = r /\ MeNoted(x))
    <3>1. PICK x \in Workers : req[x] = r /\ MeNoted(x)'
      BY <1>5, <2>2
    <3>2. pc[x] = "peered" /\ HasListed(x)' /\ ~HasListed(x)
      BY <1>1, <2>2, <3>1 DEF MeNoted
    <3>3. x = w
      BY <1>3, <3>2
    <3>4. ListAt(pc[w], req[w]) = l /\ ItemAt(pc[w], req[w]) = r.me
      BY <1>5, <3>1, <3>2, <3>3 DEF ListAt, ItemAt
    <3> QED BY <1>2, <3>2, <3>3, <3>4
  <2> QED BY <2>1, <2>2
<1> QED BY <1>1, <1>4, <1>5 DEF PeerInv

-----------------------------------------------------------------------------
(* Contacts. *)

\* The contacts that were acknowledged are in the book, and in every copy of it
\* that is about to be saved.
Acquainted == (acked \cap People) \ Excused
ContactInv ==
    /\ Acquainted \subseteq contacts
    /\ \A w \in Workers : pc[w] = "saving" => Acquainted \subseteq seen[w]

\* A contact is acknowledged by the handler that has saved it.
LEMMA ContactEarned ==
    ASSUME TypeOK, StageInv, NEW w \in Workers, TypeOK', Turn(w),
           NEW m \in People, Earns(w, m)
    PROVE  /\ pc[w] = "saving" /\ pc'[w] = "done" /\ m = req[w].uid /\ m \in contacts'
           /\ req[w] \in Requests /\ req[w].do \in ContactKinds /\ w \in Busy
<1>1. req[w] \in Requests /\ pc[w] \notin {"idle", "done"} /\ w \in Busy
  BY HopLabel DEF Turn, Frame
<1>2. req[w].do \in KindsAt(pc[w])
  BY <1>1, BusyTypes
<1>3. pc[w] = "saving"
  <2>1. SUFFICES ASSUME pc[w] # "saving" PROVE FALSE
    OBVIOUS
  <2>2. req[w].do \in MakingKinds /\ m \in {req[w].uid, req[w].copy}
    BY <1>2, <2>1 DEF Earns, KindsAt, MakingKinds, ChatKinds
  <2>3. m \in Made(req[w])
    BY <1>1, <2>2, RequestTypes
  <2> QED BY <1>1, <2>3, UidAssumption
<1> QED BY <1>1, <1>2, <1>3 DEF Earns, KindsAt

\* A turn keeps ContactInv: two requests for the book at a time are excused.
LEMMA ContactTurn ==
    ASSUME TypeOK, StageInv, ExcuseInv, ContactInv, NEW w \in Workers, TypeOK', Turn(w)
    PROVE  ContactInv'
<1>1. /\ req' = req /\ Excused \subseteq Excused' /\ purged' = purged
      /\ \A x \in Workers \ {w} : pc'[x] = pc[x] /\ seen'[x] = seen[x]
  BY ExcusedTurn DEF Turn, Frame
<1>2. ASSUME NEW m, m \in Acquainted', m \in acked PROVE m \in Acquainted
  BY <1>1, <1>2 DEF Acquainted
<1>3. ASSUME NEW m, m \in Acquainted', m \notin acked
      PROVE  /\ pc[w] = "saving" /\ pc'[w] = "done" /\ m = req[w].uid /\ m \in contacts'
             /\ req[w] \in Requests /\ req[w].do \in ContactKinds /\ w \in Busy
  <2>1. m \in People /\ Earns(w, m)
    BY <1>3 DEF Acquainted, Turn, Books
  <2> QED BY <2>1, ContactEarned
<1>4. ASSUME NEW m \in Acquainted' PROVE m \in contacts'
  <2>1. CASE m \notin acked
    BY <1>3, <1>4, <2>1
  <2>2. CASE m \in acked
    <3>1. m \in Acquainted /\ m \in contacts /\ (pc[w] = "saving" => m \in seen[w])
      BY <1>2, <1>4, <2>2 DEF ContactInv
    <3>2. CASE contacts' = contacts
      BY <3>1, <3>2
    <3>3. CASE contacts' # contacts
      <4>1. pc[w] = "saving" /\ contacts' = IF req[w].do = "contact" THEN seen[w] \cup {req[w].uid}
                                            ELSE seen[w] \ {req[w].uid}
        BY <3>3 DEF Turn, Books
      <4>2. req[w] \in Requests /\ req[w].do \in ContactKinds
        BY <4>1, BusyTypes DEF KindsAt
      <4>3. req[w].do = "forget" => m # req[w].uid
        <5>1. req[w] # Nil /\ m \notin purged
          BY <3>1, <4>2, RequestAssumption DEF Acquainted, Excused
        <5> QED BY <5>1 DEF ExcuseInv
      <4> QED BY <3>1, <4>1, <4>2, <4>3 DEF ContactKinds
    <3> QED BY <3>2, <3>3
  <2> QED BY <2>1, <2>2
<1>5. ASSUME NEW m \in Acquainted', NEW x \in Workers, pc'[x] = "saving" PROVE m \in seen'[x]
  <2>1. CASE x = w
    <3>1. m \in acked
      BY <1>3, <1>5, <2>1
    <3>2. m \in contacts
      BY <1>2, <3>1 DEF ContactInv
    <3>3. seen'[w] = contacts \/ contacts \subseteq crossed'
      BY <1>5, <2>1 DEF Turn, Hop
    <3>4. m \notin crossed'
      BY <1>5 DEF Acquainted, Excused
    <3> QED BY <2>1, <3>2, <3>3, <3>4
  <2>2. CASE x # w
    <3>1. pc[x] = "saving" /\ seen'[x] = seen[x]
      BY <1>1, <1>5, <2>2
    <3>2. CASE m \in acked
      BY <1>2, <3>1, <3>2 DEF ContactInv
    <3>3. CASE m \notin acked
      <4>1. /\ m = req[w].uid /\ req[w].do \in ContactKinds /\ w \in Busy
        BY <1>3, <3>3
      <4>2. req[x].do \in ContactKinds /\ x \in Busy
        BY <3>1, BusyTypes DEF KindsAt
      <4>3. Overlap(req[w], req[x])
        BY <4>1, <4>2 DEF Overlap
      <4>4. m \in crossed
        BY <2>2, <4>1, <4>2, <4>3 DEF ExcuseInv
      <4> QED BY <1>1, <1>5, <4>4 DEF Acquainted, Excused
    <3> QED BY <3>2, <3>3
  <2> QED BY <2>1, <2>2
<1> QED BY <1>4, <1>5 DEF ContactInv

-----------------------------------------------------------------------------
(* Kept and NoOrphanCopy. *)

KeepInv ==
    /\ PutInv /\ MoveInv /\ PlacedInv /\ HomeInv
    /\ LengthInv /\ RoomInv /\ PeerInv /\ ContactInv

\* A request, a look of the page and a stuttering step change no list and nothing
\* that was reported; a worker goes on or begins.
Still ==
    /\ list' = list /\ index' = index /\ loop' = loop /\ stored' = stored
    /\ acked' = acked /\ contacts' = contacts /\ seen' = seen /\ Excused \subseteq Excused'
    /\ \A x \in Workers : (pc'[x] = pc[x] /\ req'[x] = req[x]) \/ pc'[x] = "begin"

\* These steps are still.
LEMMA StillSteps ==
    ASSUME TypeOK, StageInv,
           Looking \/ UNCHANGED mvars \/ \E w \in Workers, r \in Requests : Request(w, r)
    PROVE  Still
<1>1. /\ list' = list /\ index' = index /\ loop' = loop /\ stored' = stored
      /\ acked' = acked /\ contacts' = contacts /\ seen' = seen
  BY DEF Looking, Request, mvars, lvars, hvars, pvars
<1>2. Excused \subseteq Excused'
  BY DEF Looking, Request, mvars, lvars, Excused
<1>3. CASE Looking \/ UNCHANGED mvars
  BY <1>1, <1>2, <1>3 DEF Still, Looking, mvars, hvars
<1>4. ASSUME NEW w \in Workers, NEW r \in Requests, Request(w, r) PROVE Still
  BY <1>1, <1>2, <1>4, StageRequest DEF Still
<1> QED BY <1>3, <1>4

\* They keep KeepInv.
LEMMA KeepStill ==
    ASSUME KeepInv, Still
    PROVE  KeepInv'
<1>1. /\ \A l : Stored(l)' = Stored(l) /\ Full(l)' = Full(l)
      /\ \A x : HasListed(x)' = HasListed(x) /\ Asked(x)' = Asked(x)
      /\ \A L : Around(L)' = Around(L) /\ OnLists(L)' = OnLists(L)
  BY DEF Still, Stored, Full, HasListed, Asked, Around, OnLists, OnCopies, InHands
<1>2. PutInv' /\ LengthInv'
  BY <1>1 DEF KeepInv, PutInv, LengthInv, Still
<1>3. HomeInv'
  BY <1>1 DEF KeepInv, HomeInv, Still
<1>4. MoveInv'
  <2>1. ASSUME NEW x \in Workers, NEW m \in Uids, m = req'[x].uid, m \notin Excused',
               pc'[x] \in {"listing", "unlisting", "rollback"}
        PROVE  req'[x] = req[x] /\ pc'[x] = pc[x] /\ m \notin Excused
    BY <2>1 DEF Still
  <2> QED BY <1>1, <2>1 DEF KeepInv, MoveInv, Still
<1>5. PlacedInv'
  <2>1. ASSUME NEW r \in Of({"send"}), Sent(r)' PROVE Sent(r)
    BY <1>1, <2>1 DEF Sent, NotAsked, Still
  <2>2. ASSUME NEW m \in Uids, m \notin Excused', Placed(m)' PROVE Safe(m)'
    <3>1. Placed(m) /\ m \notin Excused
      BY <1>1, <2>1, <2>2 DEF Placed, Still
    <3> QED BY <1>1, <3>1 DEF KeepInv, PlacedInv, Safe
  <2> QED BY <2>2 DEF PlacedInv
<1>6. RoomInv'
  <2>1. \A x \in Workers : (Posting(x)' => Posting(x) /\ req'[x] = req[x])
                           /\ (Appended(x)' => Appended(x) /\ req'[x] = req[x])
    BY <1>1 DEF Posting, Appended, Still
  <2> QED BY <1>1, <2>1 DEF KeepInv, RoomInv, Still
<1>7. PeerInv'
  <2>1. \A x \in Workers : (PeerNoted(x)' => PeerNoted(x) /\ req'[x] = req[x])
                           /\ (MeNoted(x)' => MeNoted(x) /\ req'[x] = req[x])
    BY <1>1 DEF PeerNoted, MeNoted, Still
  <2> QED BY <1>1, <2>1 DEF KeepInv, PeerInv, Still
<1>8. ContactInv'
  <2>1. Acquainted' \subseteq Acquainted
    BY DEF Acquainted, Still
  <2> QED BY <2>1 DEF KeepInv, ContactInv, Still
<1> QED BY <1>2, <1>3, <1>4, <1>5, <1>6, <1>7, <1>8 DEF KeepInv

\* A step of a loop leaves the contacts alone.
LEMMA ContactLoop ==
    ASSUME ContactInv, NEW w \in Workers, Turning(w)
    PROVE  ContactInv'
<1>1. Acquainted' \subseteq Acquainted
  BY DEF Acquainted, Excused, Turning, GoesOn
<1> QED BY <1>1 DEF ContactInv, Turning

\* At the start every list is as long as it may be, and holds what counts as
\* acknowledged.
LEMMA KeepInit ==
    ASSUME Init
    PROVE  KeepInv
<1>1. /\ list = Folders /\ loop = [w \in Workers |-> NoLoop]
      /\ pc = [w \in Workers |-> "idle"] /\ req = [w \in Workers |-> Nil]
  BY DEF Init, LoopInit
<1>2. \A w \in Workers : loop[w].st = "off" /\ pc[w] = "idle" /\ Asked(w) = {} /\ ~HasListed(w)
  BY <1>1 DEF NoLoop, Asked, HasListed
<1>3. NewInv
  BY OpenInit DEF OpenInv
<1>4. \A r \in Requests, m \in Uids : m \in Made(r) => m \notin acked /\ m \notin Around(Lists)
  BY <1>1, <1>3, RequestAssumption DEF NewInv, Unheard
<1>5. PutInv /\ MoveInv
  BY <1>1, <1>2 DEF PutInv, MoveInv
<1>6. PlacedInv
  <2>1. ASSUME NEW m \in acked \ (Chats \cup People) PROVE Safe(m)
    <3>1. m \notin Book
      BY <2>1 DEF People
    <3>2. PICK l \in Lists : Cap[l] = 0 /\ m \in Initial(l)
      BY <2>1, <3>1 DEF Init
    <3>3. m \in Items(Stored(l))
      BY <1>1, <3>2 DEF Initial, Stored
    <3> QED BY <3>2, <3>3 DEF Safe, OnLists, Uncapped
  <2>2. ASSUME NEW r \in Of({"send"}) PROVE ~Sent(r)
    <3>1. r \in Requests /\ r.copy \in Made(r) /\ r.copy \in Uids
      BY RequestTypes DEF Of, MakingKinds
    <3> QED BY <1>2, <1>4, <3>1 DEF Sent, NotAsked
  <2> QED BY <1>2, <2>1, <2>2 DEF PlacedInv, Placed
<1>7. \A r \in Of(ChatKinds) : r.uid \notin acked /\ r.uid \notin Around(Lists)
  BY <1>4, ChatTypes
<1>8. HomeInv
  <2>1. Around(Uncapped) \subseteq Around(Lists)
    BY DEF Around, OnLists, OnCopies, InHands, Uncapped
  <2> QED BY <1>2, <1>7, <2>1 DEF HomeInv
<1>9. LengthInv
  <2>1. ASSUME NEW l \in Lists, Cap[l] # 0 PROVE Len(Stored(l)) <= Cap[l]
    <3>1. CASE Folders[l] = Nil
      <4>1. Stored(l) = <<>> /\ Cap[l] \in Nat
        BY <1>1, <3>1, LoopAssumption DEF Stored
      <4> QED BY <4>1
    <3>2. CASE Folders[l] # Nil
      BY <1>1, <2>1, <3>2, CapAssumption DEF Stored
    <3> QED BY <3>1, <3>2
  <2> QED BY <1>2, <2>1 DEF LengthInv
<1>10. RoomInv
  BY <1>2, <1>7 DEF RoomInv, Posting, Appended
<1>11. PeerInv
  <2>1. \A r \in Of({"dm"}) : r.uid \notin acked
    BY <1>7 DEF Of, ChatKinds
  <2> QED BY <1>2, <2>1 DEF PeerInv, PeerNoted, MeNoted
<1>12. ContactInv
  <2>1. acked \cap People \subseteq Book
    BY UidAssumption DEF Init
  <2>2. contacts = Book
    BY DEF Init
  <2> QED BY <1>2, <2>1, <2>2 DEF ContactInv, Acquainted
<1> QED BY <1>5, <1>6, <1>8, <1>9, <1>10, <1>11, <1>12 DEF KeepInv

\* Every step keeps KeepInv, given OpenInv.
LEMMA KeepNext ==
    ASSUME SharedListsExist, OpenInv, KeepInv, Next
    PROVE  KeepInv'
<1>1. TypeOK /\ StageInv /\ ExcuseInv
  BY DEF OpenInv
<1>2. /\ PutInv /\ MoveInv /\ PlacedInv /\ HomeInv
      /\ LengthInv /\ RoomInv /\ PeerInv /\ ContactInv
  BY DEF KeepInv
<1>3. ASSUME NEW w \in Workers, TypeOK', Turn(w) PROVE KeepInv'
  BY <1>1, <1>2, <1>3, PutTurn, MoveTurn, PlacedTurn, HomeTurn, LengthTurn, RoomTurn,
     PeerTurn, ContactTurn DEF KeepInv
<1>4. ASSUME NEW w \in Workers, Loop(w) PROVE KeepInv'
  <2>1. Turning(w) /\ LoopStep(w)
    BY <1>1, <1>4, LoopTurning
  <2>2. PutInv' /\ MoveInv' /\ PlacedInv' /\ HomeInv'
    BY <1>1, <1>2, <2>1, PutLoop, MoveLoop, PlacedLoop, HomeLoop
  <2>3. LengthInv' /\ RoomInv' /\ PeerInv' /\ ContactInv'
    BY <1>1, <1>2, <2>1, LengthLoop, RoomInvLoop, PeerLoop, ContactLoop
  <2> QED BY <2>2, <2>3 DEF KeepInv
<1>5. ASSUME NEW w \in Workers, NEW r \in Requests, Request(w, r) PROVE KeepInv'
  BY <1>1, <1>5, StillSteps, KeepStill
<1>6. CASE Looking
  BY <1>1, <1>6, StillSteps, KeepStill
<1> QED BY <1>1, <1>3, <1>4, <1>5, <1>6, NextCases

\* The invariants together are what Kept asks for.
LEMMA InvKept ==
    ASSUME OpenInv, KeepInv
    PROVE  Kept
<1>1. ASSUME NEW m \in Letters PROVE Where(m) # {} /\ \E l \in Lists : m \in Shown(l)
  <2>1. m \in acked \ (Chats \cup People) /\ m \notin Excused /\ m \in Uids
    BY DEF Letters, OpenInv, TypeOK
  <2>2. Safe(m)
    BY <2>1 DEF KeepInv, PlacedInv, Placed
  <2>3. PICK l \in Lists : m \in Items(Stored(l))
    BY <2>2 DEF Safe, OnLists, Uncapped
  <2>4. m \in stored
    BY <2>1 DEF OpenInv, ColumnInv
  <2> QED BY <2>3, <2>4, ListedShows DEF Where
<1>2. ASSUME NEW r \in Of({"chat", "dm"}), r.uid \in acked
      PROVE  r.uid \in Posts(r.to) \/ Full(r.to)
  <2>1. r \in Of(ChatKinds)
    BY DEF ChatKinds
  <2> QED BY <1>2, <2>1 DEF KeepInv, RoomInv, Posts
<1>3. ASSUME NEW r \in Of({"dm"}), r.uid \in acked
      PROVE  r.peer \in Peers(r.mine) /\ r.me \in Peers(r.theirs)
  BY <1>3 DEF KeepInv, PeerInv, Peers
<1>4. (acked \cap People) \ Excused \subseteq contacts
  BY DEF KeepInv, ContactInv, Acquainted
<1> QED BY <1>1, <1>2, <1>3, <1>4 DEF Kept

\* And what NoOrphanCopy asks for.
LEMMA InvNoOrphanCopy ==
    ASSUME OpenInv, KeepInv
    PROVE  NoOrphanCopy
<1> SUFFICES ASSUME NEW r \in Of({"send"}), Where(r.copy) # {}, r.uid \notin Excused
             PROVE  Where(r.uid) # {}
  BY DEF NoOrphanCopy
<1>1. r.uid \in Uids
  BY RequestTypes DEF Of
<1>2. r.copy \in Around(Lists)
  BY DEF Where, Around, OnLists
<1>3. Placed(r.uid)
  BY <1>2 DEF Placed, Sent
<1>4. Safe(r.uid)
  BY <1>1, <1>3 DEF KeepInv, PlacedInv
<1> QED BY <1>4 DEF Safe, OnLists, Uncapped, Where

\* Both invariants hold at every moment, if shared lists exist.
THEOREM KeepInvariant ==
    ASSUME SharedListsExist
    PROVE  Spec => [](OpenInv /\ KeepInv)
<1>1. Init => OpenInv /\ KeepInv
  BY OpenInit, KeepInit
<1>2. OpenInv /\ KeepInv /\ [Next]_mvars => (OpenInv /\ KeepInv)'
  <2>1. ASSUME OpenInv, KeepInv, Next PROVE OpenInv' /\ KeepInv'
    BY <2>1, OpenNext, KeepNext
  <2>2. ASSUME OpenInv, KeepInv, UNCHANGED mvars PROVE OpenInv' /\ KeepInv'
    <3>1. TypeOK /\ StageInv
      BY <2>2 DEF OpenInv
    <3> QED BY <2>2, <3>1, OpenStutter, StillSteps, KeepStill
  <2> QED BY <2>1, <2>2
<1> QED BY <1>1, <1>2, PTL DEF Spec

\* What was reported as delivered, saved or posted stays where its owner finds it:
\* mails through moves that fail half-way, chat messages, partners and contacts,
\* for any requests, workers and faults, if the lists that several requests change
\* exist (store_message, handle_delete_email, handle_restore_email,
\* append_csv_item_cas, handle_contacts_add).
THEOREM NothingIsLost ==
    ASSUME SharedListsExist
    PROVE  Spec => []Kept
  BY KeepInvariant, InvKept, PTL

\* A sender's copy never speaks of a mail that was not delivered, under the same
\* condition (handle_send_email).
THEOREM CopiesSpeakTrue ==
    ASSUME SharedListsExist
    PROVE  Spec => []NoOrphanCopy
  BY KeepInvariant, InvNoOrphanCopy, PTL
=============================================================================
