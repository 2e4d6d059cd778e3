------------------------------- MODULE MCMail -------------------------------
(***************************************************************************)
(* Instances of Mail for TLC: two users, two threads, one mail in an inbox *)
(* and one in a trash folder.                                              *)
(***************************************************************************)
EXTENDS Mail, TLC

CONSTANT Missing  \* lists that do not exist at the start

InU == "u:inbox"
SentU == "u:sent"
TrashU == "u:trash"
InV == "v:inbox"
Room == "room"
Thread == "thread"
PeersU == "u:peers"
PeersV == "v:peers"

MCLists == {InU, SentU, TrashU, InV, Room, Thread, PeersU, PeersV}
MCIndexed == {InU, InV}
MCCap == [l \in MCLists |-> IF l \in {Room, Thread} THEN 1 ELSE 0]
MCFolders ==
    [l \in MCLists |-> IF l \in Missing THEN Nil
                       ELSE IF l = InU THEN <<"m1">>
                       ELSE IF l = TrashU THEN <<"m2">> ELSE <<>>]
MCCopies == InU :> <<"m1">> @@ InV :> <<>>

Send == [do |-> "send", uid |-> "s1", copy |-> "c1", to |-> InV, own |-> SentU,
         att |-> "a1", dup |-> "d1"]
Out  == [do |-> "external", uid |-> "x1", copy |-> "c3", own |-> SentU, att |-> "up"]
In(m, l) == [do |-> "smtp", uid |-> m, copy |-> m, to |-> l]
Move(m, f, t) == [do |-> "move", uid |-> m, from |-> f, to |-> t]

MCUids == {"m1", "m2", "s1", "c1", "x1", "c3", "i1", "i2", "a1", "d1", "up",
           "t1", "t2", "t3", "u", "v", "k0", "k1", "k2"}
MCRequests ==
    {Send, Out, In("i1", InV), In("i2", InU),
     Move("m1", InU, TrashU), Move("m2", TrashU, InU), Move("m1", TrashU, InU),
     [do |-> "purge", uid |-> "m2", from |-> TrashU],
     [do |-> "upload", uid |-> "up"],
     [do |-> "contact", uid |-> "k2"], [do |-> "forget", uid |-> "k1"],
     [do |-> "chat", uid |-> "t1", copy |-> "t1", to |-> Room],
     [do |-> "chat", uid |-> "t2", copy |-> "t2", to |-> Room],
     [do |-> "dm", uid |-> "t3", copy |-> "t3", to |-> Thread, mine |-> PeersU, peer |-> "v",
      theirs |-> PeersV, me |-> "u"]}
=============================================================================
