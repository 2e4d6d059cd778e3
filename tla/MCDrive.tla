------------------------------ MODULE MCDrive ------------------------------
(***************************************************************************)
(* Instances of Drive for TLC: a root with the folders A and B, a file in  *)
(* A, and two threads.                                                     *)
(***************************************************************************)
EXTENDS Drive, TLC

MCObjects == {"root", "A", "B", "D", "f", "n", "p"}
MCLists == {"root", "A", "B", "D"}
MCCap == [l \in MCLists |-> 0]
MCTree == "root" :> <<"A", "B">> @@ "A" :> <<"f">> @@ "B" :> <<>> @@ "D" :> Nil
MCNames == [o \in MCObjects |-> o]
MCSizes == [o \in MCObjects |-> IF o \in MCLists THEN 0 ELSE 1]

R(do, o, d, nm) == [do |-> do, uid |-> o, dir |-> d, name |-> nm, limit |-> 2]
MCRequests ==
    {R("upload", "n", "A", "n"), R("upload", "p", "A", "p"), R("mkdir", "D", "A", "D"),
     R("rename", "f", Nil, "n"), R("move", "f", "B", Nil), R("move", "A", "B", Nil), R("move", "A", "D", Nil),
     R("delete", "f", Nil, Nil), R("delete", "A", Nil, Nil),
     R("status", "root", Nil, Nil), R("limit", "root", Nil, Nil)}
=============================================================================
