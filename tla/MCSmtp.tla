------------------------------- MODULE MCSmtp -------------------------------
(***************************************************************************)
(* Instances of Smtp for TLC: every setting of the outbound client.        *)
(***************************************************************************)
EXTENDS Smtp

\* Without a relay the other settings do not matter.
MCEnvs ==
    [listed : {FALSE}, mode : {"direct"}, fallback : {FALSE}, relay : {FALSE}] \cup
    [listed : BOOLEAN, mode : {"relay"}, fallback : BOOLEAN, relay : BOOLEAN]
MCJobs == Msgs \X Remote
=============================================================================
