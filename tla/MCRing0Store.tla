---------------------------- MODULE MCRing0Store ----------------------------
(* A scheduled check and one started by hand over a detector of counts and *)
(* one of lines.  The two lines agree in their first 48 characters or not. *)
EXTENDS Ring0Store, TLC

CONSTANTS scheduler, cli, proc_ps, unhide, l1, l2

MCPlan == scheduler :> <<proc_ps, unhide>> @@ cli :> <<unhide>>
MCTokenings == {l1 :> l1 @@ l2 :> l2, l1 :> l1 @@ l2 :> l1}
=============================================================================
