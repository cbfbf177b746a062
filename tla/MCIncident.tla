----------------------------- MODULE MCIncident -----------------------------
(* Images: nothing special, netcat by its full name (whose rule hits and   *)
(* costs no trust), and a download into a shell.                           *)
EXTENDS Incident

MCImages == [p \in Pids |->
  CASE p = 1 -> {{}} [] p = 2 -> {{"netcat"}} [] p = 3 -> {{"curl", "pipe_to_shell"}}]
=============================================================================
