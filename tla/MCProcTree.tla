----------------------------- MODULE MCProcTree -----------------------------
(* ProcTree on three pids, one of them pid 0 (the pid of a line that names *)
(* none).                                                                  *)
EXTENDS ProcTree
=============================================================================
