--------------------------- MODULE MCTraceeIngest ---------------------------
(* Two events of one second, name and pid, and one without a time.         *)
EXTENDS TraceeIngest, TLC

CONSTANTS open1, open2, untimed, i1, i2

MCStamp == open1 :> 10 @@ open2 :> 10 @@ untimed :> None
=============================================================================
