---------------------------- MODULE MCEdrIngest -----------------------------
(* Two requests over two payloads: one that names its event and its alert, *)
(* and one that names neither.                                             *)
EXTENDS EdrIngest, TLC

CONSTANTS r1, r2, named, anonymous, e1, a1

MCPayloads == {named, anonymous}
MCEventId == named :> e1 @@ anonymous :> None
MCAlertId == named :> a1 @@ anonymous :> None
=============================================================================
