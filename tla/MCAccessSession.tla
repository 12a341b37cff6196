--------------------------- MODULE MCAccessSession ---------------------------
(***************************************************************************)
(* One role; its bounds are in access_session.cfg.                         *)
(***************************************************************************)
EXTENDS AccessSession
=============================================================================
