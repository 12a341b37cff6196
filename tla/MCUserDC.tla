------------------------------ MODULE MCUserDC ------------------------------
(***************************************************************************)
(* One second between saves, so that a save, a change and the next save    *)
(* may fall in one second or in two; the row of the user is written before *)
(* its other part.                                                         *)
(***************************************************************************)
EXTENDS UserDC

MCUsers == {1}
MCParts == {1, 2}
=============================================================================
