------------------------------- MODULE MCMail -------------------------------
(* Two mails to everyone, two to the role, one fault.                         *)
EXTENDS Mail
=============================================================================
