----------------------------- MODULE MCMailStream -----------------------------
(* Two host names, three messages in batches of two, two faults, one death.  *)
EXTENDS MailStream
CONSTANTS h1, h2
=============================================================================
