---------------------------- MODULE MCAttachment ----------------------------
(* Model values and the bound for the run of Attachment. *)
EXTENDS Attachment

CONSTANTS k1, k2

\* Two commands that have raced may go on for ever; every property excepts
\* them from then on.
NotRaced == ~raced
=============================================================================
