---------------------------- MODULE SendContract ----------------------------
(***************************************************************************)
(* What one call of send_alert may come to, as the scan sees it: the       *)
(* verdict it is told and the copies of the message the reader gets.       *)
(* ClientCall shows that the code stays within it.                         *)
(***************************************************************************)
EXTENDS Naturals

\* "sent": True was returned; "failed": False; "raised": an exception left
\* send_text.  A request whose reply is lost may have been carried out, and
\* is repeated.
SendOutcomes(attempts) ==
    [verdict : {"sent"}, copies : 1..attempts] \cup
    [verdict : {"failed", "raised"}, copies : 0..attempts]

\* Without a fault a message is delivered once and reported so.
CleanOutcome == [verdict |-> "sent", copies |-> 1]

=============================================================================
