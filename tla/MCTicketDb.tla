------------------------------ MODULE MCTicketDb ------------------------------
(***************************************************************************)
(* Instances of TicketDb for TLC.                                          *)
(***************************************************************************)
EXTENDS TicketDb, TLC

\* Two tasks of one process share its connections; the third task
\* runs in another process.
CONSTANTS t1, t2, t3, p1, p2
ThreeTasks == {t1, t2, t3}
TwoPools == [t \in ThreeTasks |-> IF t = t3 THEN p2 ELSE p1]
=============================================================================
