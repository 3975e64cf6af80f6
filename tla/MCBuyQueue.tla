------------------------------ MODULE MCBuyQueue ------------------------------
(***************************************************************************)
(* Instances of BuyQueue for TLC.                                          *)
(***************************************************************************)
EXTENDS BuyQueue, TLC

CONSTANTS h1, h2, p1, p2, r1, r2
OneHandler == [h \in {h1} |-> p1]
OneProcess == [h \in {h1, h2} |-> p1]
TwoProcesses == [h \in {h1, h2} |-> IF h = h1 THEN p1 ELSE p2]

\* The clients send every req_id once, or r1 twice.
NoRetry == [r \in {r1, r2} |-> 1]
OneRetry == [r \in {r1, r2} |-> IF r = r1 THEN 2 ELSE 1]

\* The two processes, each with its handler, are interchangeable.
Symmetry == {(h1 :> h2) @@ (h2 :> h1) @@ (p1 :> p2) @@ (p2 :> p1)}
=============================================================================
