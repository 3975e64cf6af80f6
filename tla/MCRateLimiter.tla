---------------------------- MODULE MCRateLimiter ----------------------------
(***************************************************************************)
(* Instances of RateLimiter for TLC.                                       *)
(***************************************************************************)
EXTENDS RateLimiter, TLC

CONSTANTS p1, p2, c1, c2, c3

\* Two calls in one process, one in another whose clock is a tick ahead.
TwoProcesses == (c1 :> p1) @@ (c2 :> p1) @@ (c3 :> p2)
OneAhead == (p1 :> 0) @@ (p2 :> 1)

Symmetry == Permutations({c1, c2})

\* One setting with the proportions of main.py, and one whose leaky bucket is
\* the narrow one.
WideAndNarrow == {
    [token_capacity |-> 4, token_refill_rate |-> 1,
     leaky_capacity |-> 4, leaky_leak_rate |-> 1],
    [token_capacity |-> 4, token_refill_rate |-> 3,
     leaky_capacity |-> 2, leaky_leak_rate |-> 1]}
==============================================================================
