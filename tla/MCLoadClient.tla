----------------------------- MODULE MCLoadClient -----------------------------
(***************************************************************************)
(* Instances of LoadClient for TLC.                                        *)
(***************************************************************************)
EXTENDS LoadClient, TLC

CONSTANTS r1, r2, r3

\* r1 is sent twice, or r1 and r2 once each; the others may be left over by an
\* earlier load.
TwoPlans == {(r1 :> ReplayCount) @@ (r2 :> 0) @@ (r3 :> 0),
             (r1 :> 1) @@ (r2 :> 1) @@ (r3 :> 0)}

\* Bound: a leftover is on its way once.
LeftoversOnce ==
    \A r \in {q \in Reqs : plan[q] = 0} :
        Cardinality({a \in answers : a.req = r})
            + Cardinality({c \in Callers : pending[c] # NoBuy /\ pending[c].req = r}) <= 1

\* Bound: of the answers on record, one is an error.
OneError == Cardinality({a \in answers : a.status = "error"}) <= 1
==============================================================================
