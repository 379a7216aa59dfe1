-------------------------- MODULE MCReviewWorkflow --------------------------
(***************************************************************************)
(* An active version that defines a property, a draft that lacks it, and   *)
(* a version to come.  Of two observations of the property one is of low   *)
(* confidence.                                                             *)
(***************************************************************************)
EXTENDS ReviewWorkflow, TLC

CONSTANTS p, oSure, oLow, r1, r2

MCProperties == {p}
MCSeed == <<{p}, {}>>
MCObservations == {oSure, oLow}
MCPropertyOf == [o \in MCObservations |-> p]
MCRequests == {r1, r2}

Symmetric == Permutations(MCRequests)
=============================================================================
