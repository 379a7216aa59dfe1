------------------------ MODULE MCIngestionPipeline ------------------------
(***************************************************************************)
(* A source that serves documents with proposals, and one without.         *)
(***************************************************************************)
EXTENDS IngestionPipeline, TLC

CONSTANTS a, b, empty,   \* documents
          r1, r2         \* runs

MCDocs == {a, empty}
TwoDocs == {a, b}
MCBarren == {empty}
NoneBarren == {}
OneRun == {r1}
TwoRuns == {r1, r2}

Symmetric == Permutations(TwoRuns)
=============================================================================
