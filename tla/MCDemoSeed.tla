----------------------------- MODULE MCDemoSeed -----------------------------
(***************************************************************************)
(* Two runs of the demonstration script beside a client of the API.  Of    *)
(* the definitions and objects the script creates there are as many as it  *)
(* takes to stop between two of them, and one rule.                        *)
(***************************************************************************)
EXTENDS DemoSeed, TLC

CONSTANTS s1, s2, editor,        \* clients
          University, Program,   \* object types
          OFFERS,                \* relation type
          campaignProperty,
          bmstu, programA,       \* stable keys
          v1, v2                 \* ontology versions

MCClients == {s1, s2, editor}
MCSeeds == {s1, s2}
Symmetric == Permutations(MCSeeds)
MCVersions == {v1, v2}
MCTypes == {University, Program}
MCPredicates == {OFFERS}
MCCodes == MCTypes \cup MCPredicates \cup {campaignProperty}
MCFrom == [p \in MCPredicates |-> {University}]
MCTo == [p \in MCPredicates |-> {Program}]
MCKeys == {bmstu, programA}

\* The document of the demonstration, and one known by its checksum alone.
Admission == [external |-> "bmstu-admission-2027", checksum |-> "demo"]
Unnamed == [external |-> "null", checksum |-> "demo"]
MCSources == {Admission, Unnamed}

MCDemoCodes == <<{University, Program}, {campaignProperty}, {OFFERS}>>
MCDemoObjects == <<[key |-> bmstu, type |-> University], [key |-> programA, type |-> Program]>>
MCDemoRelation == [subject |-> bmstu, predicate |-> OFFERS, object |-> programA]
MCDemoRules == <<"score.base_from_context">>
=============================================================================
