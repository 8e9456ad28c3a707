------------------------------ MODULE MCReader ------------------------------
(***************************************************************************)
(* Two branches that fork at the genesis, with an event in every block:    *)
(* a scope may be rolled back to the other branch and reach the same       *)
(* height, with as many logs, as the progress that was saved before.       *)
(***************************************************************************)
EXTENDS Reader

MCBlock == {<<"genesis", 0>>, <<"a", 1>>, <<"b", 1>>}
MCHeight == [b \in MCBlock |-> b[2]]
MCAncestors ==
    [b \in MCBlock |->
        {c \in MCBlock : c[2] <= b[2] /\ (c[1] = b[1] \/ c[2] = 0)}]
MCLog == MCBlock
MCBlockOf == [l \in MCLog |-> l]
MCTopicOf == [l \in MCLog |-> IF l[2] = 1 THEN "likes" ELSE "reposts"]

EveryKind == {"follows", "members", "profiles", "comments", "reactions"}
\* Superseded calls meet new ones, or positions follow each other; with both
\* at once the read models that resume have too many states.
MCMaxCalls == [k \in Kind |-> IF k = "profiles" THEN 1 ELSE 2]
MCMaxRevision == [k \in Kind |-> IF k = "profiles" THEN 3 ELSE IF k = "follows" THEN 2 ELSE 1]
=============================================================================
