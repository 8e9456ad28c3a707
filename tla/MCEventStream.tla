--------------------------- MODULE MCEventStream ---------------------------
(***************************************************************************)
(* Two branches that fork above the genesis.  The contract is deployed     *)
(* earlier on one than on the other, so a boundary of one branch would     *)
(* lose an event of the other.                                             *)
(***************************************************************************)
EXTENDS EventStream

\* Blocks are named by their branch and their number.
MCBlock == {<<"genesis", 0>>} \cup ({"a"} \X (1 .. 2)) \cup ({"b"} \X (1 .. 3))
MCHeight == [b \in MCBlock |-> b[2]]
MCAncestors ==
    [b \in MCBlock |->
        {c \in MCBlock : c[2] <= b[2] /\ (c[1] = b[1] \/ c[2] = 0)}]

MCDeployed == {<<"a", 2>>} \cup ({"b"} \X (1 .. 3))

\* An event is named by its block and its position there; one block has two.
MCLog == {<<"a", 2, 0>>, <<"b", 1, 0>>, <<"b", 1, 1>>, <<"b", 2, 0>>}
MCBlockOf == [l \in MCLog |-> <<l[1], l[2]>>]
MCLogIndex == [l \in MCLog |-> l[3]]
MCTopicOf == [l \in MCLog |-> IF l[2] = 1 THEN "likes" ELSE "reposts"]

EveryStream ==
    {"posts", "follows", "profiles", "comments", "members", "messages",
     "conversations", "groups", "reactions"}

\* Other tabs get between the steps twice in two that stand for all.
MCMaxRevision ==
    [s \in EveryStream |-> IF s \in {"members", "groups"} THEN 2 ELSE 1]
=============================================================================
