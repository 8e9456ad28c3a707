--------------------------- MODULE MCEventCache ---------------------------
(***************************************************************************)
(* Tabs on one scope.  The block b2 competes with a2, so a reorganization  *)
(* takes back one checkpoint and leaves the other, or takes back the only  *)
(* one.  Block a2 holds two logs; the limit of a page falls between them.  *)
(***************************************************************************)
EXTENDS EventCache

CONSTANTS first, second   \* the tabs

TwoTabs == {first, second}
OneTab == {first}

\* Both tabs write, nothing is read in pages and nothing is damaged.
Together ==
    /\ damages = 0
    /\ scan[first] = {} /\ baseline[first] = {} /\ saved = {}

\* The second tab is idle; the scope is written twice, and not a third time.
Alone ==
    /\ position[second] = {} /\ result[second] = {}
    /\ db.revision < MaxRevision

TogetherOrAlone == Together \/ Alone

MCBlock == {"genesis", "a1", "a2", "b2"}

MCAncestors ==
    [b \in MCBlock |->
        CASE b = "genesis" -> {"genesis"}
          [] b = "a1" -> {"genesis", "a1"}
          [] b = "a2" -> {"genesis", "a1", "a2"}
          [] b = "b2" -> {"genesis", "a1", "b2"}]

MCHeight == [b \in MCBlock |-> Cardinality(MCAncestors[b]) - 1]

MCBlockOf ==
    [l \in {"a1.0", "a2.0", "a2.1", "b2.0"} |->
        CASE l = "a1.0" -> "a1"
          [] l \in {"a2.0", "a2.1"} -> "a2"
          [] l = "b2.0" -> "b2"]

MCLog == DOMAIN MCBlockOf

MCLogIndex == [l \in MCLog |-> IF l = "a2.1" THEN 1 ELSE 0]
=============================================================================
