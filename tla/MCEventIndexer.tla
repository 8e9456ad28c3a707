-------------------------- MODULE MCEventIndexer --------------------------
(***************************************************************************)
(* A small block tree for TLC.  The trunk a1..a4 competes with a branch    *)
(* that leaves it after a1 and with one that replaces everything but the   *)
(* genesis block, so a reorganization can undo a range in progress, some   *)
(* checkpoints, or all of them.                                            *)
(***************************************************************************)
EXTENDS EventIndexer

MCParent ==
    [b \in {"a1", "a2", "a3", "a4", "b2", "b3", "b4", "c1", "c2", "c3"} |->
        CASE b \in {"a1", "c1"} -> "genesis"
          [] b \in {"a2", "b2"} -> "a1"
          [] b = "a3" -> "a2"
          [] b = "a4" -> "a3"
          [] b = "b3" -> "b2"
          [] b = "b4" -> "b3"
          [] b = "c2" -> "c1"
          [] b = "c3" -> "c2"]

MCBlock == {"genesis"} \cup DOMAIN MCParent

MCAncestors ==
    LET anc[b \in MCBlock] ==
            IF b = "genesis" THEN {b} ELSE {b} \cup anc[MCParent[b]]
    IN  anc

MCHeight == [b \in MCBlock |-> Cardinality(MCAncestors[b]) - 1]

\* Events by the block that holds them; block a2 holds two.
MCBlockOf ==
    [l \in {"a1.0", "a2.0", "a2.1", "a3.0", "b2.0", "b3.0", "c1.0", "c2.0"} |->
        CASE l = "a1.0" -> "a1"
          [] l \in {"a2.0", "a2.1"} -> "a2"
          [] l = "a3.0" -> "a3"
          [] l = "b2.0" -> "b2"
          [] l = "b3.0" -> "b3"
          [] l = "c1.0" -> "c1"
          [] l = "c2.0" -> "c2"]

MCLog == DOMAIN MCBlockOf
=============================================================================
