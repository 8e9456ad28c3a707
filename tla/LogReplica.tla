----------------------------- MODULE LogReplica -----------------------------
(***************************************************************************)
(* What an indexed event stream promises, whatever scans and stores it:    *)
(* the logs it holds are those of one branch up to one block (its tip),    *)
(* and it leaves a tip only for a descendant, unless a reorganization      *)
(* abandoned that tip.                                                     *)
(***************************************************************************)
EXTENDS Chain

CONSTANTS
    StartBlock,  \* the first block of the stream
    Disposable   \* whether the replica may be dropped at any time

VARIABLES
    tip,     \* the newest indexed block, or nothing
    stored   \* the logs held

replicaVars == <<chainVars, tip, stored>>

Init ==
    /\ ChainInit
    /\ tip = {}
    /\ stored = {}

\* The stream moves to the logs of another block, one that was canonical
\* when the stream last looked.
Publish ==
    \E new \in {{}} \cup {{b} : b \in EverCanonical} :
        /\ tip \subseteq orphaned \/ \E b \in new : tip \subseteq Ancestors[b]
        /\ tip' = new
        /\ stored' = UNION {LogsThrough(b, StartBlock, Height[b]) : b \in new}
        /\ UNCHANGED chainVars

Reorganize == MoveHead /\ UNCHANGED <<tip, stored>>

\* A cache of the stream is dropped and starts over.
Forget ==
    /\ Disposable
    /\ tip' = {}
    /\ stored' = {}
    /\ UNCHANGED chainVars

Next == Publish \/ Forget \/ Reorganize

Spec == Init /\ [][Next]_replicaVars
=============================================================================
