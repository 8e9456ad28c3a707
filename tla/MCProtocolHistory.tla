------------------------- MODULE MCProtocolHistory -------------------------
(***************************************************************************)
(* Two branches that fork above the first block.  The contract is deployed *)
(* early on one and late on the other, so a search that crosses a          *)
(* reorganization would mix them up.  A third chain has the contract from  *)
(* its first block on.                                                     *)
(***************************************************************************)
EXTENDS ProtocolHistory, TLC

CONSTANTS first, second   \* the callers

TwoCallers == {first, second}

CallerSymmetry == Permutations(TwoCallers)

\* Blocks are named by their branch and their number.
Trunk == {<<"trunk", 0>>, <<"trunk", 1>>}
Old == {"old"} \X (0 .. 1)
ShortBlock == Trunk \cup ({"a"} \X (2 .. 4)) \cup ({"b"} \X (2 .. 4)) \cup Old

NumberOf(blocks) == [b \in blocks |-> b[2]]
AncestryOf(blocks) ==
    [b \in blocks |->
        {c \in blocks : /\ c[2] <= b[2]
                        /\ \/ c[1] = b[1]
                           \/ c[1] = "trunk" /\ b[1] # "old"}]

ShortHeight == NumberOf(ShortBlock)
ShortAncestors == AncestryOf(ShortBlock)

\* The blocks of the branches from the given numbers on.
DeployedFrom(blocks, onA, onB) ==
    {b \in blocks : \/ b[1] = "a" /\ b[2] >= onA
                    \/ b[1] = "b" /\ b[2] >= onB}

ShortDeployed == DeployedFrom(ShortBlock, 2, 3) \cup Old

NoLog == {}
NoBlockOf == [l \in {} |-> <<"trunk", 0>>]
=============================================================================
