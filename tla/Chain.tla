------------------------------- MODULE Chain -------------------------------
(***************************************************************************)
(* The EVM chain as the browser sees it through JSON-RPC.  The chain is    *)
(* outside src/; it is modelled from the answers event-indexer.ts asks for:*)
(* eth_blockNumber, eth_getBlockByNumber and eth_getLogs.                  *)
(*                                                                         *)
(* A block value stands for a hash together with its number: two blocks    *)
(* of one height on different branches are different values, and a hash    *)
(* commits to the whole ancestry.                                          *)
(***************************************************************************)
EXTENDS Integers, FiniteSets

CONSTANTS
    Block,      \* every block any branch will ever hold
    Height,     \* the number of a block
    Ancestors,  \* a block, and every block its hash commits to
    Log,        \* every event any block holds that matches the filter
    BlockOf     \* the block an event is in

ASSUME ChainAssumption ==
    /\ Height \in [Block -> Nat]
    /\ Ancestors \in [Block -> SUBSET Block]
    /\ BlockOf \in [Log -> Block]
    /\ \A b \in Block : b \in Ancestors[b]
    /\ \A b \in Block : \A c \in Ancestors[b] :
          /\ Ancestors[c] \subseteq Ancestors[b]
          /\ Height[c] <= Height[b]
    /\ \A b \in Block : \A c, d \in Ancestors[b] :
          Height[c] <= Height[d] => c \in Ancestors[d]
    /\ \A b, c \in Block :
          (b \in Ancestors[c] /\ Height[b] = Height[c]) => b = c
    /\ \A b \in Block : \A n \in 0 .. Height[b] :
          \E c \in Ancestors[b] : Height[c] = n

VARIABLES
    head,       \* the newest block of the canonical branch
    orphaned    \* the blocks that were canonical and are no longer

chainVars == <<head, orphaned>>

ChainTypeOK ==
    /\ head \in Block
    /\ orphaned \subseteq Block

Canonical(b) == b \in Ancestors[head]

\* Every block that was canonical at some moment until now.
EverCanonical == Ancestors[head] \cup orphaned

\* The answer to eth_getBlockByNumber: the canonical block of a height the
\* branch has reached.  A null answer has no block, so no such b.
BlockAt(n, b) == Canonical(b) /\ Height[b] = n

\* The matching events in the ancestry of b, from one height to another.
LogsThrough(b, from, to) ==
    {l \in Log : /\ BlockOf[l] \in Ancestors[b]
                 /\ Height[BlockOf[l]] \in from .. to}

ChainInit ==
    /\ head \in Block
    /\ Height[head] = 0
    /\ orphaned = {}

\* The branch grows by any number of blocks, or a reorganization of any
\* depth replaces its end.  An abandoned block does not return.
MoveHead ==
    \E b \in Block :
        /\ ~ Canonical(b)
        /\ Ancestors[b] \cap orphaned = {}
        /\ head' = b
        /\ orphaned' = orphaned \cup (Ancestors[head] \ Ancestors[b])
=============================================================================
