------------------------------- MODULE Cursors -------------------------------
(***************************************************************************)
(* Event cursors and the logs they stand for.  The checkpoints of a cursor *)
(* are a set of blocks: validateEventCursor admits only lists in strictly  *)
(* ascending block order, so the order of the list is that of the heights. *)
(* start is cursor.startBlock.                                             *)
(***************************************************************************)
EXTENDS Chain

CONSTANT MaxCheckpoints    \* MAX_CHECKPOINTS

ASSUME CursorAssumption == MaxCheckpoints \in Nat \ {0}

Undefined == -1

Newest(cps) == CHOOSE c \in cps : \A d \in cps : Height[d] <= Height[c]
Oldest(cps) == CHOOSE c \in cps : \A d \in cps : Height[c] <= Height[d]

NextAfter(start, cps) == IF cps = {} THEN start ELSE Height[Newest(cps)] + 1

\* [...checkpoints, accepted].slice(-MAX_CHECKPOINTS)
WithCheckpoint(cps, c) ==
    IF Cardinality(cps \cup {c}) > MaxCheckpoints
    THEN (cps \cup {c}) \ {Oldest(cps \cup {c})}
    ELSE cps \cup {c}

\* Mutants: the boundary block stays; the block before it goes as well.
LogsUpTo(ls, n) == {l \in ls : Height[BlockOf[l]] <= n}
LogsWellBefore(ls, n) == {l \in ls : Height[BlockOf[l]] < n - 1}

LogsBefore(ls, n) == {l \in ls : Height[BlockOf[l]] < n}

\* Mutant: the first rollback of a synchronization decides.
FirstRollback(current, candidate) ==
    IF current = Undefined THEN candidate ELSE current

EarliestRollback(current, candidate) ==
    IF current = Undefined \/ candidate < current THEN candidate ELSE current

\* What a caller holds once it has applied a rollback and a batch.
Merged(stored, rollback, batch) ==
    (IF rollback = Undefined THEN stored ELSE LogsBefore(stored, rollback))
        \cup batch

\* The logs a list of checkpoints stands for: those of the start block and
\* later in the ancestry of its newest block.
Committed(start, cps) ==
    IF cps = {} THEN {}
    ELSE LogsThrough(Newest(cps), start, Height[Newest(cps)])

\* A cursor's checkpoints lie on one branch, at or above its start block, and
\* it resumes right after the newest (validateEventCursor sees numbers only;
\* that the hashes are of one branch is the engine's doing).
SameBranch(start, cps) ==
    /\ \A d \in cps : Height[d] >= start
    /\ \A d, e \in cps : Height[d] <= Height[e] => d \in Ancestors[e]

OneBranch(start, c) ==
    /\ SameBranch(start, c.checkpoints)
    /\ c.nextBlock = NextAfter(start, c.checkpoints)

\* Any selection of the checkpoints has an oldest and a newest.
HasEnds(cps) ==
    \A S \in SUBSET cps : S # {} =>
        \E old, new \in S : \A d \in S :
            Height[old] <= Height[d] /\ Height[d] <= Height[new]

-----------------------------------------------------------------------------
(* What one range of syncEventLogs can make of a cursor (the layers above   *)
(* always ask for one).  EventIndexer is checked to do nothing else.        *)

\* What reconcileCursor can leave of a list of checkpoints: it pops those
\* that are not canonical, or gives up and starts over.
Retained(cps) ==
    LET popped == cps \cap orphaned
    IN  {cps} \cup {{c \in cps : Height[c] < Height[d]} : d \in popped}
              \cup {c \in {{}} : popped # {}}

\* The cursor went back to the checkpoints in cps, if it moved at all.
Rollbacks(start, cps, original) ==
    {NextAfter(start, cps)} \cup (IF cps = original THEN {Undefined} ELSE {})

\* The accepted range ends at b.
RangeResults(start, original) ==
    UNION {{[checkpoints |-> WithCheckpoint(cps, b),
             rollbackTo |-> r,
             logs |-> LogsThrough(b, NextAfter(start, cps), Height[b])] :
                r \in Rollbacks(start, cps, original),
                b \in {d \in EverCanonical :
                          cps \subseteq Ancestors[d]
                          /\ Height[d] >= NextAfter(start, cps)}} :
           cps \in Retained(original)}

\* No range was accepted, or the last reconciliation took it back.
NoRangeResults(start, original) ==
    LET left == Retained(original)
                \cup UNION {Retained(r.checkpoints) : r \in RangeResults(start, original)}
    IN  UNION {{[checkpoints |-> cps, rollbackTo |-> r, logs |-> {}] :
                    r \in Rollbacks(start, cps, original)} :
               cps \in {c \in left : \A d \in c : d \in original}}

SyncResults(start, original) == RangeResults(start, original) \cup NoRangeResults(start, original)
=============================================================================
