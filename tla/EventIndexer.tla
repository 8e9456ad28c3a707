---------------------------- MODULE EventIndexer ----------------------------
(***************************************************************************)
(* syncEventLogs of event-indexer.ts, one action per RPC answer, while the *)
(* chain reorganizes between any two of them.                              *)
(*                                                                         *)
(* The caller's record of the stream (kept) is what the cache layer makes  *)
(* of the results: Deliver deletes from rollbackTo on and adds the new     *)
(* logs, as docs/indexing.md asks of it.  EventCache models the store.     *)
(***************************************************************************)
EXTENDS Cursors

CONSTANTS
    StartBlock,      \* cursor.startBlock
    FinalityDepth,   \* cursor.finalityDepth
    InitialRange,    \* cursor.rangeSize of a new cursor
    MaxRange,        \* options.maxRangeSize
    MaxRanges,       \* options.maxRanges
    MaxReorgChecks,  \* options.maxReorgChecks
    MaxLogs,         \* options.maxLogsPerRange
    MaxLogBlocks,    \* options.maxLogBlocksPerRange
    MaxSyncLogs,     \* HARD_MAX_LOGS_PER_SYNC
    ProviderRange,   \* the widest block range the RPC endpoint serves
    MaxLag,          \* how far a sampled head may trail the branch
    DivergentLogs    \* whether eth_getLogs may answer from another branch

ASSUME IndexerAssumption ==
    /\ StartBlock \in Nat
    /\ FinalityDepth \in Nat
    /\ InitialRange \in Nat \ {0}
    /\ MaxRange \in Nat \ {0}
    /\ MaxRanges \in Nat \ {0}
    /\ MaxReorgChecks \in Nat \ {0}
    /\ MaxLogs \in Nat \ {0}
    /\ MaxLogBlocks \in Nat \ {0}
    /\ MaxSyncLogs \in Nat
    /\ ProviderRange \in Nat \ {0}
    /\ MaxLag \in Nat
    /\ DivergentLogs \in BOOLEAN

VARIABLES
    kept,        \* [cursor, logs]: the caller's record of the stream
    pc,          \* the answer or decision syncEventLogs waits for
    cursor,      \* its working cursor
    logs,        \* the logs it has accepted
    rollbackTo,  \* the earliest rollback so far
    attempts,    \* the loop counter of the range loop
    safeHead,    \* the head it sampled, less the finality depth
    walk,        \* reconcileCursor: the checkpoints not yet popped
    checks,      \* reconcileCursor: the reads spent
    resume,      \* where syncEventLogs continues after reconcileCursor
    scan         \* the range attempt in progress

localVars == <<cursor, logs, rollbackTo, attempts, safeHead, walk, checks,
               resume, scan>>
syncVars == <<pc, localVars>>
vars == <<chainVars, kept, syncVars>>

-----------------------------------------------------------------------------
NewCursor ==
    [checkpoints |-> {}, nextBlock |-> StartBlock, rangeSize |-> InitialRange]

GrowRange(size, count) ==
    LET least(m, n) == IF m < n THEN m ELSE n
        atLeastOne(n) == IF n < 1 THEN 1 ELSE n
    IN  IF 2 * count > MaxLogs THEN least(MaxRange, atLeastOne(size \div 2))
        ELSE IF 4 * count < MaxLogs THEN least(MaxRange, 2 * size)
        ELSE least(MaxRange, size)

Span == LET sizes == {cursor.rangeSize, MaxRange, safeHead - cursor.nextBlock + 1}
        IN  CHOOSE n \in sizes : \A m \in sizes : n <= m

NoScan == [to |-> 0, before |-> CHOOSE b \in Block : TRUE, found |-> {},
           unread |-> {}, seen |-> {}, anchored |-> FALSE]

-----------------------------------------------------------------------------
Init ==
    /\ ChainInit
    /\ kept = [cursor |-> NewCursor, logs |-> {}]
    /\ pc = "idle"
    /\ cursor = NewCursor
    /\ logs = {}
    /\ rollbackTo = Undefined
    /\ attempts = 0
    /\ safeHead = Undefined
    /\ walk = {}
    /\ checks = 0
    /\ resume = "range"
    /\ scan = NoScan

\* syncEventLogs returns or throws, and its locals are gone.
Return ==
    /\ pc' = "idle"
    /\ cursor' = NewCursor
    /\ logs' = {}
    /\ rollbackTo' = Undefined
    /\ attempts' = 0
    /\ safeHead' = Undefined
    /\ walk' = {}
    /\ checks' = 0
    /\ resume' = "range"
    /\ scan' = NoScan

\* A caller opens a synchronization from the cursor it holds.
Start ==
    /\ pc = "idle"
    /\ pc' = "head"
    /\ cursor' = kept.cursor
    /\ UNCHANGED <<chainVars, kept, logs, rollbackTo, attempts, safeHead, walk,
                   checks, resume, scan>>

\* Mutant: the loop goes on after the final reconciliation too.
ReconcileAndResume(continuation) ==
    /\ pc' = "reconcile"
    /\ walk' = cursor.checkpoints
    /\ checks' = 0
    /\ resume' = "range"

\* reconcileCursor begins with the working cursor's checkpoints.
Reconcile(continuation) ==
    /\ pc' = "reconcile"
    /\ walk' = cursor.checkpoints
    /\ checks' = 0
    /\ resume' = continuation

\* eth_chainId and eth_blockNumber arrive.  A head behind the newest
\* checkpoint is an error: only Fail is left.
ReadHead ==
    /\ pc = "head"
    /\ \E lag \in 0 .. MaxLag :
        LET safe == Height[head] - lag - FinalityDepth
        IN  /\ lag <= Height[head]
            /\ safeHead' = IF safe >= 0 THEN safe ELSE Undefined
    /\ \A c \in cursor.checkpoints : Height[c] <= safeHead'
    /\ Reconcile("range")
    /\ UNCHANGED <<chainVars, kept, cursor, logs, rollbackTo, attempts, scan>>

\* reconcileCursor returns with the checkpoints it found canonical.
Settle(cps) ==
    LET next == NextAfter(StartBlock, cps)
    IN  /\ cursor' = [cursor EXCEPT !.checkpoints = cps, !.nextBlock = next]
        /\ IF next = cursor.nextBlock
           THEN UNCHANGED <<logs, rollbackTo>>
           ELSE /\ logs' = LogsBefore(logs, next)
                /\ rollbackTo' = EarliestRollback(rollbackTo, next)
        /\ pc' = resume
        /\ walk' = {}
        /\ checks' = 0
        /\ UNCHANGED <<chainVars, kept, attempts, safeHead, resume, scan>>

\* reconcileCursor reads the block of its newest remaining checkpoint.
ReadCheckpoint ==
    /\ pc = "reconcile"
    /\ walk # {}
    /\ checks < MaxReorgChecks
    /\ Height[Newest(walk)] <= Height[head]
    /\ IF Canonical(Newest(walk))
       THEN Settle(walk)
       ELSE /\ walk' = walk \ {Newest(walk)}
            /\ checks' = checks + 1
            /\ UNCHANGED <<chainVars, kept, pc, cursor, logs, rollbackTo,
                           attempts, safeHead, resume, scan>>

\* No checkpoint was canonical within the budget: start over.
ExhaustCheckpoints ==
    /\ pc = "reconcile"
    /\ walk = {} \/ checks = MaxReorgChecks
    /\ Settle({})
-----------------------------------------------------------------------------
(* The range loop.                                                          *)

LoopEnds ==
    \/ attempts = MaxRanges
    \/ Cardinality(logs) >= MaxSyncLogs
    \/ logs # {} /\ Cardinality(logs) + MaxLogs > MaxSyncLogs
    \/ cursor.nextBlock > safeHead

\* The last RPC work of a synchronization is one more reconciliation.
LeaveLoop ==
    /\ pc = "range"
    /\ LoopEnds
    /\ Reconcile("result")
    /\ UNCHANGED <<chainVars, kept, cursor, logs, rollbackTo, attempts,
                   safeHead, scan>>

\* The range end is read before its logs.
ReadBefore ==
    /\ pc = "range"
    /\ ~ LoopEnds
    /\ \E b \in Block :
        LET to == cursor.nextBlock + Span - 1
        IN  /\ BlockAt(to, b)
            /\ scan' = [NoScan EXCEPT !.to = to, !.before = b]
    /\ attempts' = attempts + 1
    /\ pc' = "logs"
    /\ UNCHANGED <<chainVars, kept, cursor, logs, rollbackTo, safeHead, walk,
                   checks, resume>>

ScanSpan == scan.to - cursor.nextBlock + 1

\* Mutant: the next attempt is as wide as the one that failed.
ShrinkToSame ==
    /\ ScanSpan > 1
    /\ cursor' = [cursor EXCEPT !.rangeSize = ScanSpan]
    /\ pc' = "range"
    /\ scan' = NoScan

\* The range held too much: halve it and spend another attempt.  A single
\* block that holds too much is an error.
Shrink ==
    /\ ScanSpan > 1
    /\ cursor' = [cursor EXCEPT !.rangeSize = ScanSpan \div 2]
    /\ pc' = "range"
    /\ scan' = NoScan

\* The branches an endpoint may answer eth_getLogs from.
LogSources == IF DivergentLogs THEN EverCanonical ELSE {head}

ReadLogs ==
    /\ pc = "logs"
    /\ \E source \in LogSources :
        LET found == LogsThrough(source, cursor.nextBlock, scan.to)
            blocks == {BlockOf[l] : l \in found}
        IN  IF \/ ScanSpan > ProviderRange
               \/ Cardinality(found) > MaxLogs
               \/ Cardinality(blocks) > MaxLogBlocks
            THEN Shrink
            ELSE /\ scan' = [scan EXCEPT !.found = found,
                                         !.unread = {Height[b] : b \in blocks}
                                                    \ {scan.to}]
                 /\ pc' = "blocks"
                 /\ UNCHANGED cursor
    /\ UNCHANGED <<chainVars, kept, logs, rollbackTo, attempts, safeHead,
                   walk, checks, resume>>

\* The header of each log-bearing block before the range end, in order.
ReadLogBlock ==
    /\ pc = "blocks"
    /\ \E n \in scan.unread, b \in Block :
        /\ \A m \in scan.unread : n <= m
        /\ BlockAt(n, b)
        /\ scan' = [scan EXCEPT !.unread = @ \ {n}, !.seen = @ \cup {b}]
    /\ UNCHANGED <<chainVars, kept, pc, cursor, logs, rollbackTo, attempts,
                   safeHead, walk, checks, resume>>

\* The checkpoint before the range, when there is one.
ReadPrevious ==
    /\ pc = "blocks"
    /\ scan.unread = {}
    /\ cursor.checkpoints # {} =>
          Height[Newest(cursor.checkpoints)] <= Height[head]
    /\ scan' = [scan EXCEPT !.anchored =
                   cursor.checkpoints # {} =>
                       Canonical(Newest(cursor.checkpoints))]
    /\ pc' = "after"
    /\ UNCHANGED <<chainVars, kept, cursor, logs, rollbackTo, attempts,
                   safeHead, walk, checks, resume>>

\* Mutant: only logs at the range end have their block compared.
RangeEndVerified(b) ==
    \A l \in scan.found : Height[BlockOf[l]] = scan.to => BlockOf[l] = b

\* Every log is in a block whose header was read as canonical.
LogBlocksVerified(b) == \A l \in scan.found : BlockOf[l] \in scan.seen \cup {b}

\* The range end again, and the verdict on the range.  A log whose block is
\* not canonical is an error.
ReadAfter ==
    /\ pc = "after"
    /\ \E b \in Block :
        /\ BlockAt(scan.to, b)
        /\ IF b # scan.before \/ ~ scan.anchored
           THEN /\ Reconcile("range")
                /\ UNCHANGED <<cursor, logs>>
           ELSE /\ LogBlocksVerified(b)
                /\ logs' = logs \cup scan.found
                /\ cursor' =
                      [checkpoints |-> WithCheckpoint(cursor.checkpoints, b),
                       nextBlock |-> scan.to + 1,
                       rangeSize |-> GrowRange(cursor.rangeSize,
                                               Cardinality(scan.found))]
                /\ pc' = "range"
                /\ UNCHANGED <<walk, checks, resume>>
    /\ scan' = NoScan
    /\ UNCHANGED <<chainVars, kept, rollbackTo, attempts, safeHead>>

\* The promise resolves and the caller brings its record up to date.
Deliver ==
    /\ pc = "result"
    /\ kept' = [cursor |-> cursor, logs |-> Merged(kept.logs, rollbackTo, logs)]
    /\ Return
    /\ UNCHANGED chainVars

\* The promise rejects: a transport error, the deadline, a cancellation, a
\* changed chain, a null block or one of the errors named above.
Fail ==
    /\ pc # "idle"
    /\ Return
    /\ UNCHANGED <<chainVars, kept>>

Reorganize ==
    /\ MoveHead
    /\ UNCHANGED <<kept, syncVars>>

Advance ==
    \/ Start
    \/ ReadHead
    \/ ReadCheckpoint
    \/ ExhaustCheckpoints
    \/ LeaveLoop
    \/ ReadBefore
    \/ ReadLogs
    \/ ReadLogBlock
    \/ ReadPrevious
    \/ ReadAfter
    \/ Deliver

Next == Advance \/ Fail \/ Reorganize

Spec == Init /\ [][Next]_vars

\* Every request is answered or cut off by the deadline, so a running
\* synchronization takes its next step or fails.
SyncStep == (pc # "idle" /\ Advance) \/ Fail

FairSpec == Spec /\ WF_vars(SyncStep)

\* The same, for a reader who keeps asking for the next synchronization.
PersistentSpec == FairSpec /\ WF_vars(Start)

-----------------------------------------------------------------------------
(* What the synchronization promises.                                       *)

Cursor ==
    [checkpoints : SUBSET Block, nextBlock : Nat, rangeSize : Nat \ {0}]

Scan ==
    [to : Nat, before : Block, found : SUBSET Log, unread : SUBSET Nat,
     seen : SUBSET Block, anchored : BOOLEAN]

\* Every variable has its type: the caller's record, the working copy and the
\* range attempt of syncEventLogs.
TypeOK ==
    /\ ChainTypeOK
    /\ kept \in [cursor : Cursor, logs : SUBSET Log]
    /\ pc \in {"idle", "head", "reconcile", "range", "logs", "blocks",
               "after", "result"}
    /\ cursor \in Cursor
    /\ logs \subseteq Log
    /\ rollbackTo \in Nat \cup {Undefined}
    /\ attempts \in 0 .. MaxRanges
    /\ safeHead \in Nat \cup {Undefined}
    /\ walk \subseteq Block
    /\ checks \in 0 .. MaxReorgChecks
    /\ resume \in {"range", "result"}
    /\ scan \in Scan

\* The caller never holds a log of a block that is not in the ancestry of the
\* checkpoint its record stands for, whatever the chain did between two
\* answers and whichever branch answered eth_getLogs.
KeptLogsBelong ==
    /\ OneBranch(StartBlock, kept.cursor)
    /\ kept.logs \subseteq Committed(StartBlock, kept.cursor.checkpoints)

\* When eth_getLogs is answered from the branch that is canonical at that
\* moment, the caller's record misses no log of that ancestry either.
KeptLogsComplete ==
    ~ DivergentLogs => Committed(StartBlock, kept.cursor.checkpoints) \subseteq kept.logs

\* A result can be applied to the record it was computed from: it rolls back
\* to a block the record has reached, and brings no log from before that
\* boundary (the conditions BrowserEventCache.apply checks, and the meaning
\* docs/indexing.md gives to rollbackTo).
ResultAppliesToCaller ==
    pc = "result" =>
        LET boundary == IF rollbackTo = Undefined
                        THEN kept.cursor.nextBlock ELSE rollbackTo
        IN  /\ boundary <= kept.cursor.nextBlock
            /\ cursor.nextBlock >= boundary
            /\ \A l \in logs : Height[BlockOf[l]] \in boundary .. cursor.nextBlock - 1

\* A synchronization of one range whose logs come from the canonical branch
\* ends in one of the results the cache layer is checked against, however the
\* chain reorganizes under it.
ResultIsExpected ==
    pc = "result" =>
        [checkpoints |-> cursor.checkpoints, rollbackTo |-> rollbackTo,
         logs |-> logs] \in SyncResults(StartBlock, kept.cursor.checkpoints)

\* No synchronization runs for ever: however the chain reorganizes under it,
\* the range loop and both reconciliations come to an end.
SyncEnds == (pc # "idle") ~> (pc = "idle")

\* Once requests stop failing, a reader who keeps synchronizing ends up with a
\* record on the canonical branch, as far as any sampled head allows.
CatchesUp ==
    <>[][Advance \/ Reorganize]_vars =>
        <>[](/\ kept.cursor.nextBlock > Height[head] - MaxLag - FinalityDepth
             /\ kept.cursor.checkpoints \subseteq Ancestors[head])

\* Logs that stand beside a cursor are those of the branch it is on.
Records(c, ls) ==
    /\ OneBranch(StartBlock, c)
    /\ HasEnds(c.checkpoints)
    /\ ls \subseteq Committed(StartBlock, c.checkpoints)
    /\ ~ DivergentLogs => Committed(StartBlock, c.checkpoints) \subseteq ls

\* What is known of a range while its first and its second end reading are
\* still to be compared: if the range end has stayed canonical, so have the
\* headers read in between, and the logs are those of its ancestry.
ScanInv ==
    /\ pc \in {"logs", "blocks", "after"} =>
          /\ scan.before \in EverCanonical
          /\ Height[scan.before] = scan.to
          /\ cursor.nextBlock <= scan.to
    /\ pc = "logs" => scan.seen = {}
    /\ pc \in {"blocks", "after"} =>
          /\ \A l \in scan.found :
                Height[BlockOf[l]] \in cursor.nextBlock .. scan.to
          /\ \A n \in scan.unread : n <= scan.to
          /\ Canonical(scan.before) =>
                /\ scan.seen \subseteq Ancestors[scan.before]
                /\ ~ DivergentLogs =>
                      scan.found =
                          LogsThrough(scan.before, cursor.nextBlock, scan.to)
    /\ /\ pc = "after" /\ scan.anchored /\ Canonical(scan.before)
       /\ cursor.checkpoints # {}
       => Newest(cursor.checkpoints) \in Ancestors[scan.before]

\* The strengthening that makes the invariants above inductive: the caller's
\* record, and what it would become if the synchronization in progress ended
\* now, are both consistent; an abandoned block does not come back.
IndInv ==
    /\ Ancestors[head] \cap orphaned = {}
    /\ Records(kept.cursor, kept.logs)
    /\ pc \in {"idle", "head"} => logs = {} /\ rollbackTo = Undefined
    /\ pc = "head" => cursor = kept.cursor
    /\ pc = "reconcile" => walk \subseteq cursor.checkpoints
    /\ pc # "idle" => Records(cursor, Merged(kept.logs, rollbackTo, logs))
    /\ ScanInv

Replica == INSTANCE LogReplica WITH
    tip <- IF kept.cursor.checkpoints = {} THEN {}
           ELSE {Newest(kept.cursor.checkpoints)},
    stored <- kept.logs,
    Disposable <- FALSE

\* syncEventLogs and its caller implement the replica of LogReplica.
ImplementsReplica == Replica!Spec
=============================================================================
