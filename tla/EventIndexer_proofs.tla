------------------------ MODULE EventIndexer_proofs ------------------------
(***************************************************************************)
(* Proofs about EventIndexer, for every block tree, every range size and   *)
(* bound, and every interleaving of answers with reorganizations; and for  *)
(* calls of one range, which is what every stream asks for, what a call    *)
(* may return, and that the engine and its caller implement the replica of *)
(* LogReplica.                                                             *)
(***************************************************************************)
EXTENDS EventIndexer, Cursors_proofs

-----------------------------------------------------------------------------
(* The initial state.                                                       *)

\* Streams start at a block number.
LEMMA StartIsNumber == StartBlock \in Nat
  BY IndexerAssumption

LEMMA InitCorrect == Init => TypeOK /\ IndInv
<1>. SUFFICES ASSUME Init  PROVE TypeOK /\ IndInv
  OBVIOUS
<1>1. (CHOOSE b \in Block : TRUE) \in Block
  BY DEF Init, ChainInit
<1>2. NewCursor \in Cursor
  BY IndexerAssumption, CursorAssumption DEF NewCursor, Cursor
<1>3. NoScan \in Scan
  BY <1>1 DEF NoScan, Scan
<1>4. TypeOK
  BY <1>2, <1>3, IndexerAssumption, CursorAssumption
  DEF TypeOK, ChainTypeOK, Init, ChainInit, Undefined
<1>5. Records(kept.cursor, kept.logs)
  BY EndsOfEmpty
  DEF Init, NewCursor, Records, OneBranch, SameBranch, NextAfter, Committed
<1>6. ScanInv
  BY DEF Init, ScanInv
<1>. QED
  BY <1>4, <1>5, <1>6 DEF IndInv, Init, ChainInit

-----------------------------------------------------------------------------
(* One lemma per step.                                                      *)

\* Chain facts every step keeps.
LEMMA ReorganizeCorrect ==
    ASSUME TypeOK, IndInv, Reorganize
    PROVE  TypeOK' /\ IndInv'
<1>. USE DEF Reorganize, syncVars, localVars
<1>1. PICK b \in Block :
          /\ ~ Canonical(b)
          /\ Ancestors[b] \cap orphaned = {}
          /\ head' = b
          /\ orphaned' = orphaned \cup (Ancestors[head] \ Ancestors[b])
  BY DEF MoveHead
<1>2. TypeOK'
  <2>1. Ancestors[head] \subseteq Block
    BY ChainAssumption DEF TypeOK, ChainTypeOK
  <2>. QED
    BY <1>1, <2>1 DEF TypeOK, ChainTypeOK
<1>3. (Ancestors[head] \cap orphaned = {})'
  BY <1>1 DEF IndInv
<1>4. ASSUME NEW x \in EverCanonical
      PROVE  x \in EverCanonical' /\ (Canonical(x)' => Canonical(x))
  BY <1>1, <1>4 DEF EverCanonical, Canonical
<1>5. ScanInv'
  <2>1. ScanInv
    BY DEF IndInv
  <2>. QED
    BY <2>1, <1>4, SMT DEF ScanInv, LogsThrough, Newest
<1>6. Records(kept.cursor, kept.logs)'
  BY DEF IndInv
<1>7. (pc # "idle" => Records(cursor, Merged(kept.logs, rollbackTo, logs)))'
  BY DEF IndInv
<1>. QED
  BY <1>2, <1>3, <1>5, <1>6, <1>7 DEF IndInv

\* A caller that starts works on a copy of its record.
LEMMA StartCorrect ==
    ASSUME TypeOK, IndInv, Start
    PROVE  TypeOK' /\ IndInv'
<1>. USE DEF Start, chainVars
<1>1. TypeOK'
  BY DEF TypeOK, ChainTypeOK
<1>2. Merged(kept.logs, rollbackTo, logs)' = kept.logs
  BY DEF IndInv, Merged
<1>3. ScanInv'
  BY DEF ScanInv
<1>4. Records(kept.cursor, kept.logs)'
  BY DEF IndInv
<1>5. (pc # "idle" => Records(cursor, Merged(kept.logs, rollbackTo, logs)))'
  BY <1>2 DEF IndInv
<1>. QED
  BY <1>1, <1>3, <1>4, <1>5 DEF IndInv

\* A synchronization that returns leaves no locals behind, and its caller's
\* record is whatever the step made it.
LEMMA ReturnCorrect ==
    ASSUME TypeOK, IndInv, Return, UNCHANGED chainVars,
           kept' \in [cursor : Cursor, logs : SUBSET Log],
           Records(kept'.cursor, kept'.logs)
    PROVE  TypeOK' /\ IndInv'
<1>. USE DEF Return, chainVars
<1>1. NewCursor \in Cursor
  BY IndexerAssumption, CursorAssumption DEF NewCursor, Cursor
<1>2. NoScan \in Scan
  BY DEF NoScan, Scan, TypeOK, ChainTypeOK
<1>3. TypeOK'
  BY <1>1, <1>2, IndexerAssumption, CursorAssumption DEF TypeOK, ChainTypeOK, Undefined
<1>4. ScanInv'
  BY DEF ScanInv
<1>5. Records(kept.cursor, kept.logs)'
  OBVIOUS
<1>. QED
  BY <1>3, <1>4, <1>5 DEF IndInv

\* What Merged holds are logs.
LEMMA MergedType ==
    ASSUME TypeOK
    PROVE  Merged(kept.logs, rollbackTo, logs) \in SUBSET Log
  BY DEF TypeOK, Merged, LogsBefore

LEMMA DeliverCorrect ==
    ASSUME TypeOK, IndInv, Deliver
    PROVE  TypeOK' /\ IndInv'
<1>1. Records(cursor, Merged(kept.logs, rollbackTo, logs))
  BY DEF Deliver, IndInv
<1>2. kept' = [cursor |-> cursor, logs |-> Merged(kept.logs, rollbackTo, logs)]
  BY DEF Deliver
<1>3. kept' \in [cursor : Cursor, logs : SUBSET Log]
  BY <1>2, MergedType DEF TypeOK
<1>4. Records(kept'.cursor, kept'.logs)
  BY <1>1, <1>2
<1>. QED
  BY <1>3, <1>4, ReturnCorrect DEF Deliver

LEMMA FailCorrect ==
    ASSUME TypeOK, IndInv, Fail
    PROVE  TypeOK' /\ IndInv'
<1>1. Records(kept'.cursor, kept'.logs)
  BY DEF Fail, IndInv
<1>2. kept' \in [cursor : Cursor, logs : SUBSET Log]
  BY DEF Fail, TypeOK
<1>. QED
  BY <1>1, <1>2, ReturnCorrect DEF Fail

\* Steps that change neither record and leave no range attempt open keep the
\* invariant.
LEMMA BetweenRanges ==
    ASSUME TypeOK, IndInv, pc # "idle", TypeOK',
           UNCHANGED <<chainVars, kept, logs, rollbackTo>>,
           cursor'.checkpoints = cursor.checkpoints,
           cursor'.nextBlock = cursor.nextBlock,
           pc' \in {"reconcile", "range", "result"},
           pc' = "reconcile" => walk' \subseteq cursor.checkpoints
    PROVE  IndInv'
<1>. USE DEF chainVars
<1>1. Records(cursor', Merged(kept.logs, rollbackTo, logs))
  BY DEF IndInv, Records, OneBranch, SameBranch
<1>2. Records(cursor, Merged(kept.logs, rollbackTo, logs))'
  BY <1>1
<1>3. Records(kept.cursor, kept.logs)'
  BY DEF IndInv
<1>4. ScanInv'
  BY DEF ScanInv
<1>. QED
  BY <1>2, <1>3, <1>4 DEF IndInv

LEMMA ReadHeadCorrect ==
    ASSUME TypeOK, IndInv, ReadHead
    PROVE  TypeOK' /\ IndInv'
<1>1. TypeOK'
  <2>1. safeHead' \in Nat \cup {Undefined}
    <3>1. PICK lag \in 0 .. MaxLag :
            safeHead' = IF Height[head] - lag - FinalityDepth >= 0
                        THEN Height[head] - lag - FinalityDepth ELSE Undefined
      BY DEF ReadHead
    <3>2. Height[head] \in Nat
      BY ChainAssumption DEF TypeOK, ChainTypeOK
    <3>. QED
      BY <3>1, <3>2, IndexerAssumption, CursorAssumption DEF Undefined
  <2>. QED
    BY <2>1, IndexerAssumption, CursorAssumption
    DEF ReadHead, Reconcile, TypeOK, ChainTypeOK, chainVars, Cursor
<1>. QED
  BY <1>1, BetweenRanges DEF ReadHead, Reconcile

LEMMA LeaveLoopCorrect ==
    ASSUME TypeOK, IndInv, LeaveLoop
    PROVE  TypeOK' /\ IndInv'
<1>1. TypeOK'
  BY IndexerAssumption, CursorAssumption
  DEF LeaveLoop, Reconcile, TypeOK, ChainTypeOK, chainVars, Cursor
<1>. QED
  BY <1>1, BetweenRanges DEF LeaveLoop, Reconcile

\* reconcileCursor returning with some of the checkpoints, or none.
LEMMA SettleCorrect ==
    ASSUME TypeOK, IndInv, pc = "reconcile",
           NEW cps \in SUBSET cursor.checkpoints, Settle(cps)
    PROVE  TypeOK' /\ IndInv'
<1>. DEFINE next == NextAfter(StartBlock, cps)
            now == Merged(kept.logs, rollbackTo, logs)
            then == Merged(kept.logs, rollbackTo', logs')
<1>1. /\ Records(cursor, now)
      /\ cursor.checkpoints \in SUBSET Block /\ cursor.nextBlock \in Nat
      /\ cursor \in Cursor
  BY DEF IndInv, TypeOK, Cursor
<1>2. /\ OneBranch(StartBlock, cursor) /\ HasEnds(cursor.checkpoints) /\ HasEnds(cps)
  BY <1>1, EndsOfSubset DEF Records
<1>3. next \in Nat
  BY StartIsNumber, <1>1, <1>2, NextAfterType
<1>4. cursor' = [cursor EXCEPT !.checkpoints = cps, !.nextBlock = next]
  BY DEF Settle
<1>5. /\ cursor'.checkpoints = cps /\ cursor'.nextBlock = next
      /\ cursor' \in Cursor
  BY <1>1, <1>3, <1>4 DEF Cursor
<1>6. TypeOK'
  <2>1. logs' \in SUBSET Log /\ rollbackTo' \in Nat \cup {Undefined}
    BY <1>3 DEF Settle, TypeOK, LogsBefore, EarliestRollback, Undefined
  <2>. QED
    BY <1>5, <2>1, IndexerAssumption, CursorAssumption
    DEF Settle, TypeOK, ChainTypeOK, chainVars
<1>7. OneBranch(StartBlock, cursor')
  BY <1>2, <1>5, <1>1 DEF OneBranch, SameBranch
<1>8. /\ Committed(StartBlock, cps) = LogsBefore(Committed(StartBlock, cursor.checkpoints), next)
      /\ next = cursor.nextBlock =>
            Committed(StartBlock, cps) = Committed(StartBlock, cursor.checkpoints)
  BY StartIsNumber, <1>1, <1>2, LogsOfFewerCheckpoints DEF OneBranch
<1>9. /\ then \subseteq Committed(StartBlock, cps)
      /\ ~ DivergentLogs => Committed(StartBlock, cps) \subseteq then
  <2>1. CASE next = cursor.nextBlock
    <3>1. then = now
      BY <2>1 DEF Settle
    <3>. QED
      BY <2>1, <3>1, <1>1, <1>8 DEF Records
  <2>2. CASE next # cursor.nextBlock
    <3>1. then = LogsBefore(now, next)
      <4>1. /\ logs' = LogsBefore(logs, next)
            /\ rollbackTo' = EarliestRollback(rollbackTo, next)
        BY <2>2 DEF Settle
      <4>2. \A l \in Log : Height[BlockOf[l]] \in Nat
        BY ChainAssumption
      <4>3. /\ kept.logs \subseteq Log /\ logs \subseteq Log
            /\ rollbackTo \in Nat \cup {Undefined}
        BY DEF TypeOK
      <4>4. rollbackTo' # Undefined
        BY <1>3, <4>1, <4>3 DEF EarliestRollback, Undefined
      <4>5. CASE rollbackTo = Undefined
        BY <4>1, <4>4, <4>5 DEF Merged, LogsBefore, EarliestRollback
      <4>6. CASE rollbackTo # Undefined
        <5>1. \A l \in kept.logs :
                Height[BlockOf[l]] < rollbackTo' <=>
                  Height[BlockOf[l]] < rollbackTo /\ Height[BlockOf[l]] < next
          BY <1>3, <4>1, <4>2, <4>3, <4>6 DEF EarliestRollback, Undefined
        <5>. QED
          BY <4>1, <4>4, <4>6, <5>1 DEF Merged, LogsBefore
      <4>. QED
        BY <4>5, <4>6
    <3>. QED
      BY <3>1, <1>1, <1>8 DEF Records, LogsBefore
  <2>. QED
    BY <2>1, <2>2
<1>10. Records(cursor', then)
  BY <1>2, <1>5, <1>7, <1>9 DEF Records
<1>11. pc' \in {"range", "result"} /\ UNCHANGED <<chainVars, kept>>
  BY DEF Settle, TypeOK
<1>12. Records(cursor, Merged(kept.logs, rollbackTo, logs))'
  BY <1>10, <1>11
<1>13. Records(kept.cursor, kept.logs)'
  BY <1>11 DEF IndInv
<1>14. ScanInv'
  BY <1>11 DEF ScanInv
<1>. QED
  BY <1>6, <1>11, <1>12, <1>13, <1>14 DEF IndInv, chainVars

LEMMA ReadCheckpointCorrect ==
    ASSUME TypeOK, IndInv, ReadCheckpoint
    PROVE  TypeOK' /\ IndInv'
<1>1. walk \subseteq cursor.checkpoints
  BY DEF ReadCheckpoint, IndInv
<1>2. CASE Canonical(Newest(walk))
  BY <1>1, <1>2, SettleCorrect DEF ReadCheckpoint
<1>3. CASE ~ Canonical(Newest(walk))
  <2>1. TypeOK'
    BY <1>3, IndexerAssumption, CursorAssumption
    DEF ReadCheckpoint, TypeOK, ChainTypeOK, chainVars
  <2>. QED
    BY <1>1, <1>3, <2>1, BetweenRanges DEF ReadCheckpoint
<1>. QED
  BY <1>2, <1>3

LEMMA ExhaustCheckpointsCorrect ==
    ASSUME TypeOK, IndInv, ExhaustCheckpoints
    PROVE  TypeOK' /\ IndInv'
  BY SettleCorrect DEF ExhaustCheckpoints

\* A range starts inside the blocks still to be scanned.
LEMMA SpanIsPositive ==
    ASSUME TypeOK, pc = "range", ~ LoopEnds
    PROVE  Span \in Nat \ {0}
<1>. DEFINE sizes == {cursor.rangeSize, MaxRange,
                      safeHead - cursor.nextBlock + 1}
<1>1. /\ cursor.rangeSize \in Nat \ {0}
      /\ MaxRange \in Nat \ {0}
      /\ safeHead - cursor.nextBlock + 1 \in Nat \ {0}
  BY IndexerAssumption, CursorAssumption DEF TypeOK, Cursor, LoopEnds, Undefined
<1>2. \E n \in sizes : \A m \in sizes : n <= m
  BY <1>1
<1>. QED
  BY <1>1, <1>2 DEF Span

LEMMA ReadBeforeCorrect ==
    ASSUME TypeOK, IndInv, ReadBefore
    PROVE  TypeOK' /\ IndInv'
<1>. DEFINE to == cursor.nextBlock + Span - 1
<1>1. PICK b \in Block :
          /\ BlockAt(to, b)
          /\ scan' = [NoScan EXCEPT !.to = to, !.before = b]
  BY DEF ReadBefore
<1>2. to \in Nat /\ cursor.nextBlock <= to
  BY SpanIsPositive DEF ReadBefore, TypeOK, Cursor
<1>3. scan' = [to |-> to, before |-> b, found |-> {}, unread |-> {},
               seen |-> {}, anchored |-> FALSE]
  BY <1>1 DEF NoScan
<1>. HIDE DEF to
<1>4. TypeOK'
  <2>1. scan' \in Scan
    <3>1. b \in Block /\ to \in Nat
      BY <1>1, <1>2
    <3>. QED
      BY <1>3, <3>1 DEF Scan
  <2>2. attempts' \in 0 .. MaxRanges
    BY IndexerAssumption, CursorAssumption DEF ReadBefore, LoopEnds, TypeOK
  <2>. QED
    BY <2>1, <2>2 DEF ReadBefore, TypeOK, ChainTypeOK, chainVars
<1>5. ScanInv'
  <2>1. /\ scan'.before = b /\ scan'.to = to /\ scan'.seen = {}
        /\ pc' = "logs" /\ cursor' = cursor
    BY <1>3 DEF ReadBefore
  <2>2. (scan.before \in EverCanonical)'
    BY <1>1, <2>1 DEF ReadBefore, BlockAt, Canonical, EverCanonical, chainVars
  <2>. QED
    BY <1>1, <1>2, <2>1, <2>2 DEF ScanInv, BlockAt
<1>6. Records(cursor, Merged(kept.logs, rollbackTo, logs))'
  BY DEF ReadBefore, IndInv
<1>. QED
  BY <1>4, <1>5, <1>6 DEF IndInv, ReadBefore, chainVars

LEMMA ReadLogsCorrect ==
    ASSUME TypeOK, IndInv, ReadLogs
    PROVE  TypeOK' /\ IndInv'
<1>1. PICK source \in LogSources :
        LET found == LogsThrough(source, cursor.nextBlock, scan.to)
            blocks == {BlockOf[l] : l \in found}
        IN  IF \/ ScanSpan > ProviderRange
               \/ Cardinality(found) > MaxLogs
               \/ Cardinality(blocks) > MaxLogBlocks
            THEN Shrink
            ELSE /\ scan' = [scan EXCEPT !.found = found,
                                         !.unread = {Height[b] : b \in blocks}
                                                    \ {scan.to}]
                 /\ pc' = "blocks"
                 /\ UNCHANGED cursor
  BY DEF ReadLogs
<1>. DEFINE found == LogsThrough(source, cursor.nextBlock, scan.to)
            blocks == {BlockOf[l] : l \in found}
<1>2. UNCHANGED <<chainVars, kept, logs, rollbackTo, attempts, safeHead,
                  walk, checks, resume>>
  BY DEF ReadLogs
<1>3. scan \in Scan /\ cursor \in Cursor /\ pc = "logs"
  BY DEF TypeOK, ReadLogs
<1>4. ScanInv
  BY DEF IndInv
<1>5. CASE Shrink
  <2>1. NoScan \in Scan
    BY DEF NoScan, Scan, TypeOK, ChainTypeOK
  <2>2. ScanSpan \div 2 \in Nat \ {0}
    BY <1>3, <1>5 DEF Shrink, ScanSpan, Scan, Cursor
  <2>3. cursor' = [cursor EXCEPT !.rangeSize = ScanSpan \div 2]
    BY <1>5 DEF Shrink
  <2>4. TypeOK'
    BY <1>2, <1>5, <2>1, <2>2, <2>3
    DEF Shrink, TypeOK, ChainTypeOK, chainVars, Cursor
  <2>. QED
    BY <1>2, <1>3, <1>5, <2>3, <2>4, BetweenRanges DEF Shrink, Cursor
<1>6. CASE /\ scan' = [scan EXCEPT !.found = found,
                                   !.unread = {Height[b] : b \in blocks}
                                              \ {scan.to}]
           /\ pc' = "blocks"
           /\ UNCHANGED cursor
  <2>1. /\ \A l \in Log : BlockOf[l] \in Block /\ Height[BlockOf[l]] \in Nat
        /\ \A l \in found : l \in Log
                          /\ Height[BlockOf[l]] \in cursor.nextBlock .. scan.to
    BY ChainAssumption DEF LogsThrough
  <2>2. /\ scan'.to = scan.to /\ scan'.before = scan.before
        /\ scan'.found = found /\ scan'.seen = scan.seen
        /\ scan'.unread = {Height[b] : b \in blocks} \ {scan.to}
        /\ scan'.anchored = scan.anchored
    BY <1>3, <1>6 DEF Scan
  <2>3. scan' \in Scan
    <3>1. found \subseteq Log /\ {Height[b] : b \in blocks} \subseteq Nat
      BY <2>1
    <3>. HIDE DEF found, blocks
    <3>. QED
      BY <1>3, <1>6, <3>1 DEF Scan
  <2>4. TypeOK'
    BY <1>2, <1>6, <2>3 DEF TypeOK, ChainTypeOK, chainVars
  <2>5. \A n \in scan'.unread : n <= scan.to
    <3>1. \A b \in blocks : Height[b] <= scan.to
      BY <2>1, <1>3 DEF Scan, Cursor
    <3>. QED
      BY <2>2, <3>1
  <2>6. scan.seen = {}
    BY <1>3 DEF IndInv, ScanInv
  <2>7. ASSUME ~ DivergentLogs, Canonical(scan.before)
        PROVE  found = LogsThrough(scan.before, cursor.nextBlock, scan.to)
    <3>1. source = head
      BY <2>7 DEF LogSources
    <3>2. scan.before \in Ancestors[head] /\ Height[scan.before] = scan.to
      BY <2>7, <1>3, <1>4 DEF Canonical, ScanInv
    <3>3. ASSUME NEW l \in Log, Height[BlockOf[l]] \in cursor.nextBlock .. scan.to
          PROVE  BlockOf[l] \in Ancestors[head]
                    <=> BlockOf[l] \in Ancestors[scan.before]
      <4>1. Height[BlockOf[l]] <= Height[scan.before]
        BY <3>2, <3>3, <1>3 DEF Scan, Cursor
      <4>. QED
        BY <3>2, <4>1, <2>1, ChainAssumption DEF TypeOK, ChainTypeOK
    <3>. QED
      BY <3>1, <3>3 DEF LogsThrough
  <2>8. ScanInv'
    <3>1. /\ scan.before \in EverCanonical /\ Height[scan.before] = scan.to
          /\ cursor.nextBlock <= scan.to
      BY <1>3, <1>4 DEF ScanInv
    <3>2. EverCanonical' = EverCanonical /\ head' = head
      BY <1>2 DEF EverCanonical, chainVars
    <3>3. cursor' = cursor /\ pc' = "blocks"
      BY <1>6
    <3>. HIDE DEF found, blocks
    <3>4. /\ scan'.before \in EverCanonical' /\ Height[scan'.before] = scan'.to
          /\ cursor'.nextBlock <= scan'.to
      BY <2>2, <3>1, <3>2, <3>3
    <3>5. /\ \A l \in scan'.found :
                Height[BlockOf[l]] \in cursor'.nextBlock .. scan'.to
          /\ \A n \in scan'.unread : n <= scan'.to
          /\ scan'.seen = {}
      BY <2>1, <2>2, <2>5, <2>6, <3>3
    <3>6. ~ DivergentLogs /\ Canonical(scan.before)' =>
             scan'.found =
                 LogsThrough(scan'.before, cursor'.nextBlock, scan'.to)
      BY <2>2, <2>7, <3>2, <3>3 DEF Canonical
    <3>. QED
      BY <3>3, <3>4, <3>5, <3>6 DEF ScanInv
  <2>9. Records(cursor, Merged(kept.logs, rollbackTo, logs))'
    BY <1>2, <1>3, <1>6 DEF IndInv
  <2>. QED
    BY <1>2, <1>3, <1>6, <2>4, <2>8, <2>9 DEF IndInv, chainVars
<1>. QED
  BY <1>1, <1>5, <1>6

LEMMA ReadLogBlockCorrect ==
    ASSUME TypeOK, IndInv, ReadLogBlock
    PROVE  TypeOK' /\ IndInv'
<1>1. PICK n \in scan.unread, b \in Block :
          /\ BlockAt(n, b)
          /\ scan' = [scan EXCEPT !.unread = @ \ {n}, !.seen = @ \cup {b}]
  BY DEF ReadLogBlock
<1>2. /\ pc = "blocks"
      /\ UNCHANGED <<chainVars, kept, pc, cursor, logs, rollbackTo, attempts,
                     safeHead, walk, checks, resume>>
  BY DEF ReadLogBlock
<1>3. scan \in Scan /\ ScanInv /\ b \in Block /\ Height[b] = n /\ n \in Nat
  BY <1>1, ChainAssumption DEF TypeOK, IndInv, BlockAt
<1>4. n \in scan.unread
  BY <1>1
<1>5. /\ scan'.to = scan.to /\ scan'.before = scan.before
      /\ scan'.found = scan.found /\ scan'.anchored = scan.anchored
      /\ scan'.unread = scan.unread \ {n} /\ scan'.seen = scan.seen \cup {b}
      /\ scan' \in Scan
  BY <1>1, <1>3 DEF Scan
<1>6. TypeOK'
  BY <1>2, <1>5 DEF TypeOK, ChainTypeOK, chainVars
<1>7. Canonical(scan.before) => b \in Ancestors[scan.before]
  <2>1. b \in Ancestors[head]
    BY <1>1 DEF BlockAt, Canonical
  <2>2. n <= scan.to /\ Height[scan.before] = scan.to
    BY <1>2, <1>3, <1>4 DEF ScanInv
  <2>. QED
    BY <1>3, <2>1, <2>2, ChainAssumption DEF Canonical, TypeOK, ChainTypeOK
<1>8. ScanInv'
  BY <1>2, <1>3, <1>5, <1>7
  DEF ScanInv, chainVars, EverCanonical, Canonical
<1>9. Records(cursor, Merged(kept.logs, rollbackTo, logs))'
  BY <1>2 DEF IndInv
<1>. QED
  BY <1>2, <1>6, <1>8, <1>9 DEF IndInv, chainVars

LEMMA ReadPreviousCorrect ==
    ASSUME TypeOK, IndInv, ReadPrevious
    PROVE  TypeOK' /\ IndInv'
<1>. DEFINE last == Newest(cursor.checkpoints)
            present == cursor.checkpoints # {}
<1>1. /\ pc = "blocks" /\ pc' = "after"
      /\ UNCHANGED <<chainVars, kept, cursor, logs, rollbackTo, attempts,
                     safeHead, walk, checks, resume>>
      /\ scan' = [scan EXCEPT !.anchored = present => Canonical(last)]
  BY DEF ReadPrevious
<1>2. scan \in Scan /\ ScanInv /\ cursor \in Cursor
  BY DEF TypeOK, IndInv
<1>3. /\ scan'.to = scan.to /\ scan'.before = scan.before
      /\ scan'.found = scan.found /\ scan'.unread = scan.unread
      /\ scan'.seen = scan.seen
      /\ scan'.anchored = (present => Canonical(last))
      /\ scan' \in Scan
  BY <1>1, <1>2 DEF Scan, Canonical
<1>4. TypeOK'
  BY <1>1, <1>3 DEF TypeOK, ChainTypeOK, chainVars
<1>5. present /\ Canonical(last) /\ Canonical(scan.before) =>
          last \in Ancestors[scan.before]
  <2>1. SUFFICES ASSUME present, Canonical(last), Canonical(scan.before)
                 PROVE  last \in Ancestors[scan.before]
    OBVIOUS
  <2>2. Records(cursor, Merged(kept.logs, rollbackTo, logs))
    BY <1>1 DEF IndInv
  <2>3. last \in cursor.checkpoints /\ last \in Block
    BY <1>2, <2>1, <2>2, NewestIsLast DEF Records, Cursor
  <2>4. cursor.nextBlock = Height[last] + 1
    BY <2>1, <2>2 DEF Records, OneBranch, SameBranch, NextAfter
  <2>5. cursor.nextBlock <= scan.to /\ Height[scan.before] = scan.to
    BY <1>1, <1>2 DEF ScanInv
  <2>6. Height[last] <= Height[scan.before]
    BY <1>2, <2>3, <2>4, <2>5, ChainAssumption DEF Scan, Cursor
  <2>. QED
    BY <2>1, <2>6, ChainAssumption DEF Canonical, TypeOK, ChainTypeOK
<1>6. ScanInv'
  <2>1. (Newest(cursor.checkpoints) = last)' /\ cursor' = cursor
        /\ (Canonical(scan.before) <=> Canonical(scan.before)')
    BY <1>1, <1>3 DEF Canonical, chainVars
  <2>. HIDE DEF last
  <2>2. Newest(cursor'.checkpoints) = last
    BY <1>1 DEF last
  <2>. QED
    BY <1>1, <1>2, <1>3, <1>5, <2>1, <2>2
    DEF ScanInv, chainVars, EverCanonical, Canonical
<1>7. Records(cursor, Merged(kept.logs, rollbackTo, logs))'
  BY <1>1 DEF IndInv
<1>. QED
  BY <1>1, <1>4, <1>6, <1>7 DEF IndInv, chainVars

\* The next range size is one the cursor may hold.
LEMMA GrowRangeType ==
    ASSUME NEW size \in Nat \ {0}, NEW count
    PROVE  GrowRange(size, count) \in Nat \ {0}
<1>1. size \div 2 \in Nat /\ MaxRange \in Nat \ {0}
  BY IndexerAssumption, CursorAssumption
<1>. QED
  BY <1>1 DEF GrowRange

\* An accepted range: its end was canonical at both readings, hence at every
\* moment in between, and everything read meanwhile is of its ancestry.
LEMMA AcceptRangeCorrect ==
    ASSUME TypeOK, IndInv, pc = "after", scan.anchored,
           NEW b \in Block, BlockAt(scan.to, b), b = scan.before,
           \A l \in scan.found : BlockOf[l] \in scan.seen \cup {b},
           UNCHANGED <<chainVars, kept, rollbackTo>>,
           logs' = logs \cup scan.found, pc' = "range",
           cursor'.checkpoints = WithCheckpoint(cursor.checkpoints, b),
           cursor'.nextBlock = scan.to + 1
    PROVE  IndInv'
<1>. DEFINE old == cursor.checkpoints
            now == Merged(kept.logs, rollbackTo, logs)
            last == Newest(old)
<1>h. /\ \A x \in Block : Height[x] \in Nat
      /\ \A l \in Log : BlockOf[l] \in Block
      /\ StartBlock \in Nat
  BY ChainAssumption, IndexerAssumption, CursorAssumption
<1>1. /\ scan \in Scan /\ ScanInv /\ cursor \in Cursor /\ old \in SUBSET Block
      /\ scan.to \in Nat /\ scan.found \in SUBSET Log /\ cursor.nextBlock \in Nat
      /\ scan.seen \in SUBSET Block
  BY DEF TypeOK, IndInv, Scan, Cursor
<1>2. Records(cursor, now)
  BY DEF IndInv
<1>3. Canonical(scan.before)
  BY DEF BlockAt
<1>4. /\ Height[b] = scan.to /\ cursor.nextBlock <= scan.to
      /\ old # {} => last \in Ancestors[b]
      /\ scan.seen \subseteq Ancestors[b]
      /\ \A l \in scan.found :
            Height[BlockOf[l]] \in cursor.nextBlock .. scan.to
      /\ ~ DivergentLogs =>
            scan.found = LogsThrough(b, cursor.nextBlock, scan.to)
  BY <1>1, <1>3 DEF ScanInv
<1>5. old # {} => /\ last \in old /\ last \in Block
                  /\ \A d \in old : Height[d] <= Height[last]
                  /\ cursor.nextBlock = Height[last] + 1
                  /\ Height[last] >= StartBlock
                  /\ old \subseteq Ancestors[last]
  <2>1. SUFFICES ASSUME old # {}
                 PROVE  /\ last \in old /\ last \in Block
                        /\ \A d \in old : Height[d] <= Height[last]
                        /\ cursor.nextBlock = Height[last] + 1
                        /\ Height[last] >= StartBlock
                        /\ old \subseteq Ancestors[last]
    OBVIOUS
  <2>2. last \in old /\ \A d \in old : Height[d] <= Height[last]
    BY <1>1, <1>2, <2>1, NewestIsLast DEF Records
  <2>. QED
    BY <1>1, <1>2, <2>1, <2>2 DEF Records, OneBranch, SameBranch, NextAfter
<1>6. old = {} => cursor.nextBlock = StartBlock
  BY <1>2 DEF Records, OneBranch, SameBranch, NextAfter
<1>. HIDE DEF last
<1>7. /\ \A d \in old : Height[d] < Height[b]
      /\ \A d \in old : d \in Ancestors[b]
      /\ Height[b] >= StartBlock
  <2>1. CASE old = {}
    BY <1>1, <1>4, <1>6, <1>h, <2>1
  <2>2. CASE old # {}
    <3>1. Ancestors[last] \subseteq Ancestors[b]
      BY <1>4, <1>5, <2>2, ChainAssumption
    <3>. QED
      BY <1>1, <1>4, <1>5, <1>h, <2>2, <3>1
  <2>. QED
    BY <2>1, <2>2
<1>8. /\ cursor'.checkpoints \subseteq old \cup {b}
      /\ b \in cursor'.checkpoints
      /\ HasEnds(cursor'.checkpoints)
      /\ Newest(cursor'.checkpoints) = b
  BY <1>1, <1>2, <1>7, AcceptedCheckpointStays DEF Records
<1>9. /\ Lineage(StartBlock, cursor'.checkpoints)
      /\ Committed(StartBlock, cursor'.checkpoints)
            = Committed(StartBlock, old) \cup LogsThrough(b, cursor.nextBlock, scan.to)
  <2>1. Lineage(StartBlock, old) /\ NextAfter(StartBlock, old) = cursor.nextBlock
    BY <1>1, <1>2 DEF Lineage, Records, OneBranch
  <2>. QED
    BY StartIsNumber, <2>1, <1>4, <1>7, RangeExtends
<1>10. OneBranch(StartBlock, cursor')
  BY <1>4, <1>8, <1>9 DEF OneBranch, Lineage, NextAfter
<1>11. scan.found \subseteq LogsThrough(b, cursor.nextBlock, scan.to)
  BY <1>1, <1>4, ChainAssumption DEF LogsThrough
<1>13. Merged(kept.logs, rollbackTo, logs)' = now \cup scan.found
  BY DEF Merged, LogsBefore
<1>14. Records(cursor', now \cup scan.found)
  BY <1>2, <1>4, <1>8, <1>9, <1>10, <1>11 DEF Records
<1>15. Records(cursor, Merged(kept.logs, rollbackTo, logs))'
  BY <1>13, <1>14
<1>16. ScanInv'
  BY DEF ScanInv
<1>. QED
  BY <1>15, <1>16 DEF IndInv, chainVars

LEMMA ReadAfterCorrect ==
    ASSUME TypeOK, IndInv, ReadAfter
    PROVE  TypeOK' /\ IndInv'
<1>1. PICK b \in Block :
        /\ BlockAt(scan.to, b)
        /\ IF b # scan.before \/ ~ scan.anchored
           THEN /\ Reconcile("range")
                /\ UNCHANGED <<cursor, logs>>
           ELSE /\ \A l \in scan.found : BlockOf[l] \in scan.seen \cup {b}
                /\ logs' = logs \cup scan.found
                /\ cursor' =
                      [checkpoints |-> WithCheckpoint(cursor.checkpoints, b),
                       nextBlock |-> scan.to + 1,
                       rangeSize |-> GrowRange(cursor.rangeSize,
                                               Cardinality(scan.found))]
                /\ pc' = "range"
                /\ UNCHANGED <<walk, checks, resume>>
  BY DEF ReadAfter, LogBlocksVerified
<1>2. /\ pc = "after" /\ scan' = NoScan
      /\ UNCHANGED <<chainVars, kept, rollbackTo, attempts, safeHead>>
  BY DEF ReadAfter
<1>3. /\ NoScan \in Scan /\ scan \in Scan /\ cursor \in Cursor
  BY DEF NoScan, Scan, TypeOK, ChainTypeOK
<1>4. CASE b # scan.before \/ ~ scan.anchored
  <2>1. TypeOK'
    BY <1>1, <1>2, <1>3, <1>4, IndexerAssumption, CursorAssumption
    DEF Reconcile, TypeOK, ChainTypeOK, chainVars, Cursor
  <2>. QED
    BY <1>1, <1>2, <1>4, <2>1, BetweenRanges DEF Reconcile
<1>5. CASE b = scan.before /\ scan.anchored
  <2>1. cursor' \in Cursor
    <3>1. WithCheckpoint(cursor.checkpoints, b) \in SUBSET Block
      BY <1>3 DEF WithCheckpoint, Cursor
    <3>2. GrowRange(cursor.rangeSize, Cardinality(scan.found)) \in Nat \ {0}
      BY <1>3, GrowRangeType DEF Cursor
    <3>3. scan.to + 1 \in Nat
      BY <1>3 DEF Scan
    <3>. QED
      BY <1>1, <1>5, <3>1, <3>2, <3>3 DEF Cursor
  <2>2. TypeOK'
    BY <1>1, <1>2, <1>3, <1>5, <2>1 DEF TypeOK, ChainTypeOK, chainVars, Scan
  <2>. QED
    BY <1>1, <1>2, <1>5, <2>2, AcceptRangeCorrect
<1>. QED
  BY <1>4, <1>5

-----------------------------------------------------------------------------
(* The theorems.                                                            *)

\* No step changes anything but the variables of Next.
LEMMA StutterCorrect ==
    ASSUME TypeOK, IndInv, UNCHANGED vars
    PROVE  TypeOK' /\ IndInv'
<1>. USE DEF vars, syncVars, localVars, chainVars
<1>1. TypeOK'
  BY DEF TypeOK, ChainTypeOK
<1>2. ScanInv'
  BY DEF IndInv, ScanInv, EverCanonical, Canonical
<1>. QED
  BY <1>1, <1>2 DEF IndInv

LEMMA StepCorrect == TypeOK /\ IndInv /\ [Next]_vars => TypeOK' /\ IndInv'
<1>. SUFFICES ASSUME TypeOK, IndInv, [Next]_vars
              PROVE  TypeOK' /\ IndInv'
  OBVIOUS
<1>1. CASE Start                BY <1>1, StartCorrect
<1>2. CASE ReadHead             BY <1>2, ReadHeadCorrect
<1>3. CASE ReadCheckpoint       BY <1>3, ReadCheckpointCorrect
<1>4. CASE ExhaustCheckpoints   BY <1>4, ExhaustCheckpointsCorrect
<1>5. CASE LeaveLoop            BY <1>5, LeaveLoopCorrect
<1>6. CASE ReadBefore           BY <1>6, ReadBeforeCorrect
<1>7. CASE ReadLogs             BY <1>7, ReadLogsCorrect
<1>8. CASE ReadLogBlock         BY <1>8, ReadLogBlockCorrect
<1>9. CASE ReadPrevious         BY <1>9, ReadPreviousCorrect
<1>10. CASE ReadAfter           BY <1>10, ReadAfterCorrect
<1>11. CASE Deliver             BY <1>11, DeliverCorrect
<1>12. CASE Fail                BY <1>12, FailCorrect
<1>13. CASE Reorganize          BY <1>13, ReorganizeCorrect
<1>14. CASE UNCHANGED vars      BY <1>14, StutterCorrect
<1>. QED
  BY <1>1, <1>2, <1>3, <1>4, <1>5, <1>6, <1>7, <1>8, <1>9, <1>10, <1>11,
     <1>12, <1>13, <1>14 DEF Next, Advance

\* The inductive invariant holds of every synchronization: what the caller
\* holds, and what it would hold if the running one ended now, are the logs of
\* one branch.
THEOREM Consistent == Spec => [](TypeOK /\ IndInv)
<1>1. Init => TypeOK /\ IndInv
  BY InitCorrect
<1>2. TypeOK /\ IndInv /\ [Next]_vars => (TypeOK /\ IndInv)'
  BY StepCorrect
<1>. QED
  BY <1>1, <1>2, PTL DEF Spec

\* Every variable of event-indexer.ts's engine keeps its type.
THEOREM TypeCorrect == Spec => []TypeOK
  BY Consistent, PTL

\* The caller never holds a log that is not of the branch its newest
\* checkpoint is on, even if eth_getLogs answered from another branch.
THEOREM NoForeignLog == Spec => []KeptLogsBelong
<1>1. IndInv => KeptLogsBelong
  BY DEF IndInv, Records, KeptLogsBelong
<1>. QED
  BY <1>1, Consistent, PTL

\* The caller misses no log of that branch if eth_getLogs answers from the
\* branch that is canonical when it is asked.
THEOREM NoMissingLog == Spec => []KeptLogsComplete
<1>1. IndInv => KeptLogsComplete
  BY DEF IndInv, Records, KeptLogsComplete
<1>. QED
  BY <1>1, Consistent, PTL
-----------------------------------------------------------------------------
(* The strengthening: how far a running synchronization is from one of the  *)
(* results it may end in.                                                   *)

\* The checkpoints of the caller's record.
Held == kept.cursor.checkpoints

\* Nothing is accepted yet: the cursor may have gone back.
Pending(cps, rollback, batch) ==
    /\ cps \in Retained(Held)
    /\ rollback \in Rollbacks(StartBlock, cps, Held)
    /\ batch = {}

Draft == [checkpoints |-> cursor.checkpoints, rollbackTo |-> rollbackTo,
          logs |-> logs]

\* The loop has spent its one attempt.
LoopSpent ==
    \/ pc = "range" /\ attempts = MaxRanges
    \/ pc = "reconcile" /\ resume = "result"
    \/ pc = "result"

\* reconcileCursor has popped nothing, or down to an abandoned checkpoint, and
\* a second read went to a second abandoned one.
WalkInv ==
    \/ walk = cursor.checkpoints /\ checks = 0
    \/ /\ checks > 0
       /\ \E d \in cursor.checkpoints \cap orphaned :
             walk = {c \in cursor.checkpoints : Height[c] < Height[d]}
       /\ checks > 1 => \E d, e \in cursor.checkpoints \cap orphaned :
                           Height[d] < Height[e]

ResultInv ==
    /\ Held \subseteq EverCanonical
    /\ pc \in {"logs", "blocks", "after"} => attempts = MaxRanges
    /\ pc # "idle" =>
          \/ Pending(cursor.checkpoints, rollbackTo, logs)
          \/ LoopSpent /\ Draft \in RangeResults(StartBlock, Held)
          \/ pc = "result" /\ Draft \in NoRangeResults(StartBlock, Held)
    /\ pc = "reconcile" => WalkInv

\* The block the caller's record stands for is abandoned, or among the
\* checkpoints still, below at most one new one.
TipInv ==
    pc # "idle" /\ Held # {} /\ Newest(Held) \notin orphaned =>
        /\ Newest(Held) \in cursor.checkpoints
        /\ \A c, d \in cursor.checkpoints :
              Height[c] > Height[Newest(Held)] /\ Height[d] > Height[Newest(Held)] => c = d

\* The caller asks for one range, and logs come from the canonical branch.
OneRange == MaxRanges = 1 /\ ~ DivergentLogs

-----------------------------------------------------------------------------
(* One lemma per kind of step.                                              *)

\* What the invariant of EventIndexer says of checkpoints.
LEMMA Lineages ==
    ASSUME TypeOK, IndInv
    PROVE  /\ Lineage(StartBlock, Held) /\ kept.cursor.nextBlock = NextAfter(StartBlock, Held)
           /\ pc # "idle" => /\ Lineage(StartBlock, cursor.checkpoints)
                             /\ cursor.nextBlock = NextAfter(StartBlock, cursor.checkpoints)
  BY DEF TypeOK, IndInv, Records, OneBranch, Lineage, Held, Cursor

\* Every checkpoint of the working cursor has been canonical.
LEMMA CheckpointsWereCanonical ==
    ASSUME ResultInv, pc # "idle"
    PROVE  cursor.checkpoints \subseteq EverCanonical
<1>1. CASE Pending(cursor.checkpoints, rollbackTo, logs)
  BY <1>1, RetainedIsSubset DEF Pending, ResultInv
<1>2. CASE Draft \in RangeResults(StartBlock, Held)
  <2>1. PICK cps \in Retained(Held), b \in EverCanonical :
           cursor.checkpoints = WithCheckpoint(cps, b)
    BY StartIsNumber, <1>2, RangeResultIs DEF Draft
  <2>2. cursor.checkpoints \subseteq cps \cup {b} /\ cps \subseteq Held
    BY <2>1, RetainedIsSubset DEF WithCheckpoint
  <2>. QED
    BY <2>2 DEF ResultInv
<1>3. CASE Draft \in NoRangeResults(StartBlock, Held)
  <2>1. PICK cps \in SUBSET Held : \E r \in Rollbacks(StartBlock, cps, Held) :
           Draft = [checkpoints |-> cps, rollbackTo |-> r, logs |-> {}]
    BY <1>3 DEF NoRangeResults
  <2>2. cursor.checkpoints \subseteq Held
    BY <2>1 DEF Draft
  <2>. QED
    BY <2>2 DEF ResultInv
<1>. QED
  BY <1>1, <1>2, <1>3 DEF ResultInv

\* Steps that change neither record, nor go on after the loop has ended.
LEMMA NothingDecided ==
    ASSUME ResultInv, pc \notin {"idle", "result"}, pc' # "idle",
           UNCHANGED <<chainVars, kept, logs, rollbackTo>>,
           cursor'.checkpoints = cursor.checkpoints,
           pc' \in {"logs", "blocks", "after"} => attempts' = MaxRanges,
           pc' = "reconcile" => WalkInv',
           LoopSpent => LoopSpent'
    PROVE  ResultInv' /\ (TipInv => TipInv')
<1>1. /\ Held' = Held /\ Draft' = Draft /\ EverCanonical' = EverCanonical
      /\ orphaned' = orphaned
  BY DEF Held, Draft, EverCanonical, chainVars
<1>2. /\ RangeResults(StartBlock, Held)' = RangeResults(StartBlock, Held)
      /\ Retained(Held)' = Retained(Held)
  BY <1>1 DEF RangeResults, Retained
<1>3. Pending(cursor.checkpoints, rollbackTo, logs) =>
          Pending(cursor.checkpoints, rollbackTo, logs)'
  BY <1>1, <1>2 DEF Pending
<1>4. ResultInv'
  BY <1>1, <1>2, <1>3 DEF ResultInv
<1>5. TipInv => TipInv'
  BY <1>1 DEF TipInv
<1>. QED
  BY <1>4, <1>5

LEMMA StartKeepsResult ==
    ASSUME TypeOK, IndInv, ResultInv, Start
    PROVE  ResultInv' /\ TipInv'
<1>1. /\ cursor' = kept.cursor /\ logs' = {} /\ rollbackTo' = Undefined
      /\ UNCHANGED <<head, orphaned, kept>> /\ pc' = "head"
  BY DEF Start, IndInv, chainVars
<1>2. Held' = Held /\ cursor'.checkpoints = Held /\ EverCanonical' = EverCanonical
  BY <1>1 DEF Held, EverCanonical
<1>3. Held \in Retained(Held)' /\ Undefined \in Rollbacks(StartBlock, Held, Held)
  BY <1>2 DEF Retained, Rollbacks
<1>4. Pending(cursor.checkpoints, rollbackTo, logs)'
  BY <1>1, <1>2, <1>3 DEF Pending, Retained
<1>5. ResultInv'
  BY <1>1, <1>2, <1>4 DEF ResultInv
<1>6. TipInv'
  <2>1. SUFFICES ASSUME Held # {}
                 PROVE  /\ Newest(Held) \in Held
                        /\ \A c \in Held : ~ (Height[c] > Height[Newest(Held)])
    BY <1>1, <1>2 DEF TipInv
  <2>2. /\ Newest(Held) \in Held
        /\ \A c \in Held : Height[c] <= Height[Newest(Held)]
    BY <2>1, Lineages, NewestIsLast DEF Lineage
  <2>. QED
    BY <2>2, Lineages, ChainAssumption DEF Lineage
<1>. QED
  BY <1>5, <1>6

LEMMA ReturnKeepsResult ==
    ASSUME ResultInv, Return, UNCHANGED chainVars,
           kept'.cursor.checkpoints \subseteq EverCanonical
    PROVE  ResultInv' /\ TipInv'
  BY DEF Return, ResultInv, TipInv, Held, EverCanonical, chainVars

LEMMA FailKeepsResult ==
    ASSUME ResultInv, Fail
    PROVE  ResultInv' /\ TipInv'
  BY ReturnKeepsResult DEF Fail, ResultInv, Held

LEMMA DeliverKeepsResult ==
    ASSUME ResultInv, Deliver
    PROVE  ResultInv' /\ TipInv'
<1>1. kept'.cursor.checkpoints \subseteq EverCanonical
  BY CheckpointsWereCanonical DEF Deliver
<1>. QED
  BY <1>1, ReturnKeepsResult DEF Deliver

LEMMA ReorganizeKeepsResult ==
    ASSUME ResultInv, Reorganize
    PROVE  ResultInv' /\ (TipInv => TipInv')
<1>1. /\ MoveHead
      /\ UNCHANGED <<kept, pc, cursor, logs, rollbackTo, attempts, walk, checks, resume>>
  BY DEF Reorganize, syncVars, localVars
<1>2. Held' = Held /\ Draft' = Draft /\ (LoopSpent <=> LoopSpent')
  BY <1>1 DEF Held, Draft, LoopSpent
<1>3. /\ EverCanonical \subseteq EverCanonical' /\ orphaned \subseteq orphaned'
      /\ \A k : Retained(k) \subseteq Retained(k)'
      /\ \A k : RangeResults(StartBlock, k) \subseteq RangeResults(StartBlock, k)'
      /\ \A k : NoRangeResults(StartBlock, k) \subseteq NoRangeResults(StartBlock, k)'
  BY StartIsNumber, <1>1, ResultsRemain
<1>4. PICK k : k = Held
  OBVIOUS
<1>5. Pending(cursor.checkpoints, rollbackTo, logs) =>
          Pending(cursor.checkpoints, rollbackTo, logs)'
  <2>1. cursor.checkpoints \in Retained(k) => cursor.checkpoints \in Retained(k)'
    BY <1>3
  <2>2. Retained(k)' = Retained(Held)'
    BY <1>2, <1>4 DEF Retained
  <2>. QED
    BY <1>1, <1>2, <1>4, <2>1, <2>2 DEF Pending
<1>6. Draft \in RangeResults(StartBlock, Held) => Draft' \in RangeResults(StartBlock, Held)'
  <2>1. Draft \in RangeResults(StartBlock, k) => Draft \in RangeResults(StartBlock, k)'
    BY <1>3
  <2>2. RangeResults(StartBlock, k)' = RangeResults(StartBlock, Held)' /\ RangeResults(StartBlock, k) = RangeResults(StartBlock, Held)
    BY <1>2, <1>4 DEF RangeResults, Retained
  <2>. QED
    BY <1>2, <2>1, <2>2
<1>7. Draft \in NoRangeResults(StartBlock, Held) => Draft' \in NoRangeResults(StartBlock, Held)'
  <2>1. Draft \in NoRangeResults(StartBlock, k) => Draft \in NoRangeResults(StartBlock, k)'
    BY <1>3
  <2>2. NoRangeResults(StartBlock, k)' = NoRangeResults(StartBlock, Held)' /\ NoRangeResults(StartBlock, k) = NoRangeResults(StartBlock, Held)
    BY <1>2, <1>4 DEF NoRangeResults, RangeResults, Retained
  <2>. QED
    BY <1>2, <2>1, <2>2
<1>8. WalkInv => WalkInv'
  BY <1>1, <1>3 DEF WalkInv
<1>9. ResultInv'
  BY <1>1, <1>2, <1>3, <1>5, <1>6, <1>7, <1>8 DEF ResultInv
<1>10. TipInv => TipInv'
  BY <1>1, <1>2, <1>3 DEF TipInv
<1>. QED
  BY <1>9, <1>10

\* reconcileCursor pops one checkpoint.
LEMMA PopKeepsWalk ==
    ASSUME TypeOK, IndInv, ResultInv, pc = "reconcile", walk # {},
           ~ Canonical(Newest(walk)), walk' = walk \ {Newest(walk)},
           checks' = checks + 1, UNCHANGED <<chainVars, cursor>>
    PROVE  WalkInv'
<1>. DEFINE cps == cursor.checkpoints
            last == Newest(walk)
<1>h. /\ \A b \in Block : Height[b] \in Nat
      /\ \A b, c \in Block : b \in Ancestors[c] /\ Height[b] = Height[c] => b = c
  BY ChainAssumption
<1>1. Lineage(StartBlock, cps) /\ WalkInv /\ cps \subseteq EverCanonical /\ checks \in Nat
  BY Lineages, CheckpointsWereCanonical DEF ResultInv, TypeOK
<1>2. walk \subseteq cps
  BY <1>1 DEF WalkInv
<1>3. last \in walk /\ \A c \in walk : Height[c] <= Height[last]
  BY <1>1, <1>2, NewestIsLast, EndsOfSubset DEF Lineage
<1>4. last \in cps \cap orphaned
  BY <1>1, <1>2, <1>3 DEF EverCanonical, Canonical
<1>5. \A c \in cps : Height[c] = Height[last] => c = last
  BY <1>1, <1>4, <1>h DEF Lineage, SameBranch
<1>6. walk \ {last} = {c \in cps : Height[c] < Height[last]}
  <2>1. CASE walk = cps
    <3>1. \A c \in cps : Height[c] <= Height[last] /\ c \in Block /\ last \in Block
      BY <2>1, <1>1, <1>3, <1>4 DEF Lineage
    <3>. HIDE DEF last
    <3>2. \A c \in cps : c # last <=> Height[c] < Height[last]
      BY <3>1, <1>5, <1>h
    <3>. QED
      BY <2>1, <3>2
  <2>2. ASSUME NEW d \in cps, walk = {c \in cps : Height[c] < Height[d]}
        PROVE  walk \ {last} = {c \in cps : Height[c] < Height[last]}
    <3>1. /\ last \in cps /\ Height[last] < Height[d] /\ last \in Block /\ d \in Block
          /\ \A c \in cps : c \in Block
          /\ \A c \in walk : Height[c] <= Height[last]
      BY <2>2, <1>1, <1>3, <1>4 DEF Lineage
    <3>. HIDE DEF last
    <3>2. \A c \in cps : Height[c] < Height[d] /\ c # last <=> Height[c] < Height[last]
      BY <2>2, <3>1, <1>5, <1>h
    <3>. QED
      BY <2>2, <3>2
  <2>. QED
    BY <2>1, <2>2, <1>1 DEF WalkInv
<1>7. checks > 0 => \E d, e \in cps \cap orphaned : Height[d] < Height[e]
  <2>1. SUFFICES ASSUME checks > 0
                 PROVE  \E d, e \in cps \cap orphaned : Height[d] < Height[e]
    OBVIOUS
  <2>2. PICK e \in cps \cap orphaned : walk = {c \in cps : Height[c] < Height[e]}
    BY <1>1, <2>1 DEF WalkInv
  <2>. QED
    BY <1>3, <1>4, <2>2
<1>8. orphaned' = orphaned /\ cursor' = cursor
  BY DEF chainVars
<1>. HIDE DEF last
<1>9. walk' = {c \in cps : Height[c] < Height[last]}
  BY <1>6 DEF last
<1>. QED
  BY <1>1, <1>4, <1>7, <1>8, <1>9 DEF WalkInv

\* What reconcileCursor settles for is left of the checkpoints it began with.
LEMMA WalkIsRetained ==
    ASSUME WalkInv, pc = "reconcile", NEW cps, cps \in {walk, {}},
           cps = {} => walk = {} \/ checks = MaxReorgChecks
    PROVE  cps \in Retained(cursor.checkpoints)
<1>1. CASE cps = walk
  BY <1>1 DEF WalkInv, Retained
<1>2. CASE cps = {}
  <2>1. CASE walk = cursor.checkpoints /\ checks = 0
    BY <1>2, <2>1, IndexerAssumption DEF Retained
  <2>2. CASE \E d \in cursor.checkpoints \cap orphaned : TRUE
    BY <1>2, <2>2 DEF Retained
  <2>. QED
    BY <2>1, <2>2 DEF WalkInv
<1>. QED
  BY <1>1, <1>2

\* reconcileCursor returns.
LEMMA SettleKeepsResult ==
    ASSUME TypeOK, IndInv, ResultInv, pc = "reconcile",
           NEW cps, cps \in Retained(cursor.checkpoints), Settle(cps)
    PROVE  ResultInv'
<1>. DEFINE old == cursor.checkpoints
            next == NextAfter(StartBlock, cps)
<1>1. /\ Lineage(StartBlock, old) /\ cursor.nextBlock = NextAfter(StartBlock, old) /\ Lineage(StartBlock, Held)
      /\ ChainTypeOK
  BY Lineages DEF TypeOK
<1>2. /\ cursor'.checkpoints = cps /\ pc' = resume
      /\ UNCHANGED <<head, orphaned, kept>>
      /\ next = cursor.nextBlock => UNCHANGED <<logs, rollbackTo>>
      /\ next # cursor.nextBlock => /\ logs' = LogsBefore(logs, next)
                                    /\ rollbackTo' = EarliestRollback(rollbackTo, next)
  BY DEF Settle, TypeOK, Cursor, chainVars
<1>3. /\ cps = old /\ UNCHANGED <<logs, rollbackTo>>
      \/ /\ cps # old /\ next < cursor.nextBlock
         /\ logs' = LogsBefore(logs, next)
         /\ rollbackTo' = EarliestRollback(rollbackTo, next)
  <2>1. cps # old => next < cursor.nextBlock
    BY StartIsNumber, <1>1, RetainedShrinks
  <2>2. cursor.nextBlock \in Nat /\ next \in Nat
    BY StartIsNumber, <1>1, NextAfterType, EndsOfSubset, RetainedIsSubset DEF Lineage
  <2>. QED
    BY <1>1, <1>2, <2>1, <2>2
<1>4. Held' = Held /\ EverCanonical' = EverCanonical
  BY <1>2 DEF Held, EverCanonical
<1>5. /\ Retained(Held)' = Retained(Held)
      /\ RangeResults(StartBlock, Held)' = RangeResults(StartBlock, Held)
      /\ NoRangeResults(StartBlock, Held)' = NoRangeResults(StartBlock, Held)
  BY <1>2, <1>4 DEF NoRangeResults, RangeResults, Retained
<1>6. pc' \in {"range", "result"}
  BY <1>2 DEF TypeOK
<1>7. CASE Pending(old, rollbackTo, logs)
  <2>1. cps \in Retained(Held)
    BY StartIsNumber, <1>1, <1>7, RetainedTwice DEF Pending
  <2>2. rollbackTo' \in Rollbacks(StartBlock, cps, Held) /\ logs' = {}
    <3>1. CASE cps = old /\ UNCHANGED <<logs, rollbackTo>>
      BY <1>7, <3>1 DEF Pending
    <3>2. CASE cps # old
      <4>1. rollbackTo' = next
        <5>1. rollbackTo \in {NextAfter(StartBlock, old), Undefined}
          BY <1>7 DEF Pending, Rollbacks
        <5>. QED
          BY <5>1, <1>1, <1>3, <3>2 DEF EarliestRollback
      <4>. QED
        BY <4>1, <1>3, <1>7, <3>2 DEF Rollbacks, Pending, LogsBefore
    <3>. QED
      BY <3>1, <3>2, <1>3
  <2>3. Pending(cursor.checkpoints, rollbackTo, logs)'
    BY <1>2, <1>4, <1>5, <2>1, <2>2 DEF Pending
  <2>. QED
    BY <1>4, <1>6, <2>3 DEF ResultInv
<1>8. CASE ~ Pending(old, rollbackTo, logs)
  <2>1. LoopSpent /\ Draft \in RangeResults(StartBlock, Held)
    BY <1>8 DEF ResultInv
  <2>2. pc' = "result"
    BY <1>2, <2>1 DEF LoopSpent
  <2>3. Draft' \in RangeResults(StartBlock, Held) \cup NoRangeResults(StartBlock, Held)
    <3>1. CASE cps = old /\ UNCHANGED <<logs, rollbackTo>>
      BY <1>2, <2>1, <3>1 DEF Draft
    <3>2. CASE cps # old
      <4>1. /\ Draft.checkpoints = old /\ Draft.rollbackTo = rollbackTo
            /\ Draft.logs = logs
        BY DEF Draft
      <4>2. /\ EarliestRollback(rollbackTo, next) = next
            /\ LogsBefore(logs, next) = {}
            /\ [checkpoints |-> cps, rollbackTo |-> next, logs |-> {}]
                  \in NoRangeResults(StartBlock, Held)
        BY StartIsNumber, <4>1, <1>1, <2>1, <3>2, RangeTakenBack
      <4>. QED
        BY <4>2, <1>2, <1>3, <3>2 DEF Draft
    <3>. QED
      BY <3>1, <3>2, <1>3
  <2>. QED
    BY <1>4, <1>5, <2>2, <2>3 DEF ResultInv, LoopSpent
<1>. QED
  BY <1>7, <1>8

\* reconcileCursor never gives up the caller's block unless it is abandoned: it
\* may read two checkpoints, and at most one is newer.
LEMMA SettleKeepsTip ==
    ASSUME TypeOK, IndInv, ResultInv, TipInv, pc = "reconcile",
           MaxReorgChecks > 1, NEW cps, cps \in {walk, {}},
           cps = {} => walk = {} \/ checks = MaxReorgChecks, Settle(cps)
    PROVE  TipInv'
<1>. DEFINE old == cursor.checkpoints
            tip == Newest(Held)
<1>1. /\ Lineage(StartBlock, old) /\ Lineage(StartBlock, Held) /\ WalkInv /\ old \subseteq EverCanonical
      /\ Ancestors[head] \cap orphaned = {} /\ ChainTypeOK
  BY Lineages, CheckpointsWereCanonical DEF ResultInv, IndInv, TypeOK
<1>2. /\ cursor'.checkpoints = cps /\ Held' = Held /\ orphaned' = orphaned
  BY DEF Settle, TypeOK, Cursor, Held, chainVars
<1>. SUFFICES ASSUME Held # {}, tip \notin orphaned
              PROVE  /\ tip \in cps
                     /\ \A c, d \in cps : Height[c] > Height[tip] /\ Height[d] > Height[tip] => c = d
  BY <1>2 DEF TipInv
<1>3. /\ tip \in old
      /\ \A c, d \in old : Height[c] > Height[tip] /\ Height[d] > Height[tip] => c = d
  BY DEF TipInv
<1>h. \A c \in old : Height[c] \in Nat
  BY <1>1, ChainAssumption DEF Lineage
<1>4. \A d \in old \cap orphaned : Height[tip] < Height[d]
  <2>1. SUFFICES ASSUME NEW d \in old \cap orphaned, Height[d] <= Height[tip]
                 PROVE  FALSE
    BY <1>3, <1>h
  <2>. QED
    BY StartIsNumber, <2>1, <1>1, <1>3, AbandonedBelow
<1>5. tip \in walk
  BY <1>1, <1>3, <1>4 DEF WalkInv
<1>6. checks <= 1
  <2>1. ~ (\E d, e \in old \cap orphaned : Height[d] < Height[e])
    BY <1>3, <1>4, <1>h
  <2>. QED
    BY <2>1, <1>1 DEF WalkInv, TypeOK
<1>7. cps = walk
  BY <1>5, <1>6, IndexerAssumption DEF TypeOK
<1>8. walk \subseteq old
  BY <1>1 DEF WalkInv
<1>. QED
  BY <1>3, <1>5, <1>7, <1>8

\* An accepted range continues the working cursor on the branch of its end.
LEMMA AcceptedRangeContinues ==
    ASSUME TypeOK, IndInv, pc = "after", scan.anchored,
           NEW b \in Block, BlockAt(scan.to, b), b = scan.before
    PROVE  /\ cursor.checkpoints \subseteq Ancestors[b]
           /\ Height[b] = scan.to
           /\ Height[b] >= NextAfter(StartBlock, cursor.checkpoints)
           /\ ~ DivergentLogs =>
                 scan.found = LogsThrough(b, NextAfter(StartBlock, cursor.checkpoints), Height[b])
<1>. DEFINE old == cursor.checkpoints
            last == Newest(old)
<1>1. /\ ScanInv /\ Lineage(StartBlock, old) /\ cursor.nextBlock = NextAfter(StartBlock, old)
  BY Lineages DEF IndInv
<1>2. /\ Height[b] = scan.to /\ cursor.nextBlock <= scan.to
      /\ old # {} => last \in Ancestors[b]
      /\ ~ DivergentLogs =>
            scan.found = LogsThrough(b, cursor.nextBlock, scan.to)
  BY <1>1 DEF ScanInv, BlockAt
<1>3. \A d \in old : d \in Ancestors[last] /\ last \in Block
  BY <1>1, NewestIsLast DEF Lineage, SameBranch
<1>4. old # {} => Ancestors[last] \subseteq Ancestors[b]
  BY <1>2, ChainAssumption
<1>5. scan.to \in Nat /\ cursor.nextBlock \in Nat
  BY DEF TypeOK, Scan, Cursor
<1>. HIDE DEF last
<1>6. old \subseteq Ancestors[b]
  BY <1>3, <1>4
<1>. QED
  BY <1>1, <1>2, <1>5, <1>6

\* Accepting the range.
LEMMA AcceptKeepsResult ==
    ASSUME TypeOK, IndInv, ResultInv, OneRange, pc = "after", scan.anchored,
           NEW b \in Block, BlockAt(scan.to, b), b = scan.before,
           UNCHANGED <<chainVars, kept, rollbackTo, attempts>>,
           logs' = logs \cup scan.found, pc' = "range",
           cursor'.checkpoints = WithCheckpoint(cursor.checkpoints, b)
    PROVE  ResultInv'
<1>. DEFINE old == cursor.checkpoints
<1>1. /\ old \subseteq Ancestors[b] /\ Height[b] >= NextAfter(StartBlock, old)
      /\ scan.found = LogsThrough(b, NextAfter(StartBlock, old), Height[b])
  BY AcceptedRangeContinues DEF OneRange
<1>2. b \in EverCanonical
  BY DEF BlockAt, Canonical, EverCanonical
<1>3. Pending(old, rollbackTo, logs) /\ attempts = MaxRanges
  BY DEF ResultInv, LoopSpent
<1>4. /\ Held' = Held /\ EverCanonical' = EverCanonical /\ orphaned' = orphaned
      /\ Draft' = [checkpoints |-> WithCheckpoint(old, b), rollbackTo |-> rollbackTo,
                   logs |-> LogsThrough(b, NextAfter(StartBlock, old), Height[b])]
  BY <1>1, <1>3 DEF Held, EverCanonical, chainVars, Draft, Pending
<1>5. Draft' \in RangeResults(StartBlock, Held)
  BY StartIsNumber, <1>1, <1>2, <1>3, <1>4, RangeResultIs DEF Pending
<1>6. RangeResults(StartBlock, Held)' = RangeResults(StartBlock, Held)
  BY <1>4 DEF RangeResults, Retained
<1>. QED
  BY <1>3, <1>4, <1>5, <1>6 DEF ResultInv, LoopSpent

LEMMA AcceptKeepsTip ==
    ASSUME TypeOK, IndInv, ResultInv, MaxCheckpoints > 1, pc = "after", scan.anchored,
           NEW b \in Block, BlockAt(scan.to, b), b = scan.before,
           UNCHANGED <<chainVars, kept>>,
           cursor'.checkpoints = WithCheckpoint(cursor.checkpoints, b)
    PROVE  TipInv'
<1>. DEFINE old == cursor.checkpoints
            tip == Newest(Held)
            all == Held \cup {b}
<1>1. /\ Held' = Held /\ orphaned' = orphaned
  BY DEF Held, chainVars
<1>. SUFFICES ASSUME Held # {}, tip \notin orphaned
              PROVE  /\ tip \in WithCheckpoint(old, b)
                     /\ \A c, d \in WithCheckpoint(old, b) :
                           Height[c] > Height[tip] /\ Height[d] > Height[tip] => c = d
  BY <1>1 DEF TipInv
<1>2. /\ Lineage(StartBlock, Held) /\ Held \subseteq EverCanonical
      /\ Ancestors[head] \cap orphaned = {} /\ ChainTypeOK
  BY Lineages DEF ResultInv, IndInv, TypeOK
<1>h. \A c \in Block : Height[c] \in Nat
  BY ChainAssumption
<1>3. /\ tip \in Held /\ tip \in Block /\ tip \in EverCanonical
      /\ \A c \in Held : c \in Block /\ Height[c] <= Height[tip]
  BY <1>2, NewestIsLast DEF Lineage
<1>4. Held \cap orphaned = {}
  BY StartIsNumber, <1>2, <1>3, AbandonedBelow
<1>5. old = Held
  <2>1. Pending(old, rollbackTo, logs)
    BY DEF ResultInv, LoopSpent
  <2>. QED
    BY <2>1, <1>4 DEF Pending, Retained
<1>6. Height[b] > Height[tip]
  <2>1. NextAfter(StartBlock, Held) = Height[tip] + 1
    BY DEF NextAfter
  <2>2. Height[b] >= NextAfter(StartBlock, Held)
    BY <1>5, AcceptedRangeContinues
  <2>. QED
    BY <2>1, <2>2, <1>3, <1>h
<1>7. WithCheckpoint(Held, b) \subseteq all
  BY DEF WithCheckpoint
<1>8. tip \in WithCheckpoint(Held, b)
  <2>1. SUFFICES ASSUME Cardinality(all) > MaxCheckpoints, Oldest(all) = tip
                 PROVE  FALSE
    BY <1>3 DEF WithCheckpoint
  <2>2. \A c \in all : Height[tip] <= Height[c]
    <3>1. \A c \in Held : Height[c] < Height[b]
      BY <1>3, <1>6, <1>h
    <3>2. HasEnds(all) /\ all \in SUBSET Block /\ all # {}
      BY <1>2, <3>1, EndsOfExtension DEF Lineage
    <3>. QED
      BY <2>1, <3>2, OldestIsFirst
  <2>3. \A c \in Held : c = tip
    <3>1. \A c \in Held : Height[c] = Height[tip]
      BY <2>2, <1>3, <1>h
    <3>. QED
      BY <3>1, <1>2, <1>3, ChainAssumption DEF Lineage, SameBranch
  <2>4. all = {tip, b} /\ tip # b
    BY <2>3, <1>3, <1>6, <1>h
  <2>5. Cardinality({tip, b}) = 2
    <3>1. IsFiniteSet({tip}) /\ Cardinality({tip}) = 1
      BY FS_Singleton
    <3>2. Cardinality({tip} \cup {b}) = 2
      BY <3>1, <2>4, FS_AddElement
    <3>3. {tip} \cup {b} = {tip, b}
      OBVIOUS
    <3>. QED
      BY <3>2, <3>3
  <2>. QED
    BY <2>1, <2>4, <2>5, CursorAssumption
<1>9. \A c \in all : Height[c] > Height[tip] => c = b
  BY <1>3, <1>h
<1>. QED
  BY <1>5, <1>7, <1>8, <1>9

\* The steps of reconcileCursor, with both invariants.
LEMMA ReadCheckpointKeeps ==
    ASSUME TypeOK, IndInv, ResultInv, ReadCheckpoint
    PROVE  ResultInv' /\ (MaxReorgChecks > 1 /\ TipInv => TipInv')
<1>1. pc = "reconcile" /\ walk # {} /\ WalkInv
  BY DEF ReadCheckpoint, ResultInv
<1>2. CASE Canonical(Newest(walk))
  <2>1. Settle(walk)
    BY <1>2 DEF ReadCheckpoint
  <2>2. walk \in Retained(cursor.checkpoints)
    BY <1>1, WalkIsRetained
  <2>. QED
    BY <1>1, <2>1, <2>2, SettleKeepsResult, SettleKeepsTip
<1>3. CASE ~ Canonical(Newest(walk))
  <2>1. WalkInv'
    BY <1>1, <1>3, PopKeepsWalk DEF ReadCheckpoint
  <2>2. LoopSpent => LoopSpent'
    BY <1>3 DEF LoopSpent, ReadCheckpoint
  <2>. QED
    BY <1>1, <1>3, <2>1, <2>2, NothingDecided DEF ReadCheckpoint
<1>. QED
  BY <1>2, <1>3

LEMMA ExhaustCheckpointsKeeps ==
    ASSUME TypeOK, IndInv, ResultInv, ExhaustCheckpoints
    PROVE  ResultInv' /\ (MaxReorgChecks > 1 /\ TipInv => TipInv')
<1>1. /\ pc = "reconcile" /\ WalkInv /\ Settle({})
      /\ walk = {} \/ checks = MaxReorgChecks
  BY DEF ExhaustCheckpoints, ResultInv
<1>2. {} \in Retained(cursor.checkpoints)
  BY <1>1, WalkIsRetained
<1>. QED
  BY <1>1, <1>2, SettleKeepsResult, SettleKeepsTip

\* The steps before the verdict on a range.
LEMMA WaitingKeeps ==
    ASSUME TypeOK, IndInv, ResultInv, OneRange,
           ReadHead \/ LeaveLoop \/ ReadBefore \/ ReadLogs \/ ReadLogBlock \/ ReadPrevious
    PROVE  ResultInv' /\ (TipInv => TipInv')
<1>. USE DEF LoopSpent
<1>1. CASE ReadHead
  <2>1. WalkInv'
    BY <1>1 DEF ReadHead, Reconcile, WalkInv
  <2>. QED
    BY <1>1, <2>1, NothingDecided DEF ReadHead, Reconcile
<1>2. CASE LeaveLoop
  <2>1. WalkInv'
    BY <1>2 DEF LeaveLoop, Reconcile, WalkInv
  <2>. QED
    BY <1>2, <2>1, NothingDecided DEF LeaveLoop, Reconcile
<1>3. CASE ReadBefore
  <2>1. /\ pc = "range" /\ pc' = "logs" /\ attempts' = attempts + 1
        /\ UNCHANGED <<chainVars, kept, cursor, logs, rollbackTo>>
    BY <1>3 DEF ReadBefore
  <2>2. attempts # MaxRanges
    BY <1>3 DEF ReadBefore, LoopEnds
  <2>3. attempts \in 0 .. MaxRanges /\ MaxRanges = 1
    BY DEF TypeOK, OneRange
  <2>4. attempts' = MaxRanges
    BY <2>1, <2>2, <2>3
  <2>. QED
    BY <2>1, <2>2, <2>4, NothingDecided
<1>4. CASE ReadLogs
  <2>1. /\ pc = "logs" /\ attempts' = MaxRanges
        /\ UNCHANGED <<chainVars, kept, logs, rollbackTo>>
    BY <1>4 DEF ReadLogs, ResultInv
  <2>2. cursor'.checkpoints = cursor.checkpoints /\ pc' \in {"range", "blocks"}
    BY <1>4 DEF ReadLogs, Shrink, TypeOK, Cursor
  <2>. QED
    BY <2>1, <2>2, NothingDecided
<1>5. CASE ReadLogBlock
  BY <1>5, NothingDecided DEF ReadLogBlock, ResultInv
<1>6. CASE ReadPrevious
  BY <1>6, NothingDecided DEF ReadPrevious, ResultInv
<1>. QED
  BY <1>1, <1>2, <1>3, <1>4, <1>5, <1>6

LEMMA ReadAfterKeeps ==
    ASSUME TypeOK, IndInv, ResultInv, OneRange, ReadAfter
    PROVE  ResultInv' /\ (MaxCheckpoints > 1 /\ TipInv => TipInv')
<1>1. PICK b \in Block :
        /\ BlockAt(scan.to, b)
        /\ IF b # scan.before \/ ~ scan.anchored
           THEN /\ Reconcile("range")
                /\ UNCHANGED <<cursor, logs>>
           ELSE /\ logs' = logs \cup scan.found
                /\ cursor'.checkpoints = WithCheckpoint(cursor.checkpoints, b)
                /\ pc' = "range"
  BY DEF ReadAfter
<1>2. /\ pc = "after"
      /\ UNCHANGED <<chainVars, kept, rollbackTo, attempts, safeHead>>
  BY DEF ReadAfter
<1>3. CASE b # scan.before \/ ~ scan.anchored
  <2>1. WalkInv'
    BY <1>1, <1>3 DEF Reconcile, WalkInv
  <2>. QED
    BY <1>1, <1>2, <1>3, <2>1, NothingDecided DEF Reconcile, LoopSpent
<1>4. CASE b = scan.before /\ scan.anchored
  BY <1>1, <1>2, <1>4, AcceptKeepsResult, AcceptKeepsTip
<1>. QED
  BY <1>3, <1>4

LEMMA ResultStep ==
    ASSUME TypeOK, IndInv, ResultInv, OneRange, [Next]_vars
    PROVE  /\ ResultInv'
           /\ MaxReorgChecks > 1 /\ MaxCheckpoints > 1 /\ TipInv => TipInv'
<1>1. CASE Start               BY <1>1, StartKeepsResult
<1>2. CASE ReadCheckpoint      BY <1>2, ReadCheckpointKeeps
<1>3. CASE ExhaustCheckpoints  BY <1>3, ExhaustCheckpointsKeeps
<1>4. CASE ReadHead \/ LeaveLoop \/ ReadBefore \/ ReadLogs \/ ReadLogBlock \/ ReadPrevious
  BY <1>4, WaitingKeeps
<1>5. CASE ReadAfter           BY <1>5, ReadAfterKeeps
<1>6. CASE Deliver             BY <1>6, DeliverKeepsResult
<1>7. CASE Fail                BY <1>7, FailKeepsResult
<1>8. CASE Reorganize          BY <1>8, ReorganizeKeepsResult
<1>9. CASE UNCHANGED vars
  <2>0. UNCHANGED <<head, orphaned, kept, pc, cursor, logs, rollbackTo, attempts,
                    walk, checks, resume>>
    BY <1>9 DEF vars, syncVars, localVars, chainVars
  <2>1. Held' = Held /\ Draft' = Draft /\ EverCanonical' = EverCanonical
        /\ orphaned' = orphaned
    BY <2>0 DEF Held, Draft, EverCanonical
  <2>2. /\ RangeResults(StartBlock, Held)' = RangeResults(StartBlock, Held)
        /\ NoRangeResults(StartBlock, Held)' = NoRangeResults(StartBlock, Held)
        /\ Retained(Held)' = Retained(Held)
    BY <2>1 DEF NoRangeResults, RangeResults, Retained
  <2>3. /\ WalkInv => WalkInv'
        /\ LoopSpent => LoopSpent'
        /\ Pending(cursor.checkpoints, rollbackTo, logs) =>
              Pending(cursor.checkpoints, rollbackTo, logs)'
    BY <2>0, <2>1, <2>2
    DEF WalkInv, LoopSpent, Pending
  <2>4. ResultInv'
    BY <2>0, <2>1, <2>2, <2>3 DEF ResultInv
  <2>5. TipInv => TipInv'
    BY <2>0, <2>1 DEF TipInv
  <2>. QED
    BY <2>4, <2>5
<1>. QED
  BY <1>1, <1>2, <1>3, <1>4, <1>5, <1>6, <1>7, <1>8, <1>9 DEF Next, Advance

-----------------------------------------------------------------------------
(* The theorems.                                                            *)

\* A running synchronization is on its way to one of the results.
THEOREM ResultInvariant ==
    ASSUME OneRange
    PROVE  Spec => [](TypeOK /\ IndInv /\ ResultInv)
<1>1. Init => ResultInv
  <2>1. SUFFICES ASSUME Init  PROVE ResultInv
    OBVIOUS
  <2>2. Held = {} /\ pc = "idle"
    BY <2>1 DEF Init, Held, NewCursor
  <2>. QED
    BY <2>2 DEF ResultInv
<1>2. TypeOK /\ IndInv /\ ResultInv /\ [Next]_vars => ResultInv'
  BY ResultStep
<1>. QED
  BY <1>1, <1>2, Consistent, PTL DEF Spec

\* A synchronization of one range whose logs come from the canonical branch
\* ends in one of the results the cache layer is checked against (SyncResults),
\* however the chain reorganizes under it.
THEOREM ResultsAreExpected ==
    ASSUME OneRange
    PROVE  Spec => []ResultIsExpected
<1>1. TypeOK /\ IndInv /\ ResultInv => ResultIsExpected
  <2>1. SUFFICES ASSUME TypeOK, IndInv, ResultInv, pc = "result"
                 PROVE  Draft \in SyncResults(StartBlock, Held)
    BY DEF ResultIsExpected, Draft, Held
  <2>2. CASE Pending(cursor.checkpoints, rollbackTo, logs)
    <3>1. cursor.checkpoints \in SUBSET Held
      BY <2>2, RetainedIsSubset DEF Pending
    <3>2. Draft \in NoRangeResults(StartBlock, Held)
      BY StartIsNumber, <2>2, <3>1, NoRangeResultIs DEF Pending, Draft
    <3>. QED
      BY <3>2 DEF SyncResults
  <2>. QED
    BY <2>1, <2>2 DEF ResultInv, SyncResults
<1>. QED
  BY <1>1, ResultInvariant, PTL

\* BrowserEventCache.apply accepts such a result: it rolls back to a block its
\* caller's record has reached, and brings no log from before that block.
THEOREM ResultsApplyToCaller ==
    ASSUME OneRange
    PROVE  Spec => []ResultAppliesToCaller
<1>1. TypeOK /\ IndInv /\ ResultIsExpected => ResultAppliesToCaller
  <2>. DEFINE boundary == IF rollbackTo = Undefined
                          THEN kept.cursor.nextBlock ELSE rollbackTo
  <2>1. SUFFICES ASSUME TypeOK, IndInv, pc = "result", Draft \in SyncResults(StartBlock, Held)
                 PROVE  /\ boundary <= kept.cursor.nextBlock
                        /\ cursor.nextBlock >= boundary
                        /\ \A l \in logs :
                              Height[BlockOf[l]] \in boundary .. cursor.nextBlock - 1
    BY DEF ResultIsExpected, ResultAppliesToCaller, Draft, Held
  <2>h. /\ \A b \in Block : Height[b] \in Nat
        /\ \A l \in Log : BlockOf[l] \in Block
    BY ChainAssumption
  <2>2. /\ Lineage(StartBlock, Held) /\ kept.cursor.nextBlock = NextAfter(StartBlock, Held)
        /\ Lineage(StartBlock, cursor.checkpoints) /\ cursor.nextBlock = NextAfter(StartBlock, cursor.checkpoints)
        /\ ChainTypeOK
    BY <2>1, Lineages DEF TypeOK
  <2>3. CASE Draft \in RangeResults(StartBlock, Held)
    <3>1. PICK cps \in Retained(Held), b \in EverCanonical :
             \E r \in Rollbacks(StartBlock, cps, Held) :
                /\ cps \subseteq Ancestors[b] /\ Height[b] >= NextAfter(StartBlock, cps)
                /\ Draft = [checkpoints |-> WithCheckpoint(cps, b),
                            rollbackTo |-> r,
                            logs |-> LogsThrough(b, NextAfter(StartBlock, cps), Height[b])]
      BY StartIsNumber, <2>3, RangeResultIs
    <3>2. /\ rollbackTo \in Rollbacks(StartBlock, cps, Held)
          /\ cursor.checkpoints = WithCheckpoint(cps, b)
          /\ logs = LogsThrough(b, NextAfter(StartBlock, cps), Height[b])
      BY <3>1 DEF Draft
    <3>3. cps \in SUBSET Held /\ Lineage(StartBlock, cps) /\ b \in Block
      BY <2>2, RetainedIsSubset, EndsOfSubset, ChainAssumption
      DEF Lineage, SameBranch, EverCanonical, ChainTypeOK
    <3>4. NextAfter(StartBlock, cps) \in Nat /\ NextAfter(StartBlock, Held) \in Nat
      BY StartIsNumber, <2>2, <3>3, NextAfterType DEF Lineage
    <3>5. NextAfter(StartBlock, cps) <= NextAfter(StartBlock, Held)
      BY StartIsNumber, <2>2, <3>4, RetainedShrinks
    <3>6. boundary = NextAfter(StartBlock, cps)
      BY <2>2, <3>2, <3>4 DEF Rollbacks, Undefined
    <3>7. cursor.nextBlock = Height[b] + 1
      BY StartIsNumber, <2>2, <3>1, <3>2, <3>3, NewestOfAccepted DEF NextAfter
    <3>. QED
      BY <2>2, <2>h, <3>1, <3>2, <3>3, <3>4, <3>5, <3>6, <3>7 DEF LogsThrough
  <2>4. CASE Draft \in NoRangeResults(StartBlock, Held)
    <3>1. PICK cps \in SUBSET Held : \E r \in Rollbacks(StartBlock, cps, Held) :
             Draft = [checkpoints |-> cps, rollbackTo |-> r, logs |-> {}]
      BY <2>4 DEF NoRangeResults
    <3>2. /\ cursor.checkpoints = cps /\ logs = {}
          /\ rollbackTo \in Rollbacks(StartBlock, cps, Held)
      BY <3>1 DEF Draft
    <3>3. NextAfter(StartBlock, cps) \in Nat /\ NextAfter(StartBlock, Held) \in Nat
      BY StartIsNumber, <2>2, <3>2, NextAfterType DEF Lineage
    <3>4. NextAfter(StartBlock, cps) <= NextAfter(StartBlock, Held)
      BY StartIsNumber, <2>2, <3>2, <3>3, NextAfterMonotone
    <3>5. boundary = NextAfter(StartBlock, cps)
      BY <2>2, <3>2, <3>3 DEF Rollbacks, Undefined
    <3>. QED
      BY <2>2, <3>2, <3>3, <3>4, <3>5
  <2>. QED
    BY <2>1, <2>3, <2>4 DEF SyncResults
<1>. QED
  BY <1>1, ResultInvariant, ResultsAreExpected, PTL

-----------------------------------------------------------------------------
(* The refinement.                                                          *)

\* The block of the abstract replica that a list of checkpoints stands for.
TipOf(cps) == IF cps = {} THEN {} ELSE {Newest(cps)}

\* A result that is delivered moves the replica to a descendant of its tip, or
\* away from an abandoned one.
LEMMA DeliverPublishes ==
    ASSUME TypeOK, IndInv, ResultInv, TipInv, OneRange, Deliver
    PROVE  Replica!Publish
<1>. DEFINE new == TipOf(cursor.checkpoints)
<1>1. /\ Held' = cursor.checkpoints /\ kept'.logs = Merged(kept.logs, rollbackTo, logs)
      /\ UNCHANGED <<head, orphaned>> /\ pc = "result"
  BY DEF Deliver, Held, chainVars
<1>2. /\ Lineage(StartBlock, cursor.checkpoints) /\ Lineage(StartBlock, Held)
      /\ cursor.checkpoints \subseteq EverCanonical
  BY <1>1, Lineages, CheckpointsWereCanonical
<1>3. new \in {{}} \cup {{b} : b \in EverCanonical}
  <2>1. cursor.checkpoints # {} => Newest(cursor.checkpoints) \in cursor.checkpoints
    BY <1>2, NewestIsLast DEF Lineage
  <2>. QED
    BY <1>2, <2>1 DEF TipOf
<1>4. TipOf(Held) \subseteq orphaned \/ \E b \in new : TipOf(Held) \subseteq Ancestors[b]
  <2>1. SUFFICES ASSUME Held # {}, Newest(Held) \notin orphaned
                 PROVE  /\ cursor.checkpoints # {}
                        /\ Newest(Held) \in Ancestors[Newest(cursor.checkpoints)]
    BY DEF TipOf
  <2>2. Newest(Held) \in cursor.checkpoints
    BY <1>1, <2>1 DEF TipInv
  <2>. QED
    BY <1>2, <2>2, NewestIsLast DEF Lineage, SameBranch
<1>5. kept'.logs = Committed(StartBlock, cursor.checkpoints)
  BY <1>1 DEF IndInv, Records, OneRange
<1>6. kept'.logs = UNION {LogsThrough(b, StartBlock, Height[b]) : b \in new}
  BY <1>5 DEF TipOf, Committed
<1>7. /\ TipOf(Held)' = new
      /\ TipOf(Held) = IF kept.cursor.checkpoints = {} THEN {}
                       ELSE {Newest(kept.cursor.checkpoints)}
      /\ TipOf(Held)' = IF kept'.cursor.checkpoints = {} THEN {}
                        ELSE {Newest(kept'.cursor.checkpoints)}
  BY <1>1 DEF TipOf, Held
<1>. HIDE DEF new
<1>. QED
  BY <1>1, <1>3, <1>4, <1>6, <1>7
  DEF Replica!Publish, Replica!chainVars, Replica!LogsThrough, LogsThrough,
      Replica!EverCanonical, EverCanonical

\* Every other step leaves the caller's record alone.
LEMMA StepMaps ==
    ASSUME TypeOK, IndInv, ResultInv, TipInv, OneRange, [Next]_vars
    PROVE  [Replica!Next]_(Replica!replicaVars)
<1>1. CASE Deliver
  BY <1>1, DeliverPublishes DEF Replica!Next
<1>2. CASE Reorganize
  <2>1. Replica!Reorganize
    BY <1>2 DEF Reorganize, MoveHead, Canonical, Replica!Reorganize,
       Replica!MoveHead, Replica!Canonical
  <2>. QED
    BY <2>1 DEF Replica!Next
<1>3. CASE UNCHANGED <<chainVars, kept>>
  BY <1>3 DEF Replica!replicaVars, Replica!chainVars, chainVars
<1>4. Deliver \/ Reorganize \/ UNCHANGED <<chainVars, kept>>
  <2>1. ASSUME Settle(walk) \/ Settle({})  PROVE UNCHANGED <<chainVars, kept>>
    BY <2>1 DEF Settle
  <2>. QED
    BY <2>1 DEF Next, Advance, Start, ReadHead, ReadCheckpoint, ExhaustCheckpoints,
       LeaveLoop, ReadBefore, ReadLogs, ReadLogBlock, ReadPrevious, ReadAfter, Fail, vars
<1>. QED
  BY <1>1, <1>2, <1>3, <1>4

\* syncEventLogs and its caller implement the replica of LogReplica: the record
\* moves to a descendant of its block unless that block was abandoned.  The
\* engine makes at least two reorganization checks (8 unless told otherwise)
\* and keeps at least two checkpoints (64): with one of either, a new checkpoint
\* that is abandoned takes the old one with it.
THEOREM SynchronizationsReplicate ==
    ASSUME OneRange, MaxReorgChecks > 1, MaxCheckpoints > 1
    PROVE  Spec => ImplementsReplica
<1>1. Init => Replica!Init
  BY DEF Init, ChainInit, NewCursor, Replica!Init, Replica!ChainInit
<1>2. Init => TipInv
  BY DEF Init, TipInv
<1>3. TypeOK /\ IndInv /\ ResultInv /\ TipInv /\ [Next]_vars => TipInv'
  BY ResultStep
<1>4. TypeOK /\ IndInv /\ ResultInv /\ TipInv /\ [Next]_vars
         => [Replica!Next]_(Replica!replicaVars)
  BY StepMaps
<1>. QED
  BY <1>1, <1>2, <1>3, <1>4, ResultInvariant, PTL
  DEF Spec, ImplementsReplica, Replica!Spec
=============================================================================
