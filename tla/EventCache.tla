----------------------------- MODULE EventCache -----------------------------
(***************************************************************************)
(* BrowserEventCache of event-cache.ts: one scope of the IndexedDB         *)
(* database that every open tab shares, and the tabs that work on it.      *)
(*                                                                         *)
(* A method runs in one transaction, and IndexedDB serializes readwrite    *)
(* transactions, so a method is one action; the awaits between methods are *)
(* where tabs, reorganizations and damage interleave.  A tab holds at most *)
(* one page position, one result, one continuation and one baseline: each  *)
(* is a set with at most one element.                                      *)
(*                                                                         *)
(* A digest stands for the set of logs it was computed from, a cursor for  *)
(* its checkpoints (they determine nextBlock).  A generation stands for    *)
(* the generation and the baselineKey, which are always drawn together.    *)
(***************************************************************************)
EXTENDS Cursors

CONSTANTS
    StartBlock,      \* cursor.startBlock
    Writer,          \* the tabs that synchronize the scope
    Reader,          \* the tabs that scan it; a tab may do both
    LogIndex,        \* the position of a log in its block
    PageSize,        \* options.limit of a scan
    RecentLimit,     \* the limit of readLatest
    MaxMaintenance,  \* maintenanceLogLimit
    MaxRevision,     \* bound: the revision clear and apply may reach
    MaxDamage        \* bound: how often stored data is damaged

ASSUME CacheAssumption ==
    /\ StartBlock \in Nat
    /\ LogIndex \in [Log -> Nat]
    /\ \A l, m \in Log :
          BlockOf[l] = BlockOf[m] /\ LogIndex[l] = LogIndex[m] => l = m
    /\ \A b \in Block : IsFiniteSet({l \in Log : BlockOf[l] \in Ancestors[b]})
    /\ PageSize \in Nat \ {0}
    /\ RecentLimit \in Nat \ {0}
    /\ MaxMaintenance \in Nat
    /\ MaxRevision \in Nat \ {0}
    /\ MaxDamage \in Nat

VARIABLES
    db,         \* the stored scope
    generations,\* how many generations have been drawn
    damages,    \* how often stored data was damaged
    position,   \* [Writer -> what readLatest returned]
    result,     \* [Writer -> what syncEventLogs made of that position]
    scan,       \* [Reader -> the continuation of a chronological scan]
    baseline,   \* [Reader -> the baseline of a completed scan]
    saved       \* the derived state of a resume store, by its baseline

tabVars == <<position, result, scan, baseline, saved>>
vars == <<chainVars, db, generations, damages, tabVars>>

-----------------------------------------------------------------------------
(* Stored records.                                                          *)

\* compareLogs: the order of positions.
Follows(l, m) ==
    \/ Height[BlockOf[l]] > Height[BlockOf[m]]
    \/ /\ Height[BlockOf[l]] = Height[BlockOf[m]]
       /\ LogIndex[l] > LogIndex[m]

Later(ls, l) == {m \in ls : Follows(m, l)}
UpTo(ls, l) == ls \ Later(ls, l)

FirstOf(ls) == {l \in ls : ls \subseteq Later(ls, l) \cup {l}}
LastOf(ls) == {l \in ls : Later(ls, l) = {}}

\* The records an index over the scope meets.  db.logs is what the digest
\* chain of the scope record commits to.
Present == db.logs \ db.lost
Damaged == db.lost \cup db.altered

Absent == db.scope = "absent"

\* asScopeRecord or asCursorRecord throws.
HeaderCorrupt == db.scope = "bad" \/ db.cursorBad

\* The first or the last record does not match the ends of the digest chain.
EdgesCorrupt == (FirstOf(db.logs) \cup LastOf(db.logs)) \cap Damaged # {}

EmptyScope(generation, revision) ==
    [scope |-> "ok", generation |-> generation, revision |-> revision,
     cursorBad |-> FALSE, cursor |-> {}, logs |-> {}, lost |-> {},
     altered |-> {}]

\* #createScopeState
CreateScope(revision) ==
    /\ generations' = generations + 1
    /\ db' = EmptyScope(generations + 1, revision)

\* Mutant: a reset does not count as an update.
ResetScopeInPlace ==
    IF db.scope = "ok"
    THEN /\ db' = EmptyScope(db.generation, db.revision)
         /\ UNCHANGED generations
    ELSE CreateScope(1)

\* #resetScope: the generation survives when the scope record could be read,
\* and the revision moves on with it.
ResetScope ==
    IF db.scope = "ok"
    THEN /\ db' = EmptyScope(db.generation, db.revision + 1)
         /\ UNCHANGED generations
    ELSE CreateScope(1)

-----------------------------------------------------------------------------
Init ==
    /\ ChainInit
    /\ db = [EmptyScope(0, 0) EXCEPT !.scope = "absent"]
    /\ generations = 0
    /\ damages = 0
    /\ position = [t \in Writer |-> {}]
    /\ result = [t \in Writer |-> {}]
    /\ scan = [t \in Reader |-> {}]
    /\ baseline = [t \in Reader |-> {}]
    /\ saved = {}

\* The records readLatest visits: the newest limit, the rest of the block the
\* last of them is in, and one more.
Recent(ls) == {l \in ls : Cardinality(Later(ls, l)) < RecentLimit}

Visited(ls) ==
    LET oldest == FirstOf(Recent(ls))
        block == {l \in ls : \E m \in oldest :
                     Height[BlockOf[l]] >= Height[BlockOf[m]]}
    IN  block \cup LastOf(ls \ block)

\* Mutant: the newest record is not compared with the scope record.
RecentGap ==
    LET seen == Visited(Present)
    IN  \/ seen \cap db.altered # {}
        \/ \E l \in db.lost, m, n \in seen : Follows(m, l) /\ Follows(l, n)

\* A record that does not continue the digest of the one before it, or a
\* newest (oldest) record that is not the last (first) of the digest chain.
RecentCorrupt ==
    LET seen == Visited(Present)
    IN  \/ seen \cap db.altered # {}
        \/ \E l \in db.lost : seen = Present \/ \E m \in seen : Follows(l, m)

ReadPosition(t, logs) ==
    position' = [position EXCEPT ![t] =
        {[generation |-> db'.generation, revision |-> db'.revision,
          cursor |-> db'.cursor, logs |-> logs]}]

\* readLatest: the newest logs of the scope, which is created when nothing is
\* stored and reset when what is stored is corrupt.
ReadLatest(t) ==
    /\ position[t] = {}
    /\ \/ /\ Absent
          /\ CreateScope(0)
          /\ ReadPosition(t, {})
       \/ /\ ~ Absent
          /\ HeaderCorrupt \/ RecentCorrupt
          /\ ResetScope
          /\ ReadPosition(t, {})
       \/ /\ ~ Absent
          /\ ~ HeaderCorrupt
          /\ ~ RecentCorrupt
          /\ UNCHANGED <<db, generations>>
          /\ ReadPosition(t, Recent(Present) \ db.altered)
    /\ UNCHANGED <<chainVars, damages, result, scan, baseline, saved>>

\* clear, from any tab
Clear ==
    /\ db.revision < MaxRevision
    /\ ResetScope
    /\ UNCHANGED <<chainVars, damages, tabVars>>

\* syncEventLogs, from the cursor of the position.
Synchronize(t) ==
    /\ result[t] = {}
    /\ \E p \in position[t] : \E r \in SyncResults(StartBlock, p.cursor) :
          result' = [result EXCEPT ![t] = {r}]
    /\ UNCHANGED <<chainVars, db, generations, damages, position, scan,
                   baseline, saved>>
-----------------------------------------------------------------------------
(* apply: #applyRaw with a position and the result computed from it.        *)

Removed(r) ==
    IF r.rollbackTo = Undefined THEN {} ELSE db.logs \ LogsBefore(db.logs, r.rollbackTo)

\* The records the rollback meets, newest first, until one that stays or
\* until the maintenance budget is spent.
RolledOver(r) ==
    {l \in db.logs : /\ Later(db.logs, l) \subseteq Removed(r)
                     /\ Cardinality(Later(db.logs, l)) <= MaxMaintenance}

\* What #applyRaw checks before it compares positions.
ApplyCorrupt(r) ==
    \/ Absent
    \/ HeaderCorrupt
    \/ LastOf(db.logs) \cap Damaged # {}
    \/ r.rollbackTo # Undefined /\ db.lost # {}

\* Mutant: any position of the generation will do.
SameGeneration(p) == db.generation = p.generation

\* Nobody has written since the position was read.
Current(p) ==
    /\ db.generation = p.generation
    /\ db.revision = p.revision
    /\ db.cursor = p.cursor

RollbackCorrupt(r) ==
    r.rollbackTo # Undefined /\ RolledOver(r) \cap db.altered # {}

\* The conditions apply puts on its arguments.
Applicable(p, r) ==
    LET boundary == IF r.rollbackTo = Undefined
                    THEN NextAfter(StartBlock, p.cursor) ELSE r.rollbackTo
    IN  /\ boundary \in StartBlock .. NextAfter(StartBlock, p.cursor)
        /\ NextAfter(StartBlock, r.checkpoints) >= boundary
        /\ \A l \in r.logs :
              Height[BlockOf[l]] \in boundary .. NextAfter(StartBlock, r.checkpoints) - 1

\* The update is stored as a whole, with its cursor and the next revision.
CommitUpdate(r) ==
    /\ db.revision < MaxRevision
    /\ db' = [db EXCEPT !.revision = @ + 1,
                        !.cursor = r.checkpoints,
                        !.logs = Merged(@, r.rollbackTo, r.logs)]
    /\ UNCHANGED generations

Apply(t) ==
    /\ \E p \in position[t], r \in result[t] :
        /\ Applicable(p, r)
        /\ \/ /\ ApplyCorrupt(r)
              /\ ResetScope
           \/ /\ ~ ApplyCorrupt(r)
              /\ Current(p)
              /\ RollbackCorrupt(r)
              /\ ResetScope
           \/ /\ ~ ApplyCorrupt(r)
              /\ Current(p)
              /\ ~ RollbackCorrupt(r)
              /\ Cardinality(Removed(r)) <= MaxMaintenance
              /\ CommitUpdate(r)
    /\ position' = [position EXCEPT ![t] = {}]
    /\ result' = [result EXCEPT ![t] = {}]
    /\ UNCHANGED <<chainVars, damages, scan, baseline, saved>>

\* The caller gives its position up: syncEventLogs failed, apply refused, or
\* the page is closed.
Abandon(t) ==
    /\ position[t] # {}
    /\ position' = [position EXCEPT ![t] = {}]
    /\ result' = [result EXCEPT ![t] = {}]
    /\ UNCHANGED <<chainVars, db, generations, damages, scan, baseline, saved>>
-----------------------------------------------------------------------------
(* scan: pages of whole blocks, oldest first.                               *)

Ahead(from) == {l \in Present : Height[BlockOf[l]] >= from}

\* The page ends with the block in which it reaches its limit.
Page(from) ==
    {l \in Ahead(from) :
        Cardinality({m \in Ahead(from) :
            Height[BlockOf[m]] < Height[BlockOf[l]]}) < PageSize}

\* A page is read together with the first record after it.
Observed(from) == Page(from) \cup FirstOf(Ahead(from) \ Page(from))

\* An altered record in the page, or a gap in its digest chain.
PageCorrupt(from) ==
    \/ Observed(from) \cap db.altered # {}
    \/ \E l \in db.lost :
          /\ Height[BlockOf[l]] >= from
          /\ \/ Ahead(from) = Page(from)
             \/ \E m \in Observed(from) : Follows(m, l)

\* A page of logs is added to those the reader has; the last page comes with
\* the baseline of the whole scan, the others with a continuation.
DeliverPage(t, from, logs) ==
    LET held == logs \cup (Page(from) \ db.altered)
    IN  IF Ahead(from) = Page(from)
        THEN /\ scan' = [scan EXCEPT ![t] = {}]
             /\ baseline' = [baseline EXCEPT ![t] =
                   {[generation |-> db.generation, revision |-> db.revision,
                     cursor |-> db.cursor, logs |-> held]}]
        ELSE /\ scan' = [scan EXCEPT ![t] =
                   {[generation |-> db.generation, revision |-> db.revision,
                     cursor |-> db.cursor, logs |-> held,
                     next |-> NextAfter(StartBlock, {BlockOf[l] : l \in Page(from)})]}]
             /\ baseline' = [baseline EXCEPT ![t] = {}]

DropScan(t) ==
    /\ scan' = [scan EXCEPT ![t] = {}]
    /\ baseline' = [baseline EXCEPT ![t] = {}]

Idle(t) == scan[t] = {} /\ baseline[t] = {}

\* A scan from the start of the stream.
ScanFirst(t) ==
    /\ Idle(t)
    /\ \/ /\ Absent
          /\ CreateScope(0)
          /\ scan' = scan
          /\ baseline' = [baseline EXCEPT ![t] =
                {[generation |-> db'.generation, revision |-> 0,
                  cursor |-> {}, logs |-> {}]}]
       \/ /\ ~ Absent
          /\ HeaderCorrupt \/ EdgesCorrupt \/ PageCorrupt(StartBlock)
          /\ ResetScope
          /\ DropScan(t)
       \/ /\ ~ Absent
          /\ ~ (HeaderCorrupt \/ EdgesCorrupt \/ PageCorrupt(StartBlock))
          /\ UNCHANGED <<db, generations>>
          /\ DeliverPage(t, StartBlock, {})
    /\ UNCHANGED <<chainVars, damages, position, result, saved>>

\* The record the continuation stopped at still has the digest it had.
Anchored(c) == \A l \in LastOf(c.logs) : l \in db.logs /\ UpTo(db.logs, l) = c.logs

\* The next page of a scan, when nothing was written since the last one.  A
\* continuation serves once, whatever comes of it.
ScanNext(t) ==
    /\ \E c \in scan[t] :
        LET corrupt ==
                \/ Absent \/ HeaderCorrupt \/ EdgesCorrupt
                \/ /\ Current(c)
                   /\ LastOf(c.logs) \cap Damaged # {} \/ PageCorrupt(c.next)
        IN  \/ /\ corrupt
               /\ ResetScope
               /\ DropScan(t)
            \/ /\ ~ corrupt
               /\ Current(c)
               /\ Anchored(c)
               /\ UNCHANGED <<db, generations>>
               /\ DeliverPage(t, c.next, c.logs)
    /\ UNCHANGED <<chainVars, damages, position, result, saved>>

\* Mutant: a scope that has not fallen behind the baseline continues it.
ContinuesByHeight(b) ==
    /\ db.generation = b.generation
    /\ b.revision <= db.revision
    /\ NextAfter(StartBlock, b.cursor) <= NextAfter(StartBlock, db.cursor)

\* The scope still continues what the baseline saw: no reset, no rollback
\* past its newest checkpoint, and the same records below its next block.
Continues(b) ==
    LET below == LogsBefore(Present, NextAfter(StartBlock, b.cursor))
    IN  /\ db.generation = b.generation
        /\ b.revision <= db.revision
        /\ NextAfter(StartBlock, b.cursor) <= NextAfter(StartBlock, db.cursor)
        /\ b.revision = db.revision => db.cursor = b.cursor
        /\ b.cursor # {} => Newest(b.cursor) \in db.cursor
        /\ b.logs = {} => below = {}
        /\ b.logs # {} => \E l \in LastOf(below) \ db.altered :
                              UpTo(db.logs, l) = b.logs

\* A scan of what was added since a completed one.
ScanDelta(t) ==
    /\ scan[t] = {}
    /\ \E b \in baseline[t] :
        LET from == NextAfter(StartBlock, b.cursor)
            corrupt ==
                \/ Absent \/ HeaderCorrupt \/ EdgesCorrupt
                \/ /\ from <= NextAfter(StartBlock, db.cursor)
                   /\ Observed(from) \cap db.altered # {}
                \/ Continues(b) /\ PageCorrupt(from)
        IN  \/ /\ corrupt
               /\ ResetScope
               /\ DropScan(t)
            \/ /\ ~ corrupt
               /\ Continues(b)
               /\ UNCHANGED <<db, generations>>
               /\ DeliverPage(t, from, b.logs)
    /\ UNCHANGED <<chainVars, damages, position, result, saved>>

\* The reader stops, or the scan was refused, or corruption was left for a
\* later reset (resetOnCorruption: false).
StopReading(t) ==
    /\ ~ Idle(t)
    /\ DropScan(t)
    /\ UNCHANGED <<chainVars, db, generations, damages, position, result, saved>>

\* bindDerivedState: what was derived from a baseline the scope still stands
\* at is saved for a later session.
BindDerivedState(t) ==
    /\ ~ Absent
    /\ ~ HeaderCorrupt
    /\ ~ EdgesCorrupt
    /\ \E b \in baseline[t] :
        /\ Current(b)
        /\ saved' = {b}
    /\ UNCHANGED <<chainVars, db, generations, damages, position, result, scan,
                   baseline>>

\* authenticateDerivedState: saved state is taken up again.  Only the scope
\* record is read.
AuthenticateDerivedState(t) ==
    /\ Idle(t)
    /\ db.scope = "ok"
    /\ \E b \in saved :
        /\ db.generation = b.generation
        /\ b.revision <= db.revision
        /\ baseline' = [baseline EXCEPT ![t] = {b}]
    /\ UNCHANGED <<chainVars, db, generations, damages, position, result, scan,
                   saved>>
-----------------------------------------------------------------------------
(* The environment.                                                         *)

\* Stored data goes bad, or the browser evicts it.
Damage ==
    /\ damages < MaxDamage
    /\ damages' = damages + 1
    /\ \/ db.scope = "ok" /\ db' = [db EXCEPT !.scope = "bad"]
       \/ db.revision > 0 /\ db' = [db EXCEPT !.cursorBad = TRUE]
       \/ \E l \in db.logs \ Damaged :
             \/ db' = [db EXCEPT !.lost = @ \cup {l}]
             \/ db' = [db EXCEPT !.altered = @ \cup {l}]
       \/ ~ Absent /\ db' = [EmptyScope(0, 0) EXCEPT !.scope = "absent"]
    /\ UNCHANGED <<chainVars, generations, tabVars>>

Reorganize ==
    /\ MoveHead
    /\ UNCHANGED <<db, generations, damages, tabVars>>

Next ==
    \/ \E t \in Writer :
          \/ ReadLatest(t)
          \/ Synchronize(t)
          \/ Apply(t)
          \/ Abandon(t)
    \/ \E t \in Reader :
          \/ ScanFirst(t)
          \/ ScanNext(t)
          \/ ScanDelta(t)
          \/ StopReading(t)
          \/ BindDerivedState(t)
          \/ AuthenticateDerivedState(t)
    \/ Clear
    \/ Damage
    \/ Reorganize

Spec == Init /\ [][Next]_vars
-----------------------------------------------------------------------------
(* What the cache promises.                                                 *)

Held == (UNION {baseline[t] : t \in Reader}) \cup saved

Tokens ==
    (UNION {position[t] : t \in Writer}) \cup (UNION {scan[t] : t \in Reader})
        \cup Held

\* Neither the scope record nor the cursor record throws.
Readable == db.scope = "ok" /\ ~ db.cursorBad

Database ==
    [scope : {"absent", "ok", "bad"}, generation : Nat, revision : Nat,
     cursorBad : BOOLEAN, cursor : SUBSET Block, logs : SUBSET Log,
     lost : SUBSET Log, altered : SUBSET Log]

Position ==
    [generation : Nat, revision : Nat, cursor : SUBSET Block, logs : SUBSET Log]

Continuation ==
    [generation : Nat, revision : Nat, cursor : SUBSET Block, logs : SUBSET Log,
     next : Nat]

Result ==
    [checkpoints : SUBSET Block, rollbackTo : Nat \cup {Undefined},
     logs : SUBSET Log]

\* Every variable has its type, and every tab holds at most one of each thing.
TypeOK ==
    /\ ChainTypeOK
    /\ db \in Database
    /\ db.lost \cup db.altered \subseteq db.logs
    /\ db.lost \cap db.altered = {}
    /\ generations \in Nat
    /\ damages \in 0 .. MaxDamage
    /\ position \in [Writer -> SUBSET Position]
    /\ result \in [Writer -> SUBSET Result]
    /\ scan \in [Reader -> SUBSET Continuation]
    /\ baseline \in [Reader -> SUBSET Position]
    /\ \A t \in Writer : \A x \in {position[t], result[t]} : \A y, z \in x : y = z
    /\ \A t \in Reader : \A x \in {scan[t], baseline[t]} : \A y, z \in x : y = z
    /\ saved \subseteq Position

\* What the scope record and its digest chain commit to is the logs of the
\* branch the cursor record is on, whichever tabs wrote in which order.
StoredLogsMatchCursor ==
    Readable => /\ SameBranch(StartBlock, db.cursor)
                /\ db.logs = Committed(StartBlock, db.cursor)

\* A generation and a revision name one state of the scope: a tab that holds
\* the scope's own pair holds its cursor too, and its baseline the same logs,
\* even after clears, resets and evictions it did not see.
TokenNamesContent ==
    db.scope = "ok" =>
        \A h \in Tokens :
            h.generation = db.generation =>
                /\ h.revision <= db.revision
                /\ h.revision = db.revision =>
                      /\ h.cursor = db.cursor
                      /\ h \in Held => h.logs = db.logs

\* A reader whose pages are complete holds all the logs of its cursor's branch
\* and no others, although tabs wrote and records went bad between the pages,
\* and although a scan may continue a baseline of an earlier session.
BaselineIsWhole == \A b \in Held : b.logs = Committed(StartBlock, b.cursor)

\* A page of readLatest is the newest end of its cursor's branch, without gaps.
RecentPageIsNewest ==
    \A t \in Writer : \A p \in position[t] : p.logs = Recent(Committed(StartBlock, p.cursor))

Replica == INSTANCE LogReplica WITH
    tip <- IF Readable /\ db.cursor # {} THEN {Newest(db.cursor)} ELSE {},
    stored <- IF Readable THEN db.logs ELSE {},
    Disposable <- TRUE

\* However the tabs interleave, the scope is a replica that is dropped as a
\* whole or moves to a descendant: no tab undoes what another one stored.
ImplementsReplica == Replica!Spec
=============================================================================
