------------------------- MODULE EventCache_proofs -------------------------
(***************************************************************************)
(* Theorems about EventCache: for every chain, any number of tabs, any     *)
(* limits and any damage.  The last part shows the stored scope to be a    *)
(* replica of the chain in the sense of LogReplica.                        *)
(***************************************************************************)
EXTENDS EventCache, Cursors_proofs

-----------------------------------------------------------------------------
(* The stored logs and their order.                                         *)

\* What is stored is one lineage and its logs, whatever state the records
\* that hold it are in.
Stored ==
    /\ Lineage(StartBlock, db.cursor)
    /\ db.logs = Committed(StartBlock, db.cursor)

\* Streams start at a block number.
LEMMA StartIsNumber == StartBlock \in Nat
  BY CacheAssumption

\* Stored logs are logs of one branch, and finitely many.
LEMMA StoredLogs ==
    ASSUME Stored
    PROVE  /\ db.logs \subseteq Log
           /\ IsFiniteSet(db.logs)
           /\ \A l \in db.logs : /\ BlockOf[l] \in Block
                                 /\ Height[BlockOf[l]] \in Nat
                                 /\ Height[BlockOf[l]] >= StartBlock
                                 /\ LogIndex[l] \in Nat
           /\ \A l, m \in db.logs :
                 Height[BlockOf[l]] = Height[BlockOf[m]] => BlockOf[l] = BlockOf[m]
           /\ \E top \in Nat : \A l \in db.logs : Height[BlockOf[l]] <= top
<1>1. CASE db.cursor = {}
  <2>1. db.logs = {}
    BY <1>1 DEF Stored, Committed
  <2>. QED
    BY <2>1, FS_EmptySet
<1>2. CASE db.cursor # {}
  <2>. DEFINE b == Newest(db.cursor)
  <2>1. b \in Block
    BY <1>2, NewestIsLast DEF Stored, Lineage
  <2>2. db.logs = LogsThrough(b, StartBlock, Height[b])
    BY <1>2 DEF Stored, Committed
  <2>. HIDE DEF b
  <2>3. db.logs \in SUBSET {l \in Log : BlockOf[l] \in Ancestors[b]}
    BY <2>2 DEF LogsThrough
  <2>4. IsFiniteSet(db.logs)
    BY <2>1, <2>3, CacheAssumption, FS_Subset
  <2>5. Height[b] \in Nat
    BY <2>1, ChainAssumption
  <2>6. \A l \in db.logs : /\ BlockOf[l] \in Block
                           /\ Height[BlockOf[l]] \in Nat
                           /\ Height[BlockOf[l]] >= StartBlock
                           /\ Height[BlockOf[l]] <= Height[b]
                           /\ LogIndex[l] \in Nat
    BY <2>2, <2>5, ChainAssumption, CursorAssumption, CacheAssumption DEF LogsThrough
  <2>7. \A l, m \in db.logs :
           Height[BlockOf[l]] = Height[BlockOf[m]] => BlockOf[l] = BlockOf[m]
    BY <2>1, <2>3, <2>6, ChainAssumption
  <2>. QED
    BY <2>3, <2>4, <2>5, <2>6, <2>7
<1>. QED
  BY <1>1, <1>2

\* Some of the stored logs have a first one.
LEMMA FirstExists ==
    ASSUME Stored, NEW S \in SUBSET db.logs, S # {}
    PROVE  \E l \in S : l \in FirstOf(S)
<1>. DEFINE H(l) == Height[BlockOf[l]]
            heights == {H(l) : l \in S}
<1>1. heights \in SUBSET Nat /\ heights # {}
  BY StoredLogs
<1>2. PICK least \in heights : \A n \in heights : least <= n
  BY <1>1, LeastNumber
<1>. DEFINE lowest == {l \in S : H(l) = least}
            places == {LogIndex[l] : l \in lowest}
<1>3. places \in SUBSET Nat /\ places # {}
  BY <1>2, StoredLogs
<1>4. PICK place \in places : \A n \in places : place <= n
  BY <1>3, LeastNumber
<1>5. PICK first \in lowest : LogIndex[first] = place
  BY <1>4
<1>6. ASSUME NEW l \in S, l # first
      PROVE  Follows(l, first)
  <2>1. /\ H(l) \in Nat /\ H(first) \in Nat /\ least \in Nat
        /\ LogIndex[l] \in Nat /\ LogIndex[first] \in Nat
        /\ H(first) = least /\ least <= H(l)
        /\ l \in Log /\ first \in Log /\ l \in db.logs /\ first \in db.logs
    BY <1>1, <1>2, <1>5, StoredLogs
  <2>2. CASE H(l) = least
    <3>1. LogIndex[first] <= LogIndex[l]
      BY <2>2, <1>4, <1>5
    <3>2. BlockOf[l] = BlockOf[first]
      BY <2>1, <2>2, StoredLogs
    <3>3. LogIndex[first] # LogIndex[l]
      BY <3>2, <2>1, <1>6, CacheAssumption
    <3>. QED
      BY <2>1, <2>2, <3>1, <3>3 DEF Follows
  <2>. QED
    BY <2>1, <2>2 DEF Follows
<1>. QED
  BY <1>5, <1>6 DEF FirstOf, Later

\* Some of the stored blocks have a newest one.
LEMMA NewestExists ==
    ASSUME Stored, NEW S \in SUBSET db.logs, S # {}
    PROVE  \E last \in S :
              /\ \A l \in S : Height[BlockOf[l]] <= Height[BlockOf[last]]
              /\ NextAfter(StartBlock, {BlockOf[l] : l \in S}) = Height[BlockOf[last]] + 1
<1>. DEFINE H(l) == Height[BlockOf[l]]
            blocks == {BlockOf[l] : l \in S}
<1>1. PICK top \in Nat : \A l \in db.logs : H(l) <= top
  BY StoredLogs
<1>. DEFINE depths == {top - H(l) : l \in S}
<1>2. \A l \in S : H(l) \in Nat /\ H(l) <= top
  BY <1>1, StoredLogs
<1>3. depths \in SUBSET Nat /\ depths # {}
  BY <1>2
<1>4. PICK least \in depths : \A n \in depths : least <= n
  BY <1>3, LeastNumber
<1>5. PICK last \in S : top - H(last) = least
  BY <1>4
<1>6. \A l \in S : top - H(last) <= top - H(l)
  BY <1>4, <1>5
<1>7. \A l \in S : H(l) <= H(last)
  BY <1>2, <1>6
<1>8. BlockOf[last] \in blocks /\ \A c \in blocks : Height[c] <= H(last)
  BY <1>7
<1>9. /\ Newest(blocks) \in blocks
      /\ \A c \in blocks : Height[c] <= Height[Newest(blocks)]
  BY <1>8 DEF Newest
<1>10. Height[Newest(blocks)] = H(last)
  <2>1. H(last) <= Height[Newest(blocks)] /\ Height[Newest(blocks)] <= H(last)
    BY <1>8, <1>9
  <2>2. Height[Newest(blocks)] \in Nat /\ H(last) \in Nat
    BY <1>2, <1>9
  <2>. QED
    BY <2>1, <2>2
<1>11. NextAfter(StartBlock, blocks) = H(last) + 1
  BY <1>8, <1>10 DEF NextAfter
<1>. QED
  BY <1>7, <1>11

\* An intact page brings the logs from its first block to its last, and all
\* that are left when nothing follows it.
LEMMA PageIsWhole ==
    ASSUME Stored, NEW from \in Nat, ~ PageCorrupt(from)
    PROVE  LET held == LogsBefore(db.logs, from) \cup (Page(from) \ db.altered)
               next == NextAfter(StartBlock, {BlockOf[l] : l \in Page(from)})
           IN  /\ Ahead(from) = Page(from) => held = db.logs
               /\ Ahead(from) # Page(from) =>
                     next \in Nat /\ held = LogsBefore(db.logs, next)
<1>. DEFINE H(l) == Height[BlockOf[l]]
            A == Ahead(from)
            P == Page(from)
            Before(n) == {m \in A : H(m) < n}
<1>1. A = {l \in db.logs \ db.lost : H(l) >= from}
  BY DEF Ahead, Present
<1>2. P = {l \in A : Cardinality(Before(H(l))) < PageSize}
  BY DEF Page
<1>3. P \cap db.altered = {}
  BY DEF PageCorrupt, Observed
<1>4. \A l \in db.lost : H(l) >= from => /\ A # P
                                         /\ \A m \in Observed(from) : ~ Follows(m, l)
  BY DEF PageCorrupt
<1>. HIDE DEF A, P
<1>5. /\ \A l \in db.logs : H(l) \in Nat
      /\ A \subseteq db.logs /\ P \subseteq A
  BY <1>1, <1>2, StoredLogs
<1>6. LogsBefore(db.logs, from) = {l \in db.logs : H(l) < from}
  BY DEF LogsBefore
<1>7. CASE A = P
  <2>1. \A l \in db.logs : H(l) >= from => l \in P
    BY <1>1, <1>4, <1>7
  <2>2. LogsBefore(db.logs, from) \cup (P \ db.altered) = db.logs
    BY <1>3, <1>5, <1>6, <2>1
  <2>. QED
    BY <1>7, <2>2 DEF A, P
<1>8. CASE A # P
  <2>1. \A n \in Nat : Before(n) \in SUBSET db.logs /\ IsFiniteSet(Before(n))
                       /\ Cardinality(Before(n)) \in Nat
    BY <1>5, StoredLogs, FS_Subset, FS_CardinalityType
  <2>2. \A m, n \in Nat : m <= n => Before(m) \in SUBSET Before(n)
    BY <1>5
  <2>3. \A m, n \in Nat : m <= n => Cardinality(Before(m)) <= Cardinality(Before(n))
    BY <2>1, <2>2, FS_Subset
  <2>4. PICK f \in A \ P : f \in FirstOf(A \ P)
    BY <1>5, <1>8, FirstExists
  <2>5. f \in Observed(from)
    BY <2>4 DEF Observed, A, P
  <2>6. P # {}
    <3>1. PICK g \in A : g \in FirstOf(A)
      BY <1>5, <1>8, FirstExists
    <3>2. \A l \in A : l = g \/ Follows(l, g)
      BY <3>1 DEF FirstOf, Later
    <3>3. \A l \in A : H(g) <= H(l)
      BY <1>5, <3>1, <3>2 DEF Follows
    <3>4. Before(H(g)) = {}
      BY <1>5, <3>1, <3>3
    <3>5. Cardinality(Before(H(g))) = 0
      BY <3>4, FS_EmptySet
    <3>. QED
      BY <1>2, <3>1, <3>5, CacheAssumption
  <2>7. PICK last \in P : /\ \A l \in P : H(l) <= H(last)
                          /\ NextAfter(StartBlock, {BlockOf[l] : l \in P}) = H(last) + 1
    BY <1>5, <2>6, NewestExists
  <2>8. /\ H(last) \in Nat /\ H(last) >= from /\ H(f) \in Nat
        /\ last \in A /\ f \in A
    BY <1>1, <1>5, <2>4, <2>7
  <2>9. Cardinality(Before(H(last))) < PageSize
    BY <1>2, <2>7
  <2>. HIDE DEF Before
  <2>10. H(f) > H(last)
    <3>1. ASSUME H(f) <= H(last)  PROVE FALSE
      <4>1. Cardinality(Before(H(f))) <= Cardinality(Before(H(last)))
        BY <3>1, <2>3, <2>8
      <4>2. Cardinality(Before(H(f))) < PageSize
        BY <4>1, <2>1, <2>8, <2>9, CacheAssumption
      <4>. QED
        BY <4>2, <1>2, <2>4
    <3>. QED
      BY <3>1, <2>8
  <2>11. ASSUME NEW l \in db.logs, H(l) >= from, H(l) <= H(last)
         PROVE  l \in P
    <3>1. H(l) \in Nat
      BY <1>5
    <3>2. l \notin db.lost
      <4>1. Follows(f, l)
        BY <3>1, <2>8, <2>10, <2>11 DEF Follows
      <4>. QED
        BY <4>1, <1>4, <2>5, <2>11
    <3>3. l \in A
      BY <1>1, <2>11, <3>2
    <3>4. Cardinality(Before(H(l))) < PageSize
      BY <3>1, <2>1, <2>3, <2>8, <2>9, <2>11, CacheAssumption
    <3>. QED
      BY <1>2, <3>3, <3>4
  <2>12. LogsBefore(db.logs, from) \cup (P \ db.altered) =
             LogsBefore(db.logs, H(last) + 1)
    <3>1. LogsBefore(db.logs, H(last) + 1) = {l \in db.logs : H(l) < H(last) + 1}
      BY DEF LogsBefore
    <3>2. P \ db.altered = P
      BY <1>3
    <3>3. \A l \in P : l \in db.logs /\ H(l) < H(last) + 1
      BY <1>5, <2>7
    <3>4. \A l \in db.logs : H(l) < from => H(l) < H(last) + 1
      BY <1>5, <2>8
    <3>5. \A l \in db.logs : H(l) < H(last) + 1 => H(l) < from \/ l \in P
      BY <1>5, <2>8, <2>11
    <3>. QED
      BY <1>6, <3>1, <3>2, <3>3, <3>4, <3>5
  <2>13. H(last) + 1 \in Nat
    BY <2>8
  <2>. QED
    BY <1>8, <2>7, <2>12, <2>13 DEF A, P
<1>. QED
  BY <1>7, <1>8
-----------------------------------------------------------------------------
(* The invariant.                                                           *)

AtMostOne(S) == \A x, y \in S : x = y

\* The stored scope, whatever damage it took.
ScopeOK ==
    /\ db \in Database
    /\ db.lost \cup db.altered \subseteq db.logs
    /\ db.lost \cap db.altered = {}
    /\ generations \in Nat
    /\ db.generation <= generations
    /\ Stored

\* What a tab may know from a position, a continuation or a baseline: no
\* generation that was not drawn, no revision the scope has yet to reach, and
\* the scope's cursor when generation and revision are the scope's.
Known(h) ==
    /\ Lineage(StartBlock, h.cursor)
    /\ h.generation \in 0 .. generations
    /\ h.revision \in Nat
    /\ db.scope = "ok" /\ h.generation = db.generation =>
          /\ h.revision <= db.revision
          /\ h.revision = db.revision => h.cursor = db.cursor

\* A result turns the logs of its position into those of its checkpoints.
Fits(p, r) ==
    /\ Lineage(StartBlock, r.checkpoints)
    /\ Merged(Committed(StartBlock, p.cursor), r.rollbackTo, r.logs) = Committed(StartBlock, r.checkpoints)

Writers ==
    /\ position \in [Writer -> SUBSET Position]
    /\ result \in [Writer -> SUBSET Result]
    /\ \A t \in Writer :
          /\ AtMostOne(position[t]) /\ AtMostOne(result[t])
          /\ position[t] = {} => result[t] = {}
          /\ \A p \in position[t] : Known(p) /\ \A r \in result[t] : Fits(p, r)

\* The pages of an unfinished scan hold the logs below the next page.
HoldsPart(c) == c.logs = LogsBefore(Committed(StartBlock, c.cursor), c.next)
HoldsAll(b) == b.logs = Committed(StartBlock, b.cursor)

\* What one reader may hold.
ReaderHolds(cs, bs) ==
    /\ cs \in SUBSET Continuation /\ AtMostOne(cs)
    /\ bs \in SUBSET Position /\ AtMostOne(bs)
    /\ \A c \in cs : Known(c) /\ HoldsPart(c)
    /\ \A b \in bs : Known(b) /\ HoldsAll(b)

Readers ==
    /\ scan \in [Reader -> SUBSET Continuation]
    /\ baseline \in [Reader -> SUBSET Position]
    /\ \A t \in Reader : ReaderHolds(scan[t], baseline[t])
    /\ saved \subseteq Position
    /\ \A b \in saved : Known(b) /\ HoldsAll(b)

IInv ==
    /\ ChainTypeOK
    /\ damages \in 0 .. MaxDamage
    /\ ScopeOK
    /\ Writers
    /\ Readers

-----------------------------------------------------------------------------
(* What happens to the stored scope, and what tabs then still know.          *)

\* What a step of the scope must leave true.
ScopeMoves == ScopeOK' /\ \A h : Known(h) => Known(h)'

LEMMA ScopeStays ==
    ASSUME ScopeOK, UNCHANGED <<db, generations>>
    PROVE  ScopeMoves
  BY DEF ScopeMoves, ScopeOK, Stored, Known

LEMMA NothingCommitted == Lineage(StartBlock, {}) /\ Committed(StartBlock, {}) = {}
  BY EndsOfEmpty DEF Lineage, SameBranch, Committed

\* A new generation is one no tab knows.
LEMMA CreateMoves ==
    ASSUME ScopeOK, NEW revision \in Nat, CreateScope(revision)
    PROVE  ScopeMoves
<1>1. /\ generations' = generations + 1 /\ generations' \in Nat
      /\ db' = EmptyScope(generations + 1, revision)
  BY DEF CreateScope, ScopeOK
<1>2. ScopeOK'
  BY <1>1, NothingCommitted DEF ScopeOK, Stored, EmptyScope, Database
<1>3. ASSUME NEW h, Known(h)  PROVE Known(h)'
  BY <1>1, <1>3 DEF Known, EmptyScope, ScopeOK
<1>. QED
  BY <1>2, <1>3 DEF ScopeMoves

\* A reset moves the revision on, so nobody stands at the empty scope yet.
LEMMA ResetMoves ==
    ASSUME ScopeOK, ResetScope
    PROVE  ScopeMoves
<1>1. CASE db.scope = "ok"
  <2>1. /\ db' = EmptyScope(db.generation, db.revision + 1)
        /\ generations' = generations
        /\ db.generation \in Nat /\ db.revision \in Nat /\ generations \in Nat
        /\ db.generation <= generations
    BY <1>1 DEF ResetScope, ScopeOK, Database
  <2>2. ScopeOK'
    BY <2>1, NothingCommitted DEF ScopeOK, Stored, EmptyScope, Database
  <2>3. ASSUME NEW h, Known(h)  PROVE Known(h)'
    BY <1>1, <2>1, <2>3 DEF Known, EmptyScope
  <2>. QED
    BY <2>2, <2>3 DEF ScopeMoves
<1>2. CASE db.scope # "ok"
  BY <1>2, CreateMoves DEF ResetScope
<1>. QED
  BY <1>1, <1>2

\* Damage never makes a scope readable, and leaves generation, revision,
\* cursor and digests as they were or takes everything away.
LEMMA DamageMoves ==
    ASSUME ScopeOK, Damage
    PROVE  ScopeMoves
<1>1. generations' = generations /\ generations \in Nat
  BY DEF Damage, ScopeOK
<1>2. CASE ~ Absent /\ db' = [EmptyScope(0, 0) EXCEPT !.scope = "absent"]
  <2>0. db' = [scope |-> "absent", generation |-> 0, revision |-> 0,
               cursorBad |-> FALSE, cursor |-> {}, logs |-> {}, lost |-> {},
               altered |-> {}]
    BY <1>2 DEF EmptyScope
  <2>1. ScopeOK'
    BY <1>1, <2>0, NothingCommitted DEF ScopeOK, Stored, Database
  <2>2. ASSUME NEW h, Known(h)  PROVE Known(h)'
    BY <1>1, <2>0, <2>2 DEF Known
  <2>. QED
    BY <2>1, <2>2 DEF ScopeMoves
<1>3. CASE \/ db.scope = "ok" /\ db' = [db EXCEPT !.scope = "bad"]
           \/ db.revision > 0 /\ db' = [db EXCEPT !.cursorBad = TRUE]
           \/ \E l \in db.logs \ Damaged :
                 \/ db' = [db EXCEPT !.lost = @ \cup {l}]
                 \/ db' = [db EXCEPT !.altered = @ \cup {l}]
  <2>1. /\ db' \in Database
        /\ db'.lost \cup db'.altered \subseteq db'.logs
        /\ db'.lost \cap db'.altered = {}
    <3>1. /\ db \in Database /\ db.logs \in SUBSET Log
          /\ db.lost \in SUBSET db.logs /\ db.altered \in SUBSET db.logs
          /\ db.lost \cap db.altered = {}
      BY DEF ScopeOK, Database
    <3>2. CASE db' = [db EXCEPT !.scope = "bad"]
      BY <3>1, <3>2 DEF Database
    <3>3. CASE db' = [db EXCEPT !.cursorBad = TRUE]
      BY <3>1, <3>3 DEF Database
    <3>4. ASSUME NEW l \in db.logs \ Damaged, db' = [db EXCEPT !.lost = @ \cup {l}]
          PROVE  /\ db' \in Database
                 /\ db'.lost \cup db'.altered \subseteq db'.logs
                 /\ db'.lost \cap db'.altered = {}
      BY <3>1, <3>4 DEF Database, Damaged
    <3>5. ASSUME NEW l \in db.logs \ Damaged, db' = [db EXCEPT !.altered = @ \cup {l}]
          PROVE  /\ db' \in Database
                 /\ db'.lost \cup db'.altered \subseteq db'.logs
                 /\ db'.lost \cap db'.altered = {}
      BY <3>1, <3>5 DEF Database, Damaged
    <3>. QED
      BY <1>3, <3>2, <3>3, <3>4, <3>5
  <2>2. /\ db'.generation = db.generation /\ db'.revision = db.revision
        /\ db'.cursor = db.cursor /\ db'.logs = db.logs
        /\ db'.scope = "ok" => db.scope = "ok"
    BY <1>3 DEF ScopeOK, Database
  <2>3. ScopeOK'
    BY <1>1, <2>1, <2>2 DEF ScopeOK, Stored
  <2>4. ASSUME NEW h, Known(h)  PROVE Known(h)'
    BY <1>1, <2>2, <2>4 DEF Known
  <2>. QED
    BY <2>3, <2>4 DEF ScopeMoves
<1>. QED
  BY <1>2, <1>3 DEF Damage

\* A token with the generation, revision and cursor of the scope.
LEMMA OwnTokenIsKnown ==
    ASSUME ScopeOK, NEW h, h.generation = db.generation,
           h.revision = db.revision, h.cursor = db.cursor
    PROVE  Known(h)
  BY DEF ScopeOK, Stored, Known, Database

\* A rollback within the maintenance budget meets every record it removes.
LEMMA RemovedAreMet ==
    ASSUME ScopeOK, NEW r \in Result, Cardinality(Removed(r)) <= MaxMaintenance
    PROVE  Removed(r) \subseteq RolledOver(r)
<1>1. CASE r.rollbackTo = Undefined
  BY <1>1 DEF Removed
<1>2. CASE r.rollbackTo # Undefined
  <2>1. r.rollbackTo \in Nat
    BY <1>2 DEF Result
  <2>2. /\ Removed(r) = {l \in db.logs : Height[BlockOf[l]] >= r.rollbackTo}
        /\ \A l \in db.logs : Height[BlockOf[l]] \in Nat
    BY <1>2, <2>1, StoredLogs DEF Removed, LogsBefore, ScopeOK
  <2>3. IsFiniteSet(Removed(r)) /\ Cardinality(Removed(r)) \in Nat
    <3>1. Removed(r) \in SUBSET db.logs
      BY <2>2
    <3>. QED
      BY <3>1, StoredLogs, FS_Subset, FS_CardinalityType DEF ScopeOK
  <2>4. ASSUME NEW l \in Removed(r)  PROVE l \in RolledOver(r)
    <3>1. Later(db.logs, l) \in SUBSET Removed(r)
      BY <2>1, <2>2, <2>4 DEF Later, Follows
    <3>2. /\ IsFiniteSet(Later(db.logs, l))
          /\ Cardinality(Later(db.logs, l)) <= Cardinality(Removed(r))
      BY <2>3, <3>1, FS_Subset
    <3>3. Cardinality(Later(db.logs, l)) \in Nat
      BY <3>2, FS_CardinalityType
    <3>4. Cardinality(Later(db.logs, l)) <= MaxMaintenance
      BY <2>3, <3>2, <3>3, CacheAssumption
    <3>. QED
      BY <2>2, <2>4, <3>1, <3>4 DEF RolledOver
  <2>. QED
    BY <2>4
<1>. QED
  BY <1>1, <1>2

\* An update that was computed from the scope's own cursor leaves the logs of
\* the new cursor, and removes no record that is lost or altered.
LEMMA CommitMoves ==
    ASSUME ScopeOK, NEW p, NEW r \in Result, Fits(p, r),
           ~ ApplyCorrupt(r), Current(p), ~ RollbackCorrupt(r),
           Cardinality(Removed(r)) <= MaxMaintenance, CommitUpdate(r)
    PROVE  ScopeMoves
<1>. DEFINE merged == Merged(db.logs, r.rollbackTo, r.logs)
<1>1. /\ db.scope \in {"absent", "ok", "bad"} /\ db.generation \in Nat
      /\ db.revision \in Nat /\ db.cursorBad \in BOOLEAN
      /\ db.logs \in SUBSET Log
      /\ db.lost \in SUBSET db.logs /\ db.altered \in SUBSET db.logs
      /\ generations \in Nat /\ db.generation <= generations
  BY DEF ScopeOK, Database
<1>2. /\ db'.scope = db.scope /\ db'.generation = db.generation
      /\ db'.revision = db.revision + 1 /\ db'.cursorBad = db.cursorBad
      /\ db'.cursor = r.checkpoints /\ db'.logs = merged
      /\ db'.lost = db.lost /\ db'.altered = db.altered
      /\ generations' = generations
  BY DEF CommitUpdate, ScopeOK, Database
<1>3. Stored'
  <2>1. merged = Merged(Committed(StartBlock, p.cursor), r.rollbackTo, r.logs)
    BY DEF ScopeOK, Stored, Current
  <2>. QED
    BY <1>2, <2>1 DEF Stored, Fits
<1>4. merged = (db.logs \ Removed(r)) \cup r.logs
  BY DEF Merged, Removed, LogsBefore
<1>5. Removed(r) \cap (db.lost \cup db.altered) = {}
  <2>1. CASE r.rollbackTo = Undefined
    BY <2>1 DEF Removed
  <2>2. CASE r.rollbackTo # Undefined
    BY <2>2, RemovedAreMet DEF ApplyCorrupt, RollbackCorrupt
  <2>. QED
    BY <2>1, <2>2
<1>6. /\ db'.lost \cup db'.altered \subseteq db'.logs
      /\ db'.lost \cap db'.altered = {}
  BY <1>1, <1>2, <1>4, <1>5 DEF ScopeOK
<1>7. db' \in Database
  <2>1. merged \in SUBSET Log
    BY <1>1, <1>4 DEF Result
  <2>2. r.checkpoints \in SUBSET Block
    BY DEF Fits, Lineage
  <2>3. db' = [db EXCEPT !.revision = db.revision + 1, !.cursor = r.checkpoints,
                         !.logs = merged]
    BY DEF CommitUpdate
  <2>4. db \in Database
    BY DEF ScopeOK
  <2>. HIDE DEF merged
  <2>5. db' = [scope |-> db.scope, generation |-> db.generation,
               revision |-> db.revision + 1, cursorBad |-> db.cursorBad,
               cursor |-> r.checkpoints, logs |-> merged, lost |-> db.lost,
               altered |-> db.altered]
    BY <2>3, <2>4 DEF Database
  <2>6. db.lost \in SUBSET Log /\ db.altered \in SUBSET Log /\ db.revision + 1 \in Nat
    BY <1>1
  <2>. QED
    BY <1>1, <2>1, <2>2, <2>5, <2>6 DEF Database
<1>8. ScopeOK'
  BY <1>1, <1>2, <1>3, <1>6, <1>7 DEF ScopeOK
<1>9. ASSUME NEW h, Known(h)  PROVE Known(h)'
  BY <1>1, <1>2, <1>9 DEF Known
<1>. QED
  BY <1>8, <1>9 DEF ScopeMoves

-----------------------------------------------------------------------------
(* What happens to the tabs.                                                *)

\* Writers that do nothing lose nothing by what happens to the scope.
LEMMA WritersStay ==
    ASSUME Writers, ScopeMoves, UNCHANGED <<position, result>>
    PROVE  Writers'
<1>1. \A h : Known(h) => Known(h)'
  BY DEF ScopeMoves
<1>2. \A t \in Writer : \A p \in position[t] : Known(p)'
  BY <1>1 DEF Writers
<1>. QED
  BY <1>2 DEF Writers, AtMostOne, Fits

LEMMA ReadersStay ==
    ASSUME Readers, ScopeMoves, UNCHANGED <<scan, baseline, saved>>
    PROVE  Readers'
<1>1. \A h : Known(h) => Known(h)'
  BY DEF ScopeMoves
<1>2. ASSUME NEW t \in Reader  PROVE ReaderHolds(scan[t], baseline[t])'
  BY <1>1 DEF Readers, ReaderHolds, HoldsPart, HoldsAll, AtMostOne
<1>3. \A b \in saved : Known(b)' /\ HoldsAll(b)'
  BY <1>1 DEF Readers, HoldsAll
<1>. QED
  BY <1>2, <1>3 DEF Readers

\* One tab gets a new position and no result.
LEMMA WriterMoves ==
    ASSUME Writers, ScopeMoves, NEW t \in Writer,
           NEW ps \in SUBSET Position, AtMostOne(ps), \A p \in ps : Known(p)',
           position' = [position EXCEPT ![t] = ps],
           result' = [result EXCEPT ![t] = {}]
    PROVE  Writers'
<1>1. \A h : Known(h) => Known(h)'
  BY DEF ScopeMoves
<1>2. /\ position' \in [Writer -> SUBSET Position]
      /\ result' \in [Writer -> SUBSET Result]
  BY DEF Writers
<1>3. ASSUME NEW u \in Writer
      PROVE  /\ AtMostOne(position'[u]) /\ AtMostOne(result'[u])
             /\ position'[u] = {} => result'[u] = {}
             /\ \A p \in position'[u] : Known(p)' /\ \A r \in result'[u] : Fits(p, r)
  <2>1. CASE u = t
    <3>1. position'[u] = ps /\ result'[u] = {}
      BY <2>1 DEF Writers
    <3>. QED
      BY <3>1 DEF AtMostOne
  <2>2. CASE u # t
    <3>1. position'[u] = position[u] /\ result'[u] = result[u]
      BY <2>2 DEF Writers
    <3>2. \A p \in position[u] : Known(p)'
      BY <1>1 DEF Writers
    <3>. QED
      BY <3>1, <3>2 DEF Writers
  <2>. QED
    BY <2>1, <2>2
<1>. QED
  BY <1>2, <1>3 DEF Writers, AtMostOne, Fits

\* One tab gets what it holds from its scan replaced.
LEMMA ReaderMoves ==
    ASSUME Readers, ScopeMoves, NEW t \in Reader, NEW cs, NEW bs,
           ReaderHolds(cs, bs)',
           scan' = [scan EXCEPT ![t] = cs],
           baseline' = [baseline EXCEPT ![t] = bs],
           saved' = saved
    PROVE  Readers'
<1>1. \A h : Known(h) => Known(h)'
  BY DEF ScopeMoves
<1>2. cs \in SUBSET Continuation /\ bs \in SUBSET Position
  BY DEF ReaderHolds
<1>3. /\ scan' \in [Reader -> SUBSET Continuation]
      /\ baseline' \in [Reader -> SUBSET Position]
  BY <1>2 DEF Readers
<1>4. ASSUME NEW u \in Reader  PROVE ReaderHolds(scan[u], baseline[u])'
  <2>1. CASE u = t
    <3>1. scan'[u] = cs /\ baseline'[u] = bs
      BY <2>1 DEF Readers
    <3>. QED
      BY <3>1 DEF ReaderHolds, AtMostOne, HoldsPart, HoldsAll
  <2>2. CASE u # t
    <3>1. scan'[u] = scan[u] /\ baseline'[u] = baseline[u]
      BY <2>2 DEF Readers
    <3>. QED
      BY <1>1, <3>1 DEF Readers, ReaderHolds, AtMostOne, HoldsPart, HoldsAll
  <2>. QED
    BY <2>1, <2>2
<1>5. \A b \in saved' : Known(b)' /\ HoldsAll(b)'
  BY <1>1 DEF Readers, HoldsAll
<1>. QED
  BY <1>3, <1>4, <1>5 DEF Readers

\* The reader forgets its scan.
LEMMA ScanDropped ==
    ASSUME Readers, ScopeMoves, NEW t \in Reader, DropScan(t), saved' = saved
    PROVE  Readers'
<1>1. ReaderHolds({}, {})'
  BY DEF ReaderHolds, AtMostOne
<1>. QED
  BY <1>1, ReaderMoves DEF DropScan

\* A page after the logs below its first block completes the scan or holds
\* the logs below the next page.
LEMMA PageDelivered ==
    ASSUME ScopeOK, Readers, UNCHANGED <<db, generations>>, NEW t \in Reader,
           NEW from \in Nat, ~ PageCorrupt(from), saved' = saved,
           DeliverPage(t, from, LogsBefore(db.logs, from))
    PROVE  Readers'
<1>. DEFINE held == LogsBefore(db.logs, from) \cup (Page(from) \ db.altered)
            next == NextAfter(StartBlock, {BlockOf[l] : l \in Page(from)})
<1>b. PICK b : b = [generation |-> db.generation, revision |-> db.revision,
                    cursor |-> db.cursor, logs |-> held]
  OBVIOUS
<1>c. PICK c : c = [generation |-> db.generation, revision |-> db.revision,
                    cursor |-> db.cursor, logs |-> held, next |-> next]
  OBVIOUS
<1>1. ScopeMoves
  BY ScopeStays
<1>2. /\ Ahead(from) = Page(from) => held = db.logs
      /\ Ahead(from) # Page(from) => next \in Nat /\ held = LogsBefore(db.logs, next)
  BY PageIsWhole DEF ScopeOK
<1>3. /\ db.generation \in Nat /\ db.revision \in Nat
      /\ db.cursor \in SUBSET Block /\ db.logs \in SUBSET Log
      /\ db.logs = Committed(StartBlock, db.cursor)
  BY DEF ScopeOK, Database, Stored
<1>4. Known(b)' /\ Known(c)'
  <2>1. Known(b) /\ Known(c)
    <3>1. /\ b.generation = db.generation /\ b.revision = db.revision
          /\ b.cursor = db.cursor
      BY <1>b
    <3>2. /\ c.generation = db.generation /\ c.revision = db.revision
          /\ c.cursor = db.cursor
      BY <1>c
    <3>. QED
      BY <3>1, <3>2, OwnTokenIsKnown
  <2>. QED
    BY <1>1, <2>1 DEF ScopeMoves
<1>5. CASE Ahead(from) = Page(from)
  <2>1. b \in Position /\ HoldsAll(b)
    BY <1>b, <1>2, <1>3, <1>5 DEF Position, HoldsAll
  <2>2. ReaderHolds({}, {b})'
    BY <1>4, <2>1 DEF ReaderHolds, AtMostOne, HoldsAll
  <2>3. scan' = [scan EXCEPT ![t] = {}] /\ baseline' = [baseline EXCEPT ![t] = {b}]
    BY <1>b, <1>5 DEF DeliverPage
  <2>. QED
    BY <1>1, <2>2, <2>3, ReaderMoves
<1>6. CASE Ahead(from) # Page(from)
  <2>1. c \in Continuation /\ HoldsPart(c)
    <3>1. held \in SUBSET Log
      BY <1>2, <1>3, <1>6 DEF LogsBefore
    <3>. QED
      BY <1>c, <1>2, <1>3, <1>6, <3>1 DEF Continuation, HoldsPart
  <2>2. ReaderHolds({c}, {})'
    BY <1>4, <2>1 DEF ReaderHolds, AtMostOne, HoldsPart
  <2>3. scan' = [scan EXCEPT ![t] = {c}] /\ baseline' = [baseline EXCEPT ![t] = {}]
    BY <1>c, <1>6 DEF DeliverPage
  <2>. QED
    BY <1>1, <2>2, <2>3, ReaderMoves
<1>. QED
  BY <1>5, <1>6

\* What an earlier scan saw is what lies below its next block, if the scope
\* still has its newest checkpoint.
LEMMA BaselineIsBelow ==
    ASSUME ScopeOK, NEW b, Known(b), HoldsAll(b),
           b.cursor # {} => Newest(b.cursor) \in db.cursor
    PROVE  /\ NextAfter(StartBlock, b.cursor) \in Nat
           /\ LogsBefore(db.logs, NextAfter(StartBlock, b.cursor)) = b.logs
<1>1. /\ b.cursor \in SUBSET Block /\ HasEnds(b.cursor) /\ SameBranch(StartBlock, b.cursor)
      /\ b.logs = Committed(StartBlock, b.cursor)
  BY DEF Known, Lineage, HoldsAll
<1>2. NextAfter(StartBlock, b.cursor) \in Nat
  BY StartIsNumber, <1>1, NextAfterType
<1>3. CASE b.cursor = {}
  <2>1. b.logs = {} /\ NextAfter(StartBlock, b.cursor) = StartBlock
    BY <1>1, <1>3 DEF Committed, NextAfter
  <2>2. LogsBefore(db.logs, StartBlock) = {}
    BY StartIsNumber, StoredLogs, CursorAssumption DEF ScopeOK, LogsBefore
  <2>. QED
    BY <1>2, <2>1, <2>2
<1>4. CASE b.cursor # {}
  <2>. DEFINE n == Newest(b.cursor)
  <2>1. n \in db.cursor
    BY <1>4
  <2>2. Newest({n}) = n /\ {n} # {} /\ {n} \in SUBSET db.cursor
    BY <2>1 DEF Newest
  <2>3. NextAfter(StartBlock, {n}) = Height[n] + 1 /\ NextAfter(StartBlock, b.cursor) = Height[n] + 1
    BY <1>4, <2>2 DEF NextAfter
  <2>4. Committed(StartBlock, {n}) = Committed(StartBlock, b.cursor)
    BY <1>4, <2>2 DEF Committed
  <2>5. Committed(StartBlock, {n}) = LogsBefore(Committed(StartBlock, db.cursor), NextAfter(StartBlock, {n}))
    BY StartIsNumber, <2>2, LogsOfFewerCheckpoints DEF ScopeOK, Stored, Lineage
  <2>. HIDE DEF n
  <2>6. db.logs = Committed(StartBlock, db.cursor)
    BY DEF ScopeOK, Stored
  <2>. QED
    BY <1>1, <1>2, <2>3, <2>4, <2>5, <2>6
<1>. QED
  BY <1>3, <1>4

-----------------------------------------------------------------------------
(* The actions.                                                             *)

LEMMA ReadLatestKeeps ==
    ASSUME IInv, NEW t \in Writer, ReadLatest(t)
    PROVE  IInv'
<1>. USE DEF IInv
<1>1. ScopeMoves
  BY CreateMoves, ResetMoves, ScopeStays DEF ReadLatest
<1>2. PICK logs \in SUBSET Log : ReadPosition(t, logs)
  <2>1. Recent(Present) \ db.altered \in SUBSET Log
    BY DEF Recent, Present, ScopeOK, Database
  <2>. QED
    BY <2>1 DEF ReadLatest
<1>3. PICK p : p = [generation |-> db'.generation, revision |-> db'.revision,
                    cursor |-> db'.cursor, logs |-> logs]
  OBVIOUS
<1>4. ScopeOK' /\ db' \in Database
  BY <1>1 DEF ScopeMoves, ScopeOK
<1>5. p \in Position
  BY <1>3, <1>4 DEF Position, Database
<1>6. Known(p)'
  <2>1. /\ p.generation = db'.generation /\ p.revision = db'.revision
        /\ p.cursor = db'.cursor
    BY <1>3
  <2>. QED
    BY <1>4, <2>1 DEF ScopeOK, Stored, Known, Database
<1>7. position' = [position EXCEPT ![t] = {p}]
  BY <1>2, <1>3 DEF ReadPosition
<1>8. result' = [result EXCEPT ![t] = {}]
  <2>1. position[t] = {} /\ result' = result
    BY DEF ReadLatest
  <2>2. result[t] = {} /\ result \in [Writer -> SUBSET Result]
    BY <2>1 DEF Writers
  <2>. QED
    BY <2>1, <2>2
<1>9. Writers'
  <2>1. AtMostOne({p}) /\ {p} \in SUBSET Position /\ \A q \in {p} : Known(q)'
    BY <1>5, <1>6 DEF AtMostOne
  <2>. QED
    BY <1>1, <1>7, <1>8, <2>1, WriterMoves
<1>10. Readers'
  BY <1>1, ReadersStay DEF ReadLatest
<1>. QED
  BY <1>4, <1>9, <1>10 DEF ReadLatest, chainVars, ChainTypeOK

LEMMA SynchronizeKeeps ==
    ASSUME IInv, NEW t \in Writer, Synchronize(t)
    PROVE  IInv'
<1>. USE DEF IInv
<1>1. ScopeMoves
  BY ScopeStays DEF Synchronize
<1>2. PICK p \in position[t] : \E r \in SyncResults(StartBlock, p.cursor) :
          result' = [result EXCEPT ![t] = {r}]
  BY DEF Synchronize
<1>3. PICK r \in SyncResults(StartBlock, p.cursor) : result' = [result EXCEPT ![t] = {r}]
  BY <1>2
<1>4. Known(p)
  BY <1>2 DEF Writers
<1>5. r \in Result /\ Fits(p, r)
  <2>1. Lineage(StartBlock, p.cursor)
    BY <1>4 DEF Known
  <2>2. /\ Lineage(StartBlock, r.checkpoints)
        /\ r.rollbackTo \in Nat \cup {Undefined}
        /\ r.logs \subseteq Log
        /\ r = [checkpoints |-> r.checkpoints, rollbackTo |-> r.rollbackTo,
                logs |-> r.logs]
        /\ Merged(Committed(StartBlock, p.cursor), r.rollbackTo, r.logs)
               = Committed(StartBlock, r.checkpoints)
    BY StartIsNumber, <1>3, <2>1, SyncResultFits
  <2>. QED
    BY <2>2 DEF Result, Fits, Lineage
<1>6. position' = position /\ position \in [Writer -> SUBSET Position]
      /\ result \in [Writer -> SUBSET Result]
  BY DEF Synchronize, Writers
<1>7. result' \in [Writer -> SUBSET Result]
  BY <1>3, <1>5, <1>6
<1>8. \A h : Known(h) => Known(h)'
  BY <1>1 DEF ScopeMoves
<1>9. ASSUME NEW u \in Writer
      PROVE  /\ AtMostOne(position[u]) /\ AtMostOne(result'[u])
             /\ position[u] = {} => result'[u] = {}
             /\ \A q \in position[u] : Known(q)' /\ \A s \in result'[u] : Fits(q, s)
  <2>0. \A q \in position[u] : Known(q)'
    BY <1>8 DEF Writers
  <2>1. CASE u = t
    <3>1. result'[u] = {r}
      BY <1>3, <1>6, <2>1
    <3>2. \A q \in position[u] : q = p
      BY <1>2, <2>1 DEF Writers, AtMostOne
    <3>. QED
      BY <1>2, <1>5, <2>0, <2>1, <3>1, <3>2 DEF Writers, AtMostOne
  <2>2. CASE u # t
    <3>1. result'[u] = result[u]
      BY <1>3, <1>6, <2>2
    <3>. QED
      BY <2>0, <3>1 DEF Writers
  <2>. QED
    BY <2>1, <2>2
<1>10. Writers'
  BY <1>6, <1>7, <1>9 DEF Writers, AtMostOne, Fits
<1>11. Readers'
  BY <1>1, ReadersStay DEF Synchronize
<1>. QED
  BY <1>1, <1>10, <1>11 DEF Synchronize, chainVars, ChainTypeOK, ScopeMoves

LEMMA ApplyKeeps ==
    ASSUME IInv, NEW t \in Writer, Apply(t)
    PROVE  IInv'
<1>. USE DEF IInv
<1>1. PICK p \in position[t], r \in result[t] :
         \/ ResetScope
         \/ /\ ~ ApplyCorrupt(r) /\ Current(p) /\ ~ RollbackCorrupt(r)
            /\ Cardinality(Removed(r)) <= MaxMaintenance
            /\ CommitUpdate(r)
  BY DEF Apply
<1>2. r \in Result /\ Fits(p, r)
  BY <1>1 DEF Writers
<1>3. ScopeMoves
  BY <1>1, <1>2, ResetMoves, CommitMoves
<1>4. Writers'
  <2>1. AtMostOne({}) /\ \A q \in {} : Known(q)'
    BY DEF AtMostOne
  <2>2. /\ position' = [position EXCEPT ![t] = {}]
        /\ result' = [result EXCEPT ![t] = {}]
    BY DEF Apply
  <2>. QED
    BY <1>3, <2>1, <2>2, WriterMoves
<1>5. Readers'
  BY <1>3, ReadersStay DEF Apply
<1>. QED
  BY <1>3, <1>4, <1>5 DEF Apply, chainVars, ChainTypeOK, ScopeMoves

LEMMA AbandonKeeps ==
    ASSUME IInv, NEW t \in Writer, Abandon(t)
    PROVE  IInv'
<1>. USE DEF IInv
<1>1. ScopeMoves
  BY ScopeStays DEF Abandon
<1>2. Writers'
  <2>1. AtMostOne({}) /\ \A q \in {} : Known(q)'
    BY DEF AtMostOne
  <2>2. /\ position' = [position EXCEPT ![t] = {}]
        /\ result' = [result EXCEPT ![t] = {}]
    BY DEF Abandon
  <2>. QED
    BY <1>1, <2>1, <2>2, WriterMoves
<1>3. Readers'
  BY <1>1, ReadersStay DEF Abandon
<1>. QED
  BY <1>1, <1>2, <1>3 DEF Abandon, chainVars, ChainTypeOK, ScopeMoves

LEMMA ScanFirstKeeps ==
    ASSUME IInv, NEW t \in Reader, ScanFirst(t)
    PROVE  IInv'
<1>. USE DEF IInv
<1>1. ScopeMoves
  BY CreateMoves, ResetMoves, ScopeStays DEF ScanFirst
<1>2. saved' = saved /\ scan[t] = {} /\ scan \in [Reader -> SUBSET Continuation]
  BY DEF ScanFirst, Idle, Readers
<1>3. ASSUME /\ CreateScope(0)
             /\ scan' = scan
             /\ baseline' = [baseline EXCEPT ![t] =
                  {[generation |-> db'.generation, revision |-> 0,
                    cursor |-> {}, logs |-> {}]}]
      PROVE  Readers'
  <2>1. PICK b : b = [generation |-> db'.generation, revision |-> 0,
                      cursor |-> {}, logs |-> {}]
    OBVIOUS
  <2>2. ScopeOK' /\ db' \in Database
    BY <1>1 DEF ScopeMoves, ScopeOK
  <2>3. db'.revision = 0 /\ db'.cursor = {}
    BY <1>3 DEF CreateScope, EmptyScope
  <2>4. b \in Position
    BY <2>1, <2>2 DEF Position, Database
  <2>5. Known(b)'
    <3>1. b.generation = db'.generation /\ b.revision = db'.revision /\ b.cursor = db'.cursor
      BY <2>1, <2>3
    <3>. QED
      BY <2>2, <3>1 DEF ScopeOK, Stored, Known, Database
  <2>6. HoldsAll(b)
    BY <2>1, NothingCommitted DEF HoldsAll
  <2>7. ReaderHolds({}, {b})'
    BY <2>4, <2>5, <2>6 DEF ReaderHolds, AtMostOne, HoldsAll
  <2>8. scan' = [scan EXCEPT ![t] = {}] /\ baseline' = [baseline EXCEPT ![t] = {b}]
    BY <1>2, <1>3, <2>1
  <2>. QED
    BY <1>1, <1>2, <2>7, <2>8, ReaderMoves
<1>4. ASSUME DropScan(t)
      PROVE  Readers'
  BY <1>1, <1>2, <1>4, ScanDropped
<1>5. ASSUME /\ ~ PageCorrupt(StartBlock)
             /\ UNCHANGED <<db, generations>>
             /\ DeliverPage(t, StartBlock, {})
      PROVE  Readers'
  <2>1. LogsBefore(db.logs, StartBlock) = {}
    BY StartIsNumber, StoredLogs, CursorAssumption DEF ScopeOK, LogsBefore
  <2>. QED
    BY StartIsNumber, <1>2, <1>5, <2>1, PageDelivered, CursorAssumption
<1>6. Readers'
  BY <1>3, <1>4, <1>5 DEF ScanFirst
<1>7. Writers'
  BY <1>1, WritersStay DEF ScanFirst, tabVars
<1>. QED
  BY <1>1, <1>6, <1>7 DEF ScanFirst, chainVars, ChainTypeOK, ScopeMoves

LEMMA ScanNextKeeps ==
    ASSUME IInv, NEW t \in Reader, ScanNext(t)
    PROVE  IInv'
<1>. USE DEF IInv
<1>1. PICK c \in scan[t] :
         \/ ResetScope /\ DropScan(t)
         \/ /\ ~ PageCorrupt(c.next) /\ Current(c)
            /\ UNCHANGED <<db, generations>>
            /\ DeliverPage(t, c.next, c.logs)
  BY DEF ScanNext
<1>2. saved' = saved
  BY DEF ScanNext
<1>3. ScopeMoves
  BY <1>1, ResetMoves, ScopeStays
<1>4. ASSUME DropScan(t)
      PROVE  Readers'
  BY <1>2, <1>3, <1>4, ScanDropped
<1>5. ASSUME /\ ~ PageCorrupt(c.next) /\ Current(c)
             /\ UNCHANGED <<db, generations>>
             /\ DeliverPage(t, c.next, c.logs)
      PROVE  Readers'
  <2>1. c \in Continuation /\ HoldsPart(c)
    BY <1>1 DEF Readers, ReaderHolds
  <2>2. c.next \in Nat
    BY <2>1 DEF Continuation
  <2>3. c.logs = LogsBefore(db.logs, c.next)
    BY <1>5, <2>1 DEF HoldsPart, Current, ScopeOK, Stored
  <2>. QED
    BY <1>2, <1>5, <2>2, <2>3, PageDelivered
<1>6. Readers'
  BY <1>1, <1>4, <1>5
<1>7. Writers'
  BY <1>3, WritersStay DEF ScanNext
<1>. QED
  BY <1>3, <1>6, <1>7 DEF ScanNext, chainVars, ChainTypeOK, ScopeMoves

LEMMA ScanDeltaKeeps ==
    ASSUME IInv, NEW t \in Reader, ScanDelta(t)
    PROVE  IInv'
<1>. USE DEF IInv
<1>1. PICK b \in baseline[t] :
         \/ ResetScope /\ DropScan(t)
         \/ /\ ~ PageCorrupt(NextAfter(StartBlock, b.cursor)) /\ Continues(b)
            /\ UNCHANGED <<db, generations>>
            /\ DeliverPage(t, NextAfter(StartBlock, b.cursor), b.logs)
  BY DEF ScanDelta
<1>2. saved' = saved
  BY DEF ScanDelta
<1>3. ScopeMoves
  BY <1>1, ResetMoves, ScopeStays
<1>4. ASSUME DropScan(t)
      PROVE  Readers'
  BY <1>2, <1>3, <1>4, ScanDropped
<1>5. ASSUME /\ ~ PageCorrupt(NextAfter(StartBlock, b.cursor)) /\ Continues(b)
             /\ UNCHANGED <<db, generations>>
             /\ DeliverPage(t, NextAfter(StartBlock, b.cursor), b.logs)
      PROVE  Readers'
  <2>1. Known(b) /\ HoldsAll(b)
    BY <1>1 DEF Readers, ReaderHolds
  <2>2. b.cursor # {} => Newest(b.cursor) \in db.cursor
    BY <1>5 DEF Continues
  <2>3. /\ NextAfter(StartBlock, b.cursor) \in Nat
        /\ LogsBefore(db.logs, NextAfter(StartBlock, b.cursor)) = b.logs
    BY <2>1, <2>2, BaselineIsBelow
  <2>. QED
    BY <1>2, <1>5, <2>3, PageDelivered
<1>6. Readers'
  BY <1>1, <1>4, <1>5
<1>7. Writers'
  BY <1>3, WritersStay DEF ScanDelta
<1>. QED
  BY <1>3, <1>6, <1>7 DEF ScanDelta, chainVars, ChainTypeOK, ScopeMoves

\* Stopping, saving a baseline and taking a saved one up again.
LEMMA BaselineKept ==
    ASSUME IInv, NEW t \in Reader,
           \/ StopReading(t)
           \/ BindDerivedState(t)
           \/ AuthenticateDerivedState(t)
    PROVE  IInv'
<1>. USE DEF IInv
<1>1. UNCHANGED <<chainVars, db, generations, damages, position, result>>
  BY DEF StopReading, BindDerivedState, AuthenticateDerivedState
<1>2. ScopeMoves
  BY <1>1, ScopeStays
<1>h. \A h : Known(h) => Known(h)'
  BY <1>2 DEF ScopeMoves
<1>3. ASSUME StopReading(t)
      PROVE  Readers'
  BY <1>2, <1>3, ScanDropped DEF StopReading
<1>4. ASSUME BindDerivedState(t)
      PROVE  Readers'
  <2>1. PICK b \in baseline[t] : saved' = {b}
    BY <1>4 DEF BindDerivedState
  <2>2. b \in Position /\ Known(b)' /\ HoldsAll(b)
    BY <1>h, <2>1 DEF Readers, ReaderHolds
  <2>3. scan' = scan /\ baseline' = baseline
    BY <1>4 DEF BindDerivedState
  <2>4. ASSUME NEW u \in Reader  PROVE ReaderHolds(scan[u], baseline[u])'
    BY <1>h, <2>3 DEF Readers, ReaderHolds, HoldsPart, HoldsAll, AtMostOne
  <2>5. saved' \subseteq Position /\ \A x \in saved' : Known(x)' /\ HoldsAll(x)
    BY <2>1, <2>2
  <2>. QED
    BY <2>3, <2>4, <2>5 DEF Readers, HoldsAll
<1>5. ASSUME AuthenticateDerivedState(t)
      PROVE  Readers'
  <2>1. PICK b \in saved : baseline' = [baseline EXCEPT ![t] = {b}]
    BY <1>5 DEF AuthenticateDerivedState
  <2>2. b \in Position /\ Known(b)' /\ HoldsAll(b)
    BY <1>h DEF Readers
  <2>3. ReaderHolds({}, {b})'
    BY <2>2 DEF ReaderHolds, AtMostOne, HoldsAll
  <2>4. scan' = [scan EXCEPT ![t] = {}] /\ saved' = saved
    BY <1>5 DEF AuthenticateDerivedState, Idle, Readers
  <2>. QED
    BY <1>2, <2>1, <2>3, <2>4, ReaderMoves
<1>6. Readers'
  BY <1>3, <1>4, <1>5
<1>7. Writers'
  BY <1>1, <1>2, WritersStay
<1>. QED
  BY <1>1, <1>2, <1>6, <1>7 DEF chainVars, ChainTypeOK, ScopeMoves

\* clear, damage and reorganizations, which no tab takes part in.
LEMMA OutsideKeeps ==
    ASSUME IInv, Clear \/ Damage \/ Reorganize \/ UNCHANGED vars
    PROVE  IInv'
<1>. USE DEF IInv
<1>1. ScopeMoves
  BY ResetMoves, DamageMoves, ScopeStays DEF Clear, Reorganize, vars
<1>2. UNCHANGED tabVars
  BY DEF Clear, Damage, Reorganize, vars
<1>3. Writers' /\ Readers'
  BY <1>1, <1>2, WritersStay, ReadersStay DEF tabVars
<1>4. damages' \in 0 .. MaxDamage
  BY CacheAssumption DEF Clear, Damage, Reorganize, vars
<1>5. ChainTypeOK'
  <2>1. CASE MoveHead
    BY <2>1, ChainAssumption DEF MoveHead, ChainTypeOK
  <2>2. CASE UNCHANGED chainVars
    BY <2>2 DEF chainVars, ChainTypeOK
  <2>. QED
    BY <2>1, <2>2 DEF Clear, Damage, Reorganize, vars
<1>. QED
  BY <1>1, <1>3, <1>4, <1>5 DEF ScopeMoves
-----------------------------------------------------------------------------
(* The theorems.                                                            *)

\* What tabs, damage and reorganizations leave true whatever their order.
THEOREM CacheInvariant == Spec => []IInv
<1>1. Init => IInv
  <2>. SUFFICES ASSUME Init PROVE IInv
    OBVIOUS
  <2>1. db = [scope |-> "absent", generation |-> 0, revision |-> 0,
              cursorBad |-> FALSE, cursor |-> {}, logs |-> {}, lost |-> {},
              altered |-> {}]
    BY DEF Init, EmptyScope
  <2>2. ScopeOK
    <3>1. generations = 0
      BY DEF Init
    <3>. QED
      BY <2>1, <3>1, NothingCommitted DEF ScopeOK, Stored, Database
  <2>3. Writers
    BY DEF Init, Writers, AtMostOne
  <2>4. Readers
    BY DEF Init, Readers, ReaderHolds, AtMostOne
  <2>. QED
    BY <2>2, <2>3, <2>4, CacheAssumption DEF Init, IInv, ChainInit, ChainTypeOK
<1>2. IInv /\ [Next]_vars => IInv'
  BY ReadLatestKeeps, SynchronizeKeeps, ApplyKeeps, AbandonKeeps,
     ScanFirstKeeps, ScanNextKeeps, ScanDeltaKeeps, BaselineKept, OutsideKeeps
  DEF Next
<1>. QED
  BY <1>1, <1>2, PTL DEF Spec

\* Every variable has its type, and every tab holds at most one of each thing.
THEOREM TypeCorrect == Spec => []TypeOK
<1>1. IInv => TypeOK
  <2>. SUFFICES ASSUME IInv PROVE TypeOK
    OBVIOUS
  <2>1. \A t \in Writer : \A x \in {position[t], result[t]} : \A y, z \in x : y = z
    BY DEF IInv, Writers, AtMostOne
  <2>2. \A t \in Reader : \A x \in {scan[t], baseline[t]} : \A y, z \in x : y = z
    BY DEF IInv, Readers, ReaderHolds, AtMostOne
  <2>. QED
    BY <2>1, <2>2 DEF IInv, TypeOK, ScopeOK, Writers, Readers
<1>. QED
  BY <1>1, CacheInvariant, PTL

\* The stored logs are those of the branch the stored cursor is on.
THEOREM StoreIsConsistent == Spec => []StoredLogsMatchCursor
<1>1. IInv => StoredLogsMatchCursor
  BY DEF IInv, ScopeOK, Stored, Lineage, StoredLogsMatchCursor
<1>. QED
  BY <1>1, CacheInvariant, PTL

LEMMA HeldIsWhole == IInv => BaselineIsWhole
<1>. SUFFICES ASSUME IInv, NEW b \in Held PROVE b.logs = Committed(StartBlock, b.cursor)
  BY DEF BaselineIsWhole
<1>1. CASE \E t \in Reader : b \in baseline[t]
  BY <1>1 DEF IInv, Readers, ReaderHolds, HoldsAll
<1>2. CASE b \in saved
  BY <1>2 DEF IInv, Readers, HoldsAll
<1>3. b \in UNION {baseline[t] : t \in Reader} \/ b \in saved
  BY DEF Held
<1>. QED
  BY <1>1, <1>2, <1>3

\* A reader whose pages are complete holds the logs of its cursor's branch.
THEOREM BaselinesAreWhole == Spec => []BaselineIsWhole
  BY HeldIsWhole, CacheInvariant, PTL

\* A generation and a revision name one state of the scope.
THEOREM TokensAreAuthentic == Spec => []TokenNamesContent
<1>1. IInv => TokenNamesContent
  <2>. SUFFICES ASSUME IInv, db.scope = "ok", NEW h \in Tokens,
                       h.generation = db.generation
                PROVE  /\ h.revision <= db.revision
                       /\ h.revision = db.revision =>
                             /\ h.cursor = db.cursor
                             /\ h \in Held => h.logs = db.logs
    BY DEF TokenNamesContent
  <2>1. Known(h)
    <3>1. CASE \E t \in Writer : h \in position[t]
      BY <3>1 DEF IInv, Writers
    <3>2. CASE \E t \in Reader : h \in scan[t] \cup baseline[t]
      BY <3>2 DEF IInv, Readers, ReaderHolds
    <3>3. CASE h \in saved
      BY <3>3 DEF IInv, Readers
    <3>4. \/ h \in UNION {position[t] : t \in Writer}
          \/ h \in UNION {scan[t] : t \in Reader}
          \/ h \in UNION {baseline[t] : t \in Reader}
          \/ h \in saved
      BY DEF Tokens, Held
    <3>. QED
      BY <3>1, <3>2, <3>3, <3>4
  <2>2. h \in Held => h.logs = Committed(StartBlock, h.cursor)
    BY HeldIsWhole DEF BaselineIsWhole
  <2>3. db.logs = Committed(StartBlock, db.cursor)
    BY DEF IInv, ScopeOK, Stored
  <2>. QED
    BY <2>1, <2>2, <2>3 DEF Known
<1>. QED
  BY <1>1, CacheInvariant, PTL
-----------------------------------------------------------------------------
(* The newest page.                                                          *)

\* Any two stored logs are in order.
LEMMA LogsOrdered ==
    ASSUME Stored, NEW l \in db.logs, NEW m \in db.logs
    PROVE  /\ l = m \/ Follows(l, m) \/ Follows(m, l)
           /\ ~ (Follows(l, m) /\ Follows(m, l))
           /\ \A n \in db.logs : Follows(l, m) /\ Follows(m, n) => Follows(l, n)
<1>1. l = m \/ Follows(l, m) \/ Follows(m, l)
  <2>1. CASE Height[BlockOf[l]] = Height[BlockOf[m]]
    <3>1. BlockOf[l] = BlockOf[m] /\ l \in Log /\ m \in Log
      BY <2>1, StoredLogs
    <3>2. LogIndex[l] = LogIndex[m] => l = m
      BY <3>1, CacheAssumption
    <3>. QED
      BY <2>1, <3>2, StoredLogs DEF Follows
  <2>. QED
    BY <2>1, StoredLogs DEF Follows
<1>2. ~ (Follows(l, m) /\ Follows(m, l))
  BY StoredLogs DEF Follows
<1>3. ASSUME NEW n \in db.logs, Follows(l, m), Follows(m, n)
      PROVE  Follows(l, n)
  BY <1>3, StoredLogs DEF Follows
<1>. QED
  BY <1>1, <1>2, <1>3

\* Of some stored logs, the one with the fewest after it is the last.
LEMMA LastExists ==
    ASSUME Stored, NEW S \in SUBSET db.logs, S # {}
    PROVE  \E l \in S : l \in LastOf(S)
<1>. DEFINE after == {Cardinality(Later(S, l)) : l \in S}
<1>1. \A l \in S : /\ Later(S, l) \in SUBSET db.logs /\ IsFiniteSet(Later(S, l))
                   /\ Cardinality(Later(S, l)) \in Nat
  BY StoredLogs, FS_Subset, FS_CardinalityType DEF Later
<1>2. after \in SUBSET Nat /\ after # {}
  BY <1>1
<1>3. PICK least \in after : \A n \in after : least <= n
  BY <1>2, LeastNumber
<1>4. PICK last \in S : Cardinality(Later(S, last)) = least
  BY <1>3
<1>5. ASSUME NEW m \in Later(S, last)  PROVE FALSE
  <2>1. m \in S /\ Follows(m, last)
    BY DEF Later
  <2>2. m \notin Later(S, m)
    BY <2>1, LogsOrdered DEF Later
  <2>3. Later(S, m) \in SUBSET Later(S, last)
    BY <1>4, <2>1, LogsOrdered DEF Later
  <2>4. Cardinality(Later(S, m)) < Cardinality(Later(S, last))
    <3>1. Later(S, m) # Later(S, last)
      BY <2>2
    <3>. QED
      BY <1>1, <1>4, <2>3, <3>1, FS_Subset, FS_CardinalityType
  <2>. QED
    BY <1>1, <1>3, <1>4, <2>1, <2>4
<1>. QED
  BY <1>5 DEF LastOf

\* A page of readLatest that is not found corrupt is the newest end of what was
\* stored.
LEMMA RecentIsWhole ==
    ASSUME Stored, db.lost \subseteq db.logs, ~ RecentCorrupt
    PROVE  Recent(Present) \ db.altered = Recent(db.logs)
<1>. DEFINE H(l) == Height[BlockOf[l]]
            R == Recent(Present)
            seen == Visited(Present)
            oldest == FirstOf(R)
            block == {l \in Present : \E m \in oldest : H(l) >= H(m)}
<1>1. /\ Present = db.logs \ db.lost
      /\ R \subseteq Present
      /\ \A l \in db.logs : H(l) \in Nat
  BY StoredLogs DEF Present, Recent
<1>2. seen = block \cup LastOf(Present \ block)
  BY DEF Visited
<1>3. seen \cap db.altered = {}
  BY DEF RecentCorrupt
<1>4. \A l \in db.lost : seen # Present /\ \A m \in seen : ~ Follows(l, m)
  BY DEF RecentCorrupt
<1>5. R \subseteq block
  <2>1. CASE R # {}
    <3>1. PICK o \in R : o \in oldest
      BY <1>1, <2>1, FirstExists
    <3>2. \A l \in R : l = o \/ Follows(l, o)
      BY <3>1 DEF FirstOf, Later
    <3>3. /\ o \in Present /\ H(o) \in Nat
          /\ \A l \in R : l \in Present /\ H(l) \in Nat
      BY <1>1
    <3>. HIDE DEF R, oldest
    <3>4. ASSUME NEW l \in R  PROVE H(l) >= H(o)
      BY <3>2, <3>3 DEF Follows
    <3>. QED
      BY <3>1, <3>3, <3>4
  <2>. QED
    BY <2>1
<1>6. R \subseteq seen /\ R \ db.altered = R
  BY <1>2, <1>3, <1>5
<1>7. \A S \in SUBSET db.logs : \A l : /\ Later(S, l) \in SUBSET db.logs
                                       /\ IsFiniteSet(Later(S, l))
                                       /\ Cardinality(Later(S, l)) \in Nat
  BY StoredLogs, FS_Subset, FS_CardinalityType DEF Later
<1>8. \A S, T \in SUBSET db.logs : \A l, m : Later(S, l) \in SUBSET Later(T, m) =>
         Cardinality(Later(S, l)) <= Cardinality(Later(T, m))
  BY <1>7, FS_Subset
<1>. HIDE DEF seen, block, oldest
<1>9. CASE db.lost = {}
  <2>1. Present = db.logs
    BY <1>1, <1>9
  <2>. QED
    BY <1>6, <2>1
<1>10. CASE db.lost # {}
  <2>1. ASSUME NEW l \in R  PROVE l \in Recent(db.logs)
    <3>1. Later(db.logs, l) = Later(Present, l)
      BY <1>1, <1>4, <1>6 DEF Later
    <3>. QED
      BY <1>1, <3>1 DEF Recent
  <2>2. ASSUME NEW l \in Recent(db.logs), l \in Present  PROVE l \in R
    <3>1. Later(Present, l) \in SUBSET Later(db.logs, l)
      BY <1>1 DEF Later
    <3>2. Cardinality(Later(Present, l)) <= Cardinality(Later(db.logs, l))
      BY <1>1, <1>8, <3>1
    <3>3. Cardinality(Later(Present, l)) < RecentLimit
      <4>1. /\ Cardinality(Later(db.logs, l)) \in Nat
            /\ Cardinality(Later(Present, l)) \in Nat
            /\ Cardinality(Later(db.logs, l)) < RecentLimit
        BY <1>1, <1>7, <2>2 DEF Recent
      <4>. QED
        BY <3>2, <4>1, CacheAssumption
    <3>. QED
      BY <2>2, <3>3 DEF Recent
  <2>3. ASSUME NEW l \in Recent(db.logs), l \in db.lost  PROVE FALSE
    <3>1. Present \ block # {}
      <4>1. ASSUME Present \ block = {}  PROVE seen = Present
        <5>1. LastOf(Present \ block) = {} /\ block \subseteq Present
          BY <4>1 DEF LastOf, block
        <5>. QED
          BY <1>2, <4>1, <5>1
      <4>. QED
        BY <1>4, <2>3, <4>1
    <3>2. PICK x \in Present \ block : x \in LastOf(Present \ block)
      BY <1>1, <3>1, LastExists
    <3>3. x \in seen /\ x \in Present /\ x \in db.logs /\ x \notin R
      BY <1>1, <1>2, <1>5, <3>2
    <3>4. Follows(x, l)
      BY <1>1, <1>4, <2>3, <3>3, LogsOrdered
    <3>5. Later(Present, x) \in SUBSET Later(db.logs, l)
      BY <1>1, <2>3, <3>3, <3>4, LogsOrdered DEF Later
    <3>6. Cardinality(Later(Present, x)) <= Cardinality(Later(db.logs, l))
      BY <1>1, <1>8, <3>5
    <3>7. Cardinality(Later(db.logs, l)) < RecentLimit
      BY <2>3 DEF Recent
    <3>8. ~ (Cardinality(Later(Present, x)) < RecentLimit)
      BY <3>3 DEF Recent
    <3>9. /\ Cardinality(Later(db.logs, l)) \in Nat
          /\ Cardinality(Later(Present, x)) \in Nat
      BY <1>1, <1>7
    <3>. QED
      BY <3>6, <3>7, <3>8, <3>9, CacheAssumption
  <2>. QED
    BY <1>1, <1>6, <2>1, <2>2, <2>3 DEF Recent
<1>. QED
  BY <1>9, <1>10

\* What readLatest returns is the newest end of its cursor's branch.
LEMMA PositionIsNewest ==
    ASSUME IInv, NEW t \in Writer, ReadLatest(t), RecentPageIsNewest
    PROVE  RecentPageIsNewest'
<1>. USE DEF IInv
<1>1. PICK logs : ReadPosition(t, logs) /\ logs = Recent(Committed(StartBlock, db'.cursor))
  <2>1. CASE CreateScope(0) /\ ReadPosition(t, {})
    <3>1. db'.cursor = {}
      BY <2>1 DEF CreateScope, EmptyScope
    <3>. QED
      BY <2>1, <3>1, NothingCommitted DEF Recent
  <2>2. CASE ResetScope /\ ReadPosition(t, {})
    <3>1. db'.cursor = {}
      BY <2>2 DEF ResetScope, CreateScope, EmptyScope
    <3>. QED
      BY <2>2, <3>1, NothingCommitted DEF Recent
  <2>3. CASE ~ RecentCorrupt /\ UNCHANGED db /\ ReadPosition(t, Recent(Present) \ db.altered)
    <3>1. Recent(Present) \ db.altered = Recent(Committed(StartBlock, db.cursor))
      BY <2>3, RecentIsWhole DEF ScopeOK, Stored
    <3>. QED
      BY <2>3, <3>1
  <2>. QED
    BY <2>1, <2>2, <2>3 DEF ReadLatest
<1>2. PICK p : p = [generation |-> db'.generation, revision |-> db'.revision,
                    cursor |-> db'.cursor, logs |-> logs]
  OBVIOUS
<1>3. position' = [position EXCEPT ![t] = {p}] /\ position \in [Writer -> SUBSET Position]
  BY <1>1, <1>2 DEF ReadPosition, Writers
<1>4. p.logs = Recent(Committed(StartBlock, p.cursor))
  BY <1>1, <1>2
<1>5. \A u \in Writer : \A q \in position'[u] :
         q.logs = Recent(Committed(StartBlock, q.cursor))
  BY <1>3, <1>4 DEF RecentPageIsNewest
<1>. QED
  BY <1>5 DEF RecentPageIsNewest

\* A page of readLatest has no gap, although records of the scope are lost and
\* altered, and it says at which cursor it was read.
THEOREM RecentPagesAreNewest == Spec => []RecentPageIsNewest
<1>1. Init => RecentPageIsNewest
  BY DEF Init, RecentPageIsNewest
<1>2. IInv /\ RecentPageIsNewest /\ [Next]_vars => RecentPageIsNewest'
  <2>. SUFFICES ASSUME IInv, RecentPageIsNewest, [Next]_vars
                PROVE  RecentPageIsNewest'
    OBVIOUS
  <2>1. CASE \E t \in Writer : ReadLatest(t)
    BY <2>1, PositionIsNewest
  <2>2. CASE \A t \in Writer : position'[t] \in SUBSET position[t]
    BY <2>2 DEF RecentPageIsNewest, Recent, Later, Follows, Committed, LogsThrough
  <2>3. CASE UNCHANGED position
    BY <2>3 DEF RecentPageIsNewest, Recent, Later, Follows, Committed, LogsThrough
  <2>4. CASE \E t \in Writer : Apply(t) \/ Abandon(t)
    <3>1. position \in [Writer -> SUBSET Position]
      BY DEF IInv, Writers
    <3>2. \A t \in Writer : position'[t] \in SUBSET position[t]
      BY <2>4, <3>1 DEF Apply, Abandon
    <3>. QED
      BY <2>2, <3>2
  <2>5. CASE \E t \in Reader : \/ ScanFirst(t) \/ ScanNext(t) \/ ScanDelta(t)
                               \/ StopReading(t) \/ BindDerivedState(t)
                               \/ AuthenticateDerivedState(t)
    BY <2>3, <2>5 DEF ScanFirst, ScanNext, ScanDelta, StopReading, BindDerivedState,
       AuthenticateDerivedState
  <2>. QED
    BY <2>1, <2>3, <2>4, <2>5
    DEF Next, Synchronize, Clear, Damage, Reorganize, vars, tabVars
<1>. QED
  BY <1>1, <1>2, CacheInvariant, PTL DEF Spec
-----------------------------------------------------------------------------
(* The strengthening.                                                       *)

\* What replaces these checkpoints continues their newest, or starts over,
\* unless that block is abandoned.
Succeeds(new, old) ==
    /\ new \subseteq EverCanonical
    /\ \/ old = {}
       \/ Newest(old) \in orphaned
       \/ new = {}
       \/ Newest(old) \in Ancestors[Newest(new)]

\* What a tab is about to apply to the position it read.
Proposal(p, rs) ==
    /\ p.cursor \subseteq EverCanonical
    /\ \A r \in rs : Succeeds(r.checkpoints, p.cursor)

Proposals ==
    \A t \in Writer : \A p \in position[t] : Proposal(p, result[t])

TipInv ==
    /\ Ancestors[head] \cap orphaned = {}
    /\ db.cursor \subseteq EverCanonical
    /\ Proposals

-----------------------------------------------------------------------------
(* What a step may do to the scope.                                         *)

\* A tab commits a result to the position it was computed from.
Commits ==
    \E t \in Writer : \E p \in position[t], r \in result[t] :
        /\ ~ ApplyCorrupt(r)
        /\ Current(p)
        /\ CommitUpdate(r)

Emptied == db'.cursor = {} /\ db'.logs = {}

\* Damage that leaves the cursor where it is.
Worsens ==
    /\ db'.cursor = db.cursor /\ db'.logs = db.logs
    /\ Readable' => Readable

LEMMA ResetEmpties ==
    ASSUME (\E n \in Nat : CreateScope(n)) \/ ResetScope
    PROVE  Emptied
  BY DEF CreateScope, ResetScope, EmptyScope, Emptied

LEMMA DamageWorsens ==
    ASSUME IInv, Damage
    PROVE  Worsens \/ Emptied
<1>1. db \in Database
  BY DEF IInv, ScopeOK
<1>2. CASE db' = [EmptyScope(0, 0) EXCEPT !.scope = "absent"]
  BY <1>2 DEF Emptied, EmptyScope
<1>3. CASE db' = [db EXCEPT !.scope = "bad"]
  BY <1>1, <1>3 DEF Worsens, Readable, Database
<1>4. CASE db' = [db EXCEPT !.cursorBad = TRUE]
  BY <1>1, <1>4 DEF Worsens, Readable, Database
<1>5. ASSUME NEW l, db' = [db EXCEPT !.lost = @ \cup {l}]
             \/ db' = [db EXCEPT !.altered = @ \cup {l}]
      PROVE  Worsens
  BY <1>1, <1>5 DEF Worsens, Readable, Database
<1>. QED
  BY <1>2, <1>3, <1>4, <1>5 DEF Damage

\* Every step of the cache does one of these to the scope.
LEMMA ScopeSteps ==
    ASSUME IInv, [Next]_vars
    PROVE  \/ MoveHead /\ UNCHANGED db
           \/ /\ UNCHANGED chainVars
              /\ UNCHANGED db \/ Emptied \/ Worsens \/ Commits
<1>1. ASSUME NEW t \in Writer, ReadLatest(t) \/ Synchronize(t) \/ Abandon(t)
      PROVE  UNCHANGED chainVars /\ (UNCHANGED db \/ Emptied)
  BY <1>1, ResetEmpties DEF ReadLatest, Synchronize, Abandon
<1>2. ASSUME NEW t \in Writer, Apply(t)
      PROVE  UNCHANGED chainVars /\ (Emptied \/ Commits)
  BY <1>2, ResetEmpties DEF Apply, Commits
<1>3. ASSUME NEW t \in Reader,
             \/ ScanFirst(t) \/ ScanNext(t) \/ ScanDelta(t)
             \/ StopReading(t) \/ BindDerivedState(t) \/ AuthenticateDerivedState(t)
      PROVE  UNCHANGED chainVars /\ (UNCHANGED db \/ Emptied)
  BY <1>3, ResetEmpties
  DEF ScanFirst, ScanNext, ScanDelta, StopReading, BindDerivedState,
      AuthenticateDerivedState
<1>4. CASE Clear
  BY <1>4, ResetEmpties DEF Clear
<1>5. CASE Damage
  BY <1>5, DamageWorsens DEF Damage
<1>6. CASE Reorganize
  BY <1>6 DEF Reorganize
<1>7. CASE UNCHANGED vars
  BY <1>7 DEF vars
<1>. QED
  BY <1>1, <1>2, <1>3, <1>4, <1>5, <1>6, <1>7 DEF Next

\* A commit leaves a lineage that succeeds the one it found, with its logs.
LEMMA CommitSucceeds ==
    ASSUME IInv, IInv', TipInv, Commits
    PROVE  /\ Readable
           /\ Succeeds(db'.cursor, db.cursor)
           /\ db'.logs = Committed(StartBlock, db'.cursor)
<1>1. PICK t \in Writer : \E p \in position[t], r \in result[t] :
         ~ ApplyCorrupt(r) /\ Current(p) /\ CommitUpdate(r)
  BY DEF Commits
<1>2. PICK p \in position[t], r \in result[t] :
         ~ ApplyCorrupt(r) /\ Current(p) /\ CommitUpdate(r)
  BY <1>1
<1>3. db'.cursor = r.checkpoints /\ db.cursor = p.cursor
  BY <1>2 DEF CommitUpdate, Current, IInv, ScopeOK, Database
<1>4. Succeeds(r.checkpoints, p.cursor)
  BY <1>2 DEF TipInv, Proposals, Proposal
<1>5. Readable
  BY <1>2 DEF ApplyCorrupt, HeaderCorrupt, Absent, Readable, IInv, ScopeOK, Database
<1>6. db'.logs = Committed(StartBlock, db'.cursor)
  BY DEF IInv, ScopeOK, Stored
<1>. QED
  BY <1>3, <1>4, <1>5, <1>6
-----------------------------------------------------------------------------
(* The strengthening is an invariant.                                       *)

\* What was canonical, or abandoned, remains so when the branch moves.
LEMMA SucceedsRemains ==
    ASSUME NEW new, NEW old, Succeeds(new, old),
           EverCanonical \subseteq EverCanonical', orphaned \subseteq orphaned'
    PROVE  Succeeds(new, old)'
  BY DEF Succeeds

\* Steps that give no tab a position or a result.
LEMMA ProposalsRemain ==
    ASSUME Proposals,
           EverCanonical \subseteq EverCanonical', orphaned \subseteq orphaned',
           \A t \in Writer : position'[t] \subseteq position[t] /\ result'[t] \subseteq result[t]
    PROVE  Proposals'
<1>1. SUFFICES ASSUME NEW t \in Writer, NEW p \in position'[t]
               PROVE  /\ p.cursor \subseteq EverCanonical'
                      /\ \A r \in result'[t] : Succeeds(r.checkpoints, p.cursor)'
  BY DEF Proposals, Proposal
<1>2. p \in position[t] /\ result'[t] \subseteq result[t]
  OBVIOUS
<1>3. /\ p.cursor \subseteq EverCanonical
      /\ \A r \in result'[t] : Succeeds(r.checkpoints, p.cursor)
  BY <1>2 DEF Proposals, Proposal
<1>. QED
  BY <1>3, SucceedsRemains

LEMMA ReadLatestProposals ==
    ASSUME IInv, TipInv, NEW t \in Writer, ReadLatest(t),
           db'.cursor \subseteq EverCanonical
    PROVE  Proposals'
<1>1. PICK p : /\ position' = [position EXCEPT ![t] = {p}]
               /\ p.cursor = db'.cursor
  <2>1. PICK logs : ReadPosition(t, logs)
    BY DEF ReadLatest
  <2>. DEFINE new == [generation |-> db'.generation, revision |-> db'.revision,
                      cursor |-> db'.cursor, logs |-> logs]
  <2>2. position' = [position EXCEPT ![t] = {new}]
    BY <2>1 DEF ReadPosition
  <2>3. new.cursor = db'.cursor
    OBVIOUS
  <2>. HIDE DEF new
  <2>. QED
    BY <2>2, <2>3
<1>2. /\ UNCHANGED chainVars /\ result' = result /\ result[t] = {}
      /\ position \in [Writer -> SUBSET Position]
  BY DEF ReadLatest, IInv, Writers
<1>3. EverCanonical' = EverCanonical /\ orphaned' = orphaned
  BY <1>2 DEF chainVars, EverCanonical
<1>4. ASSUME NEW u \in Writer, NEW q \in position'[u]
      PROVE  /\ q.cursor \subseteq EverCanonical
             /\ \A r \in result[u] : Succeeds(r.checkpoints, q.cursor)
  <2>1. CASE u = t
    BY <1>1, <1>2, <1>4, <2>1
  <2>2. CASE u # t
    <3>1. q \in position[u]
      BY <1>1, <1>2, <1>4, <2>2
    <3>. QED
      BY <3>1 DEF TipInv, Proposals, Proposal
  <2>. QED
    BY <2>1, <2>2
<1>. QED
  BY <1>2, <1>3, <1>4 DEF Proposals, Proposal, Succeeds

LEMMA SynchronizeProposals ==
    ASSUME IInv, TipInv, NEW t \in Writer, Synchronize(t)
    PROVE  Proposals'
<1>1. PICK p \in position[t] : \E r \in SyncResults(StartBlock, p.cursor) :
          result' = [result EXCEPT ![t] = {r}]
  BY DEF Synchronize
<1>2. PICK r \in SyncResults(StartBlock, p.cursor) : result' = [result EXCEPT ![t] = {r}]
  BY <1>1
<1>3. /\ Lineage(StartBlock, p.cursor) /\ ChainTypeOK /\ result \in [Writer -> SUBSET Result]
      /\ \A q \in position[t] : q = p
  BY <1>1 DEF IInv, Writers, Known, AtMostOne
<1>4. p.cursor \subseteq EverCanonical /\ Ancestors[head] \cap orphaned = {}
  BY <1>1 DEF TipInv, Proposals, Proposal
<1>5. Succeeds(r.checkpoints, p.cursor)
  BY StartIsNumber, <1>2, <1>3, <1>4, SyncResultKeepsTip DEF Succeeds
<1>6. /\ EverCanonical' = EverCanonical /\ orphaned' = orphaned /\ position' = position
  BY DEF Synchronize, chainVars, EverCanonical
<1>7. ASSUME NEW u \in Writer, NEW q \in position[u], NEW x \in result'[u]
      PROVE  Succeeds(x.checkpoints, q.cursor)
  <2>1. CASE u = t
    BY <1>2, <1>3, <1>5, <1>7, <2>1
  <2>2. CASE u # t
    <3>1. x \in result[u]
      BY <1>2, <1>3, <1>7, <2>2
    <3>. QED
      BY <3>1 DEF TipInv, Proposals, Proposal
  <2>. QED
    BY <2>1, <2>2
<1>. QED
  BY <1>6, <1>7 DEF TipInv, Proposals, Proposal, Succeeds

\* What is left of the tabs' variables in the other steps.
LEMMA OtherProposals ==
    ASSUME IInv, TipInv, [Next]_vars,
           \A t \in Writer : ~ ReadLatest(t) /\ ~ Synchronize(t)
    PROVE  Proposals'
<1>1. position \in [Writer -> SUBSET Position] /\ result \in [Writer -> SUBSET Result]
  BY DEF IInv, Writers
<1>2. EverCanonical \subseteq EverCanonical' /\ orphaned \subseteq orphaned'
  <2>1. CASE MoveHead
    BY <2>1, ResultsRemain
  <2>2. CASE UNCHANGED chainVars
    BY <2>2 DEF chainVars, EverCanonical
  <2>. QED
    BY <2>1, <2>2, ScopeSteps
<1>3. \/ UNCHANGED <<position, result>>
      \/ \E t \in Writer : /\ position' = [position EXCEPT ![t] = {}]
                           /\ result' = [result EXCEPT ![t] = {}]
  BY DEF Next, vars, tabVars, Apply, Abandon, ScanFirst, ScanNext, ScanDelta,
     StopReading, BindDerivedState, AuthenticateDerivedState, Clear, Damage, Reorganize
<1>4. \A t \in Writer : position'[t] \subseteq position[t] /\ result'[t] \subseteq result[t]
  BY <1>1, <1>3
<1>. QED
  BY <1>2, <1>4, ProposalsRemain DEF TipInv

LEMMA TipStep ==
    ASSUME IInv, IInv', TipInv, [Next]_vars
    PROVE  TipInv'
<1>1. Ancestors[head'] \cap orphaned' = {}
  <2>1. CASE MoveHead
    BY <2>1 DEF MoveHead
  <2>2. CASE UNCHANGED chainVars
    BY <2>2 DEF chainVars, TipInv
  <2>. QED
    BY <2>1, <2>2, ScopeSteps
<1>2. db'.cursor \subseteq EverCanonical /\ EverCanonical \subseteq EverCanonical'
  <2>1. CASE MoveHead /\ UNCHANGED db
    BY <2>1, ResultsRemain DEF TipInv
  <2>2. ASSUME UNCHANGED chainVars, UNCHANGED db \/ Emptied \/ Worsens
        PROVE  db'.cursor \subseteq EverCanonical /\ EverCanonical \subseteq EverCanonical'
    BY <2>2 DEF chainVars, EverCanonical, TipInv, Emptied, Worsens
  <2>3. ASSUME UNCHANGED chainVars, Commits
        PROVE  db'.cursor \subseteq EverCanonical /\ EverCanonical \subseteq EverCanonical'
    BY <2>3, CommitSucceeds DEF chainVars, EverCanonical, Succeeds
  <2>. QED
    BY <2>1, <2>2, <2>3, ScopeSteps
<1>3. Proposals'
  BY <1>2, ReadLatestProposals, SynchronizeProposals, OtherProposals
<1>. QED
  BY <1>1, <1>2, <1>3 DEF TipInv

-----------------------------------------------------------------------------
(* The refinement.                                                          *)

\* The abstract replica: what can still be read of the scope.
Tip == IF Readable /\ db.cursor # {} THEN {Newest(db.cursor)} ELSE {}
Logs == IF Readable THEN db.logs ELSE {}

LEMMA CommitPublishes ==
    ASSUME IInv, IInv', TipInv, Commits, UNCHANGED chainVars
    PROVE  Replica!Publish \/ Replica!Forget
<1>1. /\ Readable /\ Succeeds(db'.cursor, db.cursor)
      /\ db'.logs = Committed(StartBlock, db'.cursor)
  BY CommitSucceeds
<1>2. Readable'
  BY <1>1 DEF Commits, CommitUpdate, Readable, IInv, ScopeOK, Database
<1>3. /\ Tip = IF db.cursor # {} THEN {Newest(db.cursor)} ELSE {}
      /\ Tip' = IF db'.cursor # {} THEN {Newest(db'.cursor)} ELSE {}
      /\ Logs' = Committed(StartBlock, db'.cursor)
  BY <1>1, <1>2 DEF Tip, Logs
<1>4. CASE db'.cursor = {}
  <2>1. Tip' = {} /\ Logs' = {}
    BY <1>3, <1>4 DEF Committed
  <2>2. Replica!Forget
    BY <2>1 DEF Tip, Logs, Replica!Forget, Replica!chainVars, chainVars
  <2>. QED
    BY <2>2
<1>5. CASE db'.cursor # {}
  <2>1. Newest(db'.cursor) \in EverCanonical
    <3>1. Lineage(StartBlock, db'.cursor)
      BY DEF IInv, ScopeOK, Stored
    <3>. QED
      BY <1>1, <1>5, <3>1, NewestIsLast DEF Lineage, Succeeds
  <2>2. Tip \subseteq orphaned \/ Tip \subseteq Ancestors[Newest(db'.cursor)]
    BY <1>1, <1>3, <1>5 DEF Succeeds
  <2>3. Logs' = LogsThrough(Newest(db'.cursor), StartBlock, Height[Newest(db'.cursor)])
    BY <1>3, <1>5 DEF Committed
  <2>4. PICK b : b = Newest(db'.cursor)
    OBVIOUS
  <2>5. /\ Tip' = {b} /\ b \in EverCanonical
        /\ Tip \subseteq orphaned \/ Tip \subseteq Ancestors[b]
        /\ Logs' = UNION {LogsThrough(c, StartBlock, Height[c]) : c \in {b}}
    BY <1>3, <1>5, <2>1, <2>2, <2>3, <2>4
  <2>6. Replica!Publish
    BY <2>5 DEF Tip, Logs, Replica!Publish, Replica!chainVars, chainVars,
       Replica!LogsThrough, LogsThrough, Replica!EverCanonical, EverCanonical
  <2>. QED
    BY <2>6
<1>. QED
  BY <1>4, <1>5

LEMMA StepReplicates ==
    ASSUME IInv, IInv', TipInv, [Next]_vars
    PROVE  [Replica!Next]_(Replica!replicaVars)
<1>1. CASE MoveHead /\ UNCHANGED db
  <2>1. Tip' = Tip /\ Logs' = Logs
    BY <1>1 DEF Tip, Logs, Readable
  <2>2. Replica!Reorganize
    BY <1>1, <2>1 DEF Tip, Logs, MoveHead, Canonical, Replica!Reorganize,
       Replica!MoveHead, Replica!Canonical
  <2>. QED
    BY <2>2 DEF Replica!Next
<1>2. ASSUME UNCHANGED chainVars, Tip' = Tip, Logs' = Logs
      PROVE  UNCHANGED Replica!replicaVars
  BY <1>2 DEF Tip, Logs, Replica!replicaVars, Replica!chainVars, chainVars
<1>3. ASSUME UNCHANGED chainVars, Tip' = {}, Logs' = {}
      PROVE  Replica!Next
  BY <1>3 DEF Tip, Logs, Replica!Next, Replica!Forget, Replica!chainVars, chainVars
<1>4. ASSUME UNCHANGED chainVars, UNCHANGED db
      PROVE  [Replica!Next]_(Replica!replicaVars)
  BY <1>2, <1>4 DEF Tip, Logs, Readable
<1>5. ASSUME UNCHANGED chainVars, Emptied
      PROVE  Replica!Next
  BY <1>3, <1>5 DEF Tip, Logs, Emptied
<1>6. ASSUME UNCHANGED chainVars, Worsens
      PROVE  [Replica!Next]_(Replica!replicaVars)
  <2>1. CASE Readable'
    BY <1>2, <1>6, <2>1 DEF Tip, Logs, Worsens
  <2>2. CASE ~ Readable'
    BY <1>3, <1>6, <2>2 DEF Tip, Logs
  <2>. QED
    BY <2>1, <2>2
<1>7. ASSUME UNCHANGED chainVars, Commits
      PROVE  Replica!Next
  BY <1>7, CommitPublishes DEF Replica!Next
<1>. QED
  BY <1>1, <1>4, <1>5, <1>6, <1>7, ScopeSteps

\* However the tabs interleave, whatever damage the records take and wherever
\* the branch moves, the scope is dropped as a whole or moves to a descendant
\* of its block, unless that block was abandoned: no tab undoes what another
\* one stored.
THEOREM ScopeIsReplica == Spec => ImplementsReplica
<1>1. Init => Replica!Init
  BY DEF Init, ChainInit, EmptyScope, Readable, Replica!Init, Replica!ChainInit
<1>2. Init => TipInv
  <2>1. SUFFICES ASSUME Init  PROVE TipInv
    OBVIOUS
  <2>2. db.cursor = {} /\ orphaned = {} /\ \A t \in Writer : position[t] = {}
    BY <2>1 DEF Init, ChainInit, EmptyScope
  <2>. QED
    BY <2>2 DEF TipInv, Proposals
<1>3. IInv /\ IInv' /\ TipInv /\ [Next]_vars => TipInv'
  BY TipStep
<1>4. IInv /\ IInv' /\ TipInv /\ [Next]_vars => [Replica!Next]_(Replica!replicaVars)
  BY StepReplicates
<1>. QED
  BY <1>1, <1>2, <1>3, <1>4, CacheInvariant, PTL
  DEF Spec, ImplementsReplica, Replica!Spec
=============================================================================
