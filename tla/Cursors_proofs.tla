--------------------------- MODULE Cursors_proofs ---------------------------
(***************************************************************************)
(* Facts about checkpoints and the logs they stand for, used by the proofs *)
(* about the modules that extend Cursors.                                  *)
(***************************************************************************)
EXTENDS Cursors, FiniteSetTheorems, WellFoundedInduction, TLAPS

\* The CHOOSE of Newest picks a newest checkpoint when there is one.
LEMMA NewestIsLast ==
    ASSUME NEW cps \in SUBSET Block, HasEnds(cps), cps # {}
    PROVE  /\ Newest(cps) \in cps
           /\ \A d \in cps : Height[d] <= Height[Newest(cps)]
<1>1. PICK new \in cps : \A d \in cps : Height[d] <= Height[new]
  BY DEF HasEnds
<1>. QED
  BY <1>1 DEF Newest

\* The CHOOSE of Oldest picks an oldest checkpoint when there is one.
LEMMA OldestIsFirst ==
    ASSUME NEW cps \in SUBSET Block, HasEnds(cps), cps # {}
    PROVE  /\ Oldest(cps) \in cps
           /\ \A d \in cps : Height[Oldest(cps)] <= Height[d]
<1>1. PICK old \in cps : \A d \in cps : Height[old] <= Height[d]
  BY DEF HasEnds
<1>. QED
  BY <1>1 DEF Oldest

\* Fewer checkpoints still have ends, and so has the empty set.
LEMMA EndsOfSubset ==
    ASSUME NEW cps, HasEnds(cps), NEW sub \in SUBSET cps
    PROVE  HasEnds(sub)
  BY DEF HasEnds

LEMMA EndsOfEmpty == HasEnds({})
  BY DEF HasEnds

\* Adding a block above all others keeps the ends.
LEMMA EndsOfExtension ==
    ASSUME NEW cps \in SUBSET Block, HasEnds(cps), NEW b \in Block,
           \A d \in cps : Height[d] < Height[b]
    PROVE  HasEnds(cps \cup {b})
<1>. SUFFICES ASSUME NEW S \in SUBSET (cps \cup {b}), S # {}
              PROVE  \E old, new \in S : \A d \in S :
                        Height[old] <= Height[d] /\ Height[d] <= Height[new]
  BY DEF HasEnds
<1>h. \A d \in cps \cup {b} : Height[d] \in Nat
  BY ChainAssumption
<1>1. CASE b \notin S
  BY <1>1 DEF HasEnds
<1>2. CASE S = {b}
  BY <1>2, <1>h
<1>3. CASE b \in S /\ S # {b}
  <2>1. S \ {b} \in SUBSET cps /\ S \ {b} # {}
    BY <1>3
  <2>2. PICK old \in S \ {b} : \A d \in S \ {b} : Height[old] <= Height[d]
    BY <2>1 DEF HasEnds
  <2>3. \A d \in S : Height[old] <= Height[d] /\ Height[d] <= Height[b]
    BY <2>1, <2>2, <1>h
  <2>. QED
    BY <2>3, <1>3, <2>2
<1>. QED
  BY <1>1, <1>2, <1>3

\* The block after a valid cursor's checkpoints is a block number.
LEMMA NextAfterType ==
    ASSUME NEW start \in Nat, NEW cps \in SUBSET Block, HasEnds(cps)
    PROVE  NextAfter(start, cps) \in Nat
  BY NewestIsLast, ChainAssumption, CursorAssumption DEF NextAfter

\* Dropping newer checkpoints of one branch drops exactly the logs from the
\* new resumption point on.
LEMMA LogsOfFewerCheckpoints ==
    ASSUME NEW start \in Nat, NEW all \in SUBSET Block, SameBranch(start, all), HasEnds(all),
           NEW cps \in SUBSET all
    PROVE  /\ Committed(start, cps) = LogsBefore(Committed(start, all), NextAfter(start, cps))
           /\ NextAfter(start, cps) = NextAfter(start, all) => Committed(start, cps) = Committed(start, all)
           /\ NextAfter(start, cps) >= start
<1>. DEFINE last == Newest(all)
            stop == Newest(cps)
<1>h. \A b \in Block : Height[b] \in Nat
  BY ChainAssumption
<1>l. \A l \in Log : BlockOf[l] \in Block
  BY ChainAssumption
<1>1. CASE cps = {}
  <2>1. NextAfter(start, cps) = start /\ Committed(start, cps) = {}
    BY <1>1 DEF NextAfter, Committed
  <2>2. LogsBefore(Committed(start, all), start) = {}
    BY <1>h, <1>l, CursorAssumption
    DEF LogsBefore, Committed, LogsThrough
  <2>3. NextAfter(start, cps) = NextAfter(start, all) => all = {}
    <3>1. ASSUME all # {}  PROVE NextAfter(start, all) # start
      <4>1. last \in all
        BY <3>1, NewestIsLast
      <4>2. Height[last] >= start /\ NextAfter(start, all) = Height[last] + 1
        BY <4>1, <3>1 DEF SameBranch, NextAfter
      <4>. QED
        BY <4>1, <4>2, <1>h, CursorAssumption
    <3>. QED
      BY <3>1, <2>1
  <2>. QED
    BY <2>1, <2>2, <2>3, CursorAssumption, <1>1
<1>2. CASE cps # {}
  <2>1. /\ stop \in cps /\ stop \in all /\ stop \in Block
        /\ last \in all /\ last \in Block
        /\ Height[stop] <= Height[last]
    BY <1>2, NewestIsLast, EndsOfSubset
  <2>2. stop \in Ancestors[last]
    BY <2>1 DEF SameBranch
  <2>3. NextAfter(start, cps) = Height[stop] + 1 /\ NextAfter(start, all) = Height[last] + 1
    BY <1>2, <2>1 DEF NextAfter, SameBranch
  <2>4. ASSUME NEW l \in Log, Height[BlockOf[l]] <= Height[stop]
        PROVE  BlockOf[l] \in Ancestors[last] <=> BlockOf[l] \in Ancestors[stop]
    BY <2>1, <2>2, <2>4, <1>l, ChainAssumption
  <2>5. Committed(start, all) = LogsThrough(last, start, Height[last])
    BY <2>1 DEF Committed
  <2>6. Committed(start, cps) = LogsThrough(stop, start, Height[stop])
    BY <1>2 DEF Committed
  <2>7. Committed(start, cps) = LogsBefore(Committed(start, all), Height[stop] + 1)
    BY <2>1, <2>4, <2>5, <2>6, <1>h, <1>l, CursorAssumption
    DEF LogsBefore, LogsThrough
  <2>8. Height[stop] = Height[last] => stop = last
    BY <2>1, <2>2, ChainAssumption
  <2>9. Height[stop] >= start
    BY <2>1 DEF SameBranch
  <2>10. NextAfter(start, cps) = NextAfter(start, all) => Committed(start, cps) = Committed(start, all)
    <3>1. NextAfter(start, cps) = NextAfter(start, all) => stop = last
      BY <2>1, <2>3, <2>8, <1>h
    <3>. QED
      BY <3>1, <2>5, <2>6
  <2>11. NextAfter(start, cps) >= start
    BY <2>1, <2>3, <2>9, <1>h, CursorAssumption
  <2>. QED
    BY <2>3, <2>7, <2>10, <2>11
<1>. QED
  BY <1>1, <1>2

\* Trimming the oldest checkpoint leaves the one just accepted.
LEMMA AcceptedCheckpointStays ==
    ASSUME NEW cps \in SUBSET Block, HasEnds(cps), NEW b \in Block,
           \A d \in cps : Height[d] < Height[b]
    PROVE  /\ WithCheckpoint(cps, b) \subseteq cps \cup {b}
           /\ b \in WithCheckpoint(cps, b)
           /\ HasEnds(WithCheckpoint(cps, b))
           /\ Newest(WithCheckpoint(cps, b)) = b
<1>. DEFINE all == cps \cup {b}
            trimmed == WithCheckpoint(cps, b)
<1>1. HasEnds(all) /\ all \in SUBSET Block /\ all # {}
  BY EndsOfExtension
<1>2. trimmed \subseteq all
  BY DEF WithCheckpoint
<1>3. b \in trimmed
  <2>1. CASE Cardinality(all) > MaxCheckpoints
    <3>1. cps # {}
      <4>1. Cardinality({b}) = 1
        BY FS_Singleton
      <4>2. ASSUME cps = {}  PROVE all = {b}
        BY <4>2
      <4>. QED
        BY <2>1, <4>1, <4>2, CursorAssumption
    <3>2. PICK d \in cps : TRUE
      BY <3>1
    <3>3. Height[Oldest(all)] <= Height[d] /\ Height[d] < Height[b]
      BY <1>1, <3>2, OldestIsFirst
    <3>4. Oldest(all) # b
      BY <3>3, <3>2, ChainAssumption
    <3>. QED
      BY <2>1, <3>4 DEF WithCheckpoint
  <2>2. CASE ~ (Cardinality(all) > MaxCheckpoints)
    BY <2>2 DEF WithCheckpoint
  <2>. QED
    BY <2>1, <2>2
<1>4. HasEnds(trimmed)
  BY <1>1, <1>2, EndsOfSubset
<1>5. Newest(trimmed) = b
  <2>1. /\ Newest(trimmed) \in trimmed
        /\ \A d \in trimmed : Height[d] <= Height[Newest(trimmed)]
    BY <1>1, <1>2, <1>3, <1>4, NewestIsLast
  <2>2. Height[b] <= Height[Newest(trimmed)]
    BY <2>1, <1>3
  <2>. QED
    BY <2>1, <2>2, <1>2, ChainAssumption
<1>. QED
  BY <1>2, <1>3, <1>4, <1>5

\* Every set of natural numbers that is not empty has a least element.
LEMMA LeastNumber ==
    ASSUME NEW S \in SUBSET Nat, S # {}
    PROVE  \E least \in S : \A n \in S : least <= n
<1>. DEFINE R == OpToRel(<, Nat)
<1>1. IsWellFoundedOn(R, Nat)
  BY NatLessThanWellFounded
<1>2. R = {ss \in Nat \X Nat : ss[1] < ss[2]}
  BY DEF OpToRel
<1>. HIDE DEF R
<1>3. PICK least \in S : \A n \in S : ~ (<<n, least>> \in R)
  BY <1>1, WFMin
<1>4. \A n \in S : n \in Nat /\ least \in Nat /\ ~ (n < least)
  BY <1>2, <1>3
<1>. QED
  BY <1>4

\* Checkpoints a cursor may hold.
Lineage(start, cps) == cps \subseteq Block /\ SameBranch(start, cps) /\ HasEnds(cps)

\* Accepting a range that continues the checkpoints adds exactly its logs.
LEMMA RangeExtends ==
    ASSUME NEW start \in Nat, NEW cps, Lineage(start, cps), NEW b \in Block,
           cps \subseteq Ancestors[b], Height[b] >= NextAfter(start, cps)
    PROVE  /\ Lineage(start, WithCheckpoint(cps, b))
           /\ Committed(start, WithCheckpoint(cps, b)) =
                 Committed(start, cps) \cup LogsThrough(b, NextAfter(start, cps), Height[b])
<1>. DEFINE new == WithCheckpoint(cps, b)
            stop == Newest(cps)
<1>h. \A c \in Block : Height[c] \in Nat
  BY ChainAssumption
<1>l. \A l \in Log : BlockOf[l] \in Block
  BY ChainAssumption
<1>1. cps \in SUBSET Block /\ SameBranch(start, cps) /\ HasEnds(cps)
  BY DEF Lineage
<1>2. cps # {} => /\ stop \in cps /\ \A d \in cps : Height[d] <= Height[stop]
                  /\ NextAfter(start, cps) = Height[stop] + 1
                  /\ Height[stop] >= start
  BY <1>1, NewestIsLast DEF NextAfter, SameBranch
<1>3. cps = {} => NextAfter(start, cps) = start /\ Committed(start, cps) = {}
  BY DEF NextAfter, Committed
<1>4. \A d \in cps : Height[d] < Height[b]
  BY <1>1, <1>2, <1>h
<1>5. /\ new \subseteq cps \cup {b} /\ b \in new /\ HasEnds(new)
      /\ Newest(new) = b
  BY <1>1, <1>4, AcceptedCheckpointStays
<1>6. Height[b] >= start
  BY <1>1, <1>2, <1>3, <1>h, CursorAssumption
<1>7. SameBranch(start, new)
  <2>1. \A d \in new : Height[d] >= start
    BY <1>1, <1>5, <1>6 DEF SameBranch
  <2>2. ASSUME NEW d \in new, NEW e \in new, Height[d] <= Height[e]
        PROVE  d \in Ancestors[e]
    <3>1. CASE e = b
      BY <3>1, <1>5, ChainAssumption
    <3>2. CASE e # b
      <4>1. e \in cps /\ d \in cps
        BY <2>2, <3>2, <1>1, <1>4, <1>5, <1>h
      <4>. QED
        BY <4>1, <2>2, <1>1 DEF SameBranch
    <3>. QED
      BY <3>1, <3>2
  <2>. QED
    BY <2>1, <2>2 DEF SameBranch
<1>8. Committed(start, new) = LogsThrough(b, start, Height[b])
  BY <1>5 DEF Committed
<1>9. LogsThrough(b, start, Height[b]) =
          Committed(start, cps) \cup LogsThrough(b, NextAfter(start, cps), Height[b])
  <2>1. CASE cps = {}
    BY <2>1, <1>3
  <2>2. CASE cps # {}
    <3>1. stop \in Block /\ stop \in Ancestors[b] /\ Height[stop] < Height[b]
      BY <2>2, <1>1, <1>2, <1>4
    <3>2. ASSUME NEW l \in Log, Height[BlockOf[l]] <= Height[stop]
          PROVE  BlockOf[l] \in Ancestors[b] <=> BlockOf[l] \in Ancestors[stop]
      BY <3>1, <3>2, <1>l, ChainAssumption
    <3>3. Committed(start, cps) = LogsThrough(stop, start, Height[stop])
      BY <2>2 DEF Committed
    <3>. QED
      BY <2>2, <1>2, <3>1, <3>2, <3>3, <1>h, <1>l, CursorAssumption DEF LogsThrough
  <2>. QED
    BY <2>1, <2>2
<1>. QED
  BY <1>1, <1>5, <1>7, <1>8, <1>9 DEF Lineage

\* What is left of checkpoints is a lineage, and rolling their logs back to it
\* leaves its logs.
LEMMA RetainedFits ==
    ASSUME NEW start \in Nat, NEW original, Lineage(start, original), NEW cps \in SUBSET original,
           NEW r \in Rollbacks(start, cps, original)
    PROVE  /\ Lineage(start, cps)
           /\ r \in Nat \cup {Undefined}
           /\ \A batch : Merged(Committed(start, original), r, batch) = Committed(start, cps) \cup batch
<1>1. Lineage(start, cps)
  BY EndsOfSubset DEF Lineage, SameBranch
<1>2. NextAfter(start, cps) \in Nat /\ Undefined \notin Nat
  BY <1>1, NextAfterType DEF Lineage, Undefined
<1>3. Committed(start, cps) = LogsBefore(Committed(start, original), NextAfter(start, cps))
  BY LogsOfFewerCheckpoints DEF Lineage
<1>4. CASE r = NextAfter(start, cps)
  BY <1>1, <1>2, <1>3, <1>4 DEF Merged
<1>5. CASE r = Undefined /\ cps = original
  BY <1>1, <1>5 DEF Merged
<1>. QED
  BY <1>4, <1>5 DEF Rollbacks

\* reconcileCursor only takes checkpoints away.
LEMMA RetainedIsSubset ==
    ASSUME NEW cps, NEW left \in Retained(cps)
    PROVE  left \subseteq cps
  BY DEF Retained

\* Whatever a synchronization of one range does to a cursor, its result turns
\* the logs of the old checkpoints into those of the new.
LEMMA SyncResultFits ==
    ASSUME NEW start \in Nat, NEW original, Lineage(start, original), ChainTypeOK,
           NEW result \in SyncResults(start, original)
    PROVE  /\ Lineage(start, result.checkpoints)
           /\ result.rollbackTo \in Nat \cup {Undefined}
           /\ result.logs \subseteq Log
           /\ result = [checkpoints |-> result.checkpoints,
                        rollbackTo |-> result.rollbackTo, logs |-> result.logs]
           /\ Merged(Committed(start, original), result.rollbackTo, result.logs)
                 = Committed(start, result.checkpoints)
<1>1. CASE result \in RangeResults(start, original)
  <2>a. PICK cps \in Retained(original) :
           \E r \in Rollbacks(start, cps, original),
              b \in {d \in EverCanonical : cps \subseteq Ancestors[d]
                                           /\ Height[d] >= NextAfter(start, cps)} :
             result = [checkpoints |-> WithCheckpoint(cps, b), rollbackTo |-> r,
                       logs |-> LogsThrough(b, NextAfter(start, cps), Height[b])]
    BY <1>1 DEF RangeResults
  <2>1. PICK r \in Rollbacks(start, cps, original), b \in EverCanonical :
           /\ cps \subseteq Ancestors[b] /\ Height[b] >= NextAfter(start, cps)
           /\ result = [checkpoints |-> WithCheckpoint(cps, b), rollbackTo |-> r,
                        logs |-> LogsThrough(b, NextAfter(start, cps), Height[b])]
    BY <2>a
  <2>2. b \in Block
    BY ChainAssumption DEF EverCanonical, ChainTypeOK
  <2>3. cps \in SUBSET original
    BY RetainedIsSubset
  <2>4. /\ Lineage(start, cps) /\ r \in Nat \cup {Undefined}
        /\ \A batch : Merged(Committed(start, original), r, batch) = Committed(start, cps) \cup batch
    BY <2>3, RetainedFits
  <2>5. /\ Lineage(start, WithCheckpoint(cps, b))
        /\ Committed(start, WithCheckpoint(cps, b)) =
              Committed(start, cps) \cup LogsThrough(b, NextAfter(start, cps), Height[b])
    BY <2>1, <2>2, <2>4, RangeExtends
  <2>6. LogsThrough(b, NextAfter(start, cps), Height[b]) \subseteq Log
    BY DEF LogsThrough
  <2>. QED
    BY <2>1, <2>4, <2>5, <2>6
<1>2. CASE result \in NoRangeResults(start, original)
  <2>a. PICK cps \in SUBSET original : \E r \in Rollbacks(start, cps, original) :
           result = [checkpoints |-> cps, rollbackTo |-> r, logs |-> {}]
    BY <1>2 DEF NoRangeResults
  <2>1. PICK r \in Rollbacks(start, cps, original) :
           result = [checkpoints |-> cps, rollbackTo |-> r, logs |-> {}]
    BY <2>a
  <2>2. /\ Lineage(start, cps) /\ r \in Nat \cup {Undefined}
        /\ \A batch : Merged(Committed(start, original), r, batch) = Committed(start, cps) \cup batch
    BY RetainedFits
  <2>. QED
    BY <2>1, <2>2
<1>. QED
  BY <1>1, <1>2 DEF SyncResults

-----------------------------------------------------------------------------
(* What reconcileCursor leaves.                                             *)

\* Whatever is left of a list is all of it, or ends below its newest
\* checkpoint, and then the cursor moves back.
LEMMA RetainedShrinks ==
    ASSUME NEW start \in Nat, NEW cps, Lineage(start, cps), NEW left \in Retained(cps), left # cps
    PROVE  /\ cps # {}
           /\ Newest(cps) \notin left
           /\ NextAfter(start, left) < NextAfter(start, cps)
<1>. DEFINE last == Newest(cps)
<1>h. \A b \in Block : Height[b] \in Nat
  BY ChainAssumption
<1>1. PICK d \in cps : \A c \in left : c \in cps /\ Height[c] < Height[d]
  BY DEF Retained
<1>2. /\ last \in cps /\ \A c \in cps : Height[c] <= Height[last]
      /\ cps \subseteq Block /\ Height[last] >= start
  BY <1>1, NewestIsLast DEF Lineage, SameBranch
<1>3. NextAfter(start, cps) = Height[last] + 1
  BY <1>1 DEF NextAfter
<1>4. \A c \in left : Height[c] < Height[last]
  BY <1>1, <1>2, <1>h
<1>5. last \notin left
  BY <1>2, <1>4, <1>h
<1>6. NextAfter(start, left) <= Height[last]
  <2>1. CASE left = {}
    BY <2>1, <1>2 DEF NextAfter
  <2>2. CASE left # {}
    <3>1. left \subseteq cps /\ left \in SUBSET Block
      BY <1>1, <1>2
    <3>2. Newest(left) \in left
      BY <2>2, <3>1, NewestIsLast, EndsOfSubset DEF Lineage
    <3>. QED
      BY <2>2, <3>1, <3>2, <1>4, <1>2, <1>h DEF NextAfter
  <2>. QED
    BY <2>1, <2>2
<1>7. NextAfter(start, left) \in Nat
  BY <1>1, <1>2, NextAfterType, EndsOfSubset DEF Lineage
<1>. QED
  BY <1>1, <1>2, <1>3, <1>5, <1>6, <1>7, <1>h

\* Going back twice is going back once.
LEMMA RetainedTwice ==
    ASSUME NEW start \in Nat, NEW original, Lineage(start, original), NEW cps \in Retained(original),
           NEW left \in Retained(cps)
    PROVE  left \in Retained(original)
<1>h. \A b \in original : Height[b] \in Nat
  BY ChainAssumption DEF Lineage
<1>1. CASE cps = original \/ left = cps
  BY <1>1
<1>2. CASE cps # original /\ left # cps
  <2>1. PICK e \in cps : e \in orphaned /\ (left = {} \/ left = {c \in cps : Height[c] < Height[e]})
    BY <1>2 DEF Retained
  <2>2. cps \subseteq original
    BY RetainedIsSubset
  <2>3. CASE left = {}
    BY <2>1, <2>2, <2>3 DEF Retained
  <2>4. CASE left = {c \in cps : Height[c] < Height[e]}
    <3>1. PICK d \in original : d \in orphaned /\ cps = {c \in original : Height[c] < Height[d]}
      BY <1>2, <2>1 DEF Retained
    <3>2. left = {c \in original : Height[c] < Height[e]}
      BY <2>1, <2>2, <2>4, <3>1, <1>h
    <3>. QED
      BY <2>1, <2>2, <3>2 DEF Retained
  <2>. QED
    BY <2>1, <2>3, <2>4
<1>. QED
  BY <1>1, <1>2

\* The two kinds of results, one by one.
LEMMA RangeResultIs ==
    ASSUME NEW start \in Nat, NEW original, NEW result
    PROVE  result \in RangeResults(start, original) <=>
              \E cps \in Retained(original), b \in EverCanonical :
                 \E r \in Rollbacks(start, cps, original) :
                    /\ cps \subseteq Ancestors[b] /\ Height[b] >= NextAfter(start, cps)
                    /\ result = [checkpoints |-> WithCheckpoint(cps, b),
                                 rollbackTo |-> r,
                                 logs |-> LogsThrough(b, NextAfter(start, cps), Height[b])]
  BY DEF RangeResults

LEMMA NoRangeResultIs ==
    ASSUME NEW start \in Nat, NEW original, NEW cps \in SUBSET original,
           NEW r \in Rollbacks(start, cps, original),
           \/ cps \in Retained(original)
           \/ \E range \in RangeResults(start, original) : cps \in Retained(range.checkpoints)
    PROVE  [checkpoints |-> cps, rollbackTo |-> r, logs |-> {}] \in NoRangeResults(start, original)
<1>. DEFINE left == Retained(original)
                    \cup UNION {Retained(range.checkpoints) : range \in RangeResults(start, original)}
            results(c) == {[checkpoints |-> c, rollbackTo |-> x, logs |-> {}] :
                              x \in Rollbacks(start, c, original)}
<1>1. cps \in {c \in left : \A d \in c : d \in original}
  OBVIOUS
<1>2. [checkpoints |-> cps, rollbackTo |-> r, logs |-> {}] \in results(cps)
  OBVIOUS
<1>3. NoRangeResults(start, original) =
         UNION {results(c) : c \in {c \in left : \A d \in c : d \in original}}
  BY DEF NoRangeResults
<1>. HIDE DEF left, results
<1>. QED
  BY <1>1, <1>2, <1>3

\* Fewer checkpoints resume no later.
LEMMA NextAfterMonotone ==
    ASSUME NEW start \in Nat, NEW cps, Lineage(start, cps), NEW left \in SUBSET cps
    PROVE  NextAfter(start, left) <= NextAfter(start, cps)
<1>h. \A b \in Block : Height[b] \in Nat
  BY ChainAssumption
<1>1. /\ NextAfter(start, left) \in Nat /\ NextAfter(start, cps) \in Nat
      /\ cps \subseteq Block /\ HasEnds(left)
  BY NextAfterType, EndsOfSubset DEF Lineage
<1>2. CASE left = {}
  BY <1>1, <1>2, LogsOfFewerCheckpoints DEF NextAfter, Lineage
<1>3. CASE left # {}
  <2>1. Newest(left) \in left
    BY <1>1, <1>3, NewestIsLast
  <2>2. Height[Newest(left)] <= Height[Newest(cps)] /\ Newest(cps) \in cps
    BY <1>1, <2>1, NewestIsLast DEF Lineage
  <2>. QED
    BY <1>1, <1>3, <2>1, <2>2, <1>h DEF NextAfter
<1>. QED
  BY <1>2, <1>3

\* An accepted range end is the newest checkpoint.
LEMMA NewestOfAccepted ==
    ASSUME NEW start \in Nat, NEW cps, Lineage(start, cps), NEW b \in Block, Height[b] >= NextAfter(start, cps)
    PROVE  /\ WithCheckpoint(cps, b) \subseteq cps \cup {b}
           /\ b \in WithCheckpoint(cps, b)
           /\ Newest(WithCheckpoint(cps, b)) = b
<1>h. \A c \in Block : Height[c] \in Nat
  BY ChainAssumption
<1>1. \A d \in cps : Height[d] < Height[b]
  <2>1. SUFFICES ASSUME cps # {}
                 PROVE  \A d \in cps : Height[d] < Height[b]
    OBVIOUS
  <2>2. \A d \in cps : Height[d] <= Height[Newest(cps)]
    BY <2>1, NewestIsLast DEF Lineage
  <2>3. NextAfter(start, cps) = Height[Newest(cps)] + 1 /\ Newest(cps) \in cps
    BY <2>1, NewestIsLast DEF Lineage, NextAfter
  <2>. QED
    BY <2>2, <2>3, <1>h DEF Lineage
<1>. QED
  BY <1>1, AcceptedCheckpointStays DEF Lineage

\* An abandoned range end takes the checkpoint and the logs of its range with
\* it.
LEMMA RangeTakenBack ==
    ASSUME NEW start \in Nat, NEW original, Lineage(start, original), ChainTypeOK,
           NEW result \in RangeResults(start, original),
           NEW left \in Retained(result.checkpoints), left # result.checkpoints
    PROVE  /\ NextAfter(start, left) < NextAfter(start, result.checkpoints)
           /\ EarliestRollback(result.rollbackTo, NextAfter(start, left)) = NextAfter(start, left)
           /\ LogsBefore(result.logs, NextAfter(start, left)) = {}
           /\ [checkpoints |-> left, rollbackTo |-> NextAfter(start, left), logs |-> {}]
                 \in NoRangeResults(start, original)
<1>h. /\ \A b \in Block : Height[b] \in Nat
      /\ \A l \in Log : BlockOf[l] \in Block
  BY ChainAssumption
<1>1. PICK cps \in Retained(original), b \in EverCanonical :
         \E r \in Rollbacks(start, cps, original) :
            /\ cps \subseteq Ancestors[b] /\ Height[b] >= NextAfter(start, cps)
            /\ result = [checkpoints |-> WithCheckpoint(cps, b),
                         rollbackTo |-> r,
                         logs |-> LogsThrough(b, NextAfter(start, cps), Height[b])]
  BY RangeResultIs
<1>2. PICK r \in Rollbacks(start, cps, original) :
            result = [checkpoints |-> WithCheckpoint(cps, b),
                      rollbackTo |-> r,
                      logs |-> LogsThrough(b, NextAfter(start, cps), Height[b])]
  BY <1>1
<1>3. /\ b \in Block /\ cps \subseteq original /\ Lineage(start, cps)
      /\ cps \subseteq Ancestors[b] /\ Height[b] >= NextAfter(start, cps)
      /\ r \in {NextAfter(start, cps), Undefined}
      /\ NextAfter(start, cps) \in Nat
  <2>1. b \in Block /\ cps \in SUBSET original
    BY ChainAssumption, RetainedIsSubset DEF EverCanonical, ChainTypeOK
  <2>2. Lineage(start, cps)
    BY <2>1, EndsOfSubset DEF Lineage, SameBranch
  <2>. QED
    BY <1>1, <2>1, <2>2, NextAfterType DEF Lineage, Rollbacks
<1>4. Lineage(start, WithCheckpoint(cps, b))
  BY <1>3, RangeExtends
<1>5. left # WithCheckpoint(cps, b) /\ left \in Retained(WithCheckpoint(cps, b))
  BY <1>2
<1>6. /\ Newest(WithCheckpoint(cps, b)) \notin left
      /\ NextAfter(start, left) < NextAfter(start, WithCheckpoint(cps, b))
  BY <1>4, <1>5, RetainedShrinks
<1>7. /\ WithCheckpoint(cps, b) \subseteq cps \cup {b}
      /\ Newest(WithCheckpoint(cps, b)) = b
  BY <1>3, NewestOfAccepted
<1>8. left \subseteq cps /\ left \subseteq Block
  BY <1>3, <1>5, <1>6, <1>7, RetainedIsSubset DEF Lineage
<1>9. NextAfter(start, left) <= NextAfter(start, cps) /\ NextAfter(start, left) \in Nat
  BY <1>3, <1>8, NextAfterMonotone, NextAfterType, EndsOfSubset DEF Lineage
<1>10. EarliestRollback(r, NextAfter(start, left)) = NextAfter(start, left)
  BY <1>3, <1>9 DEF EarliestRollback
<1>11. LogsBefore(result.logs, NextAfter(start, left)) = {}
  BY <1>2, <1>3, <1>9, <1>h DEF LogsBefore, LogsThrough
<1>12. NextAfter(start, left) \in Rollbacks(start, left, original)
  BY DEF Rollbacks
<1>13. left \in SUBSET original
  BY <1>3, <1>8
<1>. QED
  BY <1>2, <1>5, <1>6, <1>10, <1>11, <1>12, <1>13, NoRangeResultIs

\* Results stay possible as the chain moves on.
LEMMA ResultsRemain ==
    ASSUME NEW start \in Nat, NEW original, MoveHead
    PROVE  /\ EverCanonical \subseteq EverCanonical'
           /\ orphaned \subseteq orphaned'
           /\ Retained(original) \subseteq Retained(original)'
           /\ RangeResults(start, original) \subseteq RangeResults(start, original)'
           /\ NoRangeResults(start, original) \subseteq NoRangeResults(start, original)'
<1>1. EverCanonical \subseteq EverCanonical' /\ orphaned \subseteq orphaned'
  BY DEF MoveHead, EverCanonical
<1>2. \A cps : Retained(cps) \subseteq Retained(cps)'
  BY <1>1 DEF Retained
<1>3. RangeResults(start, original) \subseteq RangeResults(start, original)'
  <2>1. SUFFICES ASSUME NEW result \in RangeResults(start, original)
                 PROVE  result \in RangeResults(start, original)'
    OBVIOUS
  <2>2. PICK cps \in Retained(original), b \in EverCanonical :
           \E r \in Rollbacks(start, cps, original) :
              /\ cps \subseteq Ancestors[b] /\ Height[b] >= NextAfter(start, cps)
              /\ result = [checkpoints |-> WithCheckpoint(cps, b),
                           rollbackTo |-> r,
                           logs |-> LogsThrough(b, NextAfter(start, cps), Height[b])]
    BY RangeResultIs
  <2>3. cps \in Retained(original)' /\ b \in EverCanonical'
    BY <1>1, <1>2
  <2>. QED
    BY <2>2, <2>3 DEF RangeResults
<1>4. NoRangeResults(start, original) \subseteq NoRangeResults(start, original)'
  <2>. DEFINE left == Retained(original)
                      \cup UNION {Retained(range.checkpoints) : range \in RangeResults(start, original)}
              results(c) == {[checkpoints |-> c, rollbackTo |-> x, logs |-> {}] :
                                x \in Rollbacks(start, c, original)}
  <2>1. left \subseteq left'
    BY <1>2, <1>3
  <2>2. NoRangeResults(start, original) =
           UNION {results(c) : c \in {c \in left : \A d \in c : d \in original}}
    BY DEF NoRangeResults
  <2>3. NoRangeResults(start, original)' =
           UNION {results(c) : c \in {c \in left' : \A d \in c : d \in original}}
    BY DEF NoRangeResults
  <2>. HIDE DEF left, results
  <2>. QED
    BY <2>1, <2>2, <2>3
<1>. QED
  BY <1>1, <1>2, <1>3, <1>4

\* A newest checkpoint whose branch is abandoned is abandoned.
LEMMA AbandonedBelow ==
    ASSUME NEW start \in Nat, NEW cps, Lineage(start, cps), Ancestors[head] \cap orphaned = {}, ChainTypeOK,
           NEW c \in cps, NEW d \in cps, d \in orphaned, Height[d] <= Height[c],
           c \in EverCanonical
    PROVE  c \in orphaned
<1>1. d \in Ancestors[c] /\ c \in Block
  BY DEF Lineage, SameBranch
<1>2. c \in Ancestors[head] => d \in Ancestors[head]
  BY <1>1, ChainAssumption DEF ChainTypeOK
<1>. QED
  BY <1>2 DEF EverCanonical

\* A result without a range has some of the checkpoints and no logs.
LEMMA NoRangeResultFits ==
    ASSUME NEW start \in Nat, NEW original, NEW result \in NoRangeResults(start, original)
    PROVE  /\ result.checkpoints \in SUBSET original
           /\ result.rollbackTo \in Rollbacks(start, result.checkpoints, original)
           /\ result.logs = {}
           /\ \/ result.checkpoints \in Retained(original)
              \/ \E range \in RangeResults(start, original) :
                    result.checkpoints \in Retained(range.checkpoints)
<1>. DEFINE left == Retained(original)
                    \cup UNION {Retained(range.checkpoints) : range \in RangeResults(start, original)}
            results(c) == {[checkpoints |-> c, rollbackTo |-> x, logs |-> {}] :
                              x \in Rollbacks(start, c, original)}
<1>1. NoRangeResults(start, original) =
         UNION {results(c) : c \in {c \in left : \A d \in c : d \in original}}
  BY DEF NoRangeResults
<1>2. PICK c \in left : (\A d \in c : d \in original) /\ result \in results(c)
  <2>. HIDE DEF left, results
  <2>. QED
    BY <1>1
<1>3. /\ result.checkpoints = c /\ result.logs = {}
      /\ result.rollbackTo \in Rollbacks(start, c, original)
  BY <1>2
<1>4. c \in Retained(original)
      \/ \E range \in RangeResults(start, original) : c \in Retained(range.checkpoints)
  OBVIOUS
<1>. QED
  BY <1>2, <1>3, <1>4

\* A synchronization does not give up the block it began from unless that
\* block is abandoned, or it starts over.
LEMMA SyncResultKeepsTip ==
    ASSUME NEW start \in Nat, NEW original, Lineage(start, original), original \subseteq EverCanonical,
           ChainTypeOK, Ancestors[head] \cap orphaned = {},
           NEW result \in SyncResults(start, original)
    PROVE  /\ result.checkpoints \subseteq EverCanonical
           /\ \/ original = {} \/ Newest(original) \in orphaned
              \/ result.checkpoints = {}
              \/ Newest(original) \in Ancestors[Newest(result.checkpoints)]
<1>. DEFINE tip == Newest(original)
            cps == result.checkpoints
<1>h. \A b \in Block : Height[b] \in Nat
  BY ChainAssumption
<1>1. ASSUME NEW range \in RangeResults(start, original)
      PROVE  \E from \in Retained(original), b \in EverCanonical :
                /\ from \subseteq Ancestors[b] /\ Height[b] >= NextAfter(start, from)
                /\ Lineage(start, from) /\ b \in Block
                /\ range.checkpoints = WithCheckpoint(from, b)
  <2>1. PICK from \in Retained(original), b \in EverCanonical :
           /\ from \subseteq Ancestors[b] /\ Height[b] >= NextAfter(start, from)
           /\ range.checkpoints = WithCheckpoint(from, b)
    BY RangeResultIs
  <2>2. Lineage(start, from) /\ b \in Block
    BY RetainedIsSubset, EndsOfSubset, ChainAssumption
    DEF Lineage, SameBranch, EverCanonical, ChainTypeOK
  <2>. QED
    BY <2>1, <2>2
<1>2. result \in RangeResults(start, original) \/ result \in NoRangeResults(start, original)
  BY DEF SyncResults
<1>3. cps \subseteq EverCanonical
  <2>1. CASE result \in RangeResults(start, original)
    BY <1>1, <2>1, NewestOfAccepted, RetainedIsSubset
  <2>2. CASE result \in NoRangeResults(start, original)
    BY <2>2, NoRangeResultFits
  <2>. QED
    BY <1>2, <2>1, <2>2
<1>4. ASSUME original # {}, tip \notin orphaned, cps # {}
      PROVE  tip \in Ancestors[Newest(cps)]
  <2>1. /\ tip \in original /\ tip \in Block /\ original \subseteq Block
        /\ \A c \in original : Height[c] <= Height[tip]
        /\ \A c \in original : Height[c] = Height[tip] => c = tip
        /\ NextAfter(start, original) = Height[tip] + 1
    BY <1>4, NewestIsLast, ChainAssumption DEF Lineage, SameBranch, NextAfter
  <2>2. original \cap orphaned = {}
    BY <1>4, <2>1, AbandonedBelow
  <2>3. \A from \in Retained(original) : from = original
    BY <2>2 DEF Retained
  <2>4. CASE result \in RangeResults(start, original)
    BY <1>1, <2>1, <2>3, <2>4, NewestOfAccepted
  <2>5. CASE cps \in Retained(original)
    BY <2>1, <2>3, <2>5, ChainAssumption
  <2>6. CASE \E range \in RangeResults(start, original) :
                cps \subseteq original /\ cps \in Retained(range.checkpoints)
    <3>1. PICK b \in Block : /\ Height[b] >= NextAfter(start, original)
                             /\ cps \in Retained(WithCheckpoint(original, b))
      BY <1>1, <2>3, <2>6
    <3>. DEFINE new == WithCheckpoint(original, b)
    <3>2. b \in new /\ new \subseteq original \cup {b} /\ Height[b] > Height[tip]
      BY <3>1, <2>1, <1>h, NewestOfAccepted
    <3>3. cps = {c \in new : Height[c] < Height[b]}
      <4>1. b \notin original
        BY <3>2, <2>1, <1>h
      <4>2. PICK d \in new \cap orphaned : cps = {c \in new : Height[c] < Height[d]}
        BY <1>4, <2>6, <3>1, <3>2, <4>1 DEF Retained
      <4>. QED
        BY <4>2, <3>2, <2>2
    <3>4. tip \in new
      <4>1. SUFFICES ASSUME tip \notin new
                     PROVE  FALSE
        OBVIOUS
      <4>2. Oldest(original \cup {b}) = tip /\ new = (original \cup {b}) \ {tip}
        BY <4>1, <2>1 DEF WithCheckpoint
      <4>3. \A c \in original : Height[c] < Height[b]
        BY <2>1, <3>2, <1>h
      <4>4. \A c \in original \cup {b} : Height[tip] <= Height[c]
        BY <4>2, <4>3, <2>1, <3>1, EndsOfExtension, OldestIsFirst DEF Lineage
      <4>5. original = {tip}
        BY <4>4, <2>1, <1>h
      <4>6. new = {b}
        BY <4>2, <4>5, <3>2
      <4>. QED
        BY <4>6, <3>1, <3>3, <1>4, <1>h
    <3>5. tip \in cps
      BY <2>1, <3>2, <3>3, <3>4
    <3>6. HasEnds(cps) /\ cps \in SUBSET Block
      BY <2>1, <2>6, EndsOfSubset DEF Lineage
    <3>7. Newest(cps) \in cps /\ Height[tip] <= Height[Newest(cps)]
      BY <3>5, <3>6, NewestIsLast
    <3>. QED
      BY <2>1, <2>6, <3>7 DEF Lineage, SameBranch
  <2>. QED
    BY <1>2, <2>4, <2>5, <2>6, NoRangeResultFits
<1>. QED
  BY <1>3, <1>4
=============================================================================
