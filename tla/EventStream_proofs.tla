-------------------------- MODULE EventStream_proofs --------------------------
(***************************************************************************)
(* The snapshots of an event stream and the authentication of what they    *)
(* are issued with, for every chain, every stream and any number of tabs.  *)
(*                                                                         *)
(* The invariant follows a call through its steps.  What it knows of a     *)
(* checkpoint is "abandoned, or else ...": a check that was passed stays   *)
(* true of a block until the block is abandoned, and the last check of     *)
(* all newest checkpoints excludes that for each of them at once.          *)
(***************************************************************************)
EXTENDS EventStream, Cursors_proofs

-----------------------------------------------------------------------------
(* The steps of every stream, by their number.                              *)

\* The first part of every synchronization, and all of it but the reactions'.
LEMMA StepsAre ==
    ASSUME stream \in Stream
    PROVE  /\ stream \notin {"groups", "reactions"} =>
                /\ Len(Steps) = 10
                /\ Steps[1] \in {"boundary", "boundaryOrPending"}
                /\ Steps[2] = "read" /\ Steps[3] = "sync"
                /\ Steps[4] \in {"anchor", "anchorOrRetry"}
                /\ Steps[5] = "apply" /\ Steps[6] = "reread"
                /\ Steps[7] = "canonical" /\ Steps[8] = "head" /\ Steps[9] = "canonical"
                /\ Steps[10] \in {"show", "issue", "showAtSafeHead"}
           /\ stream = "groups" =>
                /\ Len(Steps) = 11
                /\ Steps[1] = "boundaryOrPending"
                /\ Steps[2] = "read" /\ Steps[3] = "sync"
                /\ Steps[4] = "anchor" /\ Steps[5] = "apply" /\ Steps[6] = "reread"
                /\ Steps[7] = "canonical" /\ Steps[8] = "head" /\ Steps[9] = "count"
                /\ Steps[10] = "canonical" /\ Steps[11] = "showCounted"
           /\ stream = "reactions" =>
                /\ Len(Steps) = 21
                /\ Steps[1] = "boundary"
                /\ Steps[2] = "read" /\ Steps[10] = "read"
                /\ Steps[3] = "sync" /\ Steps[11] = "sync"
                /\ Steps[4] = "anchor" /\ Steps[12] = "anchor"
                /\ Steps[5] = "apply" /\ Steps[13] = "apply"
                /\ Steps[6] = "reread" /\ Steps[14] = "reread"
                /\ Steps[7] = "canonicalOne" /\ Steps[15] = "canonicalOne"
                /\ Steps[8] = "headOne" /\ Steps[16] = "headOne"
                /\ Steps[9] = "canonicalOne" /\ Steps[17] = "canonicalOne"
                /\ Steps[18] = "canonical" /\ Steps[19] = "head" /\ Steps[20] = "canonical"
                /\ Steps[21] = "issue"
<1>1. CASE stream = "posts"
  BY <1>1 DEF Steps, PostFeedSync, PostFeedVerify, RetriedScan, Verified
<1>2. CASE stream = "follows"
  BY <1>2 DEF Steps, FollowSync, FollowVerify, RetriedScan, Verified
<1>3. CASE stream = "profiles"
  BY <1>3 DEF Steps, ProfileSync, ProfileVerify, RetriedScan, Verified
<1>4. CASE stream = "comments"
  BY <1>4 DEF Steps, PostCommentSync, PostCommentVerify, RetriedScan, Verified
<1>5. CASE stream = "members"
  BY <1>5 DEF Steps, GroupMembershipSync, GroupMembershipVerify, Scan, Verified
<1>6. CASE stream = "messages"
  BY <1>6 DEF Steps, GroupMessageSync, GroupMessageVerify, Scan, Verified
<1>7. CASE stream = "conversations"
  BY <1>7 DEF Steps, DirectMessageSync, DirectMessageVerify, Scan, Verified
<1>8. CASE stream = "groups"
  BY <1>8 DEF Steps, GroupDirectorySync, GroupDirectoryVerify, Scan
<1>9. CASE stream = "reactions"
  BY <1>9 DEF Steps, PostReactionSync, ReactionScan, Scan, PostReactionVerify, Verified
<1>. QED
  BY <1>1, <1>2, <1>3, <1>4, <1>5, <1>6, <1>7, <1>8, <1>9, StreamAssumption

\* The last step of a call.
LastStep == CASE stream = "reactions" -> 21
              [] stream = "groups" -> 11
              [] OTHER -> 10

\* The step that reads the head.
HeadStep == IF stream = "reactions" THEN 19 ELSE 8

\* At which of its steps a call does what.
LEMMA StepOf ==
    ASSUME stream \in Stream, call.step \in 0 .. LastStep, NEW name, Doing(name)
    PROVE  /\ call.step \in 1 .. LastStep /\ call.discarding = "nothing"
           /\ name \in {"boundary", "boundaryOrPending"} => call.step = 1
           /\ name = "read" => call.step = 2 \/ (stream = "reactions" /\ call.step = 10)
           /\ name = "sync" => call.step = 3 \/ (stream = "reactions" /\ call.step = 11)
           /\ name \in {"anchor", "anchorOrRetry"} =>
                 call.step = 4 \/ (stream = "reactions" /\ call.step = 12)
           /\ name = "apply" => call.step = 5 \/ (stream = "reactions" /\ call.step = 13)
           /\ name = "reread" => call.step = 6 \/ (stream = "reactions" /\ call.step = 14)
           /\ name = "canonicalOne" => stream = "reactions" /\ call.step \in {7, 9, 15, 17}
           /\ name = "headOne" => stream = "reactions" /\ call.step \in {8, 16}
           /\ name = "canonical" =>
                 call.step = HeadStep - 1 \/ (call.step > HeadStep /\ call.step = LastStep - 1)
           /\ name = "head" => call.step = HeadStep
           /\ name = "count" => stream = "groups" /\ call.step = 9
           /\ name \in {"show", "showAtSafeHead", "showCounted", "issue"} =>
                 call.step = LastStep
           /\ name = "showCounted" <=> (stream = "groups" /\ call.step = LastStep)
<1>1. /\ call.step \in 1 .. LastStep /\ call.discarding = "nothing"
      /\ Steps[call.step] = name
  BY DEF Doing, LastStep
<1>2. CASE stream \notin {"groups", "reactions"}
  <2>1. call.step \in {1, 2, 3, 4, 5, 6, 7, 8, 9, 10} /\ LastStep = 10 /\ HeadStep = 8
    BY <1>1, <1>2 DEF LastStep, HeadStep
  <2>. QED
    BY <1>1, <1>2, <2>1, StepsAre
<1>3. CASE stream = "groups"
  <2>1. call.step \in {1, 2, 3, 4, 5, 6, 7, 8, 9, 10, 11} /\ LastStep = 11 /\ HeadStep = 8
    BY <1>1, <1>3 DEF LastStep, HeadStep
  <2>. QED
    BY <1>1, <1>3, <2>1, StepsAre
<1>4. CASE stream = "reactions"
  <2>1. /\ call.step \in {1, 2, 3, 4, 5, 6, 7, 8, 9, 10}
                      \cup {11, 12, 13, 14, 15, 16, 17, 18, 19, 20, 21}
        /\ LastStep = 21 /\ HeadStep = 19
    BY <1>1, <1>4 DEF LastStep, HeadStep
  <2>. QED
    BY <1>1, <1>4, <2>1, StepsAre
<1>. QED
  BY <1>2, <1>3, <1>4

\* What is asked before an issued anchor is believed.
LEMMA AuthenticationIs ==
    /\ ~ Issuing => Len(AuthenticationSteps) = 0
    /\ Issuing =>
         /\ Len(AuthenticationSteps) \in {4, 6}
         /\ AuthenticationSteps[1] = "canonical" /\ AuthenticationSteps[2] = "head"
         /\ AuthenticationSteps[3] = "cache" /\ AuthenticationSteps[4] = "canonical"
         /\ Len(AuthenticationSteps) = 6 =>
               AuthenticationSteps[5] = "head" /\ AuthenticationSteps[6] = "canonical"
<1>1. CASE stream = "follows"
  BY <1>1 DEF AuthenticationSteps, FollowAuthentication, Issuing
<1>2. CASE stream = "members"
  BY <1>2 DEF AuthenticationSteps, GroupMembershipAuthentication, Issuing
<1>3. CASE stream = "reactions"
  BY <1>3 DEF AuthenticationSteps, PostReactionAuthentication, Issuing
<1>4. CASE stream = "profiles"
  BY <1>4 DEF AuthenticationSteps, ProfileAuthentication, Issuing
<1>5. CASE stream = "comments"
  BY <1>5 DEF AuthenticationSteps, PostCommentAuthentication, Issuing
<1>6. CASE stream \notin {"follows", "profiles", "comments", "members", "reactions"}
  BY <1>6 DEF AuthenticationSteps, Issuing
<1>. QED
  BY <1>1, <1>2, <1>3, <1>4, <1>5, <1>6

-----------------------------------------------------------------------------
(* Boundaries, checkpoints and what they stand for.                         *)

LEMMA HeightsAre ==
    /\ \A b \in Block : Height[b] \in Nat /\ Height[b] \in Start
    /\ \A s \in Start : s \in Nat
    /\ \A b \in Block : \A n \in 0 .. 1 + Height[b] : n \in Start
    /\ \A l \in Log : BlockOf[l] \in Block
<1>h. \A b \in Block : Height[b] \in Nat
  BY ChainAssumption
<1>1. \A b \in Block : \A n \in 0 .. Height[b] : \E c \in Block : Height[c] = n
  BY ChainAssumption
<1>2. ASSUME NEW b \in Block, NEW n \in 0 .. 1 + Height[b]  PROVE n \in Start
  <2>1. CASE n = 1 + Height[b]
    BY <2>1 DEF Start
  <2>2. CASE n # 1 + Height[b]
    <3>1. n \in 0 .. Height[b]
      BY <2>2, <1>2, <1>h
    <3>. QED
      BY <3>1, <1>1 DEF Start
  <2>. QED
    BY <2>1, <2>2
<1>. QED
  BY <1>h, <1>2, ChainAssumption DEF Start

\* Blocks of one branch are ordered by their heights.
LEMMA OneAncestry ==
    ASSUME NEW a \in Block, NEW b \in Ancestors[a], NEW c \in Ancestors[a],
           Height[b] <= Height[c]
    PROVE  /\ b \in Ancestors[c]
           /\ Height[b] = Height[c] => b = c
  BY ChainAssumption

\* A deployment is the lowest block with code; no event is below it.
LEMMA StartOfBranch ==
    ASSUME NEW h \in Deployed
    PROVE  /\ StartOf(h) \in Start
           /\ \A d \in Ancestors[h] \cap Deployed : Height[d] >= StartOf(h)
<1>. DEFINE D == Ancestors[h] \cap Deployed
            d == Deployment(h)
<1>1. h \in Block /\ h \in D /\ D \subseteq Block
  BY ChainAssumption, StreamAssumption
<1>2. PICK low \in D : \A e \in D : Height[low] <= Height[e]
  <2>1. {Height[e] : e \in D} \in SUBSET Nat /\ {Height[e] : e \in D} # {}
    BY <1>1, HeightsAre
  <2>2. PICK n \in {Height[e] : e \in D} : \A m \in {Height[e] : e \in D} : n <= m
    BY <2>1, LeastNumber
  <2>. QED
    BY <2>2
<1>3. d \in D /\ \A e \in D : Height[d] <= Height[e]
  BY <1>2 DEF Deployment
<1>. HIDE DEF d
<1>4. /\ Height[d] \in Nat /\ Height[h] \in Nat /\ Height[d] <= Height[h]
      /\ Height[d] \in Start /\ FinalityDepth \in Nat
      /\ \A e \in D : Height[e] \in Nat
  BY <1>1, <1>3, HeightsAre, StreamAssumption
<1>5. StartOf(h) = IF Height[d] <= Height[h] - FinalityDepth THEN Height[d]
                   ELSE IF Height[h] - FinalityDepth < 0 THEN 0
                   ELSE Height[h] - FinalityDepth + 1
  BY DEF StartOf, d
<1>6. StartOf(h) <= Height[d] /\ StartOf(h) \in 0 .. 1 + Height[h]
  BY <1>4, <1>5
<1>. QED
  BY <1>1, <1>3, <1>4, <1>6, HeightsAre

\* No event of the branch that ends in b lies below the start block s.
NoLogBelow(s, b) ==
    \A l \in Log : BlockOf[l] \in Ancestors[b] => Height[BlockOf[l]] >= s

\* Beside a boundary block on its branch nothing can be missed.
LEMMA BoundaryIsLow ==
    ASSUME ChainTypeOK, NEW h \in Deployed, Canonical(h), NEW c \in Ancestors[head]
    PROVE  NoLogBelow(StartOf(h), c)
<1>. SUFFICES ASSUME NEW l \in Log, BlockOf[l] \in Ancestors[c]
              PROVE  Height[BlockOf[l]] >= StartOf(h)
  BY DEF NoLogBelow
<1>. DEFINE b == BlockOf[l]
<1>1. /\ b \in Deployed /\ b \in Ancestors[head] /\ h \in Ancestors[head]
      /\ b \in Block /\ h \in Block /\ head \in Block
  BY ChainAssumption, StreamAssumption DEF ChainTypeOK, Canonical
<1>2. StartOf(h) \in Nat /\ Height[b] \in Nat /\ Height[h] \in Nat
  BY <1>1, StartOfBranch, HeightsAre
<1>3. CASE Height[b] <= Height[h]
  <2>1. b \in Ancestors[h] \cap Deployed
    BY <1>1, <1>3, OneAncestry
  <2>. QED
    BY <2>1, StartOfBranch
<1>4. CASE Height[b] > Height[h]
  <2>1. h \in Ancestors[h] \cap Deployed
    BY <1>1, ChainAssumption
  <2>2. Height[h] >= StartOf(h)
    BY <2>1, StartOfBranch
  <2>. QED
    BY <2>2, <1>2, <1>4
<1>. QED
  BY <1>2, <1>3, <1>4

\* A scope has one newest checkpoint, or none.
LEMMA NewestIsOne ==
    ASSUME NEW s \in Nat, NEW cps, Lineage(s, cps)
    PROVE  /\ cps = {} => NewestOf(cps) = {}
           /\ cps # {} => NewestOf(cps) = {Newest(cps)} /\ Newest(cps) \in cps
           /\ NewestOf(cps) \subseteq cps
           /\ cps \subseteq Block
<1>1. CASE cps = {}
  BY <1>1 DEF NewestOf, Lineage
<1>2. CASE cps # {}
  <2>1. /\ Newest(cps) \in cps /\ cps \subseteq Block
        /\ \A d \in cps : Height[d] <= Height[Newest(cps)]
    BY <1>2, NewestIsLast DEF Lineage
  <2>2. ASSUME NEW c \in NewestOf(cps)  PROVE c = Newest(cps)
    <3>1. c \in cps /\ Height[c] = Height[Newest(cps)] /\ c \in Block
      BY <2>1, HeightsAre DEF NewestOf
    <3>. QED
      BY <3>1, <2>1, ChainAssumption DEF Lineage, SameBranch
  <2>. QED
    BY <1>2, <2>1, <2>2 DEF NewestOf
<1>. QED
  BY <1>1, <1>2

\* Without an event below the start block, the checkpoints stand for every
\* event of the branch.
LEMMA CommittedIsWhole ==
    ASSUME NEW s \in Nat, NEW cps, Lineage(s, cps), NEW c \in NewestOf(cps)
    PROVE  /\ c = Newest(cps) /\ cps # {}
           /\ Committed(s, cps) \subseteq LogsThrough(c, 0, Height[c])
           /\ NoLogBelow(s, c) => Committed(s, cps) = LogsThrough(c, 0, Height[c])
<1>1. c = Newest(cps) /\ cps # {} /\ c \in Block
  BY NewestIsOne
<1>2. Committed(s, cps) = LogsThrough(c, s, Height[c])
  BY <1>1 DEF Committed
<1>3. \A l \in Log : Height[BlockOf[l]] \in Nat
  BY HeightsAre
<1>. QED
  BY <1>1, <1>2, <1>3, HeightsAre DEF LogsThrough, NoLogBelow

-----------------------------------------------------------------------------
(* The invariant.  What is said of the call is said of any record c, so     *)
(* that a step is a change of the record.                                   *)

Scope == [generation : Nat, revision : Nat,
          checkpoints : SUBSET Block, logs : SUBSET Log]

Held == UNION {[T -> Scope] : T \in SUBSET Topic}

Result == [checkpoints : SUBSET Block, rollbackTo : Nat \cup {Undefined},
           logs : SUBSET Log]

Call == [step : Nat, topic : Topic \cup {"none"}, boundary : SUBSET Block,
         start : Start, retried : BOOLEAN, before : SUBSET Scope,
         result : SUBSET Result, held : Held, heads : SUBSET Block,
         counted : Nat, discarding : {"nothing", "recent", "held"}]

Snapshot == [start : Start, held : Held, head : Block,
             caughtUp : BOOLEAN, issued : BOOLEAN]

TypeOK ==
    /\ ChainTypeOK
    /\ stream \in Stream
    /\ scopes \in [Topic \X Start -> Scope]
    /\ call \in Call
    /\ shown \in SUBSET Snapshot
    /\ auth \in [step : Nat, met : BOOLEAN, done : BOOLEAN]

\* The blocks that were abandoned are not of the branch that replaced them.
Apart == Ancestors[head] \cap orphaned = {}

\* What a scope with start block s holds of a topic: events its checkpoints
\* stand for, and all of them if the endpoint leaves none out.
Fits(topic, s, scope) ==
    /\ Lineage(s, scope.checkpoints)
    /\ scope.checkpoints \subseteq EverCanonical
    /\ scope.logs \subseteq Committed(s, scope.checkpoints) \cap Matching(topic)
    /\ stream \notin Withholding =>
          scope.logs = Committed(s, scope.checkpoints) \cap Matching(topic)

ScopesFit ==
    \A t \in Topic, s \in Start : Fits(t, s, scopes[<<t, s>>])

CallFits(c) ==
    /\ \A b \in c.before : Fits(c.topic, c.start, b)
    /\ \A t \in DOMAIN c.held : Fits(t, c.start, c.held[t])

\* The topic a call is about at its step n, and those it holds by then.
TopicAt(n) ==
    IF stream # "reactions" THEN "events"
    ELSE IF n <= 10 THEN "likes" ELSE "reposts"

HeldAt(n) ==
    IF n <= 6 THEN {}
    ELSE IF stream = "reactions" /\ n <= 14 THEN {"likes"} ELSE Topics

\* Where a call is, and what it has by then.
Phase(c) ==
    /\ c.step \in 0 .. LastStep
    /\ c.step > 2 => c.topic = TopicAt(c.step)
    /\ DOMAIN c.held \subseteq Topics
    /\ c.discarding = "nothing" => DOMAIN c.held = HeldAt(c.step)
    /\ c.discarding = "recent" =>
          c.step = 2 /\ c.topic = TopicAt(2) /\ DOMAIN c.held = {}
    /\ c.discarding = "held" => c.step > 2
    /\ c.step <= 1 => c.before = {}
    /\ \A a, b \in c.before : a = b
    /\ c.step <= HeadStep => c.heads = {}
    /\ \A g, h \in c.heads : g = h

\* The steps between a range's synchronization and the reading of what was
\* stored, and those of them behind the check of the history anchor.
Holding(c) ==
    c.step \in {4, 5, 6} \/ (stream = "reactions" /\ c.step \in {12, 13, 14})
Checked(c) ==
    c.step \in {5, 6} \/ (stream = "reactions" /\ c.step \in {13, 14})

\* A result turns what a scope held into what the new checkpoints stand for.
Turns(topic, s, b, r) ==
    \E all \in SUBSET Log :
        /\ Merged(Committed(s, b.checkpoints), r.rollbackTo, all)
              = Committed(s, r.checkpoints)
        /\ r.logs \subseteq all \cap Matching(topic)
        /\ stream \notin Withholding => r.logs = all \cap Matching(topic)

ResultsFit(c) ==
    Holding(c) => \A r \in c.result :
        /\ Lineage(c.start, r.checkpoints)
        /\ r.checkpoints \subseteq EverCanonical
        /\ \A b \in c.before : Turns(c.topic, c.start, b, r)

\* A newest checkpoint was abandoned, or no event is missing below it.
AnchoredAt(s, cps) == \A b \in NewestOf(cps) : b \in orphaned \/ NoLogBelow(s, b)

Anchored(c) ==
    /\ c.step > 1 =>
          \/ c.boundary = {} /\ c.start = 0
          \/ \E h \in Deployed : c.boundary = {h} /\ c.start = StartOf(h)
    /\ Checked(c) => \A r \in c.result : AnchoredAt(c.start, r.checkpoints)
    /\ \A t \in DOMAIN c.held : AnchoredAt(c.start, c.held[t].checkpoints)

\* A checkpoint lies deep enough in the branch of a head.
Below(b, h) == b \in Ancestors[h] /\ Height[h] - Height[b] >= FinalityDepth

HeadFits(c) ==
    \A h \in c.heads, b \in NewestHeld(c.held) : b \in orphaned \/ Below(b, h)

\* The count was read at block b of the safe height.
CountedAt(c, h, b) ==
    /\ Height[b] = SafeHead(h)
    /\ c.counted = 1 + Cardinality(LogsThrough(b, 0, Height[b]))

CountFits(c) ==
    stream = "groups" /\ c.step \in {10, 11} =>
        \A h \in c.heads : CaughtUp(c.held, c.start, h) =>
            \E b \in Block :
               /\ CountedAt(c, h, b)
               /\ \A d \in NewestHeld(c.held) :
                     d \in orphaned \/ (Height[d] = Height[b] => d = b)

\* Behind the last check nothing is left to a reorganization.
VerifiedAtEnd(c) ==
    c.step = LastStep =>
      /\ \A b \in NewestHeld(c.held) : NoLogBelow(c.start, b)
      /\ \A h \in c.heads, b \in NewestHeld(c.held) : Below(b, h)
      /\ stream = "groups" =>
           \A h \in c.heads : CaughtUp(c.held, c.start, h) =>
              \E b \in Block :
                 /\ CountedAt(c, h, b)
                 /\ \A d \in NewestHeld(c.held) : Height[d] = Height[b] => d = b

CallInvariant(c) ==
    /\ c \in Call
    /\ Phase(c)
    /\ CallFits(c)
    /\ ResultsFit(c)
    /\ Anchored(c)
    /\ HeadFits(c)
    /\ CountFits(c)
    /\ VerifiedAtEnd(c)

ShownFits ==
    \A s \in shown :
        /\ s.issued => Issuing
        /\ NewestHeld(s.held) \subseteq EverCanonical

Authenticated ==
    /\ auth.step \in 0 .. Len(AuthenticationSteps)
    /\ auth.step > 0 => Issuing /\ ~ auth.done
    /\ auth.step > 0 \/ auth.done => call = Idle
    /\ auth.step > 3 => auth.met \/ IssuedCheckpoints \cap orphaned # {}
    /\ auth.step > 4 \/ auth.done => auth.met

\* The groups' endpoint is the only one that may leave events out.
OnlyGroupsWithheld == Withholding \subseteq {"groups"}

StreamInvariant ==
    /\ TypeOK
    /\ Apart
    /\ ScopesFit
    /\ CallInvariant(call)
    /\ ShownFits
    /\ SnapshotConfirmed
    /\ OnlyGroupsWithheld => SnapshotIsWhole
    /\ Authenticated

-----------------------------------------------------------------------------
(* The chain moves on, or stays.                                            *)

\* The chain, as far as what is known of blocks goes, has only grown.
Grows ==
    /\ stream' = stream
    /\ EverCanonical \subseteq EverCanonical'
    /\ orphaned \subseteq orphaned'

LEMMA ChainMoves ==
    ASSUME ChainTypeOK, Apart, MoveHead, stream' = stream
    PROVE  ChainTypeOK' /\ Apart' /\ Grows
  BY ChainAssumption DEF MoveHead, ChainTypeOK, Apart, EverCanonical, Grows

LEMMA ChainStays ==
    ASSUME ChainTypeOK, Apart, UNCHANGED <<chainVars, stream>>
    PROVE  ChainTypeOK' /\ Apart' /\ Grows
  BY DEF ChainTypeOK, Apart, EverCanonical, Grows, chainVars

\* Everything that is known of a call survives a reorganization.
LEMMA CallOutlives ==
    ASSUME NEW c, CallInvariant(c), call' = c, Grows
    PROVE  CallInvariant(call)'
<1>. USE DEF CallInvariant, Grows
<1>1. Phase(call)'
  BY DEF Phase, TopicAt, HeldAt, LastStep, HeadStep, Topics
<1>2. ASSUME NEW t, NEW s, NEW scope, Fits(t, s, scope)  PROVE Fits(t, s, scope)'
  BY <1>2 DEF Fits, Matching
<1>3. CallFits(call)'
  <2>1. \A b \in c.before : Fits(c.topic, c.start, b)'
    BY <1>2 DEF CallFits
  <2>2. \A t \in DOMAIN c.held : Fits(t, c.start, c.held[t])'
    BY <1>2 DEF CallFits
  <2>. QED
    BY <2>1, <2>2 DEF CallFits, Fits, Matching
<1>4. ResultsFit(call)'
  BY DEF ResultsFit, Holding, Turns, Matching
<1>5. Anchored(call)'
  BY DEF Anchored, Checked, AnchoredAt
<1>6. HeadFits(call)'
  BY DEF HeadFits
<1>7. CountFits(call)'
  BY DEF CountFits, CaughtUp, NeedsSafeHead, CountedAt
<1>8. VerifiedAtEnd(call)'
  BY DEF VerifiedAtEnd, LastStep, CaughtUp, NeedsSafeHead, CountedAt
<1>. QED
  BY <1>1, <1>3, <1>4, <1>5, <1>6, <1>7, <1>8

\* A scope nobody writes keeps what it stands for.
LEMMA FitsOutlives ==
    ASSUME NEW t, NEW s, NEW scope, Fits(t, s, scope), Grows
    PROVE  Fits(t, s, scope)'
  BY DEF Fits, Matching, Grows

LEMMA ScopesOutlive ==
    ASSUME ScopesFit, Grows, scopes' = scopes
    PROVE  ScopesFit'
  BY DEF ScopesFit, Fits, Matching, Grows

\* A snapshot remains what it was.
LEMMA ShownOutlives ==
    ASSUME ShownFits, SnapshotConfirmed, Grows, shown' = shown
    PROVE  /\ ShownFits' /\ SnapshotConfirmed'
           /\ SnapshotIsWhole => SnapshotIsWhole'
<1>1. ShownFits'
  BY DEF ShownFits, Grows, Issuing
<1>2. SnapshotConfirmed'
  BY DEF SnapshotConfirmed
<1>3. SnapshotIsWhole => SnapshotIsWhole'
  BY DEF SnapshotIsWhole, Grows, Matching
<1>. QED
  BY <1>1, <1>2, <1>3

\* So does what was authenticated.
LEMMA AuthenticationOutlives ==
    ASSUME Authenticated, Grows, shown' = shown, auth' = auth,
           call' = call \/ call # Idle
    PROVE  Authenticated'
<1>1. AuthenticationSteps' = AuthenticationSteps /\ Issuing' = Issuing
  BY DEF AuthenticationSteps, Issuing, Grows
<1>2. IssuedCheckpoints' = IssuedCheckpoints
  BY DEF IssuedCheckpoints
<1>3. auth.step > 0 \/ auth.done => call' = Idle
  BY DEF Authenticated
<1>4. auth.step > 3 => auth.met \/ IssuedCheckpoints \cap orphaned' # {}
  BY DEF Authenticated, Grows
<1>. QED
  BY <1>1, <1>2, <1>3, <1>4 DEF Authenticated

\* A step that moves only the call moves it to a record of the invariant.
LEMMA GoesTo ==
    ASSUME StreamInvariant, call # Idle, NEW c, CallInvariant(c), Goes(c)
    PROVE  StreamInvariant'
<1>. USE DEF StreamInvariant, Goes
<1>1. ChainTypeOK' /\ Apart' /\ Grows
  BY ChainStays DEF TypeOK
<1>2. CallInvariant(call)'
  BY <1>1, CallOutlives
<1>3. ScopesFit'
  BY <1>1, ScopesOutlive
<1>4. ShownFits' /\ SnapshotConfirmed' /\ (OnlyGroupsWithheld => SnapshotIsWhole)'
  BY <1>1, ShownOutlives DEF OnlyGroupsWithheld
<1>5. Authenticated'
  BY <1>1, AuthenticationOutlives
<1>6. TypeOK'
  BY <1>1, <1>2 DEF TypeOK, CallInvariant, Call, Scope, Snapshot, Held, Result
<1>. QED
  BY <1>1, <1>2, <1>3, <1>4, <1>5, <1>6

-----------------------------------------------------------------------------
(* The steps of a call, one lemma each.                                     *)

\* A call that is over, and one that begins, hold nothing.
LEMMA IdleFits ==
    ASSUME ChainTypeOK
    PROVE  /\ CallInvariant(Idle)
           /\ CallInvariant(Begun)
           /\ CallInvariant([Begun EXCEPT !.retried = TRUE])
<1>1. 0 \in Start
  BY HeightsAre DEF ChainTypeOK
<1>2. <<>> \in Held /\ DOMAIN <<>> = {}
  <2>1. DOMAIN <<>> = {}
    OBVIOUS
  <2>2. <<>> \in [{} -> Scope]
    OBVIOUS
  <2>. QED
    BY <2>1, <2>2 DEF Held
<1>3. ASSUME NEW c \in Call, c.step \in {0, 1}, c.before = {}, c.result = {}, c.held = <<>>,
             c.heads = {}, c.discarding = "nothing"
      PROVE  CallInvariant(c)
  <2>1. LastStep \in {10, 11, 21} /\ HeadStep \in {8, 19}
    BY DEF LastStep, HeadStep
  <2>2. Phase(c)
    BY <1>2, <1>3, <2>1 DEF Phase, HeldAt
  <2>3. CallFits(c) /\ ResultsFit(c) /\ Anchored(c) /\ HeadFits(c) /\ CountFits(c)
    BY <1>2, <1>3 DEF CallFits, ResultsFit, Holding, Anchored, Checked, HeadFits, CountFits
  <2>4. VerifiedAtEnd(c)
    BY <1>3, <2>1 DEF VerifiedAtEnd
  <2>. QED
    BY <1>3, <2>2, <2>3, <2>4 DEF CallInvariant
<1>4. /\ Idle \in Call /\ Idle.step = 0 /\ Idle.before = {} /\ Idle.result = {}
      /\ Idle.held = <<>> /\ Idle.heads = {} /\ Idle.discarding = "nothing"
  BY <1>1, <1>2 DEF Idle, Call
<1>5. /\ Begun \in Call /\ Begun.step = 1 /\ Begun.before = {} /\ Begun.result = {}
      /\ Begun.held = <<>> /\ Begun.heads = {} /\ Begun.discarding = "nothing"
  BY <1>4 DEF Begun, Call
<1>. DEFINE again == [Begun EXCEPT !.retried = TRUE]
<1>6. /\ again \in Call /\ again.step = 1 /\ again.before = {} /\ again.result = {}
      /\ again.held = <<>> /\ again.heads = {} /\ again.discarding = "nothing"
  BY <1>5 DEF Call
<1>. HIDE DEF again
<1>7. CallInvariant(Idle) /\ CallInvariant(Begun) /\ CallInvariant(again)
  BY <1>3, <1>4, <1>5, <1>6
<1>. QED
  BY <1>7 DEF again

\* A call at a step is not idle.
LEMMA DoingIsBusy ==
    ASSUME StreamInvariant, NEW name, Doing(name)
    PROVE  /\ call # Idle
           /\ call.step \in 0 .. LastStep /\ stream \in Stream
           /\ CallInvariant(call) /\ TypeOK
  BY DEF StreamInvariant, CallInvariant, Phase, TypeOK, Doing, Idle

\* What Onward changes and what it leaves alone.
LEMMA OnwardIs ==
    ASSUME NEW c \in Call
    PROVE  /\ Onward(c) \in Call
           /\ Onward(c).step = c.step + 1
           /\ Onward(c).topic = c.topic /\ Onward(c).boundary = c.boundary
           /\ Onward(c).start = c.start /\ Onward(c).before = c.before
           /\ Onward(c).result = c.result /\ Onward(c).held = c.held
           /\ Onward(c).heads = c.heads /\ Onward(c).counted = c.counted
           /\ Onward(c).discarding = c.discarding
  BY DEF Onward, Call

\* Where nothing new is known after a step, what was known still is.
LEMMA NothingNew ==
    ASSUME NEW c, CallInvariant(c), c.step \in 3 .. LastStep - 2,
           c.step # HeadStep, c.step \notin {4, 6},
           stream = "reactions" => c.step \notin {10, 12, 14},
           c.step = 3 => c.result = {}, stream = "reactions" /\ c.step = 11 => c.result = {},
           stream = "groups" => c.step # 9,
           c.discarding = "nothing"
    PROVE  CallInvariant(Onward(c))
<1>. DEFINE d == Onward(c)
<1>0. c \in Call /\ LastStep \in {10, 11, 21} /\ HeadStep \in {8, 19}
  BY DEF CallInvariant, LastStep, HeadStep
<1>1. /\ d \in Call /\ d.step = c.step + 1 /\ c.step \in Nat
      /\ d.topic = c.topic /\ d.boundary = c.boundary /\ d.start = c.start
      /\ d.before = c.before /\ d.result = c.result /\ d.held = c.held
      /\ d.heads = c.heads /\ d.counted = c.counted /\ d.discarding = c.discarding
  BY <1>0, OnwardIs
<1>. HIDE DEF d
<1>2. Phase(d)
  BY <1>0, <1>1 DEF CallInvariant, Phase, TopicAt, HeldAt, LastStep, HeadStep
<1>3. CallFits(d) /\ HeadFits(d)
  BY <1>1 DEF CallInvariant, CallFits, HeadFits
<1>4. ResultsFit(d) /\ Anchored(d)
  BY <1>1 DEF CallInvariant, ResultsFit, Holding, Anchored, Checked
<1>5. CountFits(d) /\ VerifiedAtEnd(d)
  BY <1>0, <1>1 DEF CallInvariant, CountFits, VerifiedAtEnd, CountedAt, LastStep
<1>. QED
  BY <1>1, <1>2, <1>3, <1>4, <1>5 DEF CallInvariant, d

\* resolveProtocolHistoryBoundary: nothing below the start block of a branch.
LEMMA BoundaryStep ==
    ASSUME StreamInvariant, ResolveBoundary
    PROVE  StreamInvariant'
<1>1. PICK name \in {"boundary", "boundaryOrPending"} : Doing(name)
  BY DEF ResolveBoundary
<1>2. /\ call # Idle /\ CallInvariant(call) /\ TypeOK
      /\ call.step = 1 /\ call.discarding = "nothing" /\ call \in Call
  BY <1>1, DoingIsBusy, StepOf DEF CallInvariant
<1>3. ASSUME NEW s \in Start, NEW B \in SUBSET Deployed,
             \/ s = 0 /\ B = {}
             \/ \E h \in Deployed : B = {h} /\ s = StartOf(h)
      PROVE  CallInvariant(Onward([call EXCEPT !.start = s, !.boundary = B]))
  <2>. DEFINE c == [call EXCEPT !.start = s, !.boundary = B]
              d == Onward(c)
  <2>1. B \in SUBSET Block
    BY StreamAssumption
  <2>2. /\ c \in Call /\ c.step = call.step /\ c.topic = call.topic
        /\ c.boundary = B /\ c.start = s /\ c.before = call.before
        /\ c.result = call.result /\ c.held = call.held /\ c.heads = call.heads
        /\ c.discarding = call.discarding
    BY <2>1, <1>2 DEF Call
  <2>. HIDE DEF c
  <2>3. /\ d \in Call /\ d.step = 2 /\ d.topic = call.topic
        /\ d.boundary = B /\ d.start = s /\ d.before = call.before
        /\ d.result = call.result /\ d.held = call.held /\ d.heads = call.heads
        /\ d.discarding = call.discarding
    BY <2>2, <1>2, OnwardIs
  <2>. HIDE DEF d
  <2>4. /\ d.before = {} /\ DOMAIN d.held = {} /\ d.heads = {} /\ d.discarding = "nothing"
        /\ LastStep \in {10, 11, 21} /\ HeadStep \in {8, 19}
    BY <1>2, <2>3 DEF CallInvariant, Phase, HeldAt, LastStep, HeadStep
  <2>5. Phase(d)
    BY <2>3, <2>4 DEF Phase, HeldAt
  <2>6. CallFits(d) /\ ResultsFit(d) /\ HeadFits(d) /\ CountFits(d) /\ VerifiedAtEnd(d)
    BY <2>3, <2>4 DEF CallFits, ResultsFit, Holding, HeadFits, CountFits, VerifiedAtEnd
  <2>7. Anchored(d)
    BY <2>3, <2>4, <1>3 DEF Anchored, Checked
  <2>. QED
    BY <2>3, <2>5, <2>6, <2>7 DEF CallInvariant, d, c
<1>4. CASE Goes(Onward([call EXCEPT !.start = 0, !.boundary = {}]))
  <2>1. 0 \in Start
    BY <1>2, HeightsAre DEF TypeOK, ChainTypeOK
  <2>2. CallInvariant(Onward([call EXCEPT !.start = 0, !.boundary = {}]))
    BY <1>3, <2>1
  <2>. QED
    BY <1>2, <1>4, <2>2, GoesTo
<1>5. CASE Goes(Idle)
  BY <1>2, <1>5, IdleFits, GoesTo DEF TypeOK
<1>6. ASSUME NEW h \in Deployed,
             Goes(Onward([call EXCEPT !.start = StartOf(h), !.boundary = {h}]))
      PROVE  StreamInvariant'
  <2>1. StartOf(h) \in Start
    BY StartOfBranch
  <2>2. CallInvariant(Onward([call EXCEPT !.start = StartOf(h), !.boundary = {h}]))
    BY <1>3, <2>1
  <2>. QED
    BY <1>2, <1>6, <2>2, GoesTo
<1>. QED
  BY <1>4, <1>5, <1>6 DEF ResolveBoundary

\* The next topic is the one the step is about.
LEMMA NextTopicIs ==
    ASSUME DOMAIN call.held = HeldAt(call.step),
           call.step = 2 \/ (stream = "reactions" /\ call.step = 10)
    PROVE  NextTopic = TopicAt(call.step + 1) /\ NextTopic \in Topics /\ NextTopic \in Topic
<1>1. CASE stream # "reactions"
  <2>1. Topics \ DOMAIN call.held = {"events"}
    BY <1>1 DEF Topics, HeldAt
  <2>. QED
    BY <1>1, <2>1 DEF NextTopic, TopicAt, Topics, Topic
<1>2. CASE stream = "reactions" /\ call.step = 2
  <2>1. Topics = {"likes", "reposts"} /\ DOMAIN call.held = {}
    BY <1>2 DEF Topics, HeldAt
  <2>2. \E t \in Topics \ DOMAIN call.held : t = "reposts" => "likes" \in DOMAIN call.held
    BY <2>1
  <2>3. /\ NextTopic \in Topics \ DOMAIN call.held
        /\ NextTopic = "reposts" => "likes" \in DOMAIN call.held
    BY <2>2 DEF NextTopic
  <2>. QED
    BY <1>2, <2>1, <2>3 DEF TopicAt, Topic
<1>3. CASE stream = "reactions" /\ call.step = 10
  <2>1. Topics = {"likes", "reposts"} /\ DOMAIN call.held = {"likes"}
    BY <1>3 DEF Topics, HeldAt
  <2>2. \E t \in Topics \ DOMAIN call.held : t = "reposts" => "likes" \in DOMAIN call.held
    BY <2>1
  <2>3. NextTopic \in Topics \ DOMAIN call.held
    BY <2>2 DEF NextTopic
  <2>. QED
    BY <1>3, <2>1, <2>3 DEF TopicAt, Topic
<1>. QED
  BY <1>1, <1>2, <1>3

\* Reading a scope.
LEMMA ReadStep ==
    ASSUME StreamInvariant, ReadScope
    PROVE  StreamInvariant'
<1>1. Doing("read")
  BY DEF ReadScope
<1>2. /\ call # Idle /\ CallInvariant(call) /\ TypeOK /\ ScopesFit
      /\ call.step = 2 \/ (stream = "reactions" /\ call.step = 10)
      /\ call.discarding = "nothing" /\ call \in Call
  BY <1>1, DoingIsBusy, StepOf DEF CallInvariant, StreamInvariant
<1>3. /\ DOMAIN call.held = HeldAt(call.step) /\ call.heads = {} /\ call.step \in Nat
      /\ LastStep \in {10, 11, 21} /\ HeadStep \in {8, 19}
      /\ stream = "reactions" => LastStep = 21 /\ HeadStep = 19
  BY <1>2 DEF CallInvariant, Phase, LastStep, HeadStep
<1>. DEFINE t == NextTopic
            scope == scopes[<<t, call.start>>]
            c == [call EXCEPT !.topic = t, !.before = {scope}]
            e == [call EXCEPT !.topic = t, !.before = {scope}, !.discarding = "recent"]
<1>4. t = TopicAt(call.step + 1) /\ t \in Topics /\ t \in Topic
  BY <1>2, <1>3, NextTopicIs
<1>. HIDE DEF t
<1>5. scope \in Scope /\ Fits(t, call.start, scope)
  <2>1. call.start \in Start
    BY <1>2 DEF Call
  <2>. QED
    BY <1>2, <1>4, <2>1 DEF TypeOK, ScopesFit
<1>. HIDE DEF scope
<1>6. /\ c \in Call /\ c.step = call.step /\ c.topic = t /\ c.boundary = call.boundary
      /\ c.start = call.start /\ c.before = {scope} /\ c.result = call.result
      /\ c.held = call.held /\ c.heads = {} /\ c.discarding = "nothing"
  BY <1>2, <1>3, <1>4, <1>5 DEF Call
<1>7. /\ e \in Call /\ e.step = call.step /\ e.topic = t /\ e.boundary = call.boundary
      /\ e.start = call.start /\ e.before = {scope} /\ e.result = call.result
      /\ e.held = call.held /\ e.heads = {} /\ e.discarding = "recent"
  BY <1>2, <1>3, <1>4, <1>5 DEF Call
<1>. HIDE DEF c, e
<1>8. CallInvariant(Onward(c))
  <2>. DEFINE d == Onward(c)
  <2>1. /\ d \in Call /\ d.step = call.step + 1 /\ d.topic = t /\ d.boundary = call.boundary
        /\ d.start = call.start /\ d.before = {scope} /\ d.result = call.result
        /\ d.held = call.held /\ d.heads = {} /\ d.discarding = "nothing"
    BY <1>6, OnwardIs
  <2>. HIDE DEF d
  <2>2. Phase(d)
    BY <1>2, <1>3, <1>4, <2>1 DEF Phase, TopicAt, HeldAt, CallInvariant
  <2>3. CallFits(d)
    BY <1>2, <1>5, <2>1 DEF CallFits, CallInvariant
  <2>4. ResultsFit(d) /\ HeadFits(d) /\ CountFits(d) /\ VerifiedAtEnd(d)
    BY <1>2, <1>3, <2>1 DEF ResultsFit, Holding, HeadFits, CountFits, VerifiedAtEnd
  <2>5. Anchored(d)
    BY <1>2, <2>1 DEF Anchored, Checked, CallInvariant
  <2>. QED
    BY <2>1, <2>2, <2>3, <2>4, <2>5 DEF CallInvariant, d
<1>9. stream = "groups" => CallInvariant(e)
  <2>. SUFFICES ASSUME stream = "groups"  PROVE CallInvariant(e)
    OBVIOUS
  <2>1. call.step = 2 /\ t = TopicAt(2) /\ DOMAIN call.held = {}
    BY <1>2, <1>3, <1>4 DEF TopicAt, HeldAt
  <2>2. Phase(e)
    BY <1>2, <1>3, <1>7, <2>1 DEF Phase
  <2>3. CallFits(e)
    BY <1>2, <1>5, <1>7 DEF CallFits, CallInvariant
  <2>4. ResultsFit(e) /\ HeadFits(e) /\ CountFits(e) /\ VerifiedAtEnd(e)
    BY <1>3, <1>7, <2>1 DEF ResultsFit, Holding, HeadFits, CountFits, VerifiedAtEnd
  <2>5. Anchored(e)
    BY <1>2, <1>7, <2>1 DEF Anchored, Checked, CallInvariant
  <2>. QED
    BY <1>7, <2>2, <2>3, <2>4, <2>5 DEF CallInvariant
<1>10. \/ Goes(Onward(c))
       \/ stream = "groups" /\ Goes(e)
  BY DEF ReadScope, c, e, scope, t
<1>. QED
  BY <1>2, <1>8, <1>9, <1>10, GoesTo

\* A synchronized range turns what was read into what its checkpoints stand for.
LEMMA SyncStep ==
    ASSUME StreamInvariant, SyncLogs
    PROVE  StreamInvariant'
<1>1. Doing("sync")
  BY DEF SyncLogs
<1>2. /\ call # Idle /\ CallInvariant(call) /\ TypeOK /\ Apart
      /\ call.step = 3 \/ (stream = "reactions" /\ call.step = 11)
      /\ call.discarding = "nothing" /\ call \in Call
  BY <1>1, DoingIsBusy, StepOf DEF CallInvariant, StreamInvariant
<1>3. /\ call.heads = {} /\ call.step \in Nat /\ call.start \in Start /\ call.start \in Nat
      /\ LastStep \in {10, 11, 21} /\ HeadStep \in {8, 19}
      /\ stream = "reactions" => LastStep = 21 /\ HeadStep = 19
  BY <1>2, HeightsAre DEF CallInvariant, Phase, LastStep, HeadStep, Call
<1>4. PICK b \in call.before : \E r \in Results(call.start, b.checkpoints) :
                               \E ls \in Answered(r.logs) :
            Goes(Onward([call EXCEPT !.result = {[r EXCEPT !.logs = ls]}]))
  BY DEF SyncLogs
<1>r. PICK r \in Results(call.start, b.checkpoints) : \E ls \in Answered(r.logs) :
            Goes(Onward([call EXCEPT !.result = {[r EXCEPT !.logs = ls]}]))
  BY <1>4
<1>5. PICK ls \in Answered(r.logs) :
            Goes(Onward([call EXCEPT !.result = {[r EXCEPT !.logs = ls]}]))
  BY <1>r
<1>6. /\ b \in Scope /\ Fits(call.topic, call.start, b)
      /\ Lineage(call.start, b.checkpoints) /\ b.checkpoints \subseteq EverCanonical
      /\ r \in SyncResults(call.start, b.checkpoints)
  BY <1>2, <1>4, <1>5 DEF CallInvariant, CallFits, Fits, Results, Call
<1>7. /\ Lineage(call.start, r.checkpoints) /\ r.rollbackTo \in Nat \cup {Undefined}
      /\ r.logs \subseteq Log
      /\ r = [checkpoints |-> r.checkpoints, rollbackTo |-> r.rollbackTo, logs |-> r.logs]
      /\ Merged(Committed(call.start, b.checkpoints), r.rollbackTo, r.logs)
            = Committed(call.start, r.checkpoints)
  BY <1>2, <1>3, <1>6, SyncResultFits DEF TypeOK
<1>8. r.checkpoints \subseteq EverCanonical
  BY <1>2, <1>3, <1>6, SyncResultKeepsTip DEF TypeOK, Apart
<1>9. /\ ls \subseteq r.logs \cap Matching(call.topic)
      /\ stream \notin Withholding => ls = r.logs \cap Matching(call.topic)
  BY <1>5 DEF Answered
<1>. DEFINE x == [r EXCEPT !.logs = ls]
            c == [call EXCEPT !.result = {x}]
            d == Onward(c)
<1>10. /\ x.checkpoints = r.checkpoints /\ x.rollbackTo = r.rollbackTo /\ x.logs = ls
       /\ x = [checkpoints |-> r.checkpoints, rollbackTo |-> r.rollbackTo, logs |-> ls]
  BY <1>7
<1>11. x \in Result
  BY <1>7, <1>9, <1>10 DEF Result, Lineage
<1>. HIDE DEF x
<1>12. /\ c \in Call /\ c.step = call.step /\ c.topic = call.topic /\ c.boundary = call.boundary
       /\ c.start = call.start /\ c.before = call.before /\ c.result = {x}
       /\ c.held = call.held /\ c.heads = {} /\ c.discarding = "nothing"
  BY <1>2, <1>3, <1>11 DEF Call
<1>. HIDE DEF c
<1>13. /\ d \in Call /\ d.step = call.step + 1 /\ d.topic = call.topic
       /\ d.boundary = call.boundary /\ d.start = call.start /\ d.before = call.before
       /\ d.result = {x} /\ d.held = call.held /\ d.heads = {} /\ d.discarding = "nothing"
  BY <1>12, OnwardIs
<1>. HIDE DEF d
<1>14. Phase(d)
  BY <1>2, <1>3, <1>13 DEF Phase, TopicAt, HeldAt, CallInvariant
<1>15. CallFits(d)
  BY <1>2, <1>13 DEF CallFits, CallInvariant
<1>16. ResultsFit(d)
  <2>1. Turns(call.topic, call.start, b, x)
    BY <1>7, <1>9, <1>10 DEF Turns
  <2>2. \A a \in call.before : a = b
    BY <1>2, <1>4 DEF CallInvariant, Phase
  <2>. QED
    BY <1>7, <1>8, <1>10, <1>13, <2>1, <2>2 DEF ResultsFit
<1>17. Anchored(d) /\ HeadFits(d) /\ CountFits(d) /\ VerifiedAtEnd(d)
  BY <1>2, <1>3, <1>13
  DEF Anchored, Checked, HeadFits, CountFits, VerifiedAtEnd, CallInvariant
<1>18. CallInvariant(d)
  BY <1>13, <1>14, <1>15, <1>16, <1>17 DEF CallInvariant
<1>. QED
  BY <1>2, <1>5, <1>18, GoesTo DEF d, c, x

\* Behind the history anchor no event can lie below the start block, unless
\* the range was of a branch that is gone.
LEMMA AnchorStep ==
    ASSUME StreamInvariant, CheckHistoryAnchor
    PROVE  StreamInvariant'
<1>1. PICK name \in {"anchor", "anchorOrRetry"} : Doing(name)
  BY DEF CheckHistoryAnchor
<1>2. /\ call # Idle /\ CallInvariant(call) /\ TypeOK /\ Apart
      /\ call.step = 4 \/ (stream = "reactions" /\ call.step = 12)
      /\ call.discarding = "nothing" /\ call \in Call
  BY <1>1, DoingIsBusy, StepOf DEF CallInvariant, StreamInvariant
<1>3. /\ call.heads = {} /\ call.step \in Nat /\ call.start \in Start /\ call.start \in Nat
      /\ LastStep \in {10, 11, 21} /\ HeadStep \in {8, 19}
      /\ stream = "reactions" => LastStep = 21 /\ HeadStep = 19
  BY <1>2, HeightsAre DEF CallInvariant, Phase, LastStep, HeadStep, Call
<1>. DEFINE d == Onward(call)
<1>4. /\ d \in Call /\ d.step = call.step + 1 /\ d.topic = call.topic
      /\ d.boundary = call.boundary /\ d.start = call.start /\ d.before = call.before
      /\ d.result = call.result /\ d.held = call.held /\ d.heads = {}
      /\ d.discarding = "nothing"
  BY <1>2, <1>3, OnwardIs
<1>. HIDE DEF d
<1>5. ASSUME \A h \in call.boundary : Canonical(h)  PROVE CallInvariant(d)
  <2>1. Phase(d)
    BY <1>2, <1>3, <1>4 DEF Phase, TopicAt, HeldAt, CallInvariant
  <2>2. CallFits(d) /\ HeadFits(d) /\ CountFits(d) /\ VerifiedAtEnd(d)
    BY <1>2, <1>3, <1>4 DEF CallFits, HeadFits, CountFits, VerifiedAtEnd, CallInvariant
  <2>3. ResultsFit(d)
    BY <1>2, <1>4 DEF ResultsFit, Holding, CallInvariant
  <2>4. ASSUME NEW r \in call.result, NEW b \in NewestOf(r.checkpoints)
        PROVE  b \in orphaned \/ NoLogBelow(call.start, b)
    <3>1. b \in EverCanonical
      BY <1>2, <2>4 DEF CallInvariant, ResultsFit, Holding, NewestOf
    <3>2. CASE b \in Ancestors[head] /\ call.boundary = {} /\ call.start = 0
      BY <1>2, <3>2, HeightsAre DEF NoLogBelow
    <3>3. CASE /\ b \in Ancestors[head]
               /\ \E h \in Deployed : call.boundary = {h} /\ call.start = StartOf(h)
      BY <1>2, <1>5, <3>3, BoundaryIsLow DEF TypeOK
    <3>. QED
      BY <1>2, <3>1, <3>2, <3>3 DEF EverCanonical, CallInvariant, Anchored
  <2>5. Anchored(d)
    BY <1>2, <1>4, <2>4 DEF Anchored, AnchoredAt, CallInvariant
  <2>. QED
    BY <1>4, <2>1, <2>2, <2>3, <2>5 DEF CallInvariant
<1>6. \/ (\A h \in call.boundary : Canonical(h)) /\ Goes(d)
      \/ Goes([Begun EXCEPT !.retried = TRUE])
  BY DEF CheckHistoryAnchor, d
<1>. QED
  BY <1>2, <1>5, <1>6, IdleFits, GoesTo DEF TypeOK

\* What a scope holds once a result is stored in it.
LEMMA StoredFits ==
    ASSUME NEW t, NEW s \in Nat, NEW b \in Scope, NEW scope \in Scope, Fits(t, s, scope),
           scope.checkpoints = b.checkpoints,
           NEW r \in Result, Lineage(s, r.checkpoints), r.checkpoints \subseteq EverCanonical,
           Turns(t, s, b, r)
    PROVE  AfterSync(scope, r) \in Scope /\ Fits(t, s, AfterSync(scope, r))
<1>. DEFINE after == AfterSync(scope, r)
            old == Committed(s, b.checkpoints)
<1>1. /\ after.checkpoints = r.checkpoints
      /\ after.logs = Merged(scope.logs, r.rollbackTo, r.logs)
      /\ after \in Scope
  <2>1. Merged(scope.logs, r.rollbackTo, r.logs) \in SUBSET Log
    BY DEF Merged, LogsBefore, Scope, Result
  <2>2. r.checkpoints \in SUBSET Block /\ scope.revision + 1 \in Nat
    BY DEF Scope, Result
  <2>. QED
    BY <2>1, <2>2 DEF AfterSync, Scope
<1>. HIDE DEF after
<1>2. PICK all \in SUBSET Log :
         /\ Merged(old, r.rollbackTo, all) = Committed(s, r.checkpoints)
         /\ r.logs \subseteq all \cap Matching(t)
         /\ stream \notin Withholding => r.logs = all \cap Matching(t)
  BY DEF Turns
<1>3. /\ scope.logs \subseteq old \cap Matching(t)
      /\ stream \notin Withholding => scope.logs = old \cap Matching(t)
  BY DEF Fits
<1>. HIDE DEF old
<1>4. after.logs \subseteq Merged(old, r.rollbackTo, all) \cap Matching(t)
  BY <1>1, <1>2, <1>3 DEF Merged, LogsBefore
<1>5. stream \notin Withholding =>
         after.logs = Merged(old, r.rollbackTo, all) \cap Matching(t)
  BY <1>1, <1>2, <1>3 DEF Merged, LogsBefore
<1>. QED
  BY <1>1, <1>2, <1>4, <1>5 DEF Fits, after

\* One scope is written.
LEMMA ScopeIsWritten ==
    ASSUME TypeOK, ScopesFit, Grows, NEW t \in Topic, NEW s \in Start, NEW scope \in Scope,
           Fits(t, s, scope), scopes' = [scopes EXCEPT ![<<t, s>>] = scope]
    PROVE  ScopesFit' /\ scopes' \in [Topic \X Start -> Scope]
<1>1. scopes \in [Topic \X Start -> Scope] /\ <<t, s>> \in Topic \X Start
  BY DEF TypeOK
<1>2. PICK next : next = [scopes EXCEPT ![<<t, s>>] = scope]
  OBVIOUS
<1>3. next \in [Topic \X Start -> Scope] /\ scopes' = next
  BY <1>1, <1>2
<1>4. ASSUME NEW u \in Topic, NEW v \in Start  PROVE Fits(u, v, next[<<u, v>>])'
  <2>1. Fits(u, v, next[<<u, v>>])
    <3>1. CASE <<u, v>> = <<t, s>>
      <4>1. next[<<u, v>>] = scope /\ u = t /\ v = s
        BY <1>1, <1>2, <3>1
      <4>. QED
        BY <4>1
    <3>2. CASE <<u, v>> # <<t, s>>
      <4>1. next[<<u, v>>] = scopes[<<u, v>>]
        BY <1>1, <1>2, <1>4, <3>2
      <4>. QED
        BY <4>1 DEF ScopesFit
    <3>. QED
      BY <3>1, <3>2
  <2>. QED
    BY <2>1, FitsOutlives
<1>. QED
  BY <1>3, <1>4 DEF ScopesFit, Fits

\* Storing a range.
LEMMA ApplyStep ==
    ASSUME StreamInvariant, ApplyResult
    PROVE  StreamInvariant'
<1>1. Doing("apply")
  BY DEF ApplyResult
<1>2. /\ call # Idle /\ CallInvariant(call) /\ TypeOK /\ Apart /\ ScopesFit
      /\ call.step = 5 \/ (stream = "reactions" /\ call.step = 13)
      /\ call.discarding = "nothing" /\ call \in Call
  BY <1>1, DoingIsBusy, StepOf DEF CallInvariant, StreamInvariant
<1>3. /\ call.step \in Nat /\ call.start \in Start /\ call.start \in Nat
      /\ LastStep \in {10, 11, 21} /\ HeadStep \in {8, 19}
      /\ stream = "reactions" => LastStep = 21 /\ HeadStep = 19
  BY <1>2, HeightsAre DEF CallInvariant, Phase, LastStep, HeadStep, Call
<1>4. call.topic \in Topic
  BY <1>2 DEF CallInvariant, Phase, TopicAt, Topic
<1>. DEFINE scope == scopes[<<call.topic, call.start>>]
<1>5. PICK b \in call.before, r \in call.result :
         /\ SamePosition(scope, b)
         /\ Stores(call.topic, AfterSync(scope, r))
  BY DEF ApplyResult
<1>6. scope \in Scope /\ Fits(call.topic, call.start, scope)
  BY <1>2, <1>3, <1>4 DEF TypeOK, ScopesFit
<1>. DEFINE after == AfterSync(scope, r)
<1>7. after \in Scope /\ Fits(call.topic, call.start, after)
  <2>1. b \in Scope /\ r \in Result /\ scope.checkpoints = b.checkpoints
    BY <1>2, <1>5 DEF Call, SamePosition
  <2>2. /\ Lineage(call.start, r.checkpoints) /\ r.checkpoints \subseteq EverCanonical
        /\ Turns(call.topic, call.start, b, r)
    BY <1>2, <1>5 DEF CallInvariant, ResultsFit, Holding
  <2>. HIDE DEF scope
  <2>. QED
    BY <1>3, <1>6, <2>1, <2>2, StoredFits
<1>. HIDE DEF after
<1>8. /\ scopes' = [scopes EXCEPT ![<<call.topic, call.start>>] = after]
      /\ UNCHANGED <<chainVars, stream, shown, auth>>
  BY <1>5 DEF Stores, after
<1>9. ChainTypeOK' /\ Apart' /\ Grows
  BY <1>2, <1>8, ChainStays DEF TypeOK
<1>10. ScopesFit' /\ scopes' \in [Topic \X Start -> Scope]
  <2>1. PICK t \in Topic, s \in Start : t = call.topic /\ s = call.start
    BY <1>3, <1>4
  <2>2. Fits(t, s, after) /\ scopes' = [scopes EXCEPT ![<<t, s>>] = after]
    BY <1>7, <1>8, <2>1
  <2>3. PICK x \in Scope : x = after
    BY <1>7
  <2>. QED
    BY <1>2, <1>9, <2>2, <2>3, ScopeIsWritten
<1>11. CallInvariant(Onward(call))
  BY <1>2, <1>3, NothingNew
<1>12. CallInvariant(call)'
  BY <1>9, <1>11, CallOutlives DEF ApplyResult
<1>13. ShownFits' /\ SnapshotConfirmed' /\ (OnlyGroupsWithheld => SnapshotIsWhole)'
  BY <1>8, <1>9, ShownOutlives DEF OnlyGroupsWithheld, StreamInvariant
<1>14. Authenticated'
  BY <1>2, <1>8, <1>9, AuthenticationOutlives DEF StreamInvariant
<1>15. TypeOK'
  BY <1>2, <1>8, <1>9, <1>10, <1>12
  DEF TypeOK, CallInvariant, Call, Scope, Snapshot, Held, Result
<1>. QED
  BY <1>9, <1>10, <1>12, <1>13, <1>14, <1>15 DEF StreamInvariant

\* What is read again is what the call made of the scope.
LEMMA RereadStep ==
    ASSUME StreamInvariant, RereadScope
    PROVE  StreamInvariant'
<1>1. Doing("reread")
  BY DEF RereadScope
<1>2. /\ call # Idle /\ CallInvariant(call) /\ TypeOK /\ ScopesFit
      /\ call.step = 6 \/ (stream = "reactions" /\ call.step = 14)
      /\ call.discarding = "nothing" /\ call \in Call
  BY <1>1, DoingIsBusy, StepOf DEF CallInvariant, StreamInvariant
<1>3. /\ call.heads = {} /\ call.step \in Nat /\ call.start \in Start /\ call.start \in Nat
      /\ LastStep \in {10, 11, 21} /\ HeadStep \in {8, 19}
      /\ stream = "reactions" => LastStep = 21 /\ HeadStep = 19
  BY <1>2, HeightsAre DEF CallInvariant, Phase, LastStep, HeadStep, Call
<1>4. /\ call.topic \in Topic /\ call.topic = TopicAt(call.step)
      /\ DOMAIN call.held = HeldAt(call.step) /\ call.topic \notin DOMAIN call.held
      /\ DOMAIN call.held \cup {call.topic} = HeldAt(call.step + 1)
      /\ HeldAt(call.step + 1) \subseteq Topics /\ HeldAt(call.step + 1) \subseteq Topic
  BY <1>2 DEF CallInvariant, Phase, TopicAt, Topic, HeldAt, Topics
<1>. DEFINE scope == scopes[<<call.topic, call.start>>]
            held == [t \in DOMAIN call.held \cup {call.topic} |->
                        IF t = call.topic THEN scope ELSE call.held[t]]
            c == [call EXCEPT !.held = held]
            e == [c EXCEPT !.discarding = "held"]
            d == Onward(c)
<1>5. PICK b \in call.before, r \in call.result :
         /\ SamePosition(scope, [b EXCEPT !.revision = @ + 1, !.checkpoints = r.checkpoints])
         /\ Goes(d) \/ Goes(e)
  BY DEF RereadScope
<1>6. scope \in Scope /\ Fits(call.topic, call.start, scope)
  BY <1>2, <1>3, <1>4 DEF TypeOK, ScopesFit
<1>7. scope.checkpoints = r.checkpoints
  <2>1. b \in Scope
    BY <1>2, <1>5 DEF Call
  <2>. QED
    BY <1>5, <2>1 DEF SamePosition, Scope
<1>8. AnchoredAt(call.start, scope.checkpoints)
  BY <1>2, <1>5, <1>7 DEF CallInvariant, Anchored, Checked
<1>. HIDE DEF scope
<1>9. /\ DOMAIN held = HeldAt(call.step + 1)
      /\ held \in Held
      /\ held[call.topic] = scope
      /\ \A t \in DOMAIN call.held : held[t] = call.held[t]
  <2>1. DOMAIN held = HeldAt(call.step + 1)
    BY <1>4
  <2>2. held[call.topic] = scope
    OBVIOUS
  <2>3. \A t \in DOMAIN call.held : held[t] = call.held[t]
    BY <1>4
  <2>4. \A t \in DOMAIN call.held : call.held[t] \in Scope
    BY <1>2 DEF Call, Held
  <2>5. held \in [DOMAIN call.held \cup {call.topic} -> Scope]
    BY <1>6, <2>4
  <2>. QED
    BY <1>4, <2>1, <2>2, <2>3, <2>5 DEF Held
<1>. HIDE DEF held
<1>10. /\ c \in Call /\ c.step = call.step /\ c.topic = call.topic /\ c.boundary = call.boundary
       /\ c.start = call.start /\ c.before = call.before /\ c.result = call.result
       /\ c.held = held /\ c.heads = {} /\ c.discarding = "nothing"
  BY <1>2, <1>3, <1>9 DEF Call
<1>. HIDE DEF c
<1>11. /\ e \in Call /\ e.step = call.step /\ e.topic = call.topic /\ e.boundary = call.boundary
       /\ e.start = call.start /\ e.before = call.before /\ e.result = call.result
       /\ e.held = held /\ e.heads = {} /\ e.discarding = "held"
  BY <1>10 DEF Call
<1>. HIDE DEF e
<1>12. /\ d \in Call /\ d.step = call.step + 1 /\ d.topic = call.topic
       /\ d.boundary = call.boundary /\ d.start = call.start /\ d.before = call.before
       /\ d.result = call.result /\ d.held = held /\ d.heads = {}
       /\ d.discarding = "nothing"
  BY <1>10, OnwardIs
<1>. HIDE DEF d
<1>13. \A t \in DOMAIN held : /\ Fits(t, call.start, held[t])
                              /\ AnchoredAt(call.start, held[t].checkpoints)
  <2>1. \A t \in DOMAIN call.held : /\ Fits(t, call.start, call.held[t])
                                    /\ AnchoredAt(call.start, call.held[t].checkpoints)
    BY <1>2 DEF CallInvariant, CallFits, Anchored
  <2>. QED
    BY <1>4, <1>6, <1>8, <1>9, <2>1
<1>14. ASSUME NEW x \in {d, e}  PROVE CallInvariant(x)
  <2>1. /\ x \in Call /\ x.topic = call.topic
        /\ x.boundary = call.boundary /\ x.start = call.start /\ x.before = call.before
        /\ x.result = call.result /\ x.held = held /\ x.heads = {}
        /\ x.step \in {call.step, call.step + 1}
        /\ x.discarding = "nothing" => x.step = call.step + 1
        /\ x.discarding \in {"nothing", "held"}
    BY <1>11, <1>12
  <2>2. Phase(x)
    BY <1>2, <1>3, <1>4, <1>9, <2>1 DEF Phase, TopicAt, CallInvariant
  <2>3. CallFits(x)
    BY <1>2, <1>13, <2>1 DEF CallInvariant, CallFits
  <2>4. ResultsFit(x)
    BY <1>2, <2>1 DEF CallInvariant, ResultsFit, Holding
  <2>5. Anchored(x)
    BY <1>2, <1>13, <2>1 DEF CallInvariant, Anchored, Checked
  <2>6. HeadFits(x) /\ CountFits(x) /\ VerifiedAtEnd(x)
    BY <1>2, <1>3, <2>1 DEF HeadFits, CountFits, VerifiedAtEnd
  <2>. QED
    BY <2>1, <2>2, <2>3, <2>4, <2>5, <2>6 DEF CallInvariant
<1>15. CallInvariant(d) /\ CallInvariant(e)
  BY <1>14
<1>. QED
  BY <1>2, <1>5, <1>15, GoesTo

\* What is held of any topic has its checkpoints on chains there were.
LEMMA NewestHeldIs ==
    ASSUME NEW c, CallInvariant(c), NEW b \in NewestHeld(c.held)
    PROVE  /\ b \in EverCanonical /\ b \in Block
           /\ b \in orphaned \/ NoLogBelow(c.start, b)
           /\ c.start \in Nat
           /\ \E t \in DOMAIN c.held : /\ b \in NewestOf(c.held[t].checkpoints)
                                       /\ Fits(t, c.start, c.held[t])
<1>1. c.start \in Nat
  BY HeightsAre DEF CallInvariant, Call
<1>2. PICK t \in DOMAIN c.held : b \in NewestOf(c.held[t].checkpoints)
  BY DEF NewestHeld
<1>3. Fits(t, c.start, c.held[t]) /\ AnchoredAt(c.start, c.held[t].checkpoints)
  BY DEF CallInvariant, CallFits, Anchored
<1>. QED
  BY <1>1, <1>2, <1>3, NewestIsOne DEF Fits, AnchoredAt

\* The last check finds every newest checkpoint canonical at once.
LEMMA CanonicalStep ==
    ASSUME StreamInvariant, CheckCanonical
    PROVE  StreamInvariant'
<1>1. PICK name \in {"canonical", "canonicalOne"} :
         /\ Doing(name)
         /\ name = "canonical" => \A b \in NewestHeld(call.held) : Canonical(b)
         /\ Goes(Onward(call))
  BY DEF CheckCanonical
<1>2. /\ call # Idle /\ CallInvariant(call) /\ TypeOK /\ Apart
      /\ name = "canonicalOne" => stream = "reactions" /\ call.step \in {7, 9, 15, 17}
      /\ name = "canonical" =>
            call.step = HeadStep - 1 \/ (call.step > HeadStep /\ call.step = LastStep - 1)
      /\ call.discarding = "nothing" /\ call \in Call
  BY <1>1, DoingIsBusy, StepOf DEF CallInvariant, StreamInvariant
<1>3. /\ call.step \in Nat
      /\ LastStep \in {10, 11, 21} /\ HeadStep \in {8, 19}
      /\ stream = "reactions" <=> LastStep = 21
      /\ stream = "reactions" <=> HeadStep = 19
      /\ stream = "groups" <=> LastStep = 11
  BY <1>2 DEF CallInvariant, Phase, LastStep, HeadStep
<1>4. CASE call.step # LastStep - 1
  <2>1. CallInvariant(Onward(call))
    BY <1>1, <1>2, <1>3, <1>4, NothingNew
  <2>. QED
    BY <1>1, <1>2, <2>1, GoesTo
<1>5. CASE call.step = LastStep - 1
  <2>. DEFINE d == Onward(call)
  <2>1. name = "canonical"
    BY <1>1, <1>2, <1>3, <1>5
  <2>2. /\ d \in Call /\ d.step = LastStep /\ d.topic = call.topic
        /\ d.boundary = call.boundary /\ d.start = call.start /\ d.before = call.before
        /\ d.result = call.result /\ d.held = call.held /\ d.heads = call.heads
        /\ d.counted = call.counted /\ d.discarding = "nothing"
    BY <1>2, <1>3, <1>5, OnwardIs
  <2>. HIDE DEF d
  <2>3. Phase(d)
    BY <1>2, <1>3, <1>5, <2>2 DEF Phase, TopicAt, HeldAt, CallInvariant
  <2>4. CallFits(d) /\ HeadFits(d)
    BY <1>2, <2>2 DEF CallInvariant, CallFits, HeadFits
  <2>5. ResultsFit(d) /\ Anchored(d)
    BY <1>2, <1>3, <1>5, <2>2
    DEF CallInvariant, ResultsFit, Holding, Anchored, Checked
  <2>6. CountFits(d)
    BY <1>2, <1>3, <1>5, <2>2 DEF CallInvariant, CountFits, CountedAt
  <2>7. \A b \in NewestHeld(call.held) : b \notin orphaned
    BY <1>1, <1>2, <2>1 DEF Canonical, Apart
  <2>8. VerifiedAtEnd(d)
    <3>1. \A b \in NewestHeld(d.held) : NoLogBelow(d.start, b)
      BY <1>2, <2>2, <2>7, NewestHeldIs
    <3>2. \A h \in d.heads, b \in NewestHeld(d.held) : Below(b, h)
      BY <2>2, <2>4, <2>7 DEF HeadFits
    <3>3. ASSUME stream = "groups", NEW h \in d.heads, CaughtUp(d.held, d.start, h)
          PROVE  \E b \in Block :
                    /\ CountedAt(d, h, b)
                    /\ \A e \in NewestHeld(d.held) : Height[e] = Height[b] => e = b
      <4>1. d.step = 11
        BY <1>3, <2>2, <3>3
      <4>2. PICK b \in Block :
               /\ CountedAt(d, h, b)
               /\ \A e \in NewestHeld(d.held) :
                     e \in orphaned \/ (Height[e] = Height[b] => e = b)
        BY <2>6, <3>3, <4>1 DEF CountFits
      <4>. QED
        BY <2>2, <2>7, <4>2
    <3>. QED
      BY <3>1, <3>2, <3>3 DEF VerifiedAtEnd
  <2>9. CallInvariant(d)
    BY <2>2, <2>3, <2>4, <2>5, <2>6, <2>8 DEF CallInvariant
  <2>. QED
    BY <1>1, <1>2, <2>9, GoesTo DEF d
<1>. QED
  BY <1>4, <1>5

\* A head far enough beyond a checkpoint of its own branch.
LEMMA HeadStepFits ==
    ASSUME StreamInvariant, ReadHead
    PROVE  StreamInvariant'
<1>1. PICK h \in Block :
         /\ Announced(h)
         /\ \/ /\ Doing("head")
               /\ \A t \in DOMAIN call.held :
                     Behind(h, IndexedThrough(call.start, call.held[t].checkpoints))
               /\ Goes(Onward([call EXCEPT !.heads = {h}]))
            \/ Doing("headOne") /\ Goes(Onward(call))
  BY DEF ReadHead
<1>2. /\ LastStep \in {10, 11, 21} /\ HeadStep \in {8, 19}
      /\ stream = "reactions" <=> LastStep = 21
      /\ stream = "reactions" <=> HeadStep = 19
      /\ stream = "groups" <=> LastStep = 11
  BY DEF LastStep, HeadStep
<1>3. CASE Doing("headOne") /\ Goes(Onward(call))
  <2>1. /\ call # Idle /\ CallInvariant(call)
        /\ stream = "reactions" /\ call.step \in {8, 16} /\ call.discarding = "nothing"
    BY <1>3, DoingIsBusy, StepOf
  <2>2. CallInvariant(Onward(call))
    BY <1>2, <2>1, NothingNew
  <2>. QED
    BY <1>3, <2>1, <2>2, GoesTo
<1>4. CASE /\ Doing("head")
           /\ \A t \in DOMAIN call.held :
                 Behind(h, IndexedThrough(call.start, call.held[t].checkpoints))
           /\ Goes(Onward([call EXCEPT !.heads = {h}]))
  <2>. DEFINE c == [call EXCEPT !.heads = {h}]
              d == Onward(c)
  <2>1. /\ call # Idle /\ CallInvariant(call) /\ TypeOK /\ Apart
        /\ call.step = HeadStep /\ call.discarding = "nothing" /\ call \in Call
    BY <1>4, DoingIsBusy, StepOf DEF CallInvariant, StreamInvariant
  <2>2. /\ c \in Call /\ c.step = call.step /\ c.topic = call.topic
        /\ c.boundary = call.boundary /\ c.start = call.start /\ c.before = call.before
        /\ c.result = call.result /\ c.held = call.held /\ c.heads = {h}
        /\ c.discarding = "nothing"
    BY <2>1 DEF Call
  <2>. HIDE DEF c
  <2>3. /\ d \in Call /\ d.step = HeadStep + 1 /\ d.topic = call.topic
        /\ d.boundary = call.boundary /\ d.start = call.start /\ d.before = call.before
        /\ d.result = call.result /\ d.held = call.held /\ d.heads = {h}
        /\ d.discarding = "nothing"
    BY <2>1, <2>2, OnwardIs
  <2>. HIDE DEF d
  <2>4. Phase(d)
    BY <1>2, <2>1, <2>3 DEF Phase, TopicAt, HeldAt, CallInvariant
  <2>5. CallFits(d) /\ ResultsFit(d) /\ Anchored(d)
    BY <1>2, <2>1, <2>3
    DEF CallInvariant, CallFits, ResultsFit, Holding, Anchored, Checked
  <2>6. ASSUME NEW b \in NewestHeld(call.held)  PROVE b \in orphaned \/ Below(b, h)
    <3>1. PICK t \in DOMAIN call.held : /\ b \in NewestOf(call.held[t].checkpoints)
                                        /\ Fits(t, call.start, call.held[t])
      BY <2>1, <2>6, NewestHeldIs
    <3>. DEFINE cps == call.held[t].checkpoints
    <3>2. /\ b \in EverCanonical /\ b \in Block /\ call.start \in Nat
          /\ Lineage(call.start, cps) /\ cps # {} /\ b = Newest(cps)
      BY <2>1, <2>6, <3>1, NewestHeldIs, CommittedIsWhole DEF Fits
    <3>3. Height[b] \in Nat /\ Height[h] \in Nat /\ FinalityDepth \in Nat
      BY <3>2, HeightsAre, StreamAssumption
    <3>4. IndexedThrough(call.start, cps) = Height[b]
      BY <3>2, <3>3 DEF IndexedThrough, NextAfter
    <3>5. Height[h] - Height[b] >= FinalityDepth
      BY <1>4, <3>3, <3>4 DEF Behind, Undefined
    <3>6. CASE b \in Ancestors[head]
      <4>1. h \in Ancestors[head] /\ head \in Block /\ Height[b] <= Height[h]
        BY <1>1, <2>1, <3>3, <3>5 DEF Announced, Canonical, TypeOK, ChainTypeOK
      <4>2. b \in Ancestors[h]
        BY <3>6, <4>1, OneAncestry
      <4>. QED
        BY <3>5, <4>2 DEF Below
    <3>. QED
      BY <3>2, <3>6 DEF EverCanonical
  <2>7. HeadFits(d)
    BY <2>3, <2>6 DEF HeadFits
  <2>8. CountFits(d) /\ VerifiedAtEnd(d)
    BY <1>2, <2>3 DEF CountFits, VerifiedAtEnd
  <2>9. CallInvariant(d)
    BY <2>3, <2>4, <2>5, <2>7, <2>8 DEF CallInvariant
  <2>. QED
    BY <1>4, <2>1, <2>9, GoesTo DEF d, c
<1>. QED
  BY <1>1, <1>3, <1>4

\* The groups are counted at a canonical block of the safe height; a newest
\* checkpoint of that height is this block unless it was abandoned.
LEMMA CountStep ==
    ASSUME StreamInvariant, CountGroups
    PROVE  StreamInvariant'
<1>1. Doing("count")
  BY DEF CountGroups
<1>2. /\ call # Idle /\ CallInvariant(call) /\ TypeOK /\ Apart
      /\ stream = "groups" /\ call.step = 9
      /\ call.discarding = "nothing" /\ call \in Call
  BY <1>1, DoingIsBusy, StepOf DEF CallInvariant, StreamInvariant
<1>3. PICK h \in call.heads :
         \/ ~ CaughtUp(call.held, call.start, h) /\ Goes(Onward(call))
         \/ \E b \in Block :
              /\ BlockAt(SafeHead(h), b)
              /\ Goes(Onward([call EXCEPT !.counted =
                         1 + Cardinality(LogsThrough(b, 0, Height[b]))]))
  BY DEF CountGroups
<1>4. ASSUME NEW n \in Nat,
             CaughtUp(call.held, call.start, h) =>
                \E b \in Block :
                   /\ Canonical(b) /\ Height[b] = SafeHead(h)
                   /\ n = 1 + Cardinality(LogsThrough(b, 0, Height[b]))
      PROVE  CallInvariant(Onward([call EXCEPT !.counted = n]))
  <2>. DEFINE c == [call EXCEPT !.counted = n]
              d == Onward(c)
  <2>1. /\ c \in Call /\ c.step = 9 /\ c.topic = call.topic
        /\ c.boundary = call.boundary /\ c.start = call.start /\ c.before = call.before
        /\ c.result = call.result /\ c.held = call.held /\ c.heads = call.heads
        /\ c.counted = n /\ c.discarding = "nothing"
    BY <1>2 DEF Call
  <2>. HIDE DEF c
  <2>2. /\ d \in Call /\ d.step = 10 /\ d.topic = call.topic
        /\ d.boundary = call.boundary /\ d.start = call.start /\ d.before = call.before
        /\ d.result = call.result /\ d.held = call.held /\ d.heads = call.heads
        /\ d.counted = n /\ d.discarding = "nothing"
    BY <2>1, OnwardIs
  <2>. HIDE DEF d
  <2>3. LastStep = 11 /\ HeadStep = 8
    BY <1>2 DEF LastStep, HeadStep
  <2>4. Phase(d)
    BY <1>2, <2>2, <2>3 DEF Phase, TopicAt, HeldAt, CallInvariant
  <2>5. CallFits(d) /\ ResultsFit(d) /\ Anchored(d) /\ HeadFits(d)
    BY <1>2, <2>2
    DEF CallInvariant, CallFits, ResultsFit, Holding, Anchored, Checked, HeadFits
  <2>6. CountFits(d)
    <3>1. SUFFICES ASSUME NEW g \in call.heads, CaughtUp(call.held, call.start, g)
                   PROVE  \E b \in Block :
                             /\ CountedAt(d, g, b)
                             /\ \A e \in NewestHeld(call.held) :
                                   e \in orphaned \/ (Height[e] = Height[b] => e = b)
      BY <2>2 DEF CountFits
    <3>2. g = h
      BY <1>2, <1>3 DEF CallInvariant, Phase
    <3>3. PICK b \in Block :
             /\ Canonical(b) /\ Height[b] = SafeHead(h)
             /\ n = 1 + Cardinality(LogsThrough(b, 0, Height[b]))
      BY <1>4, <3>1, <3>2
    <3>4. CountedAt(d, g, b)
      BY <2>2, <3>2, <3>3 DEF CountedAt
    <3>5. ASSUME NEW e \in NewestHeld(call.held), e \notin orphaned, Height[e] = Height[b]
          PROVE  e = b
      <4>1. /\ e \in Ancestors[head] /\ b \in Ancestors[head] /\ head \in Block
            /\ Height[b] \in Nat
        BY <1>2, <3>3, <3>5, NewestHeldIs, HeightsAre
        DEF EverCanonical, Canonical, TypeOK, ChainTypeOK
      <4>. QED
        BY <3>5, <4>1, OneAncestry
    <3>. QED
      BY <3>4, <3>5
  <2>7. VerifiedAtEnd(d)
    BY <2>2, <2>3 DEF VerifiedAtEnd
  <2>. QED
    BY <2>2, <2>4, <2>5, <2>6, <2>7 DEF CallInvariant, d, c
<1>5. CASE ~ CaughtUp(call.held, call.start, h) /\ Goes(Onward(call))
  <2>1. call.counted \in Nat
    BY <1>2 DEF Call
  <2>2. [call EXCEPT !.counted = call.counted] = call
    BY <1>2 DEF Call
  <2>3. CallInvariant(Onward([call EXCEPT !.counted = call.counted]))
    BY <1>4, <1>5, <2>1
  <2>. QED
    BY <1>2, <1>5, <2>2, <2>3, GoesTo
<1>6. ASSUME NEW b \in Block, BlockAt(SafeHead(h), b),
             Goes(Onward([call EXCEPT !.counted =
                      1 + Cardinality(LogsThrough(b, 0, Height[b]))]))
      PROVE  StreamInvariant'
  <2>. DEFINE n == 1 + Cardinality(LogsThrough(b, 0, Height[b]))
  <2>1. n \in Nat
    BY StreamAssumption, FS_CardinalityType
  <2>2. Canonical(b) /\ Height[b] = SafeHead(h)
    BY <1>6 DEF BlockAt
  <2>3. CallInvariant(Onward([call EXCEPT !.counted = n]))
    BY <1>4, <2>1, <2>2
  <2>. QED
    BY <1>2, <1>6, <2>3, GoesTo
<1>. QED
  BY <1>3, <1>5, <1>6

\* What a caught-up snapshot holds of a topic is the whole branch: its
\* checkpoints leave nothing out below, and the groups' count nothing above.
LEMMA HeldIsWhole ==
    ASSUME TypeOK, CallInvariant(call), OnlyGroupsWithheld, call.step = LastStep,
           NEW h \in call.heads, CaughtUp(call.held, call.start, h),
           stream = "groups" => AtSafeHead(call.held, h),
           NEW t \in DOMAIN call.held,
           stream = "groups" => call.counted = Cardinality(call.held[t].logs) + 1
    PROVE  call.held[t].logs =
              UNION {LogsThrough(c, 0, Height[c]) \cap Matching(t) :
                        c \in NewestOf(call.held[t].checkpoints)}
<1>. DEFINE cps == call.held[t].checkpoints
            logs == call.held[t].logs
            s == call.start
<1>1. /\ s \in Nat /\ Lineage(s, cps) /\ t \in Topics
      /\ logs \subseteq Committed(s, cps) \cap Matching(t)
      /\ stream \notin Withholding => logs = Committed(s, cps) \cap Matching(t)
  BY HeightsAre DEF CallInvariant, CallFits, Fits, Call, Phase
<1>2. CASE cps = {}
  <2>1. NewestOf(cps) = {} /\ Committed(s, cps) = {}
    BY <1>1, <1>2, NewestIsOne DEF Committed
  <2>. HIDE DEF cps, logs
  <2>2. logs = {}
    BY <1>1, <2>1
  <2>. QED
    BY <2>1, <2>2 DEF cps, logs
<1>3. CASE cps # {}
  <2>. DEFINE c == Newest(cps)
  <2>1. NewestOf(cps) = {c} /\ c \in Block
    BY <1>1, <1>3, NewestIsOne
  <2>2. c \in NewestHeld(call.held)
    BY <2>1 DEF NewestHeld
  <2>3. NoLogBelow(s, c)
    BY <2>2 DEF CallInvariant, VerifiedAtEnd
  <2>4. Committed(s, cps) = LogsThrough(c, 0, Height[c])
    <3>1. c \in NewestOf(cps)
      BY <2>1
    <3>. QED
      BY <1>1, <2>3, <3>1, CommittedIsWhole
  <2>5. logs = LogsThrough(c, 0, Height[c]) \cap Matching(t)
    <3>1. CASE stream \notin Withholding
      BY <1>1, <2>4, <3>1
    <3>2. CASE stream \in Withholding
      <4>1. stream = "groups"
        BY <3>2 DEF OnlyGroupsWithheld
      <4>2. Matching(t) = Log
        BY <1>1, <4>1 DEF Topics, Matching
      <4>3. PICK b \in Block :
               /\ CountedAt(call, h, b)
               /\ \A d \in NewestHeld(call.held) : Height[d] = Height[b] => d = b
        BY <4>1 DEF CallInvariant, VerifiedAtEnd
      <4>4. SafeHead(h) # Undefined
        BY <4>1 DEF CaughtUp, NeedsSafeHead
      <4>5. PICK e \in Block : Height[e] = SafeHead(h) /\ NewestOf(cps) = {e}
        BY <4>1, <4>4 DEF AtSafeHead
      <4>6. c = b
        <5>1. c = e
          BY <2>1, <4>5
        <5>. QED
          BY <2>2, <4>3, <4>5, <5>1 DEF CountedAt
      <4>7. call.counted = 1 + Cardinality(LogsThrough(c, 0, Height[c]))
        BY <4>3, <4>6 DEF CountedAt
      <4>. DEFINE whole == LogsThrough(c, 0, Height[c])
      <4>8. IsFiniteSet(whole) /\ logs \subseteq whole /\ whole \subseteq Log
        BY <1>1, <2>1, <2>4, StreamAssumption DEF LogsThrough
      <4>9. call.counted = Cardinality(logs) + 1
        BY <4>1
      <4>. HIDE DEF whole, logs
      <4>10. IsFiniteSet(logs) /\ Cardinality(logs) \in Nat /\ Cardinality(whole) \in Nat
        BY <4>8, FS_Subset, FS_CardinalityType
      <4>11. Cardinality(logs) = Cardinality(whole)
        BY <4>7, <4>9, <4>10 DEF whole
      <4>12. logs = whole
        BY <4>8, <4>11, FS_Subset
      <4>. QED
        BY <4>2, <4>8, <4>12 DEF whole
    <3>. QED
      BY <3>1, <3>2
  <2>. HIDE DEF c, logs, cps
  <2>. QED
    BY <2>1, <2>5 DEF cps, logs
<1>. QED
  BY <1>2, <1>3

\* Returning a snapshot.
LEMMA FinishStep ==
    ASSUME StreamInvariant, Finish
    PROVE  StreamInvariant'
<1>1. PICK name \in {"show", "showAtSafeHead", "showCounted", "issue"} :
      \E h \in call.heads :
         LET caughtUp == CaughtUp(call.held, call.start, h)
             counts == \A t \in DOMAIN call.held :
                           call.counted = Cardinality(call.held[t].logs) + 1
         IN  /\ Doing(name)
             /\ (caughtUp /\ name # "show") => AtSafeHead(call.held, h)
             /\ IF name = "showCounted" /\ caughtUp /\ ~ counts
                THEN /\ call' = [call EXCEPT !.discarding = "held"]
                     /\ shown' = shown
                ELSE /\ call' = Idle
                     /\ shown' = {[start |-> call.start, held |-> call.held,
                                   head |-> h, caughtUp |-> caughtUp,
                                   issued |-> caughtUp /\ Issuing]}
  BY DEF Finish
<1>2. PICK h \in call.heads :
         LET caughtUp == CaughtUp(call.held, call.start, h)
             counts == \A t \in DOMAIN call.held :
                           call.counted = Cardinality(call.held[t].logs) + 1
         IN  /\ Doing(name)
             /\ (caughtUp /\ name # "show") => AtSafeHead(call.held, h)
             /\ IF name = "showCounted" /\ caughtUp /\ ~ counts
                THEN /\ call' = [call EXCEPT !.discarding = "held"]
                     /\ shown' = shown
                ELSE /\ call' = Idle
                     /\ shown' = {[start |-> call.start, held |-> call.held,
                                   head |-> h, caughtUp |-> caughtUp,
                                   issued |-> caughtUp /\ Issuing]}
  BY <1>1
<1>3. Doing(name)
  BY <1>2
<1>4. /\ call # Idle /\ CallInvariant(call) /\ TypeOK /\ Apart /\ ScopesFit
      /\ call.step = LastStep
      /\ name = "showCounted" <=> stream = "groups"
      /\ call.discarding = "nothing" /\ call \in Call
  BY <1>3, DoingIsBusy, StepOf DEF CallInvariant, StreamInvariant
<1>5. LastStep \in {10, 11, 21} /\ h \in Block
  BY <1>4 DEF LastStep, Call
<1>6. UNCHANGED <<chainVars, stream, scopes, auth>>
  BY DEF Finish
<1>7. CASE call' = [call EXCEPT !.discarding = "held"] /\ shown' = shown
  <2>. DEFINE d == [call EXCEPT !.discarding = "held"]
  <2>1. /\ d \in Call /\ d.step = call.step /\ d.topic = call.topic
        /\ d.boundary = call.boundary /\ d.start = call.start /\ d.before = call.before
        /\ d.result = call.result /\ d.held = call.held /\ d.heads = call.heads
        /\ d.counted = call.counted /\ d.discarding = "held"
    BY <1>4 DEF Call
  <2>2. Goes(d)
    BY <1>6, <1>7 DEF Goes
  <2>. HIDE DEF d
  <2>3. Phase(d)
    BY <1>4, <1>5, <2>1 DEF CallInvariant, Phase
  <2>4. CallFits(d) /\ ResultsFit(d) /\ Anchored(d) /\ HeadFits(d) /\ CountFits(d)
    BY <1>4, <2>1
    DEF CallInvariant, CallFits, ResultsFit, Holding, Anchored, Checked, HeadFits,
        CountFits, CountedAt
  <2>5. VerifiedAtEnd(d)
    BY <1>4, <2>1 DEF CallInvariant, VerifiedAtEnd, CountedAt
  <2>6. CallInvariant(d)
    BY <2>1, <2>3, <2>4, <2>5 DEF CallInvariant
  <2>. QED
    BY <1>4, <2>2, <2>6, GoesTo
<1>8. CASE ~ (call' = [call EXCEPT !.discarding = "held"] /\ shown' = shown)
  <2>1. PICK new : new = [start |-> call.start, held |-> call.held, head |-> h,
                          caughtUp |-> CaughtUp(call.held, call.start, h),
                          issued |-> CaughtUp(call.held, call.start, h) /\ Issuing]
    OBVIOUS
  <2>2. call' = Idle /\ shown' = {new}
    BY <1>2, <1>8, <2>1
  <2>3. CaughtUp(call.held, call.start, h) /\ stream = "groups" =>
              /\ AtSafeHead(call.held, h)
              /\ \A t \in DOMAIN call.held : call.counted = Cardinality(call.held[t].logs) + 1
    BY <1>2, <1>4, <1>8
  <2>4. ChainTypeOK' /\ Apart' /\ Grows
    BY <1>4, <1>6, ChainStays DEF TypeOK
  <2>5. CallInvariant(call)'
    <3>1. PICK c : c = Idle
      OBVIOUS
    <3>2. CallInvariant(c)
      BY <1>4, <3>1, IdleFits DEF TypeOK
    <3>. QED
      BY <2>2, <2>4, <3>1, <3>2, CallOutlives
  <2>6. ScopesFit'
    BY <1>4, <1>6, <2>4, ScopesOutlive
  <2>7. new.head = h /\ (new.issued => Issuing)
    BY <2>1
  <2>8. new \in Snapshot
    <3>1. call.start \in Start /\ call.held \in Held
      BY <1>4 DEF Call
    <3>2. Issuing \in BOOLEAN
      BY DEF Issuing
    <3>3. CaughtUp(call.held, call.start, h) \in BOOLEAN
      <4>1. CASE SafeHead(h) = Undefined
        BY <4>1, Zenon DEF CaughtUp, NeedsSafeHead
      <4>2. CASE SafeHead(h) # Undefined
        BY <4>2, Zenon DEF CaughtUp, NeedsSafeHead
      <4>. QED
        BY <4>1, <4>2
    <3>. QED
      BY <1>5, <2>1, <3>1, <3>2, <3>3 DEF Snapshot
  <2>9. NewestHeld(new.held) \subseteq EverCanonical
    BY <1>4, <2>1, NewestHeldIs
  <2>10. \A b \in NewestHeld(new.held) : Below(b, h)
    BY <1>4, <2>1 DEF CallInvariant, VerifiedAtEnd
  <2>11. ShownFits'
    BY <2>2, <2>4, <2>7, <2>9 DEF ShownFits, Grows, Issuing
  <2>12. SnapshotConfirmed'
    BY <2>1, <2>2, <2>10 DEF SnapshotConfirmed, Below
  <2>13. OnlyGroupsWithheld /\ new.caughtUp =>
            \A t \in DOMAIN new.held :
               new.held[t].logs =
                  UNION {LogsThrough(c, 0, Height[c]) \cap Matching(t) :
                            c \in NewestOf(new.held[t].checkpoints)}
    <3>1. new.caughtUp = CaughtUp(call.held, call.start, h) /\ new.held = call.held
      BY <2>1
    <3>2. ASSUME OnlyGroupsWithheld, new.caughtUp, NEW t \in DOMAIN call.held
          PROVE  call.held[t].logs =
                    UNION {LogsThrough(c, 0, Height[c]) \cap Matching(t) :
                              c \in NewestOf(call.held[t].checkpoints)}
      BY <1>4, <2>3, <3>1, <3>2, HeldIsWhole
    <3>. QED
      BY <3>1, <3>2
  <2>14. (OnlyGroupsWithheld => SnapshotIsWhole)'
    BY <1>6, <2>2, <2>13 DEF OnlyGroupsWithheld, SnapshotIsWhole, Matching
  <2>15. Authenticated'
    <3>1. auth.step = 0 /\ ~ auth.done
      BY <1>4 DEF StreamInvariant, Authenticated
    <3>2. Len(AuthenticationSteps)' \in Nat
      <4>1. AuthenticationSteps' = AuthenticationSteps
        BY <1>6 DEF AuthenticationSteps
      <4>2. Len(AuthenticationSteps) \in {0, 4, 6}
        BY AuthenticationIs
      <4>. QED
        BY <4>1, <4>2
    <3>. QED
      BY <1>6, <3>1, <3>2 DEF Authenticated
  <2>16. TypeOK'
    BY <1>4, <1>6, <2>2, <2>4, <2>5, <2>8
    DEF TypeOK, CallInvariant, Call, Scope, Snapshot, Held, Result
  <2>. QED
    BY <2>4, <2>5, <2>6, <2>11, <2>12, <2>14, <2>15, <2>16 DEF StreamInvariant
<1>. QED
  BY <1>7, <1>8

\* A step fails.
LEMMA FailStep ==
    ASSUME StreamInvariant, Fail
    PROVE  StreamInvariant'
<1>1. call # Idle
  BY DEF Fail, Idle
<1>. QED
  BY <1>1, IdleFits, GoesTo DEF Fail, StreamInvariant, TypeOK

\* An empty scope stands for nothing.
LEMMA EmptyFits ==
    ASSUME NEW t, NEW s, NEW scope, scope.checkpoints = {}, scope.logs = {}
    PROVE  Fits(t, s, scope)
  BY EndsOfEmpty DEF Fits, Lineage, SameBranch, Committed

\* A scope with a gap is cleared.
LEMMA ClearStep ==
    ASSUME StreamInvariant, ClearScope
    PROVE  StreamInvariant'
<1>1. /\ call # Idle /\ CallInvariant(call) /\ TypeOK /\ Apart /\ ScopesFit
      /\ call.discarding # "nothing" /\ call \in Call
  BY DEF ClearScope, StreamInvariant, CallInvariant, Idle
<1>2. /\ call.start \in Start /\ call.topic \in Topic
  BY <1>1 DEF CallInvariant, Phase, TopicAt, Topic, Call
<1>. DEFINE scope == scopes[<<call.topic, call.start>>]
            after == Cleared(scope)
<1>3. scope \in Scope
  BY <1>1, <1>2 DEF TypeOK
<1>4. after \in Scope /\ Fits(call.topic, call.start, after)
  <2>1. after \in Scope /\ after.checkpoints = {} /\ after.logs = {}
    BY <1>3 DEF Cleared, EmptyScope, Scope
  <2>. QED
    BY <2>1, EmptyFits
<1>5. /\ scopes' = [scopes EXCEPT ![<<call.topic, call.start>>] = after]
      /\ UNCHANGED <<chainVars, stream, shown, auth>>
  BY DEF ClearScope, Stores
<1>. HIDE DEF after
<1>6. ChainTypeOK' /\ Apart' /\ Grows
  BY <1>1, <1>5, ChainStays DEF TypeOK
<1>7. ScopesFit' /\ scopes' \in [Topic \X Start -> Scope]
  <2>1. PICK t \in Topic, s \in Start : t = call.topic /\ s = call.start
    BY <1>2
  <2>2. PICK x \in Scope : x = after
    BY <1>4
  <2>3. Fits(t, s, x) /\ scopes' = [scopes EXCEPT ![<<t, s>>] = x]
    BY <1>4, <1>5, <2>1, <2>2
  <2>. QED
    BY <1>1, <1>6, <2>3, ScopeIsWritten
<1>. DEFINE d == [call EXCEPT !.discarding = "nothing", !.before = {}]
<1>8. call.discarding = "recent" => CallInvariant(d)
  <2>. SUFFICES ASSUME call.discarding = "recent"  PROVE CallInvariant(d)
    OBVIOUS
  <2>1. /\ d \in Call /\ d.step = call.step /\ d.topic = call.topic
        /\ d.boundary = call.boundary /\ d.start = call.start /\ d.before = {}
        /\ d.result = call.result /\ d.held = call.held /\ d.heads = call.heads
        /\ d.counted = call.counted /\ d.discarding = "nothing"
    BY <1>1 DEF Call
  <2>. HIDE DEF d
  <2>2. call.step = 2 /\ DOMAIN call.held = {} /\ LastStep \in {10, 11, 21}
    BY <1>1 DEF CallInvariant, Phase, LastStep
  <2>3. Phase(d)
    BY <1>1, <2>1, <2>2 DEF CallInvariant, Phase, HeldAt
  <2>4. CallFits(d) /\ ResultsFit(d) /\ Anchored(d) /\ HeadFits(d) /\ CountFits(d)
    BY <1>1, <2>1, <2>2
    DEF CallInvariant, CallFits, ResultsFit, Holding, Anchored, Checked, HeadFits, CountFits
  <2>5. VerifiedAtEnd(d)
    BY <2>1, <2>2 DEF VerifiedAtEnd
  <2>. QED
    BY <2>1, <2>3, <2>4, <2>5 DEF CallInvariant
<1>9. PICK c : c = (IF call.discarding = "recent" THEN d ELSE Idle)
  OBVIOUS
<1>10. CallInvariant(c) /\ call' = c
  BY <1>1, <1>8, <1>9, IdleFits DEF ClearScope, TypeOK
<1>. HIDE DEF d
<1>11. CallInvariant(call)'
  BY <1>6, <1>10, CallOutlives
<1>12. ShownFits' /\ SnapshotConfirmed' /\ (OnlyGroupsWithheld => SnapshotIsWhole)'
  BY <1>5, <1>6, ShownOutlives DEF OnlyGroupsWithheld, StreamInvariant
<1>13. Authenticated'
  BY <1>1, <1>5, <1>6, AuthenticationOutlives DEF StreamInvariant
<1>14. TypeOK'
  BY <1>1, <1>5, <1>6, <1>7, <1>11
  DEF TypeOK, CallInvariant, Call, Scope, Snapshot, Held, Result
<1>. QED
  BY <1>6, <1>7, <1>11, <1>12, <1>13, <1>14 DEF StreamInvariant

\* A step of the authentication moves nothing else.
LEMMA OnlyAuthentication ==
    ASSUME StreamInvariant, UNCHANGED <<chainVars, stream, scopes, call, shown>>,
           Authenticated', auth' \in [step : Nat, met : BOOLEAN, done : BOOLEAN]
    PROVE  StreamInvariant'
<1>. USE DEF StreamInvariant
<1>1. ChainTypeOK' /\ Apart' /\ Grows
  BY ChainStays DEF TypeOK
<1>2. PICK c : c = call
  OBVIOUS
<1>3. CallInvariant(call)'
  <2>1. CallInvariant(c) /\ call' = c
    BY <1>2
  <2>. QED
    BY <1>1, <2>1, CallOutlives
<1>4. ScopesFit'
  BY <1>1, ScopesOutlive
<1>5. ShownFits' /\ SnapshotConfirmed' /\ (OnlyGroupsWithheld => SnapshotIsWhole)'
  BY <1>1, ShownOutlives DEF OnlyGroupsWithheld
<1>6. TypeOK'
  BY <1>1, <1>3 DEF TypeOK, CallInvariant, Call, Scope, Snapshot, Held, Result
<1>. QED
  BY <1>1, <1>3, <1>4, <1>5, <1>6

\* The blocks an anchor was issued for were canonical once.
LEMMA IssuedWereCanonical ==
    ASSUME StreamInvariant
    PROVE  IssuedCheckpoints \subseteq EverCanonical
  BY DEF StreamInvariant, ShownFits, IssuedCheckpoints

\* The steps of the authentication: blocks that were canonical before the
\* scopes were compared and still are after it, were so in between.
LEMMA AuthenticationStep ==
    ASSUME StreamInvariant,
           \/ Authenticate \/ AuthenticateCheckpoint \/ AuthenticateHead
           \/ AuthenticateCache \/ FailAuthentication
    PROVE  StreamInvariant'
<1>1. /\ Authenticated /\ Apart /\ TypeOK
      /\ UNCHANGED <<chainVars, stream, scopes, call, shown>>
  BY DEF StreamInvariant, Authenticate, AuthenticateCheckpoint, AuthenticateHead,
         AuthenticateCache, FailAuthentication, Proceeds
<1>2. /\ AuthenticationSteps' = AuthenticationSteps /\ Issuing' = Issuing
      /\ IssuedCheckpoints' = IssuedCheckpoints /\ orphaned' = orphaned /\ call' = call
  BY <1>1 DEF AuthenticationSteps, Issuing, IssuedCheckpoints, chainVars
<1>3. Len(AuthenticationSteps) \in {0, 4, 6} /\ (Issuing => Len(AuthenticationSteps) \in {4, 6})
  BY AuthenticationIs
<1>4. /\ auth.step \in Nat /\ auth.met \in BOOLEAN /\ auth.done \in BOOLEAN
      /\ auth.step \in 0 .. Len(AuthenticationSteps)
      /\ auth = [step |-> auth.step, met |-> auth.met, done |-> auth.done]
  BY <1>1 DEF TypeOK, Authenticated
<1>. DEFINE Typed == [step : Nat, met : BOOLEAN, done : BOOLEAN]
<1>5. SUFFICES Authenticated' /\ auth' \in Typed
  BY <1>1, OnlyAuthentication
<1>6. ASSUME auth' \in Typed, auth'.step <= Len(AuthenticationSteps),
             auth'.step > 0 => Issuing /\ ~ auth'.done,
             auth'.step > 0 \/ auth'.done => call = Idle,
             auth'.step > 3 => auth'.met \/ IssuedCheckpoints \cap orphaned # {},
             auth'.step > 4 \/ auth'.done => auth'.met
      PROVE  Authenticated' /\ auth' \in Typed
  <2>1. auth'.step \in 0 .. Len(AuthenticationSteps)
    BY <1>3, <1>6
  <2>. QED
    BY <1>2, <1>6, <2>1 DEF Authenticated
<1>7. CASE FailAuthentication
  <2>1. auth' \in Typed /\ auth'.step = 0 /\ ~ auth'.done
    BY <1>7 DEF FailAuthentication, NotAuthenticating
  <2>. QED
    BY <1>3, <1>6, <2>1
<1>8. CASE Authenticate
  <2>1. Issuing
    BY <1>8 DEF Authenticate, StreamInvariant, ShownFits
  <2>2. auth' \in Typed /\ auth'.step = 1 /\ ~ auth'.done /\ call = Idle
    BY <1>8 DEF Authenticate, NotAuthenticating
  <2>3. auth'.step = 1
    BY <2>2
  <2>4. Len(AuthenticationSteps) = 4 \/ Len(AuthenticationSteps) = 6
    BY <1>3, <2>1
  <2>5. auth'.step <= Len(AuthenticationSteps)
    <3>1. PICK n : n = Len(AuthenticationSteps)
      OBVIOUS
    <3>2. 1 <= n
      BY <2>4, <3>1
    <3>. QED
      BY <2>3, <3>1, <3>2, Zenon
  <2>6. ~ (auth'.step > 3) /\ ~ (auth'.step > 4)
    BY <2>3
  <2>. QED
    BY <1>6, <2>1, <2>2, <2>5, <2>6
<1>9. ASSUME NEW a \in Typed, auth.step > 0, Proceeds(a),
             a.step = auth.step, a.done = auth.done,
             auth.step >= 3 => a.met \/ IssuedCheckpoints \cap orphaned # {},
             auth.step > 4 => a.met,
             AuthenticationSteps[auth.step] = "canonical" =>
                \A b \in IssuedCheckpoints : Canonical(b)
      PROVE  Authenticated' /\ auth' \in Typed
  <2>1. /\ Issuing /\ call = Idle /\ Len(AuthenticationSteps) \in {4, 6}
        /\ ~ auth.done
    BY <1>1, <1>3, <1>9 DEF Authenticated
  <2>2. auth.step = 4 => a.met
    <3>. SUFFICES ASSUME auth.step = 4  PROVE a.met
      OBVIOUS
    <3>1. AuthenticationSteps[4] = "canonical"
      BY <2>1, AuthenticationIs
    <3>2. \A b \in IssuedCheckpoints : b \notin orphaned
      BY <1>1, <1>9, <3>1 DEF Canonical, Apart
    <3>. QED
      BY <1>9, <3>2
  <2>3. CASE auth.step = Len(AuthenticationSteps)
    <3>1. auth' = [a EXCEPT !.step = 0, !.done = TRUE]
      BY <1>9, <2>3 DEF Proceeds
    <3>2. auth' \in Typed /\ auth'.step = 0 /\ auth'.done /\ auth'.met = a.met
      BY <1>9, <3>1
    <3>3. a.met
      BY <1>9, <2>1, <2>2, <2>3
    <3>4. 0 <= Len(AuthenticationSteps)
      BY <2>1
    <3>. QED
      BY <1>6, <2>1, <3>2, <3>3, <3>4
  <2>4. CASE auth.step # Len(AuthenticationSteps)
    <3>1. auth' = [a EXCEPT !.step = @ + 1]
      BY <1>9, <2>4 DEF Proceeds
    <3>2. /\ auth' \in Typed /\ auth'.step = auth.step + 1
          /\ auth'.done = auth.done /\ auth'.met = a.met
      BY <1>4, <1>9, <3>1
    <3>3. auth.step + 1 <= Len(AuthenticationSteps)
      BY <1>4, <2>1, <2>4
    <3>4. /\ auth.step + 1 > 3 => a.met \/ IssuedCheckpoints \cap orphaned # {}
          /\ auth.step + 1 > 4 => a.met
      BY <1>4, <1>9, <2>2
    <3>. QED
      BY <1>6, <2>1, <3>2, <3>3, <3>4
  <2>. QED
    BY <2>3, <2>4
<1>10. CASE AuthenticateCheckpoint \/ AuthenticateHead
  <2>1. /\ auth.step > 0 /\ Proceeds(auth)
        /\ AuthenticationSteps[auth.step] \in {"canonical", "head"}
        /\ AuthenticationSteps[auth.step] = "canonical" =>
              \A b \in IssuedCheckpoints : Canonical(b)
    BY <1>10 DEF AuthenticateCheckpoint, AuthenticateHead, Authenticating
  <2>2. Issuing
    BY <1>1, <2>1 DEF Authenticated
  <2>3. auth.step # 3
    BY <2>1, <2>2, AuthenticationIs
  <2>4. /\ auth.step >= 3 => auth.met \/ IssuedCheckpoints \cap orphaned # {}
        /\ auth.step > 4 => auth.met
    BY <1>1, <1>4, <2>3 DEF Authenticated
  <2>5. auth \in Typed
    BY <1>1 DEF TypeOK
  <2>. QED
    BY <1>9, <2>1, <2>4, <2>5
<1>11. CASE AuthenticateCache
  <2>. DEFINE m == \A b \in IssuedCheckpoints : Canonical(b)
              a == [auth EXCEPT !.met = m]
  <2>1. /\ auth.step > 0 /\ Proceeds(a)
        /\ AuthenticationSteps[auth.step] = "cache"
    BY <1>11 DEF AuthenticateCache, Authenticating
  <2>2. Issuing
    BY <1>1, <2>1 DEF Authenticated
  <2>3. auth.step = 3
    <3>1. auth.step \in {1, 2, 3, 4, 5, 6}
      BY <1>3, <1>4, <2>1
    <3>2. Len(AuthenticationSteps) = 6 \/ auth.step \in {1, 2, 3, 4}
      BY <1>3, <1>4, <2>1, <2>2
    <3>. QED
      BY <2>1, <2>2, <3>1, <3>2, AuthenticationIs
  <2>4. m \/ IssuedCheckpoints \cap orphaned # {}
    BY IssuedWereCanonical DEF EverCanonical, Canonical
  <2>5. m \in BOOLEAN
    OBVIOUS
  <2>. HIDE DEF m
  <2>6. a \in Typed /\ a.step = auth.step /\ a.done = auth.done /\ a.met = m
    BY <1>1, <2>5 DEF TypeOK
  <2>. HIDE DEF a
  <2>7. AuthenticationSteps[auth.step] # "canonical" /\ ~ (auth.step > 4)
    BY <2>1, <2>3
  <2>8. a.met \/ IssuedCheckpoints \cap orphaned # {}
    BY <2>4, <2>6
  <2>. QED
    BY <1>9, <2>1, <2>6, <2>7, <2>8
<1>. QED
  BY <1>7, <1>8, <1>10, <1>11

\* Another tab writes a scope, or the browser evicts one.
LEMMA OtherTabStep ==
    ASSUME StreamInvariant, OtherTab
    PROVE  StreamInvariant'
<1>1. /\ CallInvariant(call) /\ TypeOK /\ Apart /\ ScopesFit
      /\ UNCHANGED <<chainVars, stream, call, shown, auth>>
  BY DEF StreamInvariant, OtherTab
<1>2. PICK t \in Topics, s \in Start :
         LET scope == scopes[<<t, s>>]
             Leaves(other) ==
                /\ scopes' = [scopes EXCEPT ![<<t, s>>] = other]
                /\ UNCHANGED <<chainVars, stream, call, shown, auth>>
         IN  \/ Leaves(Cleared(scope))
             \/ \E r \in Results(s, scope.checkpoints) :
                LET ls == r.logs \cap Matching(t)
                IN  Leaves([scope EXCEPT
                       !.revision = @ + 1, !.checkpoints = r.checkpoints,
                       !.logs = Merged(@, r.rollbackTo, ls)])
             \/ Leaves(EmptyScope(scope.generation + 1, 0))
  BY DEF OtherTab
<1>3. t \in Topic /\ s \in Nat
  BY HeightsAre DEF Topics, Topic
<1>. DEFINE scope == scopes[<<t, s>>]
<1>4. scope \in Scope /\ Fits(t, s, scope)
  BY <1>1, <1>3 DEF TypeOK, ScopesFit
<1>5. \E other \in Scope : /\ Fits(t, s, other)
                           /\ scopes' = [scopes EXCEPT ![<<t, s>>] = other]
  <2>1. CASE scopes' = [scopes EXCEPT ![<<t, s>>] = Cleared(scope)]
    <3>. HIDE DEF scope
    <3>1. Cleared(scope) \in Scope /\ Cleared(scope).checkpoints = {} /\ Cleared(scope).logs = {}
      BY <1>4 DEF Cleared, EmptyScope, Scope
    <3>2. Fits(t, s, Cleared(scope))
      BY <3>1, EmptyFits
    <3>. QED
      BY <2>1, <3>1, <3>2
  <2>2. CASE scopes' = [scopes EXCEPT ![<<t, s>>] = EmptyScope(scope.generation + 1, 0)]
    <3>. HIDE DEF scope
    <3>. DEFINE empty == EmptyScope(scope.generation + 1, 0)
    <3>1. empty \in Scope /\ empty.checkpoints = {} /\ empty.logs = {}
      BY <1>4 DEF EmptyScope, Scope
    <3>. HIDE DEF empty
    <3>2. Fits(t, s, empty)
      BY <3>1, EmptyFits
    <3>. QED
      BY <2>2, <3>1, <3>2 DEF empty
  <2>3. ASSUME NEW r \in Results(s, scope.checkpoints),
               scopes' = [scopes EXCEPT ![<<t, s>>] =
                             [scope EXCEPT
                                !.revision = @ + 1, !.checkpoints = r.checkpoints,
                                !.logs = Merged(@, r.rollbackTo, r.logs \cap Matching(t))]]
        PROVE  \E other \in Scope : /\ Fits(t, s, other)
                                    /\ scopes' = [scopes EXCEPT ![<<t, s>>] = other]
    <3>. HIDE DEF scope
    <3>1. /\ Lineage(s, scope.checkpoints) /\ scope.checkpoints \subseteq EverCanonical
          /\ r \in SyncResults(s, scope.checkpoints)
      BY <1>4, <2>3 DEF Fits, Results
    <3>2. /\ Lineage(s, r.checkpoints) /\ r.rollbackTo \in Nat \cup {Undefined}
          /\ r.logs \subseteq Log
          /\ Merged(Committed(s, scope.checkpoints), r.rollbackTo, r.logs)
                = Committed(s, r.checkpoints)
      BY <1>1, <1>3, <3>1, SyncResultFits DEF TypeOK
    <3>3. r.checkpoints \subseteq EverCanonical
      BY <1>1, <1>3, <3>1, SyncResultKeepsTip DEF TypeOK, Apart
    <3>. DEFINE x == [checkpoints |-> r.checkpoints, rollbackTo |-> r.rollbackTo,
                      logs |-> r.logs \cap Matching(t)]
    <3>4. /\ x \in Result /\ x.checkpoints = r.checkpoints /\ x.rollbackTo = r.rollbackTo
          /\ x.logs = r.logs \cap Matching(t)
      BY <3>2 DEF Result, Lineage
    <3>. HIDE DEF x
    <3>5. Turns(t, s, scope, x)
      BY <3>2, <3>4 DEF Turns
    <3>6. AfterSync(scope, x) \in Scope /\ Fits(t, s, AfterSync(scope, x))
      BY <1>3, <1>4, <3>2, <3>3, <3>4, <3>5, StoredFits
    <3>7. AfterSync(scope, x) =
             [scope EXCEPT !.revision = @ + 1, !.checkpoints = r.checkpoints,
                           !.logs = Merged(@, r.rollbackTo, r.logs \cap Matching(t))]
      BY <3>4 DEF AfterSync
    <3>. QED
      BY <2>3, <3>6, <3>7
  <2>. QED
    BY <1>2, <2>1, <2>2, <2>3
<1>6. PICK other \in Scope : /\ Fits(t, s, other)
                             /\ scopes' = [scopes EXCEPT ![<<t, s>>] = other]
  BY <1>5
<1>7. ChainTypeOK' /\ Apart' /\ Grows
  BY <1>1, ChainStays DEF TypeOK
<1>8. ScopesFit' /\ scopes' \in [Topic \X Start -> Scope]
  BY <1>1, <1>3, <1>6, <1>7, ScopeIsWritten
<1>9. PICK c : c = call
  OBVIOUS
<1>10. CallInvariant(call)'
  <2>1. CallInvariant(c) /\ call' = c
    BY <1>1, <1>9
  <2>. QED
    BY <1>7, <2>1, CallOutlives
<1>11. ShownFits' /\ SnapshotConfirmed' /\ (OnlyGroupsWithheld => SnapshotIsWhole)'
  BY <1>1, <1>7, ShownOutlives DEF OnlyGroupsWithheld, StreamInvariant
<1>12. Authenticated'
  BY <1>1, <1>7, AuthenticationOutlives DEF StreamInvariant
<1>13. TypeOK'
  BY <1>1, <1>7, <1>8, <1>10
  DEF TypeOK, CallInvariant, Call, Scope, Snapshot, Held, Result
<1>. QED
  BY <1>7, <1>8, <1>10, <1>11, <1>12, <1>13 DEF StreamInvariant

\* The chain moves under everything.
LEMMA ReorganizeStep ==
    ASSUME StreamInvariant, Reorganize \/ UNCHANGED vars
    PROVE  StreamInvariant'
<1>. USE DEF StreamInvariant
<1>1. UNCHANGED <<stream, scopes, call, shown, auth>>
  BY DEF Reorganize, vars
<1>2. ChainTypeOK' /\ Apart' /\ Grows
  BY <1>1, ChainMoves, ChainStays DEF TypeOK, Reorganize, vars
<1>3. PICK c : c = call
  OBVIOUS
<1>4. CallInvariant(call)'
  <2>1. CallInvariant(c) /\ call' = c
    BY <1>1, <1>3
  <2>. QED
    BY <1>2, <2>1, CallOutlives
<1>5. ScopesFit'
  BY <1>1, <1>2, ScopesOutlive
<1>6. ShownFits' /\ SnapshotConfirmed' /\ (OnlyGroupsWithheld => SnapshotIsWhole)'
  BY <1>1, <1>2, ShownOutlives DEF OnlyGroupsWithheld
<1>7. Authenticated'
  BY <1>1, <1>2, AuthenticationOutlives
<1>8. TypeOK'
  BY <1>1, <1>2, <1>4 DEF TypeOK, CallInvariant, Call, Scope, Snapshot, Held, Result
<1>. QED
  BY <1>2, <1>4, <1>5, <1>6, <1>7, <1>8

-----------------------------------------------------------------------------
(* The theorems.                                                            *)

LEMMA StreamInit == Init => StreamInvariant
<1>. SUFFICES ASSUME Init  PROVE StreamInvariant
  OBVIOUS
<1>1. ChainTypeOK /\ Apart
  BY DEF Init, ChainInit, ChainTypeOK, Apart
<1>2. \A t, s : Fits(t, s, EmptyScope(0, 0))
  <2>1. EmptyScope(0, 0).checkpoints = {} /\ EmptyScope(0, 0).logs = {}
    BY DEF EmptyScope
  <2>. QED
    BY <2>1, EmptyFits
<1>3. ScopesFit /\ scopes \in [Topic \X Start -> Scope]
  <2>1. EmptyScope(0, 0) \in Scope
    BY DEF EmptyScope, Scope
  <2>2. scopes = [k \in Topic \X Start |-> EmptyScope(0, 0)]
    BY DEF Init
  <2>3. \A t \in Topic, s \in Start : scopes[<<t, s>>] = EmptyScope(0, 0)
    BY <2>2
  <2>. QED
    BY <1>2, <2>1, <2>2, <2>3 DEF ScopesFit
<1>4. Authenticated /\ auth \in [step : Nat, met : BOOLEAN, done : BOOLEAN]
  <2>1. Len(AuthenticationSteps) \in {0, 4, 6}
    BY AuthenticationIs
  <2>2. auth.step = 0 /\ ~ auth.done /\ auth \in [step : Nat, met : BOOLEAN, done : BOOLEAN]
    BY DEF Init, NotAuthenticating
  <2>. QED
    BY <2>1, <2>2 DEF Authenticated
<1>5. ShownFits /\ SnapshotConfirmed /\ SnapshotIsWhole /\ shown \in SUBSET Snapshot
  BY DEF Init, ShownFits, SnapshotConfirmed, SnapshotIsWhole
<1>6. CallInvariant(call)
  <2>1. 0 \in Start
    BY <1>1, HeightsAre DEF ChainTypeOK
  <2>2. CallInvariant(Begun)
    BY <1>1, IdleFits
  <2>. QED
    BY <2>2 DEF Init
<1>7. TypeOK
  BY <1>1, <1>3, <1>4, <1>5, <1>6 DEF TypeOK, Init, CallInvariant
<1>. QED
  BY <1>1, <1>3, <1>4, <1>5, <1>6, <1>7 DEF StreamInvariant

LEMMA StreamStep == StreamInvariant /\ [StreamNext]_vars => StreamInvariant'
<1>. SUFFICES ASSUME StreamInvariant, [StreamNext]_vars  PROVE StreamInvariant'
  OBVIOUS
<1>1. CASE Fail
  BY <1>1, FailStep
<1>2. CASE ResolveBoundary
  BY <1>2, BoundaryStep
<1>3. CASE ReadScope
  BY <1>3, ReadStep
<1>4. CASE SyncLogs
  BY <1>4, SyncStep
<1>5. CASE CheckHistoryAnchor
  BY <1>5, AnchorStep
<1>6. CASE ApplyResult
  BY <1>6, ApplyStep
<1>7. CASE RereadScope
  BY <1>7, RereadStep
<1>8. CASE CheckCanonical
  BY <1>8, CanonicalStep
<1>9. CASE ReadHead
  BY <1>9, HeadStepFits
<1>10. CASE CountGroups
  BY <1>10, CountStep
<1>11. CASE Finish
  BY <1>11, FinishStep
<1>12. CASE ClearScope
  BY <1>12, ClearStep
<1>13. CASE \/ Authenticate \/ AuthenticateCheckpoint \/ AuthenticateHead
            \/ AuthenticateCache \/ FailAuthentication
  BY <1>13, AuthenticationStep
<1>14. CASE OtherTab
  BY <1>14, OtherTabStep
<1>15. CASE Reorganize \/ UNCHANGED vars
  BY <1>15, ReorganizeStep
<1>. QED
  BY <1>1, <1>2, <1>3, <1>4, <1>5, <1>6, <1>7, <1>8, <1>9, <1>10, <1>11, <1>12,
     <1>13, <1>14, <1>15 DEF StreamNext

\* What is known of a call at each of its steps, of the scopes, of the snapshot
\* and of its authentication holds in every state.
THEOREM StreamInvariantHolds == Spec => []StreamInvariant
<1>. QED
  BY StreamInit, StreamStep, PTL DEF Spec

\* Every variable of the streams always has its type.
THEOREM TypeCorrect == Spec => []TypeOK
<1>1. StreamInvariant => TypeOK
  BY DEF StreamInvariant
<1>. QED
  BY <1>1, StreamInvariantHolds, PTL

\* A snapshot's newest checkpoints lie on the branch of the head it is shown
\* with, deep enough below it, whatever the chain did between the reads.
THEOREM ShownIsConfirmed == Spec => []SnapshotConfirmed
<1>1. StreamInvariant => SnapshotConfirmed
  BY DEF StreamInvariant
<1>. QED
  BY <1>1, StreamInvariantHolds, PTL

\* If only the groups' endpoint may leave events out, a snapshot called caught
\* up has every event of its branch: the boundary loses none below, and the
\* count of the groups shows when one is missing.
THEOREM ShownIsWhole ==
    ASSUME OnlyGroupsWithheld
    PROVE  Spec => []SnapshotIsWhole
<1>1. StreamInvariant => SnapshotIsWhole
  BY DEF StreamInvariant
<1>. QED
  BY <1>1, StreamInvariantHolds, PTL

\* When the authentication of an anchor succeeds, the anchor's blocks were
\* canonical at the moment the scopes were compared with it.
THEOREM AuthenticatedMeant == Spec => []AnchorAuthenticated
<1>1. StreamInvariant => AnchorAuthenticated
  BY DEF StreamInvariant, Authenticated, AnchorAuthenticated
<1>. QED
  BY <1>1, StreamInvariantHolds, PTL

-----------------------------------------------------------------------------
(* The identifiers of groups.                                               *)

\* page is the newest part of ls.
NewestPart(page, ls) ==
    /\ page \subseteq ls
    /\ \A l \in page, m \in ls : Earlier(l, m) => m \in page

\* The events of a result lie above those it leaves in the scope.
OnTop(s, b, r) ==
    \A l \in r.logs, m \in Merged(Committed(s, b.checkpoints), r.rollbackTo, {}) :
        Height[BlockOf[m]] < Height[BlockOf[l]]

\* Once a result is stored, its events are the newest of the scope, until the
\* scope has moved on.
StoredOnTop(scope, b, r) ==
    \/ scope.generation > b.generation
    \/ scope.generation = b.generation /\ scope.revision > b.revision + 1
    \/ /\ scope.generation = b.generation
       /\ scope.revision = b.revision + 1
       /\ NewestPart(r.logs, scope.logs)

ResultsOnTop ==
    /\ call.step \in {4, 5, 6} =>
          \A b \in call.before, r \in call.result : OnTop(call.start, b, r)
    /\ call.step = 6 =>
          \A b \in call.before, r \in call.result :
              StoredOnTop(scopes[<<call.topic, call.start>>], b, r)

\* A scope misses no event of the branch its newest checkpoint is on.
Whole(scope) ==
    scope.logs = UNION {LogsThrough(c, 0, Height[c]) : c \in NewestOf(scope.checkpoints)}

DirectoryInvariant ==
    /\ \A q, r \in call.result : q = r
    /\ stream = "groups" => ResultsOnTop
    /\ OnlyIncompleteDiscarded

\* The events of a branch that are not later than one of them.
UpTo(l) == {m \in Log : BlockOf[m] \in Ancestors[BlockOf[l]] /\ ~ Earlier(l, m)}

\* The events of a branch are in one order.
LEMMA OneOrder ==
    ASSUME NEW c \in Block
    PROVE  LET ls == LogsThrough(c, 0, Height[c]) IN
           /\ IsFiniteSet(ls) /\ Cardinality(ls) \in Nat /\ ls \subseteq Log
           /\ \A l \in ls : UpTo(l) \subseteq ls /\ l \in UpTo(l)
           /\ \A l, m \in ls : /\ l = m \/ Earlier(l, m) \/ Earlier(m, l)
                               /\ ~ (Earlier(l, m) /\ Earlier(m, l))
                               /\ m \in UpTo(l) <=> ~ Earlier(l, m)
                               /\ Earlier(l, m) => UpTo(l) \subseteq UpTo(m)
<1>. DEFINE ls == LogsThrough(c, 0, Height[c])
<1>h. /\ \A b \in Block : Height[b] \in Nat
      /\ \A l \in Log : BlockOf[l] \in Block /\ LogIndex[l] \in Nat
  BY HeightsAre, StreamAssumption
<1>1. IsFiniteSet(ls) /\ Cardinality(ls) \in Nat /\ ls \subseteq Log
  BY StreamAssumption, FS_CardinalityType DEF LogsThrough
<1>2. \A l \in Log : l \in ls <=> BlockOf[l] \in Ancestors[c]
  BY <1>h, ChainAssumption DEF LogsThrough
<1>3. \A b \in Block : b \in Ancestors[b]
  BY ChainAssumption
<1>4. \A b \in Block : \A d \in Ancestors[b] : d \in Block /\ Height[d] <= Height[b]
                                               /\ Ancestors[d] \subseteq Ancestors[b]
  BY ChainAssumption
<1>. HIDE DEF ls
<1>5. ASSUME NEW l \in ls  PROVE UpTo(l) \subseteq ls /\ l \in UpTo(l)
  BY <1>h, <1>1, <1>2, <1>3, <1>4 DEF UpTo, Earlier
<1>6. ASSUME NEW l \in ls, NEW m \in ls
      PROVE  /\ l = m \/ Earlier(l, m) \/ Earlier(m, l)
             /\ ~ (Earlier(l, m) /\ Earlier(m, l))
             /\ m \in UpTo(l) <=> ~ Earlier(l, m)
             /\ Earlier(l, m) => UpTo(l) \subseteq UpTo(m)
  <2>. DEFINE a == BlockOf[l]
              b == BlockOf[m]
  <2>1. /\ l \in Log /\ m \in Log /\ a \in Ancestors[c] /\ b \in Ancestors[c]
        /\ a \in Block /\ b \in Block /\ Height[a] \in Nat /\ Height[b] \in Nat
        /\ LogIndex[l] \in Nat /\ LogIndex[m] \in Nat
    BY <1>h, <1>1, <1>2
  <2>2. /\ Height[a] <= Height[b] => a \in Ancestors[b]
        /\ Height[b] <= Height[a] => b \in Ancestors[a]
        /\ Height[a] = Height[b] => a = b
    BY <2>1, OneAncestry
  <2>3. a = b /\ LogIndex[l] = LogIndex[m] => l = m
    BY <2>1, StreamAssumption
  <2>4. l = m \/ Earlier(l, m) \/ Earlier(m, l)
    BY <2>1, <2>2, <2>3 DEF Earlier
  <2>5. ~ (Earlier(l, m) /\ Earlier(m, l))
    BY <2>1, <2>2 DEF Earlier
  <2>6. m \in UpTo(l) <=> ~ Earlier(l, m)
    BY <2>1, <2>2 DEF Earlier, UpTo
  <2>7. ASSUME Earlier(l, m), NEW n \in UpTo(l)  PROVE n \in UpTo(m)
    <3>1. /\ n \in Log /\ BlockOf[n] \in Ancestors[a] /\ ~ Earlier(l, n)
          /\ BlockOf[n] \in Block /\ Height[BlockOf[n]] \in Nat /\ LogIndex[n] \in Nat
          /\ Height[BlockOf[n]] <= Height[a]
      BY <1>h, <1>4, <2>1, <2>7 DEF UpTo
    <3>2. a \in Ancestors[b]
      BY <1>3, <2>1, <2>2, <2>7 DEF Earlier
    <3>3. BlockOf[n] \in Ancestors[b]
      BY <1>4, <2>1, <3>1, <3>2
    <3>4. ~ Earlier(m, n)
      BY <2>1, <2>2, <2>7, <3>1 DEF Earlier
    <3>. QED
      BY <3>1, <3>3, <3>4 DEF UpTo
  <2>. QED
    BY <2>4, <2>5, <2>6, <2>7
<1>. QED
  BY <1>1, <1>5, <1>6 DEF ls

\* Counted from the first, the events of a branch are numbered 1, 2, 3 and so
\* on: createGroup leaves no gap.
LEMMA NumbersAre ==
    ASSUME NEW c \in Block
    PROVE  LET ls == LogsThrough(c, 0, Height[c]) IN
           /\ \A l \in ls : /\ GroupId(l) \in 1 .. Cardinality(ls)
                            /\ Cardinality(ls \ UpTo(l)) = Cardinality(ls) - GroupId(l)
           /\ \A l, m \in ls : GroupId(l) = GroupId(m) => l = m
           /\ \A k \in 1 .. Cardinality(ls) : \E l \in ls : GroupId(l) = k
<1>. DEFINE ls == LogsThrough(c, 0, Height[c])
            n == Cardinality(ls)
<1>1. /\ IsFiniteSet(ls) /\ n \in Nat
      /\ \A l \in ls : UpTo(l) \subseteq ls /\ l \in UpTo(l)
      /\ \A l, m \in ls : /\ l = m \/ Earlier(l, m) \/ Earlier(m, l)
                          /\ ~ (Earlier(l, m) /\ Earlier(m, l))
                          /\ m \in UpTo(l) <=> ~ Earlier(l, m)
                          /\ Earlier(l, m) => UpTo(l) \subseteq UpTo(m)
  BY OneOrder
<1>. HIDE DEF ls
<1>2. \A l : GroupId(l) = Cardinality(UpTo(l))
  BY DEF GroupId, UpTo
<1>3. ASSUME NEW l \in ls
      PROVE  /\ GroupId(l) \in 1 .. n
             /\ Cardinality(ls \ UpTo(l)) = n - GroupId(l)
             /\ IsFiniteSet(UpTo(l))
  <2>1. /\ IsFiniteSet(UpTo(l)) /\ Cardinality(UpTo(l)) <= n
        /\ Cardinality(UpTo(l)) \in Nat
    BY <1>1, FS_Subset, FS_CardinalityType
  <2>2. Cardinality(UpTo(l)) # 0
    BY <1>1, <2>1, FS_EmptySet
  <2>3. ls \cap UpTo(l) = UpTo(l)
    BY <1>1
  <2>4. Cardinality(ls \ UpTo(l)) = n - Cardinality(UpTo(l))
    BY <1>1, <2>3, FS_Difference
  <2>. QED
    BY <1>1, <1>2, <2>1, <2>2, <2>4
<1>4. ASSUME NEW l \in ls, NEW m \in ls, GroupId(l) = GroupId(m)  PROVE l = m
  <2>1. ASSUME NEW x \in ls, NEW y \in ls, Earlier(x, y)  PROVE GroupId(x) # GroupId(y)
    <3>1. /\ UpTo(x) \subseteq UpTo(y) /\ y \in UpTo(y) /\ y \notin UpTo(x)
          /\ IsFiniteSet(UpTo(y))
      BY <1>1, <1>3, <2>1
    <3>2. Cardinality(UpTo(x)) = Cardinality(UpTo(y)) => UpTo(x) = UpTo(y)
      BY <3>1, FS_Subset
    <3>. QED
      BY <1>2, <3>1, <3>2
  <2>. QED
    BY <1>1, <1>4, <2>1
<1>5. ASSUME NEW k \in 1 .. n  PROVE \E l \in ls : GroupId(l) = k
  <2>. DEFINE f == [l \in ls |-> GroupId(l)]
  <2>1. f \in Injection(ls, 1 .. n)
    BY <1>3, <1>4 DEF Injection, IsInjective
  <2>2. IsFiniteSet(1 .. n) /\ Cardinality(1 .. n) = n
    BY <1>1, FS_Interval
  <2>3. f \in Surjection(ls, 1 .. n)
    BY <2>1, <2>2, FS_Injection
  <2>. QED
    BY <2>3 DEF Surjection
<1>. QED
  BY <1>3, <1>4, <1>5 DEF ls

\* The newest part of a complete scope has identifiers without a gap.
LEMMA NewestPartIsContiguous ==
    ASSUME NEW c \in Block, NEW page, NewestPart(page, LogsThrough(c, 0, Height[c]))
    PROVE  Contiguous(page, Cardinality(LogsThrough(c, 0, Height[c])))
<1>. DEFINE ls == LogsThrough(c, 0, Height[c])
            n == Cardinality(ls)
            p == Cardinality(page)
<1>1. /\ IsFiniteSet(ls) /\ n \in Nat
      /\ \A l \in ls : UpTo(l) \subseteq ls /\ l \in UpTo(l)
      /\ \A l, m \in ls : /\ l = m \/ Earlier(l, m) \/ Earlier(m, l)
                          /\ ~ (Earlier(l, m) /\ Earlier(m, l))
                          /\ m \in UpTo(l) <=> ~ Earlier(l, m)
  BY OneOrder
<1>2. /\ \A l \in ls : /\ GroupId(l) \in 1 .. n
                       /\ Cardinality(ls \ UpTo(l)) = n - GroupId(l)
      /\ \A k \in 1 .. n : \E l \in ls : GroupId(l) = k
  BY NumbersAre
<1>3. page \subseteq ls /\ \A l \in page, m \in ls : Earlier(l, m) => m \in page
  BY DEF NewestPart
<1>. HIDE DEF ls
<1>4. IsFiniteSet(page) /\ p \in Nat /\ p <= n
  BY <1>1, <1>3, FS_Subset, FS_CardinalityType
<1>5. ASSUME NEW l \in page  PROVE GroupId(l) \in n - p + 1 .. n
  <2>1. ls \ UpTo(l) \subseteq page \ {l}
    BY <1>1, <1>3
  <2>2. IsFiniteSet(page \ {l}) /\ Cardinality(page \ {l}) = p - 1
    BY <1>4, FS_RemoveElement
  <2>3. Cardinality(ls \ UpTo(l)) <= Cardinality(page \ {l})
    BY <2>1, <2>2, FS_Subset
  <2>4. l \in ls /\ GroupId(l) \in 1 .. n /\ Cardinality(ls \ UpTo(l)) = n - GroupId(l)
    BY <1>2, <1>3
  <2>. HIDE DEF n, p
  <2>5. n \in Nat /\ p \in Nat /\ n - GroupId(l) <= p - 1
    BY <1>1, <1>4, <2>2, <2>3, <2>4
  <2>. QED
    BY <2>4, <2>5
<1>6. ASSUME NEW k \in n - p + 1 .. n  PROVE \E l \in page : GroupId(l) = k
  <2>1. k \in 1 .. n
    BY <1>1, <1>4
  <2>2. PICK l \in ls : GroupId(l) = k
    BY <1>2, <2>1
  <2>3. ASSUME l \notin page  PROVE FALSE
    <3>1. page \subseteq ls \ UpTo(l)
      BY <1>1, <1>3, <2>3
    <3>2. IsFiniteSet(ls \ UpTo(l))
      BY <1>1, FS_Difference
    <3>3. p <= n - k
      BY <1>2, <2>2, <3>1, <3>2, FS_Subset
    <3>. QED
      BY <1>1, <1>4, <2>1, <3>3
  <2>. QED
    BY <2>2, <2>3
<1>7. {GroupId(l) : l \in page} = n - p + 1 .. n
  BY <1>5, <1>6
<1>. QED
  BY <1>7 DEF Contiguous, ls

\* What readLatest returns is the newest part.
LEMMA RecentIsNewestPart ==
    ASSUME NEW c \in Block, NEW k \in Nat
    PROVE  LET ls == LogsThrough(c, 0, Height[c]) IN NewestPart(Recent(ls, k), ls)
<1>. DEFINE ls == LogsThrough(c, 0, Height[c])
            After(l) == {m \in ls : Earlier(l, m)}
<1>1. /\ IsFiniteSet(ls)
      /\ \A l \in ls : UpTo(l) \subseteq ls
      /\ \A l, m \in ls : /\ m \in UpTo(l) <=> ~ Earlier(l, m)
                          /\ Earlier(l, m) => UpTo(l) \subseteq UpTo(m)
  BY OneOrder
<1>. HIDE DEF ls
<1>2. Recent(ls, k) = {l \in ls : Cardinality(After(l)) < k}
  BY DEF Recent
<1>3. ASSUME NEW l \in ls, NEW m \in ls, Earlier(l, m), Cardinality(After(l)) < k
      PROVE  Cardinality(After(m)) < k
  <2>1. After(m) \subseteq After(l)
    BY <1>1, <1>3
  <2>2. IsFiniteSet(After(l)) /\ After(l) \subseteq ls
    BY <1>1, FS_Subset
  <2>3. Cardinality(After(m)) <= Cardinality(After(l)) /\ IsFiniteSet(After(m))
    BY <2>1, <2>2, FS_Subset
  <2>4. Cardinality(After(m)) \in Nat /\ Cardinality(After(l)) \in Nat
    BY <2>2, <2>3, FS_CardinalityType
  <2>. QED
    BY <1>3, <2>3, <2>4
<1>. QED
  BY <1>2, <1>3 DEF NewestPart, ls

\* A scope without a gap passes both checks of the group directory.
LEMMA WholeScopePasses ==
    ASSUME NEW s \in Nat, NEW scope, Lineage(s, scope.checkpoints), Whole(scope)
    PROVE  /\ RecentGroupSequence(scope.logs)
           /\ \A fresh : NewestPart(fresh, scope.logs) => FreshGroupSequence(fresh, scope.logs)
<1>. DEFINE cps == scope.checkpoints
            ls == scope.logs
<1>1. ASSUME NewestOf(cps) = {}
      PROVE  /\ RecentGroupSequence(ls)
             /\ \A fresh : NewestPart(fresh, ls) => FreshGroupSequence(fresh, ls)
  <2>1. ls = {} /\ Cardinality({}) = 0
    BY <1>1, FS_EmptySet DEF Whole
  <2>2. Recent(ls, PageSize) = {}
    BY <2>1 DEF Recent
  <2>3. Contiguous({}, 0)
    BY <2>1 DEF Contiguous
  <2>4. \A fresh : NewestPart(fresh, ls) => fresh = {}
    BY <2>1 DEF NewestPart
  <2>. QED
    BY <2>1, <2>2, <2>3, <2>4 DEF RecentGroupSequence, FreshGroupSequence
<1>2. ASSUME NewestOf(cps) # {}
      PROVE  /\ RecentGroupSequence(ls)
             /\ \A fresh : NewestPart(fresh, ls) => FreshGroupSequence(fresh, ls)
  <2>1. PICK c \in Block : NewestOf(cps) = {c}
    BY <1>2, NewestIsOne
  <2>2. ls = LogsThrough(c, 0, Height[c])
    BY <2>1 DEF Whole
  <2>3. NewestPart(Recent(ls, PageSize), ls)
    BY <2>2, StreamAssumption, RecentIsNewestPart
  <2>. QED
    BY <2>2, <2>3, NewestPartIsContiguous DEF RecentGroupSequence, FreshGroupSequence
<1>. QED
  BY <1>1, <1>2

\* Whatever one range finds lies above what it leaves of the logs.
LEMMA RangeIsOnTop ==
    ASSUME ChainTypeOK, NEW s \in Nat, NEW b, Lineage(s, b.checkpoints),
           NEW r \in SyncResults(s, b.checkpoints), NEW x, x.rollbackTo = r.rollbackTo,
           x.logs \subseteq r.logs
    PROVE  OnTop(s, b, x)
<1>. DEFINE cps == b.checkpoints
<1>h. /\ \A c \in Block : Height[c] \in Nat
      /\ \A l \in Log : BlockOf[l] \in Block
  BY HeightsAre
<1>1. CASE r \in RangeResults(s, cps)
  <2>a. PICK left \in Retained(cps), c \in EverCanonical : \E rollback \in Rollbacks(s, left, cps) :
           r = [checkpoints |-> WithCheckpoint(left, c), rollbackTo |-> rollback,
                logs |-> LogsThrough(c, NextAfter(s, left), Height[c])]
    BY <1>1, RangeResultIs
  <2>1. PICK rollback \in Rollbacks(s, left, cps) :
           r = [checkpoints |-> WithCheckpoint(left, c), rollbackTo |-> rollback,
                logs |-> LogsThrough(c, NextAfter(s, left), Height[c])]
    BY <2>a
  <2>2. left \in SUBSET cps
    BY RetainedIsSubset
  <2>3. /\ Lineage(s, left)
        /\ \A batch : Merged(Committed(s, cps), rollback, batch) = Committed(s, left) \cup batch
    <3>1. Lineage(s, cps)
      OBVIOUS
    <3>2. left \in SUBSET cps /\ rollback \in Rollbacks(s, left, cps)
      BY <2>2
    <3>. HIDE DEF cps
    <3>. QED
      BY <3>1, <3>2, RetainedFits
  <2>4. NextAfter(s, left) \in Nat /\ c \in Block /\ left \subseteq Block
    <3>1. c \in Block
      BY ChainAssumption DEF EverCanonical, ChainTypeOK
    <3>. QED
      BY <2>3, <3>1, NextAfterType DEF Lineage
  <2>5. ASSUME NEW m \in Committed(s, left)  PROVE Height[BlockOf[m]] < NextAfter(s, left)
    <3>1. left # {}
      BY <2>5 DEF Committed
    <3>2. Newest(left) \in left
      BY <2>3, <3>1, NewestIsLast DEF Lineage
    <3>3. Height[BlockOf[m]] <= Height[Newest(left)] /\ Height[BlockOf[m]] \in Nat
      BY <1>h, <2>4, <2>5, <3>1, <3>2 DEF Committed, LogsThrough
    <3>. QED
      BY <1>h, <2>4, <3>1, <3>2, <3>3 DEF NextAfter
  <2>6. ASSUME NEW l \in r.logs
        PROVE  Height[BlockOf[l]] >= NextAfter(s, left) /\ Height[BlockOf[l]] \in Nat
    BY <1>h, <2>1, <2>4, <2>6 DEF LogsThrough
  <2>7. \A m \in Committed(s, left) : Height[BlockOf[m]] \in Nat
    BY <1>h DEF Committed, LogsThrough
  <2>8. \A l \in x.logs, m \in Committed(s, left) : Height[BlockOf[m]] < Height[BlockOf[l]]
    BY <2>4, <2>5, <2>6, <2>7
  <2>9. Merged(Committed(s, cps), x.rollbackTo, {}) = Committed(s, left)
    BY <2>1, <2>3
  <2>. QED
    BY <2>8, <2>9 DEF OnTop
<1>2. CASE r \in NoRangeResults(s, cps)
  BY <1>2, NoRangeResultFits DEF OnTop
<1>. QED
  BY <1>1, <1>2 DEF SyncResults

\* What is stored on top of a part of it stays the newest.
LEMMA MergedOnTop ==
    ASSUME NEW s, NEW b, NEW stored \in SUBSET Committed(s, b.checkpoints),
           NEW r, OnTop(s, b, r), r.logs \subseteq Log
    PROVE  NewestPart(r.logs, Merged(stored, r.rollbackTo, r.logs))
<1>. DEFINE all == Merged(Committed(s, b.checkpoints), r.rollbackTo, {})
<1>1. Merged(stored, r.rollbackTo, r.logs) \subseteq all \cup r.logs
  BY DEF Merged, LogsBefore
<1>2. r.logs \subseteq Merged(stored, r.rollbackTo, r.logs)
  BY DEF Merged
<1>3. ASSUME NEW l \in r.logs, NEW m \in all  PROVE ~ Earlier(l, m)
  <2>1. Height[BlockOf[m]] < Height[BlockOf[l]]
    BY <1>3 DEF OnTop
  <2>2. m \in Log /\ l \in Log
    BY <1>3 DEF Merged, LogsBefore, Committed, LogsThrough
  <2>3. Height[BlockOf[m]] \in Nat /\ Height[BlockOf[l]] \in Nat
    BY <2>2, HeightsAre
  <2>. QED
    BY <2>1, <2>3 DEF Earlier
<1>. HIDE DEF all
<1>. QED
  BY <1>1, <1>2, <1>3 DEF NewestPart

\* Steps that neither store a range nor find a gap.
LEMMA DirectoryMoves ==
    ASSUME DirectoryInvariant, stream' = stream, NEW c, call' = c,
           \A q, r \in c.result : q = r, c.discarding = "nothing",
           stream = "groups" => c.step \notin {4, 5, 6}
    PROVE  DirectoryInvariant'
  BY DEF DirectoryInvariant, ResultsOnTop, OnlyIncompleteDiscarded

LEMMA DirectoryStays ==
    ASSUME DirectoryInvariant, UNCHANGED <<stream, scopes, call>>
    PROVE  DirectoryInvariant'
  BY DEF DirectoryInvariant, ResultsOnTop, OnlyIncompleteDiscarded

\* A call that is over, and one that begins, have no result.
LEMMA DirectoryIdle ==
    ASSUME DirectoryInvariant, stream' = stream,
           call' \in {Idle, Begun, [Begun EXCEPT !.retried = TRUE]}
    PROVE  DirectoryInvariant'
<1>. DEFINE again == [Begun EXCEPT !.retried = TRUE]
<1>1. Idle.step = 0 /\ Idle.result = {} /\ Idle.discarding = "nothing"
  BY DEF Idle
<1>2. /\ Begun.step = 1 /\ Begun.result = {} /\ Begun.discarding = "nothing"
      /\ again.step = 1 /\ again.result = {} /\ again.discarding = "nothing"
  BY DEF Begun, Idle
<1>. HIDE DEF again
<1>3. PICK c \in {Idle, Begun, again} : call' = c
  BY DEF again
<1>4. c.step \in {0, 1} /\ c.result = {} /\ c.discarding = "nothing"
  BY <1>1, <1>2, <1>3
<1>. QED
  BY <1>3, <1>4, DirectoryMoves

\* The steps before a range is read and after it was read again.
LEMMA DirectoryPasses ==
    ASSUME StreamInvariant, DirectoryInvariant, NEW name,
           \/ name \in {"boundary", "boundaryOrPending", "canonical", "canonicalOne",
                        "head", "headOne", "count"},
           Doing(name), NEW c \in Call, c.step = call.step, c.result = call.result,
           c.discarding = "nothing", stream' = stream, call' = Onward(c)
    PROVE  DirectoryInvariant'
<1>1. /\ call.step \in 0 .. LastStep /\ stream \in Stream /\ call.step \in Nat
      /\ call \in Call
  BY DoingIsBusy DEF CallInvariant, Call
<1>2. stream = "groups" => call.step \notin {3, 4, 5}
  BY <1>1, StepOf DEF LastStep, HeadStep
<1>. DEFINE d == Onward(c)
<1>3. d.step = call.step + 1 /\ d.result = call.result /\ d.discarding = "nothing"
  BY OnwardIs
<1>4. stream = "groups" => d.step \notin {4, 5, 6}
  BY <1>1, <1>2, <1>3
<1>5. \A q, r \in d.result : q = r
  BY <1>3 DEF DirectoryInvariant
<1>. HIDE DEF d
<1>6. PICK x : x = d
  OBVIOUS
<1>. QED
  BY <1>3, <1>4, <1>5, <1>6, DirectoryMoves DEF d

\* A scope is discarded before its range only for a gap.
LEMMA DirectoryReads ==
    ASSUME StreamInvariant, DirectoryInvariant, ReadScope
    PROVE  DirectoryInvariant'
<1>1. Doing("read")
  BY DEF ReadScope
<1>2. /\ CallInvariant(call) /\ TypeOK /\ ScopesFit /\ call \in Call
      /\ call.step = 2 \/ (stream = "reactions" /\ call.step = 10)
      /\ call.discarding = "nothing"
  BY <1>1, DoingIsBusy, StepOf DEF CallInvariant, StreamInvariant
<1>. DEFINE scope == scopes[<<NextTopic, call.start>>]
            c == [call EXCEPT !.topic = NextTopic, !.before = {scope}]
            e == [call EXCEPT !.topic = NextTopic, !.before = {scope}, !.discarding = "recent"]
            d == Onward(c)
<1>3. /\ d.step = call.step + 1 /\ d.result = call.result /\ d.discarding = "nothing"
      /\ e.step = call.step /\ e.result = call.result /\ e.discarding = "recent"
      /\ e.before = {scope}
  BY <1>2 DEF Onward, Call
<1>4. \/ call' = d
      \/ call' = e /\ stream = "groups" /\ ~ RecentGroupSequence(scope.logs)
  BY DEF ReadScope, Goes
<1>5. stream' = stream
  BY DEF ReadScope, Goes
<1>. HIDE DEF d, e
<1>6. CASE call' = d
  BY <1>2, <1>3, <1>5, <1>6, DirectoryMoves DEF DirectoryInvariant
<1>7. CASE call' = e /\ stream = "groups" /\ ~ RecentGroupSequence(scope.logs)
  <2>1. call.start \in Start /\ call.start \in Nat /\ NextTopic \in Topic
    <3>1. CallInvariant(call) /\ call.discarding = "nothing" /\ call.step = 2
      BY <1>2, <1>7
    <3>. QED
      BY <1>2, <1>7, <3>1, NextTopicIs, HeightsAre DEF Call, Topic, Phase, HeldAt, CallInvariant, Topics
  <2>2. Lineage(call.start, scope.checkpoints)
    BY <1>2, <2>1 DEF ScopesFit, Fits
  <2>. HIDE DEF scope
  <2>3. ~ Whole(scope)
    BY <1>7, <2>1, <2>2, WholeScopePasses
  <2>4. OnlyIncompleteDiscarded'
    BY <1>3, <1>7, <2>3 DEF OnlyIncompleteDiscarded, Whole
  <2>5. ResultsOnTop'
    BY <1>2, <1>3, <1>7 DEF ResultsOnTop
  <2>. QED
    BY <1>3, <1>7, <2>4, <2>5 DEF DirectoryInvariant
<1>. QED
  BY <1>4, <1>6, <1>7

\* What a range found.
LEMMA DirectorySyncs ==
    ASSUME StreamInvariant, DirectoryInvariant, SyncLogs
    PROVE  DirectoryInvariant'
<1>1. Doing("sync")
  BY DEF SyncLogs
<1>2. /\ CallInvariant(call) /\ TypeOK /\ call \in Call
      /\ call.step = 3 \/ (stream = "reactions" /\ call.step = 11)
      /\ call.discarding = "nothing" /\ ChainTypeOK
      /\ \A a, b \in call.before : a = b
  BY <1>1, DoingIsBusy, StepOf DEF CallInvariant, StreamInvariant, TypeOK, Phase
<1>3. call.start \in Nat
  BY <1>2, HeightsAre DEF Call
<1>4. PICK b \in call.before : \E r \in Results(call.start, b.checkpoints) :
                               \E ls \in Answered(r.logs) :
            Goes(Onward([call EXCEPT !.result = {[r EXCEPT !.logs = ls]}]))
  BY DEF SyncLogs
<1>5. PICK r \in Results(call.start, b.checkpoints) : \E ls \in Answered(r.logs) :
            Goes(Onward([call EXCEPT !.result = {[r EXCEPT !.logs = ls]}]))
  BY <1>4
<1>6. PICK ls \in Answered(r.logs) :
            Goes(Onward([call EXCEPT !.result = {[r EXCEPT !.logs = ls]}]))
  BY <1>5
<1>7. Lineage(call.start, b.checkpoints) /\ r \in SyncResults(call.start, b.checkpoints)
  BY <1>2, <1>4, <1>5 DEF CallInvariant, CallFits, Fits, Results
<1>8. r = [checkpoints |-> r.checkpoints, rollbackTo |-> r.rollbackTo, logs |-> r.logs]
  BY <1>2, <1>3, <1>7, SyncResultFits
<1>. DEFINE x == [r EXCEPT !.logs = ls]
            d == Onward([call EXCEPT !.result = {x}])
<1>9. x.rollbackTo = r.rollbackTo /\ x.logs \subseteq r.logs
  BY <1>6, <1>8 DEF Answered
<1>. HIDE DEF x
<1>10. OnTop(call.start, b, x)
  BY <1>2, <1>3, <1>7, <1>9, RangeIsOnTop
<1>11. /\ d.step = call.step + 1 /\ d.result = {x} /\ d.discarding = "nothing"
       /\ d.before = call.before /\ d.start = call.start
  BY <1>2 DEF Onward, Call
<1>12. call' = d /\ stream' = stream
  BY <1>6 DEF Goes, x
<1>. HIDE DEF d
<1>13. stream = "groups" => d.step = 4
  BY <1>2, <1>11
<1>14. \A a \in call.before : OnTop(call.start, a, x)
  BY <1>2, <1>4, <1>10
<1>15. (stream = "groups" => ResultsOnTop)'
  BY <1>11, <1>12, <1>13, <1>14 DEF ResultsOnTop
<1>. QED
  BY <1>11, <1>12, <1>15 DEF DirectoryInvariant, OnlyIncompleteDiscarded

\* The history anchor is checked.
LEMMA DirectoryChecks ==
    ASSUME StreamInvariant, DirectoryInvariant, CheckHistoryAnchor
    PROVE  DirectoryInvariant'
<1>1. PICK name \in {"anchor", "anchorOrRetry"} : Doing(name)
  BY DEF CheckHistoryAnchor
<1>2. /\ CallInvariant(call) /\ call \in Call
      /\ call.step = 4 \/ (stream = "reactions" /\ call.step = 12)
      /\ call.discarding = "nothing"
  BY <1>1, DoingIsBusy, StepOf DEF CallInvariant
<1>. DEFINE d == Onward(call)
<1>3. /\ d.step = call.step + 1 /\ d.result = call.result /\ d.discarding = "nothing"
      /\ d.before = call.before /\ d.start = call.start
  BY <1>2, OnwardIs
<1>4. stream' = stream /\ (call' = d \/ call' = [Begun EXCEPT !.retried = TRUE])
  BY DEF CheckHistoryAnchor, Goes
<1>. HIDE DEF d
<1>5. CASE call' = d
  <2>1. stream = "groups" => call.step = 4 /\ d.step = 5
    BY <1>2, <1>3
  <2>2. (stream = "groups" => ResultsOnTop)'
    BY <1>3, <1>4, <1>5, <2>1 DEF ResultsOnTop, DirectoryInvariant
  <2>. QED
    BY <1>3, <1>4, <1>5, <2>2 DEF DirectoryInvariant, OnlyIncompleteDiscarded
<1>. QED
  BY <1>4, <1>5, DirectoryIdle

\* One scope is written to; the others stay.
LEMMA WrittenScope ==
    ASSUME TypeOK, NEW t \in Topic, NEW s \in Start, NEW other,
           scopes' = [scopes EXCEPT ![<<t, s>>] = other],
           NEW u \in Topic, NEW v \in Start
    PROVE  scopes'[<<u, v>>] = IF u = t /\ v = s THEN other ELSE scopes[<<u, v>>]
<1>1. scopes \in [Topic \X Start -> Scope] /\ <<t, s>> \in Topic \X Start
      /\ <<u, v>> \in Topic \X Start
  BY DEF TypeOK
<1>2. <<u, v>> = <<t, s>> <=> u = t /\ v = s
  OBVIOUS
<1>. QED
  BY <1>1, <1>2

\* What is written is what it holds.
LEMMA WrittenScopeIs ==
    ASSUME TypeOK, NEW t \in Topic, NEW s \in Start, NEW other,
           scopes' = [scopes EXCEPT ![<<t, s>>] = other]
    PROVE  scopes'[<<t, s>>] = other
<1>1. scopes \in [Topic \X Start -> Scope] /\ <<t, s>> \in Topic \X Start
  BY DEF TypeOK
<1>. QED
  BY <1>1

\* The range is stored.
LEMMA DirectoryApplies ==
    ASSUME StreamInvariant, DirectoryInvariant, ApplyResult
    PROVE  DirectoryInvariant'
<1>1. Doing("apply")
  BY DEF ApplyResult
<1>2. /\ CallInvariant(call) /\ TypeOK /\ ScopesFit /\ call \in Call
      /\ call.step = 5 \/ (stream = "reactions" /\ call.step = 13)
      /\ call.discarding = "nothing"
      /\ \A a, b \in call.before : a = b
      /\ \A q, r \in call.result : q = r
  BY <1>1, DoingIsBusy, StepOf
  DEF CallInvariant, StreamInvariant, Phase, DirectoryInvariant
<1>3. call.start \in Start /\ call.topic \in Topic
  BY <1>2 DEF CallInvariant, Phase, TopicAt, Topic, Call
<1>. DEFINE scope == scopes[<<call.topic, call.start>>]
<1>4. PICK b \in call.before, r \in call.result :
         SamePosition(scope, b) /\ Stores(call.topic, AfterSync(scope, r))
  BY DEF ApplyResult
<1>. DEFINE d == Onward(call)
            after == AfterSync(scope, r)
<1>5. /\ d.step = call.step + 1 /\ d.result = call.result /\ d.discarding = "nothing"
      /\ d.before = call.before /\ d.start = call.start /\ d.topic = call.topic
  BY <1>2, OnwardIs
<1>6. call' = d /\ stream' = stream /\ scopes' = [scopes EXCEPT ![<<call.topic, call.start>>] = after]
  BY <1>4 DEF ApplyResult, Stores
<1>. HIDE DEF d
<1>7. ASSUME stream = "groups"  PROVE ResultsOnTop'
  <2>1. call.step = 5 /\ d.step = 6
    BY <1>2, <1>5, <1>7
  <2>2. \A a \in call.before, q \in call.result : OnTop(call.start, a, q)
    BY <1>7, <2>1 DEF DirectoryInvariant, ResultsOnTop
  <2>3. scope \in Scope /\ Fits(call.topic, call.start, scope) /\ b \in Scope
    BY <1>2, <1>3, <1>4 DEF TypeOK, ScopesFit, Call
  <2>4. r.logs \subseteq Log
    BY <1>2, <1>4 DEF Call, Result
  <2>5. StoredOnTop(after, b, r)
    <3>. HIDE DEF scope
    <3>1. /\ after.generation = b.generation /\ after.revision = b.revision + 1
          /\ after.logs = Merged(scope.logs, r.rollbackTo, r.logs)
      BY <1>4, <2>3 DEF AfterSync, SamePosition, Scope
    <3>2. scope.logs \in SUBSET Committed(call.start, b.checkpoints)
      BY <1>4, <2>3 DEF Fits, SamePosition
    <3>3. OnTop(call.start, b, r)
      BY <1>4, <2>2
    <3>4. NewestPart(r.logs, Merged(scope.logs, r.rollbackTo, r.logs))
      BY <2>4, <3>2, <3>3, MergedOnTop
    <3>. QED
      BY <3>1, <3>4 DEF StoredOnTop
  <2>6. scopes'[<<call.topic, call.start>>] = after
    <3>1. TypeOK /\ call.topic \in Topic /\ call.start \in Start
      BY <1>2, <1>3
    <3>. HIDE DEF after, scope
    <3>2. scopes' = [scopes EXCEPT ![<<call.topic, call.start>>] = after]
      BY <1>6
    <3>. QED
      BY <3>1, <3>2, WrittenScopeIs
  <2>7. \A a \in call.before, q \in call.result :
           StoredOnTop(scopes'[<<call.topic, call.start>>], a, q)
    BY <1>2, <1>4, <2>5, <2>6
  <2>. HIDE DEF after, scope
  <2>. QED
    BY <1>5, <1>6, <2>2, <2>7 DEF ResultsOnTop, StoredOnTop
<1>. QED
  BY <1>2, <1>5, <1>6, <1>7 DEF DirectoryInvariant, OnlyIncompleteDiscarded

\* The scope is read again, and discarded only for a gap.
LEMMA DirectoryRereads ==
    ASSUME StreamInvariant, DirectoryInvariant, RereadScope
    PROVE  DirectoryInvariant'
<1>1. Doing("reread")
  BY DEF RereadScope
<1>2. /\ CallInvariant(call) /\ TypeOK /\ ScopesFit /\ call \in Call
      /\ call.step = 6 \/ (stream = "reactions" /\ call.step = 14)
      /\ call.discarding = "nothing"
  BY <1>1, DoingIsBusy, StepOf DEF CallInvariant, StreamInvariant
<1>3. call.start \in Start /\ call.topic \in Topic /\ call.start \in Nat
  BY <1>2, HeightsAre DEF CallInvariant, Phase, TopicAt, Topic, Call
<1>. DEFINE scope == scopes[<<call.topic, call.start>>]
            held == [t \in DOMAIN call.held \cup {call.topic} |->
                        IF t = call.topic THEN scope ELSE call.held[t]]
            c == [call EXCEPT !.held = held]
            e == [c EXCEPT !.discarding = "held"]
            d == Onward(c)
<1>4. PICK b \in call.before, r \in call.result :
         /\ SamePosition(scope, [b EXCEPT !.revision = @ + 1, !.checkpoints = r.checkpoints])
         /\ \/ Goes(d)
            \/ /\ Goes(e) /\ stream = "groups"
               /\ \/ ~ FreshGroupSequence(r.logs, scope.logs)
                  \/ ~ RecentGroupSequence(scope.logs)
  BY DEF RereadScope
<1>5. /\ d.step = call.step + 1 /\ d.result = call.result /\ d.discarding = "nothing"
      /\ e.step = call.step /\ e.result = call.result /\ e.discarding = "held"
      /\ e.before = call.before /\ e.start = call.start /\ e.topic = call.topic
      /\ e.held = held
  BY <1>2 DEF Onward, Call
<1>6. held[call.topic] = scope /\ call.topic \in DOMAIN held
  OBVIOUS
<1>. HIDE DEF d, e, c, held
<1>7. CASE Goes(d)
  <2>1. call' = d /\ stream' = stream
    BY <1>7 DEF Goes
  <2>. QED
    BY <1>2, <1>5, <2>1, DirectoryMoves DEF DirectoryInvariant
<1>8. CASE /\ Goes(e) /\ stream = "groups"
           /\ \/ ~ FreshGroupSequence(r.logs, scope.logs)
              \/ ~ RecentGroupSequence(scope.logs)
  <2>1. scope \in Scope /\ Lineage(call.start, scope.checkpoints) /\ b \in Scope
    BY <1>2, <1>3, <1>4 DEF TypeOK, ScopesFit, Fits, Call
  <2>2. StoredOnTop(scope, b, r)
    BY <1>2, <1>4, <1>8 DEF DirectoryInvariant, ResultsOnTop
  <2>. HIDE DEF scope
  <2>3. scope.generation = b.generation /\ scope.revision = b.revision + 1
    BY <1>4, <2>1 DEF SamePosition, Scope
  <2>4. NewestPart(r.logs, scope.logs)
    BY <2>1, <2>2, <2>3 DEF StoredOnTop, Scope
  <2>5. ~ Whole(scope)
    BY <1>3, <1>8, <2>1, <2>4, WholeScopePasses
  <2>6. call' = e /\ stream' = stream /\ scopes' = scopes
    BY <1>8 DEF Goes
  <2>7. OnlyIncompleteDiscarded'
    BY <1>5, <1>6, <2>5, <2>6 DEF OnlyIncompleteDiscarded, Whole
  <2>8. ResultsOnTop'
    BY <1>5, <1>8, <2>6 DEF DirectoryInvariant, ResultsOnTop
  <2>. QED
    BY <1>5, <2>6, <2>7, <2>8 DEF DirectoryInvariant
<1>. QED
  BY <1>4, <1>7, <1>8

\* The count that was read is of the branch of the newest checkpoint: where it
\* differs, an event is missing.
LEMMA DirectoryFinishes ==
    ASSUME StreamInvariant, DirectoryInvariant, Finish
    PROVE  DirectoryInvariant'
<1>1. PICK name \in {"show", "showAtSafeHead", "showCounted", "issue"}, h \in call.heads :
         LET caughtUp == CaughtUp(call.held, call.start, h)
             counts == \A t \in DOMAIN call.held :
                           call.counted = Cardinality(call.held[t].logs) + 1
         IN  /\ Doing(name)
             /\ (caughtUp /\ name # "show") => AtSafeHead(call.held, h)
             /\ \/ /\ name = "showCounted" /\ caughtUp /\ ~ counts
                   /\ call' = [call EXCEPT !.discarding = "held"]
                \/ call' = Idle
  BY DEF Finish
<1>2. Doing(name) /\ stream' = stream /\ scopes' = scopes
  BY <1>1 DEF Finish
<1>3. /\ CallInvariant(call) /\ call \in Call /\ call.step = LastStep
      /\ name = "showCounted" <=> stream = "groups"
  BY <1>2, DoingIsBusy, StepOf DEF CallInvariant
<1>4. CASE call' = Idle
  BY <1>2, <1>4, DirectoryIdle
<1>5. ASSUME name = "showCounted", CaughtUp(call.held, call.start, h),
             NEW t \in DOMAIN call.held, call.counted # Cardinality(call.held[t].logs) + 1,
             call' = [call EXCEPT !.discarding = "held"]
      PROVE  DirectoryInvariant'
  <2>. DEFINE d == [call EXCEPT !.discarding = "held"]
  <2>1. /\ d.step = 11 /\ d.result = call.result /\ d.held = call.held
        /\ d.discarding = "held" /\ stream = "groups"
    BY <1>3, <1>5 DEF Call, LastStep
  <2>2. call' = d
    BY <1>5
  <2>. HIDE DEF d
  <2>3. PICK b \in Block :
           /\ CountedAt(call, h, b)
           /\ \A e \in NewestHeld(call.held) : Height[e] = Height[b] => e = b
    BY <1>3, <1>5 DEF CallInvariant, VerifiedAtEnd
  <2>4. SafeHead(h) # Undefined
    BY <1>3, <1>5 DEF CaughtUp, NeedsSafeHead
  <2>5. AtSafeHead(call.held, h)
    BY <1>1, <1>5
  <2>6. PICK c \in Block : Height[c] = SafeHead(h) /\ NewestOf(call.held[t].checkpoints) = {c}
    BY <2>4, <2>5 DEF AtSafeHead
  <2>7. c \in NewestHeld(call.held)
    BY <2>6 DEF NewestHeld
  <2>8. c = b
    BY <2>3, <2>6, <2>7 DEF CountedAt
  <2>9. call.counted = 1 + Cardinality(LogsThrough(c, 0, Height[c]))
    BY <2>3, <2>8 DEF CountedAt
  <2>10. ~ Whole(call.held[t])
    <3>1. SUFFICES ASSUME Whole(call.held[t])  PROVE FALSE
      OBVIOUS
    <3>2. call.held[t].logs = LogsThrough(c, 0, Height[c])
      BY <2>6, <3>1 DEF Whole
    <3>3. Cardinality(LogsThrough(c, 0, Height[c])) \in Nat
      BY OneOrder
    <3>. QED
      BY <1>5, <2>9, <3>2, <3>3
  <2>11. OnlyIncompleteDiscarded'
    BY <2>1, <2>2, <2>10 DEF OnlyIncompleteDiscarded, Whole
  <2>. QED
    BY <1>2, <2>1, <2>2, <2>11 DEF DirectoryInvariant, ResultsOnTop
<1>. QED
  BY <1>1, <1>4, <1>5

\* A scope that was discarded is cleared.
LEMMA DirectoryClears ==
    ASSUME StreamInvariant, DirectoryInvariant, ClearScope
    PROVE  DirectoryInvariant'
<1>1. CallInvariant(call) /\ call \in Call /\ stream' = stream
  BY DEF ClearScope, Stores, StreamInvariant, CallInvariant
<1>. DEFINE d == [call EXCEPT !.discarding = "nothing", !.before = {}]
<1>2. CASE call' = Idle
  BY <1>1, <1>2, DirectoryIdle
<1>3. CASE call.discarding = "recent" /\ call' = d
  <2>1. d.step = 2 /\ d.result = call.result /\ d.discarding = "nothing"
    BY <1>1, <1>3 DEF Call, CallInvariant, Phase
  <2>2. \A q, r \in d.result : q = r
    BY <2>1 DEF DirectoryInvariant
  <2>. HIDE DEF d
  <2>3. PICK x : x = d
    OBVIOUS
  <2>. QED
    BY <1>1, <1>3, <2>1, <2>2, <2>3, DirectoryMoves
<1>. QED
  BY <1>2, <1>3 DEF ClearScope

\* What another tab makes of the scope has a later position.
LEMMA DirectoryOthers ==
    ASSUME StreamInvariant, DirectoryInvariant, OtherTab
    PROVE  DirectoryInvariant'
<1>1. /\ CallInvariant(call) /\ TypeOK /\ UNCHANGED <<stream, call>> /\ call \in Call
  BY DEF StreamInvariant, OtherTab, CallInvariant
<1>2. PICK t \in Topics, s \in Start :
         LET scope == scopes[<<t, s>>]
             Leaves(other) ==
                /\ scopes' = [scopes EXCEPT ![<<t, s>>] = other]
                /\ UNCHANGED <<chainVars, stream, call, shown, auth>>
         IN  \/ Leaves(Cleared(scope))
             \/ \E r \in Results(s, scope.checkpoints) :
                LET ls == r.logs \cap Matching(t)
                IN  Leaves([scope EXCEPT
                       !.revision = @ + 1, !.checkpoints = r.checkpoints,
                       !.logs = Merged(@, r.rollbackTo, ls)])
             \/ Leaves(EmptyScope(scope.generation + 1, 0))
  BY DEF OtherTab
<1>. DEFINE scope == scopes[<<t, s>>]
<1>3. t \in Topic /\ scope \in Scope
  BY <1>1 DEF Topics, Topic, TypeOK
<1>4. PICK other :
         /\ scopes' = [scopes EXCEPT ![<<t, s>>] = other]
         /\ \/ other.generation = scope.generation /\ other.revision = scope.revision + 1
            \/ other.generation = scope.generation + 1
  <2>1. CASE scopes' = [scopes EXCEPT ![<<t, s>>] = Cleared(scope)]
    <3>. HIDE DEF scope
    <3>1. /\ Cleared(scope).generation = scope.generation
          /\ Cleared(scope).revision = scope.revision + 1
      BY <1>3 DEF Cleared, EmptyScope, Scope
    <3>. QED
      BY <2>1, <3>1
  <2>2. CASE scopes' = [scopes EXCEPT ![<<t, s>>] = EmptyScope(scope.generation + 1, 0)]
    <3>. HIDE DEF scope
    <3>1. EmptyScope(scope.generation + 1, 0).generation = scope.generation + 1
      BY DEF EmptyScope
    <3>. QED
      BY <2>2, <3>1
  <2>3. ASSUME NEW r, scopes' = [scopes EXCEPT ![<<t, s>>] =
                         [scope EXCEPT !.revision = @ + 1, !.checkpoints = r.checkpoints,
                            !.logs = Merged(@, r.rollbackTo, r.logs \cap Matching(t))]]
        PROVE  \E other :
                 /\ scopes' = [scopes EXCEPT ![<<t, s>>] = other]
                 /\ \/ other.generation = scope.generation /\ other.revision = scope.revision + 1
                    \/ other.generation = scope.generation + 1
    <3>. HIDE DEF scope
    <3>. DEFINE next == [scope EXCEPT !.revision = @ + 1, !.checkpoints = r.checkpoints,
                            !.logs = Merged(@, r.rollbackTo, r.logs \cap Matching(t))]
    <3>1. next.generation = scope.generation /\ next.revision = scope.revision + 1
      BY <1>3 DEF Scope
    <3>2. scopes' = [scopes EXCEPT ![<<t, s>>] = next]
      BY <2>3
    <3>. HIDE DEF next
    <3>. QED
      BY <3>1, <3>2
  <2>. QED
    BY <1>2, <2>1, <2>2, <2>3
<1>a. TypeOK /\ scopes' = [scopes EXCEPT ![<<t, s>>] = other] /\ s \in Start
  BY <1>1, <1>4
<1>5. ASSUME stream = "groups"  PROVE ResultsOnTop'
  <2>1. call.step \in {4, 5, 6} =>
            \A b \in call.before, r \in call.result : OnTop(call.start, b, r)
    BY <1>5 DEF DirectoryInvariant, ResultsOnTop
  <2>2. ASSUME call.step = 6, NEW b \in call.before, NEW r \in call.result
        PROVE  StoredOnTop(scopes'[<<call.topic, call.start>>], b, r)
    <3>1. call.start \in Start /\ call.topic \in Topic /\ b \in Scope
      BY <1>1, <2>2 DEF CallInvariant, Phase, TopicAt, Topic, Call
    <3>2. StoredOnTop(scopes[<<call.topic, call.start>>], b, r)
      BY <1>5, <2>2 DEF DirectoryInvariant, ResultsOnTop
    <3>3. CASE call.topic = t /\ call.start = s
      <4>0. scopes'[<<t, s>>] = other
        <5>. HIDE DEF scope
        <5>. QED
          BY <1>3, <1>a, WrittenScopeIs
      <4>1. scopes'[<<call.topic, call.start>>] = other /\ StoredOnTop(scope, b, r)
        BY <3>2, <3>3, <4>0
      <4>. HIDE DEF scope
      <4>2. other.generation > b.generation
            \/ (other.generation = b.generation /\ other.revision > b.revision + 1)
        BY <1>3, <1>4, <3>1, <4>1 DEF StoredOnTop, Scope
      <4>. QED
        BY <4>1, <4>2 DEF StoredOnTop
    <3>4. CASE ~ (call.topic = t /\ call.start = s)
      <4>1. scopes'[<<call.topic, call.start>>] = scopes[<<call.topic, call.start>>]
        BY <1>3, <1>a, <3>1, <3>4, WrittenScope
      <4>. QED
        BY <3>2, <4>1
    <3>. QED
      BY <3>3, <3>4
  <2>. QED
    BY <1>1, <2>1, <2>2 DEF ResultsOnTop, StoredOnTop
<1>. QED
  BY <1>1, <1>5 DEF DirectoryInvariant, OnlyIncompleteDiscarded

LEMMA DirectoryStep ==
    StreamInvariant /\ DirectoryInvariant /\ [StreamNext]_vars => DirectoryInvariant'
<1>. SUFFICES ASSUME StreamInvariant, DirectoryInvariant, [StreamNext]_vars
              PROVE  DirectoryInvariant'
  OBVIOUS
<1>0. call \in Call
  BY DEF StreamInvariant, TypeOK
<1>1. CASE Fail
  BY <1>1, DirectoryIdle DEF Fail, Goes
<1>2. CASE ResolveBoundary
  <2>1. PICK name \in {"boundary", "boundaryOrPending"} : Doing(name)
    BY <1>2 DEF ResolveBoundary
  <2>2. CASE call' = Idle /\ stream' = stream
    BY <2>2, DirectoryIdle
  <2>3. ASSUME NEW n \in Start, NEW B \in SUBSET Block,
               Goes(Onward([call EXCEPT !.start = n, !.boundary = B]))
        PROVE  DirectoryInvariant'
    <3>. DEFINE c == [call EXCEPT !.start = n, !.boundary = B]
    <3>1. /\ c \in Call /\ c.step = call.step /\ c.result = call.result
          /\ c.discarding = "nothing"
      BY <1>0, <2>1 DEF Call, Doing
    <3>2. stream' = stream /\ call' = Onward(c)
      BY <2>3 DEF Goes
    <3>. HIDE DEF c
    <3>. QED
      BY <2>1, <3>1, <3>2, DirectoryPasses
  <2>4. 0 \in Start /\ \A h \in Deployed : StartOf(h) \in Start /\ h \in Block
    BY HeightsAre, StartOfBranch, StreamAssumption
    DEF StreamInvariant, TypeOK, ChainTypeOK
  <2>5. CASE Goes(Onward([call EXCEPT !.start = 0, !.boundary = {}]))
    <3>1. {} \in SUBSET Block
      OBVIOUS
    <3>. QED
      BY <2>3, <2>4, <2>5, <3>1
  <2>6. ASSUME NEW h \in Deployed,
               Goes(Onward([call EXCEPT !.start = StartOf(h), !.boundary = {h}]))
        PROVE  DirectoryInvariant'
    <3>1. {h} \in SUBSET Block /\ StartOf(h) \in Start
      BY <2>4
    <3>. QED
      BY <2>3, <2>6, <3>1
  <2>7. CASE Goes(Idle)
    BY <2>2, <2>7 DEF Goes
  <2>. QED
    BY <1>2, <2>5, <2>6, <2>7 DEF ResolveBoundary
<1>3. CASE ReadScope
  BY <1>3, DirectoryReads
<1>4. CASE SyncLogs
  BY <1>4, DirectorySyncs
<1>5. CASE CheckHistoryAnchor
  BY <1>5, DirectoryChecks
<1>6. CASE ApplyResult
  BY <1>6, DirectoryApplies
<1>7. CASE RereadScope
  BY <1>7, DirectoryRereads
<1>8. CASE CheckCanonical
  <2>1. PICK name \in {"canonical", "canonicalOne"} : Doing(name)
    BY <1>8 DEF CheckCanonical
  <2>2. stream' = stream /\ call' = Onward(call) /\ call.discarding = "nothing"
    BY <1>8, <2>1 DEF CheckCanonical, Goes, Doing
  <2>. QED
    BY <1>0, <2>1, <2>2, DirectoryPasses
<1>9. CASE ReadHead
  <2>1. PICK h \in Block, name \in {"head", "headOne"} :
           /\ Doing(name) /\ stream' = stream
           /\ call' \in {Onward(call), Onward([call EXCEPT !.heads = {h}])}
    BY <1>9 DEF ReadHead, Goes
  <2>. DEFINE c == [call EXCEPT !.heads = {h}]
  <2>2. /\ c \in Call /\ c.step = call.step /\ c.result = call.result
        /\ c.discarding = "nothing" /\ call.discarding = "nothing"
    BY <1>0, <2>1 DEF Call, Doing
  <2>3. call' = Onward(call) \/ call' = Onward(c)
    BY <2>1
  <2>. HIDE DEF c
  <2>. QED
    BY <1>0, <2>1, <2>2, <2>3, DirectoryPasses
<1>10. CASE CountGroups
  <2>1. Doing("count") /\ stream' = stream
    BY <1>10 DEF CountGroups, Goes
  <2>2. PICK n \in Nat : \/ call' = Onward(call)
                         \/ call' = Onward([call EXCEPT !.counted = n])
    <3>1. \A b \in Block : 1 + Cardinality(LogsThrough(b, 0, Height[b])) \in Nat
      BY OneOrder
    <3>. QED
      BY <1>10, <3>1 DEF CountGroups, Goes
  <2>. DEFINE c == [call EXCEPT !.counted = n]
  <2>3. /\ c \in Call /\ c.step = call.step /\ c.result = call.result
        /\ c.discarding = "nothing" /\ call.discarding = "nothing"
    BY <1>0, <2>1 DEF Call, Doing
  <2>4. call' = Onward(call) \/ call' = Onward(c)
    BY <2>2
  <2>. HIDE DEF c
  <2>. QED
    BY <1>0, <2>1, <2>3, <2>4, DirectoryPasses
<1>11. CASE Finish
  BY <1>11, DirectoryFinishes
<1>12. CASE ClearScope
  BY <1>12, DirectoryClears
<1>13. CASE \/ Authenticate \/ AuthenticateCheckpoint \/ AuthenticateHead
            \/ AuthenticateCache \/ FailAuthentication \/ Reorganize \/ UNCHANGED vars
  <2>1. UNCHANGED <<stream, scopes, call>>
    BY <1>13
    DEF Authenticate, AuthenticateCheckpoint, AuthenticateHead, AuthenticateCache,
        FailAuthentication, Proceeds, Reorganize, vars
  <2>. QED
    BY <2>1, DirectoryStays
<1>14. CASE OtherTab
  BY <1>14, DirectoryOthers
<1>. QED
  BY <1>1, <1>2, <1>3, <1>4, <1>5, <1>6, <1>7, <1>8, <1>9, <1>10, <1>11, <1>12,
     <1>13, <1>14 DEF StreamNext

\* The group directory clears a scope only when an event of its branch is
\* missing from it: identifiers are consecutive on every branch, however many
\* groups a block has, and a count of another branch is never compared.
THEOREM WholeScopesAreKept == Spec => []OnlyIncompleteDiscarded
<1>1. Init => DirectoryInvariant
  BY DEF Init, Begun, Idle, DirectoryInvariant, ResultsOnTop, OnlyIncompleteDiscarded
<1>2. DirectoryInvariant => OnlyIncompleteDiscarded
  BY DEF DirectoryInvariant
<1>. QED
  BY <1>1, <1>2, StreamInvariantHolds, DirectoryStep, PTL DEF Spec
====
