---------------------------- MODULE Projections ----------------------------
(***************************************************************************)
(* What a page makes of the contract's events: follow-projection.ts,       *)
(* group-membership-projection.ts, profile-projection.ts,                  *)
(* post-comment-projection.ts and post-reaction-projection.ts, on top of   *)
(* the contract that emits the events.                                     *)
(*                                                                         *)
(* A projection is handed the events of a confirmed branch in pages of     *)
(* whole blocks, up to the block of its anchor, and is then confirmed      *)
(* through that block; it may be put away as a snapshot and taken up again *)
(* when there are more blocks.  The branch is one branch: that the pages   *)
(* are of the anchor's is the business of EventStream and Reader.  What    *)
(* comes from a stream was decoded before it was stored: an event that     *)
(* does not decode stops its stream, and no anchor goes past it.  An       *)
(* event is named by its place in `events`, which orders it by block and   *)
(* log index, and its block and transaction by their numbers.              *)
(***************************************************************************)
EXTENDS Lifeinvader, FiniteSetsExt

CONSTANTS
    View,          \* the projections a behaviour may be about
    Selected,      \* the account whose follows are projected
    TrackedAccounts, \* the accounts whose profiles are projected
    TrackedPosts,  \* the posts whose comments are projected
    DigitCount,    \* how many digits an address is written with
    ReadLimit,     \* the limit of a read
    Input          \* [View -> the calls that are made], see Lifeinvader, with
                   \* two bounds: maxEvents, and maxBlock in the making

ASSUME ProjectionAssumption ==
    /\ DigitCount \in Nat \ {0}
    /\ Account \subseteq [1 .. DigitCount -> 0 .. 15]
    /\ ReadLimit \in Nat \ {0}
    /\ View \subseteq {"contract", "followers", "following", "members",
                       "profiles", "comments", "reactions"}
    /\ \A v \in View : Input[v].maxEvents \in Nat /\ Input[v].maxBlock \in Nat
    /\ \A v \in View : Callable(Input[v])

None == <<>>
NotYet == 0

VARIABLES
    view,       \* the projection in use, or "contract" for none
    anchor,     \* the block of the anchor a scan goes to, or NotYet
    next,       \* [stream -> the block its next page starts with]
    last,       \* [stream -> the last event applied, or NotYet]
    confirmed,  \* confirmedThrough, or NotYet
    kept        \* what was derived

projectionVars == <<anchor, next, last, confirmed, kept>>
vars == <<contractVars, view, projectionVars>>

Stream == IF view = "reactions" THEN {"likes", "reposts"} ELSE {"events"}
Relational == view \in {"followers", "following", "members"}
Resumable == view \in {"profiles", "comments", "reactions"}

Event(i) == events[i]
BlockNumber(i) == IF i = NotYet THEN 0 ELSE events[i].block

\* The filter of a stream.
InScope(s, e) ==
    CASE view = "followers" -> e.event = "FollowSet" /\ e.other = Selected
      [] view = "following" -> e.event = "FollowSet" /\ e.account = Selected
      [] view = "members" -> e.event = "GroupMembershipSet" /\ e.group = 1
      [] view = "profiles" -> e.event = "ProfileSet"
      [] view = "comments" -> e.event = "CommentPublished"
      [] view = "reactions" ->
            \/ s = "likes" /\ e.event = "LikeSet" /\ e.kind = "post"
            \/ s = "reposts" /\ e.event = "RepostPublished"
      [] OTHER -> FALSE

Through(s, n) == {i \in 1 .. Len(events) : InScope(s, Event(i)) /\ BlockNumber(i) <= n}

Nothing == [entries |-> <<>>, index |-> {}, blocks |-> <<>>, count |-> 0,
            active |-> {}, likes |-> <<>>, reposts |-> <<>>, hashes |-> {}]

Init ==
    /\ ContractInit
    /\ view \in View
    /\ anchor = NotYet
    /\ next = [s \in Stream |-> 1]
    /\ last = [s \in Stream |-> NotYet]
    /\ confirmed = NotYet
    /\ kept = Nothing

-----------------------------------------------------------------------------
(* Relations: the latest signal of a counterpart decides.  The retained     *)
(* ones are also in a tree of the digits of their addresses, and the blocks *)
(* they are of are counted.                                                 *)

Without(f, x) == [y \in DOMAIN f \ {x} |-> f[y]]
With(f, x, v) == [y \in DOMAIN f \cup {x} |-> IF y = x THEN v ELSE f[y]]

Prefixes(a) == {SubSeq(a, 1, n) : n \in 1 .. DigitCount}
IsPrefix(p, q) == Len(p) <= Len(q) /\ SubSeq(q, 1, Len(p)) = p

Counterpart(e) == IF view = "following" THEN e.other ELSE e.account

\* The leaf goes, and every node above it that leads nowhere else.
Prune(index, a) ==
    index \ {p \in Prefixes(a) :
                \A q \in index : IsPrefix(p, q) => q \in Prefixes(a)}

releaseIdentity(blocks, b) ==
    IF blocks[b] = 1 THEN Without(blocks, b) ELSE [blocks EXCEPT ![b] = @ - 1]

retainIdentity(blocks, b) ==
    IF b \in DOMAIN blocks THEN [blocks EXCEPT ![b] = @ + 1] ELSE With(blocks, b, 1)

releaseRelationship(k, a) ==
    IF a \notin DOMAIN k.entries THEN k
    ELSE [k EXCEPT !.entries = Without(@, a),
                   !.index = Prune(@, a),
                   !.blocks = releaseIdentity(@, BlockNumber(k.entries[a]))]

retainRelationship(k, a, i) ==
    [k EXCEPT !.entries = With(@, a, i),
              !.index = @ \cup Prefixes(a),
              !.blocks = retainIdentity(@, BlockNumber(i))]

FoldRelation(k, i) ==
    LET a == Counterpart(Event(i))
        released == releaseRelationship(k, a)
    IN  IF Event(i).on THEN retainRelationship(released, a, i) ELSE released

Children(index, p) ==
    {q \in index : Len(q) = Len(p) + 1 /\ IsPrefix(p, q)}

LowestDigit(nodes) ==
    CHOOSE p \in nodes : \A q \in nodes : p[Len(p)] <= q[Len(q)]

\* The lowest address below a node.
findFirstIndexed(index, node) ==
    LET down[n \in 0 .. DigitCount] ==
            IF n <= Len(node) THEN node
            ELSE IF Children(index, down[n - 1]) = {} THEN None
            ELSE LowestDigit(Children(index, down[n - 1]))
    IN  down[DigitCount]

\* Later siblings of an address's node of length n, its own path aside.
LaterSiblings(index, a, n) ==
    {p \in Children(index, SubSeq(a, 1, n - 1)) : p[n] > a[n]}

\* Mutant: a sibling as far up as possible.
FarthestIndexed(index, a) ==
    LET depths == {n \in 1 .. DigitCount : LaterSiblings(index, a, n) # {}}
    IN  IF depths = {} THEN None
        ELSE findFirstIndexed(index, LowestDigit(LaterSiblings(index, a, Min(depths))))

\* The next address: below a later sibling as far down as possible.
findNextIndexed(index, a) ==
    LET depths == {n \in 1 .. DigitCount : LaterSiblings(index, a, n) # {}}
    IN  IF depths = {} THEN None
        ELSE findFirstIndexed(index, LowestDigit(LaterSiblings(index, a, Max(depths))))

\* readRelationships, readMembers: a page, and where the next one starts.
ReadPage(after) ==
    LET index == kept.index
        start == IF after # None THEN findNextIndexed(index, after)
                 ELSE IF index = {} THEN None ELSE findFirstIndexed(index, <<>>)
        key[n \in 0 .. ReadLimit] ==
            IF n = 0 THEN start
            ELSE IF key[n - 1] = None THEN None
            ELSE findNextIndexed(index, key[n - 1])
    IN  [entries |-> {key[n] : n \in 0 .. ReadLimit - 1} \ {None},
         nextAfter |-> IF key[ReadLimit] = None THEN None ELSE key[ReadLimit - 1]]

-----------------------------------------------------------------------------
(* Profiles: the latest of each tracked account.                            *)

FoldProfile(k, i) ==
    IF Event(i).account \in TrackedAccounts
    THEN [k EXCEPT !.entries = With(@, Event(i).account, i)]
    ELSE k

(* Comments: every one of the tracked posts, in order.                      *)

\* Mutant: comments on other posts are not counted.
FoldTrackedComment(k, i) ==
    LET post == Event(i).post
        before == IF post \in DOMAIN k.entries THEN k.entries[post] ELSE <<>>
    IN  IF post \in TrackedPosts
        THEN [k EXCEPT !.count = @ + 1,
                       !.entries = With(@, post, Append(before, i))]
        ELSE k

FoldComment(k, i) ==
    LET post == Event(i).post
        before == IF post \in DOMAIN k.entries THEN k.entries[post] ELSE <<>>
        counted == [k EXCEPT !.count = @ + 1]
    IN  IF post \in TrackedPosts
        THEN [counted EXCEPT !.entries = With(@, post, Append(before, i))]
        ELSE counted

(* Reactions: who likes a post, how many do, and how often it was reposted. *)

CountOf(counts, post) == IF post \in DOMAIN counts THEN counts[post] ELSE 0
WithCount(counts, post, n) ==
    IF n = 0 THEN Without(counts, post) ELSE With(counts, post, n)

\* Mutant: every signal counts.
FoldEveryLike(k, i) ==
    LET e == Event(i)
        like == <<e.post, e.account>>
        n == CountOf(k.likes, e.post)
    IN  [k EXCEPT !.active = IF e.on THEN @ \cup {like} ELSE @ \ {like},
                  !.likes = WithCount(@, e.post, IF e.on THEN n + 1 ELSE n - 1),
                  !.hashes = @ \cup {e.block}]

FoldLike(k, i) ==
    LET e == Event(i)
        like == <<e.post, e.account>>
        n == CountOf(k.likes, e.post)
        changed == e.on # (like \in k.active)
    IN  [k EXCEPT !.active = IF e.on THEN @ \cup {like} ELSE @ \ {like},
                  !.likes = WithCount(@, e.post, IF ~ changed THEN n
                                                 ELSE IF e.on THEN n + 1 ELSE n - 1),
                  !.hashes = @ \cup {e.block}]

FoldRepost(k, i) ==
    LET e == Event(i)
    IN  [k EXCEPT !.reposts = With(@, e.post, CountOf(@, e.post) + 1),
                  !.hashes = @ \cup {e.block}]

Fold(s, k, i) ==
    CASE Relational -> FoldRelation(k, i)
      [] view = "profiles" -> FoldProfile(k, i)
      [] view = "comments" -> FoldComment(k, i)
      [] view = "reactions" -> IF s = "likes" THEN FoldLike(k, i) ELSE FoldRepost(k, i)

-----------------------------------------------------------------------------
(* Pages.                                                                   *)

Page(s, to) == {i \in Through(s, to) : BlockNumber(i) >= next[s]}

\* getBoundary: the later of what was applied and what was confirmed.
Boundary(s) ==
    IF confirmed >= BlockNumber(last[s]) THEN confirmed ELSE BlockNumber(last[s])

\* decodePage, and what a projection asks of a page before it changes.
Acceptable(s, page) ==
    /\ \A i \in page : BlockNumber(i) > Boundary(s) /\ Decodes(Event(i))
    /\ view = "comments" =>
          \A i \in page :
              Event(i).id = kept.count + Cardinality({j \in page : j <= i})

\* The page's events in order, each folded into what the ones before it left.
AfterPage(s, page) ==
    LET folded[i \in 0 .. Len(events)] ==
            IF i = 0 THEN kept
            ELSE IF i \in page THEN Fold(s, folded[i - 1], i) ELSE folded[i - 1]
    IN  folded[Len(events)]

\* It is this stream's turn: likes are scanned before reposts.
Scanning(s) ==
    /\ anchor # NotYet
    /\ next[s] <= anchor
    /\ s = "reposts" => next["likes"] > anchor

applyLogs(s) ==
    /\ Scanning(s)
    /\ \E to \in next[s] .. anchor :
         LET page == Page(s, to)
         IN  /\ Acceptable(s, page)
             /\ kept' = AfterPage(s, page)
             /\ last' = IF page = {} THEN last ELSE [last EXCEPT ![s] = Max(page)]
             /\ next' = [next EXCEPT ![s] = to + 1]
             /\ confirmed' = IF view = "comments" /\ page # {} THEN NotYet ELSE confirmed
    /\ UNCHANGED <<contractVars, view, anchor>>

\* What is asked of a confirmation.
Confirmable(n) ==
    /\ n >= confirmed
    /\ \A s \in Stream : BlockNumber(last[s]) <= n

Scanned == anchor # NotYet /\ \A s \in Stream : next[s] > anchor

confirmThrough ==
    /\ Scanned
    /\ Confirmable(anchor)
    /\ confirmed' = anchor
    /\ anchor' = NotYet
    /\ UNCHANGED <<contractVars, view, next, last, kept>>

-----------------------------------------------------------------------------
(* Snapshots.                                                               *)

Lower(m, n) == IF m < n THEN m ELSE n
Higher(m, n) == IF m > n THEN m ELSE n

\* getFrontierStart: both streams have come this far.
FrontierStart == Lower(Boundary("likes"), Boundary("reposts"))
FrontierEnd == Higher(Boundary("likes"), Boundary("reposts"))

\* The getter of a snapshot forgets the blocks both streams have passed.
Snapshot ==
    IF view = "reactions"
    THEN [kept EXCEPT !.hashes = {b \in @ : b > FrontierStart}]
    ELSE kept

\* normalizeSnapshot of profile-projection.ts
ProfileSnapshotAccepted(k) ==
    /\ DOMAIN k.entries \subseteq TrackedAccounts
    /\ \A a \in DOMAIN k.entries : k.entries[a] <= last["events"]

\* normalizeSnapshot of post-comment-projection.ts
CommentSnapshotAccepted(k) ==
    LET latest == last["events"]
        comments == UNION {{k.entries[p][n] : n \in 1 .. Len(k.entries[p])} :
                               p \in DOMAIN k.entries}
    IN  /\ DOMAIN k.entries \subseteq TrackedPosts
        /\ Cardinality(comments) <= k.count
        /\ (k.count = 0) = (latest = NotYet)
        /\ \A i \in comments :
              /\ Event(i).id <= k.count
              /\ i <= latest
              /\ (Event(i).id = k.count) = (i = latest)
        /\ confirmed # NotYet => BlockNumber(latest) <= confirmed

\* normalizeSnapshot of post-reaction-projection.ts
ReactionSnapshotAccepted(k) ==
    /\ k.active # {} => last["likes"] # NotYet
    /\ (DOMAIN k.reposts # {}) = (last["reposts"] # NotYet)
    /\ \A p \in DOMAIN k.reposts : k.reposts[p] > 0
    /\ \A b \in k.hashes : FrontierStart < b /\ b <= FrontierEnd
    /\ FrontierStart < FrontierEnd => FrontierEnd \in k.hashes

SnapshotAccepted(k) ==
    CASE view = "profiles" -> ProfileSnapshotAccepted(k)
      [] view = "comments" -> CommentSnapshotAccepted(k)
      [] view = "reactions" -> ReactionSnapshotAccepted(k)

\* fromSnapshot: the counts of likes are counted anew.
FromSnapshot(k) ==
    LET posts == {like[1] : like \in k.active}
    IN  IF view = "reactions"
        THEN [k EXCEPT !.likes = [p \in posts |->
                  Cardinality({like \in k.active : like[1] = p})]]
        ELSE k

-----------------------------------------------------------------------------

\* synchronize decodes what a range brought before it is stored, and throws if
\* one event does not decode.
LetThrough(n) == \A s \in Stream : \A i \in Through(s, n) : Decodes(Event(i))

\* A run is opened at the newest complete block the streams have reached: on a
\* new projection, or on the snapshot of a confirmed one.
Open ==
    /\ view # "contract"
    /\ anchor = NotYet
    /\ confirmed < block - 1
    /\ LetThrough(block - 1)
    /\ \/ /\ confirmed = NotYet
          /\ kept' = kept
       \/ /\ confirmed # NotYet
          /\ Resumable
          /\ SnapshotAccepted(Snapshot)
          /\ kept' = FromSnapshot(Snapshot)
    /\ anchor' = block - 1
    /\ UNCHANGED <<contractVars, view, next, last, confirmed>>

\* reset, or a projection of its own for the next run.
Reset ==
    /\ <<kept, confirmed, anchor>> # <<Nothing, NotYet, NotYet>>
    /\ anchor' = NotYet
    /\ next' = [s \in Stream |-> 1]
    /\ last' = [s \in Stream |-> NotYet]
    /\ confirmed' = NotYet
    /\ kept' = Nothing
    /\ UNCHANGED <<contractVars, view>>

\* The calls that matter to the projection in use.
Matters(e) ==
    \/ view = "contract"
    \/ \E s \in Stream : InScope(s, e)
    \/ view \in {"comments", "reactions"} /\ e.event = "PostPublished" /\ e.id <= 2
    \/ view = "members" /\ e.event = "GroupCreated" /\ e.id = 1

\* What is called during a scan is in blocks beyond its anchor: the contract
\* moves between the scans.
ContractStep ==
    /\ anchor = NotYet
    /\ \/ /\ Len(events) < Input[view].maxEvents
          /\ Call(Input[view])
          /\ Matters(events'[Len(events')])
       \/ block < Input[view].maxBlock /\ MineBlock
    /\ UNCHANGED <<view, projectionVars>>

Next ==
    \/ ContractStep
    \/ Open
    \/ \E s \in Stream : applyLogs(s)
    \/ confirmThrough
    \/ Reset

Spec == Init /\ [][Next]_vars

-----------------------------------------------------------------------------
(* Properties.                                                              *)

\* The latest signal of an event's kind by the same subject, among those a
\* stream has applied.
LatestOf(s, same(_)) ==
    LET those == {i \in Through(s, next[s] - 1) : same(Event(i))}
    IN  IF those = {} THEN NotYet ELSE Max(those)

RelationsCurrent ==
    LET latest(a) == LatestOf("events", LAMBDA e : Counterpart(e) = a)
        on == {a \in Account : latest(a) # NotYet /\ Event(latest(a)).on}
    IN  /\ kept.entries = [a \in on |-> latest(a)]
        /\ kept.index = UNION {Prefixes(a) : a \in on}
        /\ kept.blocks = [b \in {BlockNumber(latest(a)) : a \in on} |->
                             Cardinality({a \in on : BlockNumber(latest(a)) = b})]

ProfilesCurrent ==
    LET latest(a) == LatestOf("events", LAMBDA e : e.account = a)
    IN  kept.entries = [a \in {b \in TrackedAccounts : latest(b) # NotYet} |-> latest(a)]

CommentsCurrent ==
    \A post \in TrackedPosts :
        LET all == {i \in Through("events", next["events"] - 1) : Event(i).post = post}
            got == IF post \in DOMAIN kept.entries THEN kept.entries[post] ELSE <<>>
        IN  /\ {got[n] : n \in 1 .. Len(got)} = all
            /\ \A m, n \in 1 .. Len(got) : m < n => got[m] < got[n]

ReactionsCurrent ==
    \A post \in 1 .. issued["post"] :
        LET likes(a) == LatestOf("likes",
                            LAMBDA e : e.post = post /\ e.account = a)
            on == {a \in Account : likes(a) # NotYet /\ Event(likes(a)).on}
        IN  /\ {like[2] : like \in {l \in kept.active : l[1] = post}} = on
            /\ CountOf(kept.likes, post) = Cardinality(on)
            /\ CountOf(kept.reposts, post) =
                  Cardinality({i \in Through("reposts", next["reposts"] - 1) :
                                   Event(i).post = post})

\* At every page boundary, what was folded page by page, through unfollows,
\* repeated likes and snapshots taken up again, is what the events up to there
\* say at once: the latest signal of everyone, and every comment once.
ProjectionIsCurrent ==
    CASE Relational -> RelationsCurrent
      [] view = "profiles" -> ProfilesCurrent
      [] view = "comments" -> CommentsCurrent
      [] view = "reactions" -> ReactionsCurrent
      [] OTHER -> TRUE

\* No page of events its streams let through, no confirmation and no snapshot the
\* projection took of itself is ever refused: the checks against a damaged cache
\* do not hit a sound one, however the events are cut into pages and runs.
NeverRefused ==
    /\ \A s \in Stream : Scanning(s) =>
           \A to \in next[s] .. anchor : Acceptable(s, Page(s, to))
    /\ Scanned => Confirmable(anchor)
    /\ Resumable /\ anchor = NotYet /\ confirmed # NotYet => SnapshotAccepted(Snapshot)

\* The number an address is.
Number(a) ==
    LET value[n \in 0 .. DigitCount] == IF n = 0 THEN 0 ELSE 16 * value[n - 1] + a[n]
    IN  value[DigitCount]

\* From any place of the list, a read returns the next entries by address,
\* and says that there are more exactly when there are: reading page after
\* page shows everybody once.
ReadsInOrder ==
    Relational =>
        \A after \in {None} \cup DOMAIN kept.entries :
            LET rest == {a \in DOMAIN kept.entries :
                            after = None \/ Number(a) > Number(after)}
                page == ReadPage(after)
            IN  /\ page.entries = {a \in rest :
                       Cardinality({b \in rest : Number(b) < Number(a)}) < ReadLimit}
                /\ (page.nextAfter = None) = (Cardinality(rest) <= ReadLimit)
                /\ page.nextAfter # None =>
                      \A a \in page.entries : Number(a) <= Number(page.nextAfter)
=============================================================================
