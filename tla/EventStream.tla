----------------------------- MODULE EventStream -----------------------------
(***************************************************************************)
(* The event streams: follow-stream.ts, profile-stream.ts,                 *)
(* post-comment-stream.ts, post-reaction-stream.ts,                        *)
(* group-membership-stream.ts, group-message-stream.ts,                    *)
(* direct-message-stream.ts, group-directory.ts and post-feed.ts.          *)
(*                                                                         *)
(* A synchronization is a list of awaited steps.  What a step does is the  *)
(* same in every stream; which steps a stream takes, and in which order,   *)
(* is what differs, so a stream is the sequence of its steps and there is  *)
(* one action per kind of step.  A state lies between two awaits.          *)
(*                                                                         *)
(* What the steps rely on is checked elsewhere: a boundary is what         *)
(* ProtocolHistory returns, a result one of SyncResults, and a             *)
(* method of the cache is one step (EventCache).  Reads of eth_chainId are *)
(* left out: a wallet on another chain can only make a step fail, and      *)
(* every step may fail.                                                    *)
(***************************************************************************)
EXTENDS Cursors, Sequences

CONSTANTS
    Stream,         \* the streams a behaviour may be about
    Deployed,       \* the blocks at whose end the contract has its code
    TopicOf,        \* which of the two reactions an event is
    LogIndex,       \* the position of an event in its block
    FinalityDepth,  \* POST_FEED_CONFIRMATION_DEPTH
    PageSize,       \* the limit of readLatest
    Withholding,    \* the streams whose endpoint may leave events out
    MaxRevision,    \* bound: the revision a scope of a stream may reach
    MaxGeneration,  \* bound: how often a scope is made anew
    MaxLag          \* bound: how far the endpoint's head lags

ASSUME StreamAssumption ==
    /\ Stream \subseteq {"posts", "follows", "profiles", "comments", "members",
                         "messages", "conversations", "groups", "reactions"}
    /\ \A b \in Block : IsFiniteSet(LogsThrough(b, 0, Height[b]))
    /\ Deployed \subseteq Block
    /\ \A b \in Deployed : \A c \in Block : b \in Ancestors[c] => c \in Deployed
    /\ \A l \in Log : BlockOf[l] \in Deployed
    /\ LogIndex \in [Log -> Nat]
    /\ \A l, m \in Log :
          BlockOf[l] = BlockOf[m] /\ LogIndex[l] = LogIndex[m] => l = m
    /\ FinalityDepth \in Nat
    /\ PageSize \in Nat \ {0}
    /\ MaxRevision \in [Stream -> Nat]
    /\ MaxGeneration \in Nat
    /\ MaxLag \in Nat

VARIABLES
    stream,   \* the stream in use
    scopes,   \* [Topic \X Start -> the scope's cache, shared by all tabs]
    call,     \* the synchronization in progress
    shown,    \* the snapshot the last one returned, if any
    auth      \* the authentication of that snapshot's projection anchor

vars == <<chainVars, stream, scopes, call, shown, auth>>

-----------------------------------------------------------------------------
(* The streams.                                                             *)

\* Mutant: what was found is stored whatever became of the history anchor.
UnanchoredScan == <<"read", "sync", "apply", "reread">>

\* Reading the scope, one range of the chain, and storing what it found.
Scan == <<"read", "sync", "anchor", "apply", "reread">>
\* The same, but a changed history anchor starts over once.
RetriedScan == <<"read", "sync", "anchorOrRetry", "apply", "reread">>
\* Mutant: once is enough.
VerifiedOnce == <<"canonical", "head">>

\* The newest checkpoint on both sides of the head.
Verified == <<"canonical", "head", "canonical">>

PostFeedSync == <<"boundary">> \o RetriedScan
PostFeedVerify == Verified \o <<"show">>

FollowSync == <<"boundary">> \o RetriedScan
FollowVerify == Verified \o <<"issue">>

ProfileSync == <<"boundary">> \o RetriedScan
ProfileVerify == Verified \o <<"issue">>

PostCommentSync == <<"boundary">> \o RetriedScan
PostCommentVerify == Verified \o <<"issue">>

GroupMembershipSync == <<"boundaryOrPending">> \o Scan
GroupMembershipVerify == Verified \o <<"issue">>

GroupMessageSync == <<"boundaryOrPending">> \o Scan
GroupMessageVerify == Verified \o <<"showAtSafeHead">>

DirectMessageSync == <<"boundary">> \o Scan
DirectMessageVerify == Verified \o <<"showAtSafeHead">>

\* Mutant: the count is compared before the checkpoint is read again.
CountBeforeCheckpoint == <<"canonical", "head", "count", "showCounted">>

GroupDirectorySync == <<"boundaryOrPending">> \o Scan
GroupDirectoryVerify == <<"canonical", "head", "count", "canonical", "showCounted">>

\* synchronizeStream, for likes and for reposts: each is verified on its own.
ReactionScan == Scan \o <<"canonicalOne", "headOne", "canonicalOne">>

PostReactionSync == <<"boundary">> \o ReactionScan \o ReactionScan
PostReactionVerify == Verified \o <<"issue">>

Steps ==
    CASE stream = "posts" -> PostFeedSync \o PostFeedVerify
      [] stream = "follows" -> FollowSync \o FollowVerify
      [] stream = "profiles" -> ProfileSync \o ProfileVerify
      [] stream = "comments" -> PostCommentSync \o PostCommentVerify
      [] stream = "members" -> GroupMembershipSync \o GroupMembershipVerify
      [] stream = "messages" -> GroupMessageSync \o GroupMessageVerify
      [] stream = "conversations" -> DirectMessageSync \o DirectMessageVerify
      [] stream = "groups" -> GroupDirectorySync \o GroupDirectoryVerify
      [] stream = "reactions" -> PostReactionSync \o PostReactionVerify

Topics == IF stream = "reactions" THEN {"likes", "reposts"} ELSE {"events"}

Matching(topic) ==
    IF topic = "events" THEN Log ELSE {l \in Log : TopicOf[l] = topic}

\* Mutant: the checkpoint is not read again.
CacheLast == <<"canonical", "head", "cache">>

\* assertIssued... and the issued anchors' authentication.
FollowAuthentication ==
    <<"canonical", "head", "cache", "canonical", "head", "canonical">>
GroupMembershipAuthentication ==
    <<"canonical", "head", "cache", "canonical", "head", "canonical">>
PostReactionAuthentication ==
    <<"canonical", "head", "cache", "canonical", "head", "canonical">>
ProfileAuthentication == <<"canonical", "head", "cache", "canonical">>
PostCommentAuthentication == <<"canonical", "head", "cache", "canonical">>

AuthenticationSteps ==
    CASE stream = "follows" -> FollowAuthentication
      [] stream = "members" -> GroupMembershipAuthentication
      [] stream = "reactions" -> PostReactionAuthentication
      [] stream = "profiles" -> ProfileAuthentication
      [] stream = "comments" -> PostCommentAuthentication
      [] OTHER -> <<>>

-----------------------------------------------------------------------------
(* Cursors of a scope with start block s.                                   *)

Start == {Height[b] : b \in Block} \cup {1 + Height[b] : b \in Block}
Topic == {"events", "likes", "reposts"}

NewestOf(cps) == {c \in cps : \A d \in cps : Height[d] <= Height[c]}

IndexedThrough(s, cps) ==
    IF cps = {} THEN Undefined ELSE NextAfter(s, cps) - 1

SafeHead(h) ==
    IF Height[h] >= FinalityDepth THEN Height[h] - FinalityDepth ELSE Undefined

\* The head is far enough beyond what was indexed.
Behind(h, through) ==
    through = Undefined \/ Height[h] - through >= FinalityDepth

EmptyScope(generation, revision) ==
    [generation |-> generation, revision |-> revision,
     checkpoints |-> {}, logs |-> {}]

Idle ==
    [step |-> 0, topic |-> "none", boundary |-> {}, start |-> 0,
     retried |-> FALSE, before |-> {}, result |-> {}, held |-> <<>>,
     heads |-> {}, counted |-> 0, discarding |-> "nothing"]

Begun == [Idle EXCEPT !.step = 1]

NotAuthenticating == [step |-> 0, met |-> FALSE, done |-> FALSE]

Init ==
    /\ ChainInit
    /\ stream \in Stream
    /\ scopes = [k \in Topic \X Start |-> EmptyScope(0, 0)]
    /\ call = Begun
    /\ shown = {}
    /\ auth = NotAuthenticating

-----------------------------------------------------------------------------
(* The steps of a synchronization.                                          *)

Doing(name) == call.step > 0 /\ call.discarding = "nothing" /\ Steps[call.step] = name

Onward(c) == [c EXCEPT !.step = @ + 1]

\* Only the call has moved.
Goes(c) ==
    /\ call' = c
    /\ UNCHANGED <<chainVars, stream, scopes, shown, auth>>

\* The scope of a topic holds something else.
Stores(topic, scope) ==
    /\ scopes' = [scopes EXCEPT ![<<topic, call.start>>] = scope]
    /\ UNCHANGED <<chainVars, stream, shown, auth>>

\* A step fails: the provider, the database, the chain or a check of its own.
Fail ==
    /\ call.step > 0
    /\ Goes(Idle)

Deployment(h) == CHOOSE d \in Ancestors[h] \cap Deployed :
                     \A e \in Ancestors[h] \cap Deployed : Height[d] <= Height[e]

StartOf(h) ==
    LET confirmed == Height[h] - FinalityDepth
        deployed == Height[Deployment(h)]
    IN  IF deployed <= confirmed THEN deployed
        ELSE IF confirmed < 0 THEN 0 ELSE confirmed + 1

Pending(h) == Height[Deployment(h)] > Height[h] - FinalityDepth

\* A block the endpoint calls the newest.
Announced(h) == Canonical(h) /\ Height[h] >= Height[head] - MaxLag

\* resolveProtocolHistoryBoundary: a start block and the head that commits to
\* it, or the whole chain when the endpoint has no history.  Some streams
\* end here while the deployment is not confirmed.
ResolveBoundary ==
    /\ Doing("boundary") \/ Doing("boundaryOrPending")
    /\ \/ Goes(Onward([call EXCEPT !.start = 0, !.boundary = {}]))
       \/ \E h \in Deployed :
            /\ Announced(h)
            /\ IF Pending(h) /\ Doing("boundaryOrPending")
               THEN Goes(Idle)
               ELSE Goes(Onward([call EXCEPT !.start = StartOf(h), !.boundary = {h}]))

\* The order of the events of a branch.
Earlier(l, m) ==
    \/ Height[BlockOf[l]] < Height[BlockOf[m]]
    \/ BlockOf[l] = BlockOf[m] /\ LogIndex[l] < LogIndex[m]

\* The identifier createGroup gave the group of an event.
GroupId(l) ==
    Cardinality({m \in Log : BlockOf[m] \in Ancestors[BlockOf[l]] /\ ~ Earlier(l, m)})

\* The n newest events of a set.
Recent(ls, n) == {l \in ls : Cardinality({m \in ls : Earlier(l, m)}) < n}

\* Identifiers that end at the number of events, without a gap.
Contiguous(page, count) ==
    {GroupId(l) : l \in page} = count - Cardinality(page) + 1 .. count

RecentGroupSequence(ls) == Contiguous(Recent(ls, PageSize), Cardinality(ls))
FreshGroupSequence(fresh, ls) == Contiguous(fresh, Cardinality(ls))

NextTopic ==
    CHOOSE t \in Topics \ DOMAIN call.held :
        t = "reposts" => "likes" \in DOMAIN call.held

ReadScope ==
    /\ Doing("read")
    /\ LET scope == scopes[<<NextTopic, call.start>>]
       IN  IF stream = "groups" /\ ~ RecentGroupSequence(scope.logs)
           THEN Goes([call EXCEPT !.topic = NextTopic, !.before = {scope},
                                  !.discarding = "recent"])
           ELSE Goes(Onward([call EXCEPT !.topic = NextTopic, !.before = {scope}]))

\* What an endpoint makes of the events of a range.
Answered(ls) ==
    LET matching == ls \cap Matching(call.topic)
    IN  IF stream \in Withholding THEN SUBSET matching ELSE {matching}

\* A range ends FinalityDepth below a head the indexer has seen.
Confirmed(b) ==
    \E h \in EverCanonical : b \in Ancestors[h] /\ Height[h] - Height[b] >= FinalityDepth

\* One range for a scope with these checkpoints.
Results(s, cps) ==
    {r \in SyncResults(s, cps) : \A c \in r.checkpoints \ cps : Confirmed(c)}

SyncLogs ==
    /\ Doing("sync")
    /\ \E s \in Start, b \in call.before :
         /\ s = call.start
         /\ \E r \in Results(s, b.checkpoints) :
            \E ls \in Answered(r.logs) :
               Goes(Onward([call EXCEPT !.result = {[r EXCEPT !.logs = ls]}]))

\* protocolHistoryAnchorIsCanonical; with no anchor there is nothing to ask.
CheckHistoryAnchor ==
    \/ /\ Doing("anchor") \/ Doing("anchorOrRetry")
       /\ \A h \in call.boundary : Canonical(h)
       /\ Goes(Onward(call))
    \/ /\ Doing("anchorOrRetry")
       /\ ~ call.retried
       /\ \E h \in call.boundary : ~ Canonical(h)
       /\ Goes([Begun EXCEPT !.retried = TRUE])

SamePosition(scope, other) ==
    /\ scope.generation = other.generation
    /\ scope.revision = other.revision
    /\ scope.checkpoints = other.checkpoints

AfterSync(scope, r) ==
    [scope EXCEPT !.revision = @ + 1, !.checkpoints = r.checkpoints,
                  !.logs = Merged(@, r.rollbackTo, r.logs)]

ApplyResult ==
    /\ Doing("apply")
    /\ \E b \in call.before, r \in call.result :
         LET scope == scopes[<<call.topic, call.start>>]
         IN  /\ SamePosition(scope, b)
             /\ scope.revision < MaxRevision[stream]
             /\ Stores(call.topic, AfterSync(scope, r))
    /\ call' = Onward(call)

\* The scope is read again and has to be what this call made of it.
RereadScope ==
    /\ Doing("reread")
    /\ \E b \in call.before, r \in call.result :
         LET scope == scopes[<<call.topic, call.start>>]
             held == [t \in DOMAIN call.held \cup {call.topic} |->
                        IF t = call.topic THEN scope ELSE call.held[t]]
             read == [call EXCEPT !.held = held]
         IN  /\ SamePosition(scope, [b EXCEPT !.revision = @ + 1,
                                              !.checkpoints = r.checkpoints])
             /\ IF /\ stream = "groups"
                   /\ \/ ~ FreshGroupSequence(r.logs, scope.logs)
                      \/ ~ RecentGroupSequence(scope.logs)
                THEN Goes([read EXCEPT !.discarding = "held"])
                ELSE Goes(Onward(read))

NewestHeld(held) == UNION {NewestOf(held[t].checkpoints) : t \in DOMAIN held}

\* assertCanonicalCheckpoint
CheckCanonical ==
    \/ /\ Doing("canonical")
       /\ \A c \in NewestHeld(call.held) : Canonical(c)
       /\ Goes(Onward(call))
    \/ /\ Doing("canonicalOne")
       /\ \A c \in NewestOf(call.held[call.topic].checkpoints) : Canonical(c)
       /\ Goes(Onward(call))

\* readSelectedHead, and the head against what was indexed.
ReadHead ==
    \E h \in Block :
        /\ Announced(h)
        /\ \/ /\ Doing("head")
              /\ \A t \in DOMAIN call.held :
                    Behind(h, IndexedThrough(call.start, call.held[t].checkpoints))
              /\ Goes(Onward([call EXCEPT !.heads = {h}]))
           \/ /\ Doing("headOne")
              /\ Behind(h, IndexedThrough(call.start,
                                          call.held[call.topic].checkpoints))
              /\ Goes(Onward(call))

\* These streams take a head too low to confirm anything for not caught up,
\* and have asked before whether the deployment is confirmed.
NeedsSafeHead == stream \in {"members", "messages", "groups"}

CaughtUp(held, start, h) ==
    IF SafeHead(h) = Undefined THEN ~ NeedsSafeHead
    ELSE /\ NeedsSafeHead \/ start <= SafeHead(h)
         /\ \A t \in DOMAIN held :
                NextAfter(start, held[t].checkpoints) > SafeHead(h)

\* nextGroupId at the confirmed block, by its number.
CountGroups ==
    /\ Doing("count")
    /\ \E h \in call.heads :
         \/ /\ ~ CaughtUp(call.held, call.start, h)
            /\ Goes(Onward(call))
         \/ /\ CaughtUp(call.held, call.start, h)
            /\ \E b \in Block :
                 /\ BlockAt(SafeHead(h), b)
                 /\ Goes(Onward([call EXCEPT !.counted =
                        1 + Cardinality(LogsThrough(b, 0, Height[b]))]))

\* All newest checkpoints are the one block at the safe head.
AtSafeHead(held, h) ==
    SafeHead(h) # Undefined =>
        \E c \in Block : /\ Height[c] = SafeHead(h)
                         /\ \A t \in DOMAIN held : NewestOf(held[t].checkpoints) = {c}

Issuing == stream \in {"follows", "profiles", "comments", "members", "reactions"}

\* The snapshot is returned, with a projection anchor if it is caught up.
Finish ==
    /\ \E name \in {"show", "showAtSafeHead", "showCounted", "issue"} :
       \E h \in call.heads :
         LET caughtUp == CaughtUp(call.held, call.start, h)
             counts == \A t \in DOMAIN call.held :
                           call.counted = Cardinality(call.held[t].logs) + 1
         IN  /\ Doing(name)
             /\ (caughtUp /\ name # "show") => AtSafeHead(call.held, h)
             /\ IF name = "showCounted" /\ caughtUp /\ ~ counts
                THEN /\ call' = [call EXCEPT !.discarding = "held"]
                     /\ shown' = shown
                ELSE /\ call' = Idle
                     /\ shown' = {[start |-> call.start, held |-> call.held,
                                   head |-> h, caughtUp |-> caughtUp,
                                   issued |-> caughtUp /\ Issuing]}
    /\ UNCHANGED <<chainVars, stream, scopes, auth>>

Cleared(scope) == EmptyScope(scope.generation, scope.revision + 1)

\* The group directory clears a scope whose identifiers have a gap, and reads
\* it again or gives up.
ClearScope ==
    /\ call.discarding # "nothing"
    /\ scopes[<<call.topic, call.start>>].revision < MaxRevision[stream]
    /\ Stores(call.topic, Cleared(scopes[<<call.topic, call.start>>]))
    /\ call' = IF call.discarding = "recent"
               THEN [call EXCEPT !.discarding = "nothing", !.before = {}]
               ELSE Idle

-----------------------------------------------------------------------------
(* authenticateIssued...ProjectionAnchor                                    *)

Authenticating(name) == auth.step > 0 /\ AuthenticationSteps[auth.step] = name

Proceeds(a) ==
    /\ auth' = IF auth.step = Len(AuthenticationSteps)
               THEN [a EXCEPT !.step = 0, !.done = TRUE]
               ELSE [a EXCEPT !.step = @ + 1]
    /\ UNCHANGED <<chainVars, stream, scopes, call, shown>>

Authenticate ==
    /\ call = Idle
    /\ auth.step = 0
    /\ \E s \in shown : s.issued
    /\ auth' = [NotAuthenticating EXCEPT !.step = 1]
    /\ UNCHANGED <<chainVars, stream, scopes, call, shown>>

\* The blocks whose hashes the anchor was issued for.
IssuedCheckpoints == UNION {NewestHeld(s.held) : s \in shown}

AuthenticateCheckpoint ==
    /\ Authenticating("canonical")
    /\ \A c \in IssuedCheckpoints : Canonical(c)
    /\ Proceeds(auth)

AuthenticateHead ==
    /\ Authenticating("head")
    /\ \E h \in Block, s \in shown : Announced(h) /\ Height[h] >= Height[s.head]
    /\ Proceeds(auth)

\* authenticateBaselines: the scopes, in one transaction, stand where the
\* anchor does.
AuthenticateCache ==
    /\ Authenticating("cache")
    /\ \A s \in shown : \A t \in DOMAIN s.held :
          SamePosition(scopes[<<t, s.start>>], s.held[t])
    /\ Proceeds([auth EXCEPT !.met = \A c \in IssuedCheckpoints : Canonical(c)])

FailAuthentication ==
    /\ auth.step > 0
    /\ auth' = NotAuthenticating
    /\ UNCHANGED <<chainVars, stream, scopes, call, shown>>

-----------------------------------------------------------------------------
(* Everything else.                                                         *)

\* The start blocks somebody may still look at.
StartsInUse ==
    (IF call = Idle THEN {} ELSE {call.start}) \cup {s.start : s \in shown}

\* Another tab synchronizes, or resets, a scope; the browser evicts it.
OtherTab ==
    \E t \in Topics, s \in Start :
      /\ s \in StartsInUse
      /\ LET scope == scopes[<<t, s>>]
            Leaves(other) ==
                /\ scopes' = [scopes EXCEPT ![<<t, s>>] = other]
                /\ UNCHANGED <<chainVars, stream, call, shown, auth>>
        IN  \/ /\ scope.revision < MaxRevision[stream]
               /\ \/ Leaves(Cleared(scope))
                  \/ \E r \in Results(s, scope.checkpoints) :
                     LET ls == r.logs \cap Matching(t)
                     IN  Leaves([scope EXCEPT
                            !.revision = @ + 1, !.checkpoints = r.checkpoints,
                            !.logs = Merged(@, r.rollbackTo, ls)])
            \/ /\ scope.generation < MaxGeneration
               /\ Leaves(EmptyScope(scope.generation + 1, 0))

Reorganize ==
    /\ MoveHead
    /\ UNCHANGED <<stream, scopes, call, shown, auth>>

StreamNext ==
    \/ Fail \/ ResolveBoundary \/ ReadScope \/ SyncLogs
    \/ CheckHistoryAnchor \/ ApplyResult \/ RereadScope \/ CheckCanonical
    \/ ReadHead \/ CountGroups \/ Finish \/ ClearScope
    \/ Authenticate \/ AuthenticateCheckpoint \/ AuthenticateHead
    \/ AuthenticateCache \/ FailAuthentication
    \/ OtherTab \/ Reorganize

Spec == Init /\ [][StreamNext]_vars

-----------------------------------------------------------------------------
(* Properties.                                                              *)

\* A snapshot that is called caught up has every matching event in the
\* ancestry of its newest checkpoint, those below the start block included:
\* no event is lost because a boundary was found on a branch that a
\* reorganization replaced, and no group because an endpoint withheld it.
SnapshotIsWhole ==
    \A s \in shown : s.caughtUp =>
        \A t \in DOMAIN s.held :
            s.held[t].logs =
                UNION {LogsThrough(c, 0, Height[c]) \cap Matching(t) :
                           c \in NewestOf(s.held[t].checkpoints)}

\* The newest checkpoints of a snapshot are of the branch of the head it is
\* shown with, at least FinalityDepth below it: the checks before and after
\* the head was read leave no room for a reorganization between them.
SnapshotConfirmed ==
    \A s \in shown : \A c \in NewestHeld(s.held) :
        /\ c \in Ancestors[s.head]
        /\ Height[s.head] - Height[c] >= FinalityDepth

\* When an anchor was authenticated, its checkpoints were canonical at the very
\* moment the scopes stood at the anchor, not only before or after it.
AnchorAuthenticated == auth.done => auth.met

\* The group directory discards only a scope that misses an event: a count
\* that was read of another branch never costs a complete scope.
OnlyIncompleteDiscarded ==
    call.discarding # "nothing" =>
        \E scope \in (IF call.discarding = "recent" THEN call.before
                      ELSE {call.held[t] : t \in DOMAIN call.held}) :
            scope.logs # UNION {LogsThrough(c, 0, Height[c]) :
                                    c \in NewestOf(scope.checkpoints)}

=============================================================================
