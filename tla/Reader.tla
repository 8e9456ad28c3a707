------------------------------- MODULE Reader -------------------------------
(***************************************************************************)
(* A read model on a page: the hooks of follow-read-model.ts,              *)
(* group-membership-read-model.ts, profile-read-model.ts,                  *)
(* post-comment-read-model.ts and post-reaction-read-model.ts, the         *)
(* projection run that each of them drives (the projection-run.ts files)   *)
(* and the store of resumable progress (the resume-store.ts files).        *)
(*                                                                         *)
(* A call is a click on "load" or "advance" and everything it awaits; a    *)
(* superseded call goes on until it notices.  A state lies between two     *)
(* awaits, and an action is what follows an await, up to the next one.     *)
(*                                                                         *)
(* Other modules check what the awaited steps rely on: a scope of the      *)
(* cache holds what its checkpoints stand for (EventIndexer, EventCache),  *)
(* a result is one of SyncResults, an anchor is the position of the scopes *)
(* that a synchronization verified (EventStream), and a projection is the  *)
(* fold of the logs it was given (Projections), for which the set of those *)
(* logs stands here.                                                       *)
(***************************************************************************)
EXTENDS Cursors, Sequences, FiniteSetsExt, Functions

CONSTANTS
    Kind,          \* the read models a behaviour may be about
    Provider,      \* the wallet connections
    CallSlot,      \* names for the calls whose awaits are outstanding
    RunSlot,       \* names for the projection runs that are referred to
    StartBlock,    \* cursor.startBlock
    TopicOf,       \* which of the two reactions an event is
    PageSize,      \* the limit of a scan
    MaxCalls,      \* bound: the calls of a kind that may be outstanding
    MaxRevision,   \* bound: the revision a scope of a kind may reach
    MaxGeneration  \* bound: how often a scope is made anew

ASSUME ReaderAssumption ==
    /\ Kind \subseteq {"follows", "members", "profiles", "comments", "reactions"}
    /\ \A b \in Block : IsFiniteSet({l \in Log : BlockOf[l] = b})
    /\ StartBlock \in Nat
    /\ PageSize \in Nat \ {0}
    /\ CallSlot \subseteq Nat \ {0}
    /\ RunSlot \subseteq Nat \ {0}
    /\ MaxRevision \in [Kind -> Nat]
    /\ MaxCalls \in [Kind -> Nat]
    /\ MaxGeneration \in Nat
    /\ TopicOf \in [Log -> {"likes", "reposts"}]

VARIABLES
    kind,      \* the read model
    scopes,    \* [Topics -> position of the scope all tabs share]
    store,     \* the saved progress, if any
    session,   \* the connected provider, or "none"
    effect,    \* the session the hook's effect last ran for
    held,      \* activeProjection: a run, or NoRun
    ignoring,  \* ignoreSavedResume
    busy,      \* the hook's busy flag
    current,   \* the call whose requestId is requestSequence, or NoCall
    shown,     \* scopedState
    calls,     \* [CallSlot -> a call and what it awaits]
    runs       \* [RunSlot -> a projection run]

world == <<chainVars, kind, session, effect>>
hook == <<held, ignoring, busy, current, shown>>
readerVars == <<world, scopes, store, hook, calls, runs>>

NoRun == 0
NoCall == 0
Disconnected == "none"

-----------------------------------------------------------------------------
(* The kinds.                                                               *)

\* The phases of a run in which it scans; each names the scope it reads.
Phases == IF kind = "reactions" THEN <<"likes", "reposts">> ELSE <<"events">>
Topics == Range(Phases)
Topic == {"events", "likes", "reposts"}

\* loadNextRange, await by await.
FollowLoad == <<"synchronize", "open">>
GroupMembershipLoad == <<"synchronize", "open">>
ProfileLoad == <<"synchronize", "load", "open">>
PostCommentLoad == <<"synchronize", "posts", "load", "open">>
PostReactionLoad == <<"synchronize", "load", "open">>

Loading ==
    CASE kind = "follows" -> FollowLoad
      [] kind = "members" -> GroupMembershipLoad
      [] kind = "profiles" -> ProfileLoad
      [] kind = "comments" -> PostCommentLoad
      [] kind = "reactions" -> PostReactionLoad

\* advanceProjection: the awaits after its run is complete, and after its run
\* refused a corrupt cache.
FollowAdvance == [complete |-> <<>>, corrupt |-> <<"reset">>]
GroupMembershipAdvance == [complete |-> <<>>, corrupt |-> <<"reset">>]
ProfileAdvance == [complete |-> <<"save">>, corrupt |-> <<"reset", "forget">>]
PostCommentAdvance ==
    [complete |-> <<"save">>, corrupt |-> <<"reset", "forget">>]
PostReactionAdvance ==
    [complete |-> <<"save">>, corrupt |-> <<"reset", "forget">>]

Advancing ==
    CASE kind = "follows" -> FollowAdvance
      [] kind = "members" -> GroupMembershipAdvance
      [] kind = "profiles" -> ProfileAdvance
      [] kind = "comments" -> PostCommentAdvance
      [] kind = "reactions" -> PostReactionAdvance

\* What comes after an await.
NextOf(steps, step) ==
    steps[1 + CHOOSE i \in 1 .. Len(steps) - 1 : steps[i] = step]

\* authenticateBaseline of each run, await by await.
FollowAuthentication == <<"baselines", "issued", "again", "confirm">>
GroupMembershipAuthentication == <<"baselines", "issued", "again", "confirm">>
ProfileAuthentication == <<"baselines", "issued", "bind", "confirm">>
PostCommentAuthentication ==
    <<"baselines", "issued", "bind", "again", "confirm">>
PostReactionAuthentication ==
    <<"baselines", "issued", "bind", "bindReposts", "again", "confirm">>

Authentication ==
    CASE kind = "follows" -> FollowAuthentication
      [] kind = "members" -> GroupMembershipAuthentication
      [] kind = "profiles" -> ProfileAuthentication
      [] kind = "comments" -> PostCommentAuthentication
      [] kind = "reactions" -> PostReactionAuthentication

\* Mutant: the last await is trusted.
ReadsPhaseBeforeConfirm(step) == step # "confirm"

\* The run looks at its own phase again after this await.
ReadsPhase(step) == ~ (kind = "reactions" /\ step \in {"baselines", "again"})

-----------------------------------------------------------------------------
(* Scopes, pages and runs.                                                  *)

Position(generation, revision, cps) ==
    [generation |-> generation, revision |-> revision, checkpoints |-> cps]

Matching(topic) ==
    IF topic = "events" THEN Log ELSE {l \in Log : TopicOf[l] = topic}

\* What a scope that stands at a position holds.
Content(topic, position) ==
    Committed(StartBlock, position.checkpoints) \cap Matching(topic)

Whole(positions) ==
    UNION {Content(t, positions[t]) : t \in DOMAIN positions}

Unopened ==
    [phase |-> "unopened", open |-> FALSE, session |-> Disconnected,
     anchor |-> <<>>, folded |-> {}, baselines |-> {}, next |-> Undefined]

\* A run that ended forgets everything but how it ended.
Ended(run, phase) ==
    [Unopened EXCEPT !.phase = phase, !.session = run.session,
                     !.anchor = run.anchor]

IsScanning(run) == run.phase \in Topics
Unfinished(run) == IsScanning(run) \/ run.phase = "authenticate"

\* close()
ClosedRun(run) ==
    IF run.phase \in {"complete", "failed"}
    THEN [run EXCEPT !.open = FALSE]
    ELSE Ended(run, "closed")

\* #fail: a run that was closed meanwhile stays closed.
FailedRun(run) ==
    IF run.phase = "closed" THEN run ELSE Ended(run, "failed")

\* Nothing refers to the run any more.  A cache it left open stays open.
Released(run) == IF run.open THEN run ELSE Unopened

\* runs, after the hook has closed the run it holds and let go of it.
WithoutHeld ==
    IF held = NoRun THEN runs
    ELSE [runs EXCEPT ![held] = Released(ClosedRun(@))]

Quiet == [doing |-> "nothing", run |-> NoRun, anchor |-> <<>>, resume |-> {}]

-----------------------------------------------------------------------------
ReaderInit ==
    /\ ChainInit
    /\ kind \in Kind
    /\ scopes = [t \in Topics |-> Position(0, 0, {})]
    /\ store = {}
    /\ session = Disconnected
    /\ effect = Disconnected
    /\ held = NoRun
    /\ ignoring = FALSE
    /\ busy = FALSE
    /\ current = NoCall
    /\ shown = {}
    /\ calls = [c \in CallSlot |-> Quiet]
    /\ runs = [r \in RunSlot |-> Unopened]

-----------------------------------------------------------------------------
(* The hook.                                                                *)

\* The state a render shows: another context's counts as idle.
Visible == {s \in shown : s.session = session /\ session # Disconnected}

Awaits(c, doing) == calls' = [calls EXCEPT ![c].doing = doing]

Shows(phase) == shown' = {[phase |-> phase, session |-> effect,
                           through |-> <<>>, content |-> {}]}

\* Mutant: whoever ends clears the flag.
EndsAnyway(c) ==
    /\ calls' = [calls EXCEPT ![c] = Quiet]
    /\ busy' = FALSE
    /\ current' = IF current = c THEN NoCall ELSE current

\* finally: the flag is cleared by the call that still owns it.
Ends(c) ==
    /\ calls' = [calls EXCEPT ![c] = Quiet]
    /\ busy' = (busy /\ current # c)
    /\ current' = IF current = c THEN NoCall ELSE current

\* Mutant: a call counts as superseded when the effect has seen another
\* session, not when another call has begun.
OfOtherSession(c) == effect # session

\* requestSequence.current !== requestId
Superseded(c) == current # c

\* The call notices, and leaves everything as it is.
GivesUp(c) ==
    /\ Superseded(c)
    /\ Ends(c)
    /\ UNCHANGED <<held, shown, runs>>

\* The call's run failed or none was opened, and the page says so.
ShowsFailure(c) ==
    /\ ~ Superseded(c)
    /\ Shows("failed")
    /\ Ends(c)

\* Calls have no names; a click takes the first slot that is free.
NextCall(c) ==
    /\ calls[c] = Quiet
    /\ \A d \in CallSlot : calls[d] = Quiet => c <= d
    /\ Cardinality({d \in CallSlot : calls[d] # Quiet}) < MaxCalls[kind]

\* A click on "load".
Load(c) ==
    /\ NextCall(c)
    /\ session # Disconnected
    /\ effect = session
    /\ ~ busy
    /\ busy' = TRUE
    /\ current' = c
    /\ runs' = WithoutHeld
    /\ held' = NoRun
    /\ Shows("synchronizing")
    /\ calls' = [calls EXCEPT ![c] = [Quiet EXCEPT !.doing = "synchronize"]]
    /\ UNCHANGED <<world, scopes, store, ignoring>>

\* A click on "advance": advance() of the run that is held.
Advance(c) ==
    /\ NextCall(c)
    /\ effect = session
    /\ \E s \in Visible : s.phase = "projecting"
    /\ ~ busy
    /\ held # NoRun
    /\ busy' = TRUE
    /\ current' = c
    /\ calls' = [calls EXCEPT ![c] = [Quiet EXCEPT
          !.doing = IF IsScanning(runs[held]) THEN "scan" ELSE Authentication[1],
          !.run = held]]
    /\ UNCHANGED <<world, scopes, store, held, ignoring, shown, runs>>

\* The wallet connects, disconnects or becomes another: the next render.
Switch ==
    /\ \E s \in (Provider \cup {Disconnected}) \ {session} : session' = s
    /\ UNCHANGED <<chainVars, kind, effect, scopes, store, hook, calls, runs>>

\* The cleanup of the last effect and the effect of this render.
RunEffect ==
    /\ effect # session
    /\ effect' = session
    /\ current' = NoCall
    /\ busy' = FALSE
    /\ ignoring' = FALSE
    /\ held' = NoRun
    /\ shown' = {}
    /\ runs' = IF \E c \in CallSlot : calls[c].run = held /\ held # NoRun
               THEN [runs EXCEPT ![held] = ClosedRun(@)]
               ELSE WithoutHeld
    /\ UNCHANGED <<chainVars, kind, session, scopes, store, calls>>

-----------------------------------------------------------------------------
(* loadNextRange: synchronizing, the saved progress, opening a run.         *)

\* The scopes stand at the head, and an anchor comes with the stream.
CaughtUp ==
    \A t \in Topics : LET cps == scopes[t].checkpoints IN
        /\ scopes[t].revision > 0
        /\ NextAfter(StartBlock, cps) > Height[head]
        /\ cps # {} => Canonical(Newest(cps))

\* The saved progress is not read again once it was rejected.
AfterStep(step) ==
    LET next == NextOf(Loading, step)
    IN  IF next = "load" /\ ignoring THEN "open" ELSE next

\* synchronize
Synchronized(c) ==
    /\ calls[c].doing = "synchronize"
    /\ \/ GivesUp(c)
       \/ ShowsFailure(c) /\ UNCHANGED <<held, runs>>
       \/ /\ ~ Superseded(c)
          /\ Shows("catchup")
          /\ Ends(c)
          /\ UNCHANGED <<held, runs>>
       \/ /\ ~ Superseded(c)
          /\ CaughtUp
          /\ calls' = [calls EXCEPT ![c].anchor = scopes,
                                    ![c].doing = AfterStep("synchronize")]
          /\ UNCHANGED <<held, busy, current, shown, runs>>
    /\ UNCHANGED <<world, scopes, store, ignoring>>

\* synchronizePosts and assertAuthenticatedPostScope: the feed may show other
\* posts by now, or be behind.
PostsRead(c) ==
    /\ calls[c].doing = "posts"
    /\ \/ GivesUp(c)
       \/ ShowsFailure(c) /\ UNCHANGED <<held, runs>>
       \/ /\ ~ Superseded(c)
          /\ Awaits(c, AfterStep("posts"))
          /\ UNCHANGED <<held, busy, current, shown, runs>>
    /\ UNCHANGED <<world, scopes, store, ignoring>>

\* resumeStore.load
ProgressLoaded(c) ==
    /\ calls[c].doing = "load"
    /\ \/ GivesUp(c)
       \/ /\ ~ Superseded(c)
          /\ calls' = [calls EXCEPT ![c].resume = store, ![c].doing = "open"]
          /\ UNCHANGED <<held, busy, current, shown, runs>>
       \/ /\ Awaits(c, "unload")
          /\ UNCHANGED <<held, busy, current, shown, runs>>
    /\ UNCHANGED <<world, scopes, store, ignoring>>

\* resumeStore.remove, which may fail.
MayRemove == store' \in {{}, store}

\* What was saved was unreadable, or did not match the cache.
ProgressRemoved(c) ==
    /\ calls[c].doing \in {"unload", "discard"}
    /\ MayRemove
    /\ \/ GivesUp(c) /\ UNCHANGED ignoring
       \/ /\ ~ Superseded(c)
          /\ ignoring' = TRUE
          /\ calls' = [calls EXCEPT ![c].resume = {}, ![c].doing = "open"]
          /\ UNCHANGED <<held, busy, current, shown, runs>>
    /\ UNCHANGED <<world, scopes>>

\* Where a baseline would be continued.
Extends(position, b) ==
    /\ b.generation = position.generation
    /\ b.revision <= position.revision
    /\ NextAfter(StartBlock, b.checkpoints) <= NextAfter(StartBlock, position.checkpoints)
    /\ b.revision = position.revision => b.checkpoints = position.checkpoints
    /\ b.checkpoints # {} => Newest(b.checkpoints) \in position.checkpoints

\* The number and the last position of the logs of one topic.
SameTail(topic, logs, content) ==
    LET mine == logs \cap Matching(topic)
        Heights(ls) == {Height[BlockOf[l]] : l \in ls}
        Last(hs) == {h \in hs : \A i \in hs : i <= h}
    IN  Last(Heights(mine)) = Last(Heights(content))

SameCount(topic, logs, content) ==
    Cardinality(logs \cap Matching(topic)) = Cardinality(content)

\* What a resumed profile, comment or reaction projection must agree with.
ProfileResume(progress, anchor) ==
    \A t \in DOMAIN anchor :
        SameTail(t, progress.folded, Content(t, progress.at[t]))

PostCommentResume(progress, anchor) ==
    \A t \in DOMAIN anchor :
        /\ SameTail(t, progress.folded, Content(t, progress.at[t]))
        /\ SameCount(t, progress.folded, Content(t, progress.at[t]))

PostReactionResume(progress, anchor) ==
    \A t \in DOMAIN anchor :
        /\ SameTail(t, progress.folded, Content(t, progress.at[t]))
        /\ \A u \in DOMAIN anchor :
              NextAfter(StartBlock, progress.at[t].checkpoints)
                  = NextAfter(StartBlock, progress.at[u].checkpoints)

\* The baselines are where the anchor's scopes were, and the progress ends
\* where they did.  (As a mutant of Normal: the digest is not compared.)
Consistent(progress, anchor) ==
    /\ \A t \in DOMAIN anchor : Extends(anchor[t], progress.at[t])
    /\ CASE kind = "profiles" -> ProfileResume(progress, anchor)
         [] kind = "comments" -> PostCommentResume(progress, anchor)
         [] kind = "reactions" -> PostReactionResume(progress, anchor)

\* normalizeResume: the tuple is consistent and the anchor continues it.
Normal(progress, anchor) ==
    /\ progress.digest = progress.folded
    /\ Consistent(progress, anchor)

\* authenticateDerivedState: the proof is of this digest at this baseline, in
\* a generation that still exists.
Bound(progress) ==
    /\ progress.proof = [at |-> progress.at, digest |-> progress.digest]
    /\ \A t \in DOMAIN progress.at :
          /\ scopes[t].generation = progress.at[t].generation
          /\ progress.at[t].revision <= scopes[t].revision

FreeRun == {r \in RunSlot : runs[r] = Unopened}

Opened(anchor, resume) ==
    [phase |-> Phases[1], open |-> TRUE, session |-> effect,
     anchor |-> anchor, folded |-> UNION {p.folded : p \in resume},
     baselines |-> {p.at : p \in resume}, next |-> Undefined]

\* Mutant: a run that is no longer wanted is left as it was opened.
LeavesOpen(c) ==
    /\ Superseded(c)
    /\ \E r \in FreeRun :
          runs' = [runs EXCEPT ![r] = Opened(calls[c].anchor, calls[c].resume)]
    /\ Ends(c)
    /\ UNCHANGED <<held, shown>>

\* The run is closed again, and nobody ever refers to it.
ClosesOpened(c) == GivesUp(c)

\* openProjection
RunOpened(c) ==
    /\ calls[c].doing = "open"
    /\ \/ /\ calls[c].resume = {}
          /\ \/ GivesUp(c)
             \/ ShowsFailure(c) /\ UNCHANGED <<held, runs>>
          /\ UNCHANGED ignoring
       \/ /\ calls[c].resume # {}
          /\ ignoring' = TRUE
          /\ Awaits(c, "discard")
          /\ UNCHANGED <<held, busy, current, shown, runs>>
       \/ /\ \A p \in calls[c].resume : Normal(p, calls[c].anchor) /\ Bound(p)
          /\ \/ ClosesOpened(c)
             \/ /\ ~ Superseded(c)
                /\ \E r \in FreeRun :
                      /\ \A s \in FreeRun : r <= s
                      /\ held' = r
                      /\ runs' = [runs EXCEPT ![r] =
                            Opened(calls[c].anchor, calls[c].resume)]
                /\ Shows("projecting")
                /\ Ends(c)
          /\ UNCHANGED ignoring
    /\ UNCHANGED <<world, scopes, store>>

-----------------------------------------------------------------------------
(* advance(): a page, or the authentication of what was folded.             *)

RunOf(c) == runs[calls[c].run]

\* The awaits of advanceProjection after its run refused, because of deferred
\* corruption or for any other reason.
RunFails(c, corrupt) ==
    LET r == calls[c].run
        failed == FailedRun(runs[r])
    IN  /\ \/ /\ Superseded(c)
              /\ runs' = [runs EXCEPT ![r] = Released(failed)]
              /\ Ends(c)
              /\ UNCHANGED <<held, shown>>
           \/ /\ ~ Superseded(c)
              /\ runs' = [runs EXCEPT ![r] = Released(ClosedRun(failed))]
              /\ held' = NoRun
              /\ IF corrupt
                 THEN /\ calls' = [calls EXCEPT ![c] =
                            [Quiet EXCEPT !.doing = Advancing.corrupt[1]]]
                      /\ UNCHANGED <<busy, current, shown>>
                 ELSE ShowsFailure(c)
        /\ UNCHANGED ignoring

\* The scope a scan may go on in: that of the page before, or one that
\* extends the baseline.
Continuable(run, t) ==
    IF run.next # Undefined THEN scopes[t] = run.anchor[t]
    ELSE \A b \in run.baselines : Extends(scopes[t], b[t])

From(run, t) ==
    IF run.next # Undefined THEN run.next
    ELSE Max({StartBlock} \cup {NextAfter(StartBlock, b[t].checkpoints) : b \in run.baselines})

Ahead(t, from) ==
    {l \in Content(t, scopes[t]) : Height[BlockOf[l]] >= from}

\* The page ends with the block in which it reaches its limit.
PageOf(t, from) ==
    {l \in Ahead(t, from) :
        Cardinality({m \in Ahead(t, from) :
            Height[BlockOf[m]] < Height[BlockOf[l]]}) < PageSize}

After(t) ==
    IF \E i \in 1 .. Len(Phases) - 1 : Phases[i] = t THEN "reposts"
    ELSE "authenticate"

\* #applyPage, with the page of topic t after from.
Applied(run, t, from) ==
    LET folded == run.folded \cup PageOf(t, from)
    IN  IF Ahead(t, from) = PageOf(t, from)
        THEN [run EXCEPT !.folded = folded, !.next = Undefined, !.phase = After(t)]
        ELSE [run EXCEPT !.folded = folded,
                 !.next = 1 + Max({Height[BlockOf[l]] : l \in PageOf(t, from)})]

\* The completed page leaves the run with as many logs as the cache has, the
\* last at the same position.
CompletedAgrees(run, t) ==
    /\ SameTail(t, run.folded, Content(t, run.anchor[t]))
    /\ SameCount(t, run.folded, Content(t, run.anchor[t]))

\* cache.scan.  Only a scope at the anchor's own position will do.
PageScanned(c) ==
    /\ calls[c].doing = "scan"
    /\ \/ \E corrupt \in BOOLEAN : RunFails(c, corrupt)
       \/ /\ IsScanning(RunOf(c))
          /\ LET run == RunOf(c)
                 t == run.phase
                 applied == Applied(run, t, From(run, t))
             IN  /\ Continuable(run, t)
                 /\ scopes[t] = run.anchor[t]
                 /\ applied.phase # t => CompletedAgrees(applied, t)
                 /\ runs' = [runs EXCEPT ![calls[c].run] = applied]
          /\ \/ Superseded(c) /\ UNCHANGED shown
             \/ ~ Superseded(c) /\ Shows("projecting")
          /\ Ends(c)
          /\ UNCHANGED <<held, ignoring>>
    /\ UNCHANGED <<world, scopes, store>>

\* What the await of a step of the authentication demands.
Demands(step, run) ==
    CASE step \in {"baselines", "again"} ->
            \A t \in Topics : scopes[t] = run.anchor[t]
      [] step = "bind" -> scopes[Phases[1]] = run.anchor[Phases[1]]
      [] step = "bindReposts" -> scopes["reposts"] = run.anchor["reposts"]
      [] step \in {"issued", "confirm"} ->
            \A t \in Topics : LET cps == run.anchor[t].checkpoints
                              IN  cps # {} => Canonical(Newest(cps))

IsLast(step) == step = "confirm"

ShowsComplete(run) ==
    shown' = {[phase |-> "complete", session |-> effect,
               through |-> run.anchor, content |-> run.folded]}

Completed(run) == [run EXCEPT !.phase = "complete", !.open = FALSE]

\* resumeState
Progress(run) ==
    [at |-> run.anchor, folded |-> run.folded, digest |-> run.folded,
     proof |-> [at |-> run.anchor, digest |-> run.folded]]

\* An await of authenticateBaseline, the callback's included.
Authenticated(c) ==
    /\ calls[c].doing \in Range(Authentication)
    /\ LET step == calls[c].doing
           run == RunOf(c)
           checked == ReadsPhase(step) => run.phase = "authenticate"
       IN  \/ \E corrupt \in BOOLEAN :
                 /\ corrupt => step \in {"baselines", "bind", "bindReposts", "again"}
                 /\ RunFails(c, corrupt)
           \/ /\ checked
              /\ ~ IsLast(step)
              /\ Demands(step, run)
              /\ Awaits(c, NextOf(Authentication, step))
              /\ UNCHANGED <<runs, hook>>
           \/ /\ checked
              /\ IsLast(step)
              /\ Demands(step, run)
              /\ runs' = [runs EXCEPT ![calls[c].run] = Completed(run)]
              /\ \/ /\ Superseded(c)
                    /\ Ends(c)
                    /\ UNCHANGED shown
                 \/ /\ ~ Superseded(c)
                    /\ Advancing.complete # <<>>
                    /\ calls' = [calls EXCEPT ![c].doing = Advancing.complete[1],
                                              ![c].resume = {Progress(run)}]
                    /\ UNCHANGED <<busy, current, shown>>
                 \/ /\ ~ Superseded(c)
                    /\ Advancing.complete = <<>>
                    /\ ShowsComplete(run)
                    /\ Ends(c)
              /\ UNCHANGED <<held, ignoring>>
    /\ UNCHANGED <<world, scopes, store>>

\* resumeStore.save in publishCompletedRun.  A profile is read off the run
\* before, so that the run is let go of.
ProgressSaved(c) ==
    /\ calls[c].doing = "save"
    /\ \E saved \in BOOLEAN :
        /\ store' = IF saved THEN calls[c].resume ELSE store
        /\ \/ /\ Superseded(c)
              /\ runs' = [runs EXCEPT ![calls[c].run] = Released(@)]
              /\ Ends(c)
              /\ UNCHANGED <<held, ignoring, shown>>
           \/ /\ ~ Superseded(c)
              /\ ignoring' = (ignoring /\ ~ saved)
              /\ ShowsComplete(RunOf(c))
              /\ IF kind = "profiles"
                 THEN runs' = WithoutHeld /\ held' = NoRun
                 ELSE UNCHANGED <<runs, held>>
              /\ Ends(c)
    /\ UNCHANGED <<world, scopes>>

\* What resetting a scope makes of its position: the generation survives
\* unless the scope record could not be read.
ResetOf(position) ==
    {Position(position.generation, r, {}) :
        r \in {position.revision + 1} \cap 0 .. MaxRevision[kind]}
    \cup {Position(g, 1, {}) : g \in {position.generation + 1} \cap 0 .. MaxGeneration}

\* The first n scopes were reset, the others were not.
ResetFirst(n) ==
    \A i \in 1 .. Len(Phases) :
        IF i <= n THEN scopes'[Phases[i]] \in ResetOf(scopes[Phases[i]])
        ELSE scopes'[Phases[i]] = scopes[Phases[i]]

\* resetCache and what follows it.
CacheReset(c) ==
    /\ calls[c].doing = "reset"
    /\ scopes' \in [Topics -> UNION {{scopes[t]} \cup ResetOf(scopes[t]) : t \in Topics}]
    /\ \E n \in 0 .. Len(Phases) :
        /\ ResetFirst(n)
        /\ \/ GivesUp(c) /\ UNCHANGED ignoring
           \/ /\ n = Len(Phases)
              /\ ~ Superseded(c)
              /\ Len(Advancing.corrupt) > 1
              /\ ignoring' = TRUE
              /\ Awaits(c, Advancing.corrupt[2])
              /\ UNCHANGED <<held, busy, current, shown, runs>>
           \/ /\ n < Len(Phases) \/ Len(Advancing.corrupt) = 1
              /\ ShowsFailure(c)
              /\ UNCHANGED <<held, ignoring, runs>>
    /\ UNCHANGED <<world, store>>

\* The progress saved of a cache that was reset.
ProgressForgotten(c) ==
    /\ calls[c].doing = "forget"
    /\ MayRemove
    /\ \/ GivesUp(c)
       \/ ShowsFailure(c) /\ UNCHANGED <<held, runs>>
    /\ UNCHANGED <<world, scopes, ignoring>>

-----------------------------------------------------------------------------
(* Everything else.                                                         *)

\* Another tab, or another panel, synchronizes or resets a scope.
OtherTab ==
    /\ \E t \in Topics :
        LET scope == scopes[t]
        IN  \/ \E p \in ResetOf(scope) : scopes' = [scopes EXCEPT ![t] = p]
            \/ /\ scope.revision < MaxRevision[kind]
               /\ \E r \in SyncResults(StartBlock, scope.checkpoints) :
                     scopes' = [scopes EXCEPT ![t] = Position(
                         scope.generation, scope.revision + 1, r.checkpoints)]
    /\ UNCHANGED <<world, store, hook, calls, runs>>

\* The saved progress goes bad: other logs at the same positions, with or
\* without the digest that goes with them.
Damage ==
    /\ \E p \in store : \E logs \in SUBSET Log :
        /\ p.folded = p.proof.digest
        /\ logs # p.folded
        /\ \A t \in Topics : SameTail(t, logs, p.folded \cap Matching(t))
                             /\ SameCount(t, logs, p.folded \cap Matching(t))
        /\ \/ store' = {[p EXCEPT !.folded = logs]}
           \/ store' = {[p EXCEPT !.folded = logs, !.digest = logs]}
    /\ UNCHANGED <<world, scopes, hook, calls, runs>>

Reorganize ==
    /\ MoveHead
    /\ UNCHANGED <<kind, session, effect, scopes, store, hook, calls, runs>>

\* What follows an await of a call.
Answered(c) ==
    \/ Synchronized(c) \/ PostsRead(c) \/ ProgressLoaded(c)
    \/ ProgressRemoved(c) \/ RunOpened(c) \/ PageScanned(c)
    \/ Authenticated(c) \/ ProgressSaved(c) \/ CacheReset(c)
    \/ ProgressForgotten(c)

ReaderNext ==
    \/ \E c \in CallSlot :
          Load(c) \/ Advance(c) \/ Answered(c)
    \/ Switch \/ RunEffect \/ OtherTab \/ Damage \/ Reorganize

ReaderSpec == ReaderInit /\ [][ReaderNext]_readerVars

-----------------------------------------------------------------------------
(* Properties.                                                              *)

\* A run that is complete has folded every log its anchor's scopes hold, and
\* no other: resumed or not, whatever the saved progress had become, and
\* however often it was closed while it waited.
CompleteIsWhole ==
    \A r \in RunSlot :
        runs[r].phase = "complete" => runs[r].folded = Whole(runs[r].anchor)

\* What the page reads when it shows a complete history.
Answer == IF kind = "profiles" THEN {s.content : s \in Visible}
          ELSE IF held = NoRun THEN {} ELSE {runs[held].folded}

\* The page shows what it holds.  A history shown as complete is that of the
\* connected provider, read from a complete run, and whole through the
\* boundary it is shown with; one shown as being read can be advanced.
WhatIsShownIsHeld ==
    \A s \in Visible :
        /\ s.phase = "complete" =>
              /\ Answer = {Whole(s.through)}
              /\ held # NoRun => /\ runs[held].phase = "complete"
                                 /\ runs[held].session = session
        /\ s.phase = "projecting" /\ ~ busy =>
              held # NoRun /\ Unfinished(runs[held])

\* No run is left with an open cache connection when nobody will close it.
NoRunLeftOpen ==
    \A r \in RunSlot : runs[r].open => r = held

\* The page is busy exactly while the newest call waits for something: a
\* superseded call neither ends the wait nor prolongs it.
BusyWhileCalling ==
    /\ busy <=> current # NoCall
    /\ current # NoCall => calls[current] # Quiet
=============================================================================
