# Verification of the Lifeinvader client

Lifeinvader is a social network without a server.  Everything it shows is a
fold over the event logs of one ownerless contract, read from an EVM chain
through the visitor's wallet or an RPC endpoint, and kept in the browser's
IndexedDB.  Whether it shows the truth depends on code that reads a moving
chain one answer at a time, stores the result while other tabs do the same,
and resumes where an earlier session stopped.  This directory models that code
in TLA+, checks it with TLC and proves the central results with TLAPS.

## Inventory

Paths are below `apps/web/src/` unless they say otherwise.

| part | state | operations | talks to | hard behaviour |
|---|---|---|---|---|
| event indexer `event-indexer.ts` | none between calls; one call holds a cursor, collected logs, rollbacks, a range size | `syncEventLogs` | wallet or endpoint (`eth_chainId`, `eth_blockNumber`, `eth_getBlockByNumber`, `eth_getLogs`) | reorganizations between any two answers; answers from several nodes; limits, retries, adaptive ranges |
| event cache `event-cache.ts` | IndexedDB: scope record, cursor record, log records chained by digests | `readLatest`, `apply`, `scan`, `clear`, `bindDerivedState`, `authenticateDerivedState` | every open tab; resume stores | concurrent tabs; corruption and eviction; pages read over several transactions; state resumed from earlier sessions |
| protocol history `protocol-history.ts` | per provider: the last confirmed boundary | `discover...`, `resolve...`, `protocolHistoryAnchorIsCanonical` | wallet | binary search over a chain that moves; a cached boundary going stale |
| event streams `follow-stream.ts`, `post-feed.ts`, `*-stream.ts`, `group-directory.ts` | per call: phases, before and after positions, the anchors issued | `synchronize`, `scanPage`, `authenticate...`, `reset` | history, cache, indexer | a dozen awaits, each followed by checks that what was read is still so |
| projections `*-projection.ts` | relations and counters folded from logs | `apply`, `snapshot`, `restore` | runs | last writer wins by block position; duplicated and out-of-order pages |
| projection runs `*-projection-run.ts` | phase, open cache, page continuation | `advance`, `close` | streams, projections, resume stores | closing during an await; a page of another anchor |
| read models `*-read-model.ts` | React state, generation counters | start, retry, cancel | runs | late results after the inputs changed |
| resume stores `*-resume-store.ts` | IndexedDB records | `save`, `load`, `clear` | cache | a record that does not belong to the scope any more |
| HTTP transport `http-rpc.ts` | queue, running requests, closed flag | `request`, `requestWithSignal`, `close` | endpoint | limits, deadlines, cancellation, slots |
| anchored read RPC `anchored-read-rpc.ts` | none | `request` | wallet and endpoint | an endpoint ahead of, behind or off the wallet's branch |
| wallet session `wallet-session.ts` | the account and chain shown, the connect that counts | connect, refresh, listeners, switch of chain | wallet | a wallet changes while it is read, and says so later |
| consoles' writes `wallet-panel.tsx`, `post-feed-panel.tsx`, `public-*-panel.tsx`, `group-transaction-console.tsx`, `wallet-write-boundary.tsx`, `opening-wallet-operation.ts`, `protocol.ts` | per console: its attempts and their status | act, check a receipt again, dismiss | wallet, each other | prompts open while the wallet changes; transactions sent whose answer is lost; receipts reorganized away |
| confirmation `post-feed-confirmation.ts` | the head and receipt of one poll | `waitForPostFeedConfirmation` | wallet or endpoint | a block reorganized between the answers of a poll |
| Filecoin storage `filecoin-storage*.ts(x)` | funding and upload phases; recovery journal in IndexedDB; the panels' locks | quote, fund, upload, check, dismiss, discard | wallet, storage providers, every open tab | money spent before a crash; replacement hashes; late continuations; panels that lock each other |
| contract `packages/contracts/src/Lifeinvader.sol` | none (events only) | post, comment, react, follow, ... | - | argument validation only |
| media `paid-media-car.ts`, `media-*.ts` | none | encode, verify, fetch | gateways | pure functions of bytes |
| panels `*.tsx` | React state | - | everything above | stale answers |

What makes each part correct: the indexer and the cache must together keep
*exactly the logs of one branch of the chain, complete up to the checkpoint they
claim, and never lose what is still canonical*.  Streams, runs and resume stores
must never present a fold of anything else, transports must neither lose a
request nor leak a slot, journals must never forget a paid upload.

## Modules

| module | models | extends |
|---|---|---|
| `Chain` | the chain and what an endpoint may answer; external except for the answer formats | - |
| `Cursors` | checkpoints, rollbacks and merges: the pure operators of `event-indexer.ts`, and the results a synchronization of one range may have | `Chain` |
| `EventIndexer` | `syncEventLogs`, one action per RPC answer | `Cursors` |
| `EventCache` | one scope of `BrowserEventCache` and the tabs on it, one action per method | `Cursors` |
| `LogReplica` | abstract specification of both: a replica that follows the chain | `Chain` |
| `ProtocolHistory` | `resolveProtocolHistoryBoundary`: the search for the deployment, and the boundary kept for the next call | `Chain` |
| `HttpRpc` | `createHttpRpcProvider`: the request queue in front of an endpoint | - |
| `StorageRecovery` | paid uploads, their recovery journal, and the two panels of each tab | - |
| `EventStream` | `synchronize` of the nine streams over the cache, the indexer and the history, the anchors they issue, and other tabs | `Cursors` |
| `Lifeinvader` | the contract, call by call, and the decoders of its events | - |
| `Projections` | the five projections, folded over what `Lifeinvader` emits | `Lifeinvader` |
| `Reader` | the five read models with their runs, resume stores and the page that shows them | `Chain` |
| `WalletSession` | `useWalletSession` and the wallets behind it | - |
| `WalletWrites` | the consoles' transactions, their locks and receipts, and the feed's wait for a post | `WalletSession`, `Chain` |
| `MCEventIndexer`, `MCEventCache`, `MCProtocolHistory`, `MCStorageRecovery`, `MCEventStream`, `MCProjections`, `MCReader`, `MCWalletWrites` | instances for TLC | the module they name |
| `Cursors_proofs`, `EventIndexer_proofs`, `EventCache_proofs`, `EventStream_proofs`, `StorageRecovery_proofs`, `WalletWrites_proofs` | theorems | the module they name |
| `ProtocolClient_proofs` | theorems about `HttpRpc` and `ProtocolHistory` | both |
| `ReadModels_proofs` | theorems about `Lifeinvader`, `Projections` and `Reader` | `Projections`, `Reader` |

Definitions marked `Mutant` are plausible bugs: variants of the definition after them
that break a property.  No specification uses them.

### The chain

A block is a member of `Block`, with a `Height` and `Ancestors` (itself among them); a
branch is identified with its last block, `head`.  `MoveHead` moves it to any other
block: growth by any number of blocks, or a reorganization of any depth.  Heights
need not grow: nodes behind one endpoint may differ in how far they are.  Blocks that
were abandoned are `orphaned`, and no branch that contains one becomes canonical again
(a client could not tell a branch that comes back from one that stayed).

### The indexer

A state of `EventIndexer` lies between two awaits of `syncEventLogs`: `pc` names the
await, the other variables are its locals: the working `cursor`, the collected `logs`,
`rollbackTo`, the attempts, and the range in progress (`scan`).  `Start`, `ReadHead`,
`ReadCheckpoint`, `ReadBefore`, `ReadLogs`, `ReadLogBlock`, `ReadPrevious`,
`ReadAfter`, `Deliver` follow the awaits in order; each contains everything up to the
next await.  `Fail` is the deadline, cancellation, a chain change and every exception,
at any await.  `kept` is what a caller holds that applies every returned result.

`eth_getLogs` is answered from the canonical branch at the time of the answer, or,
with `DivergentLogs`, from any branch that has been canonical: endpoints behind a load
balancer do this, and the code re-reads the headers of the blocks with logs for that
reason.  An empty range has no block to re-read, so completeness is stated for
`DivergentLogs = FALSE` only; that is a limit of the code, not of the model.

### The cache

A method of `BrowserEventCache` runs in one readwrite transaction, and IndexedDB
serializes those of one store over all tabs, so a method is one action and tabs
interleave between methods.  `db` is the scope: whether its record exists and can be
read, its `generation` and `revision`, whether its cursor record is damaged, the
cursor, the logs its digest chain commits to, and which of these records were lost or
altered since.  A digest is represented by the set of logs it was computed from; a
generation also stands for the random `baselineKey` drawn with it.  A tab holds what
the methods return: a `position`, the `result` of a synchronization, a `scan`
continuation, a `baseline`.  `saved` is the derived state of a resume store, by its
baseline.  Damage is external: a bad scope record, a bad cursor record, an altered
or missing log record, eviction of the database.

`Synchronize` takes any member of `SyncResults`, what a synchronization of one range
may return; `EventIndexer` is checked to return nothing else (`ResultIsExpected`), so
the two modules compose.

`LogReplica` is the abstract specification of both: one tip, the logs below it; a step
moves the tip to a descendant, or anywhere once the tip is orphaned, or, where
`Disposable` is TRUE, forgets everything.

### The history boundary

A state of `ProtocolHistory` lies between two awaits of each call of
`resolveProtocolHistoryBoundary` on one provider: `pc` names the await, `work` holds
the locals of `discoverProtocolHistoryBoundary` with the block numbers whose code is
known, `answer` what the call returns, `resolved` the boundary kept for later calls.  The
actions carry the names of what is read: the head and its code, the confirmed block and
its code, both codes again where the contract is not there yet, the probes of the
binary search, the codes on both sides of the deployment again, the final head.
`Authenticate` is `protocolHistoryAnchorIsCanonical` on a kept boundary.  `Fail` covers
deadlines, unavailable history, a changed wallet chain and every check that throws.

### The transport

An action of `HttpRpc` is a callback of the event loop, with the `pump` it ends in: a
call (`Schedule`), a timer (`Timeout`), an abort (`Cancel`), the response and the end of
a fetch (`Respond`, `Complete`, `FetchFails`), `Close`.  Requests are named by the order
in which they were made, so `queued` is a set.  `open` is what the endpoint sees: an
aborted fetch still counts until the browser rejects it.

### Paid uploads

`StorageRecovery` has for each tab the operation of the upload panel (`upload`: where
`uploadFilecoinStorage` is), what the panel shows (`panel`), its journal calls under way
(`calls`), and the recovery panel (`recovery`), and for all tabs the `journal` with its
`discarded` markers and the messages under way (`news`).  `latest` is the operation
sequence number: whether a late continuation may still change the panel.

| actions | code |
|---|---|
| `RunUpload`, `Stored`, `Release`, `Submitted`, `Authenticated`, `Fail` | `runUpload` and `uploadFilecoinStorage`: start, checkpoint, first signature let out, hash or replacement hash, receipt, any exception or abort |
| `CheckReceipt`, `Dismiss`, `Tidy`, `Reset`, `ContextChange`, `Close` | `retryReceipt`, `dismissRecovery`, `retryRecoveryCleanup`, `reset`, a change of wallet or media, unmounting |
| `StageDone` ... `RemoveFails` | a journal call of the upload panel takes effect or fails, and what the panel does then |
| `Hear`, `List`, `ShowList`, `Refresh` | `loadRecoveries` and the journal's notifications |
| `CheckRecovery`, `CheckReturns`, `RemoveRecord`, `RemoveIfUnchanged`, `Changed`, `ActionFails`, `DismissOutcome` | the recovery panel's `checkRecovery` and `removeRecord` |
| `Reload` | external: a page dies; the transaction of its first journal call may still commit |

Abstractions: a journal call takes effect and returns in one step, and the calls of one tab
in their order (each opens the database itself, then makes one transaction).  The phase
`released` lasts from the first signature to the first hash: the second signature and the
commit authorization can only fail the way the first one can.  `confirmed` also stands for a
data set without its piece, `idle` for a rejection or an error.  Changes of wallet, chain
or media are possible at any time: they are the nondeterminism of `Fail`, `ContextChange`
and of `RemoveDone`.  The locks of other consoles are left out; they only disable
more.

### The streams

`EventStream` has the nine streams as lists of the awaits of `synchronize`, in the order
of the code (`Steps`), and one action per kind of await: the history boundary, `readLatest`,
`syncEventLogs`, the boundary's anchor again, `apply`, the scope again, the newest
checkpoint, the head, for the group directory the number of groups, and the snapshot.  What
an await returns is what the module below it is checked to return: a member of
`SyncResults`, a boundary of the head that was read, a scope at its position.
`Authenticate...` are the steps of `authenticateIssued...ProjectionAnchor`; `OtherTab`
synchronizes, resets or clears the scopes in use.  The operators of `Cursors` take the
start block, because it differs between calls.

Abstractions: chain id reads, code inspection and context listeners can only end a call
(`Fail`), and so can a fetched event that does not decode, before anything is stored.  Of
the two `caughtUp` flags of the reactions only their conjunction is kept, which is when they
issue an anchor.  A group directory that cleared its scope reads it again by the
same step, and so checks the identifiers again; the code first checks them after the
range it reads next.  The pending state of the group streams ends the call.  Clearing a
scope that does not decode, which the other streams do, needs a damaged store, and is
`OtherTab`'s clear.  Only the group directory is given an endpoint that withholds logs
(`Withholding`), because only it can tell: its identifiers are consecutive.

### The contract and the projections

`Lifeinvader` has one action per call of the contract that succeeds, and what
`protocol-events.ts` accepts of the event it emits.  A media reference is its length.  A
text (`Text`) is its number of `bytes`, all the contract looks at; the number of bytes of
the string the client reads them as, which the client's limits are about (`read`); and
whether that string encodes to the same bytes (`exact`), which the decoders of comments,
profiles and messages demand, that of posts does not, and that of groups, who keep bytes,
need not.  The contract does not require a text to be UTF-8, so each combination occurs.

`Projections` mines such events into blocks and hands them to one projection in pages of
whole blocks, confirms it through its anchor, takes a snapshot and restores it.  Because a
stream decodes what it fetched before it stores it, and throws at what does not decode, a run
is only opened where everything its streams went past decodes (`LetThrough`); beyond an
event that does not, there is no run.  An event is named by its place,
an address is a tuple of digits.  Events come from one branch (`EventStream` and `Reader`
see to that), so the identity checks of block and transaction hashes hold by construction;
their bookkeeping (`retainIdentity`, `releaseIdentity`) is modelled because a wrong count
would make a later check refuse a sound page.

### The read models

`Reader` has a wallet that comes and goes, two outstanding calls of one read model, its
runs, the record of its resume store, and the scopes of the cache, which other tabs write.
A call is a click with everything it awaits; an action is what follows one await.  Renders
and effects are actions of their own: an effect sees the values of its commit.

| actions | code |
|---|---|
| `Load`, `Synchronized`, `PostsRead`, `ProgressLoaded`, `ProgressRemoved`, `RunOpened` | `loadNextRange`: start, after `synchronize`, the posts a comment run needs, the saved progress, its removal, the run |
| `Advance`, `PageScanned`, `Authenticated`, `ProgressSaved`, `CacheReset`, `ProgressForgotten` | `advanceProjection` with the run's `advance`, `#applyPage`, `#authenticateBaseline` |
| `Switch`, `RunEffect` | the provider changes; the hook's effect supersedes what was under way |
| `OtherTab`, `Damage`, `Reorganize` | external |

Abstractions: one provider, so another context is a wallet that leaves and comes back; a
digest is the set of logs it was computed from, a baseline its positions and digest.
`FinalityDepth` is 0 (the depth is `EventStream`'s).  A resumed run that is complete closes
only its cache.  The read models have a branch for a run that is complete when it is opened;
no run is, since only `advance` authenticates one, so the branch is left out.  Damage of a record keeps its counts and positions: what does not is caught
by `normalizeResume`, and so is part of `Normal`.

### Wallets and writes

`WalletSession` has each injected wallet with its account, chain and connection, and what it
has not told the page yet (`events`): a wallet answers with its state at the answer and
announces a change later, in order.  `reads` are the calls of `connect` and `refresh`;
`Answer` is one of the two reads of an attempt, with what follows when it is the second.
`Deliver` is an event with every listener: that of the session, of the reads, of the connect
under way.  `SwitchChain` is the panel's "use local chain" and the refresh after it.

`WalletWrites` adds what the consoles do with that session.  `attempt` is what a console
shows of a write, `run` the operation (`"first"`) or the later check of a receipt
(`"again"`), `request` what became of `eth_sendTransaction` in the wallet, which the page
does not know.

| actions | code |
|---|---|
| `Begin`, `Retry`, `Dismiss` | the clicks of a console; all six consoles have the same control |
| `Guard`, `Ask`, `Submit`, `Wait`, `ReadReceipt`, `Recheck`, `ReadBlock`, `Fails` | `createTransactionGuard`, `inspectProtocol`, `sendTransaction`, `waitForTransactionReceipt`, one action per await, with the console's `catch` and `finally` |
| `Render`, `Effect` | `useOpeningWalletOperations`: a commit, and the effect that strands the prompts of a context that is gone |
| `Announce` | an event of a wallet, with the listeners of the guards under way |
| `Watch...`, `StopWatching`, `WatchAgain` | the feed's effect and `waitForPostFeedConfirmation` |
| `Decide`, `Grow`, wallet changes | external |

Abstractions: the two reads of an assertion are one step, and consecutive assertions with
nothing between them are one; `inspectProtocol` and `verifyLocalChain` only delay or fail; a
write of the wallet's panel is a post; whether a receipt holds the event that was asked for
is the set `altered`; deadlines and poll limits are `Fails` at any time; a transaction for
another chain than `Home` is never mined.  A wallet that changes its chain between the
`eth_chainId` and the `eth_blockNumber` of one poll of the feed's wait is not modelled.  A
click acts on a page whose commits and effects
are done; answers may come between a commit and its effect.

## Runs

Every run finishes with no error except `storage_locks` and `texts`, which show findings.

| run | asks | bounds |
|---|---|---|
| `indexer` | `KeptLogsComplete`, `ResultIsExpected`, `ResultAppliesToCaller`, `ImplementsReplica`, `SyncEnds`, `CatchesUp`: whatever the chain does between two answers, the caller holds exactly the logs of one branch and leaves it only when it was abandoned; results lie in `SyncResults` and fit the cache; a reader who repeats the call reaches the head | one range per call, as every stream asks for; an endpoint that serves two blocks per `eth_getLogs` and is asked for four; heads that lag by one |
| `indexer_divergent` | `KeptLogsBelong` when logs are answered from abandoned branches | two ranges of two blocks, three checkpoint checks, three branches |
| `cache` | `StoredLogsMatchCursor`, `ImplementsReplica`: two tabs synchronize and clear the scope at once; `TokenNamesContent`, `RecentPageIsNewest`, `BaselineIsWhole`: one tab synchronizes, scans in pages, scans what was added, saves and resumes derived state, with one damage of any kind at any moment | four blocks, four logs, pages of one log, maintenance budget of two logs, revisions up to 3 for the two tabs and 2 for the one; the constraint `TogetherOrAlone` keeps to these two situations |
| `rpc_queue` | `Bounded`, `NoIdleSlot`, `FirstComeFirstServed`, `NobodyForgotten`, `EveryRequestSettles` | two slots, four outstanding requests, four requests |
| `history` | `BoundaryDescribesHead`, `AnswerIsCurrent`, `ProbesSuffice`: two calls search while the chain reorganizes; what they return or keep is true of one branch, and not of one abandoned before the call; the search is logarithmic | three branches of up to five blocks, finality depth 1 |
| `storage` | `ReleasedIsRecorded`, `ReleasedLocksEveryTab`, `HashesAreSeen`, `DiscardedStaysGone`: what may have cost a fee is recorded and locks every tab, whatever fails, closes or reloads | two tabs, one of which uploads twice; one journal record; one page that dies |
| `storage_locks` | `LockHasControl` is violated, see Findings | one tab, one upload |
| `streams` | `SnapshotIsWhole`, `SnapshotConfirmed`, `AnchorAuthenticated`, `OnlyIncompleteDiscarded`: what a stream shows as caught up misses no event, is confirmed on the branch of its head, and an anchor is authenticated only if it was canonical at one moment; a whole group directory is never discarded | each of the nine streams; two branches of two and three blocks on which the contract is deployed at different heights, one block with two events; two checkpoints, pages of one; two revisions of a scope for members and groups, one for the others |
| `projections` | `ProjectionIsCurrent`, `NeverRefused`, `ReadsInOrder`, `WellEncodedEventsDecode`: each projection, page by page and through snapshots, is the fold of all events; nothing the streams let through is refused; only the encoding of a text keeps an event from being decoded | four accounts with addresses of two digits, three to five events in up to four blocks, some profiles and comments undecodable; for the contract alone two events, with texts at the limits and one byte beyond, and texts that read longer, shorter, empty or as other bytes |
| `texts` | `EveryEventDecodes` is violated, see Findings | the contract alone, profiles and groups with names that are UTF-8 or not |
| `reader` | `CompleteIsWhole`, `WhatIsShownIsHeld`, `NoRunLeftOpen`, `BusyWhileCalling`: each read model beside other tabs | two calls and three runs, pages of one log, two branches from the genesis, revisions up to 3 for `profiles`, 2 for `follows` |
| `writes` | `ConnectedIsCurrent`, `SentIsTracked`, `ConfirmedIsDeep`, `DoneIsIncluded`: the session shown is the wallet's; a transaction that may be sent is never lost from view; nothing is reported as included, or as deep enough for the feed, that is not | six scenarios: see `MCWalletWrites` |

The chains of the indexer and the cache have a fork above the first block and a block
of two logs: the smallest on which a rollback keeps some checkpoints and drops others, the
limit of a page falls inside a block, and a rollback exceeds its budget.  In `cache` a tab
may synchronize block by block or at once, so that a rollback finds a canonical checkpoint
or none.  Three revisions are two updates and the rollback of the second; two let a tab
write, another write after it, and the first act on what it had read, and an eviction start
again from the first.  The theorems hold for any number.  In
`history` and `streams` the contract is deployed at different heights of the branches, so
that a search or a start block which crosses a reorganization would mix them.  Four
requests on two slots let a queued, a running, an interrupted and a refused one meet.  Two
uploads in one tab are needed for a late continuation of the first to meet the second; a
second tab that only watches suffices for messages, and for a removal in one tab that races
with a replacement hash in the other.  A journal of one record is one at its limit.

In `projections` two of four addresses share a digit at each place, so that removing one
keeps part of its path in the index; three posts' comments are numbered together and two
are of posts that are not tracked.  In `reader` both branches reach the same height with as
many logs, so that progress saved on one looks right beside the other.  The scenarios of
`writes` are: one wallet that changes three times, two wallets, a post and its
confirmation on three branches (a block can be seen on the first, be deep by a head of the
third, and never have been deep itself), a post while the wallet changes, two consoles
while the wallet changes, and two consoles with blocks.  Two writes show that one
console locks the others; three changes let a refresh begin, be outdated and be read again.

`CHECK_DEADLOCK` is off where requests, upload ids, blocks, revisions or changes of a wallet
run out.

### Fairness

  * Indexer: `FairSpec` has weak fairness of the steps of the synchronization: an await
    ends, because every request has a deadline (`requestProviderBeforeDeadline`).
    `PersistentSpec` adds a caller who polls.  The chain owes nothing, and reorganizations
    need not stop.  `Fail` may always happen instead of an answer, so `CatchesUp` is
    about behaviours in which, from some point on, requests do not fail.
  * Transport: time passes, timers fire, and a fetch that was aborted is rejected by the
    browser.  The endpoint owes nothing: a fetch may never be answered.
  * Elsewhere nothing is assumed and nothing temporal is claimed beyond action properties.
    The streams and runs end as their requests end, and a wallet may leave a prompt open
    for ever.

## Findings

After an upload that ended ambiguous or with an unknown hash, its tab has no control that
works: the upload panel's lock disables the recovery panel, and the record in the journal,
which the recovery panel rereads at once, disables the upload panel
(`wallet-panel.tsx:983-1001`).  `docs/media.md:81` says that receipt-recovery controls stay
available.  A reload or another tab helps: nothing is lost.

The contract takes any bytes for a text, the client does not.  A profile, a comment or a
message whose text is not UTF-8 is refused by its decoder, which compares encodings
(`protocol-events.ts:425`, `616`, `678`, `839`), and a post if its body becomes too long or
empty when it is read (`372-377`).  The stream throws before it stores the range, so every
later synchronization ends at the same event: profiles, comments, posts or the conversation
cannot be read past it.  `Lifeinvader.sol:6` says that clients derive all social state from
canonical logs, `docs/protocol-v1.md:9` that the latest `ProfileSet` is the profile; for the
names of groups `docs/groups.md:12-16` has foreseen the case, and the group decoder handles
it: `WellEncodedEventsDecode` covers it.

Observations that contradict no stated behaviour of the application, or were only seen
outside the configuration it uses:

  * `syncEventLogs` with more than one range per call (4 by default) can return a
    `rollbackTo` beyond the block its caller's cursor had reached, together with logs from
    before it: it accepted two ranges and lost the second to a reorganization.
    `BrowserEventCache.apply` refuses such a result, although `docs/indexing.md:74` says it
    applies the rollback.  Nothing wrong is stored, and every stream asks for one range,
    where `ResultAppliesToCaller` holds.
  * An upload that is aborted while its checkpoint is being staged leaves the checkpoint in
    the journal (`filecoin-storage-upload-panel.tsx:655` removes it only if staging had
    returned).  It costs nothing and locks every tab until it is discarded.
  * An operation goes on after its stranded attempt was dismissed, so its prompt may still
    open; its callbacks do nothing, as `opening-wallet-operation.ts:11` says.
  * "Reverted" is final on the page as soon as one canonical block says so; a
    reorganization may execute the transaction after all.

## Proofs

The theorems of a component, or of two or three that belong together, are in a module of
their own: lemmas about operators, one lemma per action, `Init` and `Next`, and a temporal
step at the end.  Every invariant, action property and refinement that a run finds to hold is a theorem.

`Cursors_proofs` has lemmas about checkpoints: the checkpoints below a height and the logs
below it are those of an ancestor, a range merged into a complete record gives a complete
record, the result of a synchronization fits the cursor it began from.

`EventIndexer_proofs`: `TypeCorrect`, `NoForeignLog` (`KeptLogsBelong`, with any answers of
`eth_getLogs`) and `NoMissingLog` (`KeptLogsComplete`), from `Consistent`.  Its invariant
says what the caller would hold *if the synchronization ended now*: neither the working
cursor nor the logs nor the rollback means anything without the other two.  Of a
range in progress it says that *if* the range end is still canonical, then so is
everything read since; that the end is read a second time is what discharges the "if".

Then, for synchronizations of one range, which is what every stream asks for
(`OneRange`): `ResultsAreExpected` (`ResultIsExpected`: `EventIndexer` returns nothing but
`SyncResults`, so it composes with the modules that take their results from there),
`ResultsApplyToCaller` (`ResultAppliesToCaller`) and `SynchronizationsReplicate`
(`ImplementsReplica`), from `ResultInvariant`.  It says at each await either which range the
call may return or that it has accepted none, and of the search for a common ancestor that
the checkpoints still to be looked at are what the last one passed over.  The refinement
rests on one fact: a checkpoint the caller's tip can be traced to is abandoned only if the
tip is.  It assumes `MaxReorgChecks > 1` and `MaxCheckpoints > 1` (8 and 64 in the code):
with one of either, the first checkpoint of a range that is abandoned again would take the
whole older record with it, while the older tip is still canonical.

`EventCache_proofs`: `TypeCorrect`, `StoreIsConsistent` (`StoredLogsMatchCursor`),
`TokensAreAuthentic` (`TokenNamesContent`), `BaselinesAreWhole` (`BaselineIsWhole`) and
`RecentPagesAreNewest` (`RecentPageIsNewest`), from `CacheInvariant`.  It has three parts:
what is stored fits its cursor; whatever a tab holds of the scope's generation is of an
earlier revision or of this very state (so no write with a stale token goes through); and a
scan holds exactly the logs below its next page.  That a page of `readLatest` has no gap
rests on the one record it reads beyond the page: a lost record that belongs to the page
would be newer than that one, and the digests tell.

Then `ScopeIsReplica` (`ImplementsReplica`), for any number of tabs and any damage.  Every
result a tab holds succeeds the cursor of that tab's position (`TipInv`), and a position that
still names the scope's revision names its cursor; so a commit is a step of the replica, an
emptied or damaged scope is one that forgets, and the rest stutters.

`EventStream_proofs`, for each of the nine streams and any tabs beside it: `TypeCorrect`,
`ShownIsConfirmed` (`SnapshotConfirmed`), `ShownIsWhole` (`SnapshotIsWhole`),
`AuthenticatedMeant` (`AnchorAuthenticated`) and `WholeScopesAreKept`
(`OnlyIncompleteDiscarded`), the first four from `StreamInvariant`.  No await of
`synchronize` can be trusted when it returns: the checkpoints, the boundary and the head it
brought may be abandoned before the next.  So the invariant says of each of them that it is
abandoned *or else* what the code takes it for: a checkpoint on the branch of the head, a
start block that is that branch's deployment.  The checks at the end are about all newest
checkpoints at one moment, and exclude "abandoned" for all of them at once.  What came from
the cache is whole only if the indexer saw every log; for the group directory, which may be
given less (`Withholding`), the count of groups decides: a subset of the logs with as many
members as there are logs is all of them.  `ShownIsWhole` has the hypothesis
`OnlyGroupsWithheld`: of no other stream can anybody say that nothing was withheld.
`WholeScopesAreKept` also needs `DirectoryInvariant`: the events of a range lie above what
the range leaves in its scope, so once they are stored they are the scope's newest, until
another tab has moved its position, which the reread sees.  The newest part of all events of
a branch has consecutive identifiers that end at their number: the events of a branch map
one to one into 1..n, which has as many members, so no induction is needed.  The count is of
the branch of the newest checkpoint, because both are checked against the same head.

`StorageRecovery_proofs`, for any number of tabs, uploads, records and reloads:
`TypeCorrect`, `ReleasedStaysRecorded` (`ReleasedIsRecorded`), `ReleasedLocks`
(`ReleasedLocksEveryTab`), `HashesStaySeen` (`HashesAreSeen`) and `DiscardedIsGone`
(`DiscardedStaysGone`), from `RecoveryInvariant`.  It says that an upload belongs to
one tab, and to none before it began; that the hashes a tab still has to record are among
those its upload has had so far; that a removal is only ever under way for an upload that is
over (it spent nothing, or is settled with every hash it had, and will have no other),
whoever asked for it and however late it takes effect; and that every tab knows every upload
that may have spent something: its list has it, or is being read, or a message is on its
way.  The last is why no lock is lost between a write and the news of it.

`ProtocolClient_proofs`, of the transport: `RpcTypeCorrect`, `LimitsHold`, `NoSlotIsIdle`, `SlotsUsedInOrder`, `NobodyIsForgotten`,
`SettledForGood`, from `QueueInvariant`, which ties the promises that wait to the queue and
the slots.  Its core is the lemma `PumpWorks` about what `pump` leaves behind.

The same module, of the history: `TypeCorrect`, `BoundariesDescribeTheirHead`
(`BoundaryDescribesHead`), `AnswersAreCurrent` (`AnswerIsCurrent`) and `ProbesAlwaysSuffice`
(`ProbesSuffice`), from `HistoryInvariant`: every code a call has read is true of the branch of its first head
*as long as that head is canonical*, and a head left behind stays behind; the last reading
of the head then covers the whole search.  The number of probes needs `Budgets` too: at each
await, the power of two of the probes so far, less those outside the search, times what is
left of the search fits the chain.  That `Pow2` doubles (`PowersOfTwo`) is an induction; the
library's induction theorems take a predicate, which the provers cannot instantiate, so it
is by the least number of a set of counterexamples (`LeastNumber`, from `WFMin`), and the
recursive function exists because its beginnings do and agree.

`ReadModels_proofs`, of the projections: `WellEncodedDecode` (`WellEncodedEventsDecode`),
`ProjectionCurrent` (`ProjectionIsCurrent`), `NothingRefused` (`NeverRefused`) and
`PagesAreInOrder` (`ReadsInOrder`), from `ProjectionInv`.  It has five parts: the contract's
counters and memberships are what its events say, the events are in the order of their
blocks, and each that is well encoded decodes; the boundaries lie where whole blocks have
been read (`Placed`); `last` is the last event applied; everything up to an anchor decodes
(`LetThroughAnchor`); and what is kept is `Derived` from *the set of events applied so far*,
whatever pages, runs and snapshots they came in.  For each fold one
lemma says what one more event changes, and that `AfterPage`, a recursive function over
a page's events, comes to the same as the set that has grown by the page is an induction over
event numbers (`LeastNumber` again).  The address tree holds exactly the prefixes of the
retained addresses because `Prune` removes a node only if nobody else's path goes through it
(`PruneIsExact`), and the counts of blocks stay exact because a relationship that is replaced
gives up its own block and no other.  A snapshot is only taken up between two scans,
when every stream stands at the confirmed block (`Placed`): so the two frontiers of
reactions meet, and no block hash is left that the check could miss or refuse.

`PagesAreInOrder` relates that tree to numbers.  Addresses are in the order of the
first digit in which they differ (`NumbersOrder`, by induction over digits); the
children of a node are the nodes of the addresses that share its digits; going down by
lowest digits ends at the lowest of them (`FirstIs`); and the deepest node with a later
sibling is where the next address leaves the path of the current one (`NextAddressIs`).
So after k steps a read is at the address of rank k, or there are at most k (`WalkIs`).

The same module, of the read models: `CompleteRunsAreWhole` (`CompleteIsWhole`),
`ShownIsHeld` (`WhatIsShownIsHeld`), `RunsAreClosed` (`NoRunLeftOpen`) and
`BusyWhileAwaiting` (`BusyWhileCalling`), from `ReaderInv`, for any chain, any logs, any
number of calls and runs, and any page size.  `WorldHolds` says of what the page shares with
other tabs that the checkpoints of every scope are those of one branch, and that the proof
in saved progress was made of the whole history at its position (`Proven`), which no damage
to the rest of the record changes.  `HookHolds` says of the page which run, anchor and
progress a call has at each await (`CallsHold`), that a run that is not over has folded, of
each scope, exactly the logs its baseline had and those its scans have come past
(`RunsHold`), that the run of a superseded call is over and held by nobody, and no run is that of two calls
(`Referred`), that the newest call has the run that is held (`Holding`), and that what is
shown as complete is whole and of the session in use (`ShownHolds`).  `Referred` is what
makes the others inductive: without it a late continuation could complete, or show, a run of
the newer call.

`WalletWrites_proofs`: `TypeCorrect`, `SentStaysTracked` (`SentIsTracked`), `ConfirmedWasDeep`
(`ConfirmedIsDeep`), `DoneWasIncluded` (`DoneIsIncluded`) and `ConnectedStaysCurrent`
(`ConnectedIsCurrent`), for any wallets, consoles, reads, writes and scenario.  The first
rests on `Tracking`: nothing was sent before a run's prompt, a hash is kept for good, and a
run that has left its prompt has one; so whatever a late error may do to the status of an
attempt, it cannot make it a rejection of something sent.  The second rests on `WatchInv`: a
candidate that was canonical before and after a head that makes it deep was deep at that
head, or is abandoned, and then it is not found again.  The last rests on `CurrentInv`: what
a read has been answered, like what the session shows, is what the wallet has unless an
event about it is still on its way or the wallet has gone; the last chain event on its way
names the chain the wallet is on; and a connect that counts is to the wallet that is shown,
so no other read ends as its session.

The theorems hold for every chain with `ChainAssumption` (heights are natural numbers,
ancestors are nested, a branch has one block per height), every cursor and every limit
that the other assumptions allow: limits are positive, `CacheAssumption` (a position in
a block names one log, a branch has finitely many), `HistoryAssumption` (a
deployed contract stays: it has no selfdestruct), `StreamAssumption` (the same, a branch has
finitely many events and none from before the deployment, a position in a block names one),
`RpcAssumption` (at least as many requests outstanding as concurrent),
`ProjectionAssumption` (an address is a sequence of hexadecimal digits of one length, and a
call has texts and the lengths of references), `ReaderAssumption` (a block has
finitely many logs), `SessionAssumption`
and `WritesAssumption` (scenarios choose from the constants).  Every inductive invariant was checked with TLC on the instance
of its component's run before it was proved.

Only model-checked is liveness (`SyncEnds`, `CatchesUp`, `EveryRequestSettles`), which is
outside the prover's reach.

## Not modelled

  * Hexadecimal decoding, the ABI, digests and CIDs, CAR and UnixFS bytes, rendering and the
    characters of text: functions of byte strings.  What they decide is modelled where something depends
    on it.
  * `anchored-read-rpc.ts`: it answers or fails, and every reader of the chain may be
    failed; that its logs may be of another branch than its headers is `DivergentLogs`.
  * The quote, the funding and the inspection of the Filecoin account
    (`filecoin-storage-funding.ts`, `filecoin-storage-quote.ts`, `filecoin-storage.ts`,
    `filecoin-storage-panel.tsx`): planned, below.
  * The journal's `clear`, which no panel calls, and its validation of damaged records
    (they make a read fail, which is modelled).
  * Drafts, selections and paging of the panels; the discovery of wallets, which only
    collects announcements.
  * `DeterministicDeployment.sol`, scripts, tests.

## Plan

`StorageFunding`: the other half of the storage panel, with what its quote and its payment
have in common with an upload that is under way.
