---------------------------- MODULE WalletWrites ----------------------------
(***************************************************************************)
(* Transactions the page asks a wallet to send: the consoles that ask      *)
(* (wallet-panel.tsx, group-transaction-console.tsx, post-feed-panel.tsx   *)
(* and the others), the lock they share (wallet-write-boundary.tsx), the   *)
(* guard, the submission and the receipt (protocol.ts), prompts that are   *)
(* stranded by a change of wallet (opening-wallet-operation.ts), and the   *)
(* feed's wait for the depth it shows a post at (post-feed-confirmation.ts)*)
(*                                                                         *)
(* Home is the chain whose blocks are modelled; a transaction for another  *)
(* chain never gets a receipt.                                             *)
(***************************************************************************)
EXTENDS WalletSession, Chain

CONSTANTS
    Home,       \* the chain whose blocks Chain describes
    Console,    \* the consoles, and the panel of the wallet among them
    Publisher,  \* the console whose posts the feed waits for
    Depth,      \* POST_FEED_CONFIRMATION_DEPTH
    Write       \* the actions the user takes, in the order of operationSequence

ASSUME WritesAssumption ==
    /\ Home \in ChainId /\ Publisher \in Console /\ Depth \in Nat
    /\ Write \subseteq Nat
    /\ \A s \in Scenario : /\ s.consoles \subseteq Console /\ s.writes \in Nat
                            /\ s.blocks \subseteq Block

\* An operation of a console, and a later check of the hash it left behind.
Run == Write \X {"first", "again"}

VARIABLES
    attempt,    \* per write: what its console shows
    run,        \* per run: how far it is, what its guard heard, its receipt
    request,    \* per write: what became of eth_sendTransaction in the wallet
    mined,      \* per write: the blocks that hold its transaction
    reverting,  \* the pairs of write and block whose transaction reverted
    altered,    \* the writes whose transaction is not what was asked for
    stranded,   \* the attempts the next effect finds without their session
    settled,    \* the writes whose receipt was authenticated
    dismissed,  \* the writes the user vouched for
    watch,      \* the feed's wait for a post
    deep        \* the blocks that were once canonical and Depth deep

writeVars == <<attempt, run, request, stranded, settled, dismissed, watch>>
minedVars == <<mined, reverting, altered, deep>>
vars == <<sessionVars, chainVars, writeVars, minedVars>>

NoAttempt == [status |-> "none", console |-> Publisher, context |-> {},
              hash |-> FALSE, active |-> FALSE]
NoRun == [pc |-> "idle", marked |-> FALSE, receipt |-> {}]
NoWatch == [pc |-> "none", post |-> {}, head |-> 0, candidate |-> {}]

Init ==
    /\ SessionInit
    /\ ChainInit
    /\ attempt = [w \in Write |-> NoAttempt]
    /\ run = [r \in Run |-> NoRun]
    /\ request = [w \in Write |-> "none"]
    /\ mined = [w \in Write |-> {}]
    /\ reverting = {}
    /\ altered = {}
    /\ stranded = {}
    /\ settled = {}
    /\ dismissed = {}
    /\ watch = NoWatch
    /\ deep = {}

-----------------------------------------------------------------------------
Unresolved == {"opening", "pending", "unknown", "ambiguous"}
Shown == Unresolved \cup {"failed"}

\* What the session would give a new attempt.
Context == [provider |-> session.provider, account |-> session.account,
            chain |-> session.chain]
MatchesSession(context) == session.status = "connected" /\ context = {Context}

\* localWriteLocked of a console, as it is reported to the others.
Locked(c) == \E w \in Write : attempt[w].console = c /\ attempt[w].status \in Unresolved

\* What useOpeningWalletOperations looks for after a commit.
Stranded ==
    {w \in Write : attempt[w].status = "opening" /\ ~ MatchesSession(attempt[w].context)}

\* A click is handled on a page whose commits and effects are done.
Flushed == stranded = {} /\ Stranded = {}

\* Mutant: a context that is gone takes its attempt along.
Forget(w) == [attempt[w] EXCEPT !.active = FALSE, !.status = "gone"]

Strand(w) ==
    [attempt[w] EXCEPT !.active = FALSE,
        !.status = CASE @ = "opening" -> "ambiguous"
                     [] @ = "pending" -> "unknown"
                     [] OTHER -> @]

\* React commits the state there is.
Render ==
    /\ stranded = {} /\ Stranded # {}
    /\ stranded' = Stranded
    /\ UNCHANGED <<sessionVars, chainVars, minedVars, attempt, run, request, settled, dismissed, watch>>

\* The effect of that commit; answers may have come in between.
Effect ==
    /\ stranded # {}
    /\ attempt' = [w \in Write |-> IF w \in stranded THEN Strand(w) ELSE attempt[w]]
    /\ stranded' = {}
    /\ UNCHANGED <<sessionVars, chainVars, minedVars, run, request,
                   settled, dismissed, watch>>

-----------------------------------------------------------------------------
(* Clicks.                                                                  *)

\* runAction, after the checks of the console's own form.
Begin(c, w) ==
    /\ Flushed
    /\ c \in scenario.consoles /\ w <= scenario.writes
    /\ attempt[w].status = "none"
    /\ \A v \in Write : v < w => attempt[v].status # "none"
    /\ session.status = "connected" /\ session.chain # {}
    /\ \A d \in Console : ~ Locked(d)
    /\ attempt' = [v \in Write |->
          IF v = w THEN [status |-> "opening", console |-> c, context |-> {Context},
                         hash |-> FALSE, active |-> TRUE]
          ELSE IF /\ attempt[v].console = c /\ attempt[v].status = "failed"
                  /\ attempt[v].context = {Context}
               THEN [attempt[v] EXCEPT !.status = "gone"]
          ELSE attempt[v]]
    /\ run' = [run EXCEPT ![<<w, "first">>] = [NoRun EXCEPT !.pc = "guard"]]
    /\ UNCHANGED <<sessionVars, chainVars, minedVars, request, stranded,
                   settled, dismissed, watch>>

\* Check the receipt of a hash again.
Retry(w) ==
    /\ Flushed
    /\ attempt[w].status = "unknown" /\ attempt[w].hash
    /\ MatchesSession(attempt[w].context)
    /\ \A v \in Write \ {w} :
          attempt[v].status \in Unresolved => attempt[v].context # attempt[w].context
    /\ attempt' = [attempt EXCEPT ![w].status = "pending"]
    /\ run' = [run EXCEPT ![<<w, "again">>] = [NoRun EXCEPT !.pc = "guard"]]
    /\ UNCHANGED <<sessionVars, chainVars, minedVars, request, stranded,
                   settled, dismissed, watch>>

\* "I checked my wallet", "I checked this hash".
Dismiss(w) ==
    /\ Flushed
    /\ attempt[w].status \in {"unknown", "ambiguous", "failed"}
    /\ attempt' = [attempt EXCEPT ![w].status = "gone", ![w].active = FALSE]
    /\ dismissed' = dismissed \cup {w}
    /\ UNCHANGED <<sessionVars, chainVars, minedVars, run, request,
                   stranded, settled, watch>>

-----------------------------------------------------------------------------
(* How a run ends.  Callbacks of an operation whose prompt was stranded, or *)
(* which the user dismissed, do nothing; those of a check are not stopped.  *)

Heard(w, k) == k = "again" \/ attempt[w].active

\* The status after an error: of the chain, of the wallet, or before it.
AfterError(w, error) ==
    IF attempt[w].hash THEN (IF error = "reverted" THEN "failed" ELSE "unknown")
    ELSE IF error = "submission unknown" THEN "ambiguous" ELSE "gone"

Throw(w, k, error) ==
    /\ run' = [run EXCEPT ![<<w, k>>] = NoRun]
    /\ attempt' = IF Heard(w, k) /\ attempt[w].status \in Shown
                  THEN [attempt EXCEPT ![w].status = AfterError(w, error)]
                  ELSE attempt
    /\ settled' = IF error = "reverted" /\ Heard(w, k) THEN settled \cup {w} ELSE settled
    /\ UNCHANGED <<request, watch>>

\* finishAction; the panel that publishes tells the feed.
Finish(w, k, b) ==
    /\ run' = [run EXCEPT ![<<w, k>>] = NoRun]
    /\ IF Heard(w, k)
       THEN /\ settled' = settled \cup {w}
            /\ attempt' = [attempt EXCEPT ![w].status =
                              IF @ \in Shown THEN "done" ELSE @]
            /\ watch' = IF /\ attempt[w].console = Publisher
                           /\ MatchesSession(attempt[w].context)
                        THEN [NoWatch EXCEPT !.pc = "head", !.post = {w}]
                        ELSE watch
       ELSE UNCHANGED <<settled, attempt, watch>>
    /\ UNCHANGED request

-----------------------------------------------------------------------------
(* The operation: createTransactionGuard, inspectProtocol, sendTransaction, *)
(* waitForTransactionReceipt.                                               *)

At(w, k, pc) == run[<<w, k>>].pc = pc

Goes(w, k, pc) ==
    /\ run' = [run EXCEPT ![<<w, k>>].pc = pc]
    /\ UNCHANGED <<attempt, request, settled, watch>>

\* assertSubmission: the selected account and chain are those of the
\* attempt, and no event said otherwise since the guard was made.
Unchanged(w, k) ==
    /\ ~ run[<<w, k>>].marked
    /\ \A c \in attempt[w].context : \A p \in c.provider :
          wallet[p].up /\ wallet[p].account = c.account /\ {wallet[p].chain} = c.chain

Asserts(w, k, from, to) ==
    /\ At(w, k, from)
    /\ IF Unchanged(w, k) THEN Goes(w, k, to) ELSE Throw(w, k, "context")

\* createTransactionGuard.
Guard(w, k) == Asserts(w, k, "guard", IF k = "first" THEN "check" ELSE "waiting")

\* inspectProtocol found the expected code, and sendTransaction looks once
\* more before it asks the wallet.
Ask(w) ==
    /\ At(w, "first", "check")
    /\ IF Unchanged(w, "first")
       THEN /\ run' = [run EXCEPT ![<<w, "first">>].pc = "prompt"]
            /\ request' = [request EXCEPT ![w] = "open"]
            /\ UNCHANGED <<attempt, settled, watch>>
       ELSE Throw(w, "first", "context")

\* Another code than 4001, or an answer that is no hash.
Refused(w) == Throw(w, "first", "submission unknown")

\* eth_sendTransaction is answered, with a hash, a refusal, or an error that
\* says nothing.
Submit(w) ==
    /\ At(w, "first", "prompt")
    /\ \/ /\ request[w] = "sent"
          /\ run' = [run EXCEPT ![<<w, "first">>].pc = "waiting"]
          /\ attempt' = IF attempt[w].active
                        THEN [attempt EXCEPT ![w].status = "pending", ![w].hash = TRUE]
                        ELSE attempt
          /\ UNCHANGED <<request, settled, watch>>
       \/ request[w] = "rejected" /\ Throw(w, "first", "rejected")
       \/ Refused(w)

\* The last look of sendTransaction, and the head of the polling loop.
Wait(w, k) == Asserts(w, k, "waiting", "receipt")

\* The block that holds the transaction for a wallet on the right chain.
Included(w) ==
    {b \in mined[w] : Canonical(b) /\ \A c \in attempt[w].context : \A p \in c.provider :
                                         wallet[p].up /\ wallet[p].chain = Home}

\* eth_getTransactionReceipt.
ReadReceipt(w, k) ==
    /\ At(w, k, "receipt")
    /\ run' = [run EXCEPT ![<<w, k>>].pc = "recheck", ![<<w, k>>].receipt = Included(w)]
    /\ UNCHANGED <<attempt, request, settled, watch>>

\* The context again, the code of a deployment, and the context once more.
Recheck(w, k) ==
    Asserts(w, k, "recheck", IF run[<<w, k>>].receipt = {} THEN "waiting" ELSE "block")

PollsAgain(w, k) ==
    /\ run' = [run EXCEPT ![<<w, k>>].pc = "waiting", ![<<w, k>>].receipt = {}]
    /\ UNCHANGED <<attempt, request, settled, watch>>

\* Mutant: the receipt is believed.
AnyBlock(w, b) == TRUE

\* eth_getBlockByNumber, for the hash of the receipt's block.
SameBlock(w, b) == b \in Included(w)

\* The receipt's logs hold the event that was asked for.
Expected(w) == w \notin altered

ReadBlock(w, k) ==
    /\ At(w, k, "block")
    /\ \E b \in run[<<w, k>>].receipt :
          IF run[<<w, k>>].marked THEN Throw(w, k, "context")
          ELSE IF ~ SameBlock(w, b) THEN PollsAgain(w, k)
          ELSE IF <<w, b>> \in reverting THEN Throw(w, k, "reverted")
          ELSE IF ~ Expected(w) THEN Throw(w, k, "unexpected")
          ELSE Finish(w, k, b)

\* Whatever is awaited fails, is cancelled, or reaches its deadline.
Fails(w, k) ==
    /\ run[<<w, k>>].pc \notin {"idle", "prompt"}
    /\ Throw(w, k, "failed")

RunStep ==
    /\ \E w \in Write :
          \/ Ask(w) \/ Submit(w)
          \/ \E k \in {"first", "again"} :
                \/ Guard(w, k) \/ Wait(w, k) \/ ReadReceipt(w, k) \/ Recheck(w, k)
                \/ ReadBlock(w, k) \/ Fails(w, k)
    /\ UNCHANGED <<sessionVars, chainVars, minedVars, stranded, dismissed>>

-----------------------------------------------------------------------------
(* The user and the wallet, the chain, and the events.                      *)

\* The prompt is answered.
Decide(w) ==
    /\ request[w] = "open"
    /\ \E answer \in {"rejected", "sent"} : request' = [request EXCEPT ![w] = answer]
    /\ UNCHANGED <<sessionVars, chainVars, minedVars, attempt, run, stranded,
                   settled, dismissed, watch>>

ForHome(w) == request[w] = "sent" /\ \A c \in attempt[w].context : c.chain = {Home}

DeepBlocks(h) == {b \in Ancestors[h] : Height[h] >= Height[b] + Depth}

\* New blocks hold any of the transactions sent that the branch has not yet;
\* a wallet may have sent another than it was asked for.
Grow ==
    /\ MoveHead /\ head' \in scenario.blocks
    /\ \E into \in [Write -> SUBSET (Ancestors[head'] \ Ancestors[head])] :
          /\ \A w \in Write :
                /\ Cardinality(into[w] \cup (mined[w] \cap Ancestors[head'])) <= 1
                /\ into[w] # {} => ForHome(w)
          /\ mined' = [w \in Write |-> mined[w] \cup into[w]]
          /\ \E bad \in SUBSET {w \in Write : into[w] # {}} :
                reverting' = reverting \cup UNION {{w} \X into[w] : w \in bad}
          /\ \E other \in SUBSET {w \in Write : mined[w] = {} /\ into[w] # {}} :
                altered' = altered \cup other
    /\ deep' = deep \cup DeepBlocks(head')
    /\ UNCHANGED <<sessionVars, writeVars>>

\* The listeners of the guards of runs under way.
Contradicts(c, p, e) ==
    /\ c.provider = {p}
    /\ CASE e.kind = "accounts" -> e.account # c.account
         [] e.kind = "chain" -> e.chain # c.chain
         [] e.kind = "disconnect" -> TRUE

Announce(p) ==
    /\ Deliver(p)
    /\ run' = [r \in Run |->
          IF /\ run[r].pc # "idle"
             /\ \E c \in attempt[r[1]].context : Contradicts(c, p, Head(events[p]))
          THEN [run[r] EXCEPT !.marked = TRUE] ELSE run[r]]
    /\ UNCHANGED <<chainVars, minedVars, attempt, request, stranded,
                   settled, dismissed, watch>>

\* The panel of the wallet works for the wallet shown.
Busy ==
    \E w \in Write : /\ attempt[w].console = Publisher
                      /\ attempt[w].status \in {"opening", "pending"}
                      /\ MatchesSession(attempt[w].context)

SessionStep ==
    /\ \/ WalletStep
       \/ \E i \in Read : \/ Approve(i) \/ ReadFails(i)
                          \/ \E what \in {"accounts", "chain"} : Answer(i, what)
       \/ /\ Flushed
          /\ ~ Busy
          /\ \E p \in scenario.wallets :
                \/ Connect(p)
                \/ SwitchChain(p) /\ \A c \in Console : ~ Locked(c)
    /\ UNCHANGED <<chainVars, minedVars, writeVars>>

-----------------------------------------------------------------------------
(* waitForPostFeedConfirmation, on the chain of the post.                   *)

Watches(w) ==
    /\ session.status = "connected"
    /\ \A c \in attempt[w].context :
          session.provider = c.provider /\ session.chain = c.chain

Watch(from, next) ==
    /\ watch.pc = from
    /\ watch' = next
    /\ UNCHANGED <<sessionVars, chainVars, minedVars, attempt, run, request, stranded, settled, dismissed>>

Afresh(w) == [NoWatch EXCEPT !.pc = "head", !.post = {w}]
Stopped(w) == [NoWatch EXCEPT !.pc = "stopped", !.post = {w}]

\* The effect of the feed: its context is gone, or it is back.
StopWatching ==
    \E w \in watch.post :
        /\ watch.pc # "off" /\ ~ Watches(w)
        /\ Watch(watch.pc, [NoWatch EXCEPT !.pc = "off", !.post = {w}])

WatchAgain ==
    \E w \in watch.post :
        Watches(w) /\ Watch("off", [watch EXCEPT !.pc = "head"])

WatchHead == Watch("head", [watch EXCEPT !.pc = "receipt", !.head = Height[head]])

IsDeep(h) == \A b \in watch.candidate : h >= Height[b] + Depth

WatchReceipt ==
    \E w \in watch.post :
        LET found == {b \in mined[w] : Canonical(b)}
            deepEnough == found # {} /\ \A b \in found : watch.head >= Height[b] + Depth
        IN  Watch("receipt", IF deepEnough
                             THEN [watch EXCEPT !.pc = "block", !.head = 0,
                                                !.candidate = found]
                             ELSE Afresh(w))

\* The candidate is still in its place.
StillThere == \A b \in watch.candidate : Canonical(b)

WatchBlock ==
    \E w \in watch.post :
        Watch("block", IF StillThere THEN [watch EXCEPT !.pc = "final head"]
                       ELSE Afresh(w))

WatchFinalHead ==
    \E w \in watch.post :
        Watch("final head", IF IsDeep(Height[head]) THEN [watch EXCEPT !.pc = "final block"]
                            ELSE Afresh(w))

\* Mutant: the block is not asked for again.
FoundBefore == TRUE

\* The second look at the block of the receipt.
FoundAgain == StillThere

WatchFinalBlock ==
    \E w \in watch.post :
        Watch("final block",
              IF ~ FoundAgain THEN Afresh(w)
              ELSE IF w \in altered \/ {w} \X watch.candidate \subseteq reverting
                   THEN Stopped(w)
                   ELSE [watch EXCEPT !.pc = "confirmed"])

WatchFails ==
    /\ watch.pc \in {"head", "receipt", "block", "final head", "final block"}
    /\ \E w \in watch.post : Watch(watch.pc, Stopped(w))

WatchStep ==
    \/ StopWatching \/ WatchAgain \/ WatchHead \/ WatchReceipt \/ WatchBlock
    \/ WatchFinalHead \/ WatchFinalBlock \/ WatchFails

-----------------------------------------------------------------------------
Next ==
    \/ \E w \in Write : \/ \E c \in Console : Begin(c, w)
                        \/ Retry(w) \/ Dismiss(w) \/ Decide(w)
    \/ \E p \in Provider : Announce(p)
    \/ Render \/ Effect \/ RunStep \/ SessionStep \/ Grow \/ WatchStep

Spec == Init /\ [][Next]_vars

-----------------------------------------------------------------------------
\* A transaction that the wallet may still send, or has sent, is never lost
\* from view: until a receipt of it was authenticated or the user vouched for
\* it, an attempt of some console shows it and locks every console, through
\* changes of wallet under an open prompt, errors of the wallet, lost
\* answers and reorganizations.
SentIsTracked ==
    \A w \in Write :
        (request[w] \in {"open", "sent"} /\ w \notin settled \cup dismissed) =>
            attempt[w].status \in Unresolved

\* A console reports a transaction as included only while a canonical block
\* holds it, it was not reverted and it emitted the event asked for.
DoneIsIncluded ==
    [][\A w \in Write :
          (attempt[w].status # "done" /\ attempt'[w].status = "done") =>
              \E b \in mined[w] : /\ Canonical(b) /\ <<w, b>> \notin reverting
                                  /\ w \notin altered]_vars

\* The feed refreshes for a post only after the block of its receipt was
\* Depth deep on the canonical branch at one moment, whatever was
\* reorganized between the answers the wait is made of.
ConfirmedIsDeep ==
    watch.pc = "confirmed" => watch.candidate # {} /\ watch.candidate \subseteq deep
=============================================================================
