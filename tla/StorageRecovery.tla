--------------------------- MODULE StorageRecovery ---------------------------
(***************************************************************************)
(* Paid uploads and the journal that survives a reload: the upload panel   *)
(* with uploadFilecoinStorage under it, the recovery panel beside it in    *)
(* the same page, and the IndexedDB journal that all tabs share.           *)
(*                                                                         *)
(* A call of the journal opens the database and makes one transaction.     *)
(* The browser serializes these, those of one tab in the order of the      *)
(* calls; a call takes effect and returns in one step.  An upload is named *)
(* by its random upload id, a provider hash by 1 (the first) or 2 (its     *)
(* replacement).                                                           *)
(***************************************************************************)
EXTENDS Naturals, Sequences, FiniteSets

CONSTANTS
    Tab,         \* the open pages
    Uploader,    \* the tabs whose user uploads
    Attempt,     \* the upload ids there will ever be
    MaxRecords,  \* MAX_FILECOIN_STORAGE_RECOVERY_RECORDS
    MaxReloads   \* bound: how often pages die

ASSUME StorageAssumption ==
    /\ Uploader \subseteq Tab
    /\ MaxRecords \in Nat \ {0}
    /\ MaxReloads \in Nat

VARIABLES
    journal,    \* [recorded attempts -> their transactionHashes]
    discarded,  \* the upload ids with a discard marker
    news,       \* tabs with a broadcast to be delivered
    upload,     \* [Tab -> the operation of the upload panel]
    latest,     \* [Tab -> the upload whose operation id is the newest, if any]
    panel,      \* [Tab -> state of the upload panel]
    calls,      \* [Tab -> journal calls of the upload panel under way]
    recovery,   \* [Tab -> the recovery panel]
    unused,     \* upload ids not drawn yet
    reloads,    \* how often pages have died
    released,   \* uploads with a signature let out; for properties
    settled,    \* [Attempt -> the hashes (0 for none) a user or a receipt has
                \* settled it with]; for properties
    accepted    \* [Attempt -> hashes the journal took]; for properties

ghosts == <<released, settled, accepted>>
stored == <<journal, discarded>>
uploadVars == <<upload, latest, panel, calls>>
vars == <<stored, news, uploadVars, recovery, unused, reloads, ghosts>>

Hash == 1 .. 2

Put(f, a, v) == [x \in DOMAIN f \cup {a} |-> IF x = a THEN v ELSE f[x]]
Drop(f, a) == [x \in DOMAIN f \ {a} |-> f[x]]
Nothing == [x \in {} |-> {}]

\* attempt is empty or the one upload the operation or the panel is about.
NoUpload == [phase |-> "none", attempt |-> {}, hash |-> 0]
IdlePanel == [kind |-> "idle", attempt |-> {}, hash |-> 0, warning |-> FALSE]
Mounted ==
    [load |-> "loading", records |-> Nothing, read |-> Nothing,
     action |-> "none", target |-> {}, discard |-> FALSE,
     changePending |-> FALSE, outcome |-> {}]

Init ==
    /\ journal = Nothing
    /\ discarded = {}
    /\ news = {}
    /\ upload = [t \in Tab |-> NoUpload]
    /\ latest = [t \in Tab |-> {}]
    /\ panel = [t \in Tab |-> IdlePanel]
    /\ calls = [t \in Tab |-> <<>>]
    /\ recovery = [t \in Tab |-> Mounted]
    /\ unused = Attempt
    /\ reloads = 0
    /\ released = {}
    /\ settled = [a \in Attempt |-> {}]
    /\ accepted = [a \in Attempt |-> {}]

-----------------------------------------------------------------------------
(* The locks of one page.                                                   *)

\* stateLocksWrites.  The kind "idle" is also that of a rejected attempt or
\* an error, "preparing" that of the upload, "confirmed" that of a data set
\* without the piece.
UploadLocks(t) ==
    panel[t].kind \in {"preparing", "signing", "pending", "checking",
                       "ambiguous", "unknown"}

RecoveryLocks(t) ==
    recovery[t].load # "ready" \/ DOMAIN recovery[t].records # {}

\* Each panel is disabled while the other one locks writes.
UploadEnabled(t) == ~ RecoveryLocks(t)
RecoveryEnabled(t) == ~ UploadLocks(t)

-----------------------------------------------------------------------------
(* The journal.                                                             *)

\* Mutant: a discard marker is not looked at.
TakesAgain(a) == a \in DOMAIN journal \/ Cardinality(DOMAIN journal) < MaxRecords

\* mutateRecord: a discarded upload id is refused, and so is a new record when
\* there are enough.
Takes(a) ==
    /\ a \notin discarded
    /\ a \in DOMAIN journal \/ Cardinality(DOMAIN journal) < MaxRecords

Record(a, hashes) ==
    journal' = Put(journal, a, (IF a \in DOMAIN journal THEN journal[a] ELSE {})
                               \cup hashes)

\* A call of the upload panel takes effect: stage, markSubmitted or remove.
Effect(c) ==
    \/ /\ c.do = "stage"
       /\ Takes(c.attempt)
       /\ Record(c.attempt, {})
       /\ UNCHANGED accepted
    \/ /\ c.do = "submit"
       /\ Takes(c.attempt)
       /\ Record(c.attempt, {c.hash})
       /\ accepted' = [accepted EXCEPT ![c.attempt] = @ \cup {c.hash}]
    \/ /\ c.do = "remove"
       /\ journal' = Drop(journal, c.attempt)
       /\ UNCHANGED accepted

\* Mutant: a change during an action of the panel is missed.
RereadWhenIdle(r) ==
    IF r.action # "none" THEN r
    ELSE [r EXCEPT !.load = "loading", !.records = Nothing, !.read = Nothing]

\* loadRecoveries, when it is called or when the journal reports a change: a
\* change during an action of the panel is kept for later.
Reread(r) ==
    IF r.action # "none" THEN [r EXCEPT !.changePending = TRUE]
    ELSE [r EXCEPT !.load = "loading", !.records = Nothing, !.read = Nothing]

\* finishAction
Finish(r) ==
    LET done == [r EXCEPT !.action = "none", !.target = {}, !.discard = FALSE]
    IN  IF r.changePending THEN Reread([done EXCEPT !.changePending = FALSE]) ELSE done

\* notify: the listeners of this tab are called at once, other tabs get a message.
Publish(t) == news' = news \cup (Tab \ {t})

-----------------------------------------------------------------------------
(* The upload panel and uploadFilecoinStorage.                              *)

Operate(t, phase, a, h) ==
    upload' = [upload EXCEPT ![t] = [phase |-> phase, attempt |-> {a}, hash |-> h]]

Rest(t) == upload' = [upload EXCEPT ![t] = NoUpload]

Show(t, kind, a, h) ==
    panel' = [panel EXCEPT ![t] =
        [kind |-> kind, attempt |-> {a}, hash |-> h, warning |-> FALSE]]

ShowIdle(t) == panel' = [panel EXCEPT ![t] = IdlePanel]

\* A mounted upload panel whose buttons work and that is not busy.
Ready(t) == UploadEnabled(t) /\ upload[t].phase = "none"

Call(t, do, a, h) ==
    calls' = [calls EXCEPT ![t] = Append(@, [do |-> do, attempt |-> a, hash |-> h])]

\* runUpload
RunUpload(t, a) ==
    /\ t \in Uploader
    /\ Ready(t)
    /\ panel[t].kind = "idle"
    /\ a \in unused
    /\ unused' = unused \ {a}
    /\ Operate(t, "preparing", a, 0)
    /\ Show(t, "preparing", a, 0)
    /\ latest' = [latest EXCEPT ![t] = {a}]
    /\ UNCHANGED <<stored, news, calls, recovery, reloads, ghosts>>

\* onStored: the provider has the bytes, the checkpoint is staged.
Stored(t) ==
    /\ upload[t].phase = "preparing"
    /\ \E a \in upload[t].attempt :
          /\ Operate(t, "staging", a, 0)
          /\ Call(t, "stage", a, 0)
    /\ UNCHANGED <<stored, news, latest, panel, recovery, unused, reloads, ghosts>>

\* The first signature is given to the adapter; it alone may cost a fee.  What
\* remains to be authorized is part of the phase "released".
Release(t) ==
    /\ upload[t].phase = "signing"
    /\ \E a \in upload[t].attempt :
          /\ Operate(t, "released", a, 0)
          /\ released' = released \cup {a}
    /\ UNCHANGED <<stored, news, latest, panel, calls, recovery, unused, reloads,
                   settled, accepted>>

\* onSubmitted: the provider reports a hash, or the result of the upload
\* carries another one.
Submitted(t) ==
    /\ \/ upload[t].phase = "released"
       \/ upload[t].phase = "awaiting" /\ upload[t].hash = 1
    /\ \E a \in upload[t].attempt, h \in {upload[t].hash + 1} :
          /\ Operate(t, "recording", a, h)
          /\ Call(t, "submit", a, h)
    /\ UNCHANGED <<stored, news, latest, panel, recovery, unused, reloads, ghosts>>

Settle(a, h) == settled' = [settled EXCEPT ![a] = @ \cup (0 .. h)]

\* The receipt of the newest hash is authenticated, in the upload or in a later
\* check; the recovery entry is removed.
Authenticated(t) ==
    /\ upload[t].phase \in {"awaiting", "checking"}
    /\ \E a \in upload[t].attempt :
          /\ Operate(t, "clearing", a, upload[t].hash)
          /\ Call(t, "remove", a, 0)
          /\ Settle(a, upload[t].hash)
    /\ UNCHANGED <<stored, news, latest, panel, recovery, unused, reloads,
                   released, accepted>>

\* Mutant: only an attempt with a hash is kept.
FailWithoutHash(t) ==
    /\ \/ /\ upload[t].phase \in {"preparing", "staging"}
          /\ Rest(t)
          /\ ShowIdle(t)
          /\ UNCHANGED calls
       \/ /\ upload[t].phase \in {"signing", "released"}
          /\ \E a \in upload[t].attempt :
                /\ Operate(t, "cleaning", a, 0)
                /\ Call(t, "remove", a, 0)
          /\ UNCHANGED panel
       \/ /\ upload[t].phase \in {"recording", "awaiting", "checking"}
          /\ \E a \in upload[t].attempt : Show(t, "unknown", a, upload[t].hash)
          /\ Rest(t)
          /\ UNCHANGED calls
    /\ UNCHANGED <<stored, news, latest, recovery, unused, reloads, ghosts>>

\* The upload throws at any await: a refusal, a failure of the provider, a
\* deadline, or the abort that a change of wallet, chain or media triggers.
\* What was staged is removed if nothing can have been authorized, and only if
\* staging has finished.  A receipt check that throws leaves all as it was.
Fail(t) ==
    /\ \/ /\ upload[t].phase \in {"preparing", "staging"}
          /\ Rest(t)
          /\ ShowIdle(t)
          /\ UNCHANGED calls
       \/ /\ upload[t].phase = "signing"
          /\ \E a \in upload[t].attempt :
                /\ Operate(t, "cleaning", a, 0)
                /\ Call(t, "remove", a, 0)
          /\ UNCHANGED panel
       \/ /\ upload[t].phase = "released"
          /\ \E a \in upload[t].attempt : Show(t, "ambiguous", a, 0)
          /\ Rest(t)
          /\ UNCHANGED calls
       \/ /\ upload[t].phase \in {"recording", "awaiting", "checking"}
          /\ \E a \in upload[t].attempt : Show(t, "unknown", a, upload[t].hash)
          /\ Rest(t)
          /\ UNCHANGED calls
    /\ UNCHANGED <<stored, news, latest, recovery, unused, reloads, ghosts>>

\* retryReceipt
CheckReceipt(t) ==
    /\ Ready(t)
    /\ panel[t].kind = "unknown"
    /\ \E a \in panel[t].attempt :
          /\ Operate(t, "checking", a, panel[t].hash)
          /\ Show(t, "checking", a, panel[t].hash)
    /\ latest' = [latest EXCEPT ![t] = {}]
    /\ UNCHANGED <<stored, news, calls, recovery, unused, reloads, ghosts>>

\* dismissRecovery: the user has looked after the attempt.
Dismiss(t) ==
    /\ Ready(t)
    /\ panel[t].kind \in {"ambiguous", "unknown"}
    /\ \E a \in panel[t].attempt :
          /\ Operate(t, "dismissing", a, panel[t].hash)
          /\ Call(t, "remove", a, 0)
          /\ Settle(a, panel[t].hash)
    /\ latest' = [latest EXCEPT ![t] = {}]
    /\ UNCHANGED <<stored, news, panel, recovery, unused, reloads, released,
                   accepted>>

\* retryRecoveryCleanup
Tidy(t) ==
    /\ Ready(t)
    /\ \/ panel[t].kind = "confirmed" /\ panel[t].warning
       \/ panel[t].kind = "cleanup"
    /\ \E a \in panel[t].attempt :
          /\ Operate(t, "tidying", a, 0)
          /\ Call(t, "remove", a, 0)
    /\ latest' = [latest EXCEPT ![t] = {}]
    /\ UNCHANGED <<stored, news, panel, recovery, unused, reloads, ghosts>>

\* reset
Reset(t) ==
    /\ Ready(t)
    /\ panel[t].kind = "confirmed"
    /\ ~ panel[t].warning
    /\ ShowIdle(t)
    /\ latest' = [latest EXCEPT ![t] = {}]
    /\ UNCHANGED <<stored, news, upload, calls, recovery, unused, reloads, ghosts>>

\* A confirmation is not shown to another wallet or for other media.
ContextChange(t) ==
    /\ panel[t].kind = "confirmed"
    /\ panel' = [panel EXCEPT ![t] =
          IF @.warning THEN [@ EXCEPT !.kind = "cleanup"] ELSE IdlePanel]
    /\ UNCHANGED <<stored, news, upload, latest, calls, recovery, unused, reloads,
                   ghosts>>

\* The upload panel is unmounted: its upload is aborted and nothing that it
\* still hears changes a panel mounted later.
Close(t) ==
    /\ upload[t].phase # "none" \/ panel[t].kind # "idle"
    /\ Rest(t)
    /\ ShowIdle(t)
    /\ latest' = [latest EXCEPT ![t] = {}]
    /\ \/ /\ upload[t].phase = "signing"
          /\ \E a \in upload[t].attempt : Call(t, "remove", a, 0)
       \/ upload[t].phase # "signing" /\ UNCHANGED calls
    /\ UNCHANGED <<stored, news, recovery, unused, reloads, ghosts>>

-----------------------------------------------------------------------------
(* Journal calls of the upload panel return.                                *)

\* The operation that made the call is still the one of the panel.
InTime(t, c, phase) == upload[t].phase = phase /\ c.attempt \in upload[t].attempt

Took(t, c) ==
    /\ Effect(c)
    /\ calls' = [calls EXCEPT ![t] = Tail(@)]
    /\ Publish(t)
    /\ recovery' = [recovery EXCEPT ![t] = Reread(@)]
    /\ UNCHANGED <<discarded, unused, reloads, released, settled>>

Refused(t) ==
    /\ calls' = [calls EXCEPT ![t] = Tail(@)]
    /\ UNCHANGED <<stored, news, recovery, unused, reloads, ghosts>>

\* What onStored and onSubmitted do after their call: the panel shows it while
\* no later operation has begun, also when the upload has ended meanwhile.
ShowProgress(t, kind, c) ==
    \/ c.attempt \in latest[t] /\ Show(t, kind, c.attempt, c.hash)
    \/ c.attempt \notin latest[t] /\ UNCHANGED panel

StageDone(t) ==
    \E c \in {Head(calls[t])} :
        /\ c.do = "stage"
        /\ \/ InTime(t, c, "staging") /\ Operate(t, "signing", c.attempt, 0)
           \/ ~ InTime(t, c, "staging") /\ UNCHANGED upload
        /\ ShowProgress(t, "signing", c)
        /\ Took(t, c)
        /\ UNCHANGED latest

\* The upload is aborted.
StageFails(t) ==
    \E c \in {Head(calls[t])} :
        /\ c.do = "stage"
        /\ \/ InTime(t, c, "staging") /\ Rest(t) /\ ShowIdle(t)
           \/ ~ InTime(t, c, "staging") /\ UNCHANGED <<upload, panel>>
        /\ Refused(t)
        /\ UNCHANGED latest

SubmitDone(t) ==
    \E c \in {Head(calls[t])} :
        /\ c.do = "submit"
        /\ \/ InTime(t, c, "recording") /\ Operate(t, "awaiting", c.attempt, c.hash)
           \/ ~ InTime(t, c, "recording") /\ UNCHANGED upload
        /\ ShowProgress(t, "pending", c)
        /\ Took(t, c)
        /\ UNCHANGED latest

SubmitFails(t) ==
    \E c \in {Head(calls[t])} :
        /\ c.do = "submit"
        /\ \/ /\ InTime(t, c, "recording")
              /\ Rest(t)
              /\ Show(t, "unknown", c.attempt, c.hash)
           \/ ~ InTime(t, c, "recording") /\ UNCHANGED <<upload, panel>>
        /\ Refused(t)
        /\ UNCHANGED latest

Removing == {"cleaning", "clearing", "dismissing", "tidying"}

\* The entry is gone.  A confirmation is shown unless it belongs to another
\* wallet or other media by now.
RemoveDone(t) ==
    \E c \in {Head(calls[t])} :
        /\ c.do = "remove"
        /\ \/ \E phase \in Removing : InTime(t, c, phase) /\ Rest(t) /\ ShowIdle(t)
           \/ /\ InTime(t, c, "clearing")
              /\ Rest(t)
              /\ Show(t, "confirmed", c.attempt, 0)
           \/ /\ \A phase \in Removing : ~ InTime(t, c, phase)
              /\ UNCHANGED <<upload, panel>>
        /\ Took(t, c)
        /\ UNCHANGED latest

\* The entry could not be removed: a button to try again remains.
RemoveFails(t) ==
    \E c \in {Head(calls[t])} :
        /\ c.do = "remove"
        /\ \/ /\ \E phase \in Removing \ {"dismissing"} : InTime(t, c, phase)
              /\ Rest(t)
              /\ Show(t, "cleanup", c.attempt, 0)
           \/ /\ \E phase \in {"clearing", "tidying"} : InTime(t, c, phase)
              /\ upload[t].phase = "tidying" => panel[t].kind = "confirmed"
              /\ Rest(t)
              /\ panel' = [panel EXCEPT ![t] =
                    [kind |-> "confirmed", attempt |-> {c.attempt}, hash |-> 0,
                     warning |-> TRUE]]
           \/ InTime(t, c, "dismissing") /\ Rest(t) /\ UNCHANGED panel
           \/ /\ \A phase \in Removing : ~ InTime(t, c, phase)
              /\ UNCHANGED <<upload, panel>>
        /\ Refused(t)
        /\ UNCHANGED latest

Return(t) ==
    /\ calls[t] # <<>>
    /\ \/ StageDone(t)
       \/ StageFails(t)
       \/ SubmitDone(t)
       \/ SubmitFails(t)
       \/ RemoveDone(t)
       \/ RemoveFails(t)

-----------------------------------------------------------------------------
(* The recovery panel.                                                      *)

Recover(t, r) ==
    /\ recovery' = [recovery EXCEPT ![t] = r]
    /\ UNCHANGED <<uploadVars, unused, reloads, released, accepted>>

\* A message of another tab arrives.
Hear(t) ==
    /\ t \in news
    /\ news' = news \ {t}
    /\ Recover(t, Reread(recovery[t]))
    /\ UNCHANGED <<stored, settled>>

\* The list that loadRecoveries asked for last is read ...
List(t) ==
    /\ recovery[t].load = "loading"
    /\ \/ Recover(t, [recovery[t] EXCEPT !.load = "listed", !.read = journal])
       \/ Recover(t, [recovery[t] EXCEPT !.load = "error"])
    /\ UNCHANGED <<stored, news, settled>>

\* ... and shown.
ShowList(t) ==
    /\ recovery[t].load = "listed"
    /\ Recover(t, [recovery[t] EXCEPT !.load = "ready", !.records = recovery[t].read,
                                      !.read = Nothing])
    /\ UNCHANGED <<stored, news, settled>>

\* The buttons that read the records again.
Refresh(t) ==
    /\ RecoveryEnabled(t)
    /\ \/ recovery[t].load = "error"
       \/ /\ recovery[t].load = "ready"
          /\ recovery[t].action = "none"
          /\ DOMAIN recovery[t].records # {}
    /\ Recover(t, Reread(recovery[t]))
    /\ UNCHANGED <<stored, news, settled>>

Newest(hashes) == IF 2 \in hashes THEN 2 ELSE IF 1 \in hashes THEN 1 ELSE 0

\* outcomeAwaitingCleanup: a receipt was authenticated and its entry is there
\* with no newer hash.
AwaitsCleanup(r) ==
    {a \in DOMAIN r.records : <<a, Newest(r.records[a])>> \in r.outcome}

Selectable(t, a) ==
    /\ RecoveryEnabled(t)
    /\ recovery[t].load = "ready"
    /\ recovery[t].action = "none"
    /\ a \in DOMAIN recovery[t].records

Act(t, action, a, discard) ==
    Recover(t, [recovery[t] EXCEPT !.action = action, !.target = {a},
                                   !.discard = discard])

\* removeRecord: the user discards a record, or has an authenticated one
\* cleared again.
RemoveRecord(t, a) ==
    /\ Selectable(t, a)
    /\ \/ AwaitsCleanup(recovery[t]) = {} /\ Act(t, "removing", a, TRUE)
       \/ a \in AwaitsCleanup(recovery[t]) /\ Act(t, "removing", a, FALSE)
    /\ UNCHANGED <<stored, news, settled>>

\* checkRecovery: the receipt of the newest hash is looked for.
CheckRecovery(t, a) ==
    /\ Selectable(t, a)
    /\ AwaitsCleanup(recovery[t]) = {}
    /\ recovery[t].records[a] # {}
    /\ Act(t, "checking", a, FALSE)
    /\ UNCHANGED <<stored, news, settled>>

CheckReturns(t) ==
    /\ recovery[t].action = "checking"
    /\ \/ \E a \in recovery[t].target :
             Recover(t, [recovery[t] EXCEPT
                !.action = "removing",
                !.outcome = {<<a, Newest(recovery[t].records[a])>>}])
       \/ Recover(t, Finish(recovery[t]))
    /\ UNCHANGED <<stored, news, settled>>

\* Mutant: what was clicked is deleted.
RemoveClicked(t) ==
    /\ recovery[t].action = "removing"
    /\ \E a \in recovery[t].target :
          LET r == recovery[t]
              seen == r.records[a]
          IN  /\ journal' = Drop(journal, a)
              /\ discarded' = discarded \cup {a}
              /\ Publish(t)
              /\ settled' = [settled EXCEPT ![a] = @ \cup {0} \cup seen]
              /\ Recover(t, Finish([Reread(r) EXCEPT
                    !.records = Drop(@, a),
                    !.outcome = IF r.discard THEN {o \in @ : o[1] # a} ELSE @]))

\* removeIfUnchanged deletes what the user saw, or what is not there, and
\* leaves a discard marker.
RemoveIfUnchanged(t) ==
    /\ recovery[t].action = "removing"
    /\ \E a \in recovery[t].target :
          LET r == recovery[t]
              seen == r.records[a]
          IN  /\ a \in DOMAIN journal => journal[a] = seen
              /\ journal' = Drop(journal, a)
              /\ discarded' = discarded \cup {a}
              /\ Publish(t)
              /\ settled' = [settled EXCEPT ![a] = @ \cup {0} \cup seen]
              /\ Recover(t, Finish([Reread(r) EXCEPT
                    !.records = Drop(@, a),
                    !.outcome = IF r.discard THEN {o \in @ : o[1] # a} ELSE @]))

\* The record changed: the newest ones are listed and shown.
Changed(t) ==
    /\ recovery[t].action = "removing"
    /\ \E a \in recovery[t].target :
          LET r == recovery[t]
          IN  /\ a \in DOMAIN journal
              /\ journal[a] # r.records[a]
              /\ Recover(t, Finish([r EXCEPT
                    !.records = journal,
                    !.outcome = IF r.discard THEN @ ELSE {}]))
    /\ UNCHANGED <<stored, news, settled>>

\* The removal, or the list after it, fails.
ActionFails(t) ==
    /\ recovery[t].action = "removing"
    /\ Recover(t, Finish(recovery[t]))
    /\ UNCHANGED <<stored, news, settled>>

\* The result of a recovery is dismissed.
DismissOutcome(t) ==
    /\ recovery[t].outcome # {}
    /\ recovery[t].load = "ready"
    /\ AwaitsCleanup(recovery[t]) = {}
    /\ Recover(t, [recovery[t] EXCEPT !.outcome = {}])
    /\ UNCHANGED <<stored, news, settled>>

-----------------------------------------------------------------------------
\* A page dies and is opened again.  Its calls are lost; the transaction of the
\* first one may still be committed, and nobody is told.
Reload(t) ==
    /\ reloads < MaxReloads
    /\ reloads' = reloads + 1
    /\ upload' = [upload EXCEPT ![t] = NoUpload]
    /\ latest' = [latest EXCEPT ![t] = {}]
    /\ panel' = [panel EXCEPT ![t] = IdlePanel]
    /\ calls' = [calls EXCEPT ![t] = <<>>]
    /\ recovery' = [recovery EXCEPT ![t] = Mounted]
    /\ news' = news \ {t}
    /\ \/ UNCHANGED <<journal, accepted>>
       \/ calls[t] # <<>> /\ Effect(Head(calls[t]))
    /\ UNCHANGED <<discarded, unused, released, settled>>

UploadStep(t) ==
    \/ \E a \in Attempt : RunUpload(t, a)
    \/ Stored(t)
    \/ Release(t)
    \/ Submitted(t)
    \/ Authenticated(t)
    \/ Fail(t)
    \/ CheckReceipt(t)
    \/ Dismiss(t)
    \/ Tidy(t)
    \/ Reset(t)
    \/ ContextChange(t)
    \/ Close(t)
    \/ Return(t)

RecoveryStep(t) ==
    \/ Hear(t)
    \/ List(t)
    \/ ShowList(t)
    \/ Refresh(t)
    \/ \E a \in Attempt : RemoveRecord(t, a) \/ CheckRecovery(t, a)
    \/ CheckReturns(t)
    \/ RemoveIfUnchanged(t)
    \/ Changed(t)
    \/ ActionFails(t)
    \/ DismissOutcome(t)

Next == \E t \in Tab : UploadStep(t) \/ RecoveryStep(t) \/ Reload(t)

Spec == Init /\ [][Next]_vars

-----------------------------------------------------------------------------
(* What the journal is for.                                                 *)

Records == UNION {[S -> SUBSET Hash] : S \in SUBSET Attempt}

Phases == {"none", "preparing", "staging", "signing", "released", "recording",
           "awaiting", "checking"} \cup Removing

\* Every variable has its type.
TypeOK ==
    /\ journal \in Records
    /\ discarded \subseteq Attempt
    /\ news \subseteq Tab
    /\ upload \in [Tab -> [phase : Phases, attempt : SUBSET Attempt, hash : 0 .. 2]]
    /\ latest \in [Tab -> SUBSET Attempt]
    /\ panel \in [Tab -> [kind : {"idle", "preparing", "signing", "pending",
                                  "checking", "ambiguous", "unknown",
                                  "confirmed", "cleanup"},
                          attempt : SUBSET Attempt, hash : 0 .. 2,
                          warning : BOOLEAN]]
    /\ \A t \in Tab : \A i \in DOMAIN calls[t] :
          calls[t][i] \in [do : {"stage", "submit", "remove"},
                           attempt : Attempt, hash : 0 .. 2]
    /\ recovery \in [Tab -> [load : {"loading", "listed", "ready", "error"},
                             records : Records, read : Records,
                             action : {"none", "checking", "removing"},
                             target : SUBSET Attempt, discard : BOOLEAN,
                             changePending : BOOLEAN,
                             outcome : SUBSET (Attempt \X Hash)]]
    /\ unused \subseteq Attempt
    /\ released \subseteq Attempt
    /\ settled \in [Attempt -> SUBSET (0 .. 2)]
    /\ accepted \in [Attempt -> SUBSET Hash]

Unresolved == {a \in released : settled[a] = {}}

\* An upload that may have cost a fee is in the journal until a receipt or a
\* user settles it, whichever panel of whichever tab fails, closes or reloads.
ReleasedIsRecorded == Unresolved \subseteq DOMAIN journal

\* While there is such an upload every tab locks its wallet writes, or is about
\* to be told.
ReleasedLocksEveryTab ==
    Unresolved # {} => \A t \in Tab : RecoveryLocks(t) \/ t \in news

\* A hash the journal took is not lost before somebody saw it: a replacement
\* survives a removal that was decided on for an older hash.
HashesAreSeen ==
    \A a \in Attempt :
        accepted[a] \subseteq settled[a] \cup
                              (IF a \in DOMAIN journal THEN journal[a] ELSE {})

\* A hash that comes late does not bring a discarded record back.
DiscardedStaysGone == DOMAIN journal \cap discarded = {}

\* A tab whose panels have settled down, and whose upload panel locks writes for
\* an upload that nobody works on, has a button to do something about it.
LockHasControl ==
    \A t \in Tab :
        (/\ panel[t].kind \in {"ambiguous", "unknown"}
         /\ upload[t].phase = "none"
         /\ calls[t] = <<>>
         /\ recovery[t].load = "ready"
         /\ recovery[t].action = "none"
         /\ t \notin news)
        => \/ UploadEnabled(t)
           \/ RecoveryEnabled(t) /\ DOMAIN recovery[t].records # {}
=============================================================================
