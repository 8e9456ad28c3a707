------------------------ MODULE WalletWrites_proofs ------------------------
(***************************************************************************)
(* Theorems about WalletWrites: for any wallets, consoles and writes, on   *)
(* any chain.                                                              *)
(***************************************************************************)
EXTENDS WalletWrites, SequenceTheorems, TLAPS

-----------------------------------------------------------------------------
(* Types.                                                                   *)

Statuses == Shown \cup {"none", "done", "gone"}

Early == {"guard", "check"}
Submitted == {"waiting", "receipt", "recheck", "block"}
Pcs == {"idle", "prompt"} \cup Early \cup Submitted

ContextType ==
    [provider : SUBSET Provider, account : SUBSET Account, chain : SUBSET ChainId]

AttemptType ==
    [status : Statuses, console : Console, context : SUBSET ContextType,
     hash : BOOLEAN, active : BOOLEAN]

RunType == [pc : Pcs, marked : BOOLEAN, receipt : SUBSET Block]

WalletType == [account : SUBSET Account, chain : ChainId, up : BOOLEAN]

EventType ==
    [kind : {"accounts", "chain", "disconnect"}, account : SUBSET Account,
     chain : SUBSET ChainId]

ReadType ==
    [phase : {"idle", "approval", "reading"}, asked : BOOLEAN,
     kind : {"refresh", "connect"}, provider : SUBSET Provider,
     answered : SUBSET {"accounts", "chain"}, account : SUBSET Account,
     chain : SUBSET ChainId, changed : BOOLEAN, lost : BOOLEAN, tries : Nat]

SessionType ==
    [status : {"connecting", "connected", "disconnected"},
     provider : SUBSET Provider, account : SUBSET Account, chain : SUBSET ChainId]

WatchType ==
    [pc : {"none", "off", "head", "receipt", "block", "final head", "final block",
           "confirmed", "stopped"},
     post : SUBSET Write, head : Nat, candidate : SUBSET Block]

SessionTypeOK ==
    /\ scenario \in Scenario
    /\ changes \in Nat
    /\ wallet \in [Provider -> WalletType]
    /\ events \in [Provider -> Seq(EventType)]
    /\ session \in SessionType
    /\ current \subseteq Read
    /\ reads \in [Read -> ReadType]

WritesTypeOK ==
    /\ attempt \in [Write -> AttemptType]
    /\ run \in [Run -> RunType]
    /\ request \in [Write -> {"none", "open", "sent", "rejected"}]
    /\ stranded \subseteq Write
    /\ settled \subseteq Write
    /\ dismissed \subseteq Write
    /\ watch \in WatchType

MinedTypeOK ==
    /\ mined \in [Write -> SUBSET Block]
    /\ reverting \subseteq Write \X Block
    /\ altered \subseteq Write
    /\ deep \subseteq Block

TypeOK == SessionTypeOK /\ ChainTypeOK /\ WritesTypeOK /\ MinedTypeOK

-----------------------------------------------------------------------------
(* The strengthenings.                                                      *)

\* What a run knows of its attempt.  A hash is kept for good, so a check of a
\* receipt cannot lose it; before the prompt opens nothing was sent.
Follows(w) ==
    LET first == run[<<w, "first">>].pc
    IN  /\ attempt[w].status = "none" =>
              request[w] = "none" /\ ~ attempt[w].hash /\ first = "idle"
        /\ first \in Early =>
              /\ request[w] = "none"
              /\ attempt[w].status \in Unresolved \/ w \in dismissed
        /\ first \in Early \cup {"prompt"} => ~ attempt[w].hash
        /\ first \in Submitted /\ attempt[w].active => attempt[w].hash
        /\ run[<<w, "again">>].pc # "idle" => attempt[w].hash

\* SentIsTracked, of one write.
IsTracked(w) ==
    request[w] \in {"open", "sent"} /\ w \notin settled \cup dismissed =>
        attempt[w].status \in Unresolved

Tracking == \A w \in Write : Follows(w) /\ IsTracked(w)

\* A wait that has seen its candidate twice, with a head in between that is
\* deep enough, has seen it deep, or the candidate is abandoned.
WatchInv ==
    /\ Ancestors[head] \cap orphaned = {}
    /\ \A w \in Write : /\ mined[w] \subseteq EverCanonical
                        /\ mined[w] # {} => DeepBlocks(head) \subseteq deep
    /\ \A b \in watch.candidate : \E w \in Write : b \in mined[w]
    /\ watch.pc \in {"block", "final head", "final block", "confirmed"} =>
          watch.candidate # {}
    /\ watch.pc = "final block" => watch.candidate \subseteq deep \cup orphaned
    /\ watch.pc = "confirmed" => watch.candidate \subseteq deep

-----------------------------------------------------------------------------
(* Types are kept.  First the session.                                      *)

LEMMA SessionInitTypes == SessionInit => SessionTypeOK
<1>. SUFFICES ASSUME SessionInit  PROVE SessionTypeOK
  OBVIOUS
<1>1. wallet \in [Provider -> WalletType]
  <2>1. \A account \in AtMostOne(Account) : account \in SUBSET Account
    BY DEF AtMostOne
  <2>2. [account : AtMostOne(Account), chain : ChainId, up : {TRUE}] \subseteq WalletType
    BY <2>1 DEF WalletType
  <2>3. wallet \in [Provider -> [account : AtMostOne(Account), chain : ChainId, up : {TRUE}]]
    BY DEF SessionInit
  <2>. QED
    BY <2>2, <2>3
<1>2. events \in [Provider -> Seq(EventType)]
  <2>1. <<>> \in Seq(EventType)
    BY EmptySeq
  <2>. QED
    BY <2>1 DEF SessionInit
<1>3. session \in SessionType
  BY DEF SessionInit, SessionType
<1>4. reads \in [Read -> ReadType]
  BY DEF SessionInit, Idle, ReadType
<1>. QED
  BY <1>1, <1>2, <1>3, <1>4 DEF SessionInit, SessionTypeOK

\* A wallet changes, and will say so.
LEMMA TellsTypes ==
    ASSUME SessionTypeOK, NEW p \in Provider, NEW new \in WalletType,
           NEW told \in Seq(EventType), Tells(p, new, told)
    PROVE  /\ changes' \in Nat
           /\ wallet' \in [Provider -> WalletType]
           /\ events' \in [Provider -> Seq(EventType)]
<1>1. events[p] \o told \in Seq(EventType)
  BY ConcatProperties DEF SessionTypeOK
<1>. QED
  BY <1>1 DEF Tells, SessionTypeOK

LEMMA OneEvent ==
    ASSUME NEW kind \in {"accounts", "chain", "disconnect"},
           NEW account \in SUBSET Account, NEW chain \in SUBSET ChainId
    PROVE  <<Event(kind, account, chain)>> \in Seq(EventType)
<1>1. Event(kind, account, chain) \in EventType
  BY DEF Event, EventType
<1>. QED
  BY <1>1

LEMMA WalletTypes ==
    ASSUME SessionTypeOK, WalletStep
    PROVE  SessionTypeOK'
<1>. PICK p \in scenario.wallets :
         ChangeAccount(p) \/ ChangeChain(p) \/ Disconnect(p) \/ Reconnect(p)
  BY DEF WalletStep
<1>0. p \in Provider /\ wallet[p] \in WalletType
  BY SessionAssumption DEF SessionTypeOK
<1>1. ASSUME NEW new \in WalletType, NEW told \in Seq(EventType), Changes(p, new, told)
      PROVE  SessionTypeOK'
  BY <1>0, <1>1, TellsTypes DEF Changes, SessionTypeOK
<1>2. CASE ChangeAccount(p)
  <2>1. PICK account \in AtMostOne(Account) :
           Changes(p, [wallet[p] EXCEPT !.account = account],
                   <<Event("accounts", account, {})>>)
    BY <1>2 DEF ChangeAccount
  <2>2. account \in SUBSET Account
    BY DEF AtMostOne
  <2>3. [wallet[p] EXCEPT !.account = account] \in WalletType
    BY <1>0, <2>2 DEF WalletType
  <2>4. <<Event("accounts", account, {})>> \in Seq(EventType)
    BY <2>2, OneEvent
  <2>. QED
    BY <1>1, <2>1, <2>3, <2>4
<1>3. CASE ChangeChain(p)
  <2>1. PICK chain \in ChainId :
           Changes(p, [wallet[p] EXCEPT !.chain = chain],
                   <<Event("chain", {}, {chain})>>)
    BY <1>3 DEF ChangeChain
  <2>2. [wallet[p] EXCEPT !.chain = chain] \in WalletType
    BY <1>0 DEF WalletType
  <2>3. <<Event("chain", {}, {chain})>> \in Seq(EventType)
    BY OneEvent
  <2>. QED
    BY <1>1, <2>1, <2>2, <2>3
<1>4. CASE Disconnect(p)
  <2>1. [wallet[p] EXCEPT !.up = FALSE] \in WalletType
    BY <1>0 DEF WalletType
  <2>2. <<Event("disconnect", {}, {})>> \in Seq(EventType)
    BY OneEvent
  <2>. QED
    BY <1>1, <1>4, <2>1, <2>2 DEF Disconnect
<1>5. CASE Reconnect(p)
  <2>1. [wallet[p] EXCEPT !.up = TRUE] \in WalletType
    BY <1>0 DEF WalletType
  <2>2. <<>> \in Seq(EventType)
    BY EmptySeq
  <2>. QED
    BY <1>1, <1>5, <2>1, <2>2 DEF Reconnect
<1>. QED
  BY <1>2, <1>3, <1>4, <1>5

LEMMA IdleType == Idle \in ReadType
  BY DEF Idle, ReadType

LEMMA FailedTypes ==
    ASSUME SessionTypeOK, NEW i \in Read, Failed(i)
    PROVE  reads' \in [Read -> ReadType] /\ session' \in SessionType
<1>1. reads' \in [Read -> ReadType]
  BY IdleType DEF Failed, SessionTypeOK
<1>2. session' \in SessionType
  <2>1. session \in SessionType
    BY DEF SessionTypeOK
  <2>. QED
    BY <2>1 DEF Failed, SessionType
<1>. QED
  BY <1>1, <1>2

LEMMA SucceededTypes ==
    ASSUME SessionTypeOK, NEW i \in Read, NEW account \in SUBSET Account,
           NEW chain \in SUBSET ChainId, Succeeded(i, account, chain)
    PROVE  reads' \in [Read -> ReadType] /\ session' \in SessionType
<1>1. CASE reads[i].kind = "connect" /\ account = {}
  BY <1>1, FailedTypes DEF Succeeded
<1>2. CASE ~ (reads[i].kind = "connect" /\ account = {})
  <2>1. reads' \in [Read -> ReadType]
    BY <1>2, IdleType DEF Succeeded, SessionTypeOK
  <2>2. session \in SessionType
    BY DEF SessionTypeOK
  <2>3. session' \in SessionType
    BY <1>2, <2>2 DEF Succeeded, SessionType
  <2>. QED
    BY <2>1, <2>3
<1>. QED
  BY <1>1, <1>2

LEMMA AnswerTypes ==
    ASSUME SessionTypeOK, NEW i \in Read, NEW what \in {"accounts", "chain"},
           Answer(i, what)
    PROVE  SessionTypeOK'
<1>1. PICK p \in reads[i].provider :
         LET r == [reads[i] EXCEPT
                      !.answered = @ \cup {what},
                      !.account = IF what = "accounts" THEN wallet[p].account ELSE @,
                      !.chain = IF what = "chain" THEN {wallet[p].chain} ELSE @]
         IN  IF r.answered = {"accounts", "chain"} THEN Conclude(i, r)
             ELSE reads' = [reads EXCEPT ![i] = r] /\ UNCHANGED session
  BY DEF Answer
<1>. DEFINE r == [reads[i] EXCEPT
                    !.answered = @ \cup {what},
                    !.account = IF what = "accounts" THEN wallet[p].account ELSE @,
                    !.chain = IF what = "chain" THEN {wallet[p].chain} ELSE @]
<1>2. reads[i] \in ReadType /\ wallet[p] \in WalletType
  <2>1. reads[i] \in ReadType
    BY DEF SessionTypeOK
  <2>2. p \in Provider
    BY <2>1 DEF ReadType
  <2>. QED
    BY <2>1, <2>2 DEF SessionTypeOK
<1>3. r \in ReadType
  BY <1>2 DEF ReadType, WalletType
<1>4. Conclude(i, r) \/ (reads' = [reads EXCEPT ![i] = r] /\ UNCHANGED session)
  BY <1>1
<1>. HIDE DEF r
<1>5. ASSUME Conclude(i, r)
      PROVE  reads' \in [Read -> ReadType] /\ session' \in SessionType
  <2>1. CASE r.lost
    BY <1>5, <2>1, FailedTypes DEF Conclude
  <2>2. CASE ~ r.lost /\ ~ r.changed
    <3>1. r.account \in SUBSET Account /\ r.chain \in SUBSET ChainId
      BY <1>3 DEF ReadType
    <3>2. Succeeded(i, r.account, r.chain)
      BY <1>5, <2>2 DEF Conclude
    <3>. QED
      BY <3>1, <3>2, SucceededTypes
  <2>3. CASE ~ r.lost /\ r.changed /\ r.tries < 3
    <3>. DEFINE again == [r EXCEPT !.answered = {}, !.account = {}, !.chain = {},
                                   !.changed = FALSE, !.tries = @ + 1]
    <3>1. reads' = [reads EXCEPT ![i] = again] /\ UNCHANGED session
      BY <1>5, <2>3 DEF Conclude
    <3>2. again \in ReadType
      <4>1. r.tries + 1 \in Nat
        BY <1>3 DEF ReadType
      <4>2. again = [r EXCEPT !.answered = {}, !.account = {}, !.chain = {},
                              !.changed = FALSE, !.tries = r.tries + 1]
        BY SMT
      <4>3. PICK n \in Nat : n = r.tries + 1
        BY <4>1
      <4>. QED
        BY <1>3, <4>2, <4>3 DEF ReadType
    <3>. HIDE DEF again
    <3>. QED
      BY <3>1, <3>2 DEF SessionTypeOK
  <2>4. CASE ~ r.lost /\ r.changed /\ ~ (r.tries < 3)
    BY <1>5, <2>4, FailedTypes DEF Conclude
  <2>. QED
    BY <2>1, <2>2, <2>3, <2>4
<1>6. ASSUME reads' = [reads EXCEPT ![i] = r], UNCHANGED session
      PROVE  reads' \in [Read -> ReadType] /\ session' \in SessionType
  BY <1>3, <1>6 DEF SessionTypeOK
<1>. QED
  BY <1>4, <1>5, <1>6 DEF Answer, SessionTypeOK

LEMMA ApproveTypes ==
    ASSUME SessionTypeOK, NEW i \in Read, Approve(i)
    PROVE  SessionTypeOK'
<1>. DEFINE next == IF reads[i].kind = "connect" /\ Superseded(i) THEN Idle
                    ELSE [reads[i] EXCEPT !.phase = "reading"]
<1>1. reads[i] \in ReadType
  BY DEF SessionTypeOK
<1>2. next \in ReadType
  BY <1>1, IdleType DEF ReadType
<1>3. reads' = [reads EXCEPT ![i] = next]
  BY DEF Approve
<1>. HIDE DEF next
<1>. QED
  BY <1>2, <1>3 DEF Approve, SessionTypeOK

LEMMA ReadFailsTypes ==
    ASSUME SessionTypeOK, NEW i \in Read, ReadFails(i)
    PROVE  SessionTypeOK'
<1>1. reads' \in [Read -> ReadType] /\ session' \in SessionType
  BY FailedTypes, IdleType DEF ReadFails, SessionTypeOK
<1>. QED
  BY <1>1 DEF ReadFails, SessionTypeOK

LEMMA ConnectTypes ==
    ASSUME SessionTypeOK, NEW p \in Provider, Connect(p)
    PROVE  SessionTypeOK'
<1>. DEFINE begun == [Idle EXCEPT !.phase = "approval", !.kind = "connect",
                                  !.provider = {p}, !.tries = 1]
<1>1. PICK i \in scenario.reads :
         /\ reads' = [reads EXCEPT ![i] = begun]
         /\ current' = {i}
         /\ Shows("connecting", p, {}, {})
         /\ UNCHANGED <<scenario, changes, wallet, events>>
  BY DEF Connect
<1>2. i \in Read
  BY SessionAssumption DEF SessionTypeOK
<1>3. begun \in ReadType
  BY IdleType DEF ReadType
<1>. HIDE DEF begun
<1>4. session' \in SessionType
  BY <1>1 DEF Shows, SessionType
<1>. QED
  BY <1>1, <1>2, <1>3, <1>4 DEF SessionTypeOK

LEMMA SwitchTypes ==
    ASSUME SessionTypeOK, NEW p \in Provider, SwitchChain(p)
    PROVE  SessionTypeOK'
<1>. DEFINE begun == [Idle EXCEPT !.phase = "approval", !.asked = TRUE,
                                  !.provider = {p}, !.tries = 1]
            new == [wallet[p] EXCEPT !.chain = LocalChain]
            told == <<Event("chain", {}, {LocalChain})>>
<1>1. PICK i \in scenario.reads :
         /\ reads' = [reads EXCEPT ![i] = begun]
         /\ UNCHANGED <<changes, wallet, events>> \/ Tells(p, new, told)
         /\ UNCHANGED <<scenario, session, current>>
  BY DEF SwitchChain
<1>2. i \in Read
  BY SessionAssumption DEF SessionTypeOK
<1>3. begun \in ReadType
  BY IdleType DEF ReadType
<1>4. new \in WalletType /\ told \in Seq(EventType)
  BY OneEvent, SessionAssumption DEF WalletType, SessionTypeOK
<1>. HIDE DEF begun, new, told
<1>5. /\ changes' \in Nat
      /\ wallet' \in [Provider -> WalletType]
      /\ events' \in [Provider -> Seq(EventType)]
  BY <1>1, <1>4, TellsTypes DEF SessionTypeOK
<1>. QED
  BY <1>1, <1>2, <1>3, <1>5 DEF SessionTypeOK

LEMMA DeliverTypes ==
    ASSUME SessionTypeOK, NEW p \in Provider, Deliver(p)
    PROVE  SessionTypeOK'
<1>. DEFINE e == Head(events[p])
            listening == [Idle EXCEPT !.phase = "reading", !.provider = {p}, !.tries = 1]
<1>1. events[p] \in Seq(EventType) /\ events[p] # <<>>
  BY DEF Deliver, SessionTypeOK
<1>2. e \in EventType /\ Tail(events[p]) \in Seq(EventType)
  BY <1>1, HeadTailProperties
<1>3. events' \in [Provider -> Seq(EventType)]
  BY <1>2 DEF Deliver, SessionTypeOK
<1>4. Tracked(p, e) \in [Read -> ReadType]
  <2>1. ASSUME NEW i \in Read
        PROVE  /\ reads[i] \in ReadType
               /\ [reads[i] EXCEPT !.lost = TRUE] \in ReadType
               /\ [reads[i] EXCEPT !.changed = TRUE] \in ReadType
    BY DEF SessionTypeOK, ReadType
  <2>. QED
    BY <2>1 DEF Tracked
<1>5. listening \in ReadType
  BY IdleType DEF ReadType
<1>6. reads' = Tracked(p, e)
      \/ \E i \in scenario.reads : reads' = [Tracked(p, e) EXCEPT ![i] = listening]
  BY DEF Deliver
<1>7. session \in SessionType
  BY DEF SessionTypeOK
<1>8. session' \in SessionType
  <2>1. \/ session' = session
        \/ session' = [session EXCEPT !.status = "disconnected", !.account = {}]
        \/ session' = [session EXCEPT !.chain = e.chain]
        \/ session' = [session EXCEPT !.status = "disconnected", !.account = {},
                                      !.chain = {}]
    <3>1. e.kind \in {"accounts", "chain", "disconnect"}
      BY <1>2 DEF EventType
    <3>. QED
      BY <3>1 DEF Deliver
  <2>2. e.chain \in SUBSET ChainId
    BY <1>2 DEF EventType
  <2>. HIDE DEF e
  <2>. QED
    BY <1>7, <2>1, <2>2 DEF SessionType
<1>9. current' \subseteq Read
  BY DEF Deliver, Abandoned, SessionTypeOK
<1>. HIDE DEF e, listening
<1>10. reads' \in [Read -> ReadType]
  BY <1>4, <1>5, <1>6
<1>. QED
  BY <1>3, <1>8, <1>9, <1>10 DEF Deliver, SessionTypeOK

-----------------------------------------------------------------------------
(* Types of the writes.                                                     *)

LEMMA FreshTypes ==
    /\ NoAttempt \in AttemptType
    /\ NoRun \in RunType
    /\ NoWatch \in WatchType
    /\ \A w \in Write : Afresh(w) \in WatchType /\ Stopped(w) \in WatchType
  BY WritesAssumption
  DEF NoAttempt, AttemptType, Statuses, NoRun, RunType, Pcs, NoWatch, WatchType,
      Afresh, Stopped

LEMMA InitTypes == Init => TypeOK
<1>. SUFFICES ASSUME Init  PROVE TypeOK
  OBVIOUS
<1>1. SessionTypeOK
  BY SessionInitTypes DEF Init
<1>2. ChainTypeOK
  BY DEF Init, ChainInit, ChainTypeOK
<1>3. WritesTypeOK /\ MinedTypeOK
  BY FreshTypes DEF Init, WritesTypeOK, MinedTypeOK
<1>. QED
  BY <1>1, <1>2, <1>3 DEF TypeOK

\* A new status is all that the end of a run gives an attempt.
LEMMA StatusType ==
    ASSUME WritesTypeOK, NEW w \in Write, NEW status \in Statuses
    PROVE  [attempt EXCEPT ![w].status = status] \in [Write -> AttemptType]
<1>1. attempt[w] \in AttemptType
  BY DEF WritesTypeOK
<1>2. [attempt[w] EXCEPT !.status = status] \in AttemptType
  BY <1>1 DEF AttemptType
<1>. QED
  BY <1>2 DEF WritesTypeOK

LEMMA RunFieldTypes ==
    ASSUME WritesTypeOK, NEW r \in Run
    PROVE  /\ [run EXCEPT ![r] = NoRun] \in [Run -> RunType]
           /\ \A pc \in Pcs : [run EXCEPT ![r].pc = pc] \in [Run -> RunType]
           /\ \A pc \in Pcs : [run EXCEPT ![r] = [NoRun EXCEPT !.pc = pc]] \in [Run -> RunType]
           /\ \A pc \in Pcs, receipt \in SUBSET Block :
                 [run EXCEPT ![r].pc = pc, ![r].receipt = receipt] \in [Run -> RunType]
<1>1. run[r] \in RunType /\ run \in [Run -> RunType]
  BY DEF WritesTypeOK
<1>2. ASSUME NEW pc \in Pcs, NEW receipt \in SUBSET Block
      PROVE  /\ [run[r] EXCEPT !.pc = pc] \in RunType
             /\ [run[r] EXCEPT !.pc = pc, !.receipt = receipt] \in RunType
             /\ [NoRun EXCEPT !.pc = pc] \in RunType
  BY <1>1, FreshTypes DEF RunType
<1>. QED
  BY <1>1, <1>2, FreshTypes

LEMMA GoesTypes ==
    ASSUME WritesTypeOK, NEW w \in Write, NEW k \in {"first", "again"},
           NEW pc \in Pcs, Goes(w, k, pc), UNCHANGED <<stranded, dismissed>>
    PROVE  WritesTypeOK'
<1>1. <<w, k>> \in Run
  BY DEF Run
<1>. QED
  BY <1>1, RunFieldTypes DEF Goes, WritesTypeOK

LEMMA ThrowTypes ==
    ASSUME WritesTypeOK, NEW w \in Write, NEW k \in {"first", "again"},
           NEW error, Throw(w, k, error), UNCHANGED <<stranded, dismissed>>
    PROVE  WritesTypeOK'
<1>1. <<w, k>> \in Run
  BY DEF Run
<1>2. run' \in [Run -> RunType]
  BY <1>1, RunFieldTypes DEF Throw
<1>3. AfterError(w, error) \in Statuses
  BY DEF AfterError, Statuses, Shown, Unresolved
<1>4. attempt' \in [Write -> AttemptType]
  BY <1>3, StatusType DEF Throw, WritesTypeOK
<1>5. settled' \subseteq Write
  BY DEF Throw, WritesTypeOK
<1>. QED
  BY <1>2, <1>4, <1>5 DEF Throw, WritesTypeOK

LEMMA FinishTypes ==
    ASSUME WritesTypeOK, NEW w \in Write, NEW k \in {"first", "again"},
           NEW b, Finish(w, k, b), UNCHANGED <<stranded, dismissed>>
    PROVE  WritesTypeOK'
<1>1. <<w, k>> \in Run
  BY DEF Run
<1>2. run' \in [Run -> RunType]
  BY <1>1, RunFieldTypes DEF Finish
<1>3. CASE Heard(w, k)
  <2>1. attempt[w].status \in Statuses
    BY DEF WritesTypeOK, AttemptType
  <2>2. attempt' \in [Write -> AttemptType]
    <3>. DEFINE status == IF attempt[w].status \in Shown THEN "done"
                          ELSE attempt[w].status
    <3>1. status \in Statuses
      BY <2>1 DEF Statuses
    <3>2. attempt' = [attempt EXCEPT ![w].status = status]
      BY <1>3 DEF Finish
    <3>. HIDE DEF status
    <3>. QED
      BY <3>1, <3>2, StatusType
  <2>3. watch' \in WatchType
    <3>1. [NoWatch EXCEPT !.pc = "head", !.post = {w}] \in WatchType
      BY FreshTypes DEF WatchType
    <3>. QED
      BY <1>3, <3>1 DEF Finish, WritesTypeOK
  <2>. QED
    BY <1>2, <1>3, <2>2, <2>3 DEF Finish, WritesTypeOK
<1>4. CASE ~ Heard(w, k)
  BY <1>2, <1>4 DEF Finish, WritesTypeOK
<1>. QED
  BY <1>3, <1>4

LEMMA RunTypes ==
    ASSUME TypeOK, RunStep
    PROVE  WritesTypeOK'
<1>. USE DEF TypeOK
<1>0. UNCHANGED <<stranded, dismissed>>
  BY DEF RunStep
<1>1. ASSUME NEW w \in Write, NEW k \in {"first", "again"}, NEW from, NEW to \in Pcs,
             Asserts(w, k, from, to)
      PROVE  WritesTypeOK'
  BY <1>0, <1>1, GoesTypes, ThrowTypes DEF Asserts
<1>2. ASSUME NEW w \in Write, Ask(w)
      PROVE  WritesTypeOK'
  <2>1. CASE Unchanged(w, "first")
    <3>1. <<w, "first">> \in Run /\ "prompt" \in Pcs
      BY DEF Run, Pcs
    <3>2. run' \in [Run -> RunType]
      BY <1>2, <2>1, <3>1, RunFieldTypes DEF Ask
    <3>. QED
      BY <1>0, <1>2, <2>1, <3>2 DEF Ask, WritesTypeOK
  <2>2. CASE ~ Unchanged(w, "first")
    BY <1>0, <1>2, <2>2, ThrowTypes DEF Ask
  <2>. QED
    BY <2>1, <2>2
<1>3. ASSUME NEW w \in Write, Submit(w)
      PROVE  WritesTypeOK'
  <2>1. CASE \E error : Throw(w, "first", error)
    BY <1>0, <2>1, ThrowTypes
  <2>2. ASSUME run' = [run EXCEPT ![<<w, "first">>].pc = "waiting"],
               attempt' = IF attempt[w].active
                        THEN [attempt EXCEPT ![w].status = "pending", ![w].hash = TRUE]
                        ELSE attempt,
               UNCHANGED <<request, settled, watch>>
        PROVE  WritesTypeOK'
    <3>1. <<w, "first">> \in Run /\ "waiting" \in Pcs
      BY DEF Run, Pcs, Submitted
    <3>2. run' \in [Run -> RunType]
      BY <2>2, <3>1, RunFieldTypes
    <3>3. attempt[w] \in AttemptType
      BY DEF WritesTypeOK
    <3>4. [attempt[w] EXCEPT !.status = "pending", !.hash = TRUE] \in AttemptType
      BY <3>3 DEF AttemptType, Statuses, Shown, Unresolved
    <3>5. attempt' \in [Write -> AttemptType]
      BY <2>2, <3>4 DEF WritesTypeOK
    <3>. QED
      BY <1>0, <2>2, <3>2, <3>5 DEF WritesTypeOK
  <2>. QED
    BY <1>3, <2>1, <2>2 DEF Submit, Refused
<1>4. ASSUME NEW w \in Write, NEW k \in {"first", "again"}, Guard(w, k) \/ Wait(w, k)
      PROVE  WritesTypeOK'
  BY <1>1, <1>4 DEF Guard, Wait, Pcs, Early, Submitted
<1>5. ASSUME NEW w \in Write, NEW k \in {"first", "again"}, ReadReceipt(w, k)
      PROVE  WritesTypeOK'
  <2>1. Included(w) \in SUBSET Block
    BY DEF Included, MinedTypeOK
  <2>2. <<w, k>> \in Run /\ "recheck" \in Pcs
    BY DEF Run, Pcs, Submitted
  <2>3. run' \in [Run -> RunType]
    BY <1>5, <2>1, <2>2, RunFieldTypes DEF ReadReceipt
  <2>. QED
    BY <1>0, <1>5, <2>3 DEF ReadReceipt, WritesTypeOK
<1>6. ASSUME NEW w \in Write, NEW k \in {"first", "again"}, Recheck(w, k)
      PROVE  WritesTypeOK'
  BY <1>1, <1>6 DEF Recheck, Pcs, Submitted
<1>7. ASSUME NEW w \in Write, NEW k \in {"first", "again"}, ReadBlock(w, k)
      PROVE  WritesTypeOK'
  <2>1. CASE PollsAgain(w, k)
    <3>1. <<w, k>> \in Run /\ "waiting" \in Pcs
      BY DEF Run, Pcs, Submitted
    <3>2. run' \in [Run -> RunType]
      BY <2>1, <3>1, RunFieldTypes DEF PollsAgain
    <3>. QED
      BY <1>0, <2>1, <3>2 DEF PollsAgain, WritesTypeOK
  <2>. QED
    BY <1>0, <1>7, <2>1, ThrowTypes, FinishTypes DEF ReadBlock
<1>8. ASSUME NEW w \in Write, NEW k \in {"first", "again"}, Fails(w, k)
      PROVE  WritesTypeOK'
  BY <1>0, <1>8, ThrowTypes DEF Fails
<1>. QED
  BY <1>2, <1>3, <1>4, <1>5, <1>6, <1>7, <1>8 DEF RunStep

LEMMA BeginTypes ==
    ASSUME TypeOK, NEW c \in Console, NEW w \in Write, Begin(c, w)
    PROVE  WritesTypeOK'
<1>1. Context \in ContextType
  BY DEF TypeOK, SessionTypeOK, SessionType, Context, ContextType
<1>2. ASSUME NEW v \in Write
      PROVE  attempt'[v] \in AttemptType
  <2>1. attempt[v] \in AttemptType
    BY DEF TypeOK, WritesTypeOK
  <2>2. [attempt[v] EXCEPT !.status = "gone"] \in AttemptType
    BY <2>1 DEF AttemptType, Statuses
  <2>3. [status |-> "opening", console |-> c, context |-> {Context},
         hash |-> FALSE, active |-> TRUE] \in AttemptType
    BY <1>1 DEF AttemptType, Statuses, Shown, Unresolved
  <2>. QED
    BY <2>1, <2>2, <2>3 DEF Begin
<1>3. attempt' \in [Write -> AttemptType]
  BY <1>2 DEF Begin
<1>4. <<w, "first">> \in Run /\ "guard" \in Pcs
  BY DEF Run, Pcs, Early
<1>5. run' \in [Run -> RunType]
  BY <1>4, RunFieldTypes DEF Begin, TypeOK
<1>. QED
  BY <1>3, <1>5 DEF Begin, TypeOK, WritesTypeOK

LEMMA RetryTypes ==
    ASSUME TypeOK, NEW w \in Write, Retry(w)
    PROVE  WritesTypeOK'
<1>1. attempt' \in [Write -> AttemptType]
  BY StatusType DEF Retry, Statuses, Shown, Unresolved, TypeOK
<1>2. <<w, "again">> \in Run /\ "guard" \in Pcs
  BY DEF Run, Pcs, Early
<1>3. run' \in [Run -> RunType]
  BY <1>2, RunFieldTypes DEF Retry, TypeOK
<1>. QED
  BY <1>1, <1>3 DEF Retry, TypeOK, WritesTypeOK

LEMMA DismissTypes ==
    ASSUME TypeOK, NEW w \in Write, Dismiss(w)
    PROVE  WritesTypeOK'
<1>1. attempt[w] \in AttemptType
  BY DEF TypeOK, WritesTypeOK
<1>2. [attempt[w] EXCEPT !.status = "gone", !.active = FALSE] \in AttemptType
  BY <1>1 DEF AttemptType, Statuses
<1>. QED
  BY <1>2 DEF Dismiss, TypeOK, WritesTypeOK

\* An attempt that is stranded keeps its hash.
LEMMA StrandType ==
    ASSUME WritesTypeOK, NEW w \in Write
    PROVE  /\ Strand(w) \in AttemptType
           /\ Strand(w).hash = attempt[w].hash
           /\ ~ Strand(w).active
           /\ Strand(w).status = "none" <=> attempt[w].status = "none"
           /\ attempt[w].status \in Unresolved => Strand(w).status \in Unresolved
           /\ Strand(w).status = "done" => attempt[w].status = "done"
<1>1. attempt[w] \in AttemptType
  BY DEF WritesTypeOK
<1>2. PICK status : status = CASE attempt[w].status = "opening" -> "ambiguous"
                               [] attempt[w].status = "pending" -> "unknown"
                               [] OTHER -> attempt[w].status
  OBVIOUS
<1>3. /\ status \in Statuses
      /\ status = "none" <=> attempt[w].status = "none"
      /\ status = "done" => attempt[w].status = "done"
      /\ attempt[w].status \in Unresolved => status \in Unresolved
  BY <1>1, <1>2 DEF AttemptType, Statuses, Shown, Unresolved
<1>4. Strand(w) = [attempt[w] EXCEPT !.active = FALSE, !.status = status]
  BY <1>1, <1>2 DEF Strand, AttemptType
<1>. QED
  BY <1>1, <1>3, <1>4 DEF AttemptType

LEMMA EffectTypes ==
    ASSUME TypeOK, Render \/ Effect
    PROVE  WritesTypeOK'
<1>1. CASE Render
  BY <1>1 DEF Render, Stranded, TypeOK, WritesTypeOK
<1>2. CASE Effect
  <2>1. attempt' \in [Write -> AttemptType]
    BY <1>2, StrandType DEF Effect, TypeOK, WritesTypeOK
  <2>. QED
    BY <1>2, <2>1 DEF Effect, TypeOK, WritesTypeOK
<1>. QED
  BY <1>1, <1>2

LEMMA WatchTypes ==
    ASSUME TypeOK, WatchStep
    PROVE  WritesTypeOK'
<1>. USE DEF TypeOK
<1>0. watch \in WatchType /\ Height[head] \in Nat /\ watch.post \subseteq Write
  BY ChainAssumption DEF WritesTypeOK, ChainTypeOK, WatchType
<1>1. ASSUME NEW from, NEW next \in WatchType, Watch(from, next)
      PROVE  WritesTypeOK'
  BY <1>1 DEF Watch, WritesTypeOK
<1>2. CASE StopWatching
  <2>1. PICK w \in watch.post : Watch(watch.pc, [NoWatch EXCEPT !.pc = "off", !.post = {w}])
    BY <1>2 DEF StopWatching
  <2>2. [NoWatch EXCEPT !.pc = "off", !.post = {w}] \in WatchType
    BY <1>0, FreshTypes DEF WatchType
  <2>. QED
    BY <1>1, <2>1, <2>2
<1>3. CASE WatchAgain
  <2>1. [watch EXCEPT !.pc = "head"] \in WatchType
    BY <1>0 DEF WatchType
  <2>. QED
    BY <1>1, <1>3, <2>1 DEF WatchAgain
<1>4. CASE WatchHead
  <2>1. [watch EXCEPT !.pc = "receipt", !.head = Height[head]] \in WatchType
    BY <1>0 DEF WatchType
  <2>. QED
    BY <1>1, <1>4, <2>1 DEF WatchHead
<1>5. CASE WatchReceipt
  <2>1. PICK w \in watch.post :
           LET found == {b \in mined[w] : Canonical(b)}
           IN  \/ Watch("receipt", Afresh(w))
               \/ Watch("receipt", [watch EXCEPT !.pc = "block", !.head = 0,
                                                 !.candidate = found])
    BY <1>5 DEF WatchReceipt
  <2>. DEFINE found == {b \in mined[w] : Canonical(b)}
  <2>2. found \in SUBSET Block /\ w \in Write
    BY <1>0 DEF MinedTypeOK
  <2>. HIDE DEF found
  <2>3. [watch EXCEPT !.pc = "block", !.head = 0, !.candidate = found] \in WatchType
    BY <1>0, <2>2 DEF WatchType
  <2>4. Watch("receipt", Afresh(w))
        \/ Watch("receipt", [watch EXCEPT !.pc = "block", !.head = 0, !.candidate = found])
    BY <2>1 DEF found
  <2>. QED
    BY <1>1, <2>2, <2>3, <2>4, FreshTypes
<1>6. CASE WatchBlock
  <2>1. [watch EXCEPT !.pc = "final head"] \in WatchType
    BY <1>0 DEF WatchType
  <2>. QED
    BY <1>0, <1>1, <1>6, <2>1, FreshTypes DEF WatchBlock
<1>7. CASE WatchFinalHead
  <2>1. [watch EXCEPT !.pc = "final block"] \in WatchType
    BY <1>0 DEF WatchType
  <2>. QED
    BY <1>0, <1>1, <1>7, <2>1, FreshTypes DEF WatchFinalHead
<1>8. CASE WatchFinalBlock
  <2>1. [watch EXCEPT !.pc = "confirmed"] \in WatchType
    BY <1>0 DEF WatchType
  <2>. QED
    BY <1>0, <1>1, <1>8, <2>1, FreshTypes DEF WatchFinalBlock
<1>9. CASE WatchFails
  BY <1>0, <1>1, <1>9, FreshTypes DEF WatchFails
<1>. QED
  BY <1>2, <1>3, <1>4, <1>5, <1>6, <1>7, <1>8, <1>9 DEF WatchStep

LEMMA GrowTypes ==
    ASSUME TypeOK, Grow
    PROVE  ChainTypeOK' /\ MinedTypeOK'
<1>1. ChainTypeOK' /\ head' \in Block
  BY ChainAssumption DEF Grow, MoveHead, TypeOK, ChainTypeOK
<1>2. Ancestors[head'] \subseteq Block
  BY <1>1, ChainAssumption
<1>3. PICK into \in [Write -> SUBSET (Ancestors[head'] \ Ancestors[head])] :
         /\ mined' = [w \in Write |-> mined[w] \cup into[w]]
         /\ \E bad \in SUBSET {w \in Write : into[w] # {}} :
               reverting' = reverting \cup UNION {{w} \X into[w] : w \in bad}
         /\ \E other \in SUBSET {w \in Write : mined[w] = {} /\ into[w] # {}} :
               altered' = altered \cup other
  BY DEF Grow
<1>4. \A w \in Write : into[w] \subseteq Block
  BY <1>2, <1>3
<1>5. mined' \in [Write -> SUBSET Block]
  BY <1>3, <1>4 DEF TypeOK, MinedTypeOK
<1>6. reverting' \subseteq Write \X Block /\ altered' \subseteq Write
  BY <1>3, <1>4 DEF TypeOK, MinedTypeOK
<1>7. deep' \subseteq Block
  BY <1>2 DEF Grow, DeepBlocks, TypeOK, MinedTypeOK
<1>. QED
  BY <1>1, <1>5, <1>6, <1>7 DEF MinedTypeOK

LEMMA AnnounceTypes ==
    ASSUME TypeOK, NEW p \in Provider, Announce(p)
    PROVE  SessionTypeOK' /\ WritesTypeOK'
<1>1. SessionTypeOK'
  BY DeliverTypes DEF Announce, TypeOK
<1>2. \A r \in Run : run[r] \in RunType /\ [run[r] EXCEPT !.marked = TRUE] \in RunType
  BY DEF TypeOK, WritesTypeOK, RunType
<1>3. run' \in [Run -> RunType]
  BY <1>2 DEF Announce
<1>. QED
  BY <1>1, <1>3 DEF Announce, TypeOK, WritesTypeOK

LEMMA SessionStepTypes ==
    ASSUME TypeOK, SessionStep
    PROVE  SessionTypeOK'
<1>1. scenario.wallets \subseteq Provider
  BY SessionAssumption DEF TypeOK, SessionTypeOK
<1>. QED
  BY <1>1, WalletTypes, ApproveTypes, ReadFailsTypes, AnswerTypes, ConnectTypes,
     SwitchTypes
  DEF SessionStep, TypeOK

LEMMA StepTypes ==
    ASSUME TypeOK, [Next]_vars
    PROVE  TypeOK'
<1>. USE DEF TypeOK
<1>1. ASSUME UNCHANGED sessionVars  PROVE SessionTypeOK'
  BY <1>1 DEF sessionVars, SessionTypeOK
<1>2. ASSUME UNCHANGED chainVars  PROVE ChainTypeOK'
  BY <1>2 DEF chainVars, ChainTypeOK
<1>3. ASSUME UNCHANGED writeVars  PROVE WritesTypeOK'
  BY <1>3 DEF writeVars, WritesTypeOK
<1>4. ASSUME UNCHANGED minedVars  PROVE MinedTypeOK'
  BY <1>4 DEF minedVars, MinedTypeOK
<1>5. ASSUME NEW c \in Console, NEW w \in Write, Begin(c, w)
      PROVE  TypeOK'
  BY <1>1, <1>2, <1>4, <1>5, BeginTypes DEF Begin
<1>6. ASSUME NEW w \in Write, Retry(w) \/ Dismiss(w)
      PROVE  TypeOK'
  BY <1>1, <1>2, <1>4, <1>6, RetryTypes, DismissTypes DEF Retry, Dismiss
<1>7. ASSUME NEW w \in Write, Decide(w)
      PROVE  TypeOK'
  <2>1. WritesTypeOK'
    BY <1>7 DEF Decide, WritesTypeOK
  <2>. QED
    BY <1>1, <1>2, <1>4, <1>7, <2>1 DEF Decide
<1>8. ASSUME NEW p \in Provider, Announce(p)
      PROVE  TypeOK'
  BY <1>2, <1>4, <1>8, AnnounceTypes DEF Announce
<1>9. CASE Render \/ Effect
  BY <1>1, <1>2, <1>4, <1>9, EffectTypes DEF Render, Effect
<1>10. CASE RunStep
  BY <1>1, <1>2, <1>4, <1>10, RunTypes DEF RunStep
<1>11. CASE SessionStep
  BY <1>2, <1>3, <1>4, <1>11, SessionStepTypes DEF SessionStep
<1>12. CASE Grow
  BY <1>1, <1>3, <1>12, GrowTypes DEF Grow
<1>13. CASE WatchStep
  <2>1. UNCHANGED <<sessionVars, chainVars, minedVars>>
    BY <1>13 DEF WatchStep, Watch, StopWatching, WatchAgain, WatchHead, WatchReceipt,
       WatchBlock, WatchFinalHead, WatchFinalBlock, WatchFails
  <2>. QED
    BY <1>1, <1>2, <1>4, <1>13, <2>1, WatchTypes
<1>14. CASE UNCHANGED vars
  BY <1>1, <1>2, <1>3, <1>4, <1>14 DEF vars
<1>. QED
  BY <1>5, <1>6, <1>7, <1>8, <1>9, <1>10, <1>11, <1>12, <1>13, <1>14 DEF Next

\* Every variable of the session, the writes and the wait has its type.
THEOREM TypeCorrect == Spec => []TypeOK
<1>1. TypeOK /\ [Next]_vars => TypeOK'
  BY StepTypes
<1>. QED
  BY <1>1, InitTypes, PTL DEF Spec

-----------------------------------------------------------------------------
(* Writes stay in view.                                                     *)

\* What is new of a write does not matter to the others.
LEMMA Untouched ==
    ASSUME NEW w \in Write, Follows(w), IsTracked(w),
           attempt'[w] = attempt[w], request'[w] = request[w],
           \A k \in {"first", "again"} : run'[<<w, k>>].pc = run[<<w, k>>].pc,
           settled \subseteq settled', dismissed \subseteq dismissed'
    PROVE  Follows(w)' /\ IsTracked(w)'
  BY DEF Follows, IsTracked

LEMMA OthersUntouched ==
    ASSUME TypeOK, Tracking, NEW w \in Write, NEW k \in {"first", "again"},
           \E x : run' = [run EXCEPT ![<<w, k>>] = x],
           attempt' = [attempt EXCEPT ![w] = attempt'[w]],
           request' = [request EXCEPT ![w] = request'[w]],
           settled \subseteq settled', dismissed \subseteq dismissed',
           Follows(w)' /\ IsTracked(w)'
    PROVE  Tracking'
<1>1. ASSUME NEW v \in Write, v # w
      PROVE  Follows(v)' /\ IsTracked(v)'
  <2>1. attempt'[v] = attempt[v] /\ request'[v] = request[v]
    BY <1>1 DEF TypeOK, WritesTypeOK
  <2>2. ASSUME NEW l \in {"first", "again"}
        PROVE  run'[<<v, l>>].pc = run[<<v, l>>].pc
    <3>1. <<v, l>> \in Run /\ <<v, l>> # <<w, k>>
      BY <1>1 DEF Run
    <3>. QED
      BY <3>1 DEF TypeOK, WritesTypeOK
  <2>. QED
    BY <2>1, <2>2, Untouched DEF Tracking
<1>. QED
  BY <1>1 DEF Tracking

\* The two runs of a write are two.
LEMMA TwoRuns ==
    ASSUME TypeOK, NEW w \in Write, NEW k \in {"first", "again"}
    PROVE  /\ <<w, k>> \in Run
           /\ \A l \in {"first", "again"} :
                 <<w, l>> \in Run /\ (l # k => <<w, l>> # <<w, k>>)
           /\ run \in [Run -> RunType]
  BY DEF Run, TypeOK, WritesTypeOK

\* The end of a run: either nothing was sent, or the attempt stays in view.
LEMMA ThrowTracks ==
    ASSUME TypeOK, Tracking, NEW w \in Write, NEW k \in {"first", "again"},
           NEW error, Throw(w, k, error), dismissed' = dismissed,
           \/ run[<<w, k>>].pc \in Early \cup Submitted
           \/ /\ k = "first" /\ run[<<w, k>>].pc = "prompt"
              /\ \/ error = "submission unknown"
                 \/ error = "rejected" /\ request[w] = "rejected"
    PROVE  Tracking'
<1>1. attempt[w] \in AttemptType /\ Follows(w) /\ IsTracked(w)
  BY DEF TypeOK, WritesTypeOK, Tracking
<1>2. /\ run'[<<w, k>>] = NoRun
      /\ \A l \in {"first", "again"} : l # k => run'[<<w, l>>] = run[<<w, l>>]
  BY TwoRuns DEF Throw
<1>3. /\ \A l \in {"first", "again"} :
            run'[<<w, l>>].pc = (IF l = k THEN "idle" ELSE run[<<w, l>>].pc)
      /\ request'[w] = request[w]
  <2>1. request' = request
    BY DEF Throw
  <2>2. NoRun.pc = "idle"
    BY DEF NoRun
  <2>. QED
    BY <1>2, <2>1, <2>2
<1>4. PICK status : status = AfterError(w, error)
  OBVIOUS
<1>5. \/ /\ Heard(w, k) /\ attempt[w].status \in Shown
         /\ attempt'[w] = [attempt[w] EXCEPT !.status = status]
      \/ /\ ~ (Heard(w, k) /\ attempt[w].status \in Shown)
         /\ attempt'[w] = attempt[w]
  BY <1>4 DEF Throw, TypeOK, WritesTypeOK
<1>6. /\ attempt'[w].hash = attempt[w].hash /\ attempt'[w].active = attempt[w].active
      /\ attempt'[w].status \in {attempt[w].status, status}
      /\ attempt'[w].status = status \/ attempt'[w].status = attempt[w].status
      /\ ~ (Heard(w, k) /\ attempt[w].status \in Shown) =>
            attempt'[w].status = attempt[w].status
  BY <1>1, <1>5 DEF AttemptType
<1>7. status \in {"failed", "unknown", "ambiguous", "gone"}
  BY <1>4 DEF AfterError
<1>8. Follows(w)'
  <2>1. CASE k = "first"
    BY <1>1, <1>3, <1>6, <1>7, <2>1 DEF Follows, Early, Submitted
  <2>2. CASE k = "again"
    <3>1. attempt[w].hash
      BY <1>1, <2>2 DEF Follows, Early, Submitted
    <3>. QED
      BY <1>1, <1>3, <1>6, <1>7, <2>2, <3>1 DEF Follows, Early, Submitted
  <2>. QED
    BY <2>1, <2>2
<1>9. IsTracked(w)'
  <2>1. SUFFICES ASSUME request[w] \in {"open", "sent"}, w \notin settled',
                        w \notin dismissed, Heard(w, k)
                 PROVE  status \in Unresolved
    <3>1. settled \subseteq settled'
      BY DEF Throw
    <3>2. CASE ~ Heard(w, k)
      BY <1>1, <1>3, <1>6, <3>1, <3>2 DEF IsTracked
    <3>. QED
      BY <1>1, <1>3, <1>6, <3>1, <3>2 DEF IsTracked
  <2>2. error # "reverted"
    BY <2>1 DEF Throw
  <2>3. attempt[w].hash \/ error = "submission unknown"
    BY <1>1, <2>1 DEF Follows, Heard, Early, Submitted
  <2>. QED
    BY <1>4, <2>2, <2>3 DEF AfterError, Unresolved
<1>10. attempt' = [attempt EXCEPT ![w] = attempt'[w]]
  <2>1. attempt' = attempt \/ attempt' = [attempt EXCEPT ![w].status = status]
    BY <1>4 DEF Throw
  <2>. QED
    BY <2>1 DEF TypeOK, WritesTypeOK
<1>11. request' = [request EXCEPT ![w] = request'[w]]
  BY DEF Throw, TypeOK, WritesTypeOK
<1>. QED
  BY <1>8, <1>9, <1>10, <1>11, OthersUntouched DEF Throw

LEMMA FinishTracks ==
    ASSUME TypeOK, Tracking, NEW w \in Write, NEW k \in {"first", "again"},
           NEW b, Finish(w, k, b), dismissed' = dismissed,
           run[<<w, k>>].pc \in Submitted
    PROVE  Tracking'
<1>1. attempt[w] \in AttemptType /\ Follows(w) /\ IsTracked(w)
  BY DEF TypeOK, WritesTypeOK, Tracking
<1>2. /\ run'[<<w, k>>] = NoRun
      /\ \A l \in {"first", "again"} : l # k => run'[<<w, l>>] = run[<<w, l>>]
  BY TwoRuns DEF Finish
<1>3. /\ \A l \in {"first", "again"} :
            run'[<<w, l>>].pc = (IF l = k THEN "idle" ELSE run[<<w, l>>].pc)
      /\ request' = request
  BY <1>2 DEF NoRun, Finish
<1>4. /\ attempt' = [attempt EXCEPT ![w] = attempt'[w]]
      /\ attempt'[w].hash = attempt[w].hash /\ attempt'[w].active = attempt[w].active
      /\ attempt'[w].status \in {attempt[w].status, "done"}
      /\ ~ Heard(w, k) => attempt' = attempt
  <2>1. CASE ~ Heard(w, k)
    BY <2>1 DEF Finish, TypeOK, WritesTypeOK
  <2>2. CASE Heard(w, k)
    <3>. DEFINE status == IF attempt[w].status \in Shown THEN "done"
                          ELSE attempt[w].status
    <3>1. attempt' = [attempt EXCEPT ![w].status = status]
      BY <2>2 DEF Finish
    <3>2. status \in {attempt[w].status, "done"}
      OBVIOUS
    <3>. HIDE DEF status
    <3>3. attempt'[w] = [attempt[w] EXCEPT !.status = status]
      BY <3>1 DEF TypeOK, WritesTypeOK
    <3>. QED
      BY <1>1, <2>2, <3>1, <3>2, <3>3 DEF TypeOK, WritesTypeOK, AttemptType
  <2>. QED
    BY <2>1, <2>2
<1>5. /\ settled \subseteq settled' /\ (Heard(w, k) => w \in settled')
  BY DEF Finish
<1>6. Follows(w)'
  <2>1. CASE k = "first"
    BY <1>1, <1>3, <1>4, <2>1 DEF Follows, Early, Submitted
  <2>2. CASE k = "again"
    <3>1. attempt[w].hash
      BY <1>1, <2>2 DEF Follows, Submitted
    <3>. QED
      BY <1>1, <1>3, <1>4, <2>2, <3>1 DEF Follows, Early, Submitted
  <2>. QED
    BY <2>1, <2>2
<1>7. IsTracked(w)'
  BY <1>1, <1>3, <1>4, <1>5 DEF IsTracked
<1>8. request' = [request EXCEPT ![w] = request'[w]]
  BY <1>3 DEF TypeOK, WritesTypeOK
<1>. QED
  BY <1>4, <1>5, <1>6, <1>7, <1>8, OthersUntouched DEF Finish

\* A run goes on, within what was sent before or after the prompt.
LEMMA GoesTracks ==
    ASSUME TypeOK, Tracking, NEW w \in Write, NEW k \in {"first", "again"},
           NEW pc, NEW x, run' = [run EXCEPT ![<<w, k>>] = x], x.pc = pc,
           UNCHANGED <<attempt, request, settled, dismissed>>,
           \/ run[<<w, k>>].pc \in Submitted /\ pc \in Submitted
           \/ k = "first" /\ run[<<w, k>>].pc \in Early /\ pc \in Early
           \/ k = "again" /\ run[<<w, k>>].pc # "idle" /\ pc \in Submitted
    PROVE  Tracking'
<1>1. Follows(w) /\ IsTracked(w)
  BY DEF Tracking
<1>2. /\ run'[<<w, k>>].pc = pc
      /\ \A l \in {"first", "again"} : l # k => run'[<<w, l>>].pc = run[<<w, l>>].pc
  BY TwoRuns
<1>3. Follows(w)'
  BY <1>1, <1>2 DEF Follows, Early, Submitted
<1>4. IsTracked(w)'
  BY <1>1 DEF IsTracked
<1>5. /\ attempt' = [attempt EXCEPT ![w] = attempt'[w]]
      /\ request' = [request EXCEPT ![w] = request'[w]]
  BY DEF TypeOK, WritesTypeOK
<1>. QED
  BY <1>3, <1>4, <1>5, OthersUntouched

LEMMA RunTracks ==
    ASSUME TypeOK, Tracking, RunStep
    PROVE  Tracking'
<1>0. UNCHANGED <<stranded, dismissed>>
  BY DEF RunStep
<1>1. ASSUME NEW w \in Write, NEW k \in {"first", "again"}, NEW pc, Goes(w, k, pc),
             \/ run[<<w, k>>].pc \in Submitted /\ pc \in Submitted
             \/ k = "first" /\ run[<<w, k>>].pc \in Early /\ pc \in Early
             \/ k = "again" /\ run[<<w, k>>].pc # "idle" /\ pc \in Submitted
      PROVE  Tracking'
  <2>1. run[<<w, k>>] \in RunType /\ run \in [Run -> RunType]
    BY TwoRuns
  <2>2. PICK x : x = [run[<<w, k>>] EXCEPT !.pc = pc]
    OBVIOUS
  <2>3. run' = [run EXCEPT ![<<w, k>>] = x] /\ x.pc = pc
    BY <1>1, <2>1, <2>2 DEF Goes, RunType
  <2>. QED
    BY <1>0, <1>1, <2>3, GoesTracks DEF Goes
<1>2. ASSUME NEW w \in Write, Ask(w)
      PROVE  Tracking'
  <2>0. run[<<w, "first">>].pc = "check" /\ run \in [Run -> RunType]
        /\ run[<<w, "first">>] \in RunType
    BY <1>2, TwoRuns DEF Ask, At
  <2>1. CASE Unchanged(w, "first")
    <3>1. PICK x : x = [run[<<w, "first">>] EXCEPT !.pc = "prompt"]
      OBVIOUS
    <3>2. run' = [run EXCEPT ![<<w, "first">>] = x] /\ x.pc = "prompt"
      BY <1>2, <2>0, <2>1, <3>1 DEF Ask, RunType
    <3>3. /\ run'[<<w, "first">>].pc = "prompt"
          /\ \A l \in {"first", "again"} : l # "first" => run'[<<w, l>>] = run[<<w, l>>]
      BY <3>2, TwoRuns
    <3>4. /\ attempt' = attempt /\ request' = [request EXCEPT ![w] = "open"]
          /\ UNCHANGED <<settled, dismissed>>
      BY <1>0, <1>2, <2>1 DEF Ask
    <3>5. Follows(w) /\ request'[w] = "open"
      BY <3>4 DEF Tracking, TypeOK, WritesTypeOK
    <3>6. attempt[w].status \in Unresolved \/ w \in dismissed
      BY <2>0, <3>5 DEF Follows, Early
    <3>7. attempt[w].status # "none"
      BY <2>0, <3>5 DEF Follows
    <3>8. Follows(w)' /\ IsTracked(w)'
      BY <2>0, <3>3, <3>4, <3>5, <3>6, <3>7 DEF Follows, IsTracked, Early, Submitted
    <3>. QED
      BY <3>2, <3>4, <3>5, <3>8, OthersUntouched DEF TypeOK, WritesTypeOK
  <2>2. CASE ~ Unchanged(w, "first")
    BY <1>0, <1>2, <2>0, <2>2, ThrowTracks DEF Ask, Early
  <2>. QED
    BY <2>1, <2>2
<1>3. ASSUME NEW w \in Write, Submit(w)
      PROVE  Tracking'
  <2>0. run[<<w, "first">>].pc = "prompt" /\ run \in [Run -> RunType]
        /\ run[<<w, "first">>] \in RunType /\ attempt[w] \in AttemptType
        /\ Follows(w) /\ IsTracked(w)
    BY <1>3, TwoRuns DEF Submit, At, Tracking, TypeOK, WritesTypeOK
  <2>1. ASSUME request[w] = "sent",
               run' = [run EXCEPT ![<<w, "first">>].pc = "waiting"],
               attempt' = IF attempt[w].active
                        THEN [attempt EXCEPT ![w].status = "pending", ![w].hash = TRUE]
                        ELSE attempt,
               UNCHANGED <<request, settled, watch>>
        PROVE  Tracking'
    <3>1. PICK x : x = [run[<<w, "first">>] EXCEPT !.pc = "waiting"]
      OBVIOUS
    <3>2. run' = [run EXCEPT ![<<w, "first">>] = x] /\ x.pc = "waiting"
      BY <2>0, <2>1, <3>1 DEF RunType
    <3>3. /\ run'[<<w, "first">>].pc = "waiting"
          /\ \A l \in {"first", "again"} : l # "first" => run'[<<w, l>>] = run[<<w, l>>]
      BY <3>2, TwoRuns
    <3>4. PICK sent : sent = [attempt[w] EXCEPT !.status = "pending", !.hash = TRUE]
      OBVIOUS
    <3>5. /\ sent.status = "pending" /\ sent.hash
          /\ attempt' = [attempt EXCEPT ![w] = attempt'[w]]
          /\ attempt'[w] = IF attempt[w].active THEN sent ELSE attempt[w]
      BY <2>0, <2>1, <3>4 DEF TypeOK, WritesTypeOK, AttemptType
    <3>6. Follows(w)'
      BY <2>0, <2>1, <3>3, <3>5 DEF Follows, Early, Submitted
    <3>7. IsTracked(w)'
      BY <1>0, <2>0, <2>1, <3>5 DEF IsTracked, Unresolved
    <3>8. request' = [request EXCEPT ![w] = request'[w]]
      BY <2>1 DEF TypeOK, WritesTypeOK
    <3>. QED
      BY <1>0, <2>1, <3>2, <3>5, <3>6, <3>7, <3>8, OthersUntouched
  <2>2. CASE request[w] = "rejected" /\ Throw(w, "first", "rejected")
    BY <1>0, <2>0, <2>2, ThrowTracks
  <2>3. CASE Refused(w)
    BY <1>0, <2>0, <2>3, ThrowTracks DEF Refused
  <2>. QED
    BY <1>3, <2>1, <2>2, <2>3 DEF Submit
<1>4. ASSUME NEW w \in Write, NEW k \in {"first", "again"}, Guard(w, k)
      PROVE  Tracking'
  <2>1. run[<<w, k>>].pc = "guard"
    BY <1>4 DEF Guard, Asserts, At
  <2>2. CASE Unchanged(w, k)
    BY <1>1, <1>4, <2>1, <2>2 DEF Guard, Asserts, Early, Submitted
  <2>3. CASE ~ Unchanged(w, k)
    BY <1>0, <1>4, <2>1, <2>3, ThrowTracks DEF Guard, Asserts, Early
  <2>. QED
    BY <2>2, <2>3
<1>5. ASSUME NEW w \in Write, NEW k \in {"first", "again"}, Wait(w, k) \/ Recheck(w, k)
      PROVE  Tracking'
  <2>1. PICK pc \in Submitted : Asserts(w, k, run[<<w, k>>].pc, pc)
                                /\ run[<<w, k>>].pc \in Submitted
    BY <1>5 DEF Wait, Recheck, Asserts, At, Submitted
  <2>2. CASE Unchanged(w, k)
    BY <1>1, <2>1, <2>2 DEF Asserts
  <2>3. CASE ~ Unchanged(w, k)
    BY <1>0, <2>1, <2>3, ThrowTracks DEF Asserts
  <2>. QED
    BY <2>2, <2>3
<1>6. ASSUME NEW w \in Write, NEW k \in {"first", "again"}, ReadReceipt(w, k)
      PROVE  Tracking'
  <2>1. /\ run[<<w, k>>] \in RunType /\ run \in [Run -> RunType]
        /\ run[<<w, k>>].pc = "receipt"
        /\ UNCHANGED <<attempt, request, settled, dismissed>>
    BY <1>0, <1>6, TwoRuns DEF ReadReceipt, At
  <2>2. PICK x : x = [run[<<w, k>>] EXCEPT !.pc = "recheck", !.receipt = Included(w)]
    OBVIOUS
  <2>3. run' = [run EXCEPT ![<<w, k>>] = x] /\ x.pc = "recheck"
    BY <1>6, <2>1, <2>2, TwoRuns DEF ReadReceipt, RunType
  <2>. QED
    BY <2>1, <2>3, GoesTracks DEF Submitted
<1>7. ASSUME NEW w \in Write, NEW k \in {"first", "again"}, ReadBlock(w, k)
      PROVE  Tracking'
  <2>1. run[<<w, k>>].pc \in Submitted
    BY <1>7 DEF ReadBlock, At, Submitted
  <2>2. CASE PollsAgain(w, k)
    <3>1. /\ run[<<w, k>>] \in RunType /\ run \in [Run -> RunType]
          /\ UNCHANGED <<attempt, request, settled, dismissed>>
      BY <1>0, <2>2, TwoRuns DEF PollsAgain
    <3>2. PICK x : x = [run[<<w, k>>] EXCEPT !.pc = "waiting", !.receipt = {}]
      OBVIOUS
    <3>3. run' = [run EXCEPT ![<<w, k>>] = x] /\ x.pc = "waiting"
      BY <2>2, <3>1, <3>2, TwoRuns DEF PollsAgain, RunType
    <3>. QED
      BY <2>1, <3>1, <3>3, GoesTracks DEF Submitted
  <2>3. CASE \E error : Throw(w, k, error)
    BY <1>0, <2>1, <2>3, ThrowTracks
  <2>4. CASE \E b : Finish(w, k, b)
    BY <1>0, <2>1, <2>4, FinishTracks
  <2>. QED
    BY <1>7, <2>2, <2>3, <2>4 DEF ReadBlock
<1>8. ASSUME NEW w \in Write, NEW k \in {"first", "again"}, Fails(w, k)
      PROVE  Tracking'
  <2>1. run[<<w, k>>].pc \in Early \cup Submitted
    BY <1>8, TwoRuns DEF Fails, RunType, Pcs
  <2>. QED
    BY <1>0, <1>8, <2>1, ThrowTracks DEF Fails
<1>. QED
  BY <1>2, <1>3, <1>4, <1>5, <1>6, <1>7, <1>8 DEF RunStep

LEMMA BeginTracks ==
    ASSUME TypeOK, Tracking, NEW c \in Console, NEW w \in Write, Begin(c, w)
    PROVE  Tracking'
<1>1. attempt[w].status = "none" /\ Follows(w)
  BY DEF Begin, Tracking
<1>2. PICK x : x = [NoRun EXCEPT !.pc = "guard"]
  OBVIOUS
<1>3. run' = [run EXCEPT ![<<w, "first">>] = x] /\ x.pc = "guard"
  BY <1>2 DEF Begin, NoRun
<1>4. /\ run'[<<w, "first">>].pc = "guard"
      /\ \A l \in {"first", "again"} : l # "first" => run'[<<w, l>>] = run[<<w, l>>]
  BY <1>3, TwoRuns
<1>5. PICK new : new = [status |-> "opening", console |-> c, context |-> {Context},
                        hash |-> FALSE, active |-> TRUE]
  OBVIOUS
<1>6. attempt'[w] = new /\ new.status = "opening" /\ ~ new.hash
  BY <1>5 DEF Begin
<1>7. UNCHANGED <<request, settled, dismissed>>
  BY DEF Begin
<1>8. Follows(w)' /\ IsTracked(w)'
  BY <1>1, <1>4, <1>6, <1>7 DEF Follows, IsTracked, Early, Submitted, Unresolved
<1>9. ASSUME NEW v \in Write, v # w
      PROVE  Follows(v)' /\ IsTracked(v)'
  <2>1. attempt[v] \in AttemptType /\ Follows(v) /\ IsTracked(v)
    BY DEF TypeOK, WritesTypeOK, Tracking
  <2>2. ASSUME NEW l \in {"first", "again"}
        PROVE  run'[<<v, l>>].pc = run[<<v, l>>].pc
    <3>1. <<v, l>> \in Run /\ <<v, l>> # <<w, "first">>
      BY <1>9 DEF Run
    <3>. QED
      BY <1>3, <3>1, TwoRuns
  <2>3. CASE attempt'[v] = attempt[v]
    BY <1>7, <2>1, <2>2, <2>3, Untouched
  <2>4. CASE attempt'[v] # attempt[v]
    <3>1. /\ attempt[v].status = "failed"
          /\ attempt'[v] = [attempt[v] EXCEPT !.status = "gone"]
      BY <1>9, <2>4 DEF Begin
    <3>2. /\ attempt'[v].status = "gone" /\ attempt'[v].hash = attempt[v].hash
          /\ attempt'[v].active = attempt[v].active
      BY <2>1, <3>1 DEF AttemptType
    <3>3. Follows(v)'
      BY <1>7, <2>1, <2>2, <3>1, <3>2 DEF Follows, Early, Submitted, Unresolved
    <3>4. IsTracked(v)'
      BY <1>7, <2>1, <3>1 DEF IsTracked, Unresolved
    <3>. QED
      BY <3>3, <3>4
  <2>. QED
    BY <2>3, <2>4
<1>. QED
  BY <1>8, <1>9 DEF Tracking

LEMMA RetryTracks ==
    ASSUME TypeOK, Tracking, NEW w \in Write, Retry(w)
    PROVE  Tracking'
<1>1. /\ Follows(w) /\ IsTracked(w) /\ attempt[w] \in AttemptType
      /\ attempt[w].status = "unknown" /\ attempt[w].hash
  BY DEF Retry, Tracking, TypeOK, WritesTypeOK
<1>2. PICK x : x = [NoRun EXCEPT !.pc = "guard"]
  OBVIOUS
<1>3. run' = [run EXCEPT ![<<w, "again">>] = x] /\ x.pc = "guard"
  BY <1>2 DEF Retry, NoRun
<1>4. \A l \in {"first", "again"} : l # "again" => run'[<<w, l>>] = run[<<w, l>>]
  BY <1>3, TwoRuns
<1>5. /\ attempt' = [attempt EXCEPT ![w] = attempt'[w]]
      /\ attempt'[w] = [attempt[w] EXCEPT !.status = "pending"]
  BY DEF Retry, TypeOK, WritesTypeOK
<1>6. /\ attempt'[w].status = "pending" /\ attempt'[w].hash
  BY <1>1, <1>5 DEF AttemptType
<1>7. UNCHANGED <<request, settled, dismissed>>
  BY DEF Retry
<1>8. Follows(w)' /\ IsTracked(w)'
  BY <1>1, <1>4, <1>6, <1>7 DEF Follows, IsTracked, Early, Submitted, Unresolved
<1>9. request' = [request EXCEPT ![w] = request'[w]]
  BY <1>7 DEF TypeOK, WritesTypeOK
<1>. QED
  BY <1>3, <1>5, <1>7, <1>8, <1>9, OthersUntouched

\* Steps that start and end no run and send nothing.
LEMMA ViewChanges ==
    ASSUME TypeOK, Tracking, run' = run, UNCHANGED <<request, settled>>,
           dismissed \subseteq dismissed',
           \A w \in Write : attempt'[w] = attempt[w]
                            \/ /\ attempt'[w].hash = attempt[w].hash
                               /\ ~ attempt'[w].active
                               /\ attempt'[w].status = "none" => attempt[w].status = "none"
                               /\ \/ w \in dismissed'
                                  \/ attempt[w].status \in Unresolved =>
                                        attempt'[w].status \in Unresolved
    PROVE  Tracking'
<1>1. SUFFICES ASSUME NEW w \in Write  PROVE Follows(w)' /\ IsTracked(w)'
  BY DEF Tracking
<1>2. Follows(w) /\ IsTracked(w)
  BY DEF Tracking
<1>3. CASE attempt'[w] = attempt[w]
  BY <1>2, <1>3, Untouched
<1>4. CASE attempt'[w] # attempt[w]
  BY <1>2, <1>4 DEF Follows, IsTracked
<1>. QED
  BY <1>3, <1>4

LEMMA DismissTracks ==
    ASSUME TypeOK, Tracking, NEW w \in Write, Dismiss(w)
    PROVE  Tracking'
<1>1. attempt[w] \in AttemptType /\ attempt \in [Write -> AttemptType]
  BY DEF TypeOK, WritesTypeOK
<1>2. PICK new : new = [attempt[w] EXCEPT !.status = "gone", !.active = FALSE]
  OBVIOUS
<1>3. /\ attempt' = [attempt EXCEPT ![w] = new]
      /\ new.status = "gone" /\ ~ new.active /\ new.hash = attempt[w].hash
  BY <1>1, <1>2 DEF Dismiss, AttemptType
<1>4. UNCHANGED <<run, request, settled>> /\ dismissed' = dismissed \cup {w}
  BY DEF Dismiss
<1>. QED
  BY <1>1, <1>3, <1>4, ViewChanges

LEMMA EffectTracks ==
    ASSUME TypeOK, Tracking, Effect
    PROVE  Tracking'
<1>1. UNCHANGED <<run, request, settled, dismissed>>
  BY DEF Effect
<1>2. \A w \in Write : attempt'[w] = attempt[w] \/ attempt'[w] = Strand(w)
  BY DEF Effect
<1>3. WritesTypeOK
  BY DEF TypeOK
<1>. QED
  BY <1>1, <1>2, <1>3, StrandType, ViewChanges

LEMMA AnnounceTracks ==
    ASSUME TypeOK, Tracking, NEW p \in Provider, Announce(p)
    PROVE  Tracking'
<1>1. ASSUME NEW w \in Write, NEW k \in {"first", "again"}
      PROVE  run'[<<w, k>>].pc = run[<<w, k>>].pc
  <2>1. run[<<w, k>>] \in RunType /\ <<w, k>> \in Run
    BY TwoRuns
  <2>2. run'[<<w, k>>] \in {run[<<w, k>>], [run[<<w, k>>] EXCEPT !.marked = TRUE]}
    BY <2>1 DEF Announce
  <2>. QED
    BY <2>1, <2>2 DEF RunType
<1>2. UNCHANGED <<attempt, request, settled, dismissed>>
  BY DEF Announce
<1>. QED
  BY <1>1, <1>2, Untouched DEF Tracking

LEMMA DecideTracks ==
    ASSUME TypeOK, Tracking, NEW w \in Write, Decide(w)
    PROVE  Tracking'
<1>1. PICK answer \in {"rejected", "sent"} : request' = [request EXCEPT ![w] = answer]
  BY DEF Decide
<1>2. /\ request[w] = "open" /\ request'[w] = answer
      /\ \A v \in Write : v # w => request'[v] = request[v]
      /\ UNCHANGED <<attempt, run, settled, dismissed>>
  BY <1>1 DEF Decide, TypeOK, WritesTypeOK
<1>3. ASSUME NEW v \in Write
      PROVE  Follows(v)' /\ IsTracked(v)'
  BY <1>2 DEF Tracking, Follows, IsTracked
<1>. QED
  BY <1>3 DEF Tracking

LEMMA StepTracks ==
    ASSUME TypeOK, Tracking, [Next]_vars
    PROVE  Tracking'
<1>1. ASSUME UNCHANGED <<attempt, run, request, settled, dismissed>>
      PROVE  Tracking'
  BY <1>1 DEF Tracking, Follows, IsTracked
<1>2. CASE Render \/ SessionStep \/ Grow \/ UNCHANGED vars
  BY <1>1, <1>2 DEF Render, SessionStep, Grow, writeVars, vars
<1>3. CASE WatchStep
  BY <1>1, <1>3 DEF WatchStep, Watch, StopWatching, WatchAgain, WatchHead, WatchReceipt,
     WatchBlock, WatchFinalHead, WatchFinalBlock, WatchFails
<1>. QED
  BY <1>2, <1>3, RunTracks, BeginTracks, RetryTracks, DismissTracks, EffectTracks,
     AnnounceTracks, DecideTracks
  DEF Next

LEMMA InitTracks == Init => Tracking
<1>. SUFFICES ASSUME Init, NEW w \in Write  PROVE Follows(w) /\ IsTracked(w)
  BY DEF Tracking
<1>1. \A k \in {"first", "again"} : <<w, k>> \in Run
  BY DEF Run
<1>. QED
  BY <1>1 DEF Init, NoAttempt, NoRun, Follows, IsTracked, Early, Submitted

\* A transaction the wallet may still send, or has sent, is never lost from
\* view: an attempt shows it and locks every console until a receipt of it was
\* authenticated or the user vouched for it.
THEOREM SentStaysTracked == Spec => []SentIsTracked
<1>1. TypeOK /\ Tracking /\ [Next]_vars => Tracking'
  BY StepTracks
<1>2. Tracking => SentIsTracked
  BY DEF Tracking, IsTracked, SentIsTracked
<1>. QED
  BY <1>1, <1>2, InitTracks, TypeCorrect, PTL DEF Spec

-----------------------------------------------------------------------------
(* What the feed waits for.                                                 *)

\* Blocks arrive: what was deep or abandoned stays so, and what is deep by the
\* new head has been noted.
LEMMA GrowWatches ==
    ASSUME TypeOK, WatchInv, Grow
    PROVE  WatchInv'
<1>1. /\ MoveHead /\ watch' = watch
      /\ deep' = deep \cup DeepBlocks(head')
  BY DEF Grow, writeVars
<1>2. PICK into \in [Write -> SUBSET (Ancestors[head'] \ Ancestors[head])] :
         mined' = [w \in Write |-> mined[w] \cup into[w]]
  BY DEF Grow
<1>3. /\ EverCanonical \subseteq EverCanonical' /\ orphaned \subseteq orphaned'
      /\ Ancestors[head'] \cap orphaned' = {}
  BY <1>1 DEF MoveHead, EverCanonical
<1>4. \A w \in Write : mined[w] \subseteq mined'[w] /\ mined'[w] \subseteq EverCanonical'
  BY <1>2, <1>3 DEF WatchInv, EverCanonical
<1>5. DeepBlocks(head)' = DeepBlocks(head')
  BY DEF DeepBlocks
<1>6. DeepBlocks(head)' \subseteq deep' /\ deep \subseteq deep'
  BY <1>1, <1>5
<1>. QED
  BY <1>1, <1>3, <1>4, <1>6 DEF WatchInv

LEMMA WatchWatches ==
    ASSUME TypeOK, WatchInv, WatchStep
    PROVE  WatchInv'
<1>0. watch \in WatchType /\ watch.post \subseteq Write
  BY DEF TypeOK, WritesTypeOK, WatchType
<1>1. ASSUME NEW from, NEW next, Watch(from, next),
             \A b \in next.candidate : \E w \in Write : b \in mined[w],
             next.pc \in {"block", "final head", "final block", "confirmed"} =>
                 next.candidate # {},
             next.pc = "final block" => next.candidate \subseteq deep \cup orphaned,
             next.pc = "confirmed" => next.candidate \subseteq deep
      PROVE  WatchInv'
  <2>1. watch' = next /\ UNCHANGED <<head, orphaned, mined, deep>>
    BY <1>1 DEF Watch, chainVars, minedVars
  <2>. QED
    BY <1>1, <2>1 DEF WatchInv, EverCanonical, DeepBlocks
<1>2. ASSUME NEW from, NEW next, Watch(from, next), next.candidate = {},
             next.pc \notin {"block", "final head", "final block", "confirmed"}
      PROVE  WatchInv'
  BY <1>1, <1>2
<1>3. ASSUME NEW w, NEW from, Watch(from, Afresh(w)) \/ Watch(from, Stopped(w))
      PROVE  WatchInv'
  BY <1>2, <1>3 DEF Afresh, Stopped, NoWatch
<1>4. CASE StopWatching
  <2>1. PICK w \in watch.post : Watch(watch.pc, [NoWatch EXCEPT !.pc = "off", !.post = {w}])
    BY <1>4 DEF StopWatching
  <2>2. PICK next : next = [NoWatch EXCEPT !.pc = "off", !.post = {w}]
    OBVIOUS
  <2>3. next.candidate = {} /\ next.pc = "off"
    BY <2>2 DEF NoWatch
  <2>. QED
    BY <1>2, <2>1, <2>2, <2>3
<1>5. CASE WatchAgain
  <2>1. PICK next : next = [watch EXCEPT !.pc = "head"]
    OBVIOUS
  <2>2. next.pc = "head" /\ next.candidate = watch.candidate /\ Watch("off", next)
    BY <1>0, <1>5, <2>1 DEF WatchAgain, WatchType
  <2>. QED
    BY <1>1, <2>2 DEF WatchInv
<1>6. CASE WatchHead
  <2>1. PICK next : next = [watch EXCEPT !.pc = "receipt", !.head = Height[head]]
    OBVIOUS
  <2>2. next.pc = "receipt" /\ next.candidate = watch.candidate /\ Watch("head", next)
    BY <1>0, <1>6, <2>1 DEF WatchHead, WatchType
  <2>. QED
    BY <1>1, <2>2 DEF WatchInv
<1>7. CASE WatchReceipt
  <2>1. PICK w \in watch.post :
           LET found == {b \in mined[w] : Canonical(b)}
           IN  \/ Watch("receipt", Afresh(w))
               \/ /\ found # {}
                  /\ Watch("receipt", [watch EXCEPT !.pc = "block", !.head = 0,
                                                    !.candidate = found])
    BY <1>7 DEF WatchReceipt
  <2>2. PICK found : found = {b \in mined[w] : Canonical(b)}
    OBVIOUS
  <2>3. PICK next : next = [watch EXCEPT !.pc = "block", !.head = 0, !.candidate = found]
    OBVIOUS
  <2>4. next.pc = "block" /\ next.candidate = found
    BY <1>0, <2>3 DEF WatchType
  <2>5. \A b \in found : b \in mined[w]
    BY <2>2
  <2>6. Watch("receipt", Afresh(w)) \/ (found # {} /\ Watch("receipt", next))
    BY <2>1, <2>2, <2>3
  <2>7. w \in Write
    BY <1>0
  <2>. QED
    BY <1>1, <1>3, <2>4, <2>5, <2>6, <2>7
<1>8. CASE WatchBlock
  <2>1. PICK next : next = [watch EXCEPT !.pc = "final head"]
    OBVIOUS
  <2>2. next.pc = "final head" /\ next.candidate = watch.candidate
    BY <1>0, <2>1 DEF WatchType
  <2>3. PICK w \in watch.post : Watch("block", next) \/ Watch("block", Afresh(w))
    BY <1>8, <2>1 DEF WatchBlock
  <2>4. watch.pc = "block"
    BY <2>3 DEF Watch
  <2>. QED
    BY <1>1, <1>3, <2>2, <2>3, <2>4 DEF WatchInv
<1>9. CASE WatchFinalHead
  <2>1. PICK next : next = [watch EXCEPT !.pc = "final block"]
    OBVIOUS
  <2>2. next.pc = "final block" /\ next.candidate = watch.candidate
    BY <1>0, <2>1 DEF WatchType
  <2>3. PICK w \in watch.post :
           \/ IsDeep(Height[head]) /\ Watch("final head", next)
           \/ Watch("final head", Afresh(w))
    BY <1>9, <2>1 DEF WatchFinalHead
  <2>4. CASE IsDeep(Height[head]) /\ Watch("final head", next)
    <3>1. watch.pc = "final head"
      BY <2>4 DEF Watch
    <3>2. ASSUME NEW b \in watch.candidate
          PROVE  b \in deep \cup orphaned
      <4>1. PICK v \in Write : b \in mined[v]
        BY DEF WatchInv
      <4>2. b \in EverCanonical /\ DeepBlocks(head) \subseteq deep
        BY <4>1 DEF WatchInv
      <4>3. Height[head] >= Height[b] + Depth
        BY <2>4 DEF IsDeep
      <4>. QED
        BY <4>2, <4>3 DEF EverCanonical, DeepBlocks
    <3>. QED
      BY <1>1, <2>2, <2>4, <3>1, <3>2 DEF WatchInv
  <2>. QED
    BY <1>3, <2>3, <2>4
<1>10. CASE WatchFinalBlock
  <2>1. PICK next : next = [watch EXCEPT !.pc = "confirmed"]
    OBVIOUS
  <2>2. next.pc = "confirmed" /\ next.candidate = watch.candidate
    BY <1>0, <2>1 DEF WatchType
  <2>3. PICK w \in watch.post :
           \/ FoundAgain /\ Watch("final block", next)
           \/ Watch("final block", Afresh(w))
           \/ Watch("final block", Stopped(w))
    BY <1>10, <2>1 DEF WatchFinalBlock
  <2>4. CASE FoundAgain /\ Watch("final block", next)
    <3>1. watch.pc = "final block"
      BY <2>4 DEF Watch
    <3>2. watch.candidate \subseteq deep
      BY <2>4, <3>1 DEF WatchInv, FoundAgain, StillThere, Canonical
    <3>. QED
      BY <1>1, <2>2, <2>4, <3>1, <3>2 DEF WatchInv
  <2>. QED
    BY <1>3, <2>3, <2>4
<1>11. CASE WatchFails
  BY <1>3, <1>11 DEF WatchFails
<1>. QED
  BY <1>4, <1>5, <1>6, <1>7, <1>8, <1>9, <1>10, <1>11 DEF WatchStep

LEMMA StepWatches ==
    ASSUME TypeOK, WatchInv, [Next]_vars
    PROVE  WatchInv'
<1>1. ASSUME UNCHANGED <<head, orphaned, mined, deep>>,
             watch' = watch \/ (watch'.candidate = {} /\ watch'.pc = "head")
      PROVE  WatchInv'
  BY <1>1 DEF WatchInv, EverCanonical, DeepBlocks
<1>2. CASE RunStep
  <2>1. ASSUME NEW w, NEW k, NEW b, Finish(w, k, b)
        PROVE  watch' = watch \/ (watch'.candidate = {} /\ watch'.pc = "head")
    BY <2>1 DEF Finish, NoWatch
  <2>2. ASSUME NEW w, NEW k, Guard(w, k) \/ Wait(w, k) \/ ReadReceipt(w, k) \/ Recheck(w, k) \/ Fails(w, k)
        PROVE  watch' = watch
    BY <2>2 DEF Guard, Asserts, Goes, Wait, ReadReceipt, Recheck, Fails, PollsAgain, Throw
  <2>3. ASSUME NEW w, NEW k, ReadBlock(w, k)
        PROVE  watch' = watch \/ (watch'.candidate = {} /\ watch'.pc = "head")
    <3>1. PICK b \in run[<<w, k>>].receipt :
            \/ Finish(w, k, b) \/ PollsAgain(w, k) \/ Throw(w, k, "context")
            \/ Throw(w, k, "reverted") \/ Throw(w, k, "unexpected")
      BY <2>3, Zenon DEF ReadBlock
    <3>. QED
      BY <2>1, <3>1 DEF PollsAgain, Throw
  <2>4. ASSUME NEW w, Ask(w) \/ Submit(w)
        PROVE  watch' = watch
    BY <2>4 DEF Ask, Submit, Refused, Throw, Asserts, Goes
  <2>5. watch' = watch \/ (watch'.candidate = {} /\ watch'.pc = "head")
    BY <1>2, <2>2, <2>3, <2>4, Zenon DEF RunStep
  <2>. QED
    BY <1>1, <1>2, <2>5 DEF RunStep, chainVars, minedVars
<1>3. ASSUME UNCHANGED <<chainVars, minedVars, watch>>
      PROVE  WatchInv'
  BY <1>1, <1>3 DEF chainVars, minedVars
<1>4. ASSUME NEW w \in Write, NEW c \in Console, Begin(c, w)
      PROVE  WatchInv'
  BY <1>3, <1>4 DEF Begin
<1>5. ASSUME NEW w \in Write, Retry(w) \/ Dismiss(w) \/ Decide(w)
      PROVE  WatchInv'
  BY <1>3, <1>5 DEF Retry, Dismiss, Decide
<1>6. CASE Render \/ Effect \/ SessionStep \/ UNCHANGED vars
  BY <1>3, <1>6 DEF Render, Effect, SessionStep, writeVars, vars
<1>7. ASSUME NEW p \in Provider, Announce(p)
      PROVE  WatchInv'
  BY <1>3, <1>7 DEF Announce
<1>. QED
  BY <1>2, <1>4, <1>5, <1>6, <1>7, GrowWatches, WatchWatches DEF Next

\* The feed refreshes for a post only after the block of its receipt was Depth
\* deep on the canonical branch at one moment: the block was found before and
\* after the head that says so, and an abandoned block does not return.
THEOREM ConfirmedWasDeep == Spec => []ConfirmedIsDeep
<1>1. Init => WatchInv
  <2>1. SUFFICES ASSUME Init  PROVE WatchInv
    OBVIOUS
  <2>2. /\ orphaned = {} /\ \A w \in Write : mined[w] = {}
        /\ watch.pc = "none" /\ watch.candidate = {}
    BY <2>1 DEF Init, ChainInit, NoWatch
  <2>. QED
    BY <2>2 DEF WatchInv
<1>2. TypeOK /\ WatchInv /\ [Next]_vars => WatchInv'
  BY StepWatches
<1>3. WatchInv => ConfirmedIsDeep
  BY DEF WatchInv, ConfirmedIsDeep
<1>. QED
  BY <1>1, <1>2, <1>3, TypeCorrect, PTL DEF Spec

-----------------------------------------------------------------------------
(* What a console reports.                                                  *)

\* Only an authenticated receipt ends in "done".
LEMMA OnlyFinishIsDone ==
    ASSUME TypeOK, [Next]_vars, NEW w \in Write,
           attempt[w].status # "done", attempt'[w].status = "done"
    PROVE  \E k \in {"first", "again"} : ReadBlock(w, k) /\ \E b \in run[<<w, k>>].receipt :
              SameBlock(w, b) /\ <<w, b>> \notin reverting /\ Expected(w)
<1>0. attempt \in [Write -> AttemptType] /\ attempt[w] \in AttemptType /\ WritesTypeOK
  BY DEF TypeOK, WritesTypeOK
<1>1. attempt'[w] # attempt[w]
  OBVIOUS
<1>2. ASSUME NEW v \in Write, NEW k, NEW error, Throw(v, k, error)
      PROVE  FALSE
  <2>1. PICK status : status = AfterError(v, error)
    OBVIOUS
  <2>2. attempt' = [attempt EXCEPT ![v].status = status]
    BY <1>1, <1>2, <2>1 DEF Throw
  <2>3. status # "done"
    BY <2>1 DEF AfterError
  <2>. QED
    BY <1>0, <1>1, <2>2, <2>3 DEF AttemptType
<1>3. ASSUME NEW v \in Write, Submit(v)
      PROVE  FALSE
  <2>1. attempt' = [attempt EXCEPT ![v].status = "pending", ![v].hash = TRUE]
    BY <1>1, <1>2, <1>3 DEF Submit, Refused
  <2>2. v = w
    BY <1>0, <1>1, <2>1
  <2>3. attempt'[w] = [attempt[w] EXCEPT !.status = "pending", !.hash = TRUE]
    BY <1>0, <2>1, <2>2
  <2>4. attempt'[w].status = "pending"
    BY <1>0, <2>3 DEF AttemptType
  <2>. QED
    BY <2>4
<1>4. ASSUME NEW v \in Write, NEW k \in {"first", "again"},
             Guard(v, k) \/ Wait(v, k) \/ Recheck(v, k) \/ ReadReceipt(v, k) \/ Fails(v, k)
      PROVE  FALSE
  BY <1>1, <1>2, <1>4 DEF Guard, Wait, Recheck, Asserts, Goes, ReadReceipt, Fails
<1>5. ASSUME NEW v \in Write, Ask(v)
      PROVE  FALSE
  BY <1>1, <1>2, <1>5 DEF Ask
<1>6. ASSUME NEW v \in Write, NEW k \in {"first", "again"}, ReadBlock(v, k)
      PROVE  /\ v = w
             /\ \E b \in run[<<w, k>>].receipt :
                   SameBlock(w, b) /\ <<w, b>> \notin reverting /\ Expected(w)
  <2>1. PICK b \in run[<<v, k>>].receipt :
           /\ SameBlock(v, b) /\ <<v, b>> \notin reverting /\ Expected(v)
           /\ Finish(v, k, b)
    BY <1>1, <1>2, <1>6 DEF ReadBlock, PollsAgain
  <2>2. \A u \in Write : u # v => attempt'[u] = attempt[u]
    BY <1>0, <2>1 DEF Finish
  <2>. QED
    BY <1>1, <2>1, <2>2
<1>7. ASSUME NEW v \in Write, NEW c \in Console, Begin(c, v)
      PROVE  FALSE
  <2>1. \/ attempt'[w].status = "opening"
        \/ attempt'[w] = [attempt[w] EXCEPT !.status = "gone"]
    BY <1>1, <1>7 DEF Begin
  <2>. QED
    BY <1>0, <2>1 DEF AttemptType
<1>8. ASSUME NEW v \in Write, Retry(v)
      PROVE  FALSE
  <2>1. attempt'[w] = [attempt[w] EXCEPT !.status = "pending"]
    BY <1>0, <1>1, <1>8 DEF Retry
  <2>. QED
    BY <1>0, <2>1 DEF AttemptType
<1>9. ASSUME NEW v \in Write, Dismiss(v)
      PROVE  FALSE
  <2>1. attempt'[w] = [attempt[w] EXCEPT !.status = "gone", !.active = FALSE]
    BY <1>0, <1>1, <1>9 DEF Dismiss
  <2>. QED
    BY <1>0, <2>1 DEF AttemptType
<1>10. CASE Effect
  <2>1. attempt'[w] = Strand(w)
    BY <1>1, <1>10 DEF Effect
  <2>. QED
    BY <1>0, <2>1, StrandType
<1>11. ASSUME UNCHANGED attempt
       PROVE  FALSE
  BY <1>1, <1>11
<1>12. ASSUME \/ Render \/ SessionStep \/ Grow \/ WatchStep \/ UNCHANGED vars
              \/ (\E v \in Write : Decide(v)) \/ (\E p \in Provider : Announce(p))
       PROVE  FALSE
  BY <1>11, <1>12 DEF Render, SessionStep, Grow, WatchStep, Watch, StopWatching,
     WatchAgain, WatchHead, WatchReceipt, WatchBlock, WatchFinalHead, WatchFinalBlock,
     WatchFails, Decide, Announce, writeVars, vars
<1>13. CASE RunStep
  BY <1>3, <1>4, <1>5, <1>6, <1>13 DEF RunStep
<1>. QED
  BY <1>7, <1>8, <1>9, <1>10, <1>12, <1>13 DEF Next

\* A console reports a transaction as included only while a canonical block
\* holds it, not reverted, with the event that was asked for.
THEOREM DoneWasIncluded == Spec => DoneIsIncluded
<1>1. TypeOK /\ [Next]_vars =>
         \A w \in Write :
            (attempt[w].status # "done" /\ attempt'[w].status = "done") =>
               \E b \in mined[w] : /\ Canonical(b) /\ <<w, b>> \notin reverting
                                   /\ w \notin altered
  <2>1. SUFFICES ASSUME TypeOK, [Next]_vars, NEW w \in Write,
                        attempt[w].status # "done", attempt'[w].status = "done"
                 PROVE  \E b \in mined[w] : /\ Canonical(b) /\ <<w, b>> \notin reverting
                                            /\ w \notin altered
    OBVIOUS
  <2>. QED
    BY <2>1, OnlyFinishIsDone DEF SameBlock, Included, Expected
<1>. QED
  BY <1>1, TypeCorrect, PTL DEF Spec, DoneIsIncluded
-----------------------------------------------------------------------------
(* What the page knows of a wallet.                                         *)

\* No event of these kinds is on its way.
Silent(q, kinds) == \A k \in DOMAIN q : q[k].kind \notin kinds

\* The last change of chain on its way is to the chain the wallet is on.
EndsAt(q, w) ==
    \A k \in DOMAIN q :
        /\ q[k].kind = "chain"
        /\ \A m \in DOMAIN q : m > k => q[m].kind # "chain"
        => q[k].chain = {w.chain}

\* This account, or chain, is the wallet's, unless the page is about to hear
\* of a change.
AccountHeld(q, w, account) ==
    Silent(q, {"accounts", "disconnect"}) => w.up /\ w.account = account

ChainHeld(q, w, chain) == Silent(q, {"chain"}) => chain = {w.chain}

Single(S) == \A x, y \in S : x = y

\* What a read has been answered, if nothing was announced since.
ReadHeld(r) ==
    ~ r.changed /\ ~ r.lost =>
        \A p \in r.provider :
            /\ "accounts" \in r.answered => AccountHeld(events[p], wallet[p], r.account)
            /\ "chain" \in r.answered => ChainHeld(events[p], wallet[p], r.chain)

ReadFits(r) ==
    /\ Single(r.provider)
    /\ r.phase # "reading" => r.answered = {}

\* A connect that counts is of the wallet shown.
Counts(c, s, f) ==
    \A i \in c : f[i].phase # "idle" /\ f[i].kind = "connect" =>
        s.provider = f[i].provider

SessionHeld(s) ==
    /\ Single(s.provider)
    /\ s.status = "connected" =>
          \A p \in s.provider : /\ AccountHeld(events[p], wallet[p], s.account)
                                /\ ChainHeld(events[p], wallet[p], s.chain)

ReadsHeld == \A i \in Read : ReadFits(reads[i]) /\ ReadHeld(reads[i])

CurrentInv ==
    /\ \A p \in Provider : EndsAt(events[p], wallet[p])
    /\ SessionHeld(session)
    /\ ReadsHeld
    /\ Counts(current, session, reads)

Grown(q, w, q2, w2) ==
    /\ \A account : AccountHeld(q, w, account) => AccountHeld(q2, w2, account)
    /\ \A chain : ChainHeld(q, w, chain) => ChainHeld(q2, w2, chain)
    /\ EndsAt(q, w) => EndsAt(q2, w2)

\* A wallet that changes and says so takes nothing from what is known of it.
LEMMA AnnouncedGrows ==
    ASSUME NEW q \in Seq(EventType), NEW e \in EventType, NEW w, NEW w2,
           e.kind = "chain" =>
               e.chain = {w2.chain} /\ w2.up = w.up /\ w2.account = w.account,
           e.kind # "chain" => w2.chain = w.chain
    PROVE  Grown(q, w, q \o <<e>>, w2)
<1>1. PICK q2 : q2 = q \o <<e>>
  OBVIOUS
<1>2. /\ Len(q) \in Nat /\ DOMAIN q = 1 .. Len(q)
      /\ DOMAIN q2 = 1 .. Len(q) + 1
      /\ \A k \in DOMAIN q : k \in DOMAIN q2 /\ q2[k] = q[k]
      /\ q2[Len(q) + 1] = e
  <2>1. <<e>> \in Seq(EventType) /\ Len(<<e>>) = 1 /\ <<e>>[1] = e
    OBVIOUS
  <2>2. /\ q2 \in Seq(EventType) /\ Len(q2) = Len(q) + 1
        /\ \A i \in 1 .. Len(q) + 1 : q2[i] = IF i <= Len(q) THEN q[i] ELSE <<e>>[i - Len(q)]
    BY <1>1, <2>1, ConcatProperties
  <2>3. Len(q) \in Nat /\ DOMAIN q = 1 .. Len(q) /\ DOMAIN q2 = 1 .. Len(q2)
    BY <2>2, LenProperties
  <2>. QED
    BY <2>1, <2>2, <2>3
<1>3. Len(q) + 1 \in DOMAIN q2
  BY <1>2
<1>4. \A kinds : Silent(q2, kinds) => Silent(q, kinds) /\ e.kind \notin kinds
  BY <1>2, <1>3 DEF Silent
<1>5. e.kind \in {"accounts", "chain", "disconnect"}
  BY DEF EventType
<1>6. \A account : AccountHeld(q, w, account) => AccountHeld(q2, w2, account)
  BY <1>4, <1>5 DEF AccountHeld
<1>7. \A chain : ChainHeld(q, w, chain) => ChainHeld(q2, w2, chain)
  BY <1>4, <1>5 DEF ChainHeld
<1>8. ASSUME EndsAt(q, w), NEW k \in DOMAIN q2, q2[k].kind = "chain",
             \A m \in DOMAIN q2 : m > k => q2[m].kind # "chain"
      PROVE  q2[k].chain = {w2.chain}
  <2>1. CASE k = Len(q) + 1
    BY <1>2, <1>8, <2>1
  <2>2. CASE k # Len(q) + 1
    <3>1. k \in DOMAIN q /\ k < Len(q) + 1
      BY <1>2, <1>8, <2>2
    <3>2. e.kind # "chain"
      BY <1>2, <1>3, <1>8, <3>1
    <3>3. \A m \in DOMAIN q : m > k => q[m].kind # "chain"
      BY <1>2, <1>8
    <3>4. q[k].chain = {w.chain}
      BY <1>2, <1>8, <3>1, <3>3 DEF EndsAt
    <3>. QED
      BY <1>2, <3>1, <3>2, <3>4
  <2>. QED
    BY <2>1, <2>2
<1>9. EndsAt(q, w) => EndsAt(q2, w2)
  BY <1>8 DEF EndsAt
<1>. QED
  BY <1>1, <1>6, <1>7, <1>9 DEF Grown

\* A wallet that is up again is known no less.
LEMMA ReconnectedGrows ==
    ASSUME NEW q \in Seq(EventType), NEW w, NEW w2,
           w2.up = TRUE, w2.account = w.account, w2.chain = w.chain
    PROVE  Grown(q, w, q \o <<>>, w2)
<1>1. q \o <<>> = q
  BY ConcatEmptySeq
<1>. QED
  BY <1>1 DEF Grown, AccountHeld, ChainHeld, EndsAt

\* The page hears an event.
LEMMA HeardKeeps ==
    ASSUME NEW q \in Seq(EventType), q # <<>>, NEW w
    PROVE  LET e == Head(q)
           IN  /\ EndsAt(q, w) => EndsAt(Tail(q), w)
               /\ e.kind \notin {"accounts", "disconnect"} =>
                     \A account : AccountHeld(q, w, account) => AccountHeld(Tail(q), w, account)
               /\ e.kind # "chain" =>
                     \A chain : ChainHeld(q, w, chain) => ChainHeld(Tail(q), w, chain)
               /\ EndsAt(q, w) /\ e.kind = "chain" => ChainHeld(Tail(q), w, e.chain)
<1>1. PICK e, q2 : e = Head(q) /\ q2 = Tail(q)
  OBVIOUS
<1>2. /\ Len(q) \in Nat /\ Len(q) > 0 /\ DOMAIN q = 1 .. Len(q)
      /\ DOMAIN q2 = 1 .. Len(q) - 1
      /\ \A k \in DOMAIN q2 : k + 1 \in DOMAIN q /\ q2[k] = q[k + 1]
      /\ 1 \in DOMAIN q /\ q[1] = e
  <2>1. /\ q2 \in Seq(EventType) /\ Len(q2) = Len(q) - 1
        /\ \A i \in 1 .. Len(q2) : q2[i] = q[i + 1]
        /\ e = q[1]
    BY <1>1, HeadTailProperties
  <2>2. Len(q) \in Nat /\ Len(q) # 0 /\ DOMAIN q = 1 .. Len(q) /\ DOMAIN q2 = 1 .. Len(q2)
    BY <2>1, LenProperties, EmptySeq
  <2>. QED
    BY <2>1, <2>2
<1>3. \A k \in DOMAIN q : k = 1 \/ (k - 1 \in DOMAIN q2 /\ q2[k - 1] = q[k])
  <2>1. ASSUME NEW k \in DOMAIN q, k # 1
        PROVE  k - 1 \in DOMAIN q2 /\ q2[k - 1] = q[k]
    <3>1. k - 1 \in DOMAIN q2 /\ (k - 1) + 1 = k
      BY <1>2, <2>1
    <3>. QED
      BY <1>2, <3>1
  <2>. QED
    BY <2>1
<1>4. \A kinds : Silent(q2, kinds) /\ e.kind \notin kinds => Silent(q, kinds)
  BY <1>2, <1>3 DEF Silent
<1>5. ASSUME EndsAt(q, w), NEW k \in DOMAIN q2, q2[k].kind = "chain",
             \A m \in DOMAIN q2 : m > k => q2[m].kind # "chain"
      PROVE  q2[k].chain = {w.chain}
  <2>1. ASSUME NEW m \in DOMAIN q, m > k + 1  PROVE q[m].kind # "chain"
    <3>1. m - 1 \in DOMAIN q2 /\ q2[m - 1] = q[m]
      BY <1>2, <1>3, <2>1
    <3>2. m - 1 > k
      BY <1>2, <2>1
    <3>. QED
      BY <1>5, <3>1, <3>2
  <2>. QED
    BY <1>2, <1>5, <2>1 DEF EndsAt
<1>6. ASSUME EndsAt(q, w), e.kind = "chain", Silent(q2, {"chain"})
      PROVE  e.chain = {w.chain}
  <2>1. ASSUME NEW m \in DOMAIN q, m > 1  PROVE q[m].kind # "chain"
    BY <1>2, <1>3, <1>6, <2>1 DEF Silent
  <2>. QED
    BY <1>2, <1>6, <2>1 DEF EndsAt
<1>7. /\ EndsAt(q, w) => EndsAt(q2, w)
      /\ EndsAt(q, w) /\ e.kind = "chain" => ChainHeld(q2, w, e.chain)
  BY <1>5, <1>6 DEF EndsAt, ChainHeld
<1>8. /\ e.kind \notin {"accounts", "disconnect"} =>
            \A account : AccountHeld(q, w, account) => AccountHeld(q2, w, account)
      /\ e.kind # "chain" =>
            \A chain : ChainHeld(q, w, chain) => ChainHeld(q2, w, chain)
  BY <1>4 DEF AccountHeld, ChainHeld
<1>. QED
  BY <1>1, <1>7, <1>8

\* Nothing is taken from what is known of any wallet.
AllGrown == \A p \in Provider : Grown(events[p], wallet[p], events'[p], wallet'[p])

LEMMA NothingGrows ==
    ASSUME UNCHANGED <<wallet, events>>
    PROVE  AllGrown
  BY DEF AllGrown, Grown

LEMMA TellsGrows ==
    ASSUME SessionTypeOK, NEW p \in Provider, NEW new, NEW told, Tells(p, new, told),
           Grown(events[p], wallet[p], events[p] \o told, new)
    PROVE  AllGrown
<1>1. /\ events'[p] = events[p] \o told /\ wallet'[p] = new
      /\ \A q \in Provider \ {p} : events'[q] = events[q] /\ wallet'[q] = wallet[q]
  BY DEF Tells, SessionTypeOK
<1>2. \A q \in Provider \ {p} : Grown(events[q], wallet[q], events'[q], wallet'[q])
  BY <1>1 DEF Grown
<1>3. Grown(events[p], wallet[p], events'[p], wallet'[p])
  BY <1>1
<1>. QED
  BY <1>2, <1>3 DEF AllGrown

LEMMA GrowsHold ==
    ASSUME SessionTypeOK, AllGrown
    PROVE  /\ \A p \in Provider : EndsAt(events[p], wallet[p]) => EndsAt(events'[p], wallet'[p])
           /\ \A s \in SessionType : SessionHeld(s) => SessionHeld(s)'
           /\ \A r \in ReadType : ReadHeld(r) => ReadHeld(r)'
<1>1. ASSUME NEW s \in SessionType, SessionHeld(s)  PROVE SessionHeld(s)'
  <2>1. s.provider \subseteq Provider
    BY DEF SessionType
  <2>. QED
    BY <1>1, <2>1 DEF SessionHeld, AllGrown, Grown
<1>2. ASSUME NEW r \in ReadType, ReadHeld(r)  PROVE ReadHeld(r)'
  <2>1. r.provider \subseteq Provider
    BY DEF ReadType
  <2>. QED
    BY <1>2, <2>1 DEF ReadHeld, AllGrown, Grown
<1>. QED
  BY <1>1, <1>2 DEF AllGrown, Grown

\* What is held of the reads and the session as they are after the step.
LEMMA ReadsNow ==
    ASSUME \A j \in Read : \E x : x = reads'[j] /\ ReadFits(x) /\ ReadHeld(x)'
    PROVE  ReadsHeld'
<1>1. ASSUME NEW j \in Read  PROVE (ReadFits(reads[j]) /\ ReadHeld(reads[j]))'
  <2>1. PICK x : x = reads'[j] /\ ReadFits(x) /\ ReadHeld(x)'
    OBVIOUS
  <2>. QED
    BY <2>1 DEF ReadFits, ReadHeld
<1>. QED
  BY <1>1 DEF ReadsHeld

LEMMA SessionNow ==
    ASSUME NEW s, s = session', SessionHeld(s)'
    PROVE  SessionHeld(session)'
  BY DEF SessionHeld

\* One read goes on, and what it knows then is so.
LEMMA ReadMoves ==
    ASSUME SessionTypeOK, CurrentInv, AllGrown, NEW i \in Read, NEW r \in ReadType,
           reads' = [reads EXCEPT ![i] = r], ReadFits(r), ReadHeld(r)'
    PROVE  ReadsHeld'
<1>1. ASSUME NEW j \in Read
      PROVE  \E x : x = reads'[j] /\ ReadFits(x) /\ ReadHeld(x)'
  <2>1. CASE j = i
    <3>1. reads'[j] = r
      BY <2>1 DEF SessionTypeOK
    <3>. QED
      BY <3>1
  <2>2. CASE j # i
    <3>1. reads'[j] = reads[j] /\ reads[j] \in ReadType
      BY <2>2 DEF SessionTypeOK
    <3>2. PICK x \in ReadType : x = reads[j]
      BY <3>1
    <3>3. ReadFits(x) /\ ReadHeld(x)
      BY <3>2 DEF CurrentInv, ReadsHeld
    <3>4. ReadHeld(x)'
      BY <3>3, GrowsHold
    <3>. QED
      BY <3>1, <3>2, <3>3, <3>4
  <2>. QED
    BY <2>1, <2>2
<1>. QED
  BY <1>1, ReadsNow

\* A read that has been answered nothing knows nothing.
LEMMA NothingAnswered ==
    ASSUME NEW r, r.answered = {}
    PROVE  ReadHeld(r)'
  BY DEF ReadHeld

LEMMA IdleHolds == ReadFits(Idle) /\ Idle.answered = {} /\ Idle.phase = "idle"
  BY DEF ReadFits, Idle, Single

\* The session stays what it was, or is not connected.
LEMMA SessionMoves ==
    ASSUME SessionTypeOK, CurrentInv, AllGrown,
           \/ session' = session
           \/ Single(session'.provider) /\ session'.status # "connected"
    PROVE  SessionHeld(session)'
<1>1. PICK s : s = session'
  OBVIOUS
<1>2. CASE s = session
  <2>1. s \in SessionType /\ SessionHeld(s)
    BY <1>2 DEF SessionTypeOK, CurrentInv
  <2>. QED
    BY <1>1, <2>1, GrowsHold, SessionNow
<1>3. CASE Single(s.provider) /\ s.status # "connected"
  <2>1. SessionHeld(s)'
    BY <1>3 DEF SessionHeld
  <2>. QED
    BY <1>1, <2>1, SessionNow
<1>. QED
  BY <1>1, <1>2, <1>3

LEMMA EndsMove ==
    ASSUME SessionTypeOK, CurrentInv, AllGrown
    PROVE  \A p \in Provider : EndsAt(events'[p], wallet'[p])
  BY GrowsHold DEF CurrentInv

LEMMA Together ==
    ASSUME \A p \in Provider : EndsAt(events'[p], wallet'[p]),
           SessionHeld(session)', ReadsHeld', Counts(current', session', reads')
    PROVE  CurrentInv'
<1>1. Counts(current, session, reads)'
  BY DEF Counts
<1>2. (\A p \in Provider : EndsAt(events[p], wallet[p]))'
  BY DEF EndsAt
<1>. QED
  BY <1>1, <1>2 DEF CurrentInv

LEMMA WalletCurrent ==
    ASSUME SessionTypeOK, CurrentInv, WalletStep
    PROVE  CurrentInv'
<1>. PICK p \in scenario.wallets :
         ChangeAccount(p) \/ ChangeChain(p) \/ Disconnect(p) \/ Reconnect(p)
  BY DEF WalletStep
<1>0. p \in Provider /\ wallet[p] \in WalletType /\ events[p] \in Seq(EventType)
  BY SessionAssumption DEF SessionTypeOK
<1>1. ASSUME NEW new, NEW told, Changes(p, new, told),
             Grown(events[p], wallet[p], events[p] \o told, new)
      PROVE  CurrentInv'
  <2>1. AllGrown /\ UNCHANGED <<session, current, reads>>
    BY <1>0, <1>1, TellsGrows DEF Changes
  <2>2. ReadsHeld'
    <3>1. ASSUME NEW j \in Read
          PROVE  \E x : x = reads'[j] /\ ReadFits(x) /\ ReadHeld(x)'
      <4>1. PICK x \in ReadType : x = reads[j]
        BY DEF SessionTypeOK
      <4>2. ReadFits(x) /\ ReadHeld(x)
        BY <4>1 DEF CurrentInv, ReadsHeld
      <4>3. ReadHeld(x)'
        BY <2>1, <4>2, GrowsHold
      <4>. QED
        BY <2>1, <4>1, <4>2, <4>3
    <3>. QED
      BY <3>1, ReadsNow
  <2>3. Counts(current', session', reads')
    BY <2>1 DEF CurrentInv
  <2>. QED
    BY <2>1, <2>2, <2>3, SessionMoves, EndsMove, Together
<1>2. CASE ChangeAccount(p)
  <2>1. PICK account \in AtMostOne(Account) :
           Changes(p, [wallet[p] EXCEPT !.account = account],
                   <<Event("accounts", account, {})>>)
    BY <1>2 DEF ChangeAccount
  <2>2. PICK new, e : /\ new = [wallet[p] EXCEPT !.account = account]
                      /\ e = Event("accounts", account, {})
    OBVIOUS
  <2>3. account \in SUBSET Account
    BY DEF AtMostOne
  <2>4. e \in EventType /\ e.kind = "accounts" /\ new.chain = wallet[p].chain
    BY <1>0, <2>2, <2>3 DEF Event, EventType, WalletType
  <2>5. Grown(events[p], wallet[p], events[p] \o <<e>>, new)
    BY <1>0, <2>4, AnnouncedGrows
  <2>. QED
    BY <1>1, <2>1, <2>2, <2>5
<1>3. CASE ChangeChain(p)
  <2>1. PICK chain \in ChainId :
           Changes(p, [wallet[p] EXCEPT !.chain = chain],
                   <<Event("chain", {}, {chain})>>)
    BY <1>3 DEF ChangeChain
  <2>2. PICK new, e : /\ new = [wallet[p] EXCEPT !.chain = chain]
                      /\ e = Event("chain", {}, {chain})
    OBVIOUS
  <2>3. /\ e \in EventType /\ e.kind = "chain" /\ e.chain = {new.chain}
        /\ new.up = wallet[p].up /\ new.account = wallet[p].account
    BY <1>0, <2>2 DEF Event, EventType, WalletType
  <2>4. Grown(events[p], wallet[p], events[p] \o <<e>>, new)
    BY <1>0, <2>3, AnnouncedGrows
  <2>. QED
    BY <1>1, <2>1, <2>2, <2>4
<1>4. CASE Disconnect(p)
  <2>1. PICK new, e : /\ new = [wallet[p] EXCEPT !.up = FALSE]
                      /\ e = Event("disconnect", {}, {})
    OBVIOUS
  <2>2. e \in EventType /\ e.kind = "disconnect" /\ new.chain = wallet[p].chain
    BY <1>0, <2>1 DEF Event, EventType, WalletType
  <2>3. Grown(events[p], wallet[p], events[p] \o <<e>>, new)
    BY <1>0, <2>2, AnnouncedGrows
  <2>. QED
    BY <1>1, <1>4, <2>1, <2>3 DEF Disconnect
<1>5. CASE Reconnect(p)
  <2>1. PICK new : new = [wallet[p] EXCEPT !.up = TRUE]
    OBVIOUS
  <2>2. new.up = TRUE /\ new.account = wallet[p].account /\ new.chain = wallet[p].chain
    BY <1>0, <2>1 DEF WalletType
  <2>3. Grown(events[p], wallet[p], events[p] \o <<>>, new)
    BY <1>0, <2>2, ReconnectedGrows
  <2>. QED
    BY <1>1, <1>5, <2>1, <2>3 DEF Reconnect
<1>. QED
  BY <1>2, <1>3, <1>4, <1>5

LEMMA ConnectCurrent ==
    ASSUME SessionTypeOK, CurrentInv, NEW p \in Provider, Connect(p)
    PROVE  CurrentInv'
<1>1. PICK begun : begun = [Idle EXCEPT !.phase = "approval", !.kind = "connect",
                                        !.provider = {p}, !.tries = 1]
  OBVIOUS
<1>2. PICK i \in scenario.reads :
         /\ reads' = [reads EXCEPT ![i] = begun]
         /\ current' = {i}
         /\ Shows("connecting", p, {}, {})
         /\ UNCHANGED <<wallet, events>>
  BY <1>1 DEF Connect
<1>3. i \in Read
  BY SessionAssumption DEF SessionTypeOK
<1>4. /\ begun \in ReadType /\ begun.phase = "approval" /\ begun.provider = {p}
      /\ begun.answered = {}
  BY <1>1, IdleType DEF ReadType, Idle
<1>5. AllGrown
  BY <1>2, NothingGrows
<1>6. ReadFits(begun) /\ ReadHeld(begun)'
  BY <1>4, NothingAnswered DEF ReadFits, Single
<1>7. ReadsHeld'
  BY <1>2, <1>3, <1>4, <1>5, <1>6, ReadMoves
<1>8. session'.provider = {p} /\ session'.status = "connecting"
  BY <1>2 DEF Shows
<1>9. SessionHeld(session)'
  BY <1>5, <1>8, SessionMoves DEF Single
<1>10. reads'[i] = begun
  BY <1>2, <1>3 DEF SessionTypeOK
<1>11. Counts(current', session', reads')
  BY <1>2, <1>4, <1>8, <1>10 DEF Counts
<1>. QED
  BY <1>5, <1>7, <1>9, <1>11, EndsMove, Together

LEMMA SwitchCurrent ==
    ASSUME SessionTypeOK, CurrentInv, NEW p \in Provider, SwitchChain(p)
    PROVE  CurrentInv'
<1>1. PICK begun, new, e :
         /\ begun = [Idle EXCEPT !.phase = "approval", !.asked = TRUE,
                                 !.provider = {p}, !.tries = 1]
         /\ new = [wallet[p] EXCEPT !.chain = LocalChain]
         /\ e = Event("chain", {}, {LocalChain})
  OBVIOUS
<1>2. PICK i \in scenario.reads :
         /\ reads' = [reads EXCEPT ![i] = begun]
         /\ UNCHANGED <<wallet, events>> \/ Tells(p, new, <<e>>)
         /\ UNCHANGED <<session, current>>
  BY <1>1 DEF SwitchChain
<1>3. i \in Read
  BY SessionAssumption DEF SessionTypeOK
<1>4. /\ begun \in ReadType /\ begun.phase = "approval" /\ begun.provider = {p}
      /\ begun.answered = {} /\ begun.kind = "refresh"
  BY <1>1, IdleType DEF ReadType, Idle
<1>5. AllGrown
  <2>1. /\ e \in EventType /\ e.kind = "chain" /\ e.chain = {new.chain}
        /\ new.up = wallet[p].up /\ new.account = wallet[p].account
        /\ events[p] \in Seq(EventType)
    BY <1>1, SessionAssumption DEF Event, EventType, WalletType, SessionTypeOK
  <2>2. Grown(events[p], wallet[p], events[p] \o <<e>>, new)
    BY <2>1, AnnouncedGrows
  <2>. QED
    BY <1>2, <2>2, NothingGrows, TellsGrows
<1>6. ReadFits(begun) /\ ReadHeld(begun)'
  BY <1>4, NothingAnswered DEF ReadFits, Single
<1>7. ReadsHeld'
  BY <1>2, <1>3, <1>4, <1>5, <1>6, ReadMoves
<1>8. SessionHeld(session)'
  BY <1>2, <1>5, SessionMoves
<1>9. Counts(current', session', reads')
  <2>1. reads'[i] = begun /\ \A j \in Read \ {i} : reads'[j] = reads[j]
    BY <1>2, <1>3 DEF SessionTypeOK
  <2>. QED
    BY <1>2, <1>4, <2>1 DEF Counts, CurrentInv, SessionTypeOK
<1>. QED
  BY <1>5, <1>7, <1>8, <1>9, EndsMove, Together

LEMMA ApproveCurrent ==
    ASSUME SessionTypeOK, CurrentInv, NEW i \in Read, Approve(i)
    PROVE  CurrentInv'
<1>1. PICK next : next = IF reads[i].kind = "connect" /\ Superseded(i) THEN Idle
                         ELSE [reads[i] EXCEPT !.phase = "reading"]
  OBVIOUS
<1>2. /\ reads' = [reads EXCEPT ![i] = next]
      /\ reads[i].phase = "approval"
      /\ UNCHANGED <<wallet, events, session, current>>
  BY <1>1 DEF Approve
<1>3. reads[i] \in ReadType /\ ReadFits(reads[i])
  BY DEF SessionTypeOK, CurrentInv, ReadsHeld
<1>4. next \in ReadType /\ next.answered = {}
  BY <1>1, <1>2, <1>3, IdleType DEF ReadType, ReadFits, Idle
<1>5. ReadFits(next) /\ ReadHeld(next)'
  <2>1. Single(next.provider)
    BY <1>1, <1>3 DEF ReadFits, Single, Idle, ReadType
  <2>. QED
    BY <1>4, <2>1, NothingAnswered DEF ReadFits
<1>6. AllGrown
  BY <1>2, NothingGrows
<1>7. ReadsHeld'
  BY <1>2, <1>4, <1>5, <1>6, ReadMoves
<1>8. Counts(current', session', reads')
  <2>1. reads'[i] = next /\ \A j \in Read \ {i} : reads'[j] = reads[j]
    BY <1>2 DEF SessionTypeOK
  <2>2. \/ next.phase = "idle"
        \/ next.kind = reads[i].kind /\ next.provider = reads[i].provider
    BY <1>1, <1>3 DEF ReadType, Idle
  <2>. QED
    BY <1>2, <2>1, <2>2 DEF Counts, CurrentInv, SessionTypeOK
<1>. QED
  BY <1>2, <1>6, <1>7, <1>8, SessionMoves, EndsMove, Together

\* A call that is over leaves the others and the connect that counts.
LEMMA IdleCurrent ==
    ASSUME SessionTypeOK, CurrentInv, NEW i \in Read,
           reads' = [reads EXCEPT ![i] = Idle],
           UNCHANGED <<wallet, events, current>>,
           session'.provider = session.provider,
           SessionHeld(session)'
    PROVE  CurrentInv'
<1>1. AllGrown
  BY NothingGrows
<1>2. ReadsHeld'
  BY <1>1, IdleType, IdleHolds, NothingAnswered, ReadMoves
<1>3. Counts(current', session', reads')
  <2>1. reads'[i] = Idle /\ \A j \in Read \ {i} : reads'[j] = reads[j]
    BY DEF SessionTypeOK
  <2>. QED
    BY <2>1, IdleHolds DEF Counts, CurrentInv, SessionTypeOK
<1>. QED
  BY <1>1, <1>2, <1>3, EndsMove, Together

LEMMA FailedCurrent ==
    ASSUME SessionTypeOK, CurrentInv, NEW i \in Read, Failed(i),
           UNCHANGED <<wallet, events, current>>
    PROVE  CurrentInv'
<1>1. session \in SessionType /\ Single(session.provider)
  BY DEF SessionTypeOK, CurrentInv, SessionHeld
<1>2. /\ session'.provider = session.provider
      /\ session' = session \/ session'.status # "connected"
  BY <1>1 DEF Failed, SessionType
<1>3. SessionHeld(session)'
  BY <1>1, <1>2, NothingGrows, SessionMoves
<1>. QED
  BY <1>2, <1>3, IdleCurrent DEF Failed

LEMMA ReadFailsCurrent ==
    ASSUME SessionTypeOK, CurrentInv, NEW i \in Read, ReadFails(i)
    PROVE  CurrentInv'
<1>1. CASE Failed(i)
  BY <1>1, FailedCurrent DEF ReadFails
<1>2. CASE reads' = [reads EXCEPT ![i] = Idle] /\ UNCHANGED session
  BY <1>2, NothingGrows, SessionMoves, IdleCurrent DEF ReadFails
<1>. QED
  BY <1>1, <1>2 DEF ReadFails

\* A read that succeeds knows its account and its chain of the wallet shown.
LEMMA SucceededCurrent ==
    ASSUME SessionTypeOK, CurrentInv, NEW i \in Read,
           NEW account \in SUBSET Account, NEW chain \in SUBSET ChainId,
           reads[i].phase = "reading",
           \A p \in reads[i].provider : /\ AccountHeld(events[p], wallet[p], account)
                                        /\ ChainHeld(events[p], wallet[p], chain),
           Succeeded(i, account, chain), UNCHANGED <<wallet, events, current>>
    PROVE  CurrentInv'
<1>1. CASE Failed(i)
  BY <1>1, FailedCurrent
<1>2. CASE ~ Failed(i)
  <2>1. /\ reads' = [reads EXCEPT ![i] = Idle]
        /\ session' = IF Superseded(i) THEN session
                      ELSE [session EXCEPT
                               !.status = IF account = {} THEN "disconnected" ELSE "connected",
                               !.account = account, !.chain = chain]
    BY <1>2 DEF Succeeded
  <2>2. session \in SessionType /\ Single(session.provider)
    BY DEF SessionTypeOK, CurrentInv, SessionHeld
  <2>3. CASE Superseded(i)
    BY <2>1, <2>3, NothingGrows, SessionMoves, IdleCurrent
  <2>4. CASE ~ Superseded(i)
    <3>1. session.provider = reads[i].provider
      BY <2>4 DEF Superseded, Counts, CurrentInv, SessionTypeOK
    <3>2. PICK s : s = session'
      OBVIOUS
    <3>3. s.provider = session.provider /\ s.account = account /\ s.chain = chain
      BY <2>1, <2>2, <2>4, <3>2 DEF SessionType
    <3>4. SessionHeld(s)'
      BY <2>2, <3>1, <3>3 DEF SessionHeld
    <3>5. SessionHeld(session)'
      BY <3>2, <3>4, SessionNow
    <3>6. session'.provider = session.provider
      BY <3>2, <3>3
    <3>7. reads' = [reads EXCEPT ![i] = Idle]
      BY <2>1
    <3>. QED
      BY <3>5, <3>6, <3>7, IdleCurrent
  <2>. QED
    BY <2>3, <2>4
<1>. QED
  BY <1>1, <1>2

LEMMA AnswerCurrent ==
    ASSUME SessionTypeOK, CurrentInv, NEW i \in Read, NEW what \in {"accounts", "chain"},
           Answer(i, what)
    PROVE  CurrentInv'
<1>1. PICK p \in reads[i].provider :
         LET r == [reads[i] EXCEPT
                      !.answered = @ \cup {what},
                      !.account = IF what = "accounts" THEN wallet[p].account ELSE @,
                      !.chain = IF what = "chain" THEN {wallet[p].chain} ELSE @]
         IN  /\ wallet[p].up
             /\ IF r.answered = {"accounts", "chain"} THEN Conclude(i, r)
                ELSE reads' = [reads EXCEPT ![i] = r] /\ UNCHANGED session
  BY Zenon DEF Answer
<1>2. PICK r : r = [reads[i] EXCEPT
                      !.answered = @ \cup {what},
                      !.account = IF what = "accounts" THEN wallet[p].account ELSE @,
                      !.chain = IF what = "chain" THEN {wallet[p].chain} ELSE @]
  OBVIOUS
<1>3. /\ reads[i] \in ReadType /\ ReadFits(reads[i]) /\ ReadHeld(reads[i])
      /\ reads[i].phase = "reading"
      /\ UNCHANGED <<wallet, events, current>>
  BY DEF SessionTypeOK, CurrentInv, ReadsHeld, Answer
<1>4. p \in Provider /\ wallet[p] \in WalletType
  <2>1. p \in Provider
    BY <1>3 DEF ReadType
  <2>. QED
    BY <2>1 DEF SessionTypeOK
<1>5. /\ r \in ReadType
      /\ r.phase = "reading" /\ r.provider = reads[i].provider /\ r.kind = reads[i].kind
      /\ r.changed = reads[i].changed /\ r.lost = reads[i].lost
      /\ r.answered = reads[i].answered \cup {what}
      /\ r.account = IF what = "accounts" THEN wallet[p].account ELSE reads[i].account
      /\ r.chain = IF what = "chain" THEN {wallet[p].chain} ELSE reads[i].chain
  BY <1>2, <1>3, <1>4 DEF ReadType, WalletType
<1>6. ReadFits(r)
  BY <1>3, <1>5 DEF ReadFits
<1>7. ReadHeld(r)
  <2>1. ASSUME ~ r.changed, ~ r.lost, NEW q \in r.provider
        PROVE  /\ "accounts" \in r.answered => AccountHeld(events[q], wallet[q], r.account)
               /\ "chain" \in r.answered => ChainHeld(events[q], wallet[q], r.chain)
    <3>1. q = p
      BY <1>3, <1>5, <2>1 DEF ReadFits, Single
    <3>2. /\ "accounts" \in reads[i].answered =>
                AccountHeld(events[p], wallet[p], reads[i].account)
          /\ "chain" \in reads[i].answered =>
                ChainHeld(events[p], wallet[p], reads[i].chain)
      BY <1>3, <1>5, <2>1 DEF ReadHeld
    <3>3. /\ AccountHeld(events[p], wallet[p], wallet[p].account)
          /\ ChainHeld(events[p], wallet[p], {wallet[p].chain})
      BY <1>1 DEF AccountHeld, ChainHeld
    <3>4. CASE what = "accounts"
      BY <1>5, <3>1, <3>2, <3>3, <3>4
    <3>5. CASE what = "chain"
      BY <1>5, <3>1, <3>2, <3>3, <3>5
    <3>. QED
      BY <3>4, <3>5
  <2>. QED
    BY <2>1 DEF ReadHeld
<1>8. AllGrown
  BY <1>3, NothingGrows
<1>9. ASSUME NEW x \in ReadType, x.kind = r.kind, x.provider = r.provider,
             ReadFits(x), ReadHeld(x),
             reads' = [reads EXCEPT ![i] = x], UNCHANGED session
      PROVE  CurrentInv'
  <2>1. ReadHeld(x)'
    BY <1>8, <1>9, GrowsHold
  <2>2. ReadsHeld'
    BY <1>8, <1>9, <2>1, ReadMoves
  <2>3. Counts(current', session', reads')
    <3>1. reads'[i] = x /\ \A j \in Read \ {i} : reads'[j] = reads[j]
      BY <1>9 DEF SessionTypeOK
    <3>. QED
      BY <1>3, <1>5, <1>9, <3>1 DEF Counts, CurrentInv, SessionTypeOK
  <2>. QED
    BY <1>8, <1>9, <2>2, <2>3, SessionMoves, EndsMove, Together
<1>10. CASE r.answered = {"accounts", "chain"}
  <2>1. Conclude(i, r)
    BY <1>1, <1>2, <1>10
  <2>2. CASE r.lost
    BY <1>3, <2>1, <2>2, FailedCurrent DEF Conclude
  <2>3. CASE ~ r.lost /\ ~ r.changed
    <3>1. \A q \in reads[i].provider : /\ AccountHeld(events[q], wallet[q], r.account)
                                       /\ ChainHeld(events[q], wallet[q], r.chain)
      BY <1>5, <1>7, <1>10, <2>3 DEF ReadHeld
    <3>2. r.account \in SUBSET Account /\ r.chain \in SUBSET ChainId
      BY <1>5 DEF ReadType
    <3>3. Succeeded(i, r.account, r.chain)
      BY <2>1, <2>3 DEF Conclude
    <3>. QED
      BY <1>3, <3>1, <3>2, <3>3, SucceededCurrent
  <2>4. CASE ~ r.lost /\ r.changed /\ r.tries < 3
    <3>1. PICK x : x = [r EXCEPT !.answered = {}, !.account = {}, !.chain = {},
                                 !.changed = FALSE, !.tries = @ + 1]
      OBVIOUS
    <3>2. reads' = [reads EXCEPT ![i] = x] /\ UNCHANGED session
      BY <2>1, <2>4, <3>1 DEF Conclude
    <3>3. x.kind = r.kind /\ x.provider = r.provider /\ x.answered = {}
      BY <1>5, <3>1 DEF ReadType
    <3>4. x \in ReadType
      <4>1. PICK n \in Nat : n = r.tries + 1
        BY <1>5 DEF ReadType
      <4>2. x = [r EXCEPT !.answered = {}, !.account = {}, !.chain = {},
                          !.changed = FALSE, !.tries = n]
        BY <3>1, <4>1, SMT
      <4>. QED
        BY <1>5, <4>2 DEF ReadType
    <3>5. ReadFits(x) /\ ReadHeld(x)
      BY <1>6, <3>3 DEF ReadFits, ReadHeld
    <3>. QED
      BY <1>9, <3>2, <3>3, <3>4, <3>5
  <2>5. CASE ~ r.lost /\ r.changed /\ ~ (r.tries < 3)
    BY <1>3, <2>1, <2>5, FailedCurrent DEF Conclude
  <2>. QED
    BY <2>2, <2>3, <2>4, <2>5
<1>11. CASE r.answered # {"accounts", "chain"}
  <2>1. reads' = [reads EXCEPT ![i] = r] /\ UNCHANGED session
    BY <1>1, <1>2, <1>11
  <2>. QED
    BY <1>5, <1>6, <1>7, <1>9, <2>1
<1>. QED
  BY <1>10, <1>11

\* An event reaches the session and the reads of its wallet.
LEMMA DeliverCurrent ==
    ASSUME SessionTypeOK, CurrentInv, NEW p \in Provider, Deliver(p)
    PROVE  CurrentInv'
<1>1. PICK e : e = Head(events[p])
  OBVIOUS
<1>2. /\ events[p] \in Seq(EventType) /\ events[p] # <<>>
      /\ e \in EventType /\ e.kind \in {"accounts", "chain", "disconnect"}
  <2>1. events[p] \in Seq(EventType) /\ events[p] # <<>>
    BY DEF Deliver, SessionTypeOK
  <2>2. e \in EventType
    BY <1>1, <2>1, HeadTailProperties
  <2>. QED
    BY <2>1, <2>2 DEF EventType
<1>3. /\ events'[p] = Tail(events[p])
      /\ \A q \in Provider \ {p} : events'[q] = events[q]
      /\ UNCHANGED wallet
  BY DEF Deliver, SessionTypeOK
<1>4. /\ EndsAt(events'[p], wallet[p])
      /\ e.kind \notin {"accounts", "disconnect"} =>
            \A account : AccountHeld(events[p], wallet[p], account)
                            => AccountHeld(events'[p], wallet[p], account)
      /\ e.kind # "chain" =>
            \A chain : ChainHeld(events[p], wallet[p], chain)
                            => ChainHeld(events'[p], wallet[p], chain)
      /\ e.kind = "chain" => ChainHeld(events'[p], wallet[p], e.chain)
  BY <1>1, <1>2, <1>3, HeardKeeps DEF CurrentInv
<1>5. \A q \in Provider : EndsAt(events'[q], wallet'[q])
  BY <1>3, <1>4 DEF CurrentInv
<1>6. ASSUME NEW r \in ReadType, ReadHeld(r), p \notin r.provider
      PROVE  ReadHeld(r)'
  <2>1. \A q \in r.provider : events'[q] = events[q] /\ wallet'[q] = wallet[q]
    BY <1>3, <1>6 DEF ReadType
  <2>. QED
    BY <1>6, <2>1 DEF ReadHeld
<1>7. ASSUME NEW i \in Read
      PROVE  \E x : /\ x = Tracked(p, e)[i] /\ ReadFits(x) /\ ReadHeld(x)'
                    /\ x.kind = reads[i].kind /\ x.provider = reads[i].provider
                    /\ x.phase = reads[i].phase
  <2>1. PICK x : x = Tracked(p, e)[i]
    OBVIOUS
  <2>2. reads[i] \in ReadType /\ ReadFits(reads[i]) /\ ReadHeld(reads[i])
    BY DEF SessionTypeOK, CurrentInv, ReadsHeld
  <2>3. CASE reads[i].phase # "reading"
    <3>1. x = reads[i]
      BY <2>1, <2>3 DEF Tracked
    <3>2. x.answered = {}
      BY <2>2, <2>3, <3>1 DEF ReadFits
    <3>. QED
      BY <2>1, <2>2, <3>1, <3>2, NothingAnswered
  <2>4. CASE reads[i].phase = "reading" /\ reads[i].provider # {p}
    <3>1. x = reads[i]
      BY <2>1, <2>4 DEF Tracked
    <3>2. p \notin x.provider
      BY <2>2, <2>4, <3>1 DEF ReadFits, Single
    <3>. QED
      BY <1>6, <2>1, <2>2, <3>1, <3>2
  <2>5. CASE reads[i].phase = "reading" /\ reads[i].provider = {p}
    <3>1. x = IF e.kind = "disconnect" THEN [reads[i] EXCEPT !.lost = TRUE]
              ELSE [reads[i] EXCEPT !.changed = TRUE]
      BY <2>1, <2>5 DEF Tracked
    <3>2. /\ x.kind = reads[i].kind /\ x.provider = reads[i].provider
          /\ x.phase = reads[i].phase /\ x.answered = reads[i].answered
          /\ x.lost \/ x.changed
      BY <2>2, <3>1 DEF ReadType
    <3>3. ReadFits(x) /\ ReadHeld(x)'
      BY <2>2, <3>2 DEF ReadFits, ReadHeld
    <3>. QED
      BY <2>1, <3>2, <3>3
  <2>. QED
    BY <2>3, <2>4, <2>5
<1>8. PICK listening : listening = [Idle EXCEPT !.phase = "reading", !.provider = {p},
                                                !.tries = 1]
  OBVIOUS
<1>9. /\ ReadFits(listening) /\ ReadHeld(listening)'
      /\ listening.kind = "refresh"
  <2>1. /\ listening.answered = {} /\ listening.provider = {p}
        /\ listening.kind = "refresh"
    BY <1>8, IdleType DEF Idle
  <2>. QED
    BY <2>1, NothingAnswered DEF ReadFits, Single
<1>10. \/ reads' = Tracked(p, e)
       \/ \E i \in scenario.reads : reads' = [Tracked(p, e) EXCEPT ![i] = listening]
  BY <1>1, <1>8 DEF Deliver
<1>11. \A j \in Read : reads'[j] = Tracked(p, e)[j] \/ reads'[j] = listening
  <2>1. DOMAIN Tracked(p, e) = Read
    BY DEF Tracked
  <2>2. PICK f : f = Tracked(p, e)
    OBVIOUS
  <2>3. f = [j \in Read |-> f[j]]
    BY <2>2 DEF Tracked
  <2>. QED
    BY <1>10, <2>2, <2>3
<1>12. ReadsHeld'
  <2>1. ASSUME NEW j \in Read
        PROVE  \E x : x = reads'[j] /\ ReadFits(x) /\ ReadHeld(x)'
    BY <1>7, <1>9, <1>11
  <2>. QED
    BY <2>1, ReadsNow
<1>13. session \in SessionType /\ Single(session.provider) /\ SessionHeld(session)
  BY DEF SessionTypeOK, CurrentInv, SessionHeld
<1>14. PICK s : s = session'
  OBVIOUS
<1>15. /\ session.provider # {p} => s = session
       /\ session.provider = {p} /\ e.kind = "chain" => s = [session EXCEPT !.chain = e.chain]
       /\ session.provider = {p} /\ e.kind # "chain" =>
             s.status = "disconnected" /\ s.provider = session.provider
  <2>1. CASE session.provider # {p}
    BY <1>1, <1>14, <2>1 DEF Deliver
  <2>2. CASE session.provider = {p} /\ e.kind = "accounts"
    <3>1. s = [session EXCEPT !.status = "disconnected", !.account = {}]
      BY <1>1, <1>14, <2>2 DEF Deliver
    <3>. QED
      BY <1>13, <2>2, <3>1 DEF SessionType
  <2>3. CASE session.provider = {p} /\ e.kind = "chain"
    BY <1>1, <1>14, <2>3 DEF Deliver
  <2>4. CASE session.provider = {p} /\ e.kind = "disconnect"
    <3>1. s = [session EXCEPT !.status = "disconnected", !.account = {}, !.chain = {}]
      BY <1>1, <1>14, <2>4 DEF Deliver
    <3>. QED
      BY <1>13, <2>4, <3>1 DEF SessionType
  <2>. QED
    BY <1>2, <2>1, <2>2, <2>3, <2>4
<1>16. SessionHeld(s)' /\ s.provider = session.provider
  <2>1. CASE session.provider # {p}
    <3>1. p \notin session.provider /\ s = session
      BY <1>13, <1>15, <2>1 DEF Single
    <3>2. \A q \in s.provider : events'[q] = events[q] /\ wallet'[q] = wallet[q]
      BY <1>3, <1>13, <3>1 DEF SessionType
    <3>3. SessionHeld(s)
      BY <1>13, <3>1
    <3>. QED
      BY <3>1, <3>2, <3>3 DEF SessionHeld
  <2>2. CASE session.provider = {p} /\ e.kind = "chain"
    <3>1. /\ s.provider = {p} /\ s.chain = e.chain
          /\ s.account = session.account /\ s.status = session.status
      BY <1>13, <1>15, <2>2 DEF SessionType
    <3>2. s.status = "connected" => AccountHeld(events[p], wallet[p], s.account)
      BY <1>13, <2>2, <3>1 DEF SessionHeld
    <3>3. s.status = "connected" => /\ AccountHeld(events'[p], wallet'[p], s.account)
                                    /\ ChainHeld(events'[p], wallet'[p], s.chain)
      BY <1>3, <1>4, <2>2, <3>1, <3>2
    <3>. QED
      BY <2>2, <3>1, <3>3 DEF SessionHeld, Single
  <2>3. CASE session.provider = {p} /\ e.kind # "chain"
    BY <1>13, <1>15, <2>3 DEF SessionHeld
  <2>. QED
    BY <2>1, <2>2, <2>3
<1>17. SessionHeld(session)'
  BY <1>14, <1>16, SessionNow
<1>18. Counts(current', session', reads')
  <2>1. current' \subseteq current /\ current \subseteq Read
    BY <1>1 DEF Deliver, Abandoned, SessionTypeOK
  <2>2. ASSUME NEW i \in current', reads'[i].phase # "idle", reads'[i].kind = "connect"
        PROVE  session'.provider = reads'[i].provider
    <3>1. i \in Read /\ i \in current
      BY <2>1
    <3>2. reads'[i] = Tracked(p, e)[i]
      BY <1>9, <1>11, <2>2, <3>1
    <3>3. /\ reads'[i].kind = reads[i].kind /\ reads'[i].provider = reads[i].provider
          /\ reads'[i].phase = reads[i].phase
      BY <1>7, <3>1, <3>2
    <3>. QED
      BY <1>14, <1>16, <2>2, <3>1, <3>3 DEF Counts, CurrentInv
  <2>. QED
    BY <2>2 DEF Counts
<1>. QED
  BY <1>5, <1>12, <1>17, <1>18, Together

LEMMA WatchOnly ==
    ASSUME NEW from, NEW next, Watch(from, next)
    PROVE  UNCHANGED <<sessionVars, chainVars, minedVars>>
  BY DEF Watch

LEMMA WatchLeaves ==
    ASSUME WatchStep
    PROVE  UNCHANGED <<sessionVars, chainVars, minedVars>>
<1>1. CASE StopWatching
  BY <1>1, WatchOnly, Zenon DEF StopWatching
<1>2. CASE WatchAgain
  BY <1>2, WatchOnly, Zenon DEF WatchAgain
<1>3. CASE WatchHead
  BY <1>3, WatchOnly, Zenon DEF WatchHead
<1>4. CASE WatchReceipt
  BY <1>4, WatchOnly, Zenon DEF WatchReceipt
<1>5. CASE WatchBlock
  BY <1>5, WatchOnly, Zenon DEF WatchBlock
<1>6. CASE WatchFinalHead
  BY <1>6, WatchOnly, Zenon DEF WatchFinalHead
<1>7. CASE WatchFinalBlock
  BY <1>7, WatchOnly, Zenon DEF WatchFinalBlock
<1>8. CASE WatchFails
  BY <1>8, WatchOnly, Zenon DEF WatchFails
<1>. QED
  BY <1>1, <1>2, <1>3, <1>4, <1>5, <1>6, <1>7, <1>8 DEF WatchStep

LEMMA StepCurrent ==
    ASSUME TypeOK, CurrentInv, [Next]_vars
    PROVE  CurrentInv'
<1>1. SessionTypeOK
  BY DEF TypeOK
<1>2. ASSUME UNCHANGED sessionVars  PROVE CurrentInv'
  BY <1>2 DEF sessionVars, CurrentInv, SessionHeld, ReadsHeld, ReadHeld, ReadFits, Counts
<1>3. ASSUME NEW p \in Provider, Announce(p)
      PROVE  CurrentInv'
  BY <1>1, <1>3, DeliverCurrent DEF Announce
<1>4. CASE SessionStep
  <2>1. scenario.wallets \subseteq Provider
    BY <1>1, SessionAssumption DEF SessionTypeOK
  <2>. QED
    BY <1>1, <1>4, <2>1, WalletCurrent, ApproveCurrent, ReadFailsCurrent, AnswerCurrent,
       ConnectCurrent, SwitchCurrent DEF SessionStep
<1>5. CASE \/ \E w \in Write : \/ \E c \in Console : Begin(c, w)
                               \/ Retry(w) \/ Dismiss(w) \/ Decide(w)
           \/ Render \/ Effect \/ RunStep \/ Grow \/ UNCHANGED vars
  BY <1>2, <1>5 DEF Begin, Retry, Dismiss, Decide, Render, Effect, RunStep, Grow, vars
<1>6. CASE WatchStep
  BY <1>2, <1>6, WatchLeaves
<1>. QED
  BY <1>3, <1>4, <1>5, <1>6 DEF Next

LEMMA InitCurrent == Init => CurrentInv
<1>. SUFFICES ASSUME Init  PROVE CurrentInv
  OBVIOUS
<1>1. \A p \in Provider : EndsAt(events[p], wallet[p])
  BY DEF Init, SessionInit, EndsAt
<1>2. SessionHeld(session)
  BY DEF Init, SessionInit, SessionHeld, Single
<1>3. ReadsHeld
  BY IdleHolds DEF Init, SessionInit, ReadsHeld, ReadHeld
<1>. QED
  BY <1>1, <1>2, <1>3 DEF Init, SessionInit, CurrentInv, Counts

\* A page that shows a wallet as connected and has heard all it had to say
\* shows the account and the chain the wallet is on, whatever wallets change
\* between the reads of however many connects and refreshes.
THEOREM ConnectedStaysCurrent == Spec => []ConnectedIsCurrent
<1>1. TypeOK /\ CurrentInv /\ [Next]_vars => CurrentInv'
  BY StepCurrent
<1>2. TypeOK /\ CurrentInv => ConnectedIsCurrent
  <2>. SUFFICES ASSUME TypeOK, CurrentInv, session.status = "connected",
                       NEW p \in session.provider, events[p] = <<>>
                PROVE  /\ wallet[p].up
                       /\ wallet[p].account = session.account
                       /\ {wallet[p].chain} = session.chain
    BY DEF ConnectedIsCurrent
  <2>1. \A kinds : Silent(events[p], kinds)
    BY DEF Silent
  <2>. QED
    BY <2>1 DEF CurrentInv, SessionHeld, AccountHeld, ChainHeld
<1>. QED
  BY <1>1, <1>2, InitCurrent, TypeCorrect, PTL DEF Spec
=============================================================================
