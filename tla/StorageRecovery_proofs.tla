------------------------ MODULE StorageRecovery_proofs ------------------------
(***************************************************************************)
(* Theorems about StorageRecovery: for any tabs and uploads, any limit of  *)
(* the journal, and pages that die at any moment.                          *)
(***************************************************************************)
EXTENDS StorageRecovery, SequenceTheorems, TLAPS

-----------------------------------------------------------------------------
(* Types that TypeOK leaves out, and the shape of an upload.                *)

CallType == [do : {"stage", "submit", "remove"}, attempt : Attempt, hash : 0 .. 2]

\* The upload an operation, a panel or latest is about is one, or none.
AtMostOne(S) == \A a, b \in S : a = b

\* An upload that has not ended: the operation drawn an id for is running.
Busy == {"preparing", "staging", "signing", "released", "recording", "awaiting"}

Shape(t) ==
    /\ AtMostOne(upload[t].attempt)
    /\ AtMostOne(panel[t].attempt)
    /\ upload[t].phase = "released" => upload[t].hash = 0
    /\ upload[t].phase \in {"recording", "awaiting"} => upload[t].hash \in Hash
    /\ \A i \in DOMAIN calls[t] :
          calls[t][i].do = "submit" => calls[t][i].hash \in Hash
    /\ upload[t].phase \in Busy =>
          /\ latest[t] = upload[t].attempt
          /\ panel[t].attempt = upload[t].attempt
          /\ panel[t].kind \in {"preparing", "signing", "pending"}

Shapes ==
    /\ calls \in [Tab -> Seq(CallType)]
    /\ \A t \in Tab : Shape(t)

\* What the recovery panel acts on is one of the records it shows.
Acting(r) ==
    /\ r.action # "none" =>
          /\ r.load = "ready"
          /\ \E a \in DOMAIN r.records :
                /\ r.target = {a}
                /\ r.action = "checking" => r.records[a] # {}
    /\ r.action = "none" => ~ r.changePending

Actions == \A t \in Tab : Acting(recovery[t])

-----------------------------------------------------------------------------
(* Whose an upload is.                                                      *)

\* The uploads that the upload panel of a tab may still do something about.
Mine(t) ==
    upload[t].attempt \cup panel[t].attempt \cup latest[t]
        \cup {calls[t][i].attempt : i \in DOMAIN calls[t]}

\* An upload is of one tab, and of none before it began.
Owned ==
    /\ \A t, u \in Tab : t # u => Mine(t) \cap Mine(u) = {}
    /\ \A t \in Tab : Mine(t) \cap unused = {}
    /\ released \cap unused = {}
    /\ \A a \in unused : accepted[a] = {}

-----------------------------------------------------------------------------
(* Which hashes of an upload there may be.                                  *)

\* Hashes that the journal took or will be asked to take.
SentWithin(t, a, S) ==
    /\ accepted[a] \subseteq S
    /\ \A i \in DOMAIN calls[t] :
          calls[t][i].do = "submit" /\ calls[t][i].attempt = a => calls[t][i].hash \in S

\* No hash of the upload is waiting to be recorded, or only this one.
NoSubmit(t, a) ==
    \A i \in DOMAIN calls[t] : ~ (calls[t][i].do = "submit" /\ calls[t][i].attempt = a)

OnlySubmit(t, a, h) ==
    \A i, j \in DOMAIN calls[t] :
        /\ calls[t][i].do = "submit" /\ calls[t][i].attempt = a
        /\ calls[t][j].do = "submit" /\ calls[t][j].attempt = a
        => i = j /\ calls[t][i].hash = h

IsRemoved(t, a) ==
    \E i \in DOMAIN calls[t] : calls[t][i].do = "remove" /\ calls[t][i].attempt = a

\* Nothing of this upload is left to be recorded: it never spent anything, or
\* it is settled with every hash it has had; and it will have no other.
Over(t, a) ==
    /\ SentWithin(t, a, settled[a])
    /\ a \in released => settled[a] # {}
    /\ ~ (upload[t].phase \in Busy /\ a \in upload[t].attempt)

HashesKnown(t) ==
    /\ \A a \in upload[t].attempt :
          /\ upload[t].phase \in {"preparing", "staging", "signing"} => a \notin released
          /\ upload[t].phase \in {"preparing", "staging", "signing", "released"} =>
                SentWithin(t, a, {})
          /\ upload[t].phase \in {"recording", "awaiting", "checking"} =>
                SentWithin(t, a, 0 .. upload[t].hash)
          /\ upload[t].phase = "recording" => OnlySubmit(t, a, upload[t].hash)
          /\ upload[t].phase = "awaiting" => NoSubmit(t, a)
    /\ \A a \in panel[t].attempt :
          panel[t].kind \in {"ambiguous", "unknown", "checking"} =>
                SentWithin(t, a, 0 .. panel[t].hash)

\* A record is removed only if its upload is over.
RemovesOver(t) ==
    /\ \A a \in upload[t].attempt : upload[t].phase \in Removing => Over(t, a)
    /\ \A a \in panel[t].attempt : panel[t].kind \in {"confirmed", "cleanup"} => Over(t, a)
    /\ \A a \in Attempt : IsRemoved(t, a) => Over(t, a)

Tabs == \A t \in Tab : HashesKnown(t) /\ RemovesOver(t)

-----------------------------------------------------------------------------
(* What the tabs know.                                                      *)

\* An upload whose first signature was let out, or may be let out at once.
Watched ==
    {a \in Attempt :
        /\ settled[a] = {}
        /\ a \in released \/ \E t \in Tab : upload[t].phase = "signing" /\ a \in upload[t].attempt}

Knows(t) ==
    \/ t \in news
    \/ recovery[t].load \in {"loading", "error"}
    \/ recovery[t].changePending
    \/ recovery[t].load = "listed" /\ Watched \subseteq DOMAIN recovery[t].read
    \/ recovery[t].load = "ready" /\ Watched \subseteq DOMAIN recovery[t].records

Recorded == Watched \subseteq DOMAIN journal
Informed == \A t \in Tab : Knows(t)

RecoveryInvariant ==
    /\ TypeOK /\ Shapes /\ Actions /\ Owned /\ Tabs
    /\ Recorded /\ Informed /\ HashesAreSeen /\ DiscardedStaysGone

-----------------------------------------------------------------------------
(* Records, calls, and what the recovery panel does with a change.          *)

RecoveryType ==
    [load : {"loading", "listed", "ready", "error"},
     records : Records, read : Records,
     action : {"none", "checking", "removing"},
     target : SUBSET Attempt, discard : BOOLEAN,
     changePending : BOOLEAN,
     outcome : SUBSET (Attempt \X Hash)]

UploadType == [phase : Phases, attempt : SUBSET Attempt, hash : 0 .. 2]

PanelType ==
    [kind : {"idle", "preparing", "signing", "pending", "checking", "ambiguous",
             "unknown", "confirmed", "cleanup"},
     attempt : SUBSET Attempt, hash : 0 .. 2, warning : BOOLEAN]

\* A record list names uploads and their hashes.
LEMMA RecordsAre ==
    ASSUME NEW f
    PROVE  f \in Records <=> \E S \in SUBSET Attempt : f \in [S -> SUBSET Hash]
  BY DEF Records

LEMMA RecordFacts ==
    ASSUME NEW f \in Records
    PROVE  /\ DOMAIN f \subseteq Attempt
           /\ \A a \in DOMAIN f : f[a] \subseteq Hash
  BY RecordsAre

LEMMA NothingIsRecords == Nothing \in Records /\ DOMAIN Nothing = {}
<1>1. Nothing \in [{} -> SUBSET Hash]
  BY DEF Nothing
<1>. QED
  BY <1>1, RecordsAre

\* A record is written.
LEMMA PutRecord ==
    ASSUME NEW f \in Records, NEW a \in Attempt, NEW v \in SUBSET Hash
    PROVE  /\ Put(f, a, v) \in Records
           /\ DOMAIN Put(f, a, v) = DOMAIN f \cup {a}
           /\ Put(f, a, v)[a] = v
           /\ \A b \in DOMAIN f \ {a} : Put(f, a, v)[b] = f[b]
<1>1. PICK S \in SUBSET Attempt : f \in [S -> SUBSET Hash]
  BY RecordsAre
<1>2. Put(f, a, v) \in [S \cup {a} -> SUBSET Hash]
  BY <1>1 DEF Put
<1>. QED
  BY <1>1, <1>2, RecordsAre DEF Put

\* A record is deleted.
LEMMA DropRecord ==
    ASSUME NEW f \in Records, NEW a
    PROVE  /\ Drop(f, a) \in Records
           /\ DOMAIN Drop(f, a) = DOMAIN f \ {a}
           /\ \A b \in DOMAIN f \ {a} : Drop(f, a)[b] = f[b]
<1>1. PICK S \in SUBSET Attempt : f \in [S -> SUBSET Hash]
  BY RecordsAre
<1>2. Drop(f, a) \in [S \ {a} -> SUBSET Hash]
  BY <1>1 DEF Drop
<1>. QED
  BY <1>1, <1>2, RecordsAre DEF Drop

\* A call is made.
LEMMA AppendCall ==
    ASSUME NEW s \in Seq(CallType), NEW c \in CallType
    PROVE  /\ Append(s, c) \in Seq(CallType)
           /\ DOMAIN Append(s, c) = DOMAIN s \cup {Len(s) + 1}
           /\ Len(s) + 1 \notin DOMAIN s
           /\ Append(s, c)[Len(s) + 1] = c
           /\ \A i \in DOMAIN s : Append(s, c)[i] = s[i]
  BY AppendProperties

\* A call returns.
LEMMA TailOfCalls ==
    ASSUME NEW s \in Seq(CallType), s # <<>>
    PROVE  /\ Tail(s) \in Seq(CallType)
           /\ Head(s) = s[1] /\ 1 \in DOMAIN s
           /\ \A i \in DOMAIN Tail(s) : i + 1 \in DOMAIN s /\ i + 1 # 1 /\ Tail(s)[i] = s[i + 1]
           /\ \A i \in DOMAIN s : s[i] \in CallType
  BY HeadTailProperties

\* A change is seen at once, or when the action of the panel is finished.
LEMMA RereadFacts ==
    ASSUME NEW r \in RecoveryType, Acting(r)
    PROVE  /\ Reread(r) \in RecoveryType
           /\ Acting(Reread(r))
           /\ Reread(r).load = "loading" \/ Reread(r).changePending
           /\ Reread(r).action = r.action
  BY NothingIsRecords DEF Reread, RecoveryType, Acting

\* An action of the panel ends.
LEMMA FinishFacts ==
    ASSUME NEW r \in RecoveryType
    PROVE  /\ Finish(r) \in RecoveryType
           /\ Acting(Finish(r))
           /\ r.changePending => Finish(r).load = "loading"
           /\ ~ r.changePending =>
                 /\ Finish(r).load = r.load
                 /\ Finish(r).records = r.records
                 /\ Finish(r).read = r.read
<1>. DEFINE done == [r EXCEPT !.action = "none", !.target = {}, !.discard = FALSE]
            quiet == [done EXCEPT !.changePending = FALSE]
<1>1. /\ done \in RecoveryType /\ quiet \in RecoveryType
      /\ done.action = "none" /\ quiet.action = "none" /\ ~ quiet.changePending
      /\ done.load = r.load /\ done.records = r.records /\ done.read = r.read
      /\ done.changePending = r.changePending
  BY DEF RecoveryType
<1>2. Finish(r) = IF r.changePending THEN Reread(quiet) ELSE done
  BY DEF Finish
<1>. HIDE DEF done, quiet
<1>3. Acting(quiet) /\ (~ r.changePending => Acting(done))
  BY <1>1 DEF Acting
<1>4. r.changePending => Reread(quiet).load = "loading"
  BY <1>1, SMT DEF Reread, RecoveryType
<1>. QED
  BY <1>1, <1>2, <1>3, <1>4, RereadFacts

Held(a) == IF a \in DOMAIN journal THEN journal[a] ELSE {}

\* What a call does to the journal.
LEMMA EffectFacts ==
    ASSUME TypeOK, NEW c \in CallType, c.do = "submit" => c.hash \in Hash, Effect(c)
    PROVE  /\ journal' \in Records
           /\ accepted' \in [Attempt -> SUBSET Hash]
           /\ \A a \in Attempt \ {c.attempt} :
                 /\ a \in DOMAIN journal' <=> a \in DOMAIN journal
                 /\ Held(a)' = Held(a)
                 /\ accepted'[a] = accepted[a]
           /\ c.do # "remove" =>
                 /\ c.attempt \in DOMAIN journal'
                 /\ c.attempt \notin discarded
           /\ c.do = "stage" => Held(c.attempt)' = Held(c.attempt)
           /\ c.do = "submit" =>
                 /\ Held(c.attempt)' = Held(c.attempt) \cup {c.hash}
                 /\ accepted'[c.attempt] = accepted[c.attempt] \cup {c.hash}
           /\ c.do # "submit" => accepted' = accepted
           /\ c.do = "remove" => DOMAIN journal' = DOMAIN journal \ {c.attempt}
<1>1. c.attempt \in Attempt /\ journal \in Records /\ accepted \in [Attempt -> SUBSET Hash]
  BY DEF CallType, TypeOK
<1>2. Held(c.attempt) \in SUBSET Hash
  BY <1>1, RecordFacts DEF Held
<1>3. ASSUME NEW v \in SUBSET Hash, Record(c.attempt, v)
      PROVE  /\ journal' \in Records
             /\ DOMAIN journal' = DOMAIN journal \cup {c.attempt}
             /\ journal'[c.attempt] = Held(c.attempt) \cup v
             /\ \A b \in DOMAIN journal \ {c.attempt} : journal'[b] = journal[b]
  <2>1. journal' = Put(journal, c.attempt, Held(c.attempt) \cup v)
    BY <1>3 DEF Record, Held
  <2>. QED
    BY <1>1, <1>2, <2>1, PutRecord
<1>4. CASE c.do = "stage"
  BY <1>1, <1>3, <1>4 DEF Effect, Takes, Held
<1>5. CASE c.do = "submit"
  BY <1>1, <1>3, <1>5 DEF Effect, Takes, Held
<1>6. CASE c.do = "remove"
  <2>1. journal' = Drop(journal, c.attempt) /\ accepted' = accepted
    BY <1>6 DEF Effect
  <2>2. /\ journal' \in Records
        /\ DOMAIN journal' = DOMAIN journal \ {c.attempt}
        /\ \A b \in DOMAIN journal \ {c.attempt} : journal'[b] = journal[b]
    BY <1>1, <2>1, DropRecord
  <2>. QED
    BY <1>1, <1>6, <2>1, <2>2 DEF Held
<1>. QED
  BY <1>4, <1>5, <1>6 DEF CallType

-----------------------------------------------------------------------------
(* A step of the upload panel of one tab, and the other tabs.               *)

\* The panel of a tab changes; so may what is remembered of its own uploads.
Moves(t) ==
    /\ upload' \in [Tab -> UploadType]
    /\ panel' \in [Tab -> PanelType]
    /\ latest' \in [Tab -> SUBSET Attempt]
    /\ calls' \in [Tab -> Seq(CallType)]
    /\ \A u \in Tab \ {t} :
          /\ upload'[u] = upload[u]
          /\ panel'[u] = panel[u]
          /\ latest'[u] = latest[u]
          /\ calls'[u] = calls[u]
    /\ unused' \subseteq unused
    /\ Mine(t)' \subseteq Mine(t) \cup (unused \ unused')
    /\ released \subseteq released'
    /\ \A a \in released' \ released : upload[t].phase = "signing" /\ a \in upload[t].attempt
    /\ settled' \in [Attempt -> SUBSET (0 .. 2)]
    /\ \A a \in Attempt : settled[a] \subseteq settled'[a]
    /\ accepted' \in [Attempt -> SUBSET Hash]
    /\ \A a \in Attempt \ Mine(t) : accepted'[a] = accepted[a]

LEMMA TypesOfTabs ==
    ASSUME TypeOK
    PROVE  /\ upload \in [Tab -> UploadType]
           /\ panel \in [Tab -> PanelType]
           /\ latest \in [Tab -> SUBSET Attempt]
           /\ recovery \in [Tab -> RecoveryType]
           /\ settled \in [Attempt -> SUBSET (0 .. 2)]
           /\ accepted \in [Attempt -> SUBSET Hash]
  BY DEF TypeOK, UploadType, PanelType, RecoveryType

\* Nothing changes for the uploads of another tab.
LEMMA OtherTabs ==
    ASSUME TypeOK, Shapes, Owned, Tabs, NEW t \in Tab, Moves(t),
           Shape(t)', HashesKnown(t)', RemovesOver(t)'
    PROVE  Shapes' /\ Owned' /\ Tabs'
<1>. USE TypesOfTabs
<1>1. ASSUME NEW u \in Tab \ {t}
      PROVE  /\ Mine(u)' = Mine(u)
             /\ Mine(u) \cap (Mine(t) \cup unused) = {}
             /\ \A a \in Mine(u) : a \in Attempt => accepted'[a] = accepted[a]
             /\ \A a \in Mine(u) : a \in released' => a \in released
  <2>1. Mine(u)' = Mine(u)
    BY <1>1 DEF Moves, Mine
  <2>2. Mine(u) \cap (Mine(t) \cup unused) = {}
    BY <1>1 DEF Owned
  <2>3. upload[t].attempt \subseteq Mine(t)
    BY DEF Mine
  <2>. QED
    BY <1>1, <2>1, <2>2, <2>3 DEF Moves
<1>2. ASSUME NEW u \in Tab \ {t}
      PROVE  Shape(u)'
  BY <1>2 DEF Shapes, Shape, Moves
<1>3. ASSUME NEW u \in Tab \ {t}, NEW a \in Mine(u), a \in Attempt
      PROVE  \A S : SentWithin(u, a, S) <=> SentWithin(u, a, S)'
  BY <1>1, <1>3 DEF SentWithin, Moves
<1>4. ASSUME NEW u \in Tab \ {t}, NEW a \in Mine(u), a \in Attempt, Over(u, a)
      PROVE  Over(u, a)'
  <2>1. SentWithin(u, a, settled[a])'
    BY <1>1, <1>4 DEF Over, SentWithin, Moves
  <2>. QED
    BY <1>1, <1>4, <2>1 DEF Over, Moves
<1>5. ASSUME NEW u \in Tab \ {t}
      PROVE  HashesKnown(u)' /\ RemovesOver(u)'
  <2>1. HashesKnown(u) /\ RemovesOver(u)
    BY <1>5 DEF Tabs
  <2>2. /\ upload[u].attempt \subseteq Mine(u) /\ panel[u].attempt \subseteq Mine(u)
        /\ upload[u].attempt \subseteq Attempt /\ panel[u].attempt \subseteq Attempt
        /\ \A a \in Attempt : IsRemoved(u, a) => a \in Mine(u)
    BY <1>5 DEF Mine, IsRemoved, UploadType, PanelType
  <2>3. upload'[u] = upload[u] /\ panel'[u] = panel[u] /\ calls'[u] = calls[u]
    BY <1>5 DEF Moves
  <2>4. HashesKnown(u)'
    BY <1>1, <1>3, <1>5, <2>1, <2>2, <2>3 DEF HashesKnown, NoSubmit, OnlySubmit
  <2>5. RemovesOver(u)'
    BY <1>4, <1>5, <2>1, <2>2, <2>3 DEF RemovesOver, IsRemoved
  <2>. QED
    BY <2>4, <2>5
<1>6. Shapes'
  BY <1>2 DEF Shapes, Moves
<1>7. Tabs'
  BY <1>5 DEF Tabs
<1>8. Owned'
  <2>1. \A u \in Tab : Mine(u)' \cap unused' = {}
    BY <1>1 DEF Owned, Moves
  <2>2. ASSUME NEW u \in Tab, NEW v \in Tab, u # v
        PROVE  Mine(u)' \cap Mine(v)' = {}
    <3>1. CASE u # t /\ v # t
      BY <1>1, <2>2, <3>1 DEF Owned
    <3>2. CASE u = t
      BY <1>1, <2>2, <3>2 DEF Moves
    <3>3. CASE v = t
      BY <1>1, <2>2, <3>3 DEF Moves
    <3>. QED
      BY <3>1, <3>2, <3>3
  <2>3. upload[t].attempt \subseteq Mine(t) /\ Mine(t) \cap unused = {}
    BY DEF Mine, Owned
  <2>4. released' \cap unused' = {}
    BY <2>3 DEF Owned, Moves
  <2>5. \A a \in unused' : accepted'[a] = {}
    BY <2>3 DEF Owned, Moves, TypeOK
  <2>. QED
    BY <2>1, <2>2, <2>4, <2>5 DEF Owned
<1>. QED
  BY <1>6, <1>7, <1>8

\* A step that leaves the journal alone.
LEMMA QuietStep ==
    ASSUME RecoveryInvariant, NEW t \in Tab, Moves(t),
           Shape(t)', HashesKnown(t)', RemovesOver(t)',
           UNCHANGED <<stored, news, recovery, accepted>>,
           upload'[t].phase = "signing" => upload'[t] = upload[t]
    PROVE  RecoveryInvariant'
<1>1. Shapes' /\ Owned' /\ Tabs'
  BY OtherTabs DEF RecoveryInvariant
<1>2. TypeOK'
  <2>1. released' \subseteq Attempt /\ unused' \subseteq Attempt
    BY TypesOfTabs DEF RecoveryInvariant, TypeOK, Moves, UploadType
  <2>2. \A u \in Tab : \A i \in DOMAIN calls'[u] : calls'[u][i] \in CallType
    BY DEF Moves
  <2>. QED
    BY <2>1, <2>2 DEF RecoveryInvariant, TypeOK, Moves, UploadType, PanelType, CallType,
       stored
<1>3. Watched' \subseteq Watched
  BY TypesOfTabs DEF RecoveryInvariant, Watched, Moves
<1>4. Actions'
  BY DEF RecoveryInvariant, Actions, Acting
<1>5. Recorded'
  BY <1>3 DEF RecoveryInvariant, Recorded, stored
<1>6. Informed'
  BY <1>3 DEF RecoveryInvariant, Informed, Knows
<1>7. HashesAreSeen'
  BY DEF RecoveryInvariant, HashesAreSeen, Moves, stored
<1>8. DiscardedStaysGone'
  BY DEF RecoveryInvariant, DiscardedStaysGone, stored
<1>. QED
  BY <1>1, <1>2, <1>4, <1>5, <1>6, <1>7, <1>8 DEF RecoveryInvariant

-----------------------------------------------------------------------------
(* The upload panel between two returns of the journal.                     *)

PanelKinds ==
    {"idle", "preparing", "signing", "pending", "checking", "ambiguous",
     "unknown", "confirmed", "cleanup"}

\* What is known of a tab.
LEMMA TabFacts ==
    ASSUME RecoveryInvariant, NEW t \in Tab
    PROVE  /\ TypeOK /\ Owned
           /\ upload[t] \in UploadType /\ panel[t] \in PanelType
           /\ latest[t] \subseteq Attempt
           /\ calls \in [Tab -> Seq(CallType)] /\ calls[t] \in Seq(CallType)
           /\ Shape(t) /\ HashesKnown(t) /\ RemovesOver(t)
           /\ recovery[t] \in RecoveryType /\ Acting(recovery[t])
  BY TypesOfTabs DEF RecoveryInvariant, Shapes, Tabs, Actions

LEMMA PhaseNames ==
    {"preparing", "staging", "signing", "released", "recording", "awaiting", "checking",
     "clearing", "cleaning", "dismissing", "tidying"} \subseteq Phases
  BY DEF Phases, Removing

LEMMA Operates ==
    ASSUME TypeOK, NEW t \in Tab, NEW phase \in Phases, NEW a \in Attempt, NEW h \in 0 .. 2,
           Operate(t, phase, a, h)
    PROVE  /\ upload' \in [Tab -> UploadType]
           /\ upload'[t].phase = phase /\ upload'[t].attempt = {a} /\ upload'[t].hash = h
           /\ \A u \in Tab \ {t} : upload'[u] = upload[u]
<1>1. [phase |-> phase, attempt |-> {a}, hash |-> h] \in UploadType
  BY DEF UploadType
<1>. QED
  BY <1>1, TypesOfTabs DEF Operate

LEMMA Rests ==
    ASSUME TypeOK, NEW t \in Tab, Rest(t)
    PROVE  /\ upload' \in [Tab -> UploadType]
           /\ upload'[t].phase = "none" /\ upload'[t].attempt = {} /\ upload'[t].hash = 0
           /\ \A u \in Tab \ {t} : upload'[u] = upload[u]
<1>1. NoUpload \in UploadType
  BY DEF UploadType, NoUpload, Phases
<1>. QED
  BY <1>1, TypesOfTabs DEF Rest, NoUpload

LEMMA Shows ==
    ASSUME TypeOK, NEW t \in Tab, NEW kind \in PanelKinds, NEW a \in Attempt,
           NEW h \in 0 .. 2, Show(t, kind, a, h)
    PROVE  /\ panel' \in [Tab -> PanelType]
           /\ panel'[t].kind = kind /\ panel'[t].attempt = {a} /\ panel'[t].hash = h
           /\ \A u \in Tab \ {t} : panel'[u] = panel[u]
<1>1. [kind |-> kind, attempt |-> {a}, hash |-> h, warning |-> FALSE] \in PanelType
  BY DEF PanelType, PanelKinds
<1>. QED
  BY <1>1, TypesOfTabs DEF Show

LEMMA ShowsIdle ==
    ASSUME TypeOK, NEW t \in Tab, ShowIdle(t)
    PROVE  /\ panel' \in [Tab -> PanelType]
           /\ panel'[t].kind = "idle" /\ panel'[t].attempt = {} /\ panel'[t].hash = 0
           /\ \A u \in Tab \ {t} : panel'[u] = panel[u]
<1>1. IdlePanel \in PanelType
  BY DEF PanelType, IdlePanel
<1>. QED
  BY <1>1, TypesOfTabs DEF ShowIdle, IdlePanel

\* A call joins the ones under way.
LEMMA CallMade ==
    ASSUME calls \in [Tab -> Seq(CallType)], NEW t \in Tab,
           NEW do \in {"stage", "submit", "remove"}, NEW a \in Attempt, NEW h \in 0 .. 2,
           do = "submit" => h \in Hash,
           Call(t, do, a, h), Shape(t), UNCHANGED accepted
    PROVE  /\ calls' \in [Tab -> Seq(CallType)]
           /\ \A u \in Tab \ {t} : calls'[u] = calls[u]
           /\ \A i \in DOMAIN calls'[t] :
                 calls'[t][i].do = "submit" => calls'[t][i].hash \in Hash
           /\ {calls'[t][i].attempt : i \in DOMAIN calls'[t]} \subseteq
                 {calls[t][i].attempt : i \in DOMAIN calls[t]} \cup {a}
           /\ \A b : IsRemoved(t, b)' <=> (IsRemoved(t, b) \/ (do = "remove" /\ b = a))
           /\ \A b, S : (SentWithin(t, b, S))' <=>
                 SentWithin(t, b, S) /\ (do = "submit" /\ b = a => h \in S)
           /\ do = "submit" /\ NoSubmit(t, a) => OnlySubmit(t, a, h)'
<1>. DEFINE c == [do |-> do, attempt |-> a, hash |-> h]
<1>1. c \in CallType /\ c.do = do /\ c.attempt = a /\ c.hash = h
  BY DEF CallType
<1>2. calls' = [calls EXCEPT ![t] = Append(@, c)]
  BY DEF Call
<1>. HIDE DEF c
<1>. DEFINE n == Len(calls[t]) + 1
<1>3. /\ calls' \in [Tab -> Seq(CallType)]
      /\ \A u \in Tab \ {t} : calls'[u] = calls[u]
      /\ DOMAIN calls'[t] = DOMAIN calls[t] \cup {n}
      /\ n \notin DOMAIN calls[t]
      /\ calls'[t][n] = c
      /\ \A i \in DOMAIN calls[t] : calls'[t][i] = calls[t][i]
  BY <1>1, <1>2, AppendCall
<1>. HIDE DEF n
<1>4. \A i \in DOMAIN calls'[t] :
         calls'[t][i].do = "submit" => calls'[t][i].hash \in Hash
  BY <1>1, <1>3 DEF Shape
<1>5. {calls'[t][i].attempt : i \in DOMAIN calls'[t]} \subseteq
         {calls[t][i].attempt : i \in DOMAIN calls[t]} \cup {a}
  BY <1>1, <1>3
<1>6. \A b : IsRemoved(t, b)' <=> (IsRemoved(t, b) \/ (do = "remove" /\ b = a))
  BY <1>1, <1>3 DEF IsRemoved
<1>7. \A b, S : (SentWithin(t, b, S))' <=>
         SentWithin(t, b, S) /\ (do = "submit" /\ b = a => h \in S)
  BY <1>1, <1>3 DEF SentWithin
<1>8. do = "submit" /\ NoSubmit(t, a) => OnlySubmit(t, a, h)'
  BY <1>1, <1>3 DEF NoSubmit, OnlySubmit
<1>. QED
  BY <1>3, <1>4, <1>5, <1>6, <1>7, <1>8

\* The uploads that Mine is made of.
LEMMA MineIs ==
    ASSUME NEW t \in Tab
    PROVE  /\ upload[t].attempt \subseteq Mine(t) /\ panel[t].attempt \subseteq Mine(t)
           /\ latest[t] \subseteq Mine(t)
           /\ {calls[t][i].attempt : i \in DOMAIN calls[t]} \subseteq Mine(t)
  BY DEF Mine

\* The three calls there are.
LEMMA StageCalled ==
    ASSUME RecoveryInvariant, NEW t \in Tab, NEW a \in Attempt, Call(t, "stage", a, 0),
           UNCHANGED accepted
    PROVE  /\ calls' \in [Tab -> Seq(CallType)]
           /\ \A u \in Tab \ {t} : calls'[u] = calls[u]
           /\ \A i \in DOMAIN calls'[t] :
                 calls'[t][i].do = "submit" => calls'[t][i].hash \in Hash
           /\ a \in Mine(t) =>
                 {calls'[t][i].attempt : i \in DOMAIN calls'[t]} \subseteq Mine(t)
           /\ \A b : IsRemoved(t, b)' <=> IsRemoved(t, b)
           /\ \A b, S : (SentWithin(t, b, S))' <=> SentWithin(t, b, S)
<1>1. /\ "stage" \in {"stage", "submit", "remove"} /\ 0 \in 0 .. 2 /\ "stage" # "submit"
      /\ calls \in [Tab -> Seq(CallType)] /\ Shape(t) /\ "stage" # "remove"
  BY TabFacts
<1>2. /\ calls' \in [Tab -> Seq(CallType)]
      /\ \A u \in Tab \ {t} : calls'[u] = calls[u]
      /\ \A i \in DOMAIN calls'[t] :
            calls'[t][i].do = "submit" => calls'[t][i].hash \in Hash
      /\ {calls'[t][i].attempt : i \in DOMAIN calls'[t]} \subseteq
            {calls[t][i].attempt : i \in DOMAIN calls[t]} \cup {a}
      /\ \A b : IsRemoved(t, b)' <=> (IsRemoved(t, b) \/ ("stage" = "remove" /\ b = a))
      /\ \A b, S : (SentWithin(t, b, S))' <=>
            SentWithin(t, b, S) /\ ("stage" = "submit" /\ b = a => 0 \in S)
      /\ "stage" = "submit" /\ NoSubmit(t, a) => OnlySubmit(t, a, 0)'
  BY <1>1, CallMade, Zenon
<1>3. a \in Mine(t) =>
         {calls'[t][i].attempt : i \in DOMAIN calls'[t]} \subseteq Mine(t)
  BY <1>2, MineIs
<1>. QED
  BY <1>1, <1>2, <1>3

LEMMA RemoveCalled ==
    ASSUME RecoveryInvariant, NEW t \in Tab, NEW a \in Attempt, Call(t, "remove", a, 0),
           UNCHANGED accepted
    PROVE  /\ calls' \in [Tab -> Seq(CallType)]
           /\ \A u \in Tab \ {t} : calls'[u] = calls[u]
           /\ \A i \in DOMAIN calls'[t] :
                 calls'[t][i].do = "submit" => calls'[t][i].hash \in Hash
           /\ a \in Mine(t) =>
                 {calls'[t][i].attempt : i \in DOMAIN calls'[t]} \subseteq Mine(t)
           /\ \A b : IsRemoved(t, b)' => IsRemoved(t, b) \/ b = a
           /\ \A b, S : (SentWithin(t, b, S))' <=> SentWithin(t, b, S)
<1>1. /\ "remove" \in {"stage", "submit", "remove"} /\ 0 \in 0 .. 2 /\ "remove" # "submit"
      /\ calls \in [Tab -> Seq(CallType)] /\ Shape(t)
  BY TabFacts
<1>2. /\ calls' \in [Tab -> Seq(CallType)]
      /\ \A u \in Tab \ {t} : calls'[u] = calls[u]
      /\ \A i \in DOMAIN calls'[t] :
            calls'[t][i].do = "submit" => calls'[t][i].hash \in Hash
      /\ {calls'[t][i].attempt : i \in DOMAIN calls'[t]} \subseteq
            {calls[t][i].attempt : i \in DOMAIN calls[t]} \cup {a}
      /\ \A b : IsRemoved(t, b)' <=> (IsRemoved(t, b) \/ ("remove" = "remove" /\ b = a))
      /\ \A b, S : (SentWithin(t, b, S))' <=>
            SentWithin(t, b, S) /\ ("remove" = "submit" /\ b = a => 0 \in S)
      /\ "remove" = "submit" /\ NoSubmit(t, a) => OnlySubmit(t, a, 0)'
  BY <1>1, CallMade, Zenon
<1>3. a \in Mine(t) =>
         {calls'[t][i].attempt : i \in DOMAIN calls'[t]} \subseteq Mine(t)
  BY <1>2, MineIs
<1>. QED
  BY <1>1, <1>2, <1>3

LEMMA SubmitCalled ==
    ASSUME RecoveryInvariant, NEW t \in Tab, NEW a \in Attempt, NEW h \in Hash,
           Call(t, "submit", a, h), UNCHANGED accepted
    PROVE  /\ calls' \in [Tab -> Seq(CallType)]
           /\ \A u \in Tab \ {t} : calls'[u] = calls[u]
           /\ \A i \in DOMAIN calls'[t] :
                 calls'[t][i].do = "submit" => calls'[t][i].hash \in Hash
           /\ a \in Mine(t) =>
                 {calls'[t][i].attempt : i \in DOMAIN calls'[t]} \subseteq Mine(t)
           /\ \A b : IsRemoved(t, b)' <=> IsRemoved(t, b)
           /\ \A b, S : (SentWithin(t, b, S))' <=> SentWithin(t, b, S) /\ (b = a => h \in S)
           /\ NoSubmit(t, a) => OnlySubmit(t, a, h)'
<1>1. /\ "submit" \in {"stage", "submit", "remove"} /\ h \in 0 .. 2 /\ "submit" # "remove"
      /\ calls \in [Tab -> Seq(CallType)] /\ Shape(t)
  BY TabFacts DEF Hash
<1>2. /\ calls' \in [Tab -> Seq(CallType)]
      /\ \A u \in Tab \ {t} : calls'[u] = calls[u]
      /\ \A i \in DOMAIN calls'[t] :
            calls'[t][i].do = "submit" => calls'[t][i].hash \in Hash
      /\ {calls'[t][i].attempt : i \in DOMAIN calls'[t]} \subseteq
            {calls[t][i].attempt : i \in DOMAIN calls[t]} \cup {a}
      /\ \A b : IsRemoved(t, b)' <=> (IsRemoved(t, b) \/ ("submit" = "remove" /\ b = a))
      /\ \A b, S : (SentWithin(t, b, S))' <=>
            SentWithin(t, b, S) /\ ("submit" = "submit" /\ b = a => h \in S)
      /\ "submit" = "submit" /\ NoSubmit(t, a) => OnlySubmit(t, a, h)'
  BY <1>1, CallMade, Zenon
<1>3. a \in Mine(t) =>
         {calls'[t][i].attempt : i \in DOMAIN calls'[t]} \subseteq Mine(t)
  BY <1>2, MineIs
<1>. QED
  BY <1>1, <1>2, <1>3

\* A step that leaves what is remembered of the uploads, and only lets go of
\* uploads.
LEMMA MovesOnly ==
    ASSUME TypeOK, NEW t \in Tab,
           upload' \in [Tab -> UploadType], panel' \in [Tab -> PanelType],
           latest' \in [Tab -> SUBSET Attempt], calls' \in [Tab -> Seq(CallType)],
           \A u \in Tab \ {t} :
              /\ upload'[u] = upload[u]
              /\ panel'[u] = panel[u]
              /\ latest'[u] = latest[u]
              /\ calls'[u] = calls[u],
           upload'[t].attempt \subseteq Mine(t), panel'[t].attempt \subseteq Mine(t),
           latest'[t] \subseteq Mine(t),
           {calls'[t][i].attempt : i \in DOMAIN calls'[t]} \subseteq Mine(t),
           UNCHANGED <<unused, accepted>>,
           released \subseteq released',
           \A a \in released' \ released :
              upload[t].phase = "signing" /\ a \in upload[t].attempt,
           \/ UNCHANGED settled
           \/ \E a \in Attempt, h \in 0 .. 2 : Settle(a, h)
    PROVE  Moves(t)
<1>1. Mine(t)' \subseteq Mine(t) \cup (unused \ unused')
  BY DEF Mine
<1>2. /\ settled' \in [Attempt -> SUBSET (0 .. 2)]
      /\ \A a \in Attempt : settled[a] \subseteq settled'[a]
  <2>1. ASSUME NEW h \in 0 .. 2
        PROVE  0 .. h \subseteq 0 .. 2
    OBVIOUS
  <2>2. ASSUME NEW a \in Attempt, NEW h \in 0 .. 2, Settle(a, h)
        PROVE  /\ settled' \in [Attempt -> SUBSET (0 .. 2)]
               /\ \A b \in Attempt : settled[b] \subseteq settled'[b]
    BY <2>1, <2>2, TypesOfTabs DEF Settle
  <2>. QED
    BY <2>2, TypesOfTabs
<1>. QED
  BY <1>1, <1>2, TypesOfTabs DEF Moves

\* An upload stays over, and a hash within a larger set.
LEMMA OverStays ==
    ASSUME NEW t \in Tab, NEW b \in Attempt, Over(t, b),
           \A S : SentWithin(t, b, S) => (SentWithin(t, b, S))',
           settled[b] \subseteq settled'[b],
           b \in released' => b \in released,
           ~ (upload'[t].phase \in Busy /\ b \in upload'[t].attempt)
    PROVE  Over(t, b)'
<1>1. PICK S : S = settled[b]
  OBVIOUS
<1>2. SentWithin(t, b, S) /\ (SentWithin(t, b, S))'
  BY <1>1 DEF Over
<1>3. SentWithin(t, b, settled[b])'
  BY <1>1, <1>2 DEF SentWithin
<1>. QED
  BY <1>3 DEF Over

LEMMA SentMore ==
    ASSUME NEW t, NEW a, NEW S, NEW T, SentWithin(t, a, S), S \subseteq T
    PROVE  SentWithin(t, a, T)
  BY DEF SentWithin

LEMMA RunUploadKeeps ==
    ASSUME RecoveryInvariant, NEW t \in Tab, NEW a \in Attempt, RunUpload(t, a)
    PROVE  RecoveryInvariant'
<1>. USE TabFacts
<1>1. /\ upload' \in [Tab -> UploadType]
      /\ upload'[t].phase = "preparing" /\ upload'[t].attempt = {a} /\ upload'[t].hash = 0
      /\ \A u \in Tab \ {t} : upload'[u] = upload[u]
      /\ panel' \in [Tab -> PanelType]
      /\ panel'[t].kind = "preparing" /\ panel'[t].attempt = {a} /\ panel'[t].hash = 0
      /\ \A u \in Tab \ {t} : panel'[u] = panel[u]
  BY Operates, PhaseNames, Shows DEF RunUpload, PanelKinds
<1>2. /\ latest' \in [Tab -> SUBSET Attempt] /\ latest'[t] = {a}
      /\ \A u \in Tab \ {t} : latest'[u] = latest[u]
      /\ UNCHANGED <<stored, news, calls, recovery, reloads, ghosts>>
      /\ a \in unused /\ unused' = unused \ {a}
  BY TypesOfTabs DEF RunUpload
<1>. DEFINE asked == {calls[t][i].attempt : i \in DOMAIN calls[t]}
<1>3. Mine(t)' = asked \cup {a} /\ asked \subseteq Mine(t)
  BY <1>1, <1>2, MineIs DEF Mine
<1>4. Moves(t)
  <2>1. Mine(t)' \subseteq Mine(t) \cup (unused \ unused')
    BY <1>2, <1>3
  <2>. QED
    BY <1>1, <1>2, <2>1, TypesOfTabs DEF Moves, ghosts
<1>5. a \notin Mine(t) /\ a \notin released /\ accepted[a] = {}
  BY <1>2 DEF Owned
<1>10. \A i \in DOMAIN calls[t] : calls[t][i].attempt # a
  BY <1>5, MineIs
<1>11. \A b, S : (SentWithin(t, b, S))' <=> SentWithin(t, b, S)
  BY <1>2 DEF SentWithin, ghosts
<1>6. Shape(t)'
  BY <1>1, <1>2 DEF Shape, AtMostOne
<1>7. HashesKnown(t)'
  <2>1. SentWithin(t, a, {})
    BY <1>5, <1>10 DEF SentWithin
  <2>. QED
    BY <1>1, <1>2, <1>5, <1>11, <2>1 DEF HashesKnown, ghosts
<1>8. RemovesOver(t)'
  <2>1. ASSUME NEW b \in Attempt, IsRemoved(t, b)'
        PROVE  Over(t, b)'
    BY <1>1, <1>2, <1>10, <1>11, <2>1 DEF RemovesOver, IsRemoved, Over, ghosts
  <2>. QED
    BY <1>1, <2>1 DEF RemovesOver, Removing
<1>. QED
  BY <1>1, <1>2, <1>4, <1>6, <1>7, <1>8, QuietStep DEF ghosts

LEMMA StoredKeeps ==
    ASSUME RecoveryInvariant, NEW t \in Tab, Stored(t)
    PROVE  RecoveryInvariant'
<1>. USE TabFacts
<1>1. PICK a \in upload[t].attempt : Operate(t, "staging", a, 0) /\ Call(t, "stage", a, 0)
  BY DEF Stored
<1>2. /\ upload[t].phase = "preparing" /\ upload[t].attempt = {a} /\ a \in Attempt
      /\ UNCHANGED <<stored, news, latest, panel, recovery, unused, reloads, ghosts>>
  BY <1>1 DEF Stored, Shape, AtMostOne, UploadType
<1>3. /\ upload' \in [Tab -> UploadType]
      /\ upload'[t].phase = "staging" /\ upload'[t].attempt = {a} /\ upload'[t].hash = 0
      /\ \A u \in Tab \ {t} : upload'[u] = upload[u]
  BY <1>1, <1>2, Operates, PhaseNames
<1>4. /\ calls' \in [Tab -> Seq(CallType)]
      /\ \A u \in Tab \ {t} : calls'[u] = calls[u]
      /\ \A i \in DOMAIN calls'[t] :
            calls'[t][i].do = "submit" => calls'[t][i].hash \in Hash
      /\ {calls'[t][i].attempt : i \in DOMAIN calls'[t]} \subseteq Mine(t)
      /\ \A b : IsRemoved(t, b)' <=> IsRemoved(t, b)
      /\ \A b, S : (SentWithin(t, b, S))' <=> SentWithin(t, b, S)
  <2>1. a \in Mine(t) /\ Call(t, "stage", a, 0) /\ UNCHANGED accepted
    BY <1>1, <1>2, MineIs DEF ghosts
  <2>. QED
    BY <1>2, <2>1, StageCalled, Zenon
<1>5. Moves(t)
  BY <1>2, <1>3, <1>4, MovesOnly, MineIs, TypesOfTabs DEF ghosts
<1>6. Shape(t)'
  BY <1>2, <1>3, <1>4 DEF Shape, Busy, AtMostOne
<1>7. HashesKnown(t)'
  BY <1>2, <1>3, <1>4 DEF HashesKnown, ghosts
<1>8. RemovesOver(t)'
  BY <1>2, <1>3, <1>4 DEF RemovesOver, Over, Removing, Busy, ghosts
<1>. QED
  BY <1>2, <1>3, <1>5, <1>6, <1>7, <1>8, QuietStep DEF ghosts

LEMMA ReleaseKeeps ==
    ASSUME RecoveryInvariant, NEW t \in Tab, Release(t)
    PROVE  RecoveryInvariant'
<1>. USE TabFacts
<1>1. PICK a \in upload[t].attempt :
         Operate(t, "released", a, 0) /\ released' = released \cup {a}
  BY DEF Release
<1>2. /\ upload[t].phase = "signing" /\ upload[t].attempt = {a} /\ a \in Attempt
      /\ UNCHANGED <<stored, news, latest, panel, calls, recovery, unused, settled, accepted>>
  BY <1>1 DEF Release, Shape, AtMostOne, UploadType
<1>3. /\ upload' \in [Tab -> UploadType]
      /\ upload'[t].phase = "released" /\ upload'[t].attempt = {a} /\ upload'[t].hash = 0
      /\ \A u \in Tab \ {t} : upload'[u] = upload[u]
  <2>1. "released" \in Phases /\ 0 \in 0 .. 2 /\ Operate(t, "released", a, 0)
    BY <1>1 DEF Phases
  <2>. QED
    BY <1>2, <2>1, Operates
<1>4. \A b, S : (SentWithin(t, b, S))' <=> SentWithin(t, b, S)
  BY <1>2 DEF SentWithin
<1>5. Moves(t)
  BY <1>1, <1>2, <1>3, MovesOnly, MineIs, TypesOfTabs
<1>6. Shape(t)'
  BY <1>2, <1>3 DEF Shape, Busy, AtMostOne
<1>7. HashesKnown(t)'
  BY <1>2, <1>3, <1>4 DEF HashesKnown
<1>8. RemovesOver(t)'
  <2>1. \A b \in Attempt : Over(t, b) => b # a /\ Over(t, b)'
    BY <1>1, <1>2, <1>3, <1>4, OverStays DEF Over, Busy
  <2>2. \A b \in Attempt : IsRemoved(t, b)' <=> IsRemoved(t, b)
    BY <1>2 DEF IsRemoved
  <2>. QED
    BY <1>2, <1>3, <2>1, <2>2 DEF RemovesOver, Removing, PanelType
<1>. QED
  BY <1>1, <1>2, <1>3, <1>5, <1>6, <1>7, <1>8, QuietStep

LEMMA SubmittedKeeps ==
    ASSUME RecoveryInvariant, NEW t \in Tab, Submitted(t)
    PROVE  RecoveryInvariant'
<1>. USE TabFacts
<1>1. PICK a \in upload[t].attempt, h \in {upload[t].hash + 1} :
         Operate(t, "recording", a, h) /\ Call(t, "submit", a, h)
  BY DEF Submitted
<1>2. /\ upload[t].phase \in {"released", "awaiting"} /\ upload[t].attempt = {a}
      /\ a \in Attempt /\ h \in Hash /\ h \in 0 .. 2 /\ upload[t].hash \in 0 .. 2
      /\ h = upload[t].hash + 1
      /\ UNCHANGED <<stored, news, latest, panel, recovery, unused, reloads, ghosts>>
  BY <1>1 DEF Submitted, Shape, AtMostOne, UploadType, Hash
<1>3. /\ upload' \in [Tab -> UploadType]
      /\ upload'[t].phase = "recording" /\ upload'[t].attempt = {a} /\ upload'[t].hash = h
      /\ \A u \in Tab \ {t} : upload'[u] = upload[u]
  BY <1>1, <1>2, Operates, PhaseNames
<1>4. /\ calls' \in [Tab -> Seq(CallType)]
      /\ \A u \in Tab \ {t} : calls'[u] = calls[u]
      /\ \A i \in DOMAIN calls'[t] :
            calls'[t][i].do = "submit" => calls'[t][i].hash \in Hash
      /\ {calls'[t][i].attempt : i \in DOMAIN calls'[t]} \subseteq Mine(t)
      /\ \A b : IsRemoved(t, b)' <=> IsRemoved(t, b)
      /\ \A b, S : (SentWithin(t, b, S))' <=> SentWithin(t, b, S) /\ (b = a => h \in S)
      /\ NoSubmit(t, a) => OnlySubmit(t, a, h)'
  <2>1. a \in Mine(t) /\ Call(t, "submit", a, h) /\ UNCHANGED accepted
    BY <1>1, <1>2, MineIs DEF ghosts
  <2>. QED
    BY <1>2, <2>1, SubmitCalled, Zenon
<1>5. Moves(t)
  BY <1>2, <1>3, <1>4, MovesOnly, MineIs, TypesOfTabs DEF ghosts
<1>6. Shape(t)'
  BY <1>2, <1>3, <1>4 DEF Shape, Busy, AtMostOne
<1>7. HashesKnown(t)'
  <2>1. NoSubmit(t, a) /\ SentWithin(t, a, 0 .. upload[t].hash)
    <3>1. CASE upload[t].phase = "released"
      BY <1>2, <3>1, SentMore DEF HashesKnown, NoSubmit, SentWithin
    <3>2. CASE upload[t].phase = "awaiting"
      BY <1>2, <3>2 DEF HashesKnown
    <3>. QED
      BY <1>2, <3>1, <3>2
  <2>2. SentWithin(t, a, 0 .. h) /\ h \in 0 .. h
    BY <1>2, <2>1, SentMore
  <2>3. (SentWithin(t, a, 0 .. h))' /\ OnlySubmit(t, a, h)'
    BY <1>4, <2>1, <2>2
  <2>. QED
    BY <1>2, <1>3, <2>3 DEF HashesKnown, Shape, Busy
<1>8. RemovesOver(t)'
  <2>1. \A b \in Attempt : Over(t, b) => b # a /\ Over(t, b)'
    BY <1>2, <1>3, <1>4, OverStays DEF Over, Busy, ghosts
  <2>. QED
    BY <1>2, <1>3, <1>4, <2>1 DEF RemovesOver, Removing, PanelType
<1>. QED
  BY <1>2, <1>3, <1>5, <1>6, <1>7, <1>8, QuietStep DEF ghosts

LEMMA AuthenticatedKeeps ==
    ASSUME RecoveryInvariant, NEW t \in Tab, Authenticated(t)
    PROVE  RecoveryInvariant'
<1>. USE TabFacts
<1>1. PICK a \in upload[t].attempt :
         /\ Operate(t, "clearing", a, upload[t].hash)
         /\ Call(t, "remove", a, 0)
         /\ Settle(a, upload[t].hash)
  BY DEF Authenticated
<1>2. /\ upload[t].phase \in {"awaiting", "checking"} /\ upload[t].attempt = {a}
      /\ a \in Attempt /\ upload[t].hash \in 0 .. 2
      /\ UNCHANGED <<stored, news, latest, panel, recovery, unused, released, accepted>>
  BY <1>1 DEF Authenticated, Shape, AtMostOne, UploadType
<1>3. /\ upload' \in [Tab -> UploadType]
      /\ upload'[t].phase = "clearing" /\ upload'[t].attempt = {a}
      /\ \A u \in Tab \ {t} : upload'[u] = upload[u]
  BY <1>1, <1>2, Operates, PhaseNames
<1>4. /\ calls' \in [Tab -> Seq(CallType)]
      /\ \A u \in Tab \ {t} : calls'[u] = calls[u]
      /\ \A i \in DOMAIN calls'[t] :
            calls'[t][i].do = "submit" => calls'[t][i].hash \in Hash
      /\ {calls'[t][i].attempt : i \in DOMAIN calls'[t]} \subseteq Mine(t)
      /\ \A b : IsRemoved(t, b)' => IsRemoved(t, b) \/ b = a
      /\ \A b, S : (SentWithin(t, b, S))' <=> SentWithin(t, b, S)
  <2>1. a \in Mine(t)
    BY <1>1, <1>2, MineIs
  <2>. QED
    BY <1>1, <1>2, <2>1, RemoveCalled
<1>5. Moves(t)
  BY <1>1, <1>2, <1>3, <1>4, MovesOnly, MineIs, TypesOfTabs
<1>6. Shape(t)'
  BY <1>2, <1>3, <1>4 DEF Shape, Busy, AtMostOne
<1>7. HashesKnown(t)'
  BY <1>2, <1>3, <1>4 DEF HashesKnown
<1>8. RemovesOver(t)'
  <2>1. settled'[a] = settled[a] \cup (0 .. upload[t].hash)
    BY <1>1, <1>2, TypesOfTabs DEF Settle
  <2>2. PICK S : S = 0 .. upload[t].hash
    OBVIOUS
  <2>3. Over(t, a)'
    <3>1. (SentWithin(t, a, S))' /\ 0 \in S
      <4>1. SentWithin(t, a, 0 .. upload[t].hash)
        BY <1>2 DEF HashesKnown
      <4>2. SentWithin(t, a, S)
        BY <2>2, <4>1
      <4>3. 0 \in S
        BY <1>2, <2>2
      <4>. QED
        BY <1>4, <4>2, <4>3
    <3>2. SentWithin(t, a, settled[a])'
      BY <2>1, <2>2, <3>1 DEF SentWithin
    <3>. QED
      BY <1>3, <2>1, <2>2, <3>1, <3>2 DEF Over, Busy
  <2>4. \A b \in Attempt : Over(t, b) => Over(t, b)'
    BY <1>2, <1>3, <1>4, <1>5, OverStays DEF Busy, Moves
  <2>. QED
    BY <1>2, <1>3, <1>4, <2>3, <2>4 DEF RemovesOver, PanelType
<1>. QED
  BY <1>2, <1>3, <1>5, <1>6, <1>7, <1>8, QuietStep

\* The operation of a tab has ended, and its panel shows how.
LEMMA EndKeeps ==
    ASSUME RecoveryInvariant, NEW t \in Tab, Moves(t),
           UNCHANGED <<stored, news, recovery, accepted, released>>,
           upload'[t].phase = "none", upload'[t].attempt = {},
           AtMostOne(panel'[t].attempt),
           \A i \in DOMAIN calls'[t] :
              calls'[t][i].do = "submit" => calls'[t][i].hash \in Hash,
           \A b, S : SentWithin(t, b, S) => (SentWithin(t, b, S))',
           \A b \in Attempt : IsRemoved(t, b)' => IsRemoved(t, b) \/ Over(t, b)',
           \A a \in panel'[t].attempt :
              /\ panel'[t].kind \in {"ambiguous", "unknown", "checking"} =>
                    (SentWithin(t, a, 0 .. panel[t].hash))'
              /\ panel'[t].kind \in {"confirmed", "cleanup"} => Over(t, a) \/ Over(t, a)'
    PROVE  RecoveryInvariant'
<1>. USE TabFacts
<1>1. Shape(t)'
  BY DEF Shape, Busy, AtMostOne
<1>2. HashesKnown(t)'
  BY DEF HashesKnown
<1>3. \A b \in Attempt : Over(t, b) => Over(t, b)'
  BY OverStays DEF Busy, Moves
<1>4. panel'[t].attempt \subseteq Attempt
  BY DEF Moves, PanelType
<1>5. RemovesOver(t)'
  BY <1>3, <1>4 DEF RemovesOver
<1>. QED
  BY <1>1, <1>2, <1>5, QuietStep

LEMMA FailKeeps ==
    ASSUME RecoveryInvariant, NEW t \in Tab, Fail(t)
    PROVE  RecoveryInvariant'
<1>. USE TabFacts
<1>1. UNCHANGED <<stored, news, latest, recovery, unused, reloads, ghosts>>
  BY DEF Fail
<1>2. ASSUME Rest(t), UNCHANGED calls,
             panel' \in [Tab -> PanelType],
             \A u \in Tab \ {t} : panel'[u] = panel[u],
             panel'[t].attempt \subseteq upload[t].attempt,
             panel'[t].kind \notin {"confirmed", "cleanup"},
             \A a \in panel'[t].attempt :
                panel'[t].kind \in {"ambiguous", "unknown", "checking"} =>
                   SentWithin(t, a, 0 .. panel'[t].hash)
      PROVE  RecoveryInvariant'
  <2>1. /\ upload' \in [Tab -> UploadType]
        /\ upload'[t].phase = "none" /\ upload'[t].attempt = {}
        /\ \A u \in Tab \ {t} : upload'[u] = upload[u]
    BY <1>2, Rests
  <2>2. Moves(t)
    BY <1>1, <1>2, <2>1, MovesOnly, MineIs, TypesOfTabs DEF ghosts
  <2>3. /\ \A b, S : (SentWithin(t, b, S))' <=> SentWithin(t, b, S)
        /\ \A b : IsRemoved(t, b)' <=> IsRemoved(t, b)
    BY <1>1, <1>2 DEF SentWithin, IsRemoved, ghosts
  <2>4. AtMostOne(panel'[t].attempt) /\ UNCHANGED <<stored, news, recovery, accepted, released>>
    BY <1>1, <1>2 DEF Shape, AtMostOne, ghosts
  <2>5. \A i \in DOMAIN calls'[t] :
           calls'[t][i].do = "submit" => calls'[t][i].hash \in Hash
    BY <1>2 DEF Shape
  <2>6. \A a \in panel'[t].attempt :
           panel'[t].kind \in {"ambiguous", "unknown", "checking"} =>
              (SentWithin(t, a, 0 .. panel[t].hash))'
    BY <1>1, <1>2 DEF SentWithin, ghosts
  <2>. QED
    BY <1>2, <2>1, <2>2, <2>3, <2>4, <2>5, <2>6, EndKeeps
<1>3. CASE /\ upload[t].phase \in {"preparing", "staging"}
           /\ Rest(t)
           /\ ShowIdle(t)
           /\ UNCHANGED calls
  BY <1>2, <1>3, ShowsIdle
<1>4. CASE /\ upload[t].phase = "signing"
           /\ \E a \in upload[t].attempt :
                 /\ Operate(t, "cleaning", a, 0)
                 /\ Call(t, "remove", a, 0)
           /\ UNCHANGED panel
  <2>1. PICK a \in upload[t].attempt : Operate(t, "cleaning", a, 0) /\ Call(t, "remove", a, 0)
    BY <1>4
  <2>2. /\ upload[t].attempt = {a} /\ a \in Attempt /\ upload[t].phase = "signing"
        /\ panel[t].kind \in {"preparing", "signing", "pending"}
        /\ UNCHANGED <<accepted, released, settled, panel>>
    BY <1>1, <1>4, <2>1 DEF Shape, AtMostOne, UploadType, ghosts, Busy
  <2>3. /\ upload' \in [Tab -> UploadType]
        /\ upload'[t].phase = "cleaning" /\ upload'[t].attempt = {a}
        /\ \A u \in Tab \ {t} : upload'[u] = upload[u]
    BY <2>1, <2>2, Operates, PhaseNames
  <2>4. /\ calls' \in [Tab -> Seq(CallType)]
        /\ \A u \in Tab \ {t} : calls'[u] = calls[u]
        /\ \A i \in DOMAIN calls'[t] :
              calls'[t][i].do = "submit" => calls'[t][i].hash \in Hash
        /\ {calls'[t][i].attempt : i \in DOMAIN calls'[t]} \subseteq Mine(t)
        /\ \A b : IsRemoved(t, b)' => IsRemoved(t, b) \/ b = a
        /\ \A b, S : (SentWithin(t, b, S))' <=> SentWithin(t, b, S)
    <3>1. a \in Mine(t)
      BY <2>1, MineIs
    <3>. QED
      BY <2>1, <2>2, <3>1, RemoveCalled
  <2>5. Moves(t)
    BY <1>1, <2>2, <2>3, <2>4, MovesOnly, MineIs, TypesOfTabs
  <2>6. Shape(t)'
    BY <2>2, <2>3, <2>4 DEF Shape, Busy, AtMostOne
  <2>7. HashesKnown(t)'
    BY <2>2, <2>3, <2>4 DEF HashesKnown
  <2>8. RemovesOver(t)'
    <3>1. SentWithin(t, a, {}) /\ a \notin released
      BY <2>2 DEF HashesKnown
    <3>2. (SentWithin(t, a, {}))'
      BY <2>4, <3>1
    <3>3. SentWithin(t, a, settled[a])'
      BY <3>2 DEF SentWithin
    <3>4. Over(t, a)'
      BY <2>2, <2>3, <3>1, <3>3 DEF Over, Busy
    <3>5. \A b \in Attempt : Over(t, b) => Over(t, b)'
      BY <2>2, <2>3, <2>4, OverStays DEF Busy
    <3>. QED
      BY <2>2, <2>3, <2>4, <3>4, <3>5 DEF RemovesOver
  <2>. QED
    BY <1>1, <2>2, <2>3, <2>5, <2>6, <2>7, <2>8, QuietStep
<1>5. CASE /\ upload[t].phase = "released"
           /\ \E a \in upload[t].attempt : Show(t, "ambiguous", a, 0)
           /\ Rest(t)
           /\ UNCHANGED calls
  <2>1. PICK a \in upload[t].attempt : Show(t, "ambiguous", a, 0)
    BY <1>5
  <2>2. a \in Attempt /\ SentWithin(t, a, 0 .. 0)
    BY <1>5, SentMore DEF HashesKnown, UploadType
  <2>3. /\ panel' \in [Tab -> PanelType]
        /\ panel'[t].kind = "ambiguous" /\ panel'[t].attempt = {a} /\ panel'[t].hash = 0
        /\ \A u \in Tab \ {t} : panel'[u] = panel[u]
    BY <2>1, <2>2, Shows DEF PanelKinds
  <2>. QED
    BY <1>2, <1>5, <2>2, <2>3
<1>6. CASE /\ upload[t].phase \in {"recording", "awaiting", "checking"}
           /\ \E a \in upload[t].attempt : Show(t, "unknown", a, upload[t].hash)
           /\ Rest(t)
           /\ UNCHANGED calls
  <2>1. PICK a \in upload[t].attempt : Show(t, "unknown", a, upload[t].hash)
    BY <1>6
  <2>2. a \in Attempt /\ SentWithin(t, a, 0 .. upload[t].hash) /\ upload[t].hash \in 0 .. 2
    BY <1>6 DEF HashesKnown, UploadType
  <2>3. /\ panel' \in [Tab -> PanelType]
        /\ panel'[t].kind = "unknown" /\ panel'[t].attempt = {a}
        /\ panel'[t].hash = upload[t].hash
        /\ \A u \in Tab \ {t} : panel'[u] = panel[u]
    BY <2>1, <2>2, Shows DEF PanelKinds
  <2>. QED
    BY <1>2, <1>6, <2>2, <2>3
<1>. QED
  BY <1>3, <1>4, <1>5, <1>6 DEF Fail

LEMMA CheckReceiptKeeps ==
    ASSUME RecoveryInvariant, NEW t \in Tab, CheckReceipt(t)
    PROVE  RecoveryInvariant'
<1>. USE TabFacts
<1>1. PICK a \in panel[t].attempt :
         Operate(t, "checking", a, panel[t].hash) /\ Show(t, "checking", a, panel[t].hash)
  BY DEF CheckReceipt
<1>2. /\ panel[t].kind = "unknown" /\ panel[t].attempt = {a} /\ a \in Attempt
      /\ panel[t].hash \in 0 .. 2
      /\ latest' = [latest EXCEPT ![t] = {}]
      /\ UNCHANGED <<stored, news, calls, recovery, unused, released, settled, accepted>>
  BY <1>1 DEF CheckReceipt, Shape, AtMostOne, PanelType, ghosts
<1>3. /\ upload' \in [Tab -> UploadType]
      /\ upload'[t].phase = "checking" /\ upload'[t].attempt = {a}
      /\ upload'[t].hash = panel[t].hash
      /\ \A u \in Tab \ {t} : upload'[u] = upload[u]
  BY <1>1, <1>2, Operates, PhaseNames
<1>4. /\ panel' \in [Tab -> PanelType]
      /\ panel'[t].kind = "checking" /\ panel'[t].attempt = {a}
      /\ panel'[t].hash = panel[t].hash
      /\ \A u \in Tab \ {t} : panel'[u] = panel[u]
  BY <1>1, <1>2, Shows DEF PanelKinds
<1>5. Moves(t)
  BY <1>2, <1>3, <1>4, MovesOnly, MineIs, TypesOfTabs
<1>6. Shape(t)'
  BY <1>2, <1>3, <1>4 DEF Shape, Busy, AtMostOne
<1>7. HashesKnown(t)'
  <2>1. PICK S : S = 0 .. panel[t].hash
    OBVIOUS
  <2>2. SentWithin(t, a, S)
    BY <1>2, <2>1 DEF HashesKnown
  <2>3. (SentWithin(t, a, S))'
    BY <1>2, <2>2 DEF SentWithin
  <2>. QED
    BY <1>3, <1>4, <2>1, <2>3 DEF HashesKnown
<1>8. RemovesOver(t)'
  <2>1. /\ \A b, S : SentWithin(t, b, S) => (SentWithin(t, b, S))'
        /\ \A b : IsRemoved(t, b)' <=> IsRemoved(t, b)
    BY <1>2 DEF SentWithin, IsRemoved
  <2>2. \A b \in Attempt : Over(t, b) => Over(t, b)'
    BY <1>2, <1>3, <2>1, OverStays DEF Busy
  <2>. QED
    BY <1>3, <1>4, <2>1, <2>2 DEF RemovesOver, Removing
<1>. QED
  BY <1>2, <1>3, <1>5, <1>6, <1>7, <1>8, QuietStep

\* A record is to be removed, of an upload that is over by now; its panel is
\* not changed.
LEMMA RemovalBegins ==
    ASSUME RecoveryInvariant, NEW t \in Tab, NEW a \in panel[t].attempt,
           NEW phase \in {"dismissing", "tidying"}, NEW h \in 0 .. 2,
           Operate(t, phase, a, h), Call(t, "remove", a, 0),
           latest' = [latest EXCEPT ![t] = {}],
           UNCHANGED <<stored, news, panel, recovery, unused, released, accepted>>,
           \/ UNCHANGED settled
           \/ \E b \in Attempt, k \in 0 .. 2 : Settle(b, k),
           SentWithin(t, a, settled[a])',
           a \in released => settled'[a] # {}
    PROVE  RecoveryInvariant'
<1>. USE TabFacts
<1>2. a \in Attempt /\ panel[t].attempt = {a}
  BY DEF Shape, AtMostOne, PanelType
<1>3. /\ upload' \in [Tab -> UploadType]
      /\ upload'[t].phase = phase /\ upload'[t].attempt = {a}
      /\ \A u \in Tab \ {t} : upload'[u] = upload[u]
  BY <1>2, Operates, PhaseNames
<1>4. /\ calls' \in [Tab -> Seq(CallType)]
      /\ \A u \in Tab \ {t} : calls'[u] = calls[u]
      /\ \A i \in DOMAIN calls'[t] :
            calls'[t][i].do = "submit" => calls'[t][i].hash \in Hash
      /\ {calls'[t][i].attempt : i \in DOMAIN calls'[t]} \subseteq Mine(t)
      /\ \A b : IsRemoved(t, b)' => IsRemoved(t, b) \/ b = a
      /\ \A b, S : (SentWithin(t, b, S))' <=> SentWithin(t, b, S)
  <2>1. a \in Mine(t)
    BY MineIs
  <2>. QED
    BY <1>2, <2>1, RemoveCalled
<1>5. Moves(t)
  BY <1>2, <1>3, <1>4, MovesOnly, MineIs, TypesOfTabs
<1>6. Shape(t)'
  BY <1>2, <1>3, <1>4 DEF Shape, Busy, AtMostOne
<1>7. HashesKnown(t)'
  BY <1>2, <1>3, <1>4 DEF HashesKnown
<1>8. RemovesOver(t)'
  <2>1. Over(t, a)'
    BY <1>3 DEF Over, Busy
  <2>2. \A b \in Attempt : Over(t, b) => Over(t, b)'
    BY <1>3, <1>4, <1>5, OverStays DEF Busy, Moves
  <2>. QED
    BY <1>2, <1>3, <1>4, <2>1, <2>2 DEF RemovesOver
<1>. QED
  BY <1>2, <1>3, <1>5, <1>6, <1>7, <1>8, QuietStep

LEMMA DismissKeeps ==
    ASSUME RecoveryInvariant, NEW t \in Tab, Dismiss(t)
    PROVE  RecoveryInvariant'
<1>. USE TabFacts
<1>1. PICK a \in panel[t].attempt :
         /\ Operate(t, "dismissing", a, panel[t].hash)
         /\ Call(t, "remove", a, 0)
         /\ Settle(a, panel[t].hash)
  BY DEF Dismiss
<1>2. /\ panel[t].kind \in {"ambiguous", "unknown"} /\ a \in Attempt
      /\ panel[t].hash \in 0 .. 2
      /\ latest' = [latest EXCEPT ![t] = {}]
      /\ UNCHANGED <<stored, news, panel, recovery, unused, released, accepted>>
  BY <1>1 DEF Dismiss, PanelType
<1>3. settled'[a] = settled[a] \cup (0 .. panel[t].hash) /\ 0 \in 0 .. panel[t].hash
  BY <1>1, <1>2, TypesOfTabs DEF Settle
<1>4. PICK S : S = 0 .. panel[t].hash
  OBVIOUS
<1>5. (SentWithin(t, a, S))'
  <2>1. SentWithin(t, a, S)
    BY <1>2, <1>4 DEF HashesKnown
  <2>. QED
    BY <1>1, <1>2, <2>1, RemoveCalled
<1>6. SentWithin(t, a, settled[a])'
  BY <1>3, <1>4, <1>5 DEF SentWithin
<1>7. settled'[a] # {}
  BY <1>3
<1>8. \E b \in Attempt, k \in 0 .. 2 : Settle(b, k)
  BY <1>1, <1>2
<1>. QED
  BY <1>1, <1>2, <1>6, <1>7, <1>8, RemovalBegins

LEMMA TidyKeeps ==
    ASSUME RecoveryInvariant, NEW t \in Tab, Tidy(t)
    PROVE  RecoveryInvariant'
<1>. USE TabFacts
<1>1. PICK a \in panel[t].attempt : Operate(t, "tidying", a, 0) /\ Call(t, "remove", a, 0)
  BY DEF Tidy
<1>2. /\ panel[t].kind \in {"confirmed", "cleanup"} /\ a \in Attempt
      /\ latest' = [latest EXCEPT ![t] = {}]
      /\ UNCHANGED <<stored, news, panel, recovery, unused, released, settled, accepted>>
  BY <1>1 DEF Tidy, PanelType, ghosts
<1>3. Over(t, a)
  BY <1>1, <1>2 DEF RemovesOver
<1>4. SentWithin(t, a, settled[a])'
  <2>1. PICK S : S = settled[a]
    OBVIOUS
  <2>2. SentWithin(t, a, S)
    BY <1>3, <2>1 DEF Over
  <2>3. (SentWithin(t, a, S))'
    BY <1>1, <1>2, <2>2, RemoveCalled
  <2>. QED
    BY <1>2, <2>1, <2>3 DEF SentWithin
<1>5. a \in released => settled'[a] # {}
  BY <1>2, <1>3 DEF Over
<1>6. "tidying" \in {"dismissing", "tidying"} /\ 0 \in 0 .. 2
  OBVIOUS
<1>. QED
  BY <1>1, <1>2, <1>4, <1>5, <1>6, RemovalBegins

LEMMA ResetKeeps ==
    ASSUME RecoveryInvariant, NEW t \in Tab, Reset(t)
    PROVE  RecoveryInvariant'
<1>. USE TabFacts
<1>1. /\ upload[t].phase = "none" /\ ShowIdle(t)
      /\ latest' = [latest EXCEPT ![t] = {}]
      /\ UNCHANGED <<stored, news, upload, calls, recovery, unused, released, settled, accepted>>
  BY DEF Reset, Ready, ghosts
<1>2. /\ panel' \in [Tab -> PanelType]
      /\ panel'[t].kind = "idle" /\ panel'[t].attempt = {}
      /\ \A u \in Tab \ {t} : panel'[u] = panel[u]
  BY <1>1, ShowsIdle
<1>3. Moves(t)
  BY <1>1, <1>2, MovesOnly, MineIs, TypesOfTabs
<1>4. /\ \A b, S : SentWithin(t, b, S) <=> (SentWithin(t, b, S))'
      /\ \A b : IsRemoved(t, b)' <=> IsRemoved(t, b)
  BY <1>1 DEF SentWithin, IsRemoved
<1>5. Shape(t)'
  BY <1>1, <1>2 DEF Shape, Busy, AtMostOne
<1>6. HashesKnown(t)'
  BY <1>1, <1>2, <1>4 DEF HashesKnown
<1>7. RemovesOver(t)'
  <2>1. \A b \in Attempt : Over(t, b) => Over(t, b)'
    BY <1>1, <1>4, OverStays DEF Busy
  <2>. QED
    BY <1>1, <1>2, <1>4, <2>1 DEF RemovesOver, Removing
<1>. QED
  BY <1>1, <1>3, <1>5, <1>6, <1>7, QuietStep

LEMMA ContextChangeKeeps ==
    ASSUME RecoveryInvariant, NEW t \in Tab, ContextChange(t)
    PROVE  RecoveryInvariant'
<1>. USE TabFacts
<1>1. /\ panel[t].kind = "confirmed"
      /\ panel' = [panel EXCEPT ![t] =
            IF panel[t].warning THEN [panel[t] EXCEPT !.kind = "cleanup"] ELSE IdlePanel]
      /\ UNCHANGED <<stored, news, upload, latest, calls, recovery, unused, released, settled,
                     accepted>>
  BY DEF ContextChange, ghosts
<1>2. /\ panel' \in [Tab -> PanelType]
      /\ panel'[t].kind \in {"idle", "cleanup"}
      /\ panel'[t].attempt \in {{}, panel[t].attempt}
      /\ \A u \in Tab \ {t} : panel'[u] = panel[u]
  <2>. DEFINE p == IF panel[t].warning THEN [panel[t] EXCEPT !.kind = "cleanup"] ELSE IdlePanel
  <2>1. /\ p \in PanelType /\ p.kind \in {"idle", "cleanup"}
        /\ p.attempt \in {{}, panel[t].attempt}
    <3>1. PICK q \in PanelType : q = panel[t]
      OBVIOUS
    <3>2. /\ [q EXCEPT !.kind = "cleanup"] \in PanelType
          /\ [q EXCEPT !.kind = "cleanup"].kind = "cleanup"
          /\ [q EXCEPT !.kind = "cleanup"].attempt = q.attempt
      BY DEF PanelType
    <3>3. IdlePanel \in PanelType /\ IdlePanel.kind = "idle" /\ IdlePanel.attempt = {}
      BY DEF PanelType, IdlePanel
    <3>. QED
      BY <3>1, <3>2, <3>3
  <2>2. panel' = [panel EXCEPT ![t] = p]
    BY <1>1
  <2>. HIDE DEF p
  <2>. QED
    BY <2>1, <2>2, TypesOfTabs
<1>3. Moves(t)
  BY <1>1, <1>2, MovesOnly, MineIs, TypesOfTabs
<1>4. /\ \A b, S : SentWithin(t, b, S) <=> (SentWithin(t, b, S))'
      /\ \A b : IsRemoved(t, b)' <=> IsRemoved(t, b)
      /\ \A b : NoSubmit(t, b)' <=> NoSubmit(t, b)
      /\ upload[t].phase \notin Busy
  BY <1>1 DEF SentWithin, IsRemoved, NoSubmit, Shape
<1>5. Shape(t)'
  BY <1>1, <1>2, <1>4 DEF Shape, AtMostOne
<1>6. HashesKnown(t)'
  <2>1. ASSUME NEW a \in upload[t].attempt, upload[t].phase = "checking"
        PROVE  (SentWithin(t, a, 0 .. upload[t].hash))'
    BY <1>1, <2>1 DEF SentWithin, HashesKnown
  <2>. QED
    BY <1>1, <1>2, <1>4, <2>1 DEF HashesKnown, Busy
<1>7. RemovesOver(t)'
  <2>1. \A b \in Attempt : Over(t, b) => Over(t, b)'
    BY <1>1, <1>4, OverStays
  <2>. QED
    BY <1>1, <1>2, <1>4, <2>1 DEF RemovesOver, UploadType, PanelType
<1>. QED
  BY <1>1, <1>3, <1>5, <1>6, <1>7, QuietStep

LEMMA CloseKeeps ==
    ASSUME RecoveryInvariant, NEW t \in Tab, Close(t)
    PROVE  RecoveryInvariant'
<1>. USE TabFacts
<1>1. /\ Rest(t) /\ ShowIdle(t)
      /\ latest' = [latest EXCEPT ![t] = {}]
      /\ UNCHANGED <<stored, news, recovery, unused, released, settled, accepted>>
  BY DEF Close, ghosts
<1>2. /\ upload' \in [Tab -> UploadType]
      /\ upload'[t].phase = "none" /\ upload'[t].attempt = {}
      /\ \A u \in Tab \ {t} : upload'[u] = upload[u]
  BY <1>1, Rests
<1>3. /\ panel' \in [Tab -> PanelType]
      /\ panel'[t].kind = "idle" /\ panel'[t].attempt = {}
      /\ \A u \in Tab \ {t} : panel'[u] = panel[u]
  BY <1>1, ShowsIdle
<1>4. /\ calls' \in [Tab -> Seq(CallType)]
      /\ \A u \in Tab \ {t} : calls'[u] = calls[u]
      /\ \A i \in DOMAIN calls'[t] :
            calls'[t][i].do = "submit" => calls'[t][i].hash \in Hash
      /\ {calls'[t][i].attempt : i \in DOMAIN calls'[t]} \subseteq Mine(t)
      /\ \A b, S : (SentWithin(t, b, S))' <=> SentWithin(t, b, S)
      /\ \A b \in Attempt : IsRemoved(t, b)' => IsRemoved(t, b) \/ Over(t, b)'
  <2>1. CASE UNCHANGED calls
    <3>1. {calls'[t][i].attempt : i \in DOMAIN calls'[t]} \subseteq Mine(t)
      BY <2>1, MineIs
    <3>2. /\ \A b, S : (SentWithin(t, b, S))' <=> SentWithin(t, b, S)
          /\ \A b \in Attempt : IsRemoved(t, b)' => IsRemoved(t, b)
      BY <1>1, <2>1 DEF SentWithin, IsRemoved
    <3>. QED
      BY <2>1, <3>1, <3>2 DEF Shape
  <2>2. ASSUME upload[t].phase = "signing", NEW a \in upload[t].attempt, Call(t, "remove", a, 0)
        PROVE  <1>4!1 /\ <1>4!2 /\ <1>4!3 /\ <1>4!4 /\ <1>4!5 /\ <1>4!6
    <3>1. a \in Attempt /\ a \in Mine(t) /\ SentWithin(t, a, {}) /\ a \notin released
      BY <2>2, MineIs DEF HashesKnown, UploadType
    <3>2. /\ calls' \in [Tab -> Seq(CallType)]
          /\ \A u \in Tab \ {t} : calls'[u] = calls[u]
          /\ \A i \in DOMAIN calls'[t] :
                calls'[t][i].do = "submit" => calls'[t][i].hash \in Hash
          /\ {calls'[t][i].attempt : i \in DOMAIN calls'[t]} \subseteq Mine(t)
          /\ \A b : IsRemoved(t, b)' => IsRemoved(t, b) \/ b = a
          /\ \A b, S : (SentWithin(t, b, S))' <=> SentWithin(t, b, S)
      BY <1>1, <2>2, <3>1, RemoveCalled
    <3>3. (SentWithin(t, a, {}))'
      BY <3>1, <3>2
    <3>4. SentWithin(t, a, settled[a])'
      BY <3>3 DEF SentWithin
    <3>5. Over(t, a)'
      BY <1>1, <1>2, <3>1, <3>4 DEF Over, Busy
    <3>. QED
      BY <3>2, <3>5
  <2>. QED
    BY <2>1, <2>2 DEF Close
<1>5. Moves(t)
  BY <1>1, <1>2, <1>3, <1>4, MovesOnly, MineIs, TypesOfTabs
<1>. QED
  BY <1>1, <1>2, <1>3, <1>4, <1>5, EndKeeps DEF AtMostOne

-----------------------------------------------------------------------------
(* A call of the upload panel returns.                                      *)

\* The first call is taken off.
LEMMA CallTaken ==
    ASSUME RecoveryInvariant, NEW t \in Tab, calls[t] # <<>>,
           calls' = [calls EXCEPT ![t] = Tail(@)]
    PROVE  /\ calls' \in [Tab -> Seq(CallType)]
           /\ \A u \in Tab \ {t} : calls'[u] = calls[u]
           /\ {calls'[t][i].attempt : i \in DOMAIN calls'[t]} \subseteq
                 {calls[t][i].attempt : i \in DOMAIN calls[t]}
           /\ \A i \in DOMAIN calls'[t] :
                 calls'[t][i].do = "submit" => calls'[t][i].hash \in Hash
           /\ \A b \in Attempt : IsRemoved(t, b)' => IsRemoved(t, b)
           /\ \A b : OnlySubmit(t, b, Head(calls[t]).hash) /\ Head(calls[t]).do = "submit"
                        /\ Head(calls[t]).attempt = b => NoSubmit(t, b)'
           /\ \A b : NoSubmit(t, b) => NoSubmit(t, b)'
           /\ \A b, h : OnlySubmit(t, b, h) => OnlySubmit(t, b, h)'
           /\ Head(calls[t]) \in CallType
           /\ Head(calls[t]).attempt \in Attempt \cap Mine(t)
           /\ Head(calls[t]).do = "submit" =>
                 /\ Head(calls[t]).hash \in Hash
                 /\ \A S : SentWithin(t, Head(calls[t]).attempt, S) => Head(calls[t]).hash \in S
                 /\ \A h : OnlySubmit(t, Head(calls[t]).attempt, h) => Head(calls[t]).hash = h
           /\ Head(calls[t]).do = "remove" => IsRemoved(t, Head(calls[t]).attempt)
           /\ \A b, S : SentWithin(t, b, S) =>
                 \A i \in DOMAIN calls'[t] :
                    calls'[t][i].do = "submit" /\ calls'[t][i].attempt = b
                       => calls'[t][i].hash \in S
<1>1. calls \in [Tab -> Seq(CallType)] /\ calls[t] \in Seq(CallType) /\ Shape(t)
  BY TabFacts
<1>2. PICK s : s = calls[t]
  OBVIOUS
<1>3. s \in Seq(CallType) /\ s # <<>>
  BY <1>1, <1>2
<1>4. /\ Tail(s) \in Seq(CallType)
      /\ Head(s) = s[1] /\ 1 \in DOMAIN s
      /\ \A i \in DOMAIN Tail(s) : i + 1 \in DOMAIN s /\ i + 1 # 1 /\ Tail(s)[i] = s[i + 1]
      /\ \A i \in DOMAIN s : s[i] \in CallType
  BY <1>3, TailOfCalls
<1>5. /\ calls' \in [Tab -> Seq(CallType)]
      /\ \A u \in Tab \ {t} : calls'[u] = calls[u]
      /\ calls'[t] = Tail(s)
  BY <1>1, <1>2, <1>4
<1>6. /\ \A i \in DOMAIN calls'[t] : i + 1 \in DOMAIN s /\ i + 1 # 1 /\ calls'[t][i] = s[i + 1]
      /\ Head(calls[t]) = s[1]
  BY <1>2, <1>4, <1>5
<1>7. {calls'[t][i].attempt : i \in DOMAIN calls'[t]} \subseteq
         {calls[t][i].attempt : i \in DOMAIN calls[t]}
  BY <1>2, <1>6
<1>8. /\ \A i \in DOMAIN calls'[t] :
            calls'[t][i].do = "submit" => calls'[t][i].hash \in Hash
      /\ \A b \in Attempt : IsRemoved(t, b)' => IsRemoved(t, b)
  BY <1>1, <1>2, <1>6 DEF IsRemoved, Shape
<1>9. \A i, j \in DOMAIN calls'[t] : i + 1 = j + 1 => i = j
  BY <1>5, <1>4
<1>10. /\ \A b : OnlySubmit(t, b, Head(calls[t]).hash) /\ Head(calls[t]).do = "submit"
                    /\ Head(calls[t]).attempt = b => NoSubmit(t, b)'
       /\ \A b : NoSubmit(t, b) => NoSubmit(t, b)'
  <2>1. ASSUME NEW b, OnlySubmit(t, b, Head(calls[t]).hash), Head(calls[t]).do = "submit",
               Head(calls[t]).attempt = b
        PROVE  NoSubmit(t, b)'
    <3>1. \A i \in DOMAIN s : s[i].do = "submit" /\ s[i].attempt = b => i = 1
      BY <1>2, <1>4, <1>6, <2>1 DEF OnlySubmit
    <3>. QED
      BY <1>6, <3>1 DEF NoSubmit
  <2>2. \A b : NoSubmit(t, b) => NoSubmit(t, b)'
    BY <1>2, <1>6 DEF NoSubmit
  <2>. QED
    BY <2>1, <2>2
<1>11. \A b, h : OnlySubmit(t, b, h) => OnlySubmit(t, b, h)'
  BY <1>2, <1>6, <1>9 DEF OnlySubmit
<1>12. /\ Head(calls[t]) \in CallType
       /\ Head(calls[t]).attempt \in Attempt \cap Mine(t)
       /\ Head(calls[t]).do = "remove" => IsRemoved(t, Head(calls[t]).attempt)
  BY <1>2, <1>4, MineIs DEF CallType, IsRemoved
<1>13. Head(calls[t]).do = "submit" =>
          /\ Head(calls[t]).hash \in Hash
          /\ \A S : SentWithin(t, Head(calls[t]).attempt, S) => Head(calls[t]).hash \in S
          /\ \A h : OnlySubmit(t, Head(calls[t]).attempt, h) => Head(calls[t]).hash = h
  BY <1>1, <1>2, <1>4 DEF Shape, SentWithin, OnlySubmit
<1>14. \A b, S : SentWithin(t, b, S) =>
          \A i \in DOMAIN calls'[t] :
             calls'[t][i].do = "submit" /\ calls'[t][i].attempt = b => calls'[t][i].hash \in S
  BY <1>2, <1>6 DEF SentWithin
<1>. QED
  BY <1>5, <1>7, <1>8, <1>10, <1>11, <1>12, <1>13, <1>14

\* A refused call of an operation that is not the panel's any more.
LEMMA LateRefusal ==
    ASSUME RecoveryInvariant, NEW t \in Tab, calls[t] # <<>>, Refused(t),
           UNCHANGED <<upload, panel, latest>>
    PROVE  RecoveryInvariant'
<1>. USE TabFacts
<1>1. /\ calls' = [calls EXCEPT ![t] = Tail(@)]
      /\ UNCHANGED <<stored, news, recovery, unused, released, settled, accepted>>
  BY DEF Refused, ghosts
<1>2. /\ calls' \in [Tab -> Seq(CallType)]
      /\ \A u \in Tab \ {t} : calls'[u] = calls[u]
      /\ {calls'[t][i].attempt : i \in DOMAIN calls'[t]} \subseteq
            {calls[t][i].attempt : i \in DOMAIN calls[t]}
      /\ \A i \in DOMAIN calls'[t] :
            calls'[t][i].do = "submit" => calls'[t][i].hash \in Hash
      /\ \A b \in Attempt : IsRemoved(t, b)' => IsRemoved(t, b)
      /\ \A b : NoSubmit(t, b) => NoSubmit(t, b)'
      /\ \A b, h : OnlySubmit(t, b, h) => OnlySubmit(t, b, h)'
  BY <1>1, CallTaken
<1>3. \A b, S : SentWithin(t, b, S) => (SentWithin(t, b, S))'
  BY <1>1, CallTaken DEF SentWithin
<1>4. Moves(t)
  BY <1>1, <1>2, MovesOnly, MineIs, TypesOfTabs
<1>5. Shape(t)'
  BY <1>2 DEF Shape
<1>6. HashesKnown(t)'
  BY <1>1, <1>2, <1>3 DEF HashesKnown
<1>7. RemovesOver(t)'
  <2>1. \A b \in Attempt : Over(t, b) => Over(t, b)'
    BY <1>1, <1>3, OverStays DEF Over
  <2>. QED
    BY <1>2, <2>1 DEF RemovesOver, UploadType, PanelType
<1>. QED
  BY <1>1, <1>4, <1>5, <1>6, <1>7, QuietStep

\* A refused call ends the operation that made it.
LEMMA RefusalEnds ==
    ASSUME RecoveryInvariant, NEW t \in Tab, calls[t] # <<>>, Refused(t), Rest(t),
           UNCHANGED latest,
           panel' \in [Tab -> PanelType],
           \A u \in Tab \ {t} : panel'[u] = panel[u],
           panel'[t].attempt \subseteq Mine(t),
           AtMostOne(panel'[t].attempt),
           \A a \in panel'[t].attempt :
              /\ panel'[t].kind \in {"ambiguous", "unknown", "checking"} =>
                    SentWithin(t, a, 0 .. panel'[t].hash)
              /\ panel'[t].kind \in {"confirmed", "cleanup"} => Over(t, a)
    PROVE  RecoveryInvariant'
<1>. USE TabFacts
<1>1. /\ calls' = [calls EXCEPT ![t] = Tail(@)]
      /\ UNCHANGED <<stored, news, recovery, unused, released, settled, accepted>>
  BY DEF Refused, ghosts
<1>2. /\ calls' \in [Tab -> Seq(CallType)]
      /\ \A u \in Tab \ {t} : calls'[u] = calls[u]
      /\ {calls'[t][i].attempt : i \in DOMAIN calls'[t]} \subseteq
            {calls[t][i].attempt : i \in DOMAIN calls[t]}
      /\ \A i \in DOMAIN calls'[t] :
            calls'[t][i].do = "submit" => calls'[t][i].hash \in Hash
      /\ \A b \in Attempt : IsRemoved(t, b)' => IsRemoved(t, b)
  BY <1>1, CallTaken
<1>3. \A b, S : SentWithin(t, b, S) => (SentWithin(t, b, S))'
  BY <1>1, CallTaken DEF SentWithin
<1>4. /\ upload' \in [Tab -> UploadType]
      /\ upload'[t].phase = "none" /\ upload'[t].attempt = {}
      /\ \A u \in Tab \ {t} : upload'[u] = upload[u]
  BY Rests
<1>5. Moves(t)
  BY <1>1, <1>2, <1>4, MovesOnly, MineIs, TypesOfTabs
<1>6. ASSUME NEW a \in panel'[t].attempt
      PROVE  /\ panel'[t].kind \in {"ambiguous", "unknown", "checking"} =>
                    (SentWithin(t, a, 0 .. panel[t].hash))'
             /\ panel'[t].kind \in {"confirmed", "cleanup"} => Over(t, a)
  <2>1. PICK S : S = 0 .. panel'[t].hash
    OBVIOUS
  <2>2. (SentWithin(t, a, S))' <=> (SentWithin(t, a, 0 .. panel[t].hash))'
    BY <2>1
  <2>. QED
    BY <1>3, <2>1, <2>2
<1>. QED
  BY <1>1, <1>2, <1>3, <1>4, <1>5, <1>6, EndKeeps

LEMMA StageFailsKeeps ==
    ASSUME RecoveryInvariant, NEW t \in Tab, calls[t] # <<>>, StageFails(t)
    PROVE  RecoveryInvariant'
<1>1. Refused(t) /\ UNCHANGED latest
  BY DEF StageFails
<1>2. CASE Rest(t) /\ ShowIdle(t)
  <2>1. /\ panel' \in [Tab -> PanelType]
        /\ panel'[t].kind = "idle" /\ panel'[t].attempt = {}
        /\ \A u \in Tab \ {t} : panel'[u] = panel[u]
    BY <1>2, TabFacts, ShowsIdle
  <2>. QED
    BY <1>1, <1>2, <2>1, RefusalEnds DEF AtMostOne
<1>3. CASE UNCHANGED <<upload, panel>>
  BY <1>1, <1>3, LateRefusal
<1>. QED
  BY <1>2, <1>3 DEF StageFails

LEMMA SubmitFailsKeeps ==
    ASSUME RecoveryInvariant, NEW t \in Tab, calls[t] # <<>>, SubmitFails(t)
    PROVE  RecoveryInvariant'
<1>. USE TabFacts
<1>1. Refused(t) /\ UNCHANGED latest
  BY DEF SubmitFails
<1>. DEFINE c == Head(calls[t])
<1>2. ASSUME InTime(t, c, "recording"), Rest(t), Show(t, "unknown", c.attempt, c.hash),
             c.do = "submit"
      PROVE  RecoveryInvariant'
  <2>1. /\ c.attempt \in Attempt /\ c.attempt \in Mine(t) /\ c.hash \in Hash
        /\ \A h : OnlySubmit(t, c.attempt, h) => c.hash = h
    BY <1>1, <1>2, CallTaken DEF Refused
  <2>2. /\ SentWithin(t, c.attempt, 0 .. upload[t].hash)
        /\ OnlySubmit(t, c.attempt, upload[t].hash)
    BY <1>2 DEF InTime, HashesKnown
  <2>3. c.hash = upload[t].hash
    BY <2>1, <2>2
  <2>. HIDE DEF c
  <2>4. SentWithin(t, c.attempt, 0 .. c.hash) /\ c.hash \in 0 .. 2
    BY <2>1, <2>2, <2>3 DEF Hash
  <2>5. /\ panel' \in [Tab -> PanelType]
        /\ panel'[t].kind = "unknown" /\ panel'[t].attempt = {c.attempt}
        /\ panel'[t].hash = c.hash
        /\ \A u \in Tab \ {t} : panel'[u] = panel[u]
    BY <1>2, <2>1, <2>4, Shows DEF PanelKinds
  <2>. QED
    BY <1>1, <1>2, <2>1, <2>4, <2>5, RefusalEnds DEF AtMostOne
<1>3. CASE UNCHANGED <<upload, panel>>
  BY <1>1, <1>3, LateRefusal
<1>. QED
  BY <1>2, <1>3 DEF SubmitFails

LEMMA RemoveFailsKeeps ==
    ASSUME RecoveryInvariant, NEW t \in Tab, calls[t] # <<>>, RemoveFails(t)
    PROVE  RecoveryInvariant'
<1>. USE TabFacts
<1>. DEFINE c == Head(calls[t])
<1>1. Refused(t) /\ UNCHANGED latest /\ c.do = "remove"
  BY DEF RemoveFails
<1>2. c.attempt \in Attempt /\ c.attempt \in Mine(t) /\ Over(t, c.attempt)
  BY <1>1, CallTaken DEF Refused, RemovesOver
<1>. HIDE DEF c
<1>3. ASSUME Rest(t), Show(t, "cleanup", c.attempt, 0)
      PROVE  RecoveryInvariant'
  <2>1. /\ panel' \in [Tab -> PanelType]
        /\ panel'[t].kind = "cleanup" /\ panel'[t].attempt = {c.attempt}
        /\ \A u \in Tab \ {t} : panel'[u] = panel[u]
    BY <1>2, <1>3, Shows DEF PanelKinds
  <2>. QED
    BY <1>1, <1>2, <1>3, <2>1, RefusalEnds DEF AtMostOne
<1>4. ASSUME Rest(t),
             panel' = [panel EXCEPT ![t] =
                [kind |-> "confirmed", attempt |-> {c.attempt}, hash |-> 0, warning |-> TRUE]]
      PROVE  RecoveryInvariant'
  <2>1. [kind |-> "confirmed", attempt |-> {c.attempt}, hash |-> 0, warning |-> TRUE] \in PanelType
    BY <1>2 DEF PanelType
  <2>2. /\ panel' \in [Tab -> PanelType]
        /\ panel'[t].kind = "confirmed" /\ panel'[t].attempt = {c.attempt}
        /\ \A u \in Tab \ {t} : panel'[u] = panel[u]
    BY <1>4, <2>1, TypesOfTabs
  <2>. QED
    BY <1>1, <1>2, <1>4, <2>2, RefusalEnds DEF AtMostOne
<1>5. ASSUME Rest(t), UNCHANGED panel
      PROVE  RecoveryInvariant'
  <2>1. panel' \in [Tab -> PanelType] /\ panel'[t].attempt \subseteq Mine(t)
    BY <1>5, TypesOfTabs, MineIs
  <2>2. AtMostOne(panel'[t].attempt)
    BY <1>5 DEF Shape
  <2>3. \A a \in panel'[t].attempt :
           /\ panel'[t].kind \in {"ambiguous", "unknown", "checking"} =>
                 SentWithin(t, a, 0 .. panel'[t].hash)
           /\ panel'[t].kind \in {"confirmed", "cleanup"} => Over(t, a)
    BY <1>5 DEF HashesKnown, RemovesOver
  <2>. QED
    BY <1>1, <1>5, <2>1, <2>2, <2>3, RefusalEnds
<1>6. CASE UNCHANGED <<upload, panel>>
  BY <1>1, <1>6, LateRefusal
<1>. QED
  BY <1>3, <1>4, <1>5, <1>6 DEF RemoveFails, c

\* The call that returns first.
LEMMA FirstCall ==
    ASSUME RecoveryInvariant, NEW t \in Tab, calls[t] # <<>>, NEW c, c = Head(calls[t])
    PROVE  /\ c \in CallType /\ c.attempt \in Attempt /\ c.attempt \in Mine(t)
           /\ c.do = "submit" =>
                 c.hash \in Hash /\ \A S : SentWithin(t, c.attempt, S) => c.hash \in S
           /\ c.do = "remove" => Over(t, c.attempt)
<1>. USE TabFacts
<1>2. PICK s : s = calls[t]
  OBVIOUS
<1>3. s \in Seq(CallType) /\ s # <<>>
  BY <1>2
<1>4. c = s[1] /\ 1 \in DOMAIN calls[t] /\ c = calls[t][1] /\ c \in CallType
  BY <1>2, <1>3, TailOfCalls
<1>5. c.attempt \in Mine(t) /\ c.attempt \in Attempt
  BY <1>4, MineIs DEF CallType
<1>6. c.do = "submit" =>
         c.hash \in Hash /\ \A S : SentWithin(t, c.attempt, S) => c.hash \in S
  BY <1>4 DEF Shape, SentWithin
<1>7. c.do = "remove" => Over(t, c.attempt)
  BY <1>4, <1>5 DEF RemovesOver, IsRemoved
<1>. QED
  BY <1>4, <1>5, <1>6, <1>7

\* A call that takes effect records a hash of which its tab knows.
LEMMA EffectAccepts ==
    ASSUME RecoveryInvariant, NEW t \in Tab, calls[t] # <<>>, Effect(Head(calls[t]))
    PROVE  /\ accepted' \in [Attempt -> SUBSET Hash]
           /\ \A a \in Attempt \ Mine(t) : accepted'[a] = accepted[a]
           /\ \A b \in Attempt : \A S : SentWithin(t, b, S) => accepted'[b] \subseteq S
<1>1. PICK c : c = Head(calls[t])
  OBVIOUS
<1>2. /\ c \in CallType /\ c.attempt \in Attempt /\ c.attempt \in Mine(t)
      /\ c.do = "submit" =>
            c.hash \in Hash /\ \A S : SentWithin(t, c.attempt, S) => c.hash \in S
  BY <1>1, FirstCall
<1>3. /\ accepted' \in [Attempt -> SUBSET Hash]
      /\ \A a \in Attempt \ {c.attempt} : accepted'[a] = accepted[a]
      /\ c.do = "submit" => accepted'[c.attempt] = accepted[c.attempt] \cup {c.hash}
      /\ c.do # "submit" => accepted' = accepted
  BY <1>1, <1>2, EffectFacts, TabFacts
<1>4. \A a \in Attempt \ Mine(t) : accepted'[a] = accepted[a]
  BY <1>2, <1>3
<1>5. ASSUME NEW b \in Attempt, NEW S, SentWithin(t, b, S)
      PROVE  accepted'[b] \subseteq S
  <2>1. accepted[b] \subseteq S
    BY <1>5 DEF SentWithin
  <2>. QED
    BY <1>2, <1>3, <1>5, <2>1
<1>. QED
  BY <1>3, <1>4, <1>5

\* What a call that takes effect does to the record of its upload, and to that
\* of no other.
LEMMA EffectKeeps ==
    ASSUME RecoveryInvariant, NEW t \in Tab, calls[t] # <<>>, Effect(Head(calls[t])),
           UNCHANGED <<discarded, released, settled>>,
           Watched' \subseteq Watched \cup
              (IF Head(calls[t]).do = "stage" THEN {Head(calls[t]).attempt} ELSE {})
    PROVE  /\ journal' \in Records
           /\ Recorded' /\ HashesAreSeen' /\ DiscardedStaysGone'
<1>. USE TabFacts
<1>1. PICK c : c = Head(calls[t])
  OBVIOUS
<1>2. /\ c \in CallType /\ c.attempt \in Attempt /\ c.attempt \in Mine(t)
      /\ c.do = "submit" =>
            c.hash \in Hash /\ \A S : SentWithin(t, c.attempt, S) => c.hash \in S
      /\ c.do = "remove" => Over(t, c.attempt)
  BY <1>1, FirstCall
<1>3. /\ journal' \in Records
      /\ accepted' \in [Attempt -> SUBSET Hash]
      /\ \A a \in Attempt \ {c.attempt} :
            /\ a \in DOMAIN journal' <=> a \in DOMAIN journal
            /\ Held(a)' = Held(a)
            /\ accepted'[a] = accepted[a]
      /\ c.do # "remove" =>
            /\ c.attempt \in DOMAIN journal'
            /\ c.attempt \notin discarded
      /\ c.do = "stage" => Held(c.attempt)' = Held(c.attempt)
      /\ c.do = "submit" =>
            /\ Held(c.attempt)' = Held(c.attempt) \cup {c.hash}
            /\ accepted'[c.attempt] = accepted[c.attempt] \cup {c.hash}
      /\ c.do # "submit" => accepted' = accepted
      /\ c.do = "remove" => DOMAIN journal' = DOMAIN journal \ {c.attempt}
  BY <1>1, <1>2, EffectFacts
<1>6. Recorded'
  <2>1. c.do = "remove" => c.attempt \notin Watched
    <3>1. ASSUME Over(t, c.attempt)
          PROVE  c.attempt \notin Watched
      <4>1. \A u \in Tab : c.attempt \in upload[u].attempt => u = t
        BY <1>2, MineIs DEF Owned
      <4>. QED
        BY <3>1, <4>1 DEF Watched, Over, Busy
    <3>. QED
      BY <1>2, <3>1
  <2>2. Watched \subseteq DOMAIN journal /\ Watched \subseteq Attempt
    BY DEF RecoveryInvariant, Recorded, Watched
  <2>. QED
    BY <1>1, <1>2, <1>3, <2>1, <2>2 DEF Recorded, CallType
<1>7. HashesAreSeen'
  <2>1. \A a \in Attempt : accepted[a] \subseteq settled[a] \cup Held(a)
    BY DEF RecoveryInvariant, HashesAreSeen, Held
  <2>2. c.do = "remove" => accepted[c.attempt] \subseteq settled[c.attempt]
    BY <1>2 DEF Over, SentWithin
  <2>3. \A a \in Attempt : accepted'[a] \subseteq settled[a] \cup Held(a)'
    BY <1>2, <1>3, <2>1, <2>2 DEF CallType
  <2>. QED
    BY <2>3 DEF HashesAreSeen, Held
<1>8. DiscardedStaysGone'
  <2>1. DOMAIN journal \subseteq Attempt /\ DOMAIN journal' \subseteq Attempt
    BY <1>3, RecordFacts DEF TypeOK
  <2>. QED
    BY <1>2, <1>3, <2>1 DEF RecoveryInvariant, DiscardedStaysGone, CallType
<1>. QED
  BY <1>3, <1>6, <1>7, <1>8

\* A call takes effect: the other tabs are told, and the tab's own panel reads
\* the records again.
LEMMA TookKeeps ==
    ASSUME RecoveryInvariant, NEW t \in Tab, calls[t] # <<>>, Took(t, Head(calls[t])),
           Moves(t), Shape(t)', HashesKnown(t)', RemovesOver(t)',
           upload'[t].phase = "signing" =>
              \/ upload'[t] = upload[t]
              \/ Head(calls[t]).do = "stage" /\ upload'[t].attempt = {Head(calls[t]).attempt}
    PROVE  RecoveryInvariant'
<1>. USE TabFacts
<1>1. /\ Effect(Head(calls[t]))
      /\ news' = news \cup (Tab \ {t})
      /\ recovery' = [recovery EXCEPT ![t] = Reread(@)]
      /\ UNCHANGED <<discarded, unused, released, settled>>
  BY DEF Took, Publish
<1>2. Shapes' /\ Owned' /\ Tabs'
  BY OtherTabs DEF RecoveryInvariant
<1>3. Watched' \subseteq Watched \cup
         (IF Head(calls[t]).do = "stage" THEN {Head(calls[t]).attempt} ELSE {})
  <2>1. SUFFICES ASSUME NEW a \in Watched', a \notin Watched
                 PROVE  Head(calls[t]).do = "stage" /\ a = Head(calls[t]).attempt
    OBVIOUS
  <2>2. a \in Attempt /\ settled[a] = {} /\ a \notin released
    BY <1>1, <2>1 DEF Watched
  <2>3. PICK u \in Tab : upload'[u].phase = "signing" /\ a \in upload'[u].attempt
    BY <1>1, <2>1, <2>2 DEF Watched
  <2>4. upload'[u] # upload[u]
    BY <2>1, <2>2, <2>3 DEF Watched
  <2>5. u = t
    BY <2>4 DEF Moves
  <2>. QED
    BY <2>3, <2>4, <2>5
<1>4. /\ journal' \in Records /\ accepted' \in [Attempt -> SUBSET Hash]
      /\ Recorded' /\ HashesAreSeen' /\ DiscardedStaysGone'
  BY <1>1, <1>3, EffectAccepts, EffectKeeps
<1>5. /\ recovery' \in [Tab -> RecoveryType]
      /\ \A u \in Tab \ {t} : recovery'[u] = recovery[u]
      /\ Acting(recovery'[t])
      /\ recovery'[t].load = "loading" \/ recovery'[t].changePending
  BY <1>1, RereadFacts, TypesOfTabs
<1>6. TypeOK'
  <2>1. \A u \in Tab : \A i \in DOMAIN calls'[u] : calls'[u][i] \in CallType
    BY DEF Moves
  <2>2. news' \subseteq Tab
    BY <1>1 DEF TypeOK
  <2>. QED
    BY <1>1, <1>4, <1>5, <2>1, <2>2
    DEF TypeOK, Moves, UploadType, PanelType, CallType, RecoveryType
<1>7. Actions'
  BY <1>5 DEF RecoveryInvariant, Actions
<1>8. Informed'
  BY <1>1, <1>5 DEF Informed, Knows
<1>. QED
  BY <1>2, <1>4, <1>6, <1>7, <1>8 DEF RecoveryInvariant

\* What is left of the calls of a tab when the first one has taken effect.
LEMMA TookFacts ==
    ASSUME RecoveryInvariant, NEW t \in Tab, calls[t] # <<>>, Took(t, Head(calls[t]))
    PROVE  /\ accepted' \in [Attempt -> SUBSET Hash]
           /\ \A a \in Attempt \ Mine(t) : accepted'[a] = accepted[a]
           /\ \A b \in Attempt : \A S : SentWithin(t, b, S) => (SentWithin(t, b, S))'
           /\ calls' \in [Tab -> Seq(CallType)]
           /\ \A u \in Tab \ {t} : calls'[u] = calls[u]
           /\ {calls'[t][i].attempt : i \in DOMAIN calls'[t]} \subseteq Mine(t)
           /\ \A i \in DOMAIN calls'[t] :
                 calls'[t][i].do = "submit" => calls'[t][i].hash \in Hash
           /\ \A b \in Attempt : IsRemoved(t, b)' => IsRemoved(t, b)
           /\ \A b : NoSubmit(t, b) => NoSubmit(t, b)'
           /\ \A b, h : OnlySubmit(t, b, h) => OnlySubmit(t, b, h)'
           /\ UNCHANGED <<unused, released, settled>>
<1>1. Effect(Head(calls[t])) /\ calls' = [calls EXCEPT ![t] = Tail(@)]
      /\ UNCHANGED <<unused, released, settled>>
  BY DEF Took
<1>2. /\ accepted' \in [Attempt -> SUBSET Hash]
      /\ \A a \in Attempt \ Mine(t) : accepted'[a] = accepted[a]
      /\ \A b \in Attempt : \A S : SentWithin(t, b, S) => accepted'[b] \subseteq S
  BY <1>1, EffectAccepts
<1>3. \A b \in Attempt : \A S : SentWithin(t, b, S) => (SentWithin(t, b, S))'
  <2>1. \A b, S : SentWithin(t, b, S) =>
           \A i \in DOMAIN calls'[t] :
              calls'[t][i].do = "submit" /\ calls'[t][i].attempt = b => calls'[t][i].hash \in S
    BY <1>1, CallTaken
  <2>. QED
    BY <1>2, <2>1 DEF SentWithin
<1>. QED
  BY <1>1, <1>2, <1>3, CallTaken, MineIs

\* A step that a call's effect belongs to.
LEMMA TookMoves ==
    ASSUME RecoveryInvariant, NEW t \in Tab, calls[t] # <<>>, Took(t, Head(calls[t])),
           UNCHANGED latest,
           upload' \in [Tab -> UploadType], panel' \in [Tab -> PanelType],
           \A u \in Tab \ {t} : upload'[u] = upload[u] /\ panel'[u] = panel[u],
           upload'[t].attempt \subseteq Mine(t), panel'[t].attempt \subseteq Mine(t)
    PROVE  Moves(t)
<1>1. Mine(t)' \subseteq Mine(t)
  BY TookFacts, MineIs DEF Mine
<1>. QED
  BY <1>1, TookFacts, TabFacts, TypesOfTabs DEF Moves

\* A call that comes back when its operation is not the panel's any more, or
\* ends it, shows what it has to.
LEMMA StageDoneKeeps ==
    ASSUME RecoveryInvariant, NEW t \in Tab, calls[t] # <<>>, StageDone(t)
    PROVE  RecoveryInvariant'
<1>. USE TabFacts
<1>0. PICK c : c = Head(calls[t])
  OBVIOUS
<1>1. /\ c.do = "stage" /\ Took(t, c) /\ UNCHANGED latest
      /\ ShowProgress(t, "signing", c)
  BY <1>0 DEF StageDone
<1>2. c \in CallType /\ c.attempt \in Attempt /\ c.attempt \in Mine(t)
  BY <1>0, FirstCall
<1>3. /\ \A b \in Attempt : \A S : SentWithin(t, b, S) => (SentWithin(t, b, S))'
      /\ \A i \in DOMAIN calls'[t] :
            calls'[t][i].do = "submit" => calls'[t][i].hash \in Hash
      /\ \A b \in Attempt : IsRemoved(t, b)' => IsRemoved(t, b)
      /\ \A b : NoSubmit(t, b) => NoSubmit(t, b)'
      /\ \A b, h : OnlySubmit(t, b, h) => OnlySubmit(t, b, h)'
      /\ UNCHANGED <<unused, released, settled>>
  BY <1>0, <1>1, TookFacts
<1>4. /\ panel' \in [Tab -> PanelType]
      /\ \A u \in Tab \ {t} : panel'[u] = panel[u]
      /\ \/ c.attempt \in latest[t] /\ panel'[t].kind = "signing" /\ panel'[t].attempt = {c.attempt}
         \/ c.attempt \notin latest[t] /\ panel'[t] = panel[t]
  <2>1. CASE c.attempt \in latest[t] /\ Show(t, "signing", c.attempt, c.hash)
    <3>1. c.hash \in 0 .. 2
      BY <1>2 DEF CallType
    <3>. QED
      BY <1>2, <2>1, <3>1, Shows DEF PanelKinds
  <2>2. CASE c.attempt \notin latest[t] /\ UNCHANGED panel
    BY <2>2, TypesOfTabs
  <2>. QED
    BY <1>1, <2>1, <2>2 DEF ShowProgress
<1>5. /\ upload' \in [Tab -> UploadType]
      /\ \A u \in Tab \ {t} : upload'[u] = upload[u]
      /\ \/ /\ upload[t].phase = "staging" /\ upload[t].attempt = {c.attempt}
            /\ upload'[t].phase = "signing" /\ upload'[t].attempt = {c.attempt}
         \/ upload'[t] = upload[t]
  <2>1. CASE InTime(t, c, "staging") /\ Operate(t, "signing", c.attempt, 0)
    <3>1. upload[t].phase = "staging" /\ upload[t].attempt = {c.attempt}
      BY <2>1 DEF InTime, Shape, AtMostOne
    <3>2. "signing" \in Phases /\ 0 \in 0 .. 2
      BY DEF Phases
    <3>. QED
      BY <1>2, <2>1, <3>1, <3>2, Operates
  <2>2. CASE UNCHANGED upload
    BY <2>2, TypesOfTabs
  <2>. QED
    BY <1>0, <2>1, <2>2 DEF StageDone
<1>6. Moves(t)
  BY <1>0, <1>1, <1>2, <1>4, <1>5, TookMoves, MineIs
<1>7. Shape(t)'
  <2>1. AtMostOne(panel'[t].attempt) /\ AtMostOne(upload'[t].attempt)
    BY <1>4, <1>5 DEF Shape, AtMostOne
  <2>2. /\ upload'[t].phase = "released" => upload'[t].hash = 0
        /\ upload'[t].phase \in {"recording", "awaiting"} => upload'[t].hash \in Hash
    BY <1>5 DEF Shape
  <2>3. upload'[t].phase \in Busy =>
           /\ latest[t] = upload'[t].attempt
           /\ panel'[t].attempt = upload'[t].attempt
           /\ panel'[t].kind \in {"preparing", "signing", "pending"}
    <3>1. upload'[t].attempt = upload[t].attempt
      BY <1>5
    <3>2. upload'[t].phase \in Busy => upload[t].phase \in Busy
      BY <1>5 DEF Busy
    <3>3. upload[t].phase \in Busy =>
             /\ latest[t] = upload[t].attempt
             /\ panel[t].attempt = upload[t].attempt
             /\ panel[t].kind \in {"preparing", "signing", "pending"}
             /\ c.attempt \in latest[t] => upload[t].attempt = {c.attempt}
      BY DEF Shape, AtMostOne
    <3>. QED
      BY <1>4, <3>1, <3>2, <3>3
  <2>. QED
    BY <1>1, <1>3, <2>1, <2>2, <2>3 DEF Shape
<1>8. HashesKnown(t)'
  BY <1>3, <1>4, <1>5 DEF HashesKnown, UploadType, PanelType
<1>9. RemovesOver(t)'
  <2>1. \A b \in Attempt : Over(t, b) => Over(t, b)'
    BY <1>3, <1>5, OverStays DEF Over, Busy
  <2>. QED
    BY <1>3, <1>4, <1>5, <2>1 DEF RemovesOver, Removing, UploadType, PanelType
<1>. QED
  BY <1>0, <1>1, <1>5, <1>6, <1>7, <1>8, <1>9, TookKeeps

LEMMA SubmitDoneKeeps ==
    ASSUME RecoveryInvariant, NEW t \in Tab, calls[t] # <<>>, SubmitDone(t)
    PROVE  RecoveryInvariant'
<1>. USE TabFacts
<1>0. PICK c : c = Head(calls[t])
  OBVIOUS
<1>1. /\ c.do = "submit" /\ Took(t, c) /\ UNCHANGED latest
      /\ ShowProgress(t, "pending", c)
  BY <1>0 DEF SubmitDone
<1>2. /\ c \in CallType /\ c.attempt \in Attempt /\ c.attempt \in Mine(t) /\ c.hash \in Hash
      /\ \A S : SentWithin(t, c.attempt, S) => c.hash \in S
  BY <1>0, <1>1, FirstCall
<1>3. /\ \A b \in Attempt : \A S : SentWithin(t, b, S) => (SentWithin(t, b, S))'
      /\ \A i \in DOMAIN calls'[t] :
            calls'[t][i].do = "submit" => calls'[t][i].hash \in Hash
      /\ \A b \in Attempt : IsRemoved(t, b)' => IsRemoved(t, b)
      /\ \A b : NoSubmit(t, b) => NoSubmit(t, b)'
      /\ \A b, h : OnlySubmit(t, b, h) => OnlySubmit(t, b, h)'
      /\ UNCHANGED <<unused, released, settled>>
  BY <1>0, <1>1, TookFacts
<1>10. /\ \A h : OnlySubmit(t, c.attempt, h) => c.hash = h
       /\ OnlySubmit(t, c.attempt, c.hash) => NoSubmit(t, c.attempt)'
  BY <1>0, <1>1, CallTaken DEF Took
<1>4. /\ panel' \in [Tab -> PanelType]
      /\ \A u \in Tab \ {t} : panel'[u] = panel[u]
      /\ \/ c.attempt \in latest[t] /\ panel'[t].kind = "pending" /\ panel'[t].attempt = {c.attempt}
         \/ c.attempt \notin latest[t] /\ panel'[t] = panel[t]
  <2>1. CASE c.attempt \in latest[t] /\ Show(t, "pending", c.attempt, c.hash)
    <3>1. c.hash \in 0 .. 2
      BY <1>2 DEF CallType
    <3>. QED
      BY <1>2, <2>1, <3>1, Shows DEF PanelKinds
  <2>2. CASE c.attempt \notin latest[t] /\ UNCHANGED panel
    BY <2>2, TypesOfTabs
  <2>. QED
    BY <1>1, <2>1, <2>2 DEF ShowProgress
<1>5. /\ upload' \in [Tab -> UploadType]
      /\ \A u \in Tab \ {t} : upload'[u] = upload[u]
      /\ \/ /\ upload[t].phase = "recording" /\ upload[t].attempt = {c.attempt}
            /\ upload'[t].phase = "awaiting" /\ upload'[t].attempt = {c.attempt}
            /\ upload'[t].hash = c.hash
         \/ upload'[t] = upload[t]
  <2>1. CASE InTime(t, c, "recording") /\ Operate(t, "awaiting", c.attempt, c.hash)
    <3>1. upload[t].phase = "recording" /\ upload[t].attempt = {c.attempt}
      BY <2>1 DEF InTime, Shape, AtMostOne
    <3>2. "awaiting" \in Phases /\ c.hash \in 0 .. 2
      BY <1>2 DEF Phases, CallType
    <3>. QED
      BY <1>2, <2>1, <3>1, <3>2, Operates
  <2>2. CASE UNCHANGED upload
    BY <2>2, TypesOfTabs
  <2>. QED
    BY <1>0, <2>1, <2>2 DEF SubmitDone
<1>6. Moves(t)
  BY <1>0, <1>1, <1>2, <1>4, <1>5, TookMoves, MineIs
<1>7. Shape(t)'
  <2>1. AtMostOne(panel'[t].attempt) /\ AtMostOne(upload'[t].attempt)
    BY <1>4, <1>5 DEF Shape, AtMostOne
  <2>2. /\ upload'[t].phase = "released" => upload'[t].hash = 0
        /\ upload'[t].phase \in {"recording", "awaiting"} => upload'[t].hash \in Hash
    BY <1>2, <1>5 DEF Shape
  <2>3. upload'[t].phase \in Busy =>
           /\ latest[t] = upload'[t].attempt
           /\ panel'[t].attempt = upload'[t].attempt
           /\ panel'[t].kind \in {"preparing", "signing", "pending"}
    <3>1. upload'[t].attempt = upload[t].attempt
      BY <1>5
    <3>2. upload'[t].phase \in Busy => upload[t].phase \in Busy
      BY <1>5 DEF Busy
    <3>3. upload[t].phase \in Busy =>
             /\ latest[t] = upload[t].attempt
             /\ panel[t].attempt = upload[t].attempt
             /\ panel[t].kind \in {"preparing", "signing", "pending"}
             /\ c.attempt \in latest[t] => upload[t].attempt = {c.attempt}
      BY DEF Shape, AtMostOne
    <3>. QED
      BY <1>4, <3>1, <3>2, <3>3
  <2>. QED
    BY <1>1, <1>3, <2>1, <2>2, <2>3 DEF Shape
<1>8. HashesKnown(t)'
  <2>1. CASE upload'[t] = upload[t]
    BY <1>3, <1>4, <2>1 DEF HashesKnown, UploadType, PanelType
  <2>2. CASE /\ upload[t].phase = "recording" /\ upload[t].attempt = {c.attempt}
             /\ upload'[t].phase = "awaiting" /\ upload'[t].attempt = {c.attempt}
             /\ upload'[t].hash = c.hash
    <3>1. /\ OnlySubmit(t, c.attempt, upload[t].hash)
          /\ SentWithin(t, c.attempt, 0 .. upload[t].hash)
      BY <2>2 DEF HashesKnown
    <3>2. c.hash = upload[t].hash /\ NoSubmit(t, c.attempt)'
      BY <1>10, <3>1
    <3>3. (SentWithin(t, c.attempt, 0 .. upload[t].hash))'
      <4>1. PICK S : S = 0 .. upload[t].hash
        OBVIOUS
      <4>2. (SentWithin(t, c.attempt, S))'
        BY <1>2, <1>3, <3>1, <4>1
      <4>. QED
        BY <2>2, <3>2, <4>1, <4>2
    <3>. QED
      BY <1>3, <1>4, <2>2, <3>2, <3>3 DEF HashesKnown, PanelType
  <2>. QED
    BY <1>5, <2>1, <2>2
<1>9. RemovesOver(t)'
  <2>1. \A b \in Attempt : Over(t, b) => Over(t, b)'
    BY <1>3, <1>5, OverStays DEF Over, Busy
  <2>. QED
    BY <1>3, <1>4, <1>5, <2>1 DEF RemovesOver, Removing, UploadType, PanelType
<1>. QED
  BY <1>0, <1>1, <1>5, <1>6, <1>7, <1>8, <1>9, TookKeeps

LEMMA RemoveDoneKeeps ==
    ASSUME RecoveryInvariant, NEW t \in Tab, calls[t] # <<>>, RemoveDone(t)
    PROVE  RecoveryInvariant'
<1>. USE TabFacts
<1>0. PICK c : c = Head(calls[t])
  OBVIOUS
<1>1. c.do = "remove" /\ Took(t, c) /\ UNCHANGED latest
  BY <1>0 DEF RemoveDone
<1>2. c \in CallType /\ c.attempt \in Attempt /\ c.attempt \in Mine(t) /\ Over(t, c.attempt)
  BY <1>0, <1>1, FirstCall
<1>3. /\ \A b \in Attempt : \A S : SentWithin(t, b, S) => (SentWithin(t, b, S))'
      /\ \A i \in DOMAIN calls'[t] :
            calls'[t][i].do = "submit" => calls'[t][i].hash \in Hash
      /\ \A b \in Attempt : IsRemoved(t, b)' => IsRemoved(t, b)
      /\ \A b : NoSubmit(t, b) => NoSubmit(t, b)'
      /\ \A b, h : OnlySubmit(t, b, h) => OnlySubmit(t, b, h)'
      /\ UNCHANGED <<unused, released, settled>>
  BY <1>0, <1>1, TookFacts
<1>4. ASSUME Rest(t),
             panel' \in [Tab -> PanelType],
             \A u \in Tab \ {t} : panel'[u] = panel[u],
             panel'[t].attempt \subseteq {c.attempt},
             panel'[t].kind \in {"idle", "confirmed"}
      PROVE  RecoveryInvariant'
  <2>1. /\ upload' \in [Tab -> UploadType]
        /\ upload'[t].phase = "none" /\ upload'[t].attempt = {}
        /\ \A u \in Tab \ {t} : upload'[u] = upload[u]
    BY <1>4, Rests
  <2>2. Moves(t)
    BY <1>0, <1>1, <1>2, <1>4, <2>1, TookMoves
  <2>3. Shape(t)'
    BY <1>3, <1>4, <2>1 DEF Shape, AtMostOne, Busy
  <2>4. HashesKnown(t)'
    BY <1>4, <2>1 DEF HashesKnown
  <2>5. RemovesOver(t)'
    <3>1. \A b \in Attempt : Over(t, b) => Over(t, b)'
      BY <1>3, <2>1, OverStays DEF Busy
    <3>. QED
      BY <1>2, <1>3, <1>4, <2>1, <3>1 DEF RemovesOver
  <2>. QED
    BY <1>0, <1>1, <2>1, <2>2, <2>3, <2>4, <2>5, TookKeeps
<1>5. CASE Rest(t) /\ ShowIdle(t)
  BY <1>4, <1>5, ShowsIdle
<1>6. CASE Rest(t) /\ Show(t, "confirmed", c.attempt, 0)
  <2>1. "confirmed" \in PanelKinds /\ 0 \in 0 .. 2
    BY DEF PanelKinds
  <2>. QED
    BY <1>2, <1>4, <1>6, <2>1, Shows
<1>7. CASE UNCHANGED <<upload, panel>>
  <2>1. Moves(t)
    BY <1>0, <1>1, <1>7, TookMoves, MineIs, TypesOfTabs
  <2>2. Shape(t)'
    BY <1>1, <1>3, <1>7 DEF Shape
  <2>3. HashesKnown(t)'
    BY <1>3, <1>7 DEF HashesKnown, UploadType, PanelType
  <2>4. RemovesOver(t)'
    <3>1. \A b \in Attempt : Over(t, b) => Over(t, b)'
      BY <1>3, <1>7, OverStays DEF Over
    <3>. QED
      BY <1>3, <1>7, <3>1 DEF RemovesOver, UploadType, PanelType
  <2>. QED
    BY <1>0, <1>1, <1>7, <2>1, <2>2, <2>3, <2>4, TookKeeps
<1>. QED
  BY <1>0, <1>5, <1>6, <1>7 DEF RemoveDone

LEMMA ReturnKeeps ==
    ASSUME RecoveryInvariant, NEW t \in Tab, Return(t)
    PROVE  RecoveryInvariant'
  BY StageDoneKeeps, StageFailsKeeps, SubmitDoneKeeps, SubmitFailsKeeps, RemoveDoneKeeps,
     RemoveFailsKeeps DEF Return

\* A page that dies lets go of its uploads; what it had asked for last may
\* still be done.
LEMMA ReloadKeeps ==
    ASSUME RecoveryInvariant, NEW t \in Tab, Reload(t)
    PROVE  RecoveryInvariant'
<1>. USE TabFacts
<1>1. /\ upload' = [upload EXCEPT ![t] = NoUpload]
      /\ latest' = [latest EXCEPT ![t] = {}]
      /\ panel' = [panel EXCEPT ![t] = IdlePanel]
      /\ calls' = [calls EXCEPT ![t] = <<>>]
      /\ recovery' = [recovery EXCEPT ![t] = Mounted]
      /\ news' = news \ {t}
      /\ UNCHANGED <<discarded, unused, released, settled>>
      /\ \/ UNCHANGED <<journal, accepted>>
         \/ calls[t] # <<>> /\ Effect(Head(calls[t]))
  BY DEF Reload
<1>2. /\ upload' \in [Tab -> UploadType]
      /\ upload'[t].phase = "none" /\ upload'[t].attempt = {}
      /\ \A u \in Tab \ {t} : upload'[u] = upload[u]
  BY <1>1, Rests DEF Rest
<1>3. /\ panel' \in [Tab -> PanelType]
      /\ panel'[t].kind = "idle" /\ panel'[t].attempt = {}
      /\ \A u \in Tab \ {t} : panel'[u] = panel[u]
  BY <1>1, ShowsIdle DEF ShowIdle
<1>4. /\ calls' \in [Tab -> Seq(CallType)]
      /\ DOMAIN calls'[t] = {}
      /\ \A u \in Tab \ {t} : calls'[u] = calls[u]
  BY <1>1
<1>5. /\ accepted' \in [Attempt -> SUBSET Hash]
      /\ \A a \in Attempt \ Mine(t) : accepted'[a] = accepted[a]
  BY <1>1, EffectAccepts, TypesOfTabs
<1>6. Mine(t)' = {}
  BY <1>1, <1>2, <1>3, <1>4, TypesOfTabs DEF Mine
<1>7. Moves(t)
  BY <1>1, <1>2, <1>3, <1>4, <1>5, <1>6, TypesOfTabs DEF Moves
<1>8. Shape(t)' /\ HashesKnown(t)' /\ RemovesOver(t)'
  BY <1>2, <1>3, <1>4 DEF Shape, HashesKnown, RemovesOver, IsRemoved, AtMostOne, Busy
<1>9. Shapes' /\ Owned' /\ Tabs'
  BY <1>7, <1>8, OtherTabs DEF RecoveryInvariant
<1>10. Watched' \subseteq Watched
  BY <1>1, <1>2 DEF Watched
<1>11. /\ journal' \in Records
       /\ Recorded' /\ HashesAreSeen' /\ DiscardedStaysGone'
  <2>1. CASE UNCHANGED <<journal, accepted>>
    BY <1>1, <1>10, <2>1
    DEF RecoveryInvariant, TypeOK, Recorded, HashesAreSeen, DiscardedStaysGone
  <2>2. CASE calls[t] # <<>> /\ Effect(Head(calls[t]))
    BY <1>1, <1>10, <2>2, EffectKeeps
  <2>. QED
    BY <1>1, <2>1, <2>2
<1>12. /\ recovery' \in [Tab -> RecoveryType]
       /\ \A u \in Tab \ {t} : recovery'[u] = recovery[u]
       /\ recovery'[t].load = "loading" /\ Acting(recovery'[t])
  <2>1. Mounted \in RecoveryType /\ Mounted.load = "loading" /\ Acting(Mounted)
    BY NothingIsRecords DEF Mounted, RecoveryType, Acting
  <2>. QED
    BY <1>1, <2>1, TypesOfTabs
<1>13. TypeOK'
  <2>1. \A u \in Tab : \A i \in DOMAIN calls'[u] : calls'[u][i] \in CallType
    BY <1>7 DEF Moves
  <2>2. news' \subseteq Tab
    BY <1>1 DEF TypeOK
  <2>. QED
    BY <1>1, <1>7, <1>11, <1>12, <2>1, <2>2
    DEF TypeOK, Moves, UploadType, PanelType, CallType, RecoveryType
<1>14. Actions'
  BY <1>12 DEF RecoveryInvariant, Actions
<1>15. Informed'
  BY <1>1, <1>10, <1>12 DEF RecoveryInvariant, Informed, Knows
<1>. QED
  BY <1>9, <1>11, <1>13, <1>14, <1>15 DEF RecoveryInvariant

-----------------------------------------------------------------------------
(* The recovery panel.                                                      *)

\* A panel that knows of every upload that may cost a fee.
KnownBy(r) ==
    \/ r.load \in {"loading", "error"}
    \/ r.changePending
    \/ r.load = "listed" /\ Watched \subseteq DOMAIN r.read
    \/ r.load = "ready" /\ Watched \subseteq DOMAIN r.records

LEMMA RecoverKeeps ==
    ASSUME RecoveryInvariant, NEW t \in Tab, NEW r \in RecoveryType, Acting(r),
           Recover(t, r), UNCHANGED <<stored, settled>>,
           news' \subseteq news, news \ {t} \subseteq news',
           t \in news' \/ KnownBy(r)
    PROVE  RecoveryInvariant'
<1>. USE TabFacts
<1>1. /\ recovery' = [recovery EXCEPT ![t] = r]
      /\ UNCHANGED <<journal, discarded, settled, released, accepted, unused>>
      /\ UNCHANGED <<upload, latest, panel, calls>>
  BY DEF Recover, stored, uploadVars
<1>2. /\ recovery' \in [Tab -> RecoveryType]
      /\ recovery'[t] = r
      /\ \A u \in Tab \ {t} : recovery'[u] = recovery[u]
  BY <1>1, TypesOfTabs
<1>3. TypeOK'
  BY <1>1, <1>2 DEF TypeOK, RecoveryType
<1>4. Actions'
  BY <1>2 DEF RecoveryInvariant, Actions
<1>5. Watched' = Watched
  BY <1>1 DEF Watched
<1>6. Informed'
  <2>1. ASSUME NEW u \in Tab \ {t}
        PROVE  Knows(u)'
    BY <1>2, <1>5, <2>1 DEF RecoveryInvariant, Informed, Knows
  <2>2. Knows(t)'
    BY <1>2, <1>5 DEF KnownBy, Knows
  <2>. QED
    BY <2>1, <2>2 DEF Informed
<1>7. Recorded' /\ HashesAreSeen' /\ DiscardedStaysGone'
  BY <1>1, <1>5 DEF RecoveryInvariant, Recorded, HashesAreSeen, DiscardedStaysGone
<1>8. Shapes'
  BY <1>1 DEF RecoveryInvariant, Shapes, Shape
<1>9. Owned'
  <2>1. \A u \in Tab : Mine(u)' = Mine(u)
    BY <1>1 DEF Mine
  <2>. QED
    BY <1>1, <2>1 DEF RecoveryInvariant, Owned
<1>10. Tabs'
  BY <1>1 DEF RecoveryInvariant, Tabs, HashesKnown, RemovesOver, Over, SentWithin, OnlySubmit,
              NoSubmit, IsRemoved
<1>. QED
  BY <1>3, <1>4, <1>6, <1>7, <1>8, <1>9, <1>10 DEF RecoveryInvariant

\* Ending an action, or reading again, leaves a panel that knows no less.
LEMMA RereadKeeps ==
    ASSUME RecoveryInvariant, NEW t \in Tab, Recover(t, Reread(recovery[t])),
           UNCHANGED <<stored, settled>>, news' \subseteq news, news \ {t} \subseteq news'
    PROVE  RecoveryInvariant'
<1>1. /\ Reread(recovery[t]) \in RecoveryType
      /\ Acting(Reread(recovery[t]))
      /\ KnownBy(Reread(recovery[t]))
  BY TabFacts, RereadFacts DEF KnownBy
<1>. QED
  BY <1>1, RecoverKeeps

LEMMA FinishKeeps ==
    ASSUME RecoveryInvariant, NEW t \in Tab, NEW r \in RecoveryType, Recover(t, Finish(r)),
           UNCHANGED <<stored, settled, news>>, t \in news \/ KnownBy(r)
    PROVE  RecoveryInvariant'
<1>1. Finish(r) \in RecoveryType /\ Acting(Finish(r))
  BY FinishFacts
<1>2. t \in news \/ KnownBy(Finish(r))
  BY FinishFacts DEF KnownBy
<1>. QED
  BY <1>1, <1>2, RecoverKeeps

\* What a panel knows of does not depend on the rest of it.
LEMMA KnownAlready ==
    ASSUME RecoveryInvariant, NEW t \in Tab
    PROVE  t \in news \/ KnownBy(recovery[t])
  BY DEF RecoveryInvariant, Informed, Knows, KnownBy

LEMMA ListKeeps ==
    ASSUME RecoveryInvariant, NEW t \in Tab, List(t)
    PROVE  RecoveryInvariant'
<1>1. PICK r \in RecoveryType : r = recovery[t]
  BY TabFacts
<1>2. r.load = "loading" /\ Acting(r) /\ UNCHANGED <<stored, news, settled>>
  BY <1>1, TabFacts DEF List
<1>3. CASE Recover(t, [r EXCEPT !.load = "listed", !.read = journal])
  <2>. DEFINE q == [r EXCEPT !.load = "listed", !.read = journal]
  <2>1. q \in RecoveryType
    BY TabFacts DEF RecoveryType, TypeOK
  <2>2. q.load = "listed" /\ q.read = journal /\ q.action = r.action
        /\ q.changePending = r.changePending
    BY DEF RecoveryType
  <2>. HIDE DEF q
  <2>3. Acting(q) /\ KnownBy(q)
    BY <1>2, <2>2 DEF Acting, KnownBy, RecoveryInvariant, Recorded
  <2>. QED
    BY <1>2, <1>3, <2>1, <2>3, RecoverKeeps DEF q
<1>4. CASE Recover(t, [r EXCEPT !.load = "error"])
  <2>. DEFINE q == [r EXCEPT !.load = "error"]
  <2>1. q \in RecoveryType
    BY DEF RecoveryType
  <2>2. q.load = "error" /\ q.action = r.action /\ q.changePending = r.changePending
    BY DEF RecoveryType
  <2>. HIDE DEF q
  <2>3. Acting(q) /\ KnownBy(q)
    BY <1>2, <2>2 DEF Acting, KnownBy
  <2>. QED
    BY <1>2, <1>4, <2>1, <2>3, RecoverKeeps DEF q
<1>. QED
  BY <1>1, <1>3, <1>4 DEF List

LEMMA ShowListKeeps ==
    ASSUME RecoveryInvariant, NEW t \in Tab, ShowList(t)
    PROVE  RecoveryInvariant'
<1>1. PICK r \in RecoveryType : r = recovery[t]
  BY TabFacts
<1>. DEFINE q == [r EXCEPT !.load = "ready", !.records = r.read, !.read = Nothing]
<1>2. /\ r.load = "listed" /\ Acting(r) /\ UNCHANGED <<stored, news, settled>>
      /\ Recover(t, q)
      /\ t \in news \/ KnownBy(r)
  BY <1>1, TabFacts, KnownAlready DEF ShowList
<1>3. q \in RecoveryType
  BY NothingIsRecords DEF RecoveryType
<1>4. /\ q.load = "ready" /\ q.records = r.read /\ q.action = r.action
      /\ q.changePending = r.changePending
  BY DEF RecoveryType
<1>. HIDE DEF q
<1>5. Acting(q)
  BY <1>2, <1>4 DEF Acting
<1>6. t \in news \/ KnownBy(q)
  BY <1>2, <1>4 DEF KnownBy
<1>. QED
  BY <1>2, <1>3, <1>5, <1>6, RecoverKeeps

\* A record is chosen.
LEMMA ActKeeps ==
    ASSUME RecoveryInvariant, NEW t \in Tab, NEW a, NEW action \in {"checking", "removing"},
           NEW discard \in BOOLEAN, Selectable(t, a), Act(t, action, a, discard),
           action = "checking" => recovery[t].records[a] # {},
           UNCHANGED <<stored, news, settled>>
    PROVE  RecoveryInvariant'
<1>1. PICK r \in RecoveryType : r = recovery[t]
  BY TabFacts
<1>. DEFINE q == [r EXCEPT !.action = action, !.target = {a}, !.discard = discard]
<1>2. /\ r.load = "ready" /\ a \in DOMAIN r.records /\ r.records \in Records
      /\ Recover(t, q)
      /\ t \in news \/ KnownBy(r)
  BY <1>1, KnownAlready DEF Selectable, Act, RecoveryType
<1>3. a \in Attempt
  BY <1>2, RecordFacts
<1>4. q \in RecoveryType
  BY <1>3 DEF RecoveryType
<1>5. /\ q.load = r.load /\ q.records = r.records /\ q.read = r.read /\ q.action = action
      /\ q.target = {a} /\ q.changePending = r.changePending
  BY DEF RecoveryType
<1>. HIDE DEF q
<1>6. Acting(q)
  BY <1>1, <1>2, <1>5 DEF Acting
<1>7. t \in news \/ KnownBy(q)
  BY <1>2, <1>5 DEF KnownBy
<1>. QED
  BY <1>2, <1>4, <1>6, <1>7, RecoverKeeps

LEMMA CheckReturnsKeeps ==
    ASSUME RecoveryInvariant, NEW t \in Tab, CheckReturns(t)
    PROVE  RecoveryInvariant'
<1>1. PICK r \in RecoveryType : r = recovery[t]
  BY TabFacts
<1>2. /\ r.action = "checking" /\ Acting(r) /\ UNCHANGED <<stored, news, settled>>
      /\ t \in news \/ KnownBy(r)
  BY <1>1, TabFacts, KnownAlready DEF CheckReturns
<1>3. ASSUME NEW a \in r.target,
             Recover(t, [r EXCEPT !.action = "removing", !.outcome = {<<a, Newest(r.records[a])>>}])
      PROVE  RecoveryInvariant'
  <2>. DEFINE o == {<<a, Newest(r.records[a])>>}
              q == [r EXCEPT !.action = "removing", !.outcome = o]
  <2>1. /\ r.load = "ready" /\ a \in DOMAIN r.records /\ r.target = {a} /\ r.records[a] # {}
        /\ r.records \in Records
    BY <1>2, <1>3 DEF Acting, RecoveryType
  <2>2. a \in Attempt /\ r.records[a] \subseteq Hash
    BY <2>1, RecordFacts
  <2>3. Newest(r.records[a]) \in Hash
    BY <2>1, <2>2 DEF Newest, Hash
  <2>7. o \in SUBSET (Attempt \X Hash)
    BY <2>2, <2>3
  <2>8. Recover(t, q)
    BY <1>3
  <2>. HIDE DEF o
  <2>4. q \in RecoveryType
    BY <2>7 DEF RecoveryType
  <2>5. /\ q.load = r.load /\ q.records = r.records /\ q.read = r.read
        /\ q.action = "removing" /\ q.target = r.target /\ q.changePending = r.changePending
    BY DEF RecoveryType
  <2>. HIDE DEF q
  <2>6. Acting(q) /\ (t \in news \/ KnownBy(q))
    BY <1>2, <2>1, <2>5 DEF Acting, KnownBy
  <2>. QED
    BY <1>2, <2>8, <2>4, <2>6, RecoverKeeps
<1>4. CASE Recover(t, Finish(r))
  BY <1>2, <1>4, FinishKeeps
<1>. QED
  BY <1>1, <1>3, <1>4 DEF CheckReturns

\* What was clicked is there no longer as it was seen: the newest records are
\* shown.
LEMMA ChangedKeeps ==
    ASSUME RecoveryInvariant, NEW t \in Tab, Changed(t)
    PROVE  RecoveryInvariant'
<1>1. PICK r \in RecoveryType : r = recovery[t]
  BY TabFacts
<1>2. PICK o : o = (IF r.discard THEN r.outcome ELSE {})
  OBVIOUS
<1>. DEFINE q == [r EXCEPT !.records = journal, !.outcome = o]
<1>3. /\ r.action = "removing" /\ r.load = "ready" /\ UNCHANGED <<stored, news, settled>>
      /\ Recover(t, Finish(q))
  BY <1>1, <1>2, TabFacts DEF Changed, Acting
<1>4. q \in RecoveryType
  BY <1>2, TabFacts DEF RecoveryType, TypeOK
<1>5. q.load = "ready" /\ q.records = journal
  BY <1>3 DEF RecoveryType
<1>. HIDE DEF q
<1>6. KnownBy(q)
  BY <1>5 DEF KnownBy, RecoveryInvariant, Recorded
<1>. QED
  BY <1>3, <1>4, <1>6, FinishKeeps

LEMMA DismissOutcomeKeeps ==
    ASSUME RecoveryInvariant, NEW t \in Tab, DismissOutcome(t)
    PROVE  RecoveryInvariant'
<1>1. PICK r \in RecoveryType : r = recovery[t]
  BY TabFacts
<1>. DEFINE q == [r EXCEPT !.outcome = {}]
<1>2. /\ Acting(r) /\ UNCHANGED <<stored, news, settled>>
      /\ Recover(t, q)
      /\ t \in news \/ KnownBy(r)
  BY <1>1, TabFacts, KnownAlready DEF DismissOutcome
<1>3. q \in RecoveryType
  BY DEF RecoveryType
<1>4. /\ q.load = r.load /\ q.records = r.records /\ q.read = r.read /\ q.action = r.action
      /\ q.target = r.target /\ q.changePending = r.changePending
  BY DEF RecoveryType
<1>. HIDE DEF q
<1>5. Acting(q) /\ (t \in news \/ KnownBy(q))
  BY <1>2, <1>4 DEF Acting, KnownBy
<1>. QED
  BY <1>2, <1>3, <1>5, RecoverKeeps

\* What the user saw is removed, and settles the upload with every hash that
\* was in it.
LEMMA RemoveIfUnchangedKeeps ==
    ASSUME RecoveryInvariant, NEW t \in Tab, RemoveIfUnchanged(t)
    PROVE  RecoveryInvariant'
<1>. USE TabFacts
<1>1. PICK r \in RecoveryType : r = recovery[t]
  OBVIOUS
<1>2. r.action = "removing" /\ r.load = "ready" /\ Acting(r) /\ r.records \in Records
  BY <1>1 DEF RemoveIfUnchanged, Acting, RecoveryType
<1>3. PICK a \in r.target :
         /\ a \in DOMAIN journal => journal[a] = r.records[a]
         /\ journal' = Drop(journal, a)
         /\ discarded' = discarded \cup {a}
         /\ Publish(t)
         /\ settled' = [settled EXCEPT ![a] = @ \cup {0} \cup r.records[a]]
         /\ Recover(t, Finish([Reread(r) EXCEPT
               !.records = Drop(@, a),
               !.outcome = IF r.discard THEN {o \in @ : o[1] # a} ELSE @]))
  BY <1>1 DEF RemoveIfUnchanged
<1>4. a \in DOMAIN r.records /\ a \in Attempt /\ r.records[a] \subseteq Hash
  BY <1>2, <1>3, RecordFacts DEF Acting
<1>5. PICK p : p = Finish([Reread(r) EXCEPT
               !.records = Drop(@, a),
               !.outcome = IF r.discard THEN {o \in @ : o[1] # a} ELSE @])
  OBVIOUS
<1>6. p \in RecoveryType /\ Acting(p) /\ p.load = "loading"
  <2>1. PICK q : q = Reread(r)
    OBVIOUS
  <2>2. q \in RecoveryType /\ q.changePending
    BY <1>2, <2>1, RereadFacts DEF Reread, RecoveryType
  <2>3. PICK f, g : /\ f = Drop(q.records, a)
                    /\ g = IF r.discard THEN {o \in q.outcome : o[1] # a} ELSE q.outcome
    OBVIOUS
  <2>4. f \in Records /\ g \in SUBSET (Attempt \X Hash)
    BY <2>2, <2>3, DropRecord DEF RecoveryType
  <2>5. /\ [q EXCEPT !.records = f, !.outcome = g] \in RecoveryType
        /\ [q EXCEPT !.records = f, !.outcome = g].changePending
    BY <2>2, <2>4 DEF RecoveryType
  <2>6. p = Finish([q EXCEPT !.records = f, !.outcome = g])
    BY <1>5, <2>1, <2>2, <2>3 DEF RecoveryType
  <2>. QED
    BY <2>5, <2>6, FinishFacts
<1>7. /\ recovery' = [recovery EXCEPT ![t] = p]
      /\ UNCHANGED <<released, accepted, unused>>
      /\ UNCHANGED <<upload, latest, panel, calls>>
  BY <1>3, <1>5 DEF Recover, uploadVars
<1>8. /\ journal' \in Records
      /\ DOMAIN journal' = DOMAIN journal \ {a}
      /\ \A b \in DOMAIN journal \ {a} : journal'[b] = journal[b]
  <2>1. journal \in Records
    BY DEF TypeOK
  <2>. QED
    BY <1>3, <2>1, DropRecord
<1>9. /\ settled' \in [Attempt -> SUBSET (0 .. 2)]
      /\ settled'[a] = settled[a] \cup {0} \cup r.records[a]
      /\ \A b \in Attempt : settled[b] \subseteq settled'[b]
      /\ \A b \in Attempt \ {a} : settled'[b] = settled[b]
  <2>1. PICK v : v = settled[a] \cup {0} \cup r.records[a]
    OBVIOUS
  <2>2. v \in SUBSET (0 .. 2)
    BY <1>4, <2>1, TypesOfTabs DEF Hash
  <2>3. settled' = [settled EXCEPT ![a] = v]
    BY <1>3, <2>1
  <2>. QED
    BY <1>4, <2>1, <2>2, <2>3, TypesOfTabs
<1>10. /\ recovery' \in [Tab -> RecoveryType]
       /\ recovery'[t] = p
       /\ \A u \in Tab \ {t} : recovery'[u] = recovery[u]
       /\ news' = news \cup (Tab \ {t})
  BY <1>3, <1>6, <1>7, TypesOfTabs DEF Publish
<1>11. Shapes' /\ Owned' /\ Tabs'
  <2>1. Mine(t)' = Mine(t)
    BY <1>7 DEF Mine
  <2>2. Moves(t)
    BY <1>7, <1>9, <2>1, TypesOfTabs DEF Moves
  <2>3. Shape(t)'
    BY <1>7 DEF Shape
  <2>4. \A b, S : SentWithin(t, b, S) => (SentWithin(t, b, S))'
    BY <1>7 DEF SentWithin
  <2>5. HashesKnown(t)'
    BY <1>7 DEF HashesKnown, SentWithin, OnlySubmit, NoSubmit
  <2>6. \A b \in Attempt : Over(t, b) => Over(t, b)'
    BY <1>7, <1>9, <2>4, OverStays DEF Over
  <2>7. RemovesOver(t)'
    BY <1>7, <2>6 DEF RemovesOver, IsRemoved, UploadType, PanelType
  <2>. QED
    BY <2>2, <2>3, <2>5, <2>7, OtherTabs DEF RecoveryInvariant
<1>12. Watched' \subseteq Watched \ {a}
  BY <1>4, <1>7, <1>9 DEF Watched
<1>13. Recorded'
  BY <1>8, <1>12 DEF RecoveryInvariant, Recorded
<1>14. HashesAreSeen'
  <2>1. ASSUME NEW b \in Attempt
        PROVE  accepted'[b] \subseteq settled'[b] \cup
                  (IF b \in DOMAIN journal' THEN journal'[b] ELSE {})
    <3>1. accepted[b] \subseteq settled[b] \cup (IF b \in DOMAIN journal THEN journal[b] ELSE {})
      BY DEF RecoveryInvariant, HashesAreSeen
    <3>2. CASE b = a
      BY <1>3, <1>7, <1>9, <3>1, <3>2
    <3>3. CASE b # a
      BY <1>7, <1>8, <1>9, <3>1, <3>3
    <3>. QED
      BY <3>2, <3>3
  <2>. QED
    BY <2>1 DEF HashesAreSeen
<1>15. DiscardedStaysGone'
  BY <1>3, <1>8 DEF RecoveryInvariant, DiscardedStaysGone
<1>16. TypeOK'
  <2>1. \A u \in Tab : \A i \in DOMAIN calls'[u] : calls'[u][i] \in CallType
    BY <1>7
  <2>. QED
    BY <1>3, <1>4, <1>7, <1>8, <1>9, <1>10, <2>1 DEF TypeOK, RecoveryType, CallType
<1>17. Actions'
  BY <1>6, <1>10 DEF RecoveryInvariant, Actions
<1>18. Informed'
  BY <1>6, <1>10 DEF Informed, Knows
<1>. QED
  BY <1>11, <1>13, <1>14, <1>15, <1>16, <1>17, <1>18 DEF RecoveryInvariant

-----------------------------------------------------------------------------
(* Every step, and what follows.                                            *)

LEMMA InitEstablishes == Init => RecoveryInvariant
<1>. SUFFICES ASSUME Init
              PROVE  RecoveryInvariant
  OBVIOUS
<1>1. Mounted \in RecoveryType /\ Mounted.load = "loading" /\ Acting(Mounted)
  BY NothingIsRecords DEF Mounted, RecoveryType, Acting
<1>2. NoUpload \in UploadType /\ IdlePanel \in PanelType
  BY DEF NoUpload, IdlePanel, UploadType, PanelType, Phases
<1>3. TypeOK
  BY <1>1, <1>2, NothingIsRecords DEF Init, TypeOK, UploadType, PanelType, RecoveryType, Hash
<1>4. /\ calls \in [Tab -> Seq(CallType)]
      /\ \A t \in Tab : DOMAIN calls[t] = {}
  BY DEF Init
<1>5. \A t \in Tab : upload[t].attempt = {} /\ upload[t].phase = "none" /\ panel[t].attempt = {}
  BY DEF Init, NoUpload, IdlePanel
<1>6. Shapes
  BY <1>4, <1>5 DEF Shapes, Shape, AtMostOne, Busy
<1>7. Actions
  BY <1>1 DEF Init, Actions
<1>8. Owned
  <2>1. \A t \in Tab : Mine(t) = {}
    BY <1>4, <1>5 DEF Init, Mine
  <2>. QED
    BY <2>1 DEF Owned, Init
<1>9. Tabs
  BY <1>4, <1>5 DEF Tabs, HashesKnown, RemovesOver, IsRemoved
<1>10. Watched = {}
  BY <1>5 DEF Init, Watched
<1>11. Recorded /\ Informed
  BY <1>1, <1>10 DEF Init, Recorded, Informed, Knows
<1>12. HashesAreSeen /\ DiscardedStaysGone
  BY NothingIsRecords DEF Init, HashesAreSeen, DiscardedStaysGone
<1>. QED
  BY <1>3, <1>6, <1>7, <1>8, <1>9, <1>11, <1>12 DEF RecoveryInvariant

LEMMA UploadStepKeeps ==
    ASSUME RecoveryInvariant, NEW t \in Tab, UploadStep(t)
    PROVE  RecoveryInvariant'
  BY RunUploadKeeps, StoredKeeps, ReleaseKeeps, SubmittedKeeps, AuthenticatedKeeps, FailKeeps,
     CheckReceiptKeeps, DismissKeeps, TidyKeeps, ResetKeeps, ContextChangeKeeps, CloseKeeps,
     ReturnKeeps DEF UploadStep

LEMMA RecoveryStepKeeps ==
    ASSUME RecoveryInvariant, NEW t \in Tab, RecoveryStep(t)
    PROVE  RecoveryInvariant'
<1>1. CASE Hear(t)
  BY <1>1, RereadKeeps DEF Hear
<1>2. CASE Refresh(t)
  BY <1>2, RereadKeeps DEF Refresh
<1>3. ASSUME NEW a \in Attempt, RemoveRecord(t, a)
      PROVE  RecoveryInvariant'
  BY <1>3, ActKeeps DEF RemoveRecord
<1>4. ASSUME NEW a \in Attempt, CheckRecovery(t, a)
      PROVE  RecoveryInvariant'
  BY <1>4, ActKeeps DEF CheckRecovery
<1>5. CASE ActionFails(t)
  BY <1>5, FinishKeeps, TabFacts, KnownAlready DEF ActionFails
<1>. QED
  BY <1>1, <1>2, <1>3, <1>4, <1>5, ListKeeps, ShowListKeeps, CheckReturnsKeeps,
     RemoveIfUnchangedKeeps, ChangedKeeps, DismissOutcomeKeeps DEF RecoveryStep

\* Nothing happens.
LEMMA StutterKeeps ==
    ASSUME RecoveryInvariant, UNCHANGED vars
    PROVE  RecoveryInvariant'
<1>1. /\ UNCHANGED <<journal, discarded, news, upload, latest, panel, calls, recovery, unused>>
      /\ UNCHANGED <<released, settled, accepted>>
  BY DEF vars, stored, uploadVars, ghosts
<1>2. TypeOK' /\ Actions'
  BY <1>1 DEF RecoveryInvariant, TypeOK, Actions
<1>3. Shapes'
  BY <1>1 DEF RecoveryInvariant, Shapes, Shape
<1>4. \A t \in Tab : Mine(t)' = Mine(t)
  BY <1>1 DEF Mine
<1>5. Owned'
  BY <1>1, <1>4 DEF RecoveryInvariant, Owned
<1>6. Tabs'
  BY <1>1 DEF RecoveryInvariant, Tabs, HashesKnown, RemovesOver, Over, SentWithin, OnlySubmit,
              NoSubmit, IsRemoved
<1>7. Recorded' /\ Informed'
  BY <1>1 DEF RecoveryInvariant, Recorded, Informed, Knows, Watched
<1>8. HashesAreSeen' /\ DiscardedStaysGone'
  BY <1>1 DEF RecoveryInvariant, HashesAreSeen, DiscardedStaysGone
<1>. QED
  BY <1>2, <1>3, <1>5, <1>6, <1>7, <1>8 DEF RecoveryInvariant

\* The invariant that all the properties of this module rest on.
THEOREM RecoveryInvariantHolds == Spec => []RecoveryInvariant
<1>1. RecoveryInvariant /\ [Next]_vars => RecoveryInvariant'
  BY UploadStepKeeps, RecoveryStepKeeps, ReloadKeeps, StutterKeeps DEF Next
<1>. QED
  BY InitEstablishes, <1>1, PTL DEF Spec

\* Every variable of the upload panel, the recovery panel and the journal keeps
\* its type.
THEOREM TypeCorrect == Spec => []TypeOK
<1>1. RecoveryInvariant => TypeOK
  BY DEF RecoveryInvariant
<1>. QED
  BY <1>1, RecoveryInvariantHolds, PTL

\* An upload that may have cost a fee stays in the journal until a receipt or a
\* user settles it, whichever panels fail, close or die.
THEOREM ReleasedStaysRecorded == Spec => []ReleasedIsRecorded
<1>1. RecoveryInvariant => ReleasedIsRecorded
  BY DEF RecoveryInvariant, TypeOK, Recorded, Watched, ReleasedIsRecorded, Unresolved
<1>. QED
  BY <1>1, RecoveryInvariantHolds, PTL

\* While there is such an upload no tab can begin a paid upload without having
\* been told: its recovery panel locks, or a message is on its way.
THEOREM ReleasedLocks == Spec => []ReleasedLocksEveryTab
<1>1. RecoveryInvariant => ReleasedLocksEveryTab
  <2>1. SUFFICES ASSUME RecoveryInvariant, Unresolved # {}, NEW t \in Tab
                 PROVE  RecoveryLocks(t) \/ t \in news
    BY DEF ReleasedLocksEveryTab
  <2>2. PICK a \in Attempt : a \in Watched
    BY <2>1 DEF Unresolved, Watched, RecoveryInvariant, TypeOK
  <2>3. Knows(t) /\ Acting(recovery[t])
    BY <2>1 DEF RecoveryInvariant, Informed, Actions
  <2>4. recovery[t].changePending => RecoveryLocks(t)
    BY <2>3 DEF Acting, RecoveryLocks
  <2>. QED
    BY <2>2, <2>3, <2>4 DEF Knows, RecoveryLocks
<1>. QED
  BY <1>1, RecoveryInvariantHolds, PTL

\* No hash that the journal took is lost before somebody has seen it: neither a
\* removal decided on for an older hash nor a failed receipt check drops it.
THEOREM HashesStaySeen == Spec => []HashesAreSeen
<1>1. RecoveryInvariant => HashesAreSeen
  BY DEF RecoveryInvariant
<1>. QED
  BY <1>1, RecoveryInvariantHolds, PTL

\* A record the user discarded never comes back, although calls that were under
\* way then still return.
THEOREM DiscardedIsGone == Spec => []DiscardedStaysGone
<1>1. RecoveryInvariant => DiscardedStaysGone
  BY DEF RecoveryInvariant
<1>. QED
  BY <1>1, RecoveryInvariantHolds, PTL
=============================================================================
