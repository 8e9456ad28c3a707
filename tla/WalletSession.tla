--------------------------- MODULE WalletSession ---------------------------
(***************************************************************************)
(* useWalletSession (wallet-session.ts): which account and chain of which  *)
(* injected wallet the page works with.  A wallet changes on its own and   *)
(* says so in events that arrive later; what it answers is its state when  *)
(* it answers.  Every answer and every event is an action, with the code   *)
(* that runs at once behind it.                                            *)
(***************************************************************************)
EXTENDS Integers, Sequences

CONSTANTS
    Provider,       \* the injected wallets
    Account,        \* the accounts a wallet may expose
    ChainId,        \* the chains a wallet may select
    LocalChain,     \* the one of them the page may ask a wallet for
    Read,           \* the connects and refreshes that may be outstanding
    Scenario        \* bounds of the behaviours to look at, as records

ASSUME SessionAssumption ==
    /\ LocalChain \in ChainId
    /\ \A s \in Scenario :
          /\ s.wallets \subseteq Provider /\ s.start \subseteq ChainId
          /\ s.changes \in Nat /\ s.reads \subseteq Read /\ s.switching \in BOOLEAN

VARIABLES
    scenario,   \* the bounds of this behaviour
    changes,    \* how often the wallets have changed
    wallet,     \* per wallet: the account exposed, the chain, whether it is up
    events,     \* per wallet: what it has not yet told the page
    session,    \* the session the page shows
    current,    \* requestSequence: the connect that still counts
    reads       \* per call of connect or refresh: how far it is

sessionVars == <<scenario, changes, wallet, events, session, current, reads>>

AtMostOne(S) == {{}} \cup {{x} : x \in S}

Idle == [phase |-> "idle", asked |-> FALSE, kind |-> "refresh", provider |-> {}, answered |-> {},
         account |-> {}, chain |-> {}, changed |-> FALSE, lost |-> FALSE,
         tries |-> 0]

SessionInit ==
    /\ scenario \in Scenario
    /\ changes = 0
    /\ wallet \in [Provider -> [account : AtMostOne(Account), chain : ChainId,
                                up : {TRUE}]]
    /\ \A p \in scenario.wallets : wallet[p].chain \in scenario.start
    /\ \A p \in Provider \ scenario.wallets :
          wallet[p] = [account |-> {}, chain |-> LocalChain, up |-> TRUE]
    /\ events = [p \in Provider |-> <<>>]
    /\ session = [status |-> "disconnected", provider |-> {}, account |-> {},
                  chain |-> {}]
    /\ current = {}
    /\ reads = [i \in Read |-> Idle]

-----------------------------------------------------------------------------
(* The wallet.                                                              *)

Event(kind, account, chain) == [kind |-> kind, account |-> account, chain |-> chain]

Tells(p, new, told) ==
    /\ changes < scenario.changes
    /\ changes' = changes + 1
    /\ wallet' = [wallet EXCEPT ![p] = new]
    /\ events' = [events EXCEPT ![p] = @ \o told]

Changes(p, new, told) ==
    Tells(p, new, told) /\ UNCHANGED <<scenario, session, current, reads>>

\* The list of accounts changes; the first of it, the one that counts, may
\* be the same as before.
ChangeAccount(p) ==
    /\ wallet[p].up
    /\ \E account \in AtMostOne(Account) :
          Changes(p, [wallet[p] EXCEPT !.account = account],
                  <<Event("accounts", account, {})>>)

ChangeChain(p) ==
    /\ wallet[p].up
    /\ \E chain \in ChainId \ {wallet[p].chain} :
          Changes(p, [wallet[p] EXCEPT !.chain = chain],
                  <<Event("chain", {}, {chain})>>)

Disconnect(p) ==
    /\ wallet[p].up
    /\ Changes(p, [wallet[p] EXCEPT !.up = FALSE], <<Event("disconnect", {}, {})>>)

\* Nobody listens to the event of a wallet that is back.
Reconnect(p) ==
    /\ ~ wallet[p].up
    /\ Changes(p, [wallet[p] EXCEPT !.up = TRUE], <<>>)

-----------------------------------------------------------------------------
(* connect and refresh: each ends in a read of both account and chain.      *)

Shows(status, p, account, chain) ==
    session' = [status |-> status, provider |-> {p}, account |-> account,
                chain |-> chain]

\* A chain operation keeps the buttons of its wallet disabled.
Switching ==
    \E i \in Read : reads[i].asked /\ reads[i].provider = session.provider

Connect(p) ==
    \E i \in scenario.reads :
        /\ reads[i].phase = "idle"
        /\ session.status # "connecting" /\ ~ Switching
        /\ reads' = [reads EXCEPT ![i] = [Idle EXCEPT !.phase = "approval",
                         !.kind = "connect", !.provider = {p}, !.tries = 1]]
        /\ current' = {i}
        /\ Shows("connecting", p, {}, {})
        /\ UNCHANGED <<scenario, changes, wallet, events>>

\* handleLocalChain: the wallet is asked for its local chain, and the page
\* looks again once the switch is confirmed.
SwitchChain(p) ==
    \E i \in scenario.reads :
        /\ scenario.switching
        /\ reads[i].phase = "idle" /\ ~ Switching
        /\ session.status = "connected"
        /\ session.provider = {p} /\ wallet[p].up
        /\ reads' = [reads EXCEPT ![i] = [Idle EXCEPT !.phase = "approval",
                         !.asked = TRUE, !.provider = {p}, !.tries = 1]]
        /\ IF wallet[p].chain = LocalChain
           THEN UNCHANGED <<changes, wallet, events>>
           ELSE Tells(p, [wallet[p] EXCEPT !.chain = LocalChain],
                      <<Event("chain", {}, {LocalChain})>>)
        /\ UNCHANGED <<scenario, session, current>>

\* What becomes of the session when a call fails or when it succeeds.
Superseded(i) ==
    IF reads[i].kind = "connect" THEN current # {i}
    ELSE session.provider # reads[i].provider

Failed(i) ==
    /\ reads' = [reads EXCEPT ![i] = Idle]
    /\ session' = IF Superseded(i) THEN session
                  ELSE IF reads[i].kind = "refresh"
                       THEN [session EXCEPT !.status = "disconnected"]
                       ELSE [session EXCEPT !.status = "disconnected",
                                            !.account = {}, !.chain = {}]

Succeeded(i, account, chain) ==
    IF reads[i].kind = "connect" /\ account = {} THEN Failed(i)
    ELSE /\ reads' = [reads EXCEPT ![i] = Idle]
         /\ session' = IF Superseded(i) THEN session
                       ELSE [session EXCEPT
                                !.status = IF account = {} THEN "disconnected"
                                           ELSE "connected",
                                !.account = account, !.chain = chain]

\* verifyLocalChain: the wallet is on the chain of the local node.
LocalChainVerified(p) == wallet[p].chain = LocalChain

\* eth_requestAccounts is answered, or the switch confirmed; readConnection
\* begins.
Approve(i) ==
    /\ reads[i].phase = "approval"
    /\ \A p \in reads[i].provider :
          wallet[p].up /\ (reads[i].kind = "refresh" => LocalChainVerified(p))
    /\ reads' = [reads EXCEPT ![i] =
          IF reads[i].kind = "connect" /\ Superseded(i) THEN Idle
          ELSE [@ EXCEPT !.phase = "reading"]]
    /\ UNCHANGED <<scenario, changes, wallet, events, session, current>>

\* Mutant: whatever was read last is taken for one state of the wallet.
ConcludeAnyway(i, r) ==
    IF r.lost THEN Failed(i) ELSE Succeeded(i, r.account, r.chain)

\* Both reads of an attempt are answered.
Conclude(i, r) ==
    IF r.lost THEN Failed(i)
    ELSE IF ~ r.changed THEN Succeeded(i, r.account, r.chain)
    ELSE IF r.tries < 3
         THEN /\ reads' = [reads EXCEPT ![i] = [r EXCEPT !.answered = {},
                              !.account = {}, !.chain = {}, !.changed = FALSE,
                              !.tries = @ + 1]]
              /\ UNCHANGED session
         ELSE Failed(i)

\* eth_accounts or eth_chainId is answered.
Answer(i, what) ==
    /\ reads[i].phase = "reading"
    /\ what \notin reads[i].answered
    /\ \E p \in reads[i].provider :
          LET r == [reads[i] EXCEPT
                      !.answered = @ \cup {what},
                      !.account = IF what = "accounts" THEN wallet[p].account ELSE @,
                      !.chain = IF what = "chain" THEN {wallet[p].chain} ELSE @]
          IN  /\ wallet[p].up
              /\ IF r.answered = {"accounts", "chain"} THEN Conclude(i, r)
                 ELSE reads' = [reads EXCEPT ![i] = r] /\ UNCHANGED session
    /\ UNCHANGED <<scenario, changes, wallet, events, current>>

\* The user refuses, a request fails, or the deadline passes.
ReadFails(i) ==
    /\ reads[i].phase # "idle"
    /\ IF reads[i].kind = "refresh" /\ reads[i].phase = "approval"
       THEN reads' = [reads EXCEPT ![i] = Idle] /\ UNCHANGED session
       ELSE Failed(i)
    /\ UNCHANGED <<scenario, changes, wallet, events, current>>

-----------------------------------------------------------------------------
(* Events, as every listener of that wallet sees them.                      *)

\* readConnection's own listeners.
Tracked(p, e) ==
    [i \in Read |->
        IF reads[i].phase # "reading" \/ reads[i].provider # {p} THEN reads[i]
        ELSE IF e.kind = "disconnect" THEN [reads[i] EXCEPT !.lost = TRUE]
        ELSE [reads[i] EXCEPT !.changed = TRUE]]

\* handleApprovalDisconnect: the connect under way does not count any more.
Abandoned(p, e) ==
    IF e.kind = "disconnect" /\ \E i \in current : reads[i].provider = {p}
                                                   /\ reads[i].phase # "idle"
    THEN {} ELSE current

Deliver(p) ==
    /\ events[p] # <<>>
    /\ events' = [events EXCEPT ![p] = Tail(@)]
    /\ LET e == Head(events[p])
           mine == session.provider = {p}
       IN  /\ current' = Abandoned(p, e)
           /\ IF mine /\ e.kind = "accounts" /\ e.account # {}
              THEN \E i \in scenario.reads :
                     /\ reads[i].phase = "idle"
                     /\ reads' = [Tracked(p, e) EXCEPT
                                    ![i] = [Idle EXCEPT !.phase = "reading",
                                              !.provider = {p}, !.tries = 1]]
              ELSE reads' = Tracked(p, e)
           /\ session' =
                IF ~ mine THEN session
                ELSE CASE e.kind = "accounts" ->
                            [session EXCEPT !.status = "disconnected", !.account = {}]
                       [] e.kind = "chain" -> [session EXCEPT !.chain = e.chain]
                       [] e.kind = "disconnect" ->
                            [session EXCEPT !.status = "disconnected",
                                            !.account = {}, !.chain = {}]
    /\ UNCHANGED <<scenario, changes, wallet>>

-----------------------------------------------------------------------------
WalletStep ==
    \E p \in scenario.wallets :
        ChangeAccount(p) \/ ChangeChain(p) \/ Disconnect(p) \/ Reconnect(p)

ReadStep ==
    \/ \E p \in scenario.wallets : Connect(p) \/ SwitchChain(p)
    \/ \E i \in Read : \/ Approve(i) \/ ReadFails(i)
                       \/ \E what \in {"accounts", "chain"} : Answer(i, what)

\* A page that shows a wallet as connected, and has heard all that wallet
\* had to say, shows the account and the chain it has selected: snapshots
\* that changed under way are read again, answers to a wallet the user has
\* left are dropped, and a connect that was overtaken has no say
\* (readConnection, connect, refresh and the three listeners).
ConnectedIsCurrent ==
    session.status = "connected" =>
        \A p \in session.provider :
            events[p] = <<>> =>
                /\ wallet[p].up
                /\ wallet[p].account = session.account
                /\ {wallet[p].chain} = session.chain
=============================================================================
