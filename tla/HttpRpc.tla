------------------------------ MODULE HttpRpc ------------------------------
(***************************************************************************)
(* createHttpRpcProvider of http-rpc.ts: the queue in front of a read      *)
(* endpoint.  Every callback of the event loop (a call, a timer, an abort  *)
(* listener, the continuation of a fetch) is one action, with the pump it  *)
(* ends in.                                                                *)
(*                                                                         *)
(* Requests are named by the id they are given.  The array queued is       *)
(* filled in the order of ids and shifted from the front, so a set of ids  *)
(* stands for it; active is the size of running.  Deadlines are equally    *)
(* long, so they pass in the order of ids.                                 *)
(***************************************************************************)
EXTENDS Naturals, FiniteSets

CONSTANTS
    MaxConcurrent,   \* options.maxConcurrentRequests
    MaxOutstanding,  \* options.maxOutstandingRequests
    MaxRequests      \* bound: how many requests are made

ASSUME RpcAssumption ==
    /\ MaxConcurrent \in Nat \ {0}
    /\ MaxOutstanding \in Nat
    /\ MaxOutstanding >= MaxConcurrent
    /\ MaxRequests \in Nat

VARIABLES
    nextId,    \* the id of the next request
    expired,   \* the last id whose deadline has passed
    closed,    \* whether close was called
    queued,    \* requests that wait for a slot
    running,   \* requests that hold a slot
    open,      \* fetches the browser has in progress
    answered,  \* those of them that have a response to be read
    aborted,   \* requests whose AbortController was triggered
    outcome    \* [Id -> what the caller's promise came to]

rpcVars == <<nextId, expired, closed, queued, running, open, answered, aborted,
             outcome>>

Id == 1 .. MaxRequests

Settled == {"value", "failure", "timeout", "cancelled", "closed", "refused"}

RpcInit ==
    /\ nextId = 1
    /\ expired = 0
    /\ closed = FALSE
    /\ queued = {}
    /\ running = {}
    /\ open = {}
    /\ answered = {}
    /\ aborted = {}
    /\ outcome = [r \in Id |-> "new"]

\* settle: the first outcome counts.
Settle(results, r, result) ==
    IF results[r] = "pending" THEN [results EXCEPT ![r] = result] ELSE results

\* The front of the queue whose deadline has passed before its timer ran.
\* pump looks at it only while there is a free slot.
Late(queue, held) ==
    IF closed \/ Cardinality(held) >= MaxConcurrent THEN {}
    ELSE {r \in queue : r <= expired}

\* How many requests pump starts.
Slots(waiting, held) ==
    LET free == MaxConcurrent - Cardinality(held)
    IN  IF closed \/ Cardinality(held) >= MaxConcurrent THEN 0
        ELSE IF free < Cardinality(waiting) THEN free ELSE Cardinality(waiting)

\* Mutant: the requests that came last are started.
PumpNewest(queue, held, fetches, results) ==
    LET late == Late(queue, held)
        waiting == queue \ late
    IN  \E started \in SUBSET waiting :
          /\ Cardinality(started) = Slots(waiting, held)
          /\ \A r \in started, s \in waiting \ started : s < r
          /\ queued' = waiting \ started
          /\ running' = held \cup started
          /\ open' = fetches \cup started
          /\ outcome' = [r \in Id |->
                IF r \in late THEN "timeout" ELSE results[r]]

\* pump: free slots go to the requests that came first.
Pump(queue, held, fetches, results) ==
    LET late == Late(queue, held)
        waiting == queue \ late
    IN  \E started \in SUBSET waiting :
          /\ Cardinality(started) = Slots(waiting, held)
          /\ \A r \in started, s \in waiting \ started : r < s
          /\ queued' = waiting \ started
          /\ running' = held \cup started
          /\ open' = fetches \cup started
          /\ outcome' = [r \in Id |->
                IF r \in late THEN "timeout" ELSE results[r]]

\* request and requestWithSignal.  A call that is refused before it has an id
\* (an aborted signal, a closed transport) changes nothing.
Schedule ==
    /\ ~ closed
    /\ nextId \in Id
    /\ nextId' = nextId + 1
    /\ \/ /\ outcome' = [outcome EXCEPT ![nextId] = "refused"]
          /\ UNCHANGED <<queued, running, open>>
       \/ /\ Cardinality(queued) + Cardinality(running) < MaxOutstanding
          /\ Pump(queued \cup {nextId}, running, open,
                  [outcome EXCEPT ![nextId] = "pending"])
    /\ UNCHANGED <<expired, closed, answered, aborted>>

\* Mutant: an interrupted request gives its slot up at once.
InterruptAndFree(r, reason) ==
    /\ outcome[r] = "pending"
    /\ aborted' = IF r \in running THEN aborted \cup {r} ELSE aborted
    /\ Pump(queued \ {r}, running \ {r}, open, Settle(outcome, r, reason))
    /\ UNCHANGED <<nextId, expired, closed, answered>>

\* interrupt: a running request keeps its slot until its fetch returns.
Interrupt(r, reason) ==
    /\ outcome[r] = "pending"
    /\ IF r \in running
       THEN /\ aborted' = aborted \cup {r}
            /\ outcome' = Settle(outcome, r, reason)
            /\ UNCHANGED <<queued, running, open>>
       ELSE /\ Pump(queued \ {r}, running, open, Settle(outcome, r, reason))
            /\ UNCHANGED aborted
    /\ UNCHANGED <<nextId, expired, closed, answered>>

\* Mutant: the timer of a request ends when its fetch starts.
TimeoutInQueue(r) == r <= expired /\ r \in queued /\ Interrupt(r, "timeout")

\* The timer of a request fires.
Timeout(r) == r <= expired /\ Interrupt(r, "timeout")

\* The caller's signal is aborted.
Cancel(r) == Interrupt(r, "cancelled")

\* fetcher resolves with a response that is going to be read.
Respond(r) ==
    /\ r \in open \ answered
    /\ r \notin aborted
    /\ outcome[r] = "pending"
    /\ answered' = answered \cup {r}
    /\ UNCHANGED <<nextId, expired, closed, queued, running, open, aborted,
                   outcome>>

\* Mutant: the slot is given back and nobody is let in.
ReleaseOnly(r, results) ==
    /\ running' = running \ {r}
    /\ open' = open \ {r}
    /\ answered' = answered \ {r}
    /\ outcome' = results
    /\ UNCHANGED <<nextId, expired, closed, aborted, queued>>

\* finally: the slot is given back.
Release(r, results) ==
    /\ Pump(queued, running \ {r}, open \ {r}, results)
    /\ answered' = answered \ {r}
    /\ UNCHANGED <<nextId, expired, closed, aborted>>

\* The whole response was read and holds a result or an error of the server.
Complete(r) ==
    /\ r \in answered
    /\ outcome[r] = "pending"
    /\ \E result \in {"value", "failure"} : Release(r, Settle(outcome, r, result))

\* The fetch or the reading of its response fails, because of an abort or not,
\* or the response is refused by its status or its length.
FetchFails(r) ==
    /\ r \in open
    /\ Release(r, Settle(outcome, r, "failure"))

\* Mutant: close settles what is queued only.
CloseQueued ==
    /\ closed' = TRUE
    /\ queued' = {}
    /\ outcome' = [r \in Id |->
          IF r \in queued /\ outcome[r] = "pending" THEN "closed" ELSE outcome[r]]
    /\ UNCHANGED <<nextId, expired, running, open, answered, aborted>>

\* close
Close ==
    /\ ~ closed
    /\ closed' = TRUE
    /\ queued' = {}
    /\ aborted' = aborted \cup running
    /\ outcome' = [r \in Id |->
          IF r \in queued \cup running /\ outcome[r] = "pending" THEN "closed"
          ELSE outcome[r]]
    /\ UNCHANGED <<nextId, expired, running, open, answered>>

\* Time passes.
Tick ==
    /\ expired + 1 < nextId
    /\ expired' = expired + 1
    /\ UNCHANGED <<nextId, closed, queued, running, open, answered, aborted,
                   outcome>>

RpcNext ==
    \/ Schedule
    \/ \E r \in Id :
          \/ Timeout(r)
          \/ Cancel(r)
          \/ Respond(r)
          \/ Complete(r)
          \/ FetchFails(r)
    \/ Close
    \/ Tick

RpcSpec == RpcInit /\ [][RpcNext]_rpcVars

\* Time passes, timers fire, and a fetch that was aborted is rejected.  The
\* endpoint owes nothing.
FairSpec ==
    /\ RpcSpec
    /\ WF_rpcVars(Tick)
    /\ \A r \in Id : /\ WF_rpcVars(Timeout(r))
                     /\ WF_rpcVars(r \in aborted /\ FetchFails(r))
-----------------------------------------------------------------------------
(* What the transport promises.                                             *)

Pending == {r \in Id : outcome[r] = "pending"}

\* Every variable has its type.
RpcTypeOK ==
    /\ nextId \in 1 .. MaxRequests + 1
    /\ expired \in 0 .. MaxRequests
    /\ expired < nextId
    /\ closed \in BOOLEAN
    /\ queued \subseteq Id
    /\ running \subseteq Id
    /\ queued \cap running = {}
    /\ open \subseteq Id
    /\ answered \subseteq open
    /\ aborted \subseteq Id
    /\ outcome \in [Id -> Settled \cup {"new", "pending"}]

\* Cancelled and timed-out requests included, the endpoint never sees more
\* fetches at once than maxConcurrentRequests, and the transport holds no more
\* than maxOutstandingRequests.
Bounded ==
    /\ Cardinality(open) <= MaxConcurrent
    /\ Cardinality(queued \cup open) <= MaxOutstanding

\* No request waits for a slot while one is free, whichever callback freed it.
NoIdleSlot ==
    queued # {} => Cardinality(running) >= MaxConcurrent

\* Requests get their slots in the order in which they came.
FirstComeFirstServed == \A r \in queued, s \in running : s < r

\* A caller that waits is one the transport will answer: its request is in the
\* queue or has a fetch of its own that nobody has aborted.  A closed
\* transport leaves nobody waiting.
NobodyForgotten ==
    /\ Pending = queued \cup (running \ aborted)
    /\ closed => Pending = {}

\* A promise is settled once: a late answer, timer or close changes nothing.
SettledOnce ==
    [][\A r \in Id : outcome[r] \in Settled => outcome'[r] = outcome[r]]_rpcVars

\* Whatever the endpoint does, every request is settled.
EveryRequestSettles == \A r \in Id : (outcome[r] = "pending") ~> (outcome[r] \in Settled)
=============================================================================
