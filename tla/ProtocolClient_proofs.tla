------------------------ MODULE ProtocolClient_proofs ------------------------
(***************************************************************************)
(* Theorems about the two halves of the client that reads the protocol.    *)
(*                                                                         *)
(* HttpRpc, the queue in front of the endpoint: for any limits and any     *)
(* number of requests.  ProtocolHistory, what is asked through it: for     *)
(* every chain, every place of the deployment on each branch, any finality *)
(* depth and any number of calls.                                          *)
(***************************************************************************)
EXTENDS HttpRpc, ProtocolHistory, FiniteSetTheorems, WellFoundedInduction,
        NaturalsInduction, TLAPS

-----------------------------------------------------------------------------
(* The queue of requests.                                                   *)

\* Sets of ids are finite.
LEMMA IdsFinite ==
    ASSUME NEW S \in SUBSET Id
    PROVE  IsFiniteSet(S) /\ Cardinality(S) \in Nat
<1>1. IsFiniteSet(Id)
    BY RpcAssumption, FS_Interval DEF Id
<1> QED
    BY <1>1, FS_Subset, FS_CardinalityType

\* Moving requests from one set to another, disjoint one adds their number.
LEMMA UnionCardinality ==
    ASSUME NEW S \in SUBSET Id, NEW T \in SUBSET Id, S \cap T = {}
    PROVE  Cardinality(S \cup T) = Cardinality(S) + Cardinality(T)
<1>1. Cardinality(S \cap T) = 0
    BY FS_EmptySet
<1>2. /\ IsFiniteSet(S) /\ IsFiniteSet(T)
      /\ Cardinality(S) \in Nat /\ Cardinality(T) \in Nat
    BY IdsFinite
<1>3. Cardinality(S \cup T) = Cardinality(S) + Cardinality(T) - Cardinality(S \cap T)
    BY <1>2, FS_Union
<1> QED
    BY <1>1, <1>2, <1>3

\* What pump may be handed: the queue and the slots after the callback it ends.
Pumpable(queue, held, results) ==
    /\ queue \subseteq Id
    /\ held \subseteq Id
    /\ queue \cap held = {}
    /\ Cardinality(held) <= MaxConcurrent
    /\ Cardinality(queue) + Cardinality(held) <= MaxOutstanding
    /\ \A r \in queue, s \in held : s < r
    /\ closed => queue = {}
    /\ results \in [Id -> Settled \cup {"new", "pending"}]
    /\ \A r \in queue : results[r] = "pending"

\* What the queue and the slots are between two callbacks.
Slotted ==
    /\ queued \subseteq Id
    /\ running \subseteq Id
    /\ queued \cap running = {}
    /\ Cardinality(running) <= MaxConcurrent
    /\ Cardinality(queued) + Cardinality(running) <= MaxOutstanding
    /\ NoIdleSlot
    /\ FirstComeFirstServed

\* pump fills the slots in order and within the limits, and settles what it
\* drops from the queue.
LEMMA PumpWorks ==
    ASSUME NEW queue, NEW held, NEW results,
           Pumpable(queue, held, results), Pump(queue, held, held, results)
    PROVE  /\ Slotted'
           /\ open' = running'
           /\ held \subseteq running'
           /\ queued' \cup running' \subseteq queue \cup held
           /\ outcome' \in [Id -> Settled \cup {"new", "pending"}]
           /\ \A r \in Id :
                 IF r \in queue /\ r \notin queued' \cup running'
                 THEN outcome'[r] = "timeout"
                 ELSE outcome'[r] = results[r]
<1> DEFINE late == Late(queue, held)
           waiting == queue \ late
<1>1. PICK started \in SUBSET waiting :
          /\ Cardinality(started) = Slots(waiting, held)
          /\ \A r \in started, s \in waiting \ started : r < s
          /\ queued' = waiting \ started
          /\ running' = held \cup started
          /\ open' = held \cup started
          /\ outcome' = [r \in Id |->
                IF r \in late THEN "timeout" ELSE results[r]]
    BY DEF Pump
<1>2. late \subseteq queue
    BY DEF Late
<1> HIDE DEF late
<1>3. /\ queue \subseteq Id /\ waiting \subseteq Id /\ started \subseteq Id
      /\ held \subseteq Id /\ waiting \ started \subseteq Id
      /\ started \cap held = {} /\ (waiting \ started) \cap started = {}
    BY <1>2 DEF Pumpable
<1> DEFINE h == Cardinality(held)
           w == Cardinality(waiting)
           n == Cardinality(started)
           k == Cardinality(waiting \ started)
           q == Cardinality(queue)
<1>4. h \in Nat /\ w \in Nat /\ n \in Nat /\ k \in Nat /\ q \in Nat
    BY <1>3, IdsFinite
<1>5. Cardinality(running') = h + n
    BY <1>1, <1>3, UnionCardinality
<1>6. w = k + n
  <2>1. waiting = (waiting \ started) \cup started
      BY <1>1
  <2> QED
      BY <2>1, <1>3, UnionCardinality
<1>7. w <= q
    BY <1>3, IdsFinite, FS_Subset
<1>8. n = Slots(waiting, held)
    BY <1>1
<1>9. k = Cardinality(queued')
    BY <1>1
<1>10. (waiting \ started) = {} <=> k = 0
    BY <1>3, IdsFinite, FS_EmptySet
<1>11. /\ h <= MaxConcurrent
       /\ q + h <= MaxOutstanding
       /\ closed => queue = {}
    BY DEF Pumpable
<1>12. n = IF closed \/ h >= MaxConcurrent THEN 0
           ELSE IF MaxConcurrent - h < w THEN MaxConcurrent - h ELSE w
    BY <1>8 DEF Slots
<1>13. closed => w = 0
    BY <1>11, FS_EmptySet
<1>14. /\ h + n <= MaxConcurrent
       /\ k + (h + n) <= MaxOutstanding
       /\ k # 0 => h + n >= MaxConcurrent
  <2> HIDE DEF h, w, n, k, q
  <2> QED
      BY <1>4, <1>6, <1>7, <1>11, <1>12, <1>13, RpcAssumption
<1>15. NoIdleSlot'
    BY <1>1, <1>5, <1>9, <1>10, <1>14 DEF NoIdleSlot
<1>16. FirstComeFirstServed'
    BY <1>1, <1>2 DEF FirstComeFirstServed, Pumpable
<1>17. Slotted'
    BY <1>1, <1>3, <1>5, <1>9, <1>14, <1>15, <1>16 DEF Slotted, Pumpable
<1>18. outcome' \in [Id -> Settled \cup {"new", "pending"}]
    BY <1>1 DEF Pumpable, Settled
<1>19. \A r \in Id : r \in late <=> r \in queue /\ r \notin queued' \cup running'
    BY <1>1, <1>2 DEF Pumpable
<1>20. \A r \in Id : IF r \in queue /\ r \notin queued' \cup running'
                     THEN outcome'[r] = "timeout"
                     ELSE outcome'[r] = results[r]
    BY <1>1, <1>19
<1>21. /\ open' = running'
       /\ held \subseteq running'
       /\ queued' \cup running' \subseteq queue \cup held
    BY <1>1
<1> QED
    BY <1>17, <1>18, <1>20, <1>21

\* The inductive invariant: the slots are the fetches, every id is new until
\* it is given out, and what waits is exactly what is queued or running and
\* not aborted.
IndInv ==
    /\ RpcTypeOK
    /\ Slotted
    /\ open = running
    /\ NobodyForgotten
    /\ \A r \in queued \cup running \cup aborted : r < nextId
    /\ aborted \cap queued = {}
    /\ \A r \in Id : outcome[r] = "new" <=> r >= nextId

USE RpcAssumption

\* A transport that was just created satisfies the invariant.
LEMMA InitInd == RpcInit => IndInv
<1> SUFFICES ASSUME RpcInit PROVE IndInv
    OBVIOUS
<1>1. RpcTypeOK
  <2>1. outcome \in [Id -> Settled \cup {"new", "pending"}]
      BY DEF RpcInit
  <2>2. nextId \in 1 .. MaxRequests + 1 /\ expired \in 0 .. MaxRequests
      BY DEF RpcInit
  <2>3. closed \in BOOLEAN
      BY Zenon DEF RpcInit
  <2>4. /\ expired < nextId
        /\ queued = {} /\ running = {} /\ open = {} /\ answered = {}
        /\ aborted = {}
      BY DEF RpcInit
  <2> QED
      BY <2>1, <2>2, <2>3, <2>4 DEF RpcTypeOK
<1>2. Slotted
    BY FS_EmptySet DEF RpcInit, Slotted, NoIdleSlot, FirstComeFirstServed
<1>3. NobodyForgotten
    BY DEF RpcInit, NobodyForgotten, Pending
<1> QED
    BY <1>1, <1>2, <1>3 DEF IndInv, RpcInit, Id

\* A callback that ends in pump preserves the invariant when it hands pump a
\* queue and slots that agree with the promises.
LEMMA PumpInd ==
    ASSUME NEW queue, NEW held, NEW results,
           Pumpable(queue, held, results), Pump(queue, held, held, results),
           nextId' \in 1 .. MaxRequests + 1, expired' \in 0 .. MaxRequests,
           expired' < nextId', closed' \in BOOLEAN, answered' \subseteq held,
           aborted' = aborted, aborted \subseteq Id, closed' = closed,
           aborted \cap queue = {},
           \A r \in queue \cup held \cup aborted : r < nextId',
           \A r \in Id : results[r] = "pending" <=> r \in queue \cup (held \ aborted),
           closed => queue \cup (held \ aborted) = {},
           \A r \in Id : results[r] = "new" <=> r >= nextId'
    PROVE  /\ IndInv'
           /\ \A r \in Id : results[r] # "pending" => outcome'[r] = results[r]
<1>1. /\ Slotted'
      /\ open' = running'
      /\ held \subseteq running'
      /\ queued' \cup running' \subseteq queue \cup held
      /\ outcome' \in [Id -> Settled \cup {"new", "pending"}]
      /\ \A r \in Id :
            IF r \in queue /\ r \notin queued' \cup running'
            THEN outcome'[r] = "timeout"
            ELSE outcome'[r] = results[r]
    BY PumpWorks
<1>2. queue \subseteq Id /\ held \subseteq Id /\ queue \cap held = {}
    BY DEF Pumpable
<1>3. queued' \cap running' = {}
    BY <1>1 DEF Slotted
<1>4. RpcTypeOK'
    BY <1>1, <1>2, <1>3 DEF RpcTypeOK
<1>5. NobodyForgotten'
  <2>1. \A r \in Id : outcome'[r] = "pending" <=>
                         r \in queued' \cup (running' \ aborted')
      BY <1>1, <1>3
  <2>2. Pending' = queued' \cup (running' \ aborted')
      BY <1>1, <1>2, <2>1 DEF Pending
  <2>3. closed' => queued' \cup (running' \ aborted') = {}
    <3>1. ASSUME NEW x \in queued' \cup (running' \ aborted')
          PROVE  x \in queue \cup (held \ aborted)
      <4>1. aborted' = aborted
          OBVIOUS
      <4>2. x \in queue \cup held /\ (x \in queued' \/ x \notin aborted)
          BY <1>1, <4>1
      <4>3. queued' \subseteq queue
          BY <1>1, <1>3
      <4> QED
          BY <4>2, <4>3
    <3>2. closed' => queue \cup (held \ aborted) = {}
        BY Zenon
    <3> QED
        BY <3>1, <3>2
  <2> QED
      BY <2>2, <2>3 DEF NobodyForgotten
<1>6. \A r \in Id : outcome'[r] = "new" <=> r >= nextId'
  <2>1. \A r \in queue : results[r] # "new"
      BY <1>2
  <2> QED
      BY <1>1, <1>2, <2>1
<1>7. /\ \A r \in queued' \cup running' \cup aborted' : r < nextId'
      /\ aborted' \cap queued' = {}
    BY <1>1, <1>3
<1>8. \A r \in Id : results[r] # "pending" => outcome'[r] = results[r]
    BY <1>1
<1> QED
    BY <1>1, <1>4, <1>5, <1>6, <1>7, <1>8 DEF IndInv

\* What is settled stays as it is.
StaySettled == \A r \in Id : outcome[r] \in Settled => outcome'[r] = outcome[r]

\* request, requestWithSignal
LEMMA ScheduleInd ==
    ASSUME IndInv, Schedule
    PROVE  IndInv' /\ StaySettled
<1> USE DEF IndInv
<1>1. /\ ~ closed /\ nextId \in Id /\ nextId' = nextId + 1
      /\ UNCHANGED <<expired, closed, answered, aborted>>
      /\ outcome[nextId] = "new"
      /\ nextId \notin queued \cup running \cup aborted
    BY DEF Schedule, RpcTypeOK, Id
<1>2. CASE /\ outcome' = [outcome EXCEPT ![nextId] = "refused"]
           /\ UNCHANGED <<queued, running, open>>
  <2>1. RpcTypeOK'
      BY <1>1, <1>2 DEF RpcTypeOK, Settled, Id
  <2>2. Slotted'
      BY <1>2 DEF Slotted, NoIdleSlot, FirstComeFirstServed
  <2>3. NobodyForgotten'
      BY <1>1, <1>2 DEF NobodyForgotten, Pending, RpcTypeOK
  <2> QED
      BY <1>1, <1>2, <2>1, <2>2, <2>3 DEF RpcTypeOK, Id, Settled, StaySettled
<1>3. CASE /\ Cardinality(queued) + Cardinality(running) < MaxOutstanding
           /\ Pump(queued \cup {nextId}, running, open,
                   [outcome EXCEPT ![nextId] = "pending"])
  <2> DEFINE queue == queued \cup {nextId}
             results == [outcome EXCEPT ![nextId] = "pending"]
  <2>1. Cardinality(queue) = Cardinality(queued) + 1
      BY <1>1, IdsFinite, FS_AddElement DEF RpcTypeOK
  <2>2. Cardinality(queued) \in Nat /\ Cardinality(running) \in Nat
      BY IdsFinite DEF RpcTypeOK
  <2>3. Pending = queued \cup (running \ aborted)
      BY DEF NobodyForgotten
  <2>4. \A r \in queue, t \in running : t < r
      BY <1>1 DEF Slotted, FirstComeFirstServed
  <2>5. /\ queue \subseteq Id /\ running \subseteq Id /\ queue \cap running = {}
        /\ results \in [Id -> Settled \cup {"new", "pending"}]
        /\ \A r \in queue : results[r] = "pending"
      BY <1>1, <2>3 DEF RpcTypeOK, Pending
  <2>6. Pumpable(queue, running, results)
      BY <1>1, <1>3, <2>1, <2>2, <2>4, <2>5 DEF Pumpable, Slotted
  <2>7. \A r \in Id : r # nextId => results[r] = outcome[r]
      BY <1>1 DEF RpcTypeOK
  <2>8. \A r \in Id : results[r] = "pending" <=>
                         r \in queue \cup (running \ aborted)
      BY <1>1, <2>3, <2>5, <2>7 DEF Pending
  <2>9. \A r \in queue \cup running \cup aborted : r < nextId'
    <3>1. \A r \in queued \cup running \cup aborted \cup {nextId} :
             r \in Id /\ r < nextId + 1
        BY <1>1 DEF RpcTypeOK, Id
    <3> QED
        BY <1>1, <3>1
  <2>10. \A r \in Id : results[r] = "new" <=> r >= nextId'
      BY <1>1, <2>5, <2>7 DEF RpcTypeOK, Id
  <2>11. /\ nextId' \in 1 .. MaxRequests + 1 /\ expired' \in 0 .. MaxRequests
         /\ expired' < nextId'
         /\ answered' \subseteq running /\ aborted' = aborted
         /\ aborted \subseteq Id /\ closed' = closed /\ aborted \cap queue = {}
      BY <1>1 DEF RpcTypeOK, Id
  <2>12. closed' \in BOOLEAN
      BY <1>1 DEF RpcTypeOK
  <2>13. \A r \in Id : outcome[r] \in Settled => results[r] = outcome[r]
      BY <1>1, <2>7 DEF Settled
  <2> HIDE DEF queue, results
  <2>14. Pump(queue, running, running, results)
      BY <1>3 DEF queue, results
  <2>15. IndInv' /\ \A r \in Id : results[r] # "pending" => outcome'[r] = results[r]
      BY <1>1, <2>6, <2>8, <2>9, <2>10, <2>11, <2>12, <2>14, PumpInd
  <2> QED
      BY <2>13, <2>15 DEF StaySettled, Settled
<1> QED
    BY <1>2, <1>3 DEF Schedule

\* interrupt
LEMMA InterruptInd ==
    ASSUME IndInv, NEW r \in Id, NEW reason \in Settled, Interrupt(r, reason)
    PROVE  IndInv' /\ StaySettled
<1> USE DEF IndInv
<1> DEFINE results == Settle(outcome, r, reason)
<1>1. /\ outcome[r] = "pending"
      /\ UNCHANGED <<nextId, expired, closed, answered>>
    BY DEF Interrupt
<1>2. /\ results \in [Id -> Settled \cup {"new", "pending"}]
      /\ results[r] = reason
      /\ \A s \in Id : s # r => results[s] = outcome[s]
    BY <1>1 DEF Settle, RpcTypeOK
<1>3. r \in queued \cup (running \ aborted)
    BY <1>1 DEF NobodyForgotten, Pending
<1>4. \A s \in Id : outcome[s] \in Settled => results[s] = outcome[s]
    BY <1>1, <1>2 DEF Settled
<1>5. reason # "pending" /\ reason # "new"
    BY DEF Settled
<1>6. r < nextId
    BY <1>3
<1> HIDE DEF results
<1>7. CASE r \in running
  <2>1. /\ aborted' = aborted \cup {r}
        /\ outcome' = results
        /\ UNCHANGED <<queued, running, open>>
      BY <1>7 DEF Interrupt, results
  <2>2. RpcTypeOK'
      BY <1>1, <1>2, <2>1 DEF RpcTypeOK
  <2>3. Slotted'
      BY <2>1 DEF Slotted, NoIdleSlot, FirstComeFirstServed
  <2>4. NobodyForgotten'
    <3>1. r \notin queued
        BY <1>7 DEF RpcTypeOK
    <3>2. Pending' = Pending \ {r}
        BY <1>2, <1>5, <2>1 DEF Pending
    <3>3. Pending' = queued' \cup (running' \ aborted')
        BY <2>1, <3>1, <3>2 DEF NobodyForgotten
    <3>4. closed' => Pending' = {}
        BY <1>1, <3>2 DEF NobodyForgotten
    <3> QED
        BY <3>3, <3>4 DEF NobodyForgotten
  <2>5. \A s \in Id : outcome'[s] = "new" <=> s >= nextId'
      BY <1>1, <1>2, <1>5, <2>1
  <2>6. /\ \A s \in queued' \cup running' \cup aborted' : s < nextId'
        /\ aborted' \cap queued' = {}
      BY <1>1, <1>6, <1>7, <2>1 DEF RpcTypeOK
  <2> QED
      BY <1>4, <2>1, <2>2, <2>3, <2>4, <2>5, <2>6 DEF StaySettled
<1>8. CASE r \notin running
  <2> DEFINE queue == queued \ {r}
  <2>1. Pump(queue, running, running, results) /\ aborted' = aborted
      BY <1>8 DEF Interrupt, results
  <2>2. Cardinality(queue) <= Cardinality(queued)
      BY IdsFinite, FS_Subset DEF RpcTypeOK
  <2>3. /\ Cardinality(queue) \in Nat /\ Cardinality(queued) \in Nat
        /\ Cardinality(running) \in Nat
      BY IdsFinite DEF RpcTypeOK
  <2>4. Pending = queued \cup (running \ aborted) /\ (closed => Pending = {})
      BY DEF NobodyForgotten
  <2>5. r \in queued
      BY <1>3, <1>8
  <2>6. \A s \in Id : results[s] = "pending" <=> s \in queue \cup (running \ aborted)
      BY <1>2, <1>5, <1>8, <2>4 DEF Pending
  <2>7. \A s \in queue, t \in running : t < s
      BY DEF Slotted, FirstComeFirstServed
  <2>8. queue \subseteq Id /\ running \subseteq Id /\ queue \cap running = {}
      BY DEF RpcTypeOK
  <2>9. /\ \A s \in queue : results[s] = "pending"
        /\ closed => queue = {}
      BY <2>4, <2>6, <2>8
  <2>10. Cardinality(queue) + Cardinality(running) <= MaxOutstanding
      BY <2>2, <2>3 DEF Slotted
  <2>11. Pumpable(queue, running, results)
      BY <1>2, <2>7, <2>8, <2>9, <2>10 DEF Pumpable, Slotted
  <2>12. closed => queue \cup (running \ aborted) = {}
      BY <2>4
  <2>13. \A s \in Id : results[s] = "new" <=> s >= nextId'
      BY <1>1, <1>2, <1>5
  <2>14. /\ nextId' \in 1 .. MaxRequests + 1 /\ expired' \in 0 .. MaxRequests
         /\ expired' < nextId'
         /\ answered' \subseteq running
         /\ aborted \subseteq Id /\ closed' = closed /\ aborted \cap queue = {}
         /\ \A s \in queue \cup running \cup aborted : s < nextId'
      BY <1>1 DEF RpcTypeOK
  <2>15. closed' \in BOOLEAN
      BY <1>1 DEF RpcTypeOK
  <2> HIDE DEF queue
  <2>16. IndInv' /\ \A s \in Id : results[s] # "pending" => outcome'[s] = results[s]
      BY <2>1, <2>6, <2>11, <2>12, <2>13, <2>14, <2>15, PumpInd
  <2> QED
      BY <1>4, <2>16 DEF StaySettled, Settled
<1> QED
    BY <1>7, <1>8

\* finally, after a response or a failure
LEMMA ReleaseInd ==
    ASSUME IndInv, NEW r \in open, NEW result \in {"value", "failure"},
           Release(r, Settle(outcome, r, result))
    PROVE  IndInv' /\ StaySettled
<1> USE DEF IndInv
<1> DEFINE results == Settle(outcome, r, result)
           held == running \ {r}
<1>1. r \in Id /\ r \in running /\ r \notin queued /\ r < nextId
    BY DEF RpcTypeOK
<1>2. /\ results \in [Id -> Settled \cup {"new", "pending"}]
      /\ results[r] = IF outcome[r] = "pending" THEN result ELSE outcome[r]
      /\ \A s \in Id : s # r => results[s] = outcome[s]
    BY <1>1 DEF Settle, RpcTypeOK, Settled
<1>3. \A s \in Id : outcome[s] \in Settled => results[s] = outcome[s]
    BY <1>2 DEF Settled
<1>4. result # "new" /\ result # "pending"
    OBVIOUS
<1> HIDE DEF results
<1>5. /\ Pump(queued, held, held, results)
      /\ answered' = answered \ {r}
      /\ UNCHANGED <<nextId, expired, closed, aborted>>
    BY DEF Release, results
<1>6. Cardinality(held) <= Cardinality(running)
    BY IdsFinite, FS_Subset DEF RpcTypeOK
<1>7. /\ Cardinality(held) \in Nat /\ Cardinality(queued) \in Nat
      /\ Cardinality(running) \in Nat
    BY IdsFinite DEF RpcTypeOK
<1>8. Pending = queued \cup (running \ aborted) /\ (closed => Pending = {})
    BY DEF NobodyForgotten
<1>9. \A s \in queued, t \in held : t < s
    BY DEF Slotted, FirstComeFirstServed
<1>10. /\ Cardinality(held) <= MaxConcurrent
       /\ Cardinality(queued) + Cardinality(held) <= MaxOutstanding
    BY <1>6, <1>7 DEF Slotted
<1>11. queued \subseteq Id /\ held \subseteq Id /\ queued \cap held = {}
    BY DEF RpcTypeOK
<1>12. \A s \in Id : results[s] = "pending" <=> s \in queued \cup (held \ aborted)
    BY <1>1, <1>2, <1>4, <1>8 DEF Pending
<1>13. /\ \A s \in queued : results[s] = "pending"
       /\ closed => queued = {}
       /\ closed => queued \cup (held \ aborted) = {}
    BY <1>8, <1>11, <1>12
<1>14. Pumpable(queued, held, results)
    BY <1>2, <1>9, <1>10, <1>11, <1>13 DEF Pumpable
<1>15. \A s \in Id : results[s] = "new" <=> s >= nextId'
    BY <1>1, <1>2, <1>4, <1>5
<1>16. /\ nextId' \in 1 .. MaxRequests + 1 /\ expired' \in 0 .. MaxRequests
       /\ expired' < nextId'
       /\ answered' \subseteq held
       /\ aborted' = aborted /\ aborted \subseteq Id /\ closed' = closed
       /\ aborted \cap queued = {}
       /\ \A s \in queued \cup held \cup aborted : s < nextId'
    BY <1>5 DEF RpcTypeOK
<1>17. closed' \in BOOLEAN
    BY <1>5 DEF RpcTypeOK
<1> HIDE DEF held
<1>18. IndInv' /\ \A s \in Id : results[s] # "pending" => outcome'[s] = results[s]
    BY <1>5, <1>12, <1>13, <1>14, <1>15, <1>16, <1>17, PumpInd
<1> QED
    BY <1>3, <1>18 DEF StaySettled, Settled

\* close
LEMMA CloseInd ==
    ASSUME IndInv, Close
    PROVE  IndInv' /\ StaySettled
<1> USE DEF IndInv
<1>1. /\ queued' = {} /\ aborted' = aborted \cup running
      /\ outcome' = [r \in Id |->
            IF r \in queued \cup running /\ outcome[r] = "pending" THEN "closed"
            ELSE outcome[r]]
      /\ UNCHANGED <<nextId, expired, running, open, answered>>
    BY DEF Close
<1>2. closed' \in BOOLEAN
    BY Zenon DEF Close
<1>3. outcome' \in [Id -> Settled \cup {"new", "pending"}]
    BY <1>1 DEF RpcTypeOK, Settled
<1>4. RpcTypeOK'
    BY <1>1, <1>2, <1>3 DEF RpcTypeOK
<1>5. Slotted'
  <2>1. Cardinality(queued') = 0
      BY <1>1, FS_EmptySet
  <2>2. Cardinality(running) \in Nat /\ Cardinality(queued) \in Nat
      BY IdsFinite DEF RpcTypeOK
  <2> QED
      BY <1>1, <2>1, <2>2 DEF Slotted, NoIdleSlot, FirstComeFirstServed
<1>6. \A r \in Id : outcome'[r] # "pending"
    BY <1>1 DEF NobodyForgotten, Pending
<1>7. NobodyForgotten'
    BY <1>1, <1>6 DEF NobodyForgotten, Pending
<1>8. \A r \in Id : outcome'[r] = "new" <=> r >= nextId'
  <2>1. \A r \in Id : outcome'[r] = "new" <=> outcome[r] = "new"
      BY <1>1
  <2> QED
      BY <1>1, <2>1
<1>9. StaySettled
    BY <1>1 DEF StaySettled, Settled
<1> QED
    BY <1>1, <1>4, <1>5, <1>7, <1>8, <1>9

\* Every step preserves the invariant, and no step changes a settled promise.
LEMMA NextInd ==
    ASSUME IndInv, [RpcNext]_rpcVars
    PROVE  IndInv' /\ StaySettled
<1>1. CASE Schedule
    BY <1>1, ScheduleInd
<1>2. ASSUME NEW r \in Id, Timeout(r) \/ Cancel(r)
      PROVE  IndInv' /\ StaySettled
    BY <1>2, InterruptInd DEF Timeout, Cancel, Settled
<1>3. ASSUME NEW r \in Id, Respond(r)
      PROVE  IndInv' /\ StaySettled
  <2>1. /\ answered' \subseteq open
        /\ UNCHANGED <<nextId, expired, closed, queued, running, open, aborted,
                       outcome>>
      BY <1>3 DEF Respond, IndInv, RpcTypeOK
  <2>2. RpcTypeOK'
      BY <2>1 DEF IndInv, RpcTypeOK
  <2>3. Slotted' /\ NobodyForgotten'
      BY <2>1 DEF IndInv, Slotted, NoIdleSlot, FirstComeFirstServed,
                  NobodyForgotten, Pending
  <2> QED
      BY <2>1, <2>2, <2>3 DEF IndInv, StaySettled
<1>4. ASSUME NEW r \in Id, Complete(r) \/ FetchFails(r)
      PROVE  IndInv' /\ StaySettled
  <2>1. r \in open /\ \E result \in {"value", "failure"} :
                          Release(r, Settle(outcome, r, result))
      BY <1>4 DEF Complete, FetchFails, IndInv, RpcTypeOK
  <2> QED
      BY <2>1, ReleaseInd
<1>5. CASE Close
    BY <1>5, CloseInd
<1>6. CASE Tick
  <2>1. /\ expired' = expired + 1 /\ expired + 1 < nextId
        /\ UNCHANGED <<nextId, closed, queued, running, open, answered, aborted,
                       outcome>>
      BY <1>6 DEF Tick
  <2>2. RpcTypeOK'
      BY <2>1 DEF IndInv, RpcTypeOK
  <2>3. Slotted' /\ NobodyForgotten'
      BY <2>1 DEF IndInv, Slotted, NoIdleSlot, FirstComeFirstServed,
                  NobodyForgotten, Pending
  <2> QED
      BY <2>1, <2>2, <2>3 DEF IndInv, StaySettled
<1>7. CASE UNCHANGED rpcVars
    BY <1>7 DEF rpcVars, IndInv, RpcTypeOK, Slotted, NoIdleSlot,
                FirstComeFirstServed, NobodyForgotten, Pending, StaySettled
<1> QED
    BY <1>1, <1>2, <1>3, <1>4, <1>5, <1>6, <1>7 DEF RpcNext

\* The queue, the slots and the promises agree between any two callbacks.
THEOREM QueueInvariant == RpcSpec => []IndInv
<1>1. IndInv /\ [RpcNext]_rpcVars => IndInv'
    BY NextInd
<1> QED
    BY InitInd, <1>1, PTL DEF RpcSpec

\* Every variable keeps its type.
THEOREM RpcTypeCorrect == RpcSpec => []RpcTypeOK
<1>1. IndInv => RpcTypeOK
    BY DEF IndInv
<1> QED
    BY QueueInvariant, <1>1, PTL

\* The endpoint never sees more fetches, and the transport never holds more
\* requests, than the limits of createHttpRpcProvider allow.
THEOREM LimitsHold == RpcSpec => []Bounded
<1>1. IndInv => Bounded
  <2> SUFFICES ASSUME IndInv PROVE Bounded
      OBVIOUS
  <2>1. Cardinality(queued \cup running) = Cardinality(queued) + Cardinality(running)
      BY UnionCardinality DEF IndInv, RpcTypeOK
  <2> QED
      BY <2>1 DEF IndInv, Slotted, Bounded
<1> QED
    BY QueueInvariant, <1>1, PTL

\* pump leaves no slot idle: nobody waits while a fetch could be started.
THEOREM NoSlotIsIdle == RpcSpec => []NoIdleSlot
<1>1. IndInv => NoIdleSlot
    BY DEF IndInv, Slotted
<1> QED
    BY QueueInvariant, <1>1, PTL

\* pump serves requests in the order in which they were accepted.
THEOREM SlotsUsedInOrder == RpcSpec => []FirstComeFirstServed
<1>1. IndInv => FirstComeFirstServed
    BY DEF IndInv, Slotted
<1> QED
    BY QueueInvariant, <1>1, PTL

\* No promise is left behind by the queue, the slots or close.
THEOREM NobodyIsForgotten == RpcSpec => []NobodyForgotten
<1>1. IndInv => NobodyForgotten
    BY DEF IndInv
<1> QED
    BY QueueInvariant, <1>1, PTL

\* settle takes effect once.
THEOREM SettledForGood == RpcSpec => SettledOnce
<1>1. IndInv /\ [RpcNext]_rpcVars => [StaySettled]_rpcVars
    BY NextInd
<1>2. StaySettled <=> \A r \in Id : outcome[r] \in Settled => outcome'[r] = outcome[r]
    BY DEF StaySettled
<1> QED
    BY QueueInvariant, <1>1, <1>2, PTL DEF RpcSpec, SettledOnce

HIDE RpcAssumption

-----------------------------------------------------------------------------
(* The blocks of one branch.                                                *)

\* A branch has one block of each number up to its head's.
LEMMA OneBlockPerNumber ==
    ASSUME NEW H \in Block, NEW n \in 0 .. Height[H]
    PROVE  \E b \in Block : At(H, n) = {b} /\ Height[b] = n
<1>1. PICK b \in Ancestors[H] : Height[b] = n
  BY ChainAssumption
<1>2. b \in Block
  BY ChainAssumption
<1>3. ASSUME NEW c \in Ancestors[H], Height[c] = n  PROVE c = b
  <2>1. c \in Block /\ Height[c] <= Height[b]
    BY <1>1, <1>2, <1>3, ChainAssumption
  <2>2. c \in Ancestors[b]
    BY <1>1, <1>3, <2>1, ChainAssumption
  <2>. QED
    BY <1>1, <1>2, <1>3, <2>1, <2>2, ChainAssumption
<1>. QED
  BY <1>1, <1>2, <1>3 DEF At

\* What is canonical at a number below a canonical block is in its ancestry.
LEMMA CanonicalBelow ==
    ASSUME NEW H \in Ancestors[head], head \in Block, NEW n \in 0 .. Height[H],
           NEW b \in Block, BlockAt(n, b)
    PROVE  At(H, n) = {b}
<1>1. H \in Block /\ Height[b] = n /\ b \in Ancestors[head]
  BY ChainAssumption DEF BlockAt, Canonical
<1>2. b \in Ancestors[H]
  BY <1>1, ChainAssumption
<1>3. PICK d \in Block : At(H, n) = {d}
  BY <1>1, OneBlockPerNumber
<1>. QED
  BY <1>1, <1>2, <1>3 DEF At

\* Nothing below n is deployed on the branch of H.
NoneBelow(H, n) == \A c \in Ancestors[H] : Height[c] < n => c \notin Deployed

\* A block without the contract has no ancestor with it.
LEMMA EmptyBelow ==
    ASSUME NEW H \in Block, NEW n \in 0 .. Height[H], At(H, n) \cap Deployed = {}
    PROVE  NoneBelow(H, n + 1)
<1>. SUFFICES ASSUME NEW c \in Ancestors[H], Height[c] < n + 1, c \in Deployed
              PROVE  FALSE
  BY DEF NoneBelow
<1>1. PICK d \in Block : At(H, n) = {d} /\ Height[d] = n
  BY OneBlockPerNumber
<1>2. d \in Ancestors[H] /\ d \notin Deployed
  BY <1>1 DEF At
<1>3. c \in Block /\ Height[c] <= Height[d]
  BY <1>1, ChainAssumption
<1>4. c \in Ancestors[d]
  BY <1>2, <1>3, ChainAssumption
<1>. QED
  BY <1>1, <1>2, <1>4, HistoryAssumption

-----------------------------------------------------------------------------
(* The invariant.                                                           *)

\* No abandoned block is canonical again.
NoReturn == Ancestors[head] \cap orphaned = {}

\* The codes that were read are those of H's branch.
CodesFit(H, w) ==
    /\ \A n \in w.empty : At(H, n) \cap Deployed = {}
    /\ \A n \in w.protocol : At(H, n) \subseteq Deployed

\* The awaits after the head's block is known; those whose head is as high as
\* the finality depth; those of the binary search and after it.
WithHead ==
    Awaits \ {"idle", "authenticate", "head", "headBlock", "returned"}
Deep == WithHead \ {"headCode", "finalHead", "finalBlock"}
Searching == {"search", "verifyLow", "deployment", "verifyPreceding", "preceding"}
Final == {"finalHead", "finalBlock"}

BoundaryOf(H, w) ==
    [kind |-> w.kind, head |-> H, startBlock |-> w.startBlock,
     confirmedThrough |-> w.confirmedThrough,
     deployment |-> w.deployment, preceding |-> w.preceding]

\* What the locals say is so on the branch of H.
Fits(H, await, w) ==
    /\ CodesFit(H, w)
    /\ await # "headCode" => H \in Deployed
    /\ await \notin {"headCode", "confirmedBlock"} =>
          w.confirmedThrough = At(H, w.headNumber - FinalityDepth)
    /\ await \in {"recheckConfirmed", "recheckHead"} => NoneBelow(H, Confirmed(w) + 1)
    /\ await \in Searching =>
          /\ NoneBelow(H, w.low)
          /\ At(H, w.high) \subseteq Deployed
    /\ await \in {"verifyPreceding", "preceding"} => w.deployment = At(H, w.low)
    /\ await \in Final => DescribesHead(BoundaryOf(H, w))

\* What is so of the locals whatever became of the branch.
Shape(await, w) ==
    /\ await \in Deep => w.headNumber >= FinalityDepth
    /\ await \in Searching => w.low <= w.high /\ w.high <= Confirmed(w)
    /\ await = "search" => w.low < w.high
    /\ await \in Searching \ {"search"} => w.low = w.high
    /\ await \in {"verifyPreceding", "preceding"} => w.low > 0
    /\ await \notin Final =>
          w.kind = "pending-confirmation" /\ w.startBlock = 0 /\ w.preceding = {}
    /\ await \notin Final \cup {"verifyPreceding", "preceding"} => w.deployment = {}
    /\ await = "headCode" => w.confirmedThrough = {}

AtMostOne(S) == \A a, b \in S : a = b

Sound(c) ==
    /\ pc[c] \in WithHead =>
          /\ Shape(pc[c], work[c])
          /\ \E H \in Block :
                /\ work[c].head = {H}
                /\ Height[H] = work[c].headNumber
                /\ H \in Ancestors[head] => Fits(H, pc[c], work[c])
                /\ H \in EverCanonical
    /\ pc[c] \in {"idle", "authenticate", "head", "returned"} => work[c] = Fresh
    /\ pc[c] = "headBlock" =>
          work[c] = [Fresh EXCEPT !.headNumber = work[c].headNumber]
    /\ \A b \in answer[c] : DescribesHead(b)
    /\ AtMostOne(answer[c])
    /\ goneBefore[c] \subseteq orphaned
    /\ pc[c] = "returned" => \A b \in answer[c] : b.head \notin goneBefore[c]

IInv ==
    /\ TypeOK
    /\ NoReturn
    /\ AtMostOne(resolved)
    /\ \A b \in resolved : DescribesHead(b)
    /\ \A c \in Caller : Sound(c)

-----------------------------------------------------------------------------
(* Reading code.                                                            *)

\* v are the locals w after the code of block n was read: only the codes
\* differ, and what H's branch had to say of them it still says.
Learned(w, n, v) ==
    /\ v \in Locals
    /\ v.headNumber = w.headNumber /\ v.head = w.head
    /\ v.confirmedThrough = w.confirmedThrough
    /\ v.low = w.low /\ v.high = w.high
    /\ v.deployment = w.deployment /\ v.preceding = w.preceding
    /\ v.kind = w.kind /\ v.startBlock = w.startBlock
    /\ \A H \in Ancestors[head] :
          n <= Height[H] /\ CodesFit(H, w) => CodesFit(H, v)

\* Reading the code of a block keeps everything else of the locals, and what
\* is read while H is canonical is so on its branch.
LEMMA CodeRead ==
    ASSUME NEW w \in Locals, NEW n \in Nat, NEW refresh,
           CanRead(w, n, refresh), head \in Block,
           NEW v, v = AfterCode(w, n, refresh)
    PROVE  Learned(w, n, v)
<1>1. CASE ~ Probes(w, n, refresh)
  BY <1>1 DEF AfterCode, Learned
<1>2. CASE Probes(w, n, refresh)
  <2>. DEFINE code == IF \E b \in Deployed : BlockAt(n, b) THEN "protocol" ELSE "empty"
  <2>1. PICK b \in Block : BlockAt(n, b)
    BY <1>2 DEF CanRead
  <2>2. w.codeProbes < MaxCodeProbes
    BY <1>2 DEF CanRead
  <2>3. v = [w EXCEPT !.codeProbes = w.codeProbes + 1,
               !.empty = IF code = "empty" THEN w.empty \cup {n} ELSE w.empty \ {n},
               !.protocol = IF code = "protocol" THEN w.protocol \cup {n} ELSE w.protocol \ {n}]
    BY <1>2 DEF AfterCode
  <2>4. w.codeProbes + 1 \in 0 .. MaxCodeProbes
    BY <2>2, HistoryAssumption DEF Locals
  <2>5. code = "protocol" \/ code = "empty"
    OBVIOUS
  <2>6. code = "protocol" => \E d \in Deployed : BlockAt(n, d)
    OBVIOUS
  <2>7. code = "empty" => \A d \in Deployed : ~ BlockAt(n, d)
    OBVIOUS
  <2>. HIDE DEF code
  <2>8. /\ v.headNumber = w.headNumber /\ v.head = w.head
        /\ v.confirmedThrough = w.confirmedThrough
        /\ v.low = w.low /\ v.high = w.high
        /\ v.deployment = w.deployment /\ v.preceding = w.preceding
        /\ v.kind = w.kind /\ v.startBlock = w.startBlock
        /\ v.empty = IF code = "empty" THEN w.empty \cup {n} ELSE w.empty \ {n}
        /\ v.protocol = IF code = "protocol" THEN w.protocol \cup {n} ELSE w.protocol \ {n}
    BY <2>3 DEF Locals
  <2>9. v \in Locals
    <3>1. /\ w.empty \in SUBSET Nat /\ w.protocol \in SUBSET Nat
          /\ v.empty \in SUBSET Nat /\ v.protocol \in SUBSET Nat
      BY <2>8 DEF Locals
    <3>2. v.codeProbes = w.codeProbes + 1
      BY <2>3 DEF Locals
    <3>3. v = [headNumber |-> v.headNumber, head |-> v.head,
               confirmedThrough |-> v.confirmedThrough, empty |-> v.empty,
               protocol |-> v.protocol, codeProbes |-> v.codeProbes,
               low |-> v.low, high |-> v.high, deployment |-> v.deployment,
               preceding |-> v.preceding, kind |-> v.kind,
               startBlock |-> v.startBlock]
      BY <2>3 DEF Locals
    <3>4. /\ v.headNumber \in Nat /\ v.head \in SUBSET Block
          /\ v.confirmedThrough \in SUBSET Block /\ v.low \in Nat /\ v.high \in Nat
          /\ v.deployment \in SUBSET Block /\ v.preceding \in SUBSET Block
          /\ v.kind \in {"confirmed", "pending-confirmation"} /\ v.startBlock \in Nat
      BY <2>8 DEF Locals
    <3>. QED
      BY <2>4, <3>1, <3>2, <3>3, <3>4 DEF Locals
  <2>10. ASSUME NEW H \in Ancestors[head], n <= Height[H], CodesFit(H, w)
         PROVE  CodesFit(H, v)
    <3>1. n \in 0 .. Height[H]
      BY <2>10
    <3>2. At(H, n) = {b}
      BY <2>1, <3>1, CanonicalBelow
    <3>3. code = "protocol" => b \in Deployed
      <4>1. ASSUME NEW d \in Deployed, BlockAt(n, d)  PROVE d = b
        <5>1. At(H, n) = {d}
          BY <3>1, <4>1, CanonicalBelow, HistoryAssumption
        <5>. QED
          BY <3>2, <5>1
      <4>. QED
        BY <2>6, <4>1
    <3>4. code = "empty" => b \notin Deployed
      BY <2>1, <2>7
    <3>5. \A m \in v.empty : At(H, m) \cap Deployed = {}
      <4>1. \A m \in v.empty : m \in w.empty \/ (m = n /\ code = "empty")
        BY <2>8
      <4>. QED
        BY <2>10, <3>2, <3>4, <4>1 DEF CodesFit
    <3>6. \A m \in v.protocol : At(H, m) \subseteq Deployed
      <4>1. \A m \in v.protocol : m \in w.protocol \/ (m = n /\ code = "protocol")
        BY <2>8
      <4>. QED
        BY <2>10, <3>2, <3>3, <4>1 DEF CodesFit
    <3>. QED
      BY <3>5, <3>6 DEF CodesFit
  <2>. QED
    BY <2>8, <2>9, <2>10 DEF Learned
<1>. QED
  BY <1>1, <1>2

-----------------------------------------------------------------------------
(* One step of one call.                                                    *)

\* A step that keeps the boundaries and leaves its own call sound.
LEMMA CallStep ==
    ASSUME IInv, NEW c \in Caller, NEW await \in Awaits, NEW w \in Locals,
           Goto(c, await, w),
           UNCHANGED <<chainVars, resolved, answer, goneBefore>>,
           Sound(c)'
    PROVE  IInv'
<1>1. UNCHANGED <<head, orphaned>> /\ AtMostOne(resolved)'
  BY DEF chainVars, IInv, AtMostOne
<1>2. /\ pc' \in [Caller -> Awaits] /\ work' \in [Caller -> Locals]
      /\ \A d \in Caller \ {c} : pc'[d] = pc[d] /\ work'[d] = work[d]
  BY DEF IInv, TypeOK, Goto
<1>3. TypeOK' /\ NoReturn' /\ \A b \in resolved' : DescribesHead(b)
  BY <1>1, <1>2 DEF IInv, TypeOK, ChainTypeOK, NoReturn
<1>4. ASSUME NEW d \in Caller, d # c  PROVE Sound(d)'
  <2>1. Sound(d) /\ pc'[d] = pc[d] /\ work'[d] = work[d]
    BY <1>2, <1>4 DEF IInv
  <2>2. \A H \in Block : H \in EverCanonical' <=> H \in EverCanonical
    BY <1>1 DEF EverCanonical
  <2>3. AtMostOne(answer[d])'
    BY <2>1 DEF Sound, AtMostOne
  <2>. QED
    BY <1>1, <2>1, <2>2, <2>3 DEF Sound
<1>5. (\A b \in resolved : DescribesHead(b))'
  BY <1>3 DEF DescribesHead, At
<1>. QED
  BY <1>3, <1>4, <1>5 DEF IInv

\* A step of the discovery after the head is known: what has to be shown is
\* the shape of the new locals, and what they say while the head is canonical.
LEMMA DiscoveryStep ==
    ASSUME IInv, NEW c \in Caller, NEW await \in WithHead, NEW w \in Locals,
           pc[c] \in WithHead,
           w.head = work[c].head, w.headNumber = work[c].headNumber,
           Shape(await, w),
           \A H \in Ancestors[head] :
              Fits(H, pc[c], work[c]) /\ Height[H] = w.headNumber /\ w.head = {H}
                  => Fits(H, await, w),
           Goto(c, await, w),
           UNCHANGED <<chainVars, resolved, answer, goneBefore>>
    PROVE  IInv'
<1>1. UNCHANGED <<head, orphaned>> /\ await \in Awaits
  BY DEF chainVars, WithHead
<1>2. pc'[c] = await /\ work'[c] = w
  BY DEF IInv, TypeOK, Goto
<1>3. Sound(c)
  BY DEF IInv
<1>4. PICK H \in Block :
         /\ work[c].head = {H}
         /\ Height[H] = work[c].headNumber
         /\ H \in Ancestors[head] => Fits(H, pc[c], work[c])
         /\ H \in EverCanonical
  BY <1>3 DEF Sound
<1>5. H \in Ancestors[head] => Fits(H, await, w)
  BY <1>4
<1>6. H \in EverCanonical'
  BY <1>1, <1>4 DEF EverCanonical
<1>7. await \notin {"idle", "authenticate", "head", "headBlock", "returned"}
  BY DEF WithHead
<1>8. Sound(c)'
  <2>1. \A b \in answer'[c] : DescribesHead(b)'
    BY <1>1, <1>3 DEF Sound
  <2>2. goneBefore'[c] \subseteq orphaned' /\ AtMostOne(answer[c])'
    BY <1>1, <1>3 DEF Sound, AtMostOne
  <2>3. /\ w.head = {H} /\ Height[H] = w.headNumber
        /\ H \in Ancestors[head'] => Fits(H, await, w)
    BY <1>1, <1>4, <1>5
  <2>. QED
    BY <1>2, <1>6, <1>7, <2>1, <2>2, <2>3 DEF Sound
<1>. QED
  BY <1>1, <1>8, CallStep

\* The locals of a call after the head is known.
LEMMA KnownHead ==
    ASSUME IInv, NEW c \in Caller, pc[c] \in WithHead
    PROVE  /\ work[c] \in Locals /\ head \in Block
           /\ Shape(pc[c], work[c])
           /\ work[c].headNumber \in Nat /\ work[c].low \in Nat /\ work[c].high \in Nat
           /\ FinalityDepth \in Nat
  BY HistoryAssumption DEF IInv, TypeOK, ChainTypeOK, Sound, Locals

\* What a call knows once it has read the code of block n.
LEMMA CallReadCode ==
    ASSUME IInv, NEW c \in Caller, pc[c] \in WithHead, NEW n \in Nat,
           NEW refresh, CanRead(work[c], n, refresh),
           NEW w, w = AfterCode(work[c], n, refresh)
    PROVE  Learned(work[c], n, w)
<1>1. PICK u \in Locals : u = work[c]
  BY KnownHead
<1>2. CanRead(u, n, refresh) /\ w = AfterCode(u, n, refresh) /\ head \in Block
  BY <1>1, KnownHead
<1>3. Learned(u, n, w)
  BY <1>2, CodeRead
<1>. QED
  BY <1>1, <1>3

-----------------------------------------------------------------------------
(* The actions.                                                             *)

LEMMA ReadHeadKeeps ==
    ASSUME IInv, NEW c \in Caller, ReadHead(c) \/ ReadHeadBlock(c)
    PROVE  IInv'
<1>0. UNCHANGED <<chainVars, resolved, answer, goneBefore>> /\ UNCHANGED <<head, orphaned>>
  BY DEF ReadHead, ReadHeadBlock, Discovering, chainVars
<1>t. Sound(c) /\ work[c] \in Locals /\ head \in Block
  BY DEF IInv, TypeOK, ChainTypeOK
<1>r. /\ \A b \in answer'[c] : DescribesHead(b)'
      /\ goneBefore'[c] \subseteq orphaned' /\ AtMostOne(answer[c])'
  BY <1>0, <1>t DEF Sound, AtMostOne
<1>1. CASE ReadHead(c)
  <2>1. PICK n \in 0 .. Height[head] :
            Goto(c, "headBlock", [work[c] EXCEPT !.headNumber = n])
    BY <1>1 DEF ReadHead
  <2>2. n \in Nat /\ pc[c] = "head" /\ work[c] = Fresh
    BY <1>1, <1>t, ChainAssumption DEF ReadHead, Discovering, Sound
  <2>. DEFINE w == [work[c] EXCEPT !.headNumber = n]
  <2>3. w \in Locals
    BY <1>t, <2>2 DEF Locals
  <2>4. pc'[c] = "headBlock" /\ work'[c] = w
    BY <2>1 DEF IInv, TypeOK, Goto
  <2>5. w.headNumber = n
    BY <2>2 DEF Fresh
  <2>6. Sound(c)'
    BY <1>r, <2>2, <2>4, <2>5 DEF Sound, WithHead
  <2>. HIDE DEF w
  <2>. QED
    BY <1>0, <2>1, <2>3, <2>6, CallStep DEF w, Awaits
<1>2. CASE ReadHeadBlock(c)
  <2>1. PICK b \in Block : /\ BlockAt(work[c].headNumber, b)
                           /\ Goto(c, "headCode", [work[c] EXCEPT !.head = {b}])
    BY <1>2 DEF ReadHeadBlock
  <2>2. /\ pc[c] = "headBlock"
        /\ work[c] = [Fresh EXCEPT !.headNumber = work[c].headNumber]
    BY <1>2, <1>t DEF ReadHeadBlock, Discovering, Sound
  <2>. DEFINE n == work[c].headNumber
              w == [work[c] EXCEPT !.head = {b}]
  <2>3. w = [headNumber |-> n, head |-> {b}, confirmedThrough |-> {}, empty |-> {},
             protocol |-> {}, codeProbes |-> 0, low |-> 0, high |-> 0,
             deployment |-> {}, preceding |-> {}, kind |-> "pending-confirmation",
             startBlock |-> 0]
    BY <2>2 DEF Fresh
  <2>4. w \in Locals
    BY <1>t DEF Locals
  <2>5. pc'[c] = "headCode" /\ work'[c] = w
    BY <2>1 DEF IInv, TypeOK, Goto
  <2>6. b \in Ancestors[head] /\ Height[b] = n
    BY <2>1 DEF BlockAt, Canonical
  <2>7. Shape("headCode", w)
    BY <2>3 DEF Shape, Deep, Searching, Final, WithHead
  <2>8. Fits(b, "headCode", w)
    BY <2>3 DEF Fits, CodesFit, Searching, Final
  <2>9. Sound(c)'
    <3>1. b \in EverCanonical'
      BY <1>0, <2>6 DEF EverCanonical
    <3>2. w.head = {b} /\ w.headNumber = n
      BY <2>3
    <3>. HIDE DEF w, n
    <3>. QED
      BY <1>r, <2>5, <2>6, <2>7, <2>8, <3>1, <3>2 DEF Sound
  <2>. HIDE DEF w
  <2>. QED
    BY <1>0, <2>1, <2>4, <2>9, CallStep DEF w, Awaits
<1>. QED
  BY <1>1, <1>2

LEMMA ReadHeadCodeKeeps ==
    ASSUME IInv, NEW c \in Caller, ReadHeadCode(c)
    PROVE  IInv'
<1>n. PICK n : n = work[c].headNumber
  OBVIOUS
<1>1. PICK w : w = AfterCode(work[c], n, FALSE)
  OBVIOUS
<1>2. /\ pc[c] = "headCode" /\ pc[c] \in WithHead
      /\ UNCHANGED <<chainVars, resolved, answer, goneBefore>>
      /\ CanRead(work[c], n, FALSE) /\ n \in w.protocol
  BY <1>n, <1>1 DEF ReadHeadCode, Discovering, WithHead, Awaits
<1>3. /\ work[c] \in Locals /\ head \in Block /\ n \in Nat
      /\ FinalityDepth \in Nat /\ Shape(pc[c], work[c])
  BY <1>n, <1>2, KnownHead
<1>4. /\ w \in Locals
      /\ w.headNumber = n /\ w.head = work[c].head
      /\ w.confirmedThrough = work[c].confirmedThrough
      /\ w.low = work[c].low /\ w.high = work[c].high
      /\ w.deployment = work[c].deployment /\ w.preceding = work[c].preceding
      /\ w.kind = work[c].kind /\ w.startBlock = work[c].startBlock
      /\ \A H \in Ancestors[head] :
             n <= Height[H] /\ CodesFit(H, work[c]) => CodesFit(H, w)
  <2>1. Learned(work[c], n, w)
    BY <1>1, <1>2, <1>3, CallReadCode
  <2>. QED
    BY <1>n, <2>1 DEF Learned
<1>5. /\ w.confirmedThrough = {} /\ w.preceding = {} /\ w.deployment = {}
      /\ w.startBlock = 0 /\ w.kind = "pending-confirmation"
  BY <1>2, <1>3, <1>4 DEF Shape, Final
\* The head is deployed, if it is still canonical.
<1>6. ASSUME NEW H \in Ancestors[head], Fits(H, pc[c], work[c]), Height[H] = n
      PROVE  CodesFit(H, w) /\ H \in Deployed /\ H \in Block
  <2>1. CodesFit(H, w)
    BY <1>4, <1>6, <1>3 DEF Fits
  <2>2. H \in Block /\ H \in At(H, n)
    BY <1>3, <1>6, ChainAssumption DEF At
  <2>. QED
    BY <1>2, <2>1, <2>2 DEF CodesFit
<1>7. CASE n < FinalityDepth /\ Goto(c, "finalHead", w)
  <2>1. Shape("finalHead", w)
    BY <1>4, <1>7 DEF Shape, Deep, Searching, Final, WithHead
  <2>2. ASSUME NEW H \in Ancestors[head], Fits(H, pc[c], work[c]), Height[H] = n,
               w.head = {H}
        PROVE  Fits(H, "finalHead", w)
    <3>1. CodesFit(H, w) /\ H \in Deployed /\ H \in Block
      BY <1>6, <2>2
    <3>2. \A d \in Ancestors[H] : Height[d] \in Nat
      BY <3>1, ChainAssumption
    <3>3. At(H, n - FinalityDepth) = {} /\ At(H, 0 - 1) = {}
      BY <1>3, <1>7, <3>2 DEF At
    <3>4. \A d \in Ancestors[H] : Height[d] < 0 => d \notin Deployed
      BY <3>2
    <3>5. DescribesHead(BoundaryOf(H, w))
      BY <1>5, <2>2, <3>1, <3>3, <3>4 DEF DescribesHead, BoundaryOf
    <3>. QED
      BY <1>4, <1>5, <3>1, <3>3, <3>5 DEF Fits, Searching
  <2>. QED
    BY <1>n, <1>2, <1>4, <1>7, <2>1, <2>2, DiscoveryStep DEF WithHead, Awaits
<1>8. CASE n >= FinalityDepth /\ FinalityDepth > 0 /\ Goto(c, "confirmedBlock", w)
  <2>1. Shape("confirmedBlock", w)
    BY <1>4, <1>5, <1>8 DEF Shape, Deep, Searching, Final, WithHead
  <2>2. ASSUME NEW H \in Ancestors[head], Fits(H, pc[c], work[c]), Height[H] = n,
               w.head = {H}
        PROVE  Fits(H, "confirmedBlock", w)
    BY <1>6, <2>2 DEF Fits, Searching, Final
  <2>. QED
    BY <1>n, <1>2, <1>4, <1>8, <2>1, <2>2, DiscoveryStep DEF WithHead, Awaits
<1>9. CASE /\ FinalityDepth = 0
           /\ Goto(c, "confirmedCode", [w EXCEPT !.confirmedThrough = w.head])
  <2>1. PICK v : v = [w EXCEPT !.confirmedThrough = w.head]
    OBVIOUS
  <2>2. /\ v \in Locals
        /\ v.confirmedThrough = w.head /\ v.headNumber = n /\ v.head = w.head
        /\ v.empty = w.empty /\ v.protocol = w.protocol
        /\ v.deployment = {} /\ v.preceding = {}
        /\ v.kind = "pending-confirmation" /\ v.startBlock = 0
    BY <1>4, <1>5, <2>1 DEF Locals
  <2>3. Shape("confirmedCode", v)
    BY <1>3, <1>9, <2>2 DEF Shape, Deep, Searching, Final, WithHead
  <2>4. ASSUME NEW H \in Ancestors[head], Fits(H, pc[c], work[c]), Height[H] = n,
               v.head = {H}
        PROVE  Fits(H, "confirmedCode", v)
    <3>1. CodesFit(H, w) /\ H \in Deployed /\ H \in Block
      BY <1>6, <2>4
    <3>2. PICK d \in Block : At(H, n) = {d}
      BY <1>3, <2>4, <3>1, OneBlockPerNumber
    <3>3. H \in At(H, n)
      BY <2>4, <3>1, ChainAssumption DEF At
    <3>4. v.confirmedThrough = At(H, n - FinalityDepth)
      BY <1>3, <1>9, <2>2, <2>4, <3>2, <3>3
    <3>. QED
      BY <2>2, <3>1, <3>4 DEF Fits, CodesFit, Searching, Final
  <2>. QED
    BY <1>n, <1>2, <1>4, <1>9, <2>1, <2>2, <2>3, <2>4, DiscoveryStep DEF WithHead, Awaits
<1>. QED
  BY <1>n, <1>1, <1>7, <1>8, <1>9 DEF ReadHeadCode

LEMMA ReadConfirmedBlockKeeps ==
    ASSUME IInv, NEW c \in Caller, ReadConfirmedBlock(c)
    PROVE  IInv'
<1>1. PICK b \in Block :
         /\ BlockAt(Confirmed(work[c]), b)
         /\ Goto(c, "confirmedCode", [work[c] EXCEPT !.confirmedThrough = {b}])
  BY DEF ReadConfirmedBlock
<1>2. /\ pc[c] = "confirmedBlock" /\ pc[c] \in WithHead
      /\ UNCHANGED <<chainVars, resolved, answer, goneBefore>>
  BY DEF ReadConfirmedBlock, Discovering, WithHead, Awaits
<1>3. PICK u \in Locals : u = work[c] /\ Shape("confirmedBlock", u)
  BY <1>2, KnownHead
<1>4. PICK n : n = u.headNumber - FinalityDepth
  OBVIOUS
<1>5. PICK w : w = [u EXCEPT !.confirmedThrough = {b}]
  OBVIOUS
<1>6. u.headNumber \in Nat /\ n \in Nat /\ n <= u.headNumber /\ head \in Block
  BY <1>2, <1>3, <1>4, KnownHead, HistoryAssumption
     DEF Locals, Shape, Deep, WithHead, Awaits
<1>7. /\ w \in Locals
      /\ w.headNumber = u.headNumber /\ w.head = u.head /\ w.confirmedThrough = {b}
      /\ w.empty = u.empty /\ w.protocol = u.protocol
      /\ w.deployment = u.deployment /\ w.preceding = u.preceding
      /\ w.kind = u.kind /\ w.startBlock = u.startBlock
  BY <1>5 DEF Locals
<1>8. Shape("confirmedCode", w)
  BY <1>3, <1>7 DEF Shape, Deep, Searching, Final, WithHead, Awaits
<1>9. ASSUME NEW H \in Ancestors[head], Fits(H, "confirmedBlock", u),
             Height[H] = w.headNumber
      PROVE  Fits(H, "confirmedCode", w)
  <2>1. BlockAt(n, b) /\ n \in 0 .. Height[H]
    BY <1>1, <1>3, <1>4, <1>6, <1>7, <1>9 DEF Confirmed
  <2>2. At(H, n) = {b}
    BY <1>6, <2>1, CanonicalBelow
  <2>. QED
    BY <1>4, <1>7, <1>9, <2>2 DEF Fits, CodesFit, Searching, Final
<1>10. /\ w.head = work[c].head /\ w.headNumber = work[c].headNumber
       /\ Goto(c, "confirmedCode", w)
       /\ \A H \in Ancestors[head] :
             Fits(H, pc[c], work[c]) /\ Height[H] = w.headNumber /\ w.head = {H}
                => Fits(H, "confirmedCode", w)
  BY <1>1, <1>2, <1>3, <1>5, <1>7, <1>9
<1>. QED
  BY <1>2, <1>7, <1>8, <1>10, DiscoveryStep DEF WithHead, Awaits

\* On with the binary search, or done with it.
LEMMA SearchKeeps ==
    ASSUME IInv, NEW c \in Caller, NEW w \in Locals, pc[c] \in WithHead,
           w.head = work[c].head, w.headNumber = work[c].headNumber,
           Shape("search", w) \/ Shape("verifyLow", w),
           \A H \in Ancestors[head] :
              Fits(H, pc[c], work[c]) /\ Height[H] = w.headNumber /\ w.head = {H}
                  => Fits(H, "search", w),
           Search(c, w),
           UNCHANGED <<chainVars, resolved, answer, goneBefore>>
    PROVE  IInv'
<1>1. \A H : Fits(H, "search", w) => Fits(H, "verifyLow", w)
  BY DEF Fits, Searching, Final
<1>2. CASE w.low < w.high
  <2>1. Shape("search", w)
    BY <1>2 DEF Shape, Searching, Deep, Final, WithHead, Awaits, Locals
  <2>. QED
    BY <1>2, <2>1, DiscoveryStep DEF Search, WithHead, Awaits
<1>3. CASE ~ (w.low < w.high)
  <2>1. Shape("verifyLow", w)
    BY <1>3 DEF Shape, Searching, Deep, Final, WithHead, Awaits, Locals
  <2>. QED
    BY <1>1, <1>3, <2>1, DiscoveryStep DEF Search, WithHead, Awaits
<1>. QED
  BY <1>2, <1>3

LEMMA ReadConfirmedCodeKeeps ==
    ASSUME IInv, NEW c \in Caller, ReadConfirmedCode(c)
    PROVE  IInv'
<1>1. PICK n : n = Confirmed(work[c])
  OBVIOUS
<1>2. PICK w : w = AfterCode(work[c], n, FALSE)
  OBVIOUS
<1>3. /\ pc[c] = "confirmedCode" /\ pc[c] \in WithHead
      /\ UNCHANGED <<chainVars, resolved, answer, goneBefore>>
      /\ CanRead(work[c], n, FALSE)
      /\ \/ n \in w.empty /\ Goto(c, "recheckConfirmed", w)
         \/ n \in w.protocol /\ Search(c, [w EXCEPT !.low = 0, !.high = n])
  BY <1>1, <1>2 DEF ReadConfirmedCode, Discovering, WithHead, Awaits
<1>4. PICK u \in Locals : u = work[c] /\ Shape("confirmedCode", u)
  BY <1>3, KnownHead
<1>5. /\ u.headNumber \in Nat /\ n \in Nat /\ n <= u.headNumber /\ head \in Block
      /\ n = u.headNumber - FinalityDepth
  BY <1>1, <1>3, <1>4, KnownHead, HistoryAssumption
     DEF Confirmed, Locals, Shape, Deep, WithHead, Awaits
<1>6. Learned(u, n, w)
  BY <1>2, <1>3, <1>4, <1>5, CallReadCode
<1>7. /\ w \in Locals
      /\ w.headNumber = u.headNumber /\ w.head = u.head
      /\ w.confirmedThrough = u.confirmedThrough
      /\ w.deployment = {} /\ w.preceding = {}
      /\ w.kind = "pending-confirmation" /\ w.startBlock = 0
  BY <1>4, <1>6 DEF Learned, Shape, Final
<1>8. ASSUME NEW H \in Ancestors[head], Fits(H, "confirmedCode", u),
             Height[H] = u.headNumber
      PROVE  /\ H \in Block /\ H \in Deployed /\ CodesFit(H, w) /\ n \in 0 .. Height[H]
             /\ w.confirmedThrough = At(H, w.headNumber - FinalityDepth)
  BY <1>5, <1>6, <1>7, <1>8, ChainAssumption DEF Fits, Learned
<1>9. CASE n \in w.empty /\ Goto(c, "recheckConfirmed", w)
  <2>1. Shape("recheckConfirmed", w)
    BY <1>4, <1>7 DEF Shape, Deep, Searching, Final, WithHead, Awaits
  <2>2. ASSUME NEW H \in Ancestors[head], Fits(H, "confirmedCode", u),
               Height[H] = u.headNumber
        PROVE  Fits(H, "recheckConfirmed", w)
    <3>1. At(H, n) \cap Deployed = {}
      BY <1>8, <1>9, <2>2 DEF CodesFit
    <3>2. NoneBelow(H, n + 1)
      BY <1>8, <2>2, <3>1, EmptyBelow
    <3>3. Confirmed(w) + 1 = n + 1
      BY <1>5, <1>7 DEF Confirmed
    <3>. QED
      BY <1>8, <2>2, <3>2, <3>3 DEF Fits, Searching, Final
  <2>3. w.head = work[c].head /\ w.headNumber = work[c].headNumber
        /\ \A H \in Ancestors[head] :
              Fits(H, pc[c], work[c]) /\ Height[H] = w.headNumber /\ w.head = {H}
                 => Fits(H, "recheckConfirmed", w)
    BY <1>3, <1>4, <1>7, <2>2
  <2>. QED
    BY <1>3, <1>7, <1>9, <2>1, <2>3, DiscoveryStep DEF WithHead, Awaits
<1>10. CASE n \in w.protocol /\ Search(c, [w EXCEPT !.low = 0, !.high = n])
  <2>1. PICK v : v = [w EXCEPT !.low = 0, !.high = n]
    OBVIOUS
  <2>2. /\ v \in Locals /\ v.low = 0 /\ v.high = n
        /\ v.headNumber = u.headNumber /\ v.head = u.head
        /\ v.confirmedThrough = w.confirmedThrough
        /\ v.empty = w.empty /\ v.protocol = w.protocol
        /\ v.deployment = {} /\ v.preceding = {}
        /\ v.kind = "pending-confirmation" /\ v.startBlock = 0
    BY <1>5, <1>7, <2>1 DEF Locals
  <2>3. Shape("search", v) \/ Shape("verifyLow", v)
    BY <1>4, <1>5, <2>2 DEF Shape, Confirmed, Deep, Searching, Final, WithHead, Awaits
  <2>4. ASSUME NEW H \in Ancestors[head], Fits(H, "confirmedCode", u),
               Height[H] = u.headNumber
        PROVE  Fits(H, "search", v)
    <3>1. At(H, n) \subseteq Deployed
      BY <1>8, <1>10, <2>4 DEF CodesFit
    <3>2. NoneBelow(H, 0)
      <4>1. \A d \in Ancestors[H] : Height[d] \in Nat
        BY <1>8, <2>4, ChainAssumption
      <4>. QED
        BY <4>1 DEF NoneBelow
    <3>. QED
      BY <1>7, <1>8, <2>2, <2>4, <3>1, <3>2 DEF Fits, CodesFit, Searching, Final
  <2>5. /\ v.head = work[c].head /\ v.headNumber = work[c].headNumber /\ Search(c, v)
        /\ \A H \in Ancestors[head] :
              Fits(H, pc[c], work[c]) /\ Height[H] = v.headNumber /\ v.head = {H}
                 => Fits(H, "search", v)
    BY <1>3, <1>4, <1>10, <2>1, <2>2, <2>4
  <2>. QED
    BY <1>3, <2>2, <2>3, <2>5, SearchKeeps
<1>. QED
  BY <1>3, <1>9, <1>10

LEMMA RecheckConfirmedKeeps ==
    ASSUME IInv, NEW c \in Caller, RecheckConfirmed(c)
    PROVE  IInv'
<1>1. PICK n : n = Confirmed(work[c])
  OBVIOUS
<1>2. PICK w : w = AfterCode(work[c], n, TRUE)
  OBVIOUS
<1>3. /\ pc[c] = "recheckConfirmed" /\ pc[c] \in WithHead
      /\ UNCHANGED <<chainVars, resolved, answer, goneBefore>>
      /\ CanRead(work[c], n, TRUE) /\ Goto(c, "recheckHead", w)
  BY <1>1, <1>2 DEF RecheckConfirmed, Discovering, WithHead, Awaits
<1>4. PICK u \in Locals : u = work[c] /\ Shape("recheckConfirmed", u)
  BY <1>3, KnownHead
<1>5. /\ u.headNumber \in Nat /\ n \in Nat /\ n <= u.headNumber
      /\ n = u.headNumber - FinalityDepth
  BY <1>1, <1>3, <1>4, KnownHead, HistoryAssumption
     DEF Confirmed, Locals, Shape, Deep, WithHead, Awaits
<1>6. Learned(u, n, w)
  BY <1>2, <1>3, <1>4, <1>5, CallReadCode
<1>7. Shape("recheckHead", w)
  BY <1>4, <1>6 DEF Learned, Shape, Deep, Searching, Final, WithHead, Awaits
<1>8. ASSUME NEW H \in Ancestors[head], Fits(H, "recheckConfirmed", u),
             Height[H] = u.headNumber
      PROVE  Fits(H, "recheckHead", w)
  BY <1>5, <1>6, <1>8 DEF Fits, Learned, Confirmed, Searching, Final
<1>9. /\ w \in Locals /\ w.head = work[c].head /\ w.headNumber = work[c].headNumber
      /\ \A H \in Ancestors[head] :
            Fits(H, pc[c], work[c]) /\ Height[H] = w.headNumber /\ w.head = {H}
               => Fits(H, "recheckHead", w)
  BY <1>3, <1>4, <1>6, <1>8 DEF Learned
<1>. QED
  BY <1>3, <1>7, <1>9, DiscoveryStep DEF WithHead, Awaits

LEMMA RecheckHeadKeeps ==
    ASSUME IInv, NEW c \in Caller, RecheckHead(c)
    PROVE  IInv'
<1>1. PICK n : n = work[c].headNumber
  OBVIOUS
<1>2. PICK w : w = AfterCode(work[c], n, TRUE)
  OBVIOUS
<1>3. PICK v : v = [w EXCEPT !.preceding = w.confirmedThrough,
                             !.startBlock = Confirmed(w) + 1]
  OBVIOUS
<1>4. /\ pc[c] = "recheckHead" /\ pc[c] \in WithHead
      /\ UNCHANGED <<chainVars, resolved, answer, goneBefore>>
      /\ CanRead(work[c], n, TRUE) /\ Goto(c, "finalHead", v)
  BY <1>1, <1>2, <1>3 DEF RecheckHead, Discovering, WithHead, Awaits
<1>5. PICK u \in Locals : u = work[c] /\ Shape("recheckHead", u)
  BY <1>4, KnownHead
<1>6. n = u.headNumber /\ n \in Nat /\ FinalityDepth \in Nat /\ n - FinalityDepth \in Nat
  BY <1>1, <1>4, <1>5, KnownHead, HistoryAssumption
     DEF Locals, Shape, Deep, WithHead, Awaits
<1>7. Learned(u, n, w)
  BY <1>2, <1>4, <1>5, <1>6, CallReadCode
<1>8. /\ v \in Locals /\ v.headNumber = n /\ v.head = u.head
      /\ v.confirmedThrough = u.confirmedThrough /\ v.preceding = u.confirmedThrough
      /\ v.startBlock = (n - FinalityDepth) + 1
      /\ v.empty = w.empty /\ v.protocol = w.protocol
      /\ v.deployment = {} /\ v.kind = "pending-confirmation"
  <2>1. Confirmed(w) + 1 = (n - FinalityDepth) + 1 /\ Confirmed(w) + 1 \in Nat
    BY <1>6, <1>7 DEF Learned, Confirmed
  <2>2. w.confirmedThrough \in SUBSET Block
    BY <1>7 DEF Learned, Locals
  <2>3. u.deployment = {} /\ u.kind = "pending-confirmation"
    BY <1>5 DEF Shape, Final
  <2>. QED
    BY <1>3, <1>6, <1>7, <2>1, <2>2, <2>3 DEF Learned, Locals
<1>9. Shape("finalHead", v)
  BY <1>8 DEF Shape, Deep, Searching, Final, WithHead, Awaits
<1>10. ASSUME NEW H \in Ancestors[head], Fits(H, "recheckHead", u), Height[H] = n
       PROVE  Fits(H, "finalHead", v)
  <2>1. CodesFit(H, v)
    BY <1>6, <1>7, <1>8, <1>10 DEF Fits, Learned, CodesFit
  <2>2. H \in Deployed
    BY <1>10 DEF Fits
  <2>3. u.confirmedThrough = At(H, n - FinalityDepth)
    BY <1>6, <1>10 DEF Fits
  <2>4. NoneBelow(H, (n - FinalityDepth) + 1)
    BY <1>6, <1>10 DEF Fits, Confirmed
  <2>5. v.startBlock - 1 = n - FinalityDepth
    BY <1>6, <1>8
  <2>6. DescribesHead(BoundaryOf(H, v))
    BY <1>8, <1>10, <2>2, <2>3, <2>4, <2>5 DEF DescribesHead, BoundaryOf, NoneBelow
  <2>. QED
    BY <1>8, <2>1, <2>2, <2>3, <2>6 DEF Fits, Searching
<1>11. /\ v.head = work[c].head /\ v.headNumber = work[c].headNumber
       /\ \A H \in Ancestors[head] :
             Fits(H, pc[c], work[c]) /\ Height[H] = v.headNumber /\ v.head = {H}
                => Fits(H, "finalHead", v)
  BY <1>4, <1>5, <1>6, <1>8, <1>10
<1>. QED
  BY <1>4, <1>8, <1>9, <1>11, DiscoveryStep DEF WithHead, Awaits

LEMMA SearchCodeKeeps ==
    ASSUME IInv, NEW c \in Caller, SearchCode(c)
    PROVE  IInv'
<1>1. PICK n : n = work[c].low + (work[c].high - work[c].low) \div 2
  OBVIOUS
<1>2. PICK w : w = AfterCode(work[c], n, FALSE)
  OBVIOUS
<1>3. /\ pc[c] = "search" /\ pc[c] \in WithHead
      /\ UNCHANGED <<chainVars, resolved, answer, goneBefore>>
      /\ CanRead(work[c], n, FALSE)
      /\ \/ n \in w.empty /\ Search(c, [w EXCEPT !.low = n + 1])
         \/ n \in w.protocol /\ Search(c, [w EXCEPT !.high = n])
  BY <1>1, <1>2 DEF SearchCode, Discovering, WithHead, Awaits
<1>4. PICK u \in Locals : u = work[c] /\ Shape("search", u)
  BY <1>3, KnownHead
<1>5. /\ u.low \in Nat /\ u.high \in Nat /\ u.headNumber \in Nat
      /\ FinalityDepth \in Nat
      /\ u.low < u.high /\ u.high <= u.headNumber - FinalityDepth
      /\ u.headNumber >= FinalityDepth
  BY <1>4, HistoryAssumption
     DEF Confirmed, Locals, Shape, Deep, Searching, WithHead, Awaits
<1>6. n \in Nat /\ u.low <= n /\ n < u.high
  BY <1>1, <1>4, <1>5
<1>7. Learned(u, n, w)
  BY <1>2, <1>3, <1>4, <1>6, CallReadCode
<1>8. /\ w \in Locals /\ w.low = u.low /\ w.high = u.high
      /\ w.headNumber = u.headNumber /\ w.head = u.head
      /\ w.confirmedThrough = u.confirmedThrough
      /\ w.deployment = {} /\ w.preceding = {}
      /\ w.kind = "pending-confirmation" /\ w.startBlock = 0
  BY <1>4, <1>7 DEF Learned, Shape, Final, Searching
<1>9. ASSUME NEW H \in Ancestors[head], Fits(H, "search", u),
             Height[H] = u.headNumber
      PROVE  /\ H \in Block /\ H \in Deployed /\ CodesFit(H, w) /\ n \in 0 .. Height[H]
             /\ NoneBelow(H, u.low) /\ At(H, u.high) \subseteq Deployed
             /\ w.confirmedThrough = At(H, w.headNumber - FinalityDepth)
  <2>1. H \in Block
    BY <1>3, <1>9, KnownHead, ChainAssumption
  <2>2. n <= Height[H] /\ n \in 0 .. Height[H]
    BY <1>5, <1>6, <1>9
  <2>3. CodesFit(H, w)
    BY <1>7, <1>9, <2>2 DEF Fits, Learned
  <2>. QED
    BY <1>8, <1>9, <2>1, <2>2, <2>3 DEF Fits, Searching, Final
<1>10. CASE n \in w.empty /\ Search(c, [w EXCEPT !.low = n + 1])
  <2>1. PICK v : v = [w EXCEPT !.low = n + 1]
    OBVIOUS
  <2>2. /\ v \in Locals /\ v.low = n + 1 /\ v.high = u.high
        /\ v.headNumber = u.headNumber /\ v.head = u.head
        /\ v.confirmedThrough = w.confirmedThrough
        /\ v.empty = w.empty /\ v.protocol = w.protocol
        /\ v.deployment = {} /\ v.preceding = {}
        /\ v.kind = "pending-confirmation" /\ v.startBlock = 0
    BY <1>6, <1>8, <2>1 DEF Locals
  <2>3. v.low <= v.high /\ v.high <= Confirmed(v)
    BY <1>5, <1>6, <2>2 DEF Confirmed
  <2>4. Shape("search", v) \/ Shape("verifyLow", v)
    BY <1>5, <1>6, <2>2, <2>3 DEF Shape, Deep, Searching, Final, WithHead, Awaits
  <2>5. ASSUME NEW H \in Ancestors[head], Fits(H, "search", u),
               Height[H] = u.headNumber
        PROVE  Fits(H, "search", v)
    <3>1. At(H, n) \cap Deployed = {}
      BY <1>9, <1>10, <2>5 DEF CodesFit
    <3>2. NoneBelow(H, n + 1)
      BY <1>9, <2>5, <3>1, EmptyBelow
    <3>. QED
      BY <1>8, <1>9, <2>2, <2>5, <3>2 DEF Fits, CodesFit, Searching, Final
  <2>6. /\ v.head = work[c].head /\ v.headNumber = work[c].headNumber /\ Search(c, v)
        /\ \A H \in Ancestors[head] :
              Fits(H, pc[c], work[c]) /\ Height[H] = v.headNumber /\ v.head = {H}
                 => Fits(H, "search", v)
    BY <1>3, <1>4, <1>10, <2>1, <2>2, <2>5
  <2>. QED
    BY <1>3, <2>2, <2>4, <2>6, SearchKeeps
<1>11. CASE n \in w.protocol /\ Search(c, [w EXCEPT !.high = n])
  <2>1. PICK v : v = [w EXCEPT !.high = n]
    OBVIOUS
  <2>2. /\ v \in Locals /\ v.low = u.low /\ v.high = n
        /\ v.headNumber = u.headNumber /\ v.head = u.head
        /\ v.confirmedThrough = w.confirmedThrough
        /\ v.empty = w.empty /\ v.protocol = w.protocol
        /\ v.deployment = {} /\ v.preceding = {}
        /\ v.kind = "pending-confirmation" /\ v.startBlock = 0
    BY <1>6, <1>8, <2>1 DEF Locals
  <2>3. v.low <= v.high /\ v.high <= Confirmed(v)
    BY <1>5, <1>6, <2>2 DEF Confirmed
  <2>4. Shape("search", v) \/ Shape("verifyLow", v)
    BY <1>5, <1>6, <2>2, <2>3 DEF Shape, Deep, Searching, Final, WithHead, Awaits
  <2>5. ASSUME NEW H \in Ancestors[head], Fits(H, "search", u),
               Height[H] = u.headNumber
        PROVE  Fits(H, "search", v)
    <3>1. At(H, n) \subseteq Deployed
      BY <1>9, <1>11, <2>5 DEF CodesFit
    <3>. QED
      BY <1>8, <1>9, <2>2, <2>5, <3>1 DEF Fits, CodesFit, Searching, Final
  <2>6. /\ v.head = work[c].head /\ v.headNumber = work[c].headNumber /\ Search(c, v)
        /\ \A H \in Ancestors[head] :
              Fits(H, pc[c], work[c]) /\ Height[H] = v.headNumber /\ v.head = {H}
                 => Fits(H, "search", v)
    BY <1>3, <1>4, <1>11, <2>1, <2>2, <2>5
  <2>. QED
    BY <1>3, <2>2, <2>4, <2>6, SearchKeeps
<1>. QED
  BY <1>3, <1>10, <1>11

LEMMA VerifyLowKeeps ==
    ASSUME IInv, NEW c \in Caller, VerifyLow(c)
    PROVE  IInv'
<1>1. PICK n : n = work[c].low
  OBVIOUS
<1>2. PICK w : w = AfterCode(work[c], n, TRUE)
  OBVIOUS
<1>3. /\ pc[c] = "verifyLow" /\ pc[c] \in WithHead
      /\ UNCHANGED <<chainVars, resolved, answer, goneBefore>>
      /\ CanRead(work[c], n, TRUE) /\ Goto(c, "deployment", w)
  BY <1>1, <1>2 DEF VerifyLow, Discovering, WithHead, Awaits
<1>4. PICK u \in Locals : u = work[c] /\ Shape("verifyLow", u)
  BY <1>3, KnownHead
<1>5. /\ n \in Nat /\ u.headNumber \in Nat /\ FinalityDepth \in Nat /\ n = u.low
      /\ n <= u.headNumber
  BY <1>1, <1>4, HistoryAssumption DEF Confirmed, Locals, Shape, Searching
<1>6. Learned(u, n, w)
  BY <1>2, <1>3, <1>4, <1>5, CallReadCode
<1>7. Shape("deployment", w)
  BY <1>4, <1>6 DEF Learned, Shape, Confirmed, Deep, Searching, Final, WithHead, Awaits
<1>8. ASSUME NEW H \in Ancestors[head], Fits(H, "verifyLow", u),
             Height[H] = u.headNumber
      PROVE  Fits(H, "deployment", w)
  BY <1>5, <1>6, <1>8 DEF Fits, Learned, Searching, Final
<1>9. /\ w \in Locals /\ w.head = work[c].head /\ w.headNumber = work[c].headNumber
      /\ \A H \in Ancestors[head] :
            Fits(H, pc[c], work[c]) /\ Height[H] = w.headNumber /\ w.head = {H}
               => Fits(H, "deployment", w)
  BY <1>3, <1>4, <1>6, <1>8 DEF Learned
<1>. QED
  BY <1>3, <1>7, <1>9, DiscoveryStep DEF WithHead, Awaits

\* A confirmed boundary: the search is over, and the blocks that the boundary
\* names were read.
LEMMA ConfirmedDescribes ==
    ASSUME NEW H \in Block, NEW u \in Locals, Fits(H, "deployment", u),
           u.low = u.high, u.high <= Confirmed(u), Height[H] = u.headNumber,
           NEW w \in Locals, w = ConfirmedAt(u), u.deployment = At(H, u.low),
           u.preceding = At(H, u.low - 1)
    PROVE  Fits(H, "finalHead", w)
<1>1. /\ w.headNumber = u.headNumber /\ w.head = u.head
      /\ w.confirmedThrough = u.confirmedThrough
      /\ w.empty = u.empty /\ w.protocol = u.protocol
      /\ w.deployment = u.deployment /\ w.preceding = u.preceding
      /\ w.kind = "confirmed" /\ w.startBlock = u.low
  BY DEF ConfirmedAt, Locals
<1>2. /\ u.low = u.high /\ u.high <= u.headNumber - FinalityDepth
      /\ u.low \in Nat /\ u.headNumber \in Nat /\ FinalityDepth \in Nat
  BY HistoryAssumption DEF Confirmed, Locals
<1>3. /\ H \in Deployed /\ CodesFit(H, u) /\ NoneBelow(H, u.low)
      /\ At(H, u.high) \subseteq Deployed
      /\ u.confirmedThrough = At(H, u.headNumber - FinalityDepth)
  BY DEF Fits, Searching
<1>4. DescribesHead(BoundaryOf(H, w))
  <2>1. u.low + FinalityDepth <= Height[H]
    BY <1>2
  <2>. QED
    BY <1>1, <1>2, <1>3, <2>1 DEF DescribesHead, BoundaryOf, NoneBelow
<1>. QED
  BY <1>1, <1>3, <1>4 DEF Fits, CodesFit, Searching

LEMMA ReadDeploymentKeeps ==
    ASSUME IInv, NEW c \in Caller, ReadDeployment(c)
    PROVE  IInv'
<1>1. PICK b, w :
         /\ b \in Block /\ w = [work[c] EXCEPT !.deployment = {b}]
         /\ BlockAt(w.low, b)
         /\ \/ w.low > 0 /\ Goto(c, "verifyPreceding", w)
            \/ w.low = 0 /\ Goto(c, "finalHead", ConfirmedAt(w))
  BY DEF ReadDeployment
<1>2. /\ pc[c] = "deployment" /\ pc[c] \in WithHead
      /\ UNCHANGED <<chainVars, resolved, answer, goneBefore>>
  BY DEF ReadDeployment, Discovering, WithHead, Awaits
<1>3. PICK u \in Locals : u = work[c] /\ Shape("deployment", u)
  BY <1>2, KnownHead
<1>4. /\ u.low \in Nat /\ u.headNumber \in Nat /\ FinalityDepth \in Nat
      /\ u.low <= u.headNumber - FinalityDepth /\ head \in Block /\ b \in Block
  BY <1>1, <1>2, <1>3, KnownHead, HistoryAssumption DEF Confirmed, Locals, Shape, Searching
<1>5. /\ w \in Locals /\ w.headNumber = u.headNumber /\ w.head = u.head
      /\ w.confirmedThrough = u.confirmedThrough
      /\ w.low = u.low /\ w.high = u.high
      /\ w.empty = u.empty /\ w.protocol = u.protocol
      /\ w.deployment = {b} /\ w.preceding = {}
      /\ w.kind = "pending-confirmation" /\ w.startBlock = 0
  BY <1>1, <1>3 DEF Locals, Shape, Final
<1>6. ASSUME NEW H \in Ancestors[head], Fits(H, "deployment", u),
             Height[H] = u.headNumber
      PROVE  /\ H \in Block /\ w.deployment = At(H, w.low)
             /\ Fits(H, "verifyPreceding", w)
  <2>1. u.low \in 0 .. Height[H] /\ BlockAt(u.low, b)
    BY <1>1, <1>4, <1>5, <1>6
  <2>2. At(H, u.low) = {b}
    BY <1>4, <2>1, CanonicalBelow
  <2>3. H \in Block
    BY <1>4, ChainAssumption
  <2>. QED
    BY <1>5, <1>6, <2>2, <2>3 DEF Fits, CodesFit, Searching, Final
<1>7. CASE w.low > 0 /\ Goto(c, "verifyPreceding", w)
  <2>1. Shape("verifyPreceding", w)
    BY <1>3, <1>5, <1>7 DEF Shape, Confirmed, Deep, Searching, Final, WithHead, Awaits
  <2>2. /\ w.head = work[c].head /\ w.headNumber = work[c].headNumber
        /\ \A H \in Ancestors[head] :
              Fits(H, pc[c], work[c]) /\ Height[H] = w.headNumber /\ w.head = {H}
                 => Fits(H, "verifyPreceding", w)
    BY <1>2, <1>3, <1>5, <1>6
  <2>. QED
    BY <1>2, <1>5, <1>7, <2>1, <2>2, DiscoveryStep DEF WithHead, Awaits
<1>8. CASE w.low = 0 /\ Goto(c, "finalHead", ConfirmedAt(w))
  <2>1. PICK v : v = ConfirmedAt(w)
    OBVIOUS
  <2>2. v \in Locals /\ v.headNumber = w.headNumber /\ v.head = w.head
    BY <1>5, <2>1 DEF ConfirmedAt, Locals
  <2>3. Shape("finalHead", v)
    BY DEF Shape, Deep, Searching, Final, WithHead, Awaits
  <2>4. ASSUME NEW H \in Ancestors[head], Fits(H, "deployment", u),
               Height[H] = u.headNumber
        PROVE  Fits(H, "finalHead", v)
    <3>1. /\ H \in Block /\ w.deployment = At(H, w.low) /\ Height[H] = w.headNumber
          /\ Fits(H, "deployment", w)
      BY <1>5, <1>6, <2>4 DEF Fits, Searching, Final
    <3>2. At(H, w.low - 1) = {}
      <4>1. \A d \in Ancestors[H] : Height[d] \in Nat
        BY <3>1, ChainAssumption
      <4>. QED
        BY <1>8, <4>1 DEF At
    <3>3. w.low = w.high /\ w.high <= Confirmed(w)
      BY <1>3, <1>5 DEF Shape, Confirmed, Searching
    <3>. QED
      BY <1>5, <2>1, <2>2, <3>1, <3>2, <3>3, ConfirmedDescribes
  <2>5. /\ v.head = work[c].head /\ v.headNumber = work[c].headNumber
        /\ \A H \in Ancestors[head] :
              Fits(H, pc[c], work[c]) /\ Height[H] = v.headNumber /\ v.head = {H}
                 => Fits(H, "finalHead", v)
    BY <1>2, <1>3, <1>5, <2>2, <2>4
  <2>. QED
    BY <1>2, <1>8, <2>1, <2>2, <2>3, <2>5, DiscoveryStep DEF WithHead, Awaits
<1>. QED
  BY <1>1, <1>7, <1>8

LEMMA VerifyPrecedingKeeps ==
    ASSUME IInv, NEW c \in Caller, VerifyPreceding(c)
    PROVE  IInv'
<1>1. PICK n : n = work[c].low - 1
  OBVIOUS
<1>2. PICK w : w = AfterCode(work[c], n, TRUE)
  OBVIOUS
<1>3. /\ pc[c] = "verifyPreceding" /\ pc[c] \in WithHead
      /\ UNCHANGED <<chainVars, resolved, answer, goneBefore>>
      /\ CanRead(work[c], n, TRUE) /\ Goto(c, "preceding", w)
  BY <1>1, <1>2 DEF VerifyPreceding, Discovering, WithHead, Awaits
<1>4. PICK u \in Locals : u = work[c] /\ Shape("verifyPreceding", u)
  BY <1>3, KnownHead
<1>5. /\ n \in Nat /\ u.headNumber \in Nat /\ FinalityDepth \in Nat /\ n = u.low - 1
      /\ n <= u.headNumber
  BY <1>1, <1>4, HistoryAssumption DEF Confirmed, Locals, Shape, Searching
<1>6. Learned(u, n, w)
  BY <1>2, <1>3, <1>4, <1>5, CallReadCode
<1>7. Shape("preceding", w)
  BY <1>4, <1>6 DEF Learned, Shape, Confirmed, Deep, Searching, Final, WithHead, Awaits
<1>8. ASSUME NEW H \in Ancestors[head], Fits(H, "verifyPreceding", u),
             Height[H] = u.headNumber
      PROVE  Fits(H, "preceding", w)
  BY <1>5, <1>6, <1>8 DEF Fits, Learned, Searching, Final
<1>9. /\ w \in Locals /\ w.head = work[c].head /\ w.headNumber = work[c].headNumber
      /\ \A H \in Ancestors[head] :
            Fits(H, pc[c], work[c]) /\ Height[H] = w.headNumber /\ w.head = {H}
               => Fits(H, "preceding", w)
  BY <1>3, <1>4, <1>6, <1>8 DEF Learned
<1>. QED
  BY <1>3, <1>7, <1>9, DiscoveryStep DEF WithHead, Awaits

LEMMA ReadPrecedingKeeps ==
    ASSUME IInv, NEW c \in Caller, ReadPreceding(c)
    PROVE  IInv'
<1>1. PICK b \in Block :
         /\ BlockAt(work[c].low - 1, b)
         /\ Goto(c, "finalHead", ConfirmedAt([work[c] EXCEPT !.preceding = {b}]))
  BY DEF ReadPreceding
<1>2. /\ pc[c] = "preceding" /\ pc[c] \in WithHead
      /\ UNCHANGED <<chainVars, resolved, answer, goneBefore>>
  BY DEF ReadPreceding, Discovering, WithHead, Awaits
<1>3. PICK u \in Locals : u = work[c] /\ Shape("preceding", u)
  BY <1>2, KnownHead
<1>4. /\ u.low \in Nat /\ u.low > 0 /\ u.headNumber \in Nat /\ FinalityDepth \in Nat
      /\ u.low <= u.headNumber - FinalityDepth /\ head \in Block
  BY <1>2, <1>3, KnownHead, HistoryAssumption DEF Confirmed, Locals, Shape, Searching
<1>5. PICK w : w = [u EXCEPT !.preceding = {b}]
  OBVIOUS
<1>6. /\ w \in Locals /\ w.headNumber = u.headNumber /\ w.head = u.head
      /\ w.confirmedThrough = u.confirmedThrough
      /\ w.low = u.low /\ w.high = u.high
      /\ w.empty = u.empty /\ w.protocol = u.protocol
      /\ w.deployment = u.deployment /\ w.preceding = {b}
  BY <1>5 DEF Locals
<1>7. PICK v : v = ConfirmedAt(w)
  OBVIOUS
<1>8. v \in Locals /\ v.headNumber = w.headNumber /\ v.head = w.head
  BY <1>6, <1>7 DEF ConfirmedAt, Locals
<1>9. Shape("finalHead", v)
  BY DEF Shape, Deep, Searching, Final, WithHead, Awaits
<1>10. ASSUME NEW H \in Ancestors[head], Fits(H, "preceding", u),
              Height[H] = u.headNumber
       PROVE  Fits(H, "finalHead", v)
  <2>1. PICK m : m = u.low - 1
    OBVIOUS
  <2>2. m \in 0 .. Height[H] /\ BlockAt(m, b)
    BY <1>1, <1>3, <1>4, <1>10, <2>1
  <2>3. At(H, m) = {b}
    BY <1>4, <2>2, CanonicalBelow
  <2>4. H \in Block /\ u.deployment = At(H, u.low)
    BY <1>4, <1>10, ChainAssumption DEF Fits
  <2>5. Fits(H, "deployment", w)
    BY <1>6, <1>10 DEF Fits, CodesFit, Searching, Final
  <2>6. w.low = w.high /\ w.high <= Confirmed(w)
    BY <1>3, <1>6 DEF Shape, Confirmed, Searching
  <2>7. w.deployment = At(H, w.low) /\ w.preceding = At(H, w.low - 1)
    BY <1>6, <2>1, <2>3, <2>4
  <2>. QED
    BY <1>6, <1>7, <1>8, <1>10, <2>4, <2>5, <2>6, <2>7, ConfirmedDescribes
<1>11. /\ v.head = work[c].head /\ v.headNumber = work[c].headNumber
       /\ Goto(c, "finalHead", v)
       /\ \A H \in Ancestors[head] :
             Fits(H, pc[c], work[c]) /\ Height[H] = v.headNumber /\ v.head = {H}
                => Fits(H, "finalHead", v)
  BY <1>1, <1>2, <1>3, <1>5, <1>6, <1>7, <1>8, <1>10
<1>. QED
  BY <1>2, <1>8, <1>9, <1>11, DiscoveryStep DEF WithHead, Awaits

LEMMA ReadFinalHeadKeeps ==
    ASSUME IInv, NEW c \in Caller, ReadFinalHead(c)
    PROVE  IInv'
<1>1. /\ pc[c] = "finalHead" /\ pc[c] \in WithHead
      /\ UNCHANGED <<chainVars, resolved, answer, goneBefore>>
      /\ Goto(c, "finalBlock", work[c])
  BY DEF ReadFinalHead, Discovering, WithHead, Awaits
<1>2. PICK u \in Locals : u = work[c] /\ Shape("finalHead", u)
  BY <1>1, KnownHead
<1>3. Shape("finalBlock", u)
  BY <1>2 DEF Shape, Deep, Searching, Final, WithHead, Awaits
<1>4. \A H : Fits(H, "finalHead", u) => Fits(H, "finalBlock", u)
  BY DEF Fits, Searching, Final
<1>. QED
  BY <1>1, <1>2, <1>3, <1>4, DiscoveryStep DEF WithHead, Awaits

\* A step of one call that leaves the chain and the other calls alone.
LEMMA OneCall ==
    ASSUME IInv, NEW c \in Caller, UNCHANGED chainVars, TypeOK',
           \A d \in Caller \ {c} :
              /\ pc'[d] = pc[d] /\ work'[d] = work[d]
              /\ answer'[d] = answer[d] /\ goneBefore'[d] = goneBefore[d],
           AtMostOne(resolved'), \A b \in resolved' : DescribesHead(b),
           Sound(c)'
    PROVE  IInv'
<1>1. UNCHANGED <<head, orphaned>>
  BY DEF chainVars
<1>2. NoReturn' /\ AtMostOne(resolved)'
  BY <1>1 DEF IInv, NoReturn, AtMostOne
<1>3. (\A b \in resolved : DescribesHead(b))'
  BY DEF DescribesHead, At
<1>4. ASSUME NEW d \in Caller, d # c  PROVE Sound(d)'
  <2>1. /\ Sound(d) /\ pc'[d] = pc[d] /\ work'[d] = work[d]
        /\ answer'[d] = answer[d] /\ goneBefore'[d] = goneBefore[d]
    BY <1>4 DEF IInv
  <2>2. \A H \in Block : H \in EverCanonical' <=> H \in EverCanonical
    BY <1>1 DEF EverCanonical
  <2>3. AtMostOne(answer[d])'
    BY <2>1 DEF Sound, AtMostOne
  <2>. QED
    BY <1>1, <2>1, <2>2, <2>3 DEF Sound
<1>. QED
  BY <1>2, <1>3, <1>4 DEF IInv

\* The variables of the calls after a step of one of them.
LEMMA CallTypes ==
    ASSUME TypeOK, NEW c \in Caller, NEW await \in Awaits, NEW w \in Locals,
           Goto(c, await, w),
           NEW bs \in SUBSET Boundary, answer' = [answer EXCEPT ![c] = bs],
           NEW gs \in SUBSET Block,
           goneBefore' = [goneBefore EXCEPT ![c] = gs],
           resolved' \subseteq Boundary, UNCHANGED chainVars
    PROVE  /\ TypeOK'
           /\ pc'[c] = await /\ work'[c] = w /\ answer'[c] = bs /\ goneBefore'[c] = gs
           /\ \A d \in Caller \ {c} :
                 /\ pc'[d] = pc[d] /\ work'[d] = work[d]
                 /\ answer'[d] = answer[d] /\ goneBefore'[d] = goneBefore[d]
<1>1. UNCHANGED <<head, orphaned>>
  BY DEF chainVars
<1>2. /\ pc' \in [Caller -> Awaits] /\ work' \in [Caller -> Locals]
      /\ answer' \in [Caller -> SUBSET Boundary]
      /\ goneBefore' \in [Caller -> SUBSET Block]
  BY DEF TypeOK, Goto
<1>. QED
  BY <1>1, <1>2 DEF TypeOK, ChainTypeOK, Goto

LEMMA FreshType == Fresh \in Locals
  BY HistoryAssumption DEF Fresh, Locals

\* Where the call has no head yet, its locals are the fresh ones.
LEMMA FreshCall ==
    ASSUME NEW c \in Caller, IInv, UNCHANGED chainVars, TypeOK',
           pc'[c] \in {"idle", "authenticate", "head", "returned"},
           work'[c] = Fresh,
           \A b \in answer'[c] : DescribesHead(b), AtMostOne(answer'[c]),
           goneBefore'[c] \subseteq orphaned,
           pc'[c] = "returned" => \A b \in answer'[c] : b.head \notin goneBefore'[c]
    PROVE  Sound(c)'
<1>1. orphaned' = orphaned
  BY DEF chainVars
<1>2. AtMostOne(answer[c])' /\ (\A b \in answer[c] : DescribesHead(b))'
  BY DEF AtMostOne, DescribesHead, At
<1>3. pc'[c] \notin WithHead /\ pc'[c] # "headBlock"
  BY DEF WithHead
<1>. QED
  BY <1>1, <1>2, <1>3 DEF Sound

LEMMA ReadFinalBlockKeeps ==
    ASSUME IInv, NEW c \in Caller, ReadFinalBlock(c)
    PROVE  IInv'
<1>1. PICK b, y :
         /\ b \in work[c].head /\ y = BoundaryOf(b, work[c])
         /\ BlockAt(work[c].headNumber, b)
         /\ answer' = [answer EXCEPT ![c] = {y}]
         /\ resolved' = IF work[c].kind = "confirmed" THEN {y} ELSE resolved
  BY DEF ReadFinalBlock, BoundaryOf
<1>2. /\ pc[c] = "finalBlock" /\ pc[c] \in WithHead
      /\ Goto(c, "returned", Fresh) /\ UNCHANGED <<chainVars, goneBefore>>
      /\ UNCHANGED chainVars /\ goneBefore' = goneBefore
  BY DEF ReadFinalBlock, WithHead, Awaits
<1>3. PICK u \in Locals : u = work[c]
  BY <1>2, KnownHead
<1>4. b \in Block /\ b \in Ancestors[head]
  BY <1>1, <1>3 DEF Locals, BlockAt, Canonical
<1>5. Fits(b, "finalBlock", u)
  BY <1>1, <1>2, <1>3, <1>4 DEF IInv, Sound
<1>6. y = BoundaryOf(b, u) /\ DescribesHead(y)
  BY <1>1, <1>3, <1>5 DEF Fits, Final
<1>7. y \in Boundary /\ y.head = b
  BY <1>3, <1>4, <1>6 DEF BoundaryOf, Boundary, Locals
<1>8. /\ TypeOK /\ resolved \subseteq Boundary /\ AtMostOne(resolved)
      /\ \A x \in resolved : DescribesHead(x)
      /\ NoReturn /\ goneBefore[c] \subseteq orphaned /\ goneBefore[c] \in SUBSET Block
      /\ goneBefore' = [goneBefore EXCEPT ![c] = goneBefore[c]]
  BY <1>2 DEF IInv, TypeOK, Sound
<1>9. /\ resolved' \subseteq Boundary /\ AtMostOne(resolved')
      /\ \A x \in resolved' : DescribesHead(x)
  BY <1>1, <1>6, <1>7, <1>8 DEF AtMostOne
<1>10. PICK gs \in SUBSET Block, bs \in SUBSET Boundary :
          gs = goneBefore[c] /\ bs = {y}
  BY <1>7, <1>8
<1>11. /\ TypeOK'
       /\ pc'[c] = "returned" /\ work'[c] = Fresh /\ answer'[c] = bs /\ goneBefore'[c] = gs
       /\ \A d \in Caller \ {c} :
             /\ pc'[d] = pc[d] /\ work'[d] = work[d]
             /\ answer'[d] = answer[d] /\ goneBefore'[d] = goneBefore[d]
  <2>1. answer' = [answer EXCEPT ![c] = bs] /\ goneBefore' = [goneBefore EXCEPT ![c] = gs]
    BY <1>1, <1>8, <1>10
  <2>2. "returned" \in Awaits
    BY DEF Awaits
  <2>. QED
    BY <1>2, <1>8, <1>9, <2>1, <2>2, FreshType, CallTypes
<1>12. b \notin gs
  BY <1>4, <1>8, <1>10 DEF NoReturn
<1>13. Sound(c)'
  <2>1. /\ \A x \in answer'[c] : DescribesHead(x)
        /\ AtMostOne(answer'[c]) /\ goneBefore'[c] \subseteq orphaned
        /\ \A x \in answer'[c] : x.head \notin goneBefore'[c]
    BY <1>6, <1>7, <1>8, <1>10, <1>11, <1>12 DEF AtMostOne
  <2>. QED
    BY <1>2, <1>11, <2>1, FreshCall
<1>. QED
  BY <1>2, <1>9, <1>11, <1>13, OneCall

LEMMA ResolveKeeps ==
    ASSUME IInv, NEW c \in Caller, Resolve(c)
    PROVE  IInv'
<1>1. PICK await : await = IF resolved = {} THEN "head" ELSE "authenticate"
  OBVIOUS
<1>2. /\ Goto(c, await, Fresh)
      /\ answer' = [answer EXCEPT ![c] = resolved]
      /\ goneBefore' = [goneBefore EXCEPT ![c] = orphaned]
      /\ resolved' = resolved /\ UNCHANGED chainVars
  BY <1>1 DEF Resolve
<1>3. /\ TypeOK /\ resolved \in SUBSET Boundary /\ orphaned \in SUBSET Block
      /\ AtMostOne(resolved) /\ \A b \in resolved : DescribesHead(b)
  BY DEF IInv, TypeOK, ChainTypeOK
<1>4. await \in {"head", "authenticate"} /\ await \in Awaits
  BY <1>1 DEF Awaits
<1>5. PICK bs \in SUBSET Boundary, gs \in SUBSET Block : bs = resolved /\ gs = orphaned
  BY <1>3
<1>6. /\ TypeOK'
      /\ pc'[c] = await /\ work'[c] = Fresh /\ answer'[c] = bs /\ goneBefore'[c] = gs
      /\ \A d \in Caller \ {c} :
            /\ pc'[d] = pc[d] /\ work'[d] = work[d]
            /\ answer'[d] = answer[d] /\ goneBefore'[d] = goneBefore[d]
  <2>1. answer' = [answer EXCEPT ![c] = bs] /\ goneBefore' = [goneBefore EXCEPT ![c] = gs]
    BY <1>2, <1>5
  <2>. QED
    BY <1>2, <1>3, <1>4, <2>1, FreshType, CallTypes
<1>7. Sound(c)'
  <2>1. /\ pc'[c] \in {"idle", "authenticate", "head", "returned"} /\ pc'[c] # "returned"
        /\ \A b \in answer'[c] : DescribesHead(b)
        /\ AtMostOne(answer'[c]) /\ goneBefore'[c] \subseteq orphaned
    BY <1>3, <1>4, <1>5, <1>6
  <2>. QED
    BY <1>2, <1>6, <2>1, FreshCall
<1>. QED
  BY <1>2, <1>3, <1>6, <1>7, OneCall

LEMMA AuthenticateKeeps ==
    ASSUME IInv, NEW c \in Caller, Authenticate(c)
    PROVE  IInv'
<1>1. PICK await, bs :
         /\ Goto(c, await, Fresh)
         /\ answer' = [answer EXCEPT ![c] = bs]
         /\ \/ /\ await = "returned" /\ bs = answer[c] /\ resolved' = resolved
               /\ \E b \in answer[c] : BlockAt(Height[b.head], b.head)
            \/ await = "head" /\ bs = {} /\ resolved' = {}
  <2>1. CASE /\ \E b \in answer[c] : BlockAt(Height[b.head], b.head)
             /\ Goto(c, "returned", Fresh) /\ UNCHANGED <<resolved, answer>>
    <3>1. answer' = [answer EXCEPT ![c] = answer[c]]
      BY <2>1 DEF IInv, TypeOK
    <3>. QED
      BY <2>1, <3>1
  <2>2. CASE /\ Goto(c, "head", Fresh) /\ resolved' = {}
             /\ answer' = [answer EXCEPT ![c] = {}]
    BY <2>2
  <2>. QED
    BY <2>1, <2>2 DEF Authenticate
<1>2. UNCHANGED chainVars /\ goneBefore' = goneBefore
  BY DEF Authenticate
<1>3. /\ TypeOK /\ resolved \in SUBSET Boundary /\ AtMostOne(resolved)
      /\ \A b \in resolved : DescribesHead(b)
      /\ answer[c] \in SUBSET Boundary /\ AtMostOne(answer[c])
      /\ \A b \in answer[c] : DescribesHead(b)
      /\ NoReturn /\ goneBefore[c] \subseteq orphaned /\ goneBefore[c] \in SUBSET Block
      /\ goneBefore' = [goneBefore EXCEPT ![c] = goneBefore[c]]
  BY <1>2 DEF IInv, TypeOK, Sound
<1>4. /\ await \in Awaits /\ await \in {"head", "returned"} /\ bs \in SUBSET Boundary
      /\ resolved' \subseteq Boundary /\ AtMostOne(resolved')
      /\ \A b \in resolved' : DescribesHead(b)
      /\ AtMostOne(bs) /\ \A b \in bs : DescribesHead(b)
  BY <1>1, <1>3 DEF Awaits, AtMostOne
<1>5. PICK gs \in SUBSET Block : gs = goneBefore[c]
  BY <1>3
<1>6. /\ TypeOK'
      /\ pc'[c] = await /\ work'[c] = Fresh /\ answer'[c] = bs /\ goneBefore'[c] = gs
      /\ \A d \in Caller \ {c} :
            /\ pc'[d] = pc[d] /\ work'[d] = work[d]
            /\ answer'[d] = answer[d] /\ goneBefore'[d] = goneBefore[d]
  <2>1. goneBefore' = [goneBefore EXCEPT ![c] = gs]
    BY <1>3, <1>5
  <2>. QED
    BY <1>1, <1>2, <1>3, <1>4, <2>1, FreshType, CallTypes
\* A block that is canonical now was not abandoned before.
<1>7. ASSUME await = "returned", NEW b \in bs  PROVE b.head \notin gs
  BY <1>1, <1>3, <1>5, <1>7 DEF BlockAt, Canonical, NoReturn, AtMostOne
<1>8. Sound(c)'
  <2>1. /\ pc'[c] \in {"idle", "authenticate", "head", "returned"}
        /\ \A b \in answer'[c] : DescribesHead(b)
        /\ AtMostOne(answer'[c]) /\ goneBefore'[c] \subseteq orphaned
        /\ pc'[c] = "returned" => \A b \in answer'[c] : b.head \notin goneBefore'[c]
    BY <1>3, <1>4, <1>5, <1>6, <1>7
  <2>. QED
    BY <1>2, <1>6, <2>1, FreshCall
<1>. QED
  BY <1>2, <1>4, <1>6, <1>8, OneCall

LEMMA EndKeeps ==
    ASSUME IInv, NEW c \in Caller, Take(c) \/ Fail(c)
    PROVE  IInv'
<1>1. /\ Goto(c, "idle", Fresh)
      /\ answer' = [answer EXCEPT ![c] = {}]
      /\ goneBefore' = [goneBefore EXCEPT ![c] = {}]
      /\ resolved' = resolved /\ UNCHANGED chainVars
  BY DEF Take, Fail
<1>2. /\ TypeOK /\ resolved \in SUBSET Boundary /\ AtMostOne(resolved)
      /\ \A b \in resolved : DescribesHead(b)
  BY DEF IInv, TypeOK
<1>3. PICK none \in SUBSET Boundary, gs \in SUBSET Block : none = {} /\ gs = {}
  OBVIOUS
<1>4. /\ TypeOK'
      /\ pc'[c] = "idle" /\ work'[c] = Fresh /\ answer'[c] = none /\ goneBefore'[c] = gs
      /\ \A d \in Caller \ {c} :
            /\ pc'[d] = pc[d] /\ work'[d] = work[d]
            /\ answer'[d] = answer[d] /\ goneBefore'[d] = goneBefore[d]
  <2>1. answer' = [answer EXCEPT ![c] = none] /\ goneBefore' = [goneBefore EXCEPT ![c] = gs]
    BY <1>1, <1>3
  <2>2. "idle" \in Awaits
    BY DEF Awaits
  <2>. QED
    BY <1>1, <1>2, <2>1, <2>2, FreshType, CallTypes
<1>5. Sound(c)'
  <2>1. /\ \A b \in answer'[c] : DescribesHead(b)
        /\ AtMostOne(answer'[c]) /\ goneBefore'[c] \subseteq orphaned
    BY <1>3, <1>4 DEF AtMostOne
  <2>. QED
    BY <1>1, <1>4, <2>1, FreshCall
<1>. QED
  BY <1>1, <1>2, <1>4, <1>5, OneCall

\* The chain moves on: a head that is left behind stays behind, so what was
\* read on its branch is never asked for again.
LEMMA ReorganizeKeeps ==
    ASSUME IInv, Reorganize
    PROVE  IInv'
<1>1. PICK b \in Block :
         /\ Ancestors[b] \cap orphaned = {}
         /\ head' = b
         /\ orphaned' = orphaned \cup (Ancestors[head] \ Ancestors[b])
  BY DEF Reorganize, MoveHead
<1>2. /\ resolved' = resolved /\ pc' = pc /\ work' = work
      /\ answer' = answer /\ goneBefore' = goneBefore
  BY DEF Reorganize, callVars
<1>3. head \in Block /\ Ancestors[head] \subseteq Block /\ orphaned \subseteq Block
  BY ChainAssumption DEF IInv, TypeOK, ChainTypeOK
<1>4. TypeOK'
  BY <1>1, <1>2, <1>3 DEF IInv, TypeOK, ChainTypeOK
<1>5. NoReturn' /\ AtMostOne(resolved)'
  BY <1>1, <1>2 DEF NoReturn, IInv, AtMostOne
<1>6. (\A x \in resolved : DescribesHead(x))'
  BY <1>2 DEF IInv, DescribesHead, At
<1>7. ASSUME NEW H \in Block, H \in EverCanonical
      PROVE  H \in EverCanonical' /\ (H \in Ancestors[head'] => H \in Ancestors[head])
  BY <1>1, <1>7 DEF EverCanonical
<1>8. ASSUME NEW d \in Caller  PROVE Sound(d)'
  <2>1. Sound(d) /\ AtMostOne(answer[d])'
    BY <1>2 DEF IInv, Sound, AtMostOne
  <2>2. (\A x \in answer[d] : DescribesHead(x))' /\ goneBefore'[d] \subseteq orphaned'
    BY <1>1, <1>2, <2>1 DEF Sound, DescribesHead, At
  <2>3. ASSUME pc[d] \in WithHead
        PROVE  \E H \in Block :
                  /\ work[d].head = {H}
                  /\ Height[H] = work[d].headNumber
                  /\ H \in Ancestors[head'] => Fits(H, pc[d], work[d])
                  /\ H \in EverCanonical'
    BY <1>7, <2>1, <2>3 DEF Sound
  <2>. QED
    BY <1>2, <2>1, <2>2, <2>3 DEF Sound
<1>. QED
  BY <1>4, <1>5, <1>6, <1>8 DEF IInv

-----------------------------------------------------------------------------
(* The theorems.                                                            *)

LEMMA InitInvariant == Init => IInv
<1>. SUFFICES ASSUME Init  PROVE IInv
  OBVIOUS
<1>1. TypeOK
  <2>1. /\ pc \in [Caller -> Awaits] /\ work \in [Caller -> Locals]
        /\ answer \in [Caller -> SUBSET Boundary]
        /\ goneBefore \in [Caller -> SUBSET Block]
    BY FreshType DEF Init, Awaits
  <2>. QED
    BY <2>1 DEF Init, ChainInit, TypeOK, ChainTypeOK
<1>2. NoReturn /\ AtMostOne(resolved)
  BY DEF Init, ChainInit, NoReturn, AtMostOne
<1>3. ASSUME NEW c \in Caller  PROVE Sound(c)
  BY DEF Init, Sound, AtMostOne, WithHead
<1>. QED
  BY <1>1, <1>2, <1>3 DEF IInv, Init

LEMMA NextInvariant == IInv /\ [Next]_vars => IInv'
<1>. SUFFICES ASSUME IInv, [Next]_vars  PROVE IInv'
  OBVIOUS
<1>1. ASSUME NEW c \in Caller, Step(c)  PROVE IInv'
  BY <1>1, AuthenticateKeeps, ReadHeadKeeps, ReadHeadCodeKeeps,
     ReadConfirmedBlockKeeps, ReadConfirmedCodeKeeps, RecheckConfirmedKeeps,
     RecheckHeadKeeps, SearchCodeKeeps, VerifyLowKeeps, ReadDeploymentKeeps,
     VerifyPrecedingKeeps, ReadPrecedingKeeps, ReadFinalHeadKeeps,
     ReadFinalBlockKeeps DEF Step
<1>2. ASSUME UNCHANGED vars  PROVE IInv'
  <2>1. /\ head' = head /\ orphaned' = orphaned /\ resolved' = resolved /\ pc' = pc
        /\ work' = work /\ answer' = answer /\ goneBefore' = goneBefore
    BY <1>2 DEF vars, callVars, chainVars
  <2>. QED
    BY <2>1 DEF IInv, TypeOK, ChainTypeOK, NoReturn, AtMostOne, Sound,
       EverCanonical, DescribesHead, At
<1>. QED
  BY <1>1, <1>2, ResolveKeeps, EndKeeps, ReorganizeKeeps DEF Next

\* Whatever the chain does during the discoveries, what each call has read is
\* so on the branch of the head it began with, as long as that is canonical.
THEOREM HistoryInvariant == Spec => []IInv
  BY InitInvariant, NextInvariant, PTL DEF Spec

\* Every variable has its type.
THEOREM TypeCorrect == Spec => []TypeOK
<1>1. IInv => TypeOK
  BY DEF IInv
<1>. QED
  BY <1>1, HistoryInvariant, PTL

\* A boundary that is answered or kept is that of its head's branch: nothing
\* is deployed before it, and its blocks are that branch's.
THEOREM BoundariesDescribeTheirHead == Spec => []BoundaryDescribesHead
<1>1. IInv => BoundaryDescribesHead
  BY DEF IInv, Sound, BoundaryDescribesHead
<1>. QED
  BY <1>1, HistoryInvariant, PTL

\* No call answers with a branch that was abandoned before the call.
THEOREM AnswersAreCurrent == Spec => []AnswerIsCurrent
<1>1. IInv => AnswerIsCurrent
  BY DEF IInv, Sound, AnswerIsCurrent
<1>. QED
  BY <1>1, HistoryInvariant, PTL

-----------------------------------------------------------------------------
(* Powers of two.                                                           *)

\* A set of numbers has a least one.
LEMMA LeastNumber ==
    ASSUME NEW T \in SUBSET Nat, T # {}
    PROVE  \E x \in T : \A y \in T : x <= y
<1>. DEFINE R == OpToRel(<, Nat)
<1>1. IsWellFoundedOn(R, Nat)
  BY NatLessThanWellFounded
<1>2. \A x, y \in Nat : <<x, y>> \in R <=> x < y
  BY DEF OpToRel
<1>. HIDE DEF R
<1>3. PICK x \in T : \A y \in T : ~ (<<y, x>> \in R)
  BY <1>1, WFMin
<1>4. ASSUME NEW y \in T  PROVE x <= y
  <2>1. x \in Nat /\ y \in Nat
    OBVIOUS
  <2>2. ~ (y < x)
    BY <1>2, <1>3, <2>1
  <2>. QED
    BY <2>1, <2>2
<1>. QED
  BY <1>4

\* g has the powers of two up to the n-th.
PowersUpTo(g, n) ==
    /\ g \in [0 .. n -> Nat]
    /\ g[0] = 1
    /\ \A i \in 1 .. n : g[i] = 2 * g[i - 1]

\* There are powers of two up to every n.
LEMMA PowersExist == \A n \in Nat : \E g : PowersUpTo(g, n)
<1>. DEFINE T == {n \in Nat : ~ \E g : PowersUpTo(g, n)}
<1>. SUFFICES ASSUME T # {}  PROVE FALSE
  OBVIOUS
<1>1. PICK m \in T : \A y \in T : m <= y
  <2>. T \in SUBSET Nat
    OBVIOUS
  <2>. HIDE DEF T
  <2>. QED
    BY LeastNumber
<1>2. CASE m = 0
  <2>1. PowersUpTo([i \in 0 .. 0 |-> 1], 0)
    BY DEF PowersUpTo
  <2>. QED
    BY <1>2, <2>1
<1>3. CASE m # 0
  <2>1. m - 1 \in Nat /\ m - 1 \notin T
    BY <1>1, <1>3
  <2>2. PICK g : PowersUpTo(g, m - 1)
    BY <2>1
  <2>. DEFINE h == [i \in 0 .. m |-> IF i = m THEN 2 * g[m - 1] ELSE g[i]]
  <2>3. g[m - 1] \in Nat /\ g \in [0 .. m - 1 -> Nat]
    BY <2>1, <2>2 DEF PowersUpTo
  <2>4. h \in [0 .. m -> Nat]
    BY <2>1, <2>3
  <2>5. h[0] = 1
    BY <1>3, <2>1, <2>2 DEF PowersUpTo
  <2>6. ASSUME NEW i \in 1 .. m  PROVE h[i] = 2 * h[i - 1]
    <3>1. /\ m \in Nat /\ i \in 0 .. m /\ i - 1 \in 0 .. m
          /\ i - 1 # m /\ h[i - 1] = g[i - 1]
      BY <2>1
    <3>2. CASE i = m
      BY <3>1, <3>2
    <3>3. CASE i # m
      <4>1. i \in 1 .. m - 1 /\ h[i] = g[i]
        BY <3>1, <3>3
      <4>. QED
        BY <2>2, <3>1, <4>1 DEF PowersUpTo
    <3>. QED
      BY <3>2, <3>3
  <2>7. PowersUpTo(h, m)
    BY <2>4, <2>5, <2>6 DEF PowersUpTo
  <2>. QED
    BY <2>7
<1>. QED
  BY <1>2, <1>3

\* Two such functions agree where both are defined.
LEMMA PowersAgree ==
    ASSUME NEW n \in Nat, NEW m \in Nat, NEW g, NEW h,
           PowersUpTo(g, n), PowersUpTo(h, m), n <= m
    PROVE  \A i \in 0 .. n : g[i] = h[i]
<1>. DEFINE T == {i \in 0 .. n : g[i] # h[i]}
<1>. SUFFICES ASSUME T # {}  PROVE FALSE
  OBVIOUS
<1>1. PICK k \in T : \A y \in T : k <= y
  <2>. T \in SUBSET Nat
    OBVIOUS
  <2>. HIDE DEF T
  <2>. QED
    BY LeastNumber
<1>2. k # 0
  BY DEF PowersUpTo
<1>3. k - 1 \in 0 .. n /\ k - 1 \notin T
  BY <1>1, <1>2
<1>4. g[k - 1] = h[k - 1]
  BY <1>3
<1>5. k \in 1 .. n /\ k \in 1 .. m
  BY <1>2
<1>6. g[k] = 2 * g[k - 1] /\ h[k] = 2 * h[k - 1]
  BY <1>5 DEF PowersUpTo
<1>. QED
  BY <1>4, <1>6

\* The powers of two are what their definition says.
LEMMA PowersOfTwo ==
    /\ Pow2[0] = 1
    /\ \A n \in Nat : Pow2[n] \in Nat /\ Pow2[n + 1] = 2 * Pow2[n]
<1>. DEFINE up[n \in Nat] == CHOOSE g : PowersUpTo(g, n)
            f == [n \in Nat |-> up[n][n]]
<1>1. \A n \in Nat : PowersUpTo(up[n], n)
  BY PowersExist
<1>. HIDE DEF up
<1>2. f[0] = 1 /\ \A n \in Nat : f[n] \in Nat
  BY <1>1 DEF PowersUpTo
<1>3. ASSUME NEW n \in Nat, n # 0  PROVE f[n] = 2 * f[n - 1]
  <2>1. n - 1 \in Nat /\ n - 1 \in 0 .. n - 1 /\ n \in 1 .. n
    BY <1>3
  <2>2. PowersUpTo(up[n], n) /\ PowersUpTo(up[n - 1], n - 1)
    BY <1>1, <2>1
  <2>3. up[n - 1][n - 1] = up[n][n - 1]
    BY <2>1, <2>2, PowersAgree
  <2>4. up[n][n] = 2 * up[n][n - 1]
    BY <2>1, <2>2 DEF PowersUpTo
  <2>. QED
    BY <2>1, <2>3, <2>4
<1>4. f = [n \in Nat |-> IF n = 0 THEN 1 ELSE 2 * f[n - 1]]
  <2>1. \A n \in Nat : f[n] = IF n = 0 THEN 1 ELSE 2 * f[n - 1]
    BY <1>2, <1>3
  <2>2. f = [n \in Nat |-> f[n]]
    OBVIOUS
  <2>. HIDE DEF f
  <2>. QED
    BY <2>1, <2>2
<1>. HIDE DEF f
<1>5. Pow2 = [n \in Nat |-> IF n = 0 THEN 1 ELSE 2 * Pow2[n - 1]]
  BY <1>4 DEF Pow2
<1>6. Pow2[0] = 1
  BY <1>5
<1>7. \A n \in Nat : Pow2[n + 1] = 2 * Pow2[n]
  <2>. SUFFICES ASSUME NEW n \in Nat  PROVE Pow2[n + 1] = 2 * Pow2[n]
    OBVIOUS
  <2>1. n + 1 \in Nat /\ n + 1 # 0 /\ (n + 1) - 1 = n
    OBVIOUS
  <2>. QED
    BY <1>5, <2>1
<1>8. \A n \in Nat : Pow2[n] \in Nat
  <2>. DEFINE T == {n \in Nat : Pow2[n] \notin Nat}
  <2>. SUFFICES ASSUME T # {}  PROVE FALSE
    OBVIOUS
  <2>1. PICK m \in T : \A y \in T : m <= y
    <3>. T \in SUBSET Nat
      OBVIOUS
    <3>. HIDE DEF T
    <3>. QED
      BY LeastNumber
  <2>2. m # 0
    BY <1>6
  <2>3. m - 1 \in Nat /\ m - 1 \notin T /\ (m - 1) + 1 = m
    BY <2>1, <2>2
  <2>4. Pow2[m] = 2 * Pow2[m - 1] /\ Pow2[m - 1] \in Nat
    BY <1>7, <2>3
  <2>. QED
    BY <2>4
<1>. QED
  BY <1>6, <1>7, <1>8
-----------------------------------------------------------------------------
(* The number of probes.                                                    *)

\* A power of two with k probes left out of the count fits the chain.
Halved(w, k) == w.codeProbes >= k => Pow2[w.codeProbes - k] <= Confirmed(w)

\* What the probes so far have achieved at each await.
Budget(await, w) ==
    /\ await \notin Deep \cup Final => w.codeProbes = 0
    /\ await \in {"confirmedBlock", "confirmedCode"} => w.codeProbes <= 1
    /\ await = "recheckConfirmed" => w.codeProbes <= 2
    /\ await = "recheckHead" => w.codeProbes <= 3
    /\ await = "search" /\ w.codeProbes >= 2 =>
          Pow2[w.codeProbes - 2] * (w.high - w.low) <= Confirmed(w)
    /\ await = "verifyLow" => Halved(w, 3)
    /\ await \in {"deployment", "verifyPreceding"} => Halved(w, 4)
    /\ await \in {"preceding"} \cup Final => Halved(w, 5)

Budgets == \A c \in Caller : Budget(pc[c], work[c])

\* Reading a code costs at most one probe.
LEMMA CodeCosts ==
    ASSUME NEW w \in Locals, NEW n, NEW refresh
    PROVE  LET v == AfterCode(w, n, refresh) IN
           /\ v.codeProbes \in {w.codeProbes, w.codeProbes + 1}
           /\ w.codeProbes \in Nat /\ w.headNumber \in Nat
           /\ v.headNumber = w.headNumber /\ v.low = w.low /\ v.high = w.high
<1>1. w.codeProbes \in Nat /\ w.headNumber \in Nat
  BY HistoryAssumption DEF Locals
<1>2. CASE ~ Probes(w, n, refresh)
  BY <1>1, <1>2 DEF AfterCode
<1>3. CASE Probes(w, n, refresh)
  BY <1>1, <1>3 DEF AfterCode, Locals
<1>. QED
  BY <1>2, <1>3

\* One more read needs one more probe, at most.
LEMMA HalvedOn ==
    ASSUME NEW k \in Nat, NEW w, NEW v, Halved(w, k),
           w.codeProbes \in Nat, v.codeProbes \in {w.codeProbes, w.codeProbes + 1},
           v.headNumber = w.headNumber, w.headNumber \in Nat
    PROVE  Halved(v, k + 1)
<1>1. Confirmed(v) = Confirmed(w) /\ Confirmed(w) \in Int
  BY HistoryAssumption DEF Confirmed
<1>. SUFFICES ASSUME v.codeProbes >= k + 1
              PROVE  Pow2[v.codeProbes - (k + 1)] <= Confirmed(w)
  BY <1>1 DEF Halved
<1>2. w.codeProbes >= k /\ Pow2[w.codeProbes - k] <= Confirmed(w)
  BY DEF Halved
<1>3. CASE v.codeProbes = w.codeProbes + 1
  <2>1. v.codeProbes - (k + 1) = w.codeProbes - k
    BY <1>3
  <2>. QED
    BY <1>2, <2>1
<1>4. CASE v.codeProbes = w.codeProbes
  <2>1. PICK m \in Nat : m = v.codeProbes - (k + 1) /\ m + 1 = w.codeProbes - k
    BY <1>4
  <2>2. Pow2[m] \in Nat /\ Pow2[m + 1] = 2 * Pow2[m]
    BY PowersOfTwo
  <2>. QED
    BY <1>1, <1>2, <2>1, <2>2
<1>. QED
  BY <1>3, <1>4

\* Half of the blocks twice is no more than all of them.
LEMMA HalfFits ==
    ASSUME NEW a \in Nat, NEW width \in Nat, NEW half \in Nat, NEW n \in Int,
           a * width <= n, 2 * half <= width
    PROVE  (2 * a) * half <= n
<1>1. a * (2 * half) <= a * width
  BY SMTT(30)
<1>2. (2 * a) * half = a * (2 * half)
  BY SMTT(30)
<1>3. a * width \in Nat /\ a * (2 * half) \in Nat
  OBVIOUS
<1>. QED
  BY <1>1, <1>2, <1>3

\* A step of one call within its budget.
LEMMA BudgetStep ==
    ASSUME IInv, Budgets, NEW c \in Caller, NEW await, NEW w,
           Goto(c, await, w), Budget(await, w)
    PROVE  Budgets'
<1>1. pc'[c] = await /\ work'[c] = w
  BY DEF IInv, TypeOK, Goto
<1>2. \A d \in Caller \ {c} : pc'[d] = pc[d] /\ work'[d] = work[d]
  BY DEF IInv, TypeOK, Goto
<1>3. ASSUME NEW d \in Caller  PROVE Budget(pc'[d], work'[d])
  BY <1>1, <1>2 DEF Budgets
<1>4. \A d \in Caller : Budget(pc[d], work[d])' = Budget(pc'[d], work'[d])
  BY DEF Budget, Halved, Confirmed
<1>. QED
  BY <1>3, <1>4 DEF Budgets

\* Without a probe every await is within its budget.
LEMMA NoProbes ==
    ASSUME NEW await, NEW w, w.codeProbes = 0
    PROVE  Budget(await, w)
  BY DEF Budget, Halved

\* Where a call begins again or is over, its locals are the fresh ones.
LEMMA FreshBudget ==
    ASSUME IInv, Budgets, NEW c \in Caller, NEW await, Goto(c, await, Fresh)
    PROVE  Budgets'
  BY NoProbes, BudgetStep DEF Fresh

\* The reads before the search cost one probe each.
LEMMA FewProbes ==
    ASSUME IInv, Budgets, NEW c \in Caller,
           ReadHead(c) \/ ReadHeadBlock(c) \/ ReadHeadCode(c) \/ ReadConfirmedBlock(c)
              \/ RecheckConfirmed(c) \/ RecheckHead(c)
    PROVE  Budgets'
<1>1. work[c] \in Locals /\ Budget(pc[c], work[c])
  BY DEF IInv, TypeOK, Budgets
<1>2. PICK u \in Locals : u = work[c] /\ Budget(pc[c], u)
  BY <1>1
<1>3. CASE ReadHead(c)
  <2>1. PICK n : pc[c] = "head" /\ Goto(c, "headBlock", [u EXCEPT !.headNumber = n])
    BY <1>2, <1>3 DEF ReadHead, Discovering
  <2>2. [u EXCEPT !.headNumber = n].codeProbes = 0
    BY <1>2, <2>1 DEF Budget, Deep, Final, WithHead, Locals
  <2>. QED
    BY <2>1, <2>2, NoProbes, BudgetStep
<1>4. CASE ReadHeadBlock(c)
  <2>1. PICK b : pc[c] = "headBlock" /\ Goto(c, "headCode", [u EXCEPT !.head = {b}])
    BY <1>2, <1>4 DEF ReadHeadBlock, Discovering
  <2>2. [u EXCEPT !.head = {b}].codeProbes = 0
    BY <1>2, <2>1 DEF Budget, Deep, Final, WithHead, Locals
  <2>. QED
    BY <2>1, <2>2, NoProbes, BudgetStep
<1>5. CASE ReadHeadCode(c)
  <2>. DEFINE w == AfterCode(u, u.headNumber, FALSE)
              v == [w EXCEPT !.confirmedThrough = w.head]
  <2>1. /\ pc[c] = "headCode"
        /\ \/ Goto(c, "finalHead", w)
           \/ Goto(c, "confirmedBlock", w)
           \/ Goto(c, "confirmedCode", v)
    BY <1>2, <1>5 DEF ReadHeadCode, Discovering
  <2>2. w.codeProbes \in {u.codeProbes, u.codeProbes + 1}
    BY CodeCosts
  <2>3. u.codeProbes = 0
    BY <1>2, <2>1 DEF Budget, Deep, Final
  <2>4. w.codeProbes \in {0, 1} /\ v.codeProbes \in {0, 1}
    <3>1. v.codeProbes = w.codeProbes
      BY DEF AfterCode, Locals
    <3>. HIDE DEF w, v
    <3>. QED
      BY <2>2, <2>3, <3>1
  <2>. HIDE DEF w, v
  <2>5. /\ Budget("finalHead", w) /\ Budget("confirmedBlock", w)
        /\ Budget("confirmedCode", v)
    BY <2>4 DEF Budget, Halved, Deep, Final, WithHead, Awaits
  <2>. QED
    BY <2>1, <2>5, BudgetStep
<1>6. CASE ReadConfirmedBlock(c)
  <2>1. PICK b : pc[c] = "confirmedBlock"
                 /\ Goto(c, "confirmedCode", [u EXCEPT !.confirmedThrough = {b}])
    BY <1>2, <1>6 DEF ReadConfirmedBlock, Discovering
  <2>. DEFINE w == [u EXCEPT !.confirmedThrough = {b}]
  <2>2. w.codeProbes = u.codeProbes /\ u.codeProbes <= 1
    BY <1>2, <2>1 DEF Budget, Locals
  <2>. HIDE DEF w
  <2>3. Budget("confirmedCode", w)
    BY <2>2 DEF Budget, Deep, Final, WithHead, Awaits
  <2>. QED
    BY <2>1, <2>3, BudgetStep DEF w
<1>7. CASE RecheckConfirmed(c)
  <2>. DEFINE w == AfterCode(u, Confirmed(u), TRUE)
  <2>1. pc[c] = "recheckConfirmed" /\ Goto(c, "recheckHead", w)
    BY <1>2, <1>7 DEF RecheckConfirmed, Discovering
  <2>2. w.codeProbes \in {u.codeProbes, u.codeProbes + 1} /\ u.codeProbes \in Nat
    BY CodeCosts
  <2>3. u.codeProbes <= 2
    BY <1>2, <2>1 DEF Budget
  <2>. HIDE DEF w
  <2>4. Budget("recheckHead", w)
    BY <2>2, <2>3 DEF Budget, Deep, Final, WithHead, Awaits
  <2>. QED
    BY <2>1, <2>4, BudgetStep
<1>8. CASE RecheckHead(c)
  <2>. DEFINE w == AfterCode(u, u.headNumber, TRUE)
              v == [w EXCEPT !.preceding = w.confirmedThrough, !.startBlock = Confirmed(w) + 1]
  <2>1. pc[c] = "recheckHead" /\ Goto(c, "finalHead", v)
    BY <1>2, <1>8 DEF RecheckHead, Discovering
  <2>2. w.codeProbes \in {u.codeProbes, u.codeProbes + 1} /\ u.codeProbes \in Nat
    BY CodeCosts
  <2>3. u.codeProbes <= 3
    BY <1>2, <2>1 DEF Budget
  <2>4. v.codeProbes = w.codeProbes
    BY DEF AfterCode, Locals
  <2>. HIDE DEF w, v
  <2>5. v.codeProbes \in Nat /\ v.codeProbes < 5
    BY <2>2, <2>3, <2>4
  <2>6. Budget("finalHead", v)
    BY <2>5 DEF Budget, Halved, Deep, Final, WithHead, Awaits
  <2>. QED
    BY <2>1, <2>6, BudgetStep
<1>. QED
  BY <1>3, <1>4, <1>5, <1>6, <1>7, <1>8

\* Each probe of the search halves what is left of the chain.
LEMMA SearchProbes ==
    ASSUME IInv, Budgets, NEW c \in Caller, ReadConfirmedCode(c) \/ SearchCode(c)
    PROVE  Budgets'
<1>1. work[c] \in Locals /\ Budget(pc[c], work[c])
  BY DEF IInv, TypeOK, Budgets
<1>2. PICK u \in Locals : u = work[c] /\ Budget(pc[c], u)
  BY <1>1
<1>h. FinalityDepth \in Nat /\ pc[c] \in WithHead /\ Shape(pc[c], u)
  <2>1. pc[c] \in WithHead
    BY DEF ReadConfirmedCode, SearchCode, Discovering, WithHead, Awaits
  <2>. QED
    BY <1>2, <2>1, KnownHead
<1>3. CASE ReadConfirmedCode(c)
  <2>. DEFINE n == Confirmed(u)
              w == AfterCode(u, n, FALSE)
              v == [w EXCEPT !.low = 0, !.high = n]
  <2>1. /\ pc[c] = "confirmedCode"
        /\ \/ Goto(c, "recheckConfirmed", w)
           \/ Search(c, v)
    BY <1>2, <1>3 DEF ReadConfirmedCode, Discovering
  <2>2. /\ w.codeProbes \in {u.codeProbes, u.codeProbes + 1} /\ u.codeProbes \in Nat
        /\ u.headNumber \in Nat /\ w.headNumber = u.headNumber
    BY CodeCosts
  <2>3. u.codeProbes <= 1
    BY <1>2, <2>1 DEF Budget
  <2>4. /\ v.codeProbes = w.codeProbes /\ v.low = 0 /\ v.high = n
        /\ v.headNumber = w.headNumber
    BY DEF AfterCode, Locals
  <2>5. n \in Int /\ Confirmed(v) = n
    <3>1. n = u.headNumber - FinalityDepth
      BY DEF Confirmed
    <3>. HIDE DEF w, v, n
    <3>. QED
      BY <1>h, <2>2, <2>4, <3>1 DEF Confirmed
  <2>. HIDE DEF w, v, n
  <2>6. w.codeProbes \in Nat /\ w.codeProbes <= 2 /\ v.codeProbes \in Nat /\ v.codeProbes <= 2
    BY <2>2, <2>3, <2>4
  <2>7. Budget("recheckConfirmed", w)
    BY <2>6 DEF Budget, Deep, Final, WithHead, Awaits
  <2>8. Budget("verifyLow", v)
    BY <2>6 DEF Budget, Halved, Deep, Final, WithHead, Awaits
  <2>9. Budget("search", v)
    <3>1. v.codeProbes >= 2 => Pow2[v.codeProbes - 2] * (v.high - v.low) <= Confirmed(v)
      <4>1. v.codeProbes >= 2 => Pow2[v.codeProbes - 2] = 1
        <5>1. v.codeProbes >= 2 => v.codeProbes - 2 = 0
          BY <2>6
        <5>. QED
          BY <5>1, PowersOfTwo
      <4>. QED
        BY <2>4, <2>5, <4>1
    <3>. QED
      BY <3>1 DEF Budget, Halved, Deep, Final, WithHead, Awaits
  <2>. QED
    BY <2>1, <2>7, <2>8, <2>9, BudgetStep DEF Search
<1>4. CASE SearchCode(c)
  <2>. DEFINE middle == u.low + (u.high - u.low) \div 2
              w == AfterCode(u, middle, FALSE)
              above == [w EXCEPT !.low = middle + 1]
              below == [w EXCEPT !.high = middle]
  <2>1. pc[c] = "search" /\ (Search(c, above) \/ Search(c, below))
    BY <1>2, <1>4 DEF SearchCode, Discovering
  <2>2. /\ w.codeProbes \in {u.codeProbes, u.codeProbes + 1} /\ u.codeProbes \in Nat
        /\ u.headNumber \in Nat /\ w.headNumber = u.headNumber
        /\ w.low = u.low /\ w.high = u.high
    BY CodeCosts
  <2>3. /\ above.codeProbes = w.codeProbes /\ below.codeProbes = w.codeProbes
        /\ above.headNumber = w.headNumber /\ below.headNumber = w.headNumber
        /\ above.low = middle + 1 /\ above.high = w.high
        /\ below.low = w.low /\ below.high = middle
    BY DEF AfterCode, Locals
  <2>4. /\ u.low \in Nat /\ u.high \in Nat /\ u.low < u.high /\ u.high <= Confirmed(u)
        /\ Confirmed(u) \in Int
    BY <1>h, <2>1, <2>2 DEF Shape, Searching, Confirmed, Locals
  <2>5. /\ middle \in Nat /\ u.low <= middle /\ middle < u.high
        /\ 2 * (middle - u.low) <= u.high - u.low
        /\ 2 * (u.high - (middle + 1)) <= u.high - u.low
    BY <2>4
  <2>6. u.codeProbes >= 2 => Pow2[u.codeProbes - 2] * (u.high - u.low) <= Confirmed(u)
    BY <1>2, <2>1 DEF Budget
  <2>. HIDE DEF middle, w, above, below
  <2>7. PICK v : /\ Search(c, v) /\ v.codeProbes = w.codeProbes
                 /\ v.headNumber = u.headNumber
                 /\ v.high - v.low \in Nat
                 /\ 2 * (v.high - v.low) <= u.high - u.low
    <3>1. above.high - above.low \in Nat /\ below.high - below.low \in Nat
      BY <2>2, <2>3, <2>4, <2>5
    <3>2. /\ 2 * (above.high - above.low) <= u.high - u.low
          /\ 2 * (below.high - below.low) <= u.high - u.low
      BY <2>2, <2>3, <2>5
    <3>. QED
      BY <2>1, <2>2, <2>3, <3>1, <3>2
  <2>8. Confirmed(v) = Confirmed(u) /\ v.codeProbes \in Nat
    BY <2>2, <2>7 DEF Confirmed
  <2>9. ASSUME v.codeProbes >= 2
        PROVE  Pow2[v.codeProbes - 2] * (v.high - v.low) <= Confirmed(v)
    <3>. DEFINE width == u.high - u.low
                half == v.high - v.low
    <3>1. width \in Nat /\ half \in Nat /\ 2 * half <= width /\ width <= Confirmed(u)
      BY <2>4, <2>7
    <3>. HIDE DEF width, half
    <3>2. CASE u.codeProbes >= 2
      <4>1. PICK m \in Nat : m = u.codeProbes - 2
        BY <2>2, <3>2
      <4>2. Pow2[m] \in Nat /\ Pow2[m + 1] = 2 * Pow2[m] /\ Pow2[m] * width <= Confirmed(u)
        BY <2>6, <3>2, <4>1, PowersOfTwo DEF width
      <4>3. (2 * Pow2[m]) * half <= Confirmed(u)
        BY <2>4, <3>1, <4>2, HalfFits
      <4>4. Pow2[m] * half <= (2 * Pow2[m]) * half
        <5>1. Pow2[m] * half \in Nat
          BY <3>1, <4>2
        <5>2. (2 * Pow2[m]) * half = 2 * (Pow2[m] * half)
          BY <3>1, <4>2
        <5>. QED
          BY <5>1, <5>2
      <4>5. (2 * Pow2[m]) * half \in Nat /\ Pow2[m] * half \in Nat
        BY <3>1, <4>2
      <4>6. Pow2[m] * half <= Confirmed(u) /\ Pow2[m + 1] * half <= Confirmed(u)
        BY <2>4, <4>2, <4>3, <4>4, <4>5
      <4>7. v.codeProbes - 2 = m \/ v.codeProbes - 2 = m + 1
        BY <2>2, <2>7, <4>1
      <4>. QED
        BY <2>8, <4>6, <4>7 DEF half
    <3>3. CASE ~ (u.codeProbes >= 2)
      <4>1. v.codeProbes - 2 = 0
        BY <2>2, <2>7, <2>9, <3>3
      <4>2. Pow2[v.codeProbes - 2] * half = half
        BY <3>1, <4>1, PowersOfTwo
      <4>3. half <= Confirmed(u)
        BY <2>4, <3>1
      <4>. QED
        BY <2>8, <4>2, <4>3 DEF half
    <3>. QED
      BY <3>2, <3>3
  <2>10. Halved(v, 3)
    <3>1. Halved(u, 2)
      <4>. SUFFICES ASSUME u.codeProbes >= 2  PROVE Pow2[u.codeProbes - 2] <= Confirmed(u)
        BY DEF Halved
      <4>. DEFINE a == Pow2[u.codeProbes - 2]
                  width == u.high - u.low
      <4>1. a \in Nat /\ width \in Nat /\ width >= 1 /\ a * width <= Confirmed(u)
        <5>1. u.codeProbes - 2 \in Nat
          BY <2>2
        <5>. QED
          BY <2>4, <2>6, <5>1, PowersOfTwo
      <4>. HIDE DEF a, width
      <4>2. a <= a * width
        BY <4>1, SMTT(30)
      <4>3. a * width \in Nat
        BY <4>1
      <4>. QED
        BY <2>4, <4>1, <4>2, <4>3 DEF a
    <3>2. Halved(v, 2 + 1)
      BY <2>2, <2>7, <3>1, HalvedOn
    <3>. QED
      BY <3>2
  <2>11. Budget("search", v) /\ Budget("verifyLow", v)
    BY <2>9, <2>10 DEF Budget, Deep, Final, WithHead, Awaits
  <2>. QED
    BY <2>7, <2>11, BudgetStep DEF Search
<1>. QED
  BY <1>3, <1>4

\* The reads after the search cost two probes.
LEMMA LastProbes ==
    ASSUME IInv, Budgets, NEW c \in Caller,
           VerifyLow(c) \/ ReadDeployment(c) \/ VerifyPreceding(c) \/ ReadPreceding(c)
              \/ ReadFinalHead(c)
    PROVE  Budgets'
<1>1. work[c] \in Locals /\ Budget(pc[c], work[c])
  BY DEF IInv, TypeOK, Budgets
<1>2. PICK u \in Locals : u = work[c] /\ Budget(pc[c], u)
  BY <1>1
<1>h. u.codeProbes \in Nat /\ u.headNumber \in Nat
  BY HistoryAssumption DEF Locals
<1>3. CASE VerifyLow(c)
  <2>. DEFINE w == AfterCode(u, u.low, TRUE)
  <2>1. pc[c] = "verifyLow" /\ Goto(c, "deployment", w)
    BY <1>2, <1>3 DEF VerifyLow, Discovering
  <2>2. w.codeProbes \in {u.codeProbes, u.codeProbes + 1} /\ w.headNumber = u.headNumber
    BY CodeCosts
  <2>3. Halved(u, 3)
    BY <1>2, <2>1 DEF Budget
  <2>. HIDE DEF w
  <2>4. Halved(w, 3 + 1)
    BY <1>h, <2>2, <2>3, HalvedOn
  <2>5. Budget("deployment", w)
    BY <2>4 DEF Budget, Deep, Final, WithHead, Awaits
  <2>. QED
    BY <2>1, <2>5, BudgetStep
<1>4. CASE ReadDeployment(c)
  <2>1. PICK b : /\ pc[c] = "deployment"
                 /\ LET w == [u EXCEPT !.deployment = {b}]
                    IN  \/ Goto(c, "verifyPreceding", w)
                        \/ Goto(c, "finalHead", ConfirmedAt(w))
    BY <1>2, <1>4 DEF ReadDeployment, Discovering
  <2>. DEFINE w == [u EXCEPT !.deployment = {b}]
              v == ConfirmedAt(w)
  <2>2. /\ w.codeProbes = u.codeProbes /\ w.headNumber = u.headNumber
        /\ v.codeProbes = u.codeProbes /\ v.headNumber = u.headNumber
    BY DEF ConfirmedAt, Locals
  <2>3. Halved(u, 4)
    BY <1>2, <2>1 DEF Budget
  <2>4. Goto(c, "verifyPreceding", w) \/ Goto(c, "finalHead", v)
    BY <2>1
  <2>. HIDE DEF w, v
  <2>5. Halved(w, 4)
    BY <2>2, <2>3 DEF Halved, Confirmed
  <2>6. Halved(v, 4 + 1)
    BY <1>h, <2>2, <2>3, HalvedOn
  <2>7. Budget("verifyPreceding", w) /\ Budget("finalHead", v)
    BY <2>5, <2>6 DEF Budget, Deep, Final, WithHead, Awaits
  <2>. QED
    BY <2>4, <2>7, BudgetStep
<1>5. CASE VerifyPreceding(c)
  <2>. DEFINE w == AfterCode(u, u.low - 1, TRUE)
  <2>1. pc[c] = "verifyPreceding" /\ Goto(c, "preceding", w)
    BY <1>2, <1>5 DEF VerifyPreceding, Discovering
  <2>2. w.codeProbes \in {u.codeProbes, u.codeProbes + 1} /\ w.headNumber = u.headNumber
    BY CodeCosts
  <2>3. Halved(u, 4)
    BY <1>2, <2>1 DEF Budget
  <2>. HIDE DEF w
  <2>4. Halved(w, 4 + 1)
    BY <1>h, <2>2, <2>3, HalvedOn
  <2>5. Budget("preceding", w)
    BY <2>4 DEF Budget, Deep, Final, WithHead, Awaits
  <2>. QED
    BY <2>1, <2>5, BudgetStep
<1>6. CASE ReadPreceding(c)
  <2>1. PICK b : /\ pc[c] = "preceding"
                 /\ Goto(c, "finalHead", ConfirmedAt([u EXCEPT !.preceding = {b}]))
    BY <1>2, <1>6 DEF ReadPreceding, Discovering
  <2>. DEFINE v == ConfirmedAt([u EXCEPT !.preceding = {b}])
  <2>2. v.codeProbes = u.codeProbes /\ v.headNumber = u.headNumber
    BY DEF ConfirmedAt, Locals
  <2>3. Halved(u, 5)
    BY <1>2, <2>1 DEF Budget
  <2>. HIDE DEF v
  <2>4. Halved(v, 5)
    BY <2>2, <2>3 DEF Halved, Confirmed
  <2>5. Budget("finalHead", v)
    BY <2>4 DEF Budget, Deep, Final, WithHead, Awaits
  <2>. QED
    BY <2>1, <2>5, BudgetStep DEF v
<1>7. CASE ReadFinalHead(c)
  <2>1. pc[c] = "finalHead" /\ Goto(c, "finalBlock", u)
    BY <1>2, <1>7 DEF ReadFinalHead, Discovering
  <2>2. Budget("finalBlock", u)
    BY <1>2, <2>1 DEF Budget, Deep, Final, WithHead, Awaits
  <2>. QED
    BY <2>1, <2>2, BudgetStep
<1>. QED
  BY <1>3, <1>4, <1>5, <1>6, <1>7

\* Every step of every call keeps within its budget.
LEMMA NextBudgets == IInv /\ Budgets /\ [Next]_vars => Budgets'
<1>. SUFFICES ASSUME IInv, Budgets, [Next]_vars  PROVE Budgets'
  OBVIOUS
<1>1. ASSUME NEW c \in Caller,
             Resolve(c) \/ Authenticate(c) \/ Take(c) \/ Fail(c) \/ ReadFinalBlock(c)
      PROVE  Budgets'
  <2>1. \E await : Goto(c, await, Fresh)
    BY <1>1 DEF Resolve, Authenticate, Take, Fail, ReadFinalBlock
  <2>. QED
    BY <2>1, FreshBudget
<1>2. ASSUME UNCHANGED <<pc, work>>  PROVE Budgets'
  BY <1>2 DEF Budgets, Budget, Halved, Confirmed
<1>3. CASE Reorganize \/ UNCHANGED vars
  BY <1>2, <1>3 DEF Reorganize, callVars, vars
<1>. QED
  BY <1>1, <1>3, FewProbes, SearchProbes, LastProbes DEF Next, Step

\* What the probes of a call have achieved bounds their number at every await.
LEMMA BudgetBounds ==
    ASSUME IInv, Budgets
    PROVE  ProbesSuffice
<1>. SUFFICES ASSUME NEW c \in Caller, work[c].codeProbes > 4
              PROVE  Pow2[work[c].codeProbes - 4] < 2 * (Confirmed(work[c]) + 1)
  BY DEF ProbesSuffice
<1>1. work[c] \in Locals /\ Budget(pc[c], work[c]) /\ pc[c] \in Awaits
  BY DEF IInv, TypeOK, Budgets
<1>2. PICK u \in Locals, p \in Nat : u = work[c] /\ p = u.codeProbes /\ u.headNumber \in Nat
  BY <1>1, HistoryAssumption DEF Locals
<1>3. Confirmed(u) \in Int /\ p > 4
  BY <1>2, HistoryAssumption DEF Confirmed
<1>5. ASSUME NEW k \in Nat, Halved(u, k)  PROVE Halved(u, k + 1)
  BY <1>2, <1>5, HalvedOn
<1>6. Halved(u, 5)
  <2>1. CASE pc[c] = "search"
    <3>1. /\ u.low \in Nat /\ u.high \in Nat /\ u.low < u.high
          /\ Pow2[p - 2] * (u.high - u.low) <= Confirmed(u)
      <4>1. Shape("search", u)
        BY <1>2, <2>1, KnownHead DEF WithHead, Awaits
      <4>. QED
        BY <1>1, <1>2, <1>3, <2>1, <4>1 DEF Shape, Budget, Locals
    <3>. DEFINE a == Pow2[p - 2]
                width == u.high - u.low
    <3>2. a \in Nat /\ width \in Nat /\ width >= 1 /\ a * width <= Confirmed(u)
      <4>1. p - 2 \in Nat
        BY <1>3
      <4>. QED
        BY <3>1, <4>1, PowersOfTwo
    <3>. HIDE DEF a, width
    <3>3. a <= a * width /\ a * width \in Nat
      BY <3>2, SMTT(30)
    <3>4. Halved(u, 2)
      BY <1>2, <1>3, <3>2, <3>3 DEF Halved, a
    <3>5. Halved(u, 2 + 1)
      BY <1>5, <3>4
    <3>6. Halved(u, (2 + 1) + 1)
      BY <1>5, <3>5
    <3>7. Halved(u, ((2 + 1) + 1) + 1)
      BY <1>5, <3>6
    <3>. QED
      BY <3>7
  <2>2. CASE pc[c] = "verifyLow"
    <3>1. Halved(u, 3)
      BY <1>1, <1>2, <2>2 DEF Budget
    <3>2. Halved(u, 3 + 1)
      BY <1>5, <3>1
    <3>3. Halved(u, (3 + 1) + 1)
      BY <1>5, <3>2
    <3>. QED
      BY <3>3
  <2>3. CASE pc[c] \in {"deployment", "verifyPreceding"}
    <3>1. Halved(u, 4)
      BY <1>1, <1>2, <2>3 DEF Budget
    <3>2. Halved(u, 4 + 1)
      BY <1>5, <3>1
    <3>. QED
      BY <3>2
  <2>. QED
    BY <1>1, <1>2, <1>3, <2>1, <2>2, <2>3 DEF Budget, Deep, Final, WithHead, Awaits
<1>7. PICK m \in Nat : m = p - 5 /\ m + 1 = p - 4
  BY <1>3
<1>8. Pow2[m] \in Nat /\ Pow2[m + 1] = 2 * Pow2[m] /\ Pow2[m] <= Confirmed(u)
  BY <1>2, <1>3, <1>6, <1>7, PowersOfTwo DEF Halved
<1>. QED
  BY <1>2, <1>3, <1>7, <1>8

\* A search takes one probe for each halving of the chain and at most four
\* more, however the chain moves and whatever other calls do meanwhile.
THEOREM ProbesAlwaysSuffice == Spec => []ProbesSuffice
<1>1. Init => Budgets
  BY NoProbes DEF Init, Budgets, Fresh
<1>. QED
  BY <1>1, HistoryInvariant, NextBudgets, BudgetBounds, PTL DEF Spec
=============================================================================
