--------------------------- MODULE ProtocolHistory ---------------------------
(***************************************************************************)
(* resolveProtocolHistoryBoundary of protocol-history.ts: where the events *)
(* of the contract begin on the wallet's branch.  The boundary is found by *)
(* a binary search over eth_getCode while the chain moves on, and a        *)
(* confirmed one is kept for the next callers on the page.                 *)
(*                                                                         *)
(* A state lies between two awaits of each caller; pc names the await.     *)
(* Blocks that may be undefined are sets with at most one element.         *)
(***************************************************************************)
EXTENDS Chain

CONSTANTS
    Caller,         \* the calls that may be under way at once on one provider
    Deployed,       \* the blocks in whose state the contract exists
    FinalityDepth,  \* options.finalityDepth
    MaxCodeProbes   \* options.maxCodeProbes

\* The contract is never removed: it has no selfdestruct.
ASSUME HistoryAssumption ==
    /\ Deployed \subseteq Block
    /\ \A b \in Block : \A c \in Ancestors[b] : c \in Deployed => b \in Deployed
    /\ FinalityDepth \in Nat
    /\ MaxCodeProbes \in Nat \ {0}

VARIABLES
    resolved,   \* resolvedBoundaries of the provider: no boundary, or one
    pc,         \* [Caller -> the await the call is in]
    work,       \* [Caller -> the locals of the call]
    answer,     \* [Caller -> what the call returned]
    goneBefore  \* [Caller -> the blocks orphaned before the call]; for properties

callVars == <<resolved, pc, work, answer, goneBefore>>
vars == <<chainVars, callVars>>

Awaits ==
    {"idle", "authenticate", "head", "headBlock", "headCode", "confirmedBlock",
     "confirmedCode", "recheckConfirmed", "recheckHead", "search", "verifyLow",
     "deployment", "verifyPreceding", "preceding", "finalHead", "finalBlock",
     "returned"}

\* The locals of discoverProtocolHistoryBoundary.  empty and protocol are the
\* block numbers whose code is in codeByBlock.
Fresh ==
    [headNumber |-> 0, head |-> {}, confirmedThrough |-> {}, empty |-> {},
     protocol |-> {}, codeProbes |-> 0, low |-> 0, high |-> 0,
     deployment |-> {}, preceding |-> {}, kind |-> "pending-confirmation",
     startBlock |-> 0]

Init ==
    /\ ChainInit
    /\ resolved = {}
    /\ pc = [c \in Caller |-> "idle"]
    /\ work = [c \in Caller |-> Fresh]
    /\ answer = [c \in Caller |-> {}]
    /\ goneBefore = [c \in Caller |-> {}]

-----------------------------------------------------------------------------
(* Reading code.                                                            *)

\* The code is read unless codeByBlock has it and refresh is not asked for.
Probes(w, n, refresh) == refresh \/ n \notin w.empty \cup w.protocol

\* eth_getCode answers for a block the branch has, within the probe limit.
CanRead(w, n, refresh) ==
    Probes(w, n, refresh) =>
        /\ w.codeProbes < MaxCodeProbes
        /\ \E b \in Block : BlockAt(n, b)

\* readCode: the locals once the code of block n is known.
AfterCode(w, n, refresh) ==
    IF ~ Probes(w, n, refresh) THEN w
    ELSE LET code == IF \E b \in Deployed : BlockAt(n, b) THEN "protocol" ELSE "empty"
         IN  [w EXCEPT !.codeProbes = @ + 1,
                       !.empty = IF code = "empty" THEN @ \cup {n} ELSE @ \ {n},
                       !.protocol = IF code = "protocol" THEN @ \cup {n} ELSE @ \ {n}]

Goto(c, await, w) ==
    /\ pc' = [pc EXCEPT ![c] = await]
    /\ work' = [work EXCEPT ![c] = w]

-----------------------------------------------------------------------------
(* resolveProtocolHistoryBoundary                                           *)

Resolve(c) ==
    /\ pc[c] = "idle"
    /\ Goto(c, IF resolved = {} THEN "head" ELSE "authenticate", Fresh)
    /\ answer' = [answer EXCEPT ![c] = resolved]
    /\ goneBefore' = [goneBefore EXCEPT ![c] = orphaned]
    /\ UNCHANGED <<chainVars, resolved>>

\* Mutant: a resolved boundary is good for ever.
AuthenticateNothing(c) ==
    /\ pc[c] = "authenticate"
    /\ Goto(c, "returned", Fresh)
    /\ UNCHANGED <<chainVars, resolved, answer, goneBefore>>

\* protocolHistoryAnchorIsCanonical: the boundary of an earlier call is good
\* while its head is canonical, and is discovered again otherwise.
Authenticate(c) ==
    /\ pc[c] = "authenticate"
    /\ \/ /\ \E b \in answer[c] : BlockAt(Height[b.head], b.head)
          /\ Goto(c, "returned", Fresh)
          /\ UNCHANGED <<resolved, answer>>
       \/ /\ \A b \in answer[c] : ~ BlockAt(Height[b.head], b.head)
          /\ Goto(c, "head", Fresh)
          /\ resolved' = {}
          /\ answer' = [answer EXCEPT ![c] = {}]
    /\ UNCHANGED <<chainVars, goneBefore>>

\* The caller goes on with the boundary.
Take(c) ==
    /\ pc[c] = "returned"
    /\ Goto(c, "idle", Fresh)
    /\ answer' = [answer EXCEPT ![c] = {}]
    /\ goneBefore' = [goneBefore EXCEPT ![c] = {}]
    /\ UNCHANGED <<chainVars, resolved>>

-----------------------------------------------------------------------------
(* discoverProtocolHistoryBoundary                                          *)

Discovering(c, await) ==
    /\ pc[c] = await
    /\ UNCHANGED <<chainVars, answer, goneBefore>>

\* eth_blockNumber, of an endpoint that may be behind.
ReadHead(c) ==
    /\ Discovering(c, "head")
    /\ \E n \in 0 .. Height[head] :
          Goto(c, "headBlock", [work[c] EXCEPT !.headNumber = n])
    /\ UNCHANGED resolved

ReadHeadBlock(c) ==
    /\ Discovering(c, "headBlock")
    /\ \E b \in Block :
          /\ BlockAt(work[c].headNumber, b)
          /\ Goto(c, "headCode", [work[c] EXCEPT !.head = {b}])
    /\ UNCHANGED resolved

Confirmed(w) == w.headNumber - FinalityDepth

\* The head has to have the contract.  A chain shorter than the finality
\* depth confirms nothing.
ReadHeadCode(c) ==
    /\ Discovering(c, "headCode")
    /\ LET n == work[c].headNumber
           w == AfterCode(work[c], n, FALSE)
       IN  /\ CanRead(work[c], n, FALSE)
           /\ n \in w.protocol
           /\ \/ /\ n < FinalityDepth
                 /\ Goto(c, "finalHead", w)
              \/ /\ n >= FinalityDepth
                 /\ FinalityDepth > 0
                 /\ Goto(c, "confirmedBlock", w)
              \/ /\ FinalityDepth = 0
                 /\ Goto(c, "confirmedCode", [w EXCEPT !.confirmedThrough = w.head])
    /\ UNCHANGED resolved

ReadConfirmedBlock(c) ==
    /\ Discovering(c, "confirmedBlock")
    /\ \E b \in Block :
          /\ BlockAt(Confirmed(work[c]), b)
          /\ Goto(c, "confirmedCode", [work[c] EXCEPT !.confirmedThrough = {b}])
    /\ UNCHANGED resolved

\* while (low < high)
Search(c, w) == Goto(c, IF w.low < w.high THEN "search" ELSE "verifyLow", w)

ReadConfirmedCode(c) ==
    /\ Discovering(c, "confirmedCode")
    /\ LET n == Confirmed(work[c])
           w == AfterCode(work[c], n, FALSE)
       IN  /\ CanRead(work[c], n, FALSE)
           /\ \/ /\ n \in w.empty
                 /\ Goto(c, "recheckConfirmed", w)
              \/ /\ n \in w.protocol
                 /\ Search(c, [w EXCEPT !.low = 0, !.high = n])
    /\ UNCHANGED resolved

\* The contract was deployed after the confirmed block: both are read again.
RecheckConfirmed(c) ==
    /\ Discovering(c, "recheckConfirmed")
    /\ LET n == Confirmed(work[c])
           w == AfterCode(work[c], n, TRUE)
       IN  /\ CanRead(work[c], n, TRUE)
           /\ n \in w.empty
           /\ Goto(c, "recheckHead", w)
    /\ UNCHANGED resolved

RecheckHead(c) ==
    /\ Discovering(c, "recheckHead")
    /\ LET n == work[c].headNumber
           w == AfterCode(work[c], n, TRUE)
       IN  /\ CanRead(work[c], n, TRUE)
           /\ n \in w.protocol
           /\ Goto(c, "finalHead", [w EXCEPT !.preceding = w.confirmedThrough,
                                             !.startBlock = Confirmed(w) + 1])
    /\ UNCHANGED resolved

\* Mutant: block after block.
SearchCodeOnward(c) ==
    /\ Discovering(c, "search")
    /\ LET w0 == work[c]
           middle == w0.low
           w == AfterCode(w0, middle, FALSE)
       IN  /\ CanRead(w0, middle, FALSE)
           /\ \/ middle \in w.empty /\ Search(c, [w EXCEPT !.low = middle + 1])
              \/ middle \in w.protocol /\ Search(c, [w EXCEPT !.high = middle])
    /\ UNCHANGED resolved

SearchCode(c) ==
    /\ Discovering(c, "search")
    /\ LET w0 == work[c]
           middle == w0.low + (w0.high - w0.low) \div 2
           w == AfterCode(w0, middle, FALSE)
       IN  /\ CanRead(w0, middle, FALSE)
           /\ \/ middle \in w.empty /\ Search(c, [w EXCEPT !.low = middle + 1])
              \/ middle \in w.protocol /\ Search(c, [w EXCEPT !.high = middle])
    /\ UNCHANGED resolved

\* The code at the end of the search is read again, whatever codeByBlock has.
VerifyLow(c) ==
    /\ Discovering(c, "verifyLow")
    /\ LET w == AfterCode(work[c], work[c].low, TRUE)
       IN  /\ CanRead(work[c], work[c].low, TRUE)
           /\ w.low \in w.protocol
           /\ Goto(c, "deployment", w)
    /\ UNCHANGED resolved

ConfirmedAt(w) == [w EXCEPT !.kind = "confirmed", !.startBlock = w.low]

ReadDeployment(c) ==
    /\ Discovering(c, "deployment")
    /\ \E b \in Block :
          LET w == [work[c] EXCEPT !.deployment = {b}]
          IN  /\ BlockAt(w.low, b)
              /\ \/ w.low > 0 /\ Goto(c, "verifyPreceding", w)
                 \/ w.low = 0 /\ Goto(c, "finalHead", ConfirmedAt(w))
    /\ UNCHANGED resolved

VerifyPreceding(c) ==
    /\ Discovering(c, "verifyPreceding")
    /\ LET n == work[c].low - 1
           w == AfterCode(work[c], n, TRUE)
       IN  /\ CanRead(work[c], n, TRUE)
           /\ n \in w.empty
           /\ Goto(c, "preceding", w)
    /\ UNCHANGED resolved

ReadPreceding(c) ==
    /\ Discovering(c, "preceding")
    /\ \E b \in Block :
          /\ BlockAt(work[c].low - 1, b)
          /\ Goto(c, "finalHead", ConfirmedAt([work[c] EXCEPT !.preceding = {b}]))
    /\ UNCHANGED resolved

ReadFinalHead(c) ==
    /\ Discovering(c, "finalHead")
    /\ \E n \in 0 .. Height[head] : n >= work[c].headNumber
    /\ Goto(c, "finalBlock", work[c])
    /\ UNCHANGED resolved

\* Mutant: a chain that is long enough is good enough.
ReadFinalHeight(c) ==
    /\ pc[c] = "finalBlock"
    /\ \E b \in work[c].head :
          LET w == work[c]
              boundary ==
                  [kind |-> w.kind, head |-> b, startBlock |-> w.startBlock,
                   confirmedThrough |-> w.confirmedThrough,
                   deployment |-> w.deployment, preceding |-> w.preceding]
          IN  /\ answer' = [answer EXCEPT ![c] = {boundary}]
              /\ resolved' = IF w.kind = "confirmed" THEN {boundary} ELSE resolved
    /\ Goto(c, "returned", Fresh)
    /\ UNCHANGED <<chainVars, goneBefore>>

\* The head has to be the block it was at the start.  Only a confirmed
\* boundary is kept.
ReadFinalBlock(c) ==
    /\ pc[c] = "finalBlock"
    /\ \E b \in work[c].head :
          LET w == work[c]
              boundary ==
                  [kind |-> w.kind, head |-> b, startBlock |-> w.startBlock,
                   confirmedThrough |-> w.confirmedThrough,
                   deployment |-> w.deployment, preceding |-> w.preceding]
          IN  /\ BlockAt(w.headNumber, b)
              /\ answer' = [answer EXCEPT ![c] = {boundary}]
              /\ resolved' = IF w.kind = "confirmed" THEN {boundary} ELSE resolved
    /\ Goto(c, "returned", Fresh)
    /\ UNCHANGED <<chainVars, goneBefore>>

\* Any await may throw: a check that does not hold, a deadline, an abort, a
\* change of chain, code or state the endpoint cannot give.
Fail(c) ==
    /\ pc[c] \notin {"idle", "returned"}
    /\ Goto(c, "idle", Fresh)
    /\ answer' = [answer EXCEPT ![c] = {}]
    /\ goneBefore' = [goneBefore EXCEPT ![c] = {}]
    /\ UNCHANGED <<chainVars, resolved>>

Reorganize ==
    /\ MoveHead
    /\ UNCHANGED callVars

Step(c) ==
    \/ Authenticate(c)
    \/ ReadHead(c)
    \/ ReadHeadBlock(c)
    \/ ReadHeadCode(c)
    \/ ReadConfirmedBlock(c)
    \/ ReadConfirmedCode(c)
    \/ RecheckConfirmed(c)
    \/ RecheckHead(c)
    \/ SearchCode(c)
    \/ VerifyLow(c)
    \/ ReadDeployment(c)
    \/ VerifyPreceding(c)
    \/ ReadPreceding(c)
    \/ ReadFinalHead(c)
    \/ ReadFinalBlock(c)

Next ==
    \/ \E c \in Caller :
          \/ Resolve(c)
          \/ Step(c)
          \/ Take(c)
          \/ Fail(c)
    \/ Reorganize

Spec == Init /\ [][Next]_vars

-----------------------------------------------------------------------------
(* What a boundary promises.                                                *)

Boundary ==
    [kind : {"confirmed", "pending-confirmation"}, head : Block,
     startBlock : Nat, confirmedThrough : SUBSET Block,
     deployment : SUBSET Block, preceding : SUBSET Block]

Locals ==
    [headNumber : Nat, head : SUBSET Block, confirmedThrough : SUBSET Block,
     empty : SUBSET Nat, protocol : SUBSET Nat, codeProbes : 0 .. MaxCodeProbes,
     low : Nat, high : Nat, deployment : SUBSET Block,
     preceding : SUBSET Block, kind : {"confirmed", "pending-confirmation"},
     startBlock : Nat]

\* Every variable has its type.
TypeOK ==
    /\ ChainTypeOK
    /\ resolved \subseteq Boundary
    /\ pc \in [Caller -> Awaits]
    /\ work \in [Caller -> Locals]
    /\ answer \in [Caller -> SUBSET Boundary]
    /\ goneBefore \in [Caller -> SUBSET Block]

At(b, n) == {c \in Ancestors[b] : Height[c] = n}

\* All that a boundary says is so on the branch of its head: nothing is
\* deployed before the start block, the start block of a confirmed boundary is
\* the deployment and lies deep enough, and the other blocks are the branch's.
DescribesHead(b) ==
    /\ b.head \in Deployed
    /\ \A c \in Ancestors[b.head] : Height[c] < b.startBlock => c \notin Deployed
    /\ b.kind = "confirmed" =>
          /\ b.startBlock + FinalityDepth <= Height[b.head]
          /\ b.deployment = At(b.head, b.startBlock)
          /\ b.deployment \subseteq Deployed
    /\ b.confirmedThrough = At(b.head, Height[b.head] - FinalityDepth)
    /\ b.preceding = At(b.head, b.startBlock - 1)

\* However the chain moved during the search, an answer and the boundary that
\* is kept for later describe one branch.
BoundaryDescribesHead ==
    \A b \in resolved \cup UNION {answer[c] : c \in Caller} : DescribesHead(b)

\* A caller is never given the boundary of a branch that was abandoned before
\* it asked, although another call found it, or put it in the cache, meanwhile.
AnswerIsCurrent ==
    \A c \in Caller : pc[c] = "returned" =>
        \A b \in answer[c] : b.head \notin goneBefore[c]

\* Doubling a number of blocks n times.
Pow2[n \in Nat] == IF n = 0 THEN 1 ELSE 2 * Pow2[n - 1]

\* A search takes one code probe for each halving of the chain and at most
\* four more: the default limit of 64 ends none on a chain of less than 2^59
\* blocks.
ProbesSuffice ==
    \A c \in Caller : work[c].codeProbes > 4 =>
        Pow2[work[c].codeProbes - 4] < 2 * (Confirmed(work[c]) + 1)
=============================================================================
