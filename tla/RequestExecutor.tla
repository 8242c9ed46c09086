--------------------------- MODULE RequestExecutor ---------------------------
(***************************************************************************)
(* internal/detection.Executor and the internal/mutation.Executor inside   *)
(* it: what lies between a detector and the network during one Engine.Run. *)
(*                                                                         *)
(* Detectors run concurrently and call Do (passive requests) or            *)
(* ExecuteMutation (originals and mutated requests).  Each call passes its *)
(* scope check, its budget and a semaphore, in an order that differs       *)
(* between the two, and every atomic operation is a step of its own.       *)
(***************************************************************************)
EXTENDS Integers, FiniteSets

CONSTANTS
  Passive,       \* calls of Do
  Original,      \* calls of ExecuteMutation with Origin = original
  Mutated,       \* calls of ExecuteMutation with Origin = mutated
  Targets,       \* values of targetKey
  Target,        \* targetKey of each mutated call
  Concurrency,   \* ExecutorConfig.Concurrency
  MaxRedirects,  \* ExecutorConfig.MaxRedirects
  MaxRequests,   \* ExecutorConfig.MaxRequests
  MaxPerTarget,  \* MaxMutationsPerTarget
  MaxTotal       \* MaxTotalMutations

Active == Original \cup Mutated
Calls  == Passive \cup Active

(* A call that some budget is charged for: originals are free.             *)
Charged == Passive \cup Mutated

ASSUME ExecutorAssumption ==
  /\ IsFiniteSet(Calls)
  /\ Passive \cap Active = {}
  /\ Original \cap Mutated = {}
  /\ Target \in [Mutated -> Targets]
  /\ {Concurrency, MaxRedirects, MaxRequests, MaxPerTarget, MaxTotal} \subseteq Int

VARIABLES
  pc,             \* where each call is
  result,         \* what each call returned
  ctxDone,        \* the context of the engine's run is done
  sem,            \* slots taken of the semaphore of each path
  followed,       \* redirects each charged call has followed
  requestCount,   \* detection.Executor.requestCount
  totalRequests,  \* mutation.Executor.totalRequests
  totalMutations, \* mutation.Executor.totalMutations
  perTarget       \* mutation.Executor.perTarget

counters == <<requestCount, totalRequests, totalMutations, perTarget>>
vars == <<pc, result, ctxDone, sem, followed, counters>>

-----------------------------------------------------------------------------
PC == {"start", "request", "limiter", "total", "target", "resolve", "slot",
       "sending", "ended"}

(* rejected: an invalid request, or one that is not in scope; ctx: an error*)
(* of the context, its deadline seen by the limiter included; sent: an     *)
(* answer, or an error of the request itself.                              *)
Result == {"none", "rejected", "budget", "ctx", "sent"}

(* Do and Execute have a semaphore each.                                   *)
Paths == {"do", "mutation"}
Path(c) == IF c \in Passive THEN "do" ELSE "mutation"

(* A non-positive Concurrency means five, in both executors.               *)
Limit == IF Concurrency <= 0 THEN 5 ELSE Concurrency

(* safedial.NewClient: a call is one request and the redirects it follows, *)
(* which nothing charges, limits or counts.                                *)
Redirects == IF MaxRedirects < 0 THEN 0 ELSE MaxRedirects
Hops      == 1 + Redirects

(* A ceiling of zero or less is none.                                      *)
Exhausted(count, max) == max > 0 /\ count > max

Init ==
  /\ pc = [c \in Calls |-> "start"]
  /\ result = [c \in Calls |-> "none"]
  /\ ctxDone = FALSE
  /\ sem = [p \in Paths |-> 0]
  /\ followed = [c \in Charged |-> 0]
  /\ requestCount = 0
  /\ totalRequests = 0
  /\ totalMutations = 0
  /\ perTarget = [t \in Targets |-> 0]

Goto(c, from, to) ==
  /\ pc[c] = from
  /\ pc' = [pc EXCEPT ![c] = to]
  /\ UNCHANGED result

End(c, from, r) ==
  /\ pc[c] = from
  /\ pc' = [pc EXCEPT ![c] = "ended"]
  /\ result' = [result EXCEPT ![c] = r]

-----------------------------------------------------------------------------
(* Do.                                                                     *)

(* A target without an IP, one out of scope, or a done context ends the    *)
(* call before anything is charged.                                        *)
CheckScope(c) ==
  /\ c \in Passive
  /\ \/ End(c, "start", "rejected")
     \/ ctxDone /\ End(c, "start", "ctx")
     \/ ~ctxDone /\ Goto(c, "start", "request")
  /\ UNCHANGED <<ctxDone, sem, followed, counters>>

(* Fault: the count is compared before it is increased.                    *)
ChargeRequestLate(c) ==
  /\ c \in Passive
  /\ requestCount' = requestCount + 1
  /\ \/ Exhausted(requestCount, MaxRequests) /\ End(c, "request", "budget")
     \/ ~Exhausted(requestCount, MaxRequests) /\ Goto(c, "request", "limiter")
  /\ UNCHANGED <<ctxDone, sem, followed, totalRequests, totalMutations, perTarget>>

(* requestCount.Add(1) and the comparison of what it returned.             *)
ChargeRequest(c) ==
  /\ c \in Passive
  /\ requestCount' = requestCount + 1
  /\ \/ Exhausted(requestCount', MaxRequests) /\ End(c, "request", "budget")
     \/ ~Exhausted(requestCount', MaxRequests) /\ Goto(c, "request", "limiter")
  /\ UNCHANGED <<ctxDone, sem, followed, totalRequests, totalMutations, perTarget>>

(* limiter.Wait, or no limiter; it fails when the context is done, and at  *)
(* once when its deadline comes before the call's turn.                    *)
PassLimiter(c) ==
  /\ c \in Passive
  /\ \/ Goto(c, "limiter", "slot")
     \/ End(c, "limiter", "ctx")
  /\ UNCHANGED <<ctxDone, sem, followed, counters>>

-----------------------------------------------------------------------------
(* ExecuteMutation.                                                        *)

(* Fault: originals are charged like mutated requests.                     *)
ValidateChargingAll(c) ==
  /\ c \in Active
  /\ End(c, "start", "rejected") \/ Goto(c, "start", "total")
  /\ UNCHANGED <<ctxDone, sem, followed, counters>>

(* A request without host or method, or with too long a body, is invalid;  *)
(* only a mutated one is charged against the mutation budgets.             *)
Validate(c) ==
  /\ c \in Active
  /\ \/ End(c, "start", "rejected")
     \/ c \in Mutated /\ Goto(c, "start", "total")
     \/ c \in Original /\ Goto(c, "start", "resolve")
  /\ UNCHANGED <<ctxDone, sem, followed, counters>>

(* totalMutations.Add(1) and the comparison of what it returned.           *)
ChargeTotal(c) ==
  /\ c \in Active
  /\ totalMutations' = totalMutations + 1
  /\ \/ Exhausted(totalMutations', MaxTotal) /\ End(c, "total", "budget")
     \/ ~Exhausted(totalMutations', MaxTotal) /\ Goto(c, "total", "target")
  /\ UNCHANGED <<ctxDone, sem, followed, requestCount, totalRequests, perTarget>>

(* perTarget[key]++ under the mutex, kept only when there is a ceiling.    *)
(* The total stays charged when this one refuses.                          *)
ChargeTarget(c) ==
  /\ c \in Mutated
  /\ LET n == perTarget[Target[c]] + 1
     IN  /\ perTarget' = IF MaxPerTarget > 0
                         THEN [perTarget EXCEPT ![Target[c]] = n] ELSE perTarget
         /\ \/ Exhausted(n, MaxPerTarget) /\ End(c, "target", "budget")
            \/ ~Exhausted(n, MaxPerTarget) /\ Goto(c, "target", "resolve")
  /\ UNCHANGED <<ctxDone, sem, followed, requestCount, totalRequests, totalMutations>>

(* resolveAndValidate, after the budgets: CheckResolved of a known IP, or  *)
(* ResolveInScope, whose resolution may fail.                              *)
ResolveAndValidate(c) ==
  /\ c \in Active
  /\ \/ ctxDone /\ End(c, "resolve", "ctx")
     \/ End(c, "resolve", "rejected")
     \/ ~ctxDone /\ Goto(c, "resolve", "slot")
  /\ UNCHANGED <<ctxDone, sem, followed, counters>>

-----------------------------------------------------------------------------
(* The semaphore and the request, in both.                                 *)

(* The channel send of the select.                                         *)
TakeSlot(c) ==
  /\ sem[Path(c)] < Limit
  /\ Goto(c, "slot", "sending")
  /\ sem' = [sem EXCEPT ![Path(c)] = @ + 1]
  /\ totalRequests' = IF c \in Active THEN totalRequests + 1 ELSE totalRequests
  /\ UNCHANGED <<ctxDone, followed, requestCount, totalMutations, perTarget>>

(* Fault: the deferred release is set up before the select.                *)
GiveUpReleasing(c) ==
  /\ ctxDone
  /\ End(c, "slot", "ctx")
  /\ sem' = [sem EXCEPT ![Path(c)] = @ - 1]
  /\ UNCHANGED <<ctxDone, followed, counters>>

(* The ctx.Done() case of the select.                                      *)
GiveUp(c) ==
  /\ ctxDone
  /\ End(c, "slot", "ctx")
  /\ UNCHANGED <<ctxDone, sem, followed, counters>>

(* client.Do has an answer that redirects to a host in scope               *)
(* (CheckRedirect) and sends a request there, under the slot of the call.  *)
(* What an original follows is not counted: no budget is meant to bound it.*)
FollowRedirect(c) ==
  /\ c \in Charged /\ followed[c] < Redirects
  /\ Goto(c, "sending", "sending")
  /\ followed' = [followed EXCEPT ![c] = @ + 1]
  /\ UNCHANGED <<ctxDone, sem, counters>>

(* Fault: a request that fails keeps its slot.                             *)
FinishKeepingSlot(c) ==
  /\ End(c, "sending", "sent")
  /\ \/ sem' = [sem EXCEPT ![Path(c)] = @ - 1]
     \/ UNCHANGED sem
  /\ UNCHANGED <<ctxDone, followed, counters>>

(* client.Do returns: an answer, which is that of the last redirect where  *)
(* the limit or the scope ends the chain, or an error (transport, timeout, *)
(* context, an address out of scope, a request that cannot be built).      *)
Finish(c) ==
  /\ End(c, "sending", "sent")
  /\ sem' = [sem EXCEPT ![Path(c)] = @ - 1]
  /\ UNCHANGED <<ctxDone, followed, counters>>

CallerCancels ==
  /\ ~ctxDone
  /\ ctxDone' = TRUE
  /\ UNCHANGED <<pc, result, sem, followed, counters>>

Step(c) ==
  \/ CheckScope(c)
  \/ ChargeRequest(c)
  \/ PassLimiter(c)
  \/ Validate(c)
  \/ ChargeTotal(c)
  \/ ChargeTarget(c)
  \/ ResolveAndValidate(c)
  \/ TakeSlot(c)
  \/ GiveUp(c)
  \/ FollowRedirect(c)
  \/ Finish(c)

Next == CallerCancels \/ \E c \in Calls : Step(c)

Spec == Init /\ [][Next]_vars

(* Some goroutine that can go on does, and a request ends by the Timeout.  *)
(* That each is served in turn need not be assumed: a call takes a bounded *)
(* number of steps.                                                        *)
FairSpec == Spec /\ WF_vars(\E c \in Calls : Step(c))

-----------------------------------------------------------------------------
Typed ==
  /\ pc \in [Calls -> PC]
  /\ result \in [Calls -> Result]
  /\ ctxDone \in BOOLEAN
  /\ sem \in [Paths -> Int]
  /\ followed \in [Charged -> 0..Redirects]
  /\ requestCount \in Nat
  /\ totalRequests \in Nat
  /\ totalMutations \in Nat
  /\ perTarget \in [Targets -> Nat]

(* Type invariant: every variable has its type, a semaphore holds between  *)
(* no slot and Limit, and only an ended call has a result.                 *)
TypeOK ==
  /\ Typed
  /\ sem \in [Paths -> 0..Limit]
  /\ \A c \in Calls : (result[c] = "none") <=> (pc[c] # "ended")

(* Calls whose request the HTTP client was given.                          *)
HandedOver(c) == pc[c] = "sending" \/ result[c] = "sent"
Handed(S) == {c \in S : HandedOver(c)}
InFlight(S) == {c \in S : pc[c] = "sending"}

(* The requests that the client was to send for the calls of S: of each the*)
(* first, which may fail to be sent, and one for each redirect.            *)
Outbound(S) == UNION {{c} \X (0..followed[c]) : c \in Handed(S)}

(* A ceiling on calls bounds the calls that are handed to the client, and  *)
(* the requests these send as far as each follows no more than             *)
(* MaxRedirects redirects.                                                 *)
Bounds(max, S) ==
  max > 0 => /\ Cardinality(Handed(S)) <= max
             /\ Cardinality(Outbound(S)) <= max * Hops

MutatedAt(t) == {c \in Mutated : Target[c] = t}

(* MaxRequests and the two mutation budgets are ceilings on calls, however *)
(* the calls interleave and whatever is refused in between.  They are none *)
(* on requests, which config.go and executor.go call them: a call follows  *)
(* redirects under the one charge it paid, so what a target sees is only   *)
(* bounded by the ceiling times Hops, six times as much by default.        *)
Ceilings ==
  /\ Bounds(MaxRequests, Passive)
  /\ Bounds(MaxTotal, Mutated)
  /\ \A t \in Targets : Bounds(MaxPerTarget, MutatedAt(t))

(* Each executor bounds its own requests in flight, and its semaphore      *)
(* holds exactly those: no way out of a call leaks or doubles a slot.      *)
FlightsBounded ==
  /\ sem["do"] = Cardinality(InFlight(Passive))
  /\ sem["mutation"] = Cardinality(InFlight(Active))
  /\ \A p \in Paths : sem[p] <= Limit

MinOf(m, n) == IF m <= n THEN m ELSE n

(* Budgets are not eaten by calls that never had a chance: a Do call that  *)
(* is rejected costs nothing, so as many of the others are handed to the   *)
(* HTTP client as MaxRequests allows, and an original is never refused for *)
(* a budget.                                                               *)
BudgetIsUsable ==
  LET eligible == Cardinality({c \in Passive : result[c] # "rejected"})
  IN  /\ (\A c \in Passive : pc[c] = "ended" /\ result[c] # "ctx") =>
           Cardinality(Handed(Passive)) =
             IF MaxRequests > 0 THEN MinOf(MaxRequests, eligible) ELSE eligible
      /\ \A c \in Original : result[c] # "budget"

(* No call waits forever, for a slot or for anything else.                 *)
EveryCallEnds == <>(\A c \in Calls : pc[c] = "ended")
=============================================================================
