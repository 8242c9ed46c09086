------------------------ MODULE RequestExecutorProofs ------------------------
(***************************************************************************)
(* For any number of calls, targets and any limits: no more calls reach    *)
(* the HTTP client than each budget allows, with at most Hops requests     *)
(* each, and each semaphore holds exactly the calls in flight.             *)
(*                                                                         *)
(* A ceiling is not inductive in terms of the calls handed to the client:  *)
(* one that was charged may still be on its way.  Each invariant therefore     *)
(* counts the calls that have passed a charge and were not dropped since;  *)
(* it never exceeds the counter, nor the ceiling.                          *)
(***************************************************************************)
EXTENDS RequestExecutor, FiniteSetTheorems, TLAPS

(* Only an ended call has a result.                                        *)
Unanswered == \A c \in Calls : (result[c] = "none") <=> (pc[c] # "ended")

(* A ceiling of zero or less is none.                                      *)
Within(n, max) == max > 0 => n <= max

(* Calls of S that are at one of the places, or were sent.                 *)
At(S, places) == {c \in S : pc[c] \in places \/ result[c] = "sent"}

AdmittedRequests  == At(Passive, {"limiter", "slot", "sending"})
AdmittedMutations == At(Mutated, {"target", "resolve", "slot", "sending"})
AdmittedTo(t)     == {c \in At(Mutated, {"resolve", "slot", "sending"}) : Target[c] = t}

RequestInv ==
  /\ Cardinality(AdmittedRequests) <= requestCount
  /\ Within(Cardinality(AdmittedRequests), MaxRequests)

TotalInv ==
  /\ Cardinality(AdmittedMutations) <= totalMutations
  /\ Within(Cardinality(AdmittedMutations), MaxTotal)

TargetInv ==
  \A t \in Targets : MaxPerTarget > 0 =>
    /\ Cardinality(AdmittedTo(t)) <= perTarget[t]
    /\ Cardinality(AdmittedTo(t)) <= MaxPerTarget

Inv ==
  /\ Typed /\ Unanswered
  /\ RequestInv /\ TotalInv /\ TargetInv
  /\ FlightsBounded

-----------------------------------------------------------------------------
LEMMA LimitPositive == Limit \in Nat \ {0}
BY ExecutorAssumption DEF ExecutorAssumption, Limit

LEMMA HopsPositive == Redirects \in Nat /\ Hops \in Nat /\ Hops = 1 + Redirects
BY ExecutorAssumption DEF ExecutorAssumption, Hops, Redirects

(* Every set of calls is finite, and what grows by at most one call has at *)
(* most one more element.                                                  *)
LEMMA CallSets ==
  ASSUME NEW S, S \subseteq Calls
  PROVE  IsFiniteSet(S) /\ Cardinality(S) \in Nat
BY ExecutorAssumption, FS_Subset, FS_CardinalityType DEF ExecutorAssumption

LEMMA Shrinks ==
  ASSUME NEW S, S \subseteq Calls, NEW T, T \subseteq S
  PROVE  Cardinality(T) <= Cardinality(S)
BY CallSets, FS_Subset

LEMMA GrowsByOne ==
  ASSUME NEW S, S \subseteq Calls, NEW c \in Calls, NEW T, T \subseteq S \cup {c}
  PROVE  Cardinality(T) <= Cardinality(S) + 1
<1>1. IsFiniteSet(S) /\ Cardinality(S) \in Nat
  BY CallSets
<1>2. /\ IsFiniteSet(S \cup {c})
      /\ Cardinality(S \cup {c}) = IF c \in S THEN Cardinality(S) ELSE Cardinality(S) + 1
  BY <1>1, FS_AddElement
<1>3. Cardinality(T) \in Nat /\ Cardinality(T) <= Cardinality(S \cup {c})
  BY <1>2, FS_Subset, FS_CardinalityType
<1> QED BY <1>1, <1>2, <1>3

-----------------------------------------------------------------------------
LEMMA TypeStep ==
  ASSUME Typed, Unanswered, [Next]_vars
  PROVE  Typed' /\ Unanswered'
<1> USE DEF Typed, Unanswered, PC, Result, Paths
<1>1. CASE CallerCancels
  BY <1>1 DEF CallerCancels, counters
<1>2. CASE UNCHANGED vars
  BY <1>2 DEF vars, counters
<1>3. ASSUME NEW c \in Calls, Step(c)
      PROVE  Typed' /\ Unanswered'
  <2>1. CASE CheckScope(c)
    BY <2>1 DEF CheckScope, Goto, End, counters
  <2>2. CASE ChargeRequest(c)
    BY <2>2 DEF ChargeRequest, Goto, End
  <2>3. CASE PassLimiter(c)
    BY <2>3 DEF PassLimiter, Goto, End, counters
  <2>4. CASE Validate(c)
    BY <2>4 DEF Validate, Goto, End, counters
  <2>5. CASE ChargeTotal(c)
    BY <2>5 DEF ChargeTotal, Goto, End
  <2>6. CASE ChargeTarget(c)
    <3>1. Target[c] \in Targets
      BY <2>6, ExecutorAssumption DEF ChargeTarget, ExecutorAssumption
    <3> QED BY <2>6, <3>1 DEF ChargeTarget, Goto, End
  <2>7. CASE ResolveAndValidate(c)
    BY <2>7 DEF ResolveAndValidate, Goto, End, counters
  <2>8. CASE TakeSlot(c)
    BY <2>8 DEF TakeSlot, Path, Goto
  <2>9. CASE GiveUp(c)
    BY <2>9 DEF GiveUp, End, counters
  <2>10. CASE Finish(c)
    BY <2>10 DEF Finish, Path, End, counters
  <2>11. CASE FollowRedirect(c)
    <3>1. followed' \in [Charged -> 0..Redirects]
      BY <2>11, HopsPositive DEF FollowRedirect
    <3> QED BY <2>11, <3>1 DEF FollowRedirect, Goto, counters
  <2> QED BY <1>3, <2>1, <2>2, <2>3, <2>4, <2>5, <2>6, <2>7, <2>8, <2>9, <2>10, <2>11
          DEF Step
<1> QED BY <1>1, <1>2, <1>3 DEF Next

-----------------------------------------------------------------------------
(* Only a charge admits a call to a budget.                                *)
LEMMA RequestStep ==
  ASSUME Typed, Unanswered, RequestInv, [Next]_vars
  PROVE  RequestInv'
<1> USE DEF AdmittedRequests, At
<1>0. Passive \subseteq Calls
  BY DEF Calls
<1>1. AdmittedRequests \subseteq Calls /\ AdmittedRequests' \subseteq Calls
  BY <1>0
<1>2. Cardinality(AdmittedRequests) \in Nat /\ Cardinality(AdmittedRequests') \in Nat
  BY <1>1, CallSets
<1>3. ASSUME NEW c \in Calls, ChargeRequest(c) PROVE RequestInv'
  <2>1. AdmittedRequests' \subseteq AdmittedRequests \cup {c}
    BY <1>0, <1>3 DEF ChargeRequest, Goto, End, Typed
  <2>2. Cardinality(AdmittedRequests') <= Cardinality(AdmittedRequests) + 1
    BY <1>1, <2>1, GrowsByOne
  <2>3. requestCount' = requestCount + 1
    BY <1>3 DEF ChargeRequest
  <2>4. CASE Exhausted(requestCount', MaxRequests) /\ End(c, "request", "budget")
    <3>1. AdmittedRequests' \subseteq AdmittedRequests
      BY <2>4 DEF End, Typed
    <3>2. Cardinality(AdmittedRequests') <= Cardinality(AdmittedRequests)
      BY <1>1, <3>1, Shrinks
    <3> QED BY <1>2, <2>3, <3>2, ExecutorAssumption
            DEF RequestInv, Within, ExecutorAssumption, Typed
  <2>5. CASE ~Exhausted(requestCount', MaxRequests)
    BY <1>2, <2>2, <2>3, <2>5, ExecutorAssumption
    DEF RequestInv, Within, Exhausted, ExecutorAssumption, Typed
  <2> QED BY <1>3, <2>4, <2>5 DEF ChargeRequest
<1>4. ASSUME requestCount' = requestCount, AdmittedRequests' \subseteq AdmittedRequests
      PROVE  RequestInv'
  <2>1. Cardinality(AdmittedRequests') <= Cardinality(AdmittedRequests)
    BY <1>1, <1>4, Shrinks
  <2> QED BY <1>2, <1>4, <2>1, ExecutorAssumption
          DEF RequestInv, Within, ExecutorAssumption, Typed
<1>5. ASSUME NEW c \in Calls, Step(c), ~ChargeRequest(c)
      PROVE  requestCount' = requestCount /\ AdmittedRequests' \subseteq AdmittedRequests
  <2>1. CASE CheckScope(c) \/ PassLimiter(c)
    BY <1>0, <2>1 DEF CheckScope, PassLimiter, Goto, End, counters, Typed, Unanswered
  <2>2. CASE Validate(c) \/ ChargeTotal(c) \/ ChargeTarget(c) \/ ResolveAndValidate(c)
    BY <1>0, <2>2, ExecutorAssumption
    DEF Validate, ChargeTotal, ChargeTarget, ResolveAndValidate, Goto, End,
        counters, Typed, Unanswered, Active, ExecutorAssumption
  <2>3. CASE TakeSlot(c) \/ GiveUp(c) \/ FollowRedirect(c) \/ Finish(c)
    BY <1>0, <2>3
    DEF TakeSlot, GiveUp, FollowRedirect, Finish, Goto, End, counters, Typed, Unanswered
  <2> QED BY <1>5, <2>1, <2>2, <2>3 DEF Step
<1>6. CASE CallerCancels \/ UNCHANGED vars
  <2>1. requestCount' = requestCount /\ AdmittedRequests' \subseteq AdmittedRequests
    BY <1>6 DEF CallerCancels, vars, counters
  <2> QED BY <1>4, <2>1
<1> QED BY <1>3, <1>4, <1>5, <1>6 DEF Next

LEMMA TotalStep ==
  ASSUME Typed, Unanswered, TotalInv, [Next]_vars
  PROVE  TotalInv'
<1> USE DEF AdmittedMutations, At
<1>0. Mutated \subseteq Calls
  BY DEF Calls, Active
<1>1. AdmittedMutations \subseteq Calls /\ AdmittedMutations' \subseteq Calls
  BY <1>0
<1>2. Cardinality(AdmittedMutations) \in Nat /\ Cardinality(AdmittedMutations') \in Nat
  BY <1>1, CallSets
<1>3. ASSUME NEW c \in Calls, ChargeTotal(c) PROVE TotalInv'
  <2>1. AdmittedMutations' \subseteq AdmittedMutations \cup {c}
    BY <1>0, <1>3 DEF ChargeTotal, Goto, End, Typed
  <2>2. Cardinality(AdmittedMutations') <= Cardinality(AdmittedMutations) + 1
    BY <1>1, <2>1, GrowsByOne
  <2>3. totalMutations' = totalMutations + 1
    BY <1>3 DEF ChargeTotal
  <2>4. CASE Exhausted(totalMutations', MaxTotal) /\ End(c, "total", "budget")
    <3>1. AdmittedMutations' \subseteq AdmittedMutations
      BY <1>0, <2>4 DEF End, Typed
    <3>2. Cardinality(AdmittedMutations') <= Cardinality(AdmittedMutations)
      BY <1>1, <3>1, Shrinks
    <3> QED BY <1>2, <2>3, <3>2, ExecutorAssumption
            DEF TotalInv, Within, ExecutorAssumption, Typed
  <2>5. CASE ~Exhausted(totalMutations', MaxTotal)
    BY <1>2, <2>2, <2>3, <2>5, ExecutorAssumption
    DEF TotalInv, Within, Exhausted, ExecutorAssumption, Typed
  <2> QED BY <1>3, <2>4, <2>5 DEF ChargeTotal
<1>4. ASSUME totalMutations' = totalMutations,
             AdmittedMutations' \subseteq AdmittedMutations
      PROVE  TotalInv'
  <2>1. Cardinality(AdmittedMutations') <= Cardinality(AdmittedMutations)
    BY <1>1, <1>4, Shrinks
  <2> QED BY <1>2, <1>4, <2>1, ExecutorAssumption
          DEF TotalInv, Within, ExecutorAssumption, Typed
<1>5. ASSUME NEW c \in Calls, Step(c), ~ChargeTotal(c)
      PROVE  /\ totalMutations' = totalMutations
             /\ AdmittedMutations' \subseteq AdmittedMutations
  <2>1. CASE CheckScope(c) \/ ChargeRequest(c) \/ PassLimiter(c)
    <3>1. c \notin Mutated
      BY <2>1, ExecutorAssumption
      DEF CheckScope, ChargeRequest, PassLimiter, Active, ExecutorAssumption
    <3> QED BY <1>0, <2>1, <3>1
            DEF CheckScope, ChargeRequest, PassLimiter, Goto, End, counters, Typed
  <2>2. CASE Validate(c)
    BY <1>0, <2>2, ExecutorAssumption
    DEF Validate, Goto, End, counters, Typed, ExecutorAssumption
  <2>3. CASE ChargeTarget(c) \/ ResolveAndValidate(c)
    BY <1>0, <2>3
    DEF ChargeTarget, ResolveAndValidate, Goto, End, counters, Typed
  <2>4. CASE TakeSlot(c) \/ GiveUp(c) \/ FollowRedirect(c) \/ Finish(c)
    BY <1>0, <2>4 DEF TakeSlot, GiveUp, FollowRedirect, Finish, Goto, End, counters, Typed
  <2> QED BY <1>5, <2>1, <2>2, <2>3, <2>4 DEF Step
<1>6. CASE CallerCancels \/ UNCHANGED vars
  <2>1. totalMutations' = totalMutations /\ AdmittedMutations' \subseteq AdmittedMutations
    BY <1>6 DEF CallerCancels, vars, counters
  <2> QED BY <1>4, <2>1
<1> QED BY <1>3, <1>4, <1>5, <1>6 DEF Next

(* The per-target count is kept only when there is a ceiling.              *)
LEMMA TargetStep ==
  ASSUME Typed, Unanswered, TargetInv, [Next]_vars
  PROVE  TargetInv'
<1> SUFFICES ASSUME NEW t \in Targets, MaxPerTarget > 0
             PROVE  /\ Cardinality(AdmittedTo(t)') <= perTarget'[t]
                    /\ Cardinality(AdmittedTo(t)') <= MaxPerTarget
  BY DEF TargetInv, AdmittedTo, At
<1> DEFINE A == AdmittedTo(t)
<1> USE DEF AdmittedTo, At
<1>0. Mutated \subseteq Calls
  BY DEF Calls, Active
<1>1. A \subseteq Calls /\ A' \subseteq Calls
  BY <1>0
<1>2. Cardinality(A) \in Nat /\ Cardinality(A') \in Nat
  BY <1>1, CallSets
<1>3. Cardinality(A) <= perTarget[t] /\ Cardinality(A) <= MaxPerTarget
  BY DEF TargetInv
<1>4. perTarget[t] \in Nat /\ MaxPerTarget \in Int
  BY ExecutorAssumption DEF Typed, ExecutorAssumption
<1>5. ASSUME perTarget'[t] = perTarget[t], A' \subseteq A
      PROVE  Cardinality(A') <= perTarget'[t] /\ Cardinality(A') <= MaxPerTarget
  <2>1. Cardinality(A') <= Cardinality(A)
    BY <1>1, <1>5, Shrinks
  <2> QED BY <1>2, <1>3, <1>4, <1>5, <2>1
<1>6. ASSUME NEW c \in Calls, ChargeTarget(c)
      PROVE  Cardinality(A') <= perTarget'[t] /\ Cardinality(A') <= MaxPerTarget
  <2>1. CASE Target[c] # t
    <3>1. perTarget'[t] = perTarget[t]
      BY <1>6, <2>1 DEF ChargeTarget, Typed
    <3>2. A' \subseteq A
      BY <1>0, <1>6, <2>1 DEF ChargeTarget, Goto, End, Typed
    <3> QED BY <1>5, <3>1, <3>2
  <2>2. CASE Target[c] = t
    <3>1. perTarget'[t] = perTarget[t] + 1
      BY <1>6, <2>2 DEF ChargeTarget, Typed
    <3>2. CASE Exhausted(perTarget[t] + 1, MaxPerTarget) /\ End(c, "target", "budget")
      <4>1. A' \subseteq A
        BY <1>0, <3>2 DEF End, Typed
      <4>2. Cardinality(A') <= Cardinality(A)
        BY <1>1, <4>1, Shrinks
      <4> QED BY <1>2, <1>3, <1>4, <3>1, <4>2
    <3>3. CASE ~Exhausted(perTarget[t] + 1, MaxPerTarget)
      <4>1. A' \subseteq A \cup {c}
        BY <1>0, <1>6 DEF ChargeTarget, Goto, End, Typed
      <4>2. Cardinality(A') <= Cardinality(A) + 1
        BY <1>1, <4>1, GrowsByOne
      <4> QED BY <1>2, <1>3, <1>4, <3>1, <3>3, <4>2 DEF Exhausted
    <3> QED BY <1>6, <2>2, <3>2, <3>3 DEF ChargeTarget
  <2> QED BY <2>1, <2>2
<1>7. ASSUME NEW c \in Calls, Step(c), ~ChargeTarget(c)
      PROVE  perTarget' = perTarget /\ A' \subseteq A
  <2>1. CASE CheckScope(c) \/ ChargeRequest(c) \/ PassLimiter(c)
    <3>1. c \notin Mutated
      BY <2>1, ExecutorAssumption
      DEF CheckScope, ChargeRequest, PassLimiter, Active, ExecutorAssumption
    <3> QED BY <1>0, <2>1, <3>1
            DEF CheckScope, ChargeRequest, PassLimiter, Goto, End, counters, Typed
  <2>2. CASE Validate(c)
    BY <1>0, <2>2, ExecutorAssumption
    DEF Validate, Goto, End, counters, Typed, ExecutorAssumption
  <2>3. CASE ChargeTotal(c) \/ ResolveAndValidate(c)
    BY <1>0, <2>3
    DEF ChargeTotal, ResolveAndValidate, Goto, End, counters, Typed
  <2>4. CASE TakeSlot(c) \/ GiveUp(c) \/ FollowRedirect(c) \/ Finish(c)
    BY <1>0, <2>4 DEF TakeSlot, GiveUp, FollowRedirect, Finish, Goto, End, counters, Typed
  <2> QED BY <1>7, <2>1, <2>2, <2>3, <2>4 DEF Step
<1>8. CASE CallerCancels \/ UNCHANGED vars
  <2>1. perTarget' = perTarget /\ A' \subseteq A
    BY <1>8 DEF CallerCancels, vars, counters
  <2> QED BY <1>5, <2>1
<1> QED BY <1>5, <1>6, <1>7, <1>8 DEF Next

-----------------------------------------------------------------------------
(* A slot is taken exactly when a call starts to send and given back when  *)
(* it ends, on every path.                                                 *)
LEMMA FlightStep ==
  ASSUME Typed, Unanswered, FlightsBounded, [Next]_vars
  PROVE  FlightsBounded'
<1> DEFINE P == InFlight(Passive)
           A == InFlight(Active)
<1> USE DEF InFlight, Paths
<1>0. Passive \subseteq Calls /\ Active \subseteq Calls /\ Passive \cap Active = {}
  BY ExecutorAssumption DEF Calls, ExecutorAssumption
<1>1. P \subseteq Calls /\ A \subseteq Calls /\ P' \subseteq Calls /\ A' \subseteq Calls
  BY <1>0
<1>2. /\ IsFiniteSet(P) /\ Cardinality(P) \in Nat
      /\ IsFiniteSet(A) /\ Cardinality(A) \in Nat
  BY <1>1, CallSets
<1>3. Limit \in Nat
  BY LimitPositive
<1>4. ASSUME P' = P, A' = A, sem' = sem PROVE FlightsBounded'
  BY <1>4 DEF FlightsBounded
<1>9. /\ sem["do"] = Cardinality(P) /\ sem["mutation"] = Cardinality(A)
      /\ sem["do"] <= Limit /\ sem["mutation"] <= Limit
  BY DEF FlightsBounded
<1>10. ASSUME sem'["do"] = Cardinality(P'), sem'["mutation"] = Cardinality(A'),
              sem'["do"] <= Limit, sem'["mutation"] <= Limit
       PROVE  FlightsBounded'
  BY <1>10 DEF FlightsBounded
<1>5. ASSUME NEW c \in Calls, TakeSlot(c) PROVE FlightsBounded'
  <2>1. pc[c] # "sending" /\ pc'[c] = "sending" /\ sem[Path(c)] < Limit
    BY <1>5 DEF TakeSlot, Goto, Typed
  <2>2. CASE c \in Passive
    <3>1. P' = P \cup {c} /\ c \notin P /\ A' = A
      BY <1>0, <1>5, <2>1, <2>2 DEF TakeSlot, Goto, Typed
    <3>2. Cardinality(P') = Cardinality(P) + 1
      BY <1>2, <3>1, FS_AddElement
    <3>3. sem'["do"] = sem["do"] + 1 /\ sem'["mutation"] = sem["mutation"]
      BY <1>5, <2>2 DEF TakeSlot, Path, Typed
    <3>4. sem["do"] < Limit
      BY <2>1, <2>2 DEF Path
    <3>5. sem'["do"] = Cardinality(P') /\ sem'["do"] <= Limit
      BY <1>2, <1>3, <1>9, <3>2, <3>3, <3>4
    <3>6. sem'["mutation"] = Cardinality(A') /\ sem'["mutation"] <= Limit
      BY <1>9, <3>1, <3>3
    <3> QED BY <1>10, <3>5, <3>6
  <2>3. CASE c \in Active
    <3>1. A' = A \cup {c} /\ c \notin A /\ P' = P
      BY <1>0, <1>5, <2>1, <2>3 DEF TakeSlot, Goto, Typed
    <3>2. Cardinality(A') = Cardinality(A) + 1
      BY <1>2, <3>1, FS_AddElement
    <3>3. sem'["mutation"] = sem["mutation"] + 1 /\ sem'["do"] = sem["do"]
      BY <1>0, <1>5, <2>3 DEF TakeSlot, Path, Typed
    <3>4. sem["mutation"] < Limit
      BY <1>0, <2>1, <2>3 DEF Path
    <3>5. sem'["mutation"] = Cardinality(A') /\ sem'["mutation"] <= Limit
      BY <1>2, <1>3, <1>9, <3>2, <3>3, <3>4
    <3>6. sem'["do"] = Cardinality(P') /\ sem'["do"] <= Limit
      BY <1>9, <3>1, <3>3
    <3> QED BY <1>10, <3>5, <3>6
  <2> QED BY <2>2, <2>3 DEF Calls
<1>6. ASSUME NEW c \in Calls, Finish(c) PROVE FlightsBounded'
  <2>1. pc[c] = "sending" /\ pc'[c] = "ended"
    BY <1>6 DEF Finish, End, Typed
  <2>2. CASE c \in Passive
    <3>1. P' = P \ {c} /\ c \in P /\ A' = A
      BY <1>0, <1>6, <2>1, <2>2 DEF Finish, End, Typed
    <3>2. Cardinality(P') = Cardinality(P) - 1
      BY <1>2, <3>1, FS_RemoveElement
    <3>3. sem'["do"] = sem["do"] - 1 /\ sem'["mutation"] = sem["mutation"]
      BY <1>6, <2>2 DEF Finish, Path, Typed
    <3>5. sem'["do"] = Cardinality(P') /\ sem'["do"] <= Limit
      BY <1>2, <1>3, <1>9, <3>2, <3>3
    <3>6. sem'["mutation"] = Cardinality(A') /\ sem'["mutation"] <= Limit
      BY <1>9, <3>1, <3>3
    <3> QED BY <1>10, <3>5, <3>6
  <2>3. CASE c \in Active
    <3>1. A' = A \ {c} /\ c \in A /\ P' = P
      BY <1>0, <1>6, <2>1, <2>3 DEF Finish, End, Typed
    <3>2. Cardinality(A') = Cardinality(A) - 1
      BY <1>2, <3>1, FS_RemoveElement
    <3>3. sem'["mutation"] = sem["mutation"] - 1 /\ sem'["do"] = sem["do"]
      BY <1>0, <1>6, <2>3 DEF Finish, Path, Typed
    <3>5. sem'["mutation"] = Cardinality(A') /\ sem'["mutation"] <= Limit
      BY <1>2, <1>3, <1>9, <3>2, <3>3
    <3>6. sem'["do"] = Cardinality(P') /\ sem'["do"] <= Limit
      BY <1>9, <3>1, <3>3
    <3> QED BY <1>10, <3>5, <3>6
  <2> QED BY <2>2, <2>3 DEF Calls
<1>7. ASSUME NEW c \in Calls, Step(c), ~TakeSlot(c), ~Finish(c)
      PROVE  P' = P /\ A' = A /\ sem' = sem
  <2>1. CASE CheckScope(c) \/ ChargeRequest(c) \/ PassLimiter(c) \/ GiveUp(c) \/ FollowRedirect(c)
    BY <1>0, <2>1
    DEF CheckScope, ChargeRequest, PassLimiter, GiveUp, FollowRedirect, Goto, End, Typed
  <2>2. CASE Validate(c) \/ ChargeTotal(c) \/ ChargeTarget(c) \/ ResolveAndValidate(c)
    BY <1>0, <2>2
    DEF Validate, ChargeTotal, ChargeTarget, ResolveAndValidate, Goto, End, Typed
  <2> QED BY <1>7, <2>1, <2>2 DEF Step
<1>8. CASE CallerCancels \/ UNCHANGED vars
  <2>1. P' = P /\ A' = A /\ sem' = sem
    BY <1>8 DEF CallerCancels, vars
  <2> QED BY <1>4, <2>1
<1> QED BY <1>4, <1>5, <1>6, <1>7, <1>8 DEF Next

-----------------------------------------------------------------------------
(* Products of natural numbers grow with their factors.                    *)
LEMMA TimesGrows ==
  ASSUME NEW a \in Nat, NEW b \in Nat, NEW h \in Nat, a <= b
  PROVE  a * h <= b * h
<1>1. b * h = a * h + (b - a) * h
  OBVIOUS
<1>2. b - a \in Nat
  OBVIOUS
<1>3. (b - a) * h \in Nat /\ a * h \in Nat /\ b * h \in Nat
  BY <1>2
<1> QED BY ONLY <1>1, <1>3

(* What a ceiling does for the calls it does, times Hops, for what they    *)
(* send.                                                                   *)
LEMMA BoundsFromCalls ==
  ASSUME NEW S, S \subseteq Charged, Typed,
         NEW max \in Int, Within(Cardinality(Handed(S)), max)
  PROVE  Bounds(max, S)
<1> DEFINE H == Handed(S)
           K == 0..Redirects
<1>0. S \subseteq Calls
  BY DEF Charged, Calls, Active
<1>1. IsFiniteSet(H) /\ Cardinality(H) \in Nat
  <2>1. H \subseteq Calls
    BY <1>0 DEF Handed
  <2> QED BY <2>1, CallSets
<1>2. IsFiniteSet(K) /\ Cardinality(K) = Hops
  BY HopsPositive, FS_Interval
<1>3. Outbound(S) \subseteq H \X K
  <2> SUFFICES ASSUME NEW c \in H, NEW i \in 0..followed[c] PROVE <<c, i>> \in H \X K
    BY DEF Outbound
  <2>1. followed[c] \in 0..Redirects
    BY DEF Typed, Handed
  <2>2. i \in K
    BY <2>1, HopsPositive
  <2> QED BY <2>2
<1> HIDE DEF H, K
<1>4. IsFiniteSet(H \X K) /\ Cardinality(H \X K) = Cardinality(H) * Hops
  BY <1>1, <1>2, FS_Product
<1>5. Cardinality(Outbound(S)) \in Nat /\ Cardinality(Outbound(S)) <= Cardinality(H) * Hops
  BY <1>3, <1>4, FS_Subset, FS_CardinalityType
<1>6. ASSUME max > 0 PROVE Cardinality(Outbound(S)) <= max * Hops
  <2>1. max \in Nat /\ Cardinality(H) <= max
    BY <1>6 DEF Within, H
  <2>2. Cardinality(H) * Hops <= max * Hops
    BY <1>1, <2>1, HopsPositive, TimesGrows
  <2>3. Cardinality(H) * Hops \in Int /\ max * Hops \in Int
    BY <1>1, HopsPositive
  <2> QED BY ONLY <1>5, <2>2, <2>3
<1> QED BY <1>6 DEF Bounds, Within

-----------------------------------------------------------------------------
LEMMA InvInit == Init => Inv
<1> SUFFICES ASSUME Init PROVE Inv
  OBVIOUS
<1> USE DEF Init
<1>1. Typed
  <2>1. pc \in [Calls -> PC] /\ result \in [Calls -> Result] /\ ctxDone \in BOOLEAN
    BY DEF PC, Result
  <2>2. sem \in [Paths -> Int]
    OBVIOUS
  <2>4. followed \in [Charged -> 0..Redirects]
    BY HopsPositive
  <2>3. /\ requestCount \in Nat /\ totalRequests \in Nat /\ totalMutations \in Nat
        /\ perTarget \in [Targets -> Nat]
    OBVIOUS
  <2> QED BY <2>1, <2>2, <2>3, <2>4 DEF Typed
<1>6. Unanswered
  BY DEF Unanswered
<1>2. /\ AdmittedRequests = {} /\ AdmittedMutations = {}
      /\ \A t \in Targets : AdmittedTo(t) = {}
      /\ InFlight(Passive) = {} /\ InFlight(Active) = {}
  BY DEF AdmittedRequests, AdmittedMutations, AdmittedTo, At, InFlight, Calls, Active
<1>3. Cardinality({}) = 0
  BY FS_EmptySet
<1>4. RequestInv /\ TotalInv /\ TargetInv
  <2>1. RequestInv /\ TotalInv
    BY <1>2, <1>3, ExecutorAssumption DEF RequestInv, TotalInv, Within, ExecutorAssumption
  <2>2. TargetInv
    BY <1>2, <1>3, ExecutorAssumption DEF TargetInv, ExecutorAssumption
  <2> QED BY <2>1, <2>2
<1>5. FlightsBounded
  BY <1>2, <1>3, LimitPositive DEF FlightsBounded, Paths
<1> QED BY <1>1, <1>4, <1>5, <1>6 DEF Inv

LEMMA InvStep == Inv /\ [Next]_vars => Inv'
BY TypeStep, RequestStep, TotalStep, TargetStep, FlightStep DEF Inv

(* Every variable keeps its type and a semaphore its bounds.               *)
THEOREM RequestTypeCorrect == Spec => []TypeOK
<1>1. Inv => TypeOK
  <2> SUFFICES ASSUME Inv PROVE TypeOK
    OBVIOUS
  <2>1. Cardinality(InFlight(Passive)) \in Nat /\ Cardinality(InFlight(Active)) \in Nat
    BY CallSets DEF InFlight, Calls
  <2>2. sem \in [Paths -> 0..Limit]
    BY <2>1, LimitPositive DEF Inv, Typed, FlightsBounded, Paths
  <2> QED BY <2>2 DEF Inv, TypeOK, Unanswered
<1> QED BY <1>1, InvInit, InvStep, PTL DEF Spec

(* For any limits and however the calls interleave: no more calls are      *)
(* handed to the client than MaxRequests, MaxTotalMutations and            *)
(* MaxMutationsPerTarget allow, and with the redirects they follow these   *)
(* send no more than 1 + MaxRedirects requests for each.                   *)
THEOREM CeilingsHold == Spec => []Ceilings
<1>1. Inv => Ceilings
  <2> SUFFICES ASSUME Inv PROVE Ceilings
    OBVIOUS
  <2> USE DEF Handed, HandedOver, At
  <2>0. /\ Passive \subseteq Calls /\ Mutated \subseteq Calls
        /\ Passive \subseteq Charged /\ Mutated \subseteq Charged
    BY DEF Calls, Active, Charged
  <2>9. /\ Typed
        /\ MaxRequests \in Int /\ MaxTotal \in Int /\ MaxPerTarget \in Int
    BY ExecutorAssumption DEF Inv, ExecutorAssumption
  <2>1. Within(Cardinality(Handed(Passive)), MaxRequests)
    <3>1. Handed(Passive) \subseteq AdmittedRequests /\ AdmittedRequests \subseteq Calls
      BY <2>0 DEF AdmittedRequests
    <3>2. Cardinality(Handed(Passive)) <= Cardinality(AdmittedRequests)
      BY <3>1, Shrinks
    <3>3. Cardinality(Handed(Passive)) \in Nat /\ Cardinality(AdmittedRequests) \in Nat
      BY <3>1, CallSets
    <3> QED BY <3>2, <3>3, ExecutorAssumption
            DEF Inv, RequestInv, Within, ExecutorAssumption
  <2>2. Within(Cardinality(Handed(Mutated)), MaxTotal)
    <3>1. Handed(Mutated) \subseteq AdmittedMutations /\ AdmittedMutations \subseteq Calls
      BY <2>0 DEF AdmittedMutations
    <3>2. Cardinality(Handed(Mutated)) <= Cardinality(AdmittedMutations)
      BY <3>1, Shrinks
    <3>3. Cardinality(Handed(Mutated)) \in Nat /\ Cardinality(AdmittedMutations) \in Nat
      BY <3>1, CallSets
    <3> QED BY <3>2, <3>3, ExecutorAssumption
            DEF Inv, TotalInv, Within, ExecutorAssumption
  <2>3. ASSUME NEW t \in Targets
        PROVE  Within(Cardinality(Handed(MutatedAt(t))), MaxPerTarget)
    <3> DEFINE W == Handed(MutatedAt(t))
    <3>1. W \subseteq AdmittedTo(t) /\ AdmittedTo(t) \subseteq Calls
      BY <2>0 DEF AdmittedTo, MutatedAt
    <3>2. Cardinality(W) <= Cardinality(AdmittedTo(t))
      BY <3>1, Shrinks
    <3>3. Cardinality(W) \in Nat /\ Cardinality(AdmittedTo(t)) \in Nat
      BY <3>1, CallSets
    <3> QED BY <3>2, <3>3, ExecutorAssumption
            DEF Inv, TargetInv, Within, ExecutorAssumption
  <2> HIDE DEF Handed, HandedOver, At
  <2>4. Bounds(MaxRequests, Passive) /\ Bounds(MaxTotal, Mutated)
    BY <2>0, <2>1, <2>2, <2>9, BoundsFromCalls
  <2>5. \A t \in Targets : Bounds(MaxPerTarget, MutatedAt(t))
    BY <2>0, <2>3, <2>9, BoundsFromCalls DEF MutatedAt
  <2> QED BY <2>4, <2>5 DEF Ceilings
<1> QED BY <1>1, InvInit, InvStep, PTL DEF Spec

(* Each executor has as many requests in flight as its semaphore says, and *)
(* never more than Concurrency.                                            *)
THEOREM FlightsAreBounded == Spec => []FlightsBounded
<1>1. Inv => FlightsBounded
  BY DEF Inv
<1> QED BY <1>1, InvInit, InvStep, PTL DEF Spec

-----------------------------------------------------------------------------
(* What the budget refuses is what exceeds it.  As long as no Do call was  *)
(* cut by its context, requestCount is the number of calls that were       *)
(* charged, and as many of them are admitted as MaxRequests allows.        *)

ChargedRequests ==
  {c \in Passive : \/ pc[c] \in {"limiter", "slot", "sending"}
                   \/ result[c] \in {"budget", "sent"}}

NotCut == \A c \in Passive : result[c] # "ctx"

Usable(count) == IF MaxRequests > 0 THEN MinOf(MaxRequests, count) ELSE count

UsableInv ==
  /\ NotCut =>
       /\ requestCount = Cardinality(ChargedRequests)
       /\ Cardinality(AdmittedRequests) = Usable(requestCount)
  /\ \A c \in Original : result[c] # "budget" /\ pc[c] \notin {"total", "target"}

(* What grows by a new call has exactly one more element.                  *)
LEMMA GrowsExactly ==
  ASSUME NEW S, S \subseteq Calls, NEW c \in Calls, c \notin S
  PROVE  Cardinality(S \cup {c}) = Cardinality(S) + 1
BY CallSets, FS_AddElement

LEMMA UsableStep ==
  ASSUME Typed, Unanswered, UsableInv, [Next]_vars
  PROVE  UsableInv'
<1> USE DEF AdmittedRequests, ChargedRequests, At, NotCut
<1>0. /\ Passive \subseteq Calls /\ Active \subseteq Calls /\ Original \subseteq Active
      /\ Passive \cap Active = {} /\ Original \cap Mutated = {}
  BY ExecutorAssumption DEF Calls, Active
<1>1. /\ ChargedRequests \subseteq Calls /\ ChargedRequests' \subseteq Calls
      /\ AdmittedRequests \subseteq Calls /\ AdmittedRequests' \subseteq Calls
  BY <1>0
<1>2. Typed' /\ Unanswered'
  BY TypeStep
<1>3. ASSUME \A c \in Original : result'[c] # "budget" /\ pc'[c] \notin {"total", "target"},
             NotCut' => /\ NotCut
                        /\ requestCount' = requestCount
                        /\ ChargedRequests' = ChargedRequests
                        /\ AdmittedRequests' = AdmittedRequests
      PROVE  UsableInv'
  <2> HIDE DEF AdmittedRequests, ChargedRequests, NotCut
  <2> QED BY <1>3 DEF UsableInv, Usable
<1>4. ASSUME NEW c \in Calls, ChargeRequest(c) PROVE UsableInv'
  <2>1. /\ c \in Passive /\ pc[c] = "request" /\ result[c] = "none"
        /\ requestCount' = requestCount + 1
    BY <1>0, <1>4 DEF ChargeRequest, Goto, End, Typed, Unanswered
  <2>2. c \notin ChargedRequests /\ c \notin AdmittedRequests
    BY <2>1
  <2>3. \A d \in Original : result'[d] # "budget" /\ pc'[d] \notin {"total", "target"}
    BY <1>0, <1>4, <2>1 DEF ChargeRequest, Goto, End, Typed, UsableInv
  <2>4. \A d \in Passive : d # c => pc'[d] = pc[d] /\ result'[d] = result[d]
    BY <1>0, <1>4 DEF ChargeRequest, Goto, End, Typed
  <2>5. IF Exhausted(requestCount', MaxRequests)
         THEN pc'[c] = "ended" /\ result'[c] = "budget"
         ELSE pc'[c] = "limiter" /\ result'[c] = "none"
    BY <1>4, <2>1 DEF ChargeRequest, Goto, End, Typed
  <2>6. ChargedRequests' = ChargedRequests \cup {c}
    BY <2>1, <2>4, <2>5
  <2>7. Cardinality(ChargedRequests') = Cardinality(ChargedRequests) + 1
    BY <1>0, <1>1, <2>2, <2>6, GrowsExactly
  <2>8. NotCut' => NotCut
    BY <2>1, <2>4
  <2>9. CASE Exhausted(requestCount', MaxRequests)
    <3>1. AdmittedRequests' = AdmittedRequests
      BY <2>1, <2>9, <2>4, <2>5
    <3>2. Usable(requestCount') = Usable(requestCount)
      BY <2>1, <2>9, ExecutorAssumption DEF Usable, MinOf, Exhausted, Typed
    <3> HIDE DEF AdmittedRequests, ChargedRequests, NotCut
    <3> QED BY <2>1, <2>3, <2>7, <2>8, <3>1, <3>2 DEF UsableInv
  <2>10. CASE ~Exhausted(requestCount', MaxRequests)
    <3>1. AdmittedRequests' = AdmittedRequests \cup {c}
      BY <2>1, <2>10, <2>4, <2>5
    <3>2. Cardinality(AdmittedRequests') = Cardinality(AdmittedRequests) + 1
      BY <1>0, <1>1, <2>2, <3>1, GrowsExactly
    <3>3. Usable(requestCount') = Usable(requestCount) + 1
      BY <2>1, <2>10, ExecutorAssumption DEF Usable, MinOf, Exhausted, Typed
    <3> HIDE DEF AdmittedRequests, ChargedRequests, NotCut
    <3> QED BY <2>1, <2>3, <2>7, <2>8, <3>2, <3>3 DEF UsableInv
  <2> QED BY <2>9, <2>10
<1>5. ASSUME NEW c \in Calls,
             \/ CheckScope(c) \/ PassLimiter(c) \/ TakeSlot(c)
             \/ GiveUp(c) \/ FollowRedirect(c) \/ Finish(c)
      PROVE  UsableInv'
  <2>1. \A d \in Original : result'[d] # "budget" /\ pc'[d] \notin {"total", "target"}
    BY <1>0, <1>5
    DEF CheckScope, PassLimiter, TakeSlot, GiveUp, FollowRedirect, Finish, Goto, End, Typed,
        UsableInv
  <2>2. NotCut' => NotCut /\ requestCount' = requestCount
    BY <1>5
    DEF CheckScope, PassLimiter, TakeSlot, GiveUp, FollowRedirect, Finish, Goto, End, Typed,
        Unanswered, Calls, counters
  <2>3. NotCut' => ChargedRequests' = ChargedRequests /\ AdmittedRequests' = AdmittedRequests
    BY <1>0, <1>5
    DEF CheckScope, PassLimiter, TakeSlot, GiveUp, FollowRedirect, Finish, Goto, End, Typed,
        Unanswered
  <2> HIDE DEF AdmittedRequests, ChargedRequests, NotCut
  <2> QED BY <1>3, <2>1, <2>2, <2>3
<1>6. ASSUME NEW c \in Calls,
             Validate(c) \/ ChargeTotal(c) \/ ChargeTarget(c) \/ ResolveAndValidate(c)
      PROVE  UsableInv'
  <2>1. c \in Active /\ c \notin Passive
    BY <1>0, <1>6
    DEF Validate, ChargeTotal, ChargeTarget, ResolveAndValidate, Active
  <2>2. \A d \in Original : result'[d] # "budget" /\ pc'[d] \notin {"total", "target"}
    BY <1>0, <1>6
    DEF Validate, ChargeTotal, ChargeTarget, ResolveAndValidate, Goto, End,
        Typed, UsableInv
  <2>3. /\ requestCount' = requestCount
        /\ \A d \in Passive : pc'[d] = pc[d] /\ result'[d] = result[d]
    BY <1>0, <1>6, <2>1
    DEF Validate, ChargeTotal, ChargeTarget, ResolveAndValidate, Goto, End,
        Typed, counters
  <2> QED BY <1>3, <2>2, <2>3
<1>7. CASE CallerCancels \/ UNCHANGED vars
  BY <1>3, <1>7 DEF CallerCancels, vars, counters, UsableInv
<1> QED BY <1>4, <1>5, <1>6, <1>7 DEF Next, Step

(* For any limits and any interleaving: unless its context cuts a call, as *)
(* many Do calls reach the HTTP client as MaxRequests allows of those that *)
(* were not rejected, and no original request is refused for a budget.     *)
THEOREM BudgetIsSpentWell == Spec => []BudgetIsUsable
<1>1. Init => UsableInv
  <2> SUFFICES ASSUME Init PROVE UsableInv
    OBVIOUS
  <2>1. ChargedRequests = {} /\ AdmittedRequests = {}
    BY DEF Init, ChargedRequests, AdmittedRequests, At, Calls
  <2>2. Usable(0) = 0
    BY ExecutorAssumption DEF Usable, MinOf
  <2>3. \A c \in Original : result[c] # "budget" /\ pc[c] \notin {"total", "target"}
    BY DEF Init, Calls, Active
  <2> QED BY <2>1, <2>2, <2>3, FS_EmptySet DEF Init, UsableInv
<1>2. Inv /\ UsableInv /\ [Next]_vars => UsableInv'
  BY UsableStep DEF Inv
<1>3. Inv /\ UsableInv => BudgetIsUsable
  <2> SUFFICES ASSUME Inv, UsableInv PROVE BudgetIsUsable
    OBVIOUS
  <2> DEFINE Eligible == {c \in Passive : result[c] # "rejected"}
  <2>1. ASSUME \A c \in Passive : pc[c] = "ended" /\ result[c] # "ctx"
        PROVE  Cardinality(Handed(Passive)) = Usable(Cardinality(Eligible))
    <3>1. Eligible = ChargedRequests
      BY <2>1 DEF Inv, Unanswered, Typed, Result, Calls, ChargedRequests
    <3>2. Handed(Passive) = AdmittedRequests
      BY <2>1 DEF Handed, HandedOver, AdmittedRequests, At
    <3>3. NotCut
      BY <2>1 DEF NotCut
    <3> HIDE DEF Eligible
    <3> QED BY <3>1, <3>2, <3>3 DEF UsableInv
  <2> QED BY <2>1 DEF UsableInv, BudgetIsUsable, Usable
<1> QED BY <1>1, <1>2, <1>3, InvInit, InvStep, PTL DEF Spec
=============================================================================
