----------------------------- MODULE ReconContext -----------------------------
(***************************************************************************)
(* What the stages of one internal/orchestration.Pipeline.Run share: the   *)
(* stage it is in, its context, the error that ended it, and the DNS and   *)
(* the store it calls.                                                     *)
(***************************************************************************)
EXTENDS Scope

CONSTANTS
  Jobs,          \* the jobs: records targets, profile; a target has a type and a value
  Answers,       \* what a lookup of a name may return: nonempty sets of addresses
  StoreMayFail,  \* the store can return an error
  HasDeadline    \* the context has a deadline

(* What target.Parse makes of an operand.                                  *)
IsTarget(t) ==
  \/ t.type = "ip" /\ IsHost(t.value) /\ t.value.kind = "ip"
  \/ t.type = "cidr" /\ t.value.kind = "cidr"
  \/ t.type \in {"host", "domain"} /\ IsHost(t.value) /\ t.value.kind = "name"

(* Go's resolver answers an empty name with an error.                      *)
ASSUME ReconAssumption ==
  /\ \A j \in Jobs : j.targets \in Seq(Range(j.targets)) /\ \A t \in Range(j.targets) : IsTarget(t)
  /\ \A n \in DOMAIN Answers : n # <<>> /\ Answers[n] \subseteq (SUBSET Addresses) \ {{}}
  /\ {StoreMayFail, HasDeadline} \subseteq BOOLEAN

VARIABLES
  targets, \* the targets of the job, in their order
  stage, \* the stage of Run that is executing
  ctx,   \* the context of the run: live, or done (cancelled or timed out)
  err    \* the error runStages returned

-----------------------------------------------------------------------------
Stages == <<"login", "check", "discover", "ports", "probe", "crawl", "finish", "ended">>
Errors == {"none", "login", "scope", "store", "range", "ctx"}

ContextTypeOK == stage \in Range(Stages) /\ ctx \in {"live", "done"} /\ err \in Errors

(* Ctrl+C, a deadline, or the orchestrator's cancellation of the stage.    *)
Cancel ==
  /\ ctx = "live" /\ stage # "ended"
  /\ ctx' = "done"
  /\ UNCHANGED <<stage, err>>

Keep == UNCHANGED <<stage, ctx, err>>

(* A stage returns nil, and runStages goes on with the next.               *)
Proceed(from, to) ==
  /\ stage = from
  /\ stage' = to
  /\ UNCHANGED <<ctx, err>>

(* A stage returns e; what a done context makes of a call is ctx.Err().    *)
Abort(e) ==
  /\ stage' = "finish"
  /\ err' = IF ctx = "done" THEN "ctx" ELSE e
  /\ UNCHANGED ctx

(* Calls of the store and of the resolver.  With a done context they fail. *)
StoreWorks == ctx = "live"
StoreFails == ctx = "done" \/ StoreMayFail

Resolves(labels, ips) ==
  ctx = "live" /\ labels \in DOMAIN Answers /\ ips \in Answers[labels]

(* rate.Limiter.Wait fails when the context is done, and also when it has  *)
(* a deadline that would pass before the next token.                       *)
LimiterRefuses == ctx = "done" \/ HasDeadline
=============================================================================
