---------------------------- MODULE Orchestrator ----------------------------
(***************************************************************************)
(* internal/orchestrator: concurrent calls of Orchestrator.Run against one *)
(* Orchestrator.  A call waits for a scan slot, drives its nine stages in  *)
(* order and, whatever happened, unwinds through the deferred functions of *)
(* Run, which read the context, release the slot and compute the terminal  *)
(* status.                                                                 *)
(*                                                                         *)
(* A step of a scan is the code between two points where another goroutine *)
(* or a context can matter: the calls into the pipeline, the detection     *)
(* engine and the store are left by an action that chooses what they       *)
(* return, and the test of that result is an action of its own, so that a  *)
(* context may become done in between.                                     *)
(***************************************************************************)
EXTENDS Integers, FiniteSets

CONSTANTS
  Scans,              \* the Run calls made against this Orchestrator
  ReconOnly,          \* the scans whose options disable detection
  MaxConcurrentScans, \* Limits.MaxConcurrentScans as configured
  MaxFindings,        \* Limits.MaxFindings as configured
  HasScanTimeout,     \* Limits.ScanTimeout > 0
  HasStageTimeout,    \* Limits.StageTimeout > 0
  CanonicalBound      \* bound on the canonical findings of one scan

ASSUME OrchestratorAssumption ==
  /\ IsFiniteSet(Scans)
  /\ ReconOnly \subseteq Scans
  /\ MaxConcurrentScans \in Int
  /\ MaxFindings \in Int
  /\ HasScanTimeout \in BOOLEAN
  /\ HasStageTimeout \in BOOLEAN
  /\ CanonicalBound \in Nat

VARIABLES
  pc,         \* where each Run call is
  callerDone, \* the caller's context is done
  scanCtx,    \* the context Run derives when ScanTimeout is set
  stageCtx,   \* the context of the stage call in progress
  slots,      \* number of tokens in the scanSlots channel
  status,     \* ScanState.status
  stages,     \* ScanState.stages
  errors,     \* ScanState.errors, as a set of category and stage
  runErr,     \* Run's runErr: nil, a context error or another error
  ctxDone,    \* Run's snapshot of ctx.Err() # nil
  call,       \* error returned by the pipeline or by the engine
  summary,    \* the RunSummary facts Run looks at
  detection,  \* detSum.State
  canonical,  \* number of canonical findings
  todo,       \* ranked findings whose evidence is still to be built
  packages    \* evidence packages built

ctxVars    == <<callerDone, scanCtx, stageCtx>>
stateVars  == <<status, stages, errors>>
resultVars == <<call, summary, detection>>
itemVars   == <<canonical, todo, packages>>
vars == <<pc, ctxVars, slots, stateVars, runErr, ctxDone, resultVars, itemVars>>

-----------------------------------------------------------------------------
(* Vocabulary of model.go.                                                 *)

Stage == {"SCOPE", "RECON", "DISCOVERY", "DETECTION", "VERIFICATION",
          "CORRELATION", "RISK", "EVIDENCE", "FINALIZATION"}
StageStatus == {"PENDING", "RUNNING", "COMPLETED", "FAILED", "CANCELLED", "SKIPPED"}
Completed == {"COMPLETED", "COMPLETED_WITH_WARNINGS"}
Terminal == Completed \cup {"FAILED", "CANCELLED"}
Status == {"QUEUED", "RUNNING"} \cup Terminal
ErrorCategory == {"FATAL", "STAGE", "DETECTOR", "REQUEST", "WARNING"}
ScanError == [category : ErrorCategory, stage : Stage]
DetectionState == {"NONE", "EXECUTED", "NOT_RUN", "FAILED", "DISABLED_BY_PROFILE"}
Err == {"nil", "ctx", "other"}
Summary == [eligible : BOOLEAN, ran : BOOLEAN, errs : BOOLEAN, cancelled : BOOLEAN]
NoSummary == [eligible |-> FALSE, ran |-> FALSE, errs |-> FALSE, cancelled |-> FALSE]

(* The two stages that one call of the pipeline, or of the engine, covers. *)
ReconStages  == {"RECON", "DISCOVERY"}
DetectStages == {"DETECTION", "VERIFICATION"}

(* Fault: a configured zero is used as it is.                              *)
ScanSlotsNotNormalized == IF MaxConcurrentScans < 0 THEN 5 ELSE MaxConcurrentScans

(* Limits.normalized: a non-positive bound means the default.              *)
ScanSlots     == IF MaxConcurrentScans <= 0 THEN 5 ELSE MaxConcurrentScans
FindingsLimit == IF MaxFindings <= 0 THEN 1000 ELSE MaxFindings

(* Fault: the ranked findings are never cut.                               *)
KeptAll(n) == n

(* How many of n ranked findings MaxFindings lets through.                 *)
Kept(n) == IF n > FindingsLimit THEN FindingsLimit ELSE n

-----------------------------------------------------------------------------
(* Contexts.  A derived context is done when its parent is; releasing a    *)
(* context (its cancel function) leaves it done as well.                   *)

CtxErr(s)   == callerDone[s] \/ scanCtx[s] \in {"expired", "released"}
StageErr(s) == CtxErr(s) \/ stageCtx[s] = "expired"

(* An error a call can return: a context error only under a done context.  *)
CallErr(done) == {"nil", "other"} \cup (IF done THEN {"ctx"} ELSE {})

IsCancellation(done, err) == err = "ctx" \/ done

-----------------------------------------------------------------------------
(* ScanState methods and the control of Run.                               *)

WithStages(s, S, v) ==
  [stages EXCEPT ![s] = [st \in Stage |-> IF st \in S THEN v ELSE stages[s][st]]]

(* Stages S complete and the next stage starts at once.                    *)
CompleteAndStart(s, S, next) ==
  [stages EXCEPT ![s] = [st \in Stage |->
     IF st \in S THEN "COMPLETED" ELSE IF st = next THEN "RUNNING" ELSE stages[s][st]]]

(* Fault: the error is logged but not recorded.                            *)
WithoutError(s, category, stage) == errors

WithError(s, category, stage) ==
  [errors EXCEPT ![s] = errors[s] \cup {[category |-> category, stage |-> stage]}]

Goto(s, from, to) == pc[s] = from /\ pc' = [pc EXCEPT ![s] = to]

(* Start stages S; the call they make gets withStageTimeout's context.     *)
StartStages(s, S) ==
  /\ stages' = WithStages(s, S, "RUNNING")
  /\ UNCHANGED <<status, errors>>

StageContext(s) ==
  stageCtx' = [stageCtx EXCEPT ![s] = IF HasStageTimeout THEN "live" ELSE "none"]

CancelStageContext(s) == stageCtx' = [stageCtx EXCEPT ![s] = "none"]

(* "runErr = err; return"                                                  *)
Return(s, from, err) ==
  /\ Goto(s, from, "Unwind")
  /\ runErr' = [runErr EXCEPT ![s] = err]

(* The ctx.Err() test between two stages, on its failing side.             *)
ReturnIfDone(s, from) ==
  /\ CtxErr(s)
  /\ Return(s, from, "ctx")
  /\ UNCHANGED <<ctxVars, slots, stateVars, ctxDone, resultVars, itemVars>>

(* Fault: warnings do not count.                                           *)
HasDetectorError(s) ==
  \E e \in errors[s] : e.category \in {"DETECTOR", "REQUEST"}

HasWarningOrDetectorError(s) ==
  \E e \in errors[s] : e.category \in {"DETECTOR", "REQUEST", "WARNING"}

(* Faults: a late cancellation is ignored, an error is not looked at, an   *)
(* error is always a failure.                                              *)
TerminalStatusIgnoringCtx(s) ==
  IF runErr[s] = "ctx" THEN "CANCELLED"
  ELSE IF runErr[s] = "other" THEN "FAILED"
  ELSE IF HasWarningOrDetectorError(s) THEN "COMPLETED_WITH_WARNINGS"
  ELSE "COMPLETED"

TerminalStatusIgnoringErrors(s) ==
  IF ctxDone[s] \/ runErr[s] = "ctx" THEN "CANCELLED"
  ELSE IF HasWarningOrDetectorError(s) THEN "COMPLETED_WITH_WARNINGS"
  ELSE "COMPLETED"

TerminalStatusErrorsFirst(s) ==
  IF runErr[s] # "nil" THEN "FAILED"
  ELSE IF ctxDone[s] THEN "CANCELLED"
  ELSE IF HasWarningOrDetectorError(s) THEN "COMPLETED_WITH_WARNINGS"
  ELSE "COMPLETED"

TerminalStatus(s) ==
  IF runErr[s] # "nil"
  THEN IF IsCancellation(ctxDone[s], runErr[s]) THEN "CANCELLED" ELSE "FAILED"
  ELSE IF ctxDone[s] THEN "CANCELLED"
  ELSE IF HasWarningOrDetectorError(s) THEN "COMPLETED_WITH_WARNINGS"
  ELSE "COMPLETED"

-----------------------------------------------------------------------------
Init ==
  /\ pc = [s \in Scans |-> "Queued"]
  /\ callerDone = [s \in Scans |-> FALSE]
  /\ scanCtx = [s \in Scans |-> "none"]
  /\ stageCtx = [s \in Scans |-> "none"]
  /\ slots = 0
  /\ status = [s \in Scans |-> "QUEUED"]
  /\ stages = [s \in Scans |-> [st \in Stage |-> "PENDING"]]
  /\ errors = [s \in Scans |-> {}]
  /\ runErr = [s \in Scans |-> "nil"]
  /\ ctxDone = [s \in Scans |-> FALSE]
  /\ call = [s \in Scans |-> "nil"]
  /\ summary = [s \in Scans |-> NoSummary]
  /\ detection = [s \in Scans |-> "NONE"]
  /\ canonical = [s \in Scans |-> 0]
  /\ todo = [s \in Scans |-> 0]
  /\ packages = [s \in Scans |-> 0]

(* acquireScanSlot gets a token; Run arms the timeout and starts SCOPE.    *)
AcquireSlot(s) ==
  /\ slots < ScanSlots
  /\ slots' = slots + 1
  /\ Goto(s, "Queued", "Scope")
  /\ scanCtx' = [scanCtx EXCEPT ![s] = IF HasScanTimeout THEN "live" ELSE "none"]
  /\ StageContext(s)
  /\ status' = [status EXCEPT ![s] = "RUNNING"]
  /\ stages' = WithStages(s, {"SCOPE"}, "RUNNING")
  /\ UNCHANGED <<callerDone, errors, runErr, ctxDone, resultVars, itemVars>>

(* Fault: the release is deferred before the slot is acquired.             *)
AbandonQueueReleasing(s) ==
  /\ callerDone[s]
  /\ Goto(s, "Queued", "Release")
  /\ runErr' = [runErr EXCEPT ![s] = "ctx"]
  /\ UNCHANGED <<ctxVars, slots, stateVars, ctxDone, resultVars, itemVars>>

(* acquireScanSlot sees the caller's context done: no slot was taken, and  *)
(* only the finalizing deferred function is registered.                    *)
AbandonQueue(s) ==
  /\ callerDone[s]
  /\ Goto(s, "Queued", "Finalize")
  /\ runErr' = [runErr EXCEPT ![s] = "ctx"]
  /\ UNCHANGED <<ctxVars, slots, stateVars, ctxDone, resultVars, itemVars>>

(* resolveAndRegisterTarget.                                               *)
ResolveTarget(s) ==
  /\ CancelStageContext(s)
  /\ \E err \in CallErr(StageErr(s)) :
       \/ /\ err = "nil"
          /\ Goto(s, "Scope", "ScopeDone")
          /\ stages' = WithStages(s, {"SCOPE"}, "COMPLETED")
          /\ UNCHANGED <<errors, runErr>>
       \/ /\ err # "nil"
          /\ Return(s, "Scope", err)
          /\ stages' = WithStages(s, {"SCOPE"}, "FAILED")
          /\ errors' = WithError(s, "FATAL", "SCOPE")
  /\ UNCHANGED <<callerDone, scanCtx, slots, status, ctxDone, resultVars, itemVars>>

StartRecon(s) ==
  \/ ReturnIfDone(s, "ScopeDone")
  \/ /\ ~CtxErr(s)
     /\ Goto(s, "ScopeDone", "Recon")
     /\ StartStages(s, ReconStages)
     /\ StageContext(s)
     /\ UNCHANGED <<callerDone, scanCtx, slots, runErr, ctxDone, resultVars, itemVars>>

(* Pipeline.Run returns.  It answers nil only when its own last look at    *)
(* the context found it live.  A context error needs no done context: the  *)
(* final job update runs under a detached deadline, and its error is       *)
(* returned wrapped.                                                       *)
PipelineReturns(s) ==
  /\ Goto(s, "Recon", "ReconReturned")
  /\ \E err \in Err :
       /\ err = "nil" => ~StageErr(s)
       /\ call' = [call EXCEPT ![s] = err]
  /\ UNCHANGED <<ctxVars, slots, stateVars, runErr, ctxDone, summary, detection, itemVars>>

(* reconCtxDone is read before cancelRecon, then pipelineErr is examined.  *)
JudgeRecon(s) ==
  /\ CancelStageContext(s)
  /\ \/ /\ call[s] = "nil"
        /\ Goto(s, "ReconReturned", "ReconDone")
        /\ stages' = WithStages(s, ReconStages, "COMPLETED")
        /\ UNCHANGED <<errors, runErr>>
     \/ /\ call[s] # "nil"
        /\ Return(s, "ReconReturned", call[s])
        /\ IF IsCancellation(StageErr(s), call[s])
           THEN /\ stages' = WithStages(s, ReconStages, "CANCELLED")
                /\ UNCHANGED errors
           ELSE /\ stages' = WithStages(s, ReconStages, "FAILED")
                /\ errors' = WithError(s, "STAGE", "RECON")
  /\ UNCHANGED <<callerDone, scanCtx, slots, status, ctxDone, resultVars, itemVars>>

StartDetection(s) ==
  \/ ReturnIfDone(s, "ReconDone")
  \/ /\ ~CtxErr(s)
     /\ Goto(s, "ReconDone", "Detect")
     /\ StartStages(s, DetectStages)
     /\ IF s \in ReconOnly THEN UNCHANGED stageCtx ELSE StageContext(s)
     /\ UNCHANGED <<callerDone, scanCtx, slots, runErr, ctxDone, resultVars, itemVars>>

(* The profile disables detection: both stages complete, no engine call,   *)
(* no warning and no context test before CORRELATION starts.               *)
SkipDetection(s) ==
  /\ s \in ReconOnly
  /\ Goto(s, "Detect", "Correlate")
  /\ detection' = [detection EXCEPT ![s] = "DISABLED_BY_PROFILE"]
  /\ stages' = CompleteAndStart(s, DetectStages, "CORRELATION")
  /\ UNCHANGED <<ctxVars, slots, status, errors, runErr, ctxDone, call, summary, itemVars>>

(* buildDetectionExecutor cannot load the scope rules.                     *)
BuildExecutorFails(s) ==
  /\ s \notin ReconOnly
  /\ \E err \in CallErr(StageErr(s)) \ {"nil"} : Return(s, "Detect", err)
  /\ CancelStageContext(s)
  /\ detection' = [detection EXCEPT ![s] = "FAILED"]
  /\ stages' = WithStages(s, DetectStages, "FAILED")
  /\ errors' = WithError(s, "STAGE", "DETECTION")
  /\ UNCHANGED <<callerDone, scanCtx, slots, status, ctxDone, call, summary, itemVars>>

(* The summaries Engine.Run can return (see DetectionEngine): a pair that  *)
(* ran was eligible, an eligible pair that did not run was cancelled or    *)
(* panicked, and a panic is an error.                                      *)
EngineSummary(done) ==
  {m \in Summary : /\ m.ran \/ m.errs => m.eligible
                   /\ m.eligible => m.ran \/ m.errs \/ m.cancelled
                   /\ m.cancelled => done}

EngineReturns(s) ==
  /\ s \notin ReconOnly
  /\ Goto(s, "Detect", "DetectReturned")
  /\ \E err \in CallErr(StageErr(s)), m \in EngineSummary(StageErr(s)) :
       /\ call' = [call EXCEPT ![s] = err]
       /\ summary' = [summary EXCEPT ![s] = m]
  /\ UNCHANGED <<ctxVars, slots, stateVars, runErr, ctxDone, detection, itemVars>>

(* Detector errors are recorded; then the engine's error, a cancellation   *)
(* or a clean end decide.  A clean end starts CORRELATION.                 *)
JudgeDetection(s) ==
  LET detectorErr == IF summary[s].errs
                     THEN {[category |-> "DETECTOR", stage |-> "DETECTION"]} ELSE {}
      Outcome(state, more) ==
        /\ detection' = [detection EXCEPT ![s] = state]
        /\ errors' = [errors EXCEPT ![s] =
             errors[s] \cup detectorErr \cup {[category |-> c, stage |-> "DETECTION"] : c \in more}]
  IN
  /\ CancelStageContext(s)
  /\ \/ /\ call[s] # "nil"
        /\ Return(s, "DetectReturned", call[s])
        /\ Outcome("FAILED", {"STAGE"})
        /\ stages' = WithStages(s, DetectStages, "FAILED")
     \/ /\ call[s] = "nil"
        /\ summary[s].cancelled \/ CtxErr(s)
        /\ Return(s, "DetectReturned", "ctx")
        /\ Outcome("FAILED", {})
        /\ stages' = WithStages(s, DetectStages, "CANCELLED")
     \/ /\ call[s] = "nil"
        /\ ~summary[s].cancelled
        /\ ~CtxErr(s)
        /\ Goto(s, "DetectReturned", "Correlate")
        /\ IF summary[s].ran THEN Outcome("EXECUTED", {})
                             ELSE Outcome("NOT_RUN", {"WARNING"})
        /\ stages' = CompleteAndStart(s, DetectStages, "CORRELATION")
        /\ UNCHANGED runErr
  /\ UNCHANGED <<callerDone, scanCtx, slots, status, ctxDone, call, summary, itemVars>>

(* Findings().ListByScanJob and the in-memory correlation.                 *)
ListFindings(s) ==
  /\ \E err \in CallErr(CtxErr(s)) :
       \/ /\ err = "nil"
          /\ Goto(s, "Correlate", "SaveChains")
          /\ \E n \in 0..CanonicalBound : canonical' = [canonical EXCEPT ![s] = n]
          /\ UNCHANGED <<stages, errors, runErr>>
       \/ /\ err # "nil"
          /\ Return(s, "Correlate", err)
          /\ stages' = WithStages(s, {"CORRELATION"}, "FAILED")
          /\ errors' = WithError(s, "STAGE", "CORRELATION")
          /\ UNCHANGED canonical
  /\ UNCHANGED <<ctxVars, slots, status, ctxDone, resultVars, todo, packages>>

(* Chains().SaveResult: its failure is only a warning.                     *)
SaveChains(s) ==
  /\ Goto(s, "SaveChains", "CorrelationDone")
  /\ stages' = WithStages(s, {"CORRELATION"}, "COMPLETED")
  /\ \/ UNCHANGED errors
     \/ errors' = WithError(s, "WARNING", "CORRELATION")
  /\ UNCHANGED <<ctxVars, slots, status, runErr, ctxDone, resultVars, itemVars>>

StartRisk(s) ==
  \/ ReturnIfDone(s, "CorrelationDone")
  \/ /\ ~CtxErr(s)
     /\ Goto(s, "CorrelationDone", "Risk")
     /\ StartStages(s, {"RISK"})
     /\ UNCHANGED <<ctxVars, slots, runErr, ctxDone, resultVars, itemVars>>

AssessRisk(s) ==
  /\ Goto(s, "Risk", "RiskDone")
  /\ stages' = WithStages(s, {"RISK"}, "COMPLETED")
  /\ UNCHANGED <<ctxVars, slots, status, errors, runErr, ctxDone, resultVars, itemVars>>

(* Ranked findings beyond MaxFindings are dropped before EVIDENCE.         *)
StartEvidence(s) ==
  \/ ReturnIfDone(s, "RiskDone")
  \/ /\ ~CtxErr(s)
     /\ Goto(s, "RiskDone", "Evidence")
     /\ StartStages(s, {"EVIDENCE"})
     /\ todo' = [todo EXCEPT ![s] = Kept(canonical[s])]
     /\ UNCHANGED <<ctxVars, slots, runErr, ctxDone, resultVars, canonical, packages>>

(* One iteration of the evidence loop: the context is tested first, and a  *)
(* package that cannot be built is a warning, not a failure.               *)
BuildPackage(s) ==
  /\ todo[s] > 0
  /\ \/ /\ CtxErr(s)
        /\ Return(s, "Evidence", "ctx")
        /\ stages' = WithStages(s, {"EVIDENCE"}, "CANCELLED")
        /\ UNCHANGED <<errors, todo, packages>>
     \/ /\ ~CtxErr(s)
        /\ Goto(s, "Evidence", "Evidence")
        /\ todo' = [todo EXCEPT ![s] = @ - 1]
        /\ \/ /\ packages' = [packages EXCEPT ![s] = @ + 1]
              /\ UNCHANGED errors
           \/ /\ errors' = WithError(s, "WARNING", "EVIDENCE")
              /\ UNCHANGED packages
        /\ UNCHANGED <<stages, runErr>>
  /\ UNCHANGED <<ctxVars, slots, status, ctxDone, resultVars, canonical>>

EvidenceComplete(s) ==
  /\ todo[s] = 0
  /\ Goto(s, "Evidence", "EvidenceDone")
  /\ stages' = WithStages(s, {"EVIDENCE"}, "COMPLETED")
  /\ UNCHANGED <<ctxVars, slots, status, errors, runErr, ctxDone, resultVars, itemVars>>

(* FINALIZATION: a truncation is recorded as a warning, and Run returns    *)
(* without another look at the context.                                    *)
CompleteFinalization(s) ==
  \/ ReturnIfDone(s, "EvidenceDone")
  \/ /\ ~CtxErr(s)
     /\ Goto(s, "EvidenceDone", "Unwind")
     /\ stages' = WithStages(s, {"FINALIZATION"}, "COMPLETED")
     /\ IF canonical[s] > FindingsLimit
        THEN errors' = WithError(s, "WARNING", "FINALIZATION")
        ELSE UNCHANGED errors
     /\ UNCHANGED <<ctxVars, slots, status, runErr, ctxDone, resultVars, itemVars>>

-----------------------------------------------------------------------------
(* The deferred functions, last registered first: read the context, cancel *)
(* the scan's own context, release the slot, finalize.                     *)

(* Fault: the snapshot is taken after the scan's own context is cancelled. *)
SnapshotAfterCancel(s) ==
  /\ Goto(s, "Unwind", "Cleanup")
  /\ ctxDone' = [ctxDone EXCEPT ![s] = CtxErr(s) \/ HasScanTimeout]
  /\ UNCHANGED <<ctxVars, slots, stateVars, runErr, resultVars, itemVars>>

SnapshotCtx(s) ==
  /\ Goto(s, "Unwind", "Cleanup")
  /\ ctxDone' = [ctxDone EXCEPT ![s] = CtxErr(s)]
  /\ UNCHANGED <<ctxVars, slots, stateVars, runErr, resultVars, itemVars>>

CancelScanCtx(s) ==
  /\ Goto(s, "Cleanup", "Release")
  /\ scanCtx' = [scanCtx EXCEPT ![s] = IF @ = "live" THEN "released" ELSE @]
  /\ UNCHANGED <<callerDone, stageCtx, slots, stateVars, runErr, ctxDone, resultVars, itemVars>>

ReleaseSlot(s) ==
  /\ slots > 0
  /\ Goto(s, "Release", "Finalize")
  /\ slots' = slots - 1
  /\ UNCHANGED <<ctxVars, stateVars, runErr, ctxDone, resultVars, itemVars>>

(* terminalStatus, SkipRemainingStages, Finish and buildResult.            *)
Finalize(s) ==
  /\ Goto(s, "Finalize", "Returned")
  /\ status' = [status EXCEPT ![s] = TerminalStatus(s)]
  /\ stages' = WithStages(s, {st \in Stage : stages[s][st] = "PENDING"}, "SKIPPED")
  /\ UNCHANGED <<ctxVars, slots, errors, runErr, ctxDone, resultVars, itemVars>>

-----------------------------------------------------------------------------
(* What the environment does: the caller cancels, a deadline passes.       *)

CallerCancels(s) ==
  /\ ~callerDone[s]
  /\ pc[s] # "Returned"
  /\ callerDone' = [callerDone EXCEPT ![s] = TRUE]
  /\ UNCHANGED <<pc, scanCtx, stageCtx, slots, stateVars, runErr, ctxDone, resultVars, itemVars>>

ScanTimeoutFires(s) ==
  /\ scanCtx[s] = "live"
  /\ scanCtx' = [scanCtx EXCEPT ![s] = "expired"]
  /\ UNCHANGED <<pc, callerDone, stageCtx, slots, stateVars, runErr, ctxDone, resultVars, itemVars>>

StageTimeoutFires(s) ==
  /\ stageCtx[s] = "live"
  /\ stageCtx' = [stageCtx EXCEPT ![s] = "expired"]
  /\ UNCHANGED <<pc, callerDone, scanCtx, slots, stateVars, runErr, ctxDone, resultVars, itemVars>>

-----------------------------------------------------------------------------
ScanStep(s) ==
  \/ AcquireSlot(s)
  \/ AbandonQueue(s)
  \/ ResolveTarget(s)
  \/ StartRecon(s)
  \/ PipelineReturns(s)
  \/ JudgeRecon(s)
  \/ StartDetection(s)
  \/ SkipDetection(s)
  \/ BuildExecutorFails(s)
  \/ EngineReturns(s)
  \/ JudgeDetection(s)
  \/ ListFindings(s)
  \/ SaveChains(s)
  \/ StartRisk(s)
  \/ AssessRisk(s)
  \/ StartEvidence(s)
  \/ BuildPackage(s)
  \/ EvidenceComplete(s)
  \/ CompleteFinalization(s)
  \/ SnapshotCtx(s)
  \/ CancelScanCtx(s)
  \/ ReleaseSlot(s)
  \/ Finalize(s)

EnvStep(s) ==
  \/ CallerCancels(s)
  \/ ScanTimeoutFires(s)
  \/ StageTimeoutFires(s)

Next == \E s \in Scans : ScanStep(s) \/ EnvStep(s)

Spec == Init /\ [][Next]_vars

(* Each Run call is a goroutine that the Go scheduler keeps running, and   *)
(* its calls return: every network operation has a timeout of its own.     *)
(* Nothing is assumed of the caller or of the timers.                      *)
FairSpec == Spec /\ \A s \in Scans : WF_vars(ScanStep(s))

-----------------------------------------------------------------------------
PC == {"Queued", "Scope", "ScopeDone", "Recon", "ReconReturned", "ReconDone",
       "Detect", "DetectReturned", "Correlate", "SaveChains", "CorrelationDone",
       "Risk", "RiskDone", "Evidence", "EvidenceDone", "Unwind", "Cleanup",
       "Release", "Finalize", "Returned"}

Typed ==
  /\ pc \in [Scans -> PC]
  /\ callerDone \in [Scans -> BOOLEAN]
  /\ scanCtx \in [Scans -> {"none", "live", "expired", "released"}]
  /\ stageCtx \in [Scans -> {"none", "live", "expired"}]
  /\ slots \in Nat
  /\ status \in [Scans -> Status]
  /\ stages \in [Scans -> [Stage -> StageStatus]]
  /\ errors \in [Scans -> SUBSET ScanError]
  /\ runErr \in [Scans -> Err]
  /\ ctxDone \in [Scans -> BOOLEAN]
  /\ call \in [Scans -> Err]
  /\ summary \in [Scans -> Summary]
  /\ detection \in [Scans -> DetectionState]
  /\ canonical \in [Scans -> Nat]
  /\ todo \in [Scans -> Nat]
  /\ packages \in [Scans -> Nat]

(* Type invariant: every variable has its type, and the evidence of a scan *)
(* never covers more than MaxFindings findings.                            *)
TypeOK ==
  /\ Typed
  /\ \A s \in Scans : todo[s] + packages[s] <= FindingsLimit

(* A scan holds a slot from acquireScanSlot to releaseScanSlot.            *)
Holders == {s \in Scans : pc[s] \notin {"Queued", "Finalize", "Returned"}}

(* The channel holds one token per scan between its acquire and its        *)
(* release on every path out of Run, and never more than MaxConcurrentScans*)
(* (limits.go: "bounds how many Orchestrator.Run calls ... may execute at  *)
(* once"), so no exit path leaks a slot or gives one back twice.           *)
SlotAccounting ==
  /\ slots = Cardinality(Holders)
  /\ slots <= ScanSlots

(* "No partial result is incorrectly marked COMPLETED" (terminalStatus):   *)
(* a scan reported completed, with or without warnings, ran all nine       *)
(* stages to COMPLETED and met no stage or fatal error.                    *)
CompletedRanEverything ==
  \A s \in Scans : status[s] \in Completed =>
    /\ \A st \in Stage : stages[s][st] = "COMPLETED"
    /\ \A e \in errors[s] : e.category \notin {"FATAL", "STAGE"}

(* A plain COMPLETED hides nothing: every canonical finding has its        *)
(* package, none was cut by MaxFindings, and detection either ran or was   *)
(* disabled by the profile.                                                *)
CompletedHidesNothing ==
  \A s \in Scans : status[s] = "COMPLETED" =>
    /\ packages[s] = canonical[s]
    /\ canonical[s] <= FindingsLimit
    /\ detection[s] \in {"EXECUTED", "DISABLED_BY_PROFILE"}

(* A FAILED scan names its failure: a FATAL or STAGE error recorded against*)
(* a FAILED stage.  The one exception is RECON cut by its stage timeout    *)
(* while the pipeline returned an unrelated error.                         *)
FailureIsLocated ==
  \A s \in Scans : status[s] = "FAILED" =>
    \/ \E e \in errors[s] : /\ e.category \in {"FATAL", "STAGE"}
                            /\ stages[s][e.stage] = "FAILED"
    \/ /\ HasStageTimeout
       /\ stages[s].RECON = "CANCELLED"

(* Run's own cleanup is never mistaken for a cancellation: a CANCELLED     *)
(* scan's caller cancelled, its ScanTimeout passed, or a call it made      *)
(* returned a context error.                                               *)
CancelledHasCause ==
  \A s \in Scans : status[s] = "CANCELLED" =>
    callerDone[s] \/ scanCtx[s] = "expired" \/ runErr[s] = "ctx"

(* Where Run can still notice that its context is done.                    *)
Watching(s) == pc[s] \notin {"Cleanup", "Release", "Finalize", "Returned"}

(* "A cancelled/timed-out run is always reported CANCELLED": once the      *)
(* scan's context is done while Run is still waiting or working, no later  *)
(* state reports any other outcome.                                        *)
CancelledNeverCompletes ==
  \A s \in Scans :
    [](Watching(s) /\ CtxErr(s) => [](status[s] \in {"QUEUED", "RUNNING", "CANCELLED"}))

(* Every Run call returns: no slot is lost, no stage blocks another scan,  *)
(* and a zero Limits value does not make the slot channel unbuffered.      *)
EveryScanReturns == \A s \in Scans : <>(pc[s] = "Returned")

-----------------------------------------------------------------------------
(* What a caller relies on, stated without stages (ScanLifecycle).         *)

NeverAdmitted(s) == stages[s].SCOPE \in {"PENDING", "SKIPPED"}

Lifecycle == INSTANCE ScanLifecycle WITH
  Slots <- ScanSlots,
  phase <- [s \in Scans |->
    CASE pc[s] = "Queued" -> "waiting"
      [] pc[s] = "Returned" -> "ended"
      [] pc[s] \in {"Cleanup", "Release", "Finalize"} -> "leaving"
      [] OTHER -> "active"],
  cancelled <- [s \in Scans |->
    IF Watching(s) THEN CtxErr(s) ELSE ctxDone[s] \/ NeverAdmitted(s)],
  outcome <- [s \in Scans |-> IF status[s] \in Terminal THEN status[s] ELSE "none"]

(* Run implements the lifecycle a caller sees, with its liveness.          *)
ImplementsLifecycle == Lifecycle!FairSpec
=============================================================================
