------------------------ MODULE OrchestratorProofs ------------------------
(***************************************************************************)
(* Theorems about Orchestrator, for every set of scans and every limit.    *)
(*                                                                         *)
(*   TypeCorrect            the type invariant                             *)
(*   SlotsAccountedFor      the scan-slot channel and its holders agree    *)
(*   CancellationSticks     a scan whose context is done while it works    *)
(*                          never reports anything but CANCELLED           *)
(*                                                                         *)
(* and about what Run reports. A scan's fields change only in its own      *)
(* steps, so that each of these is a fact about one scan, and its proof    *)
(* one step per action:                                                    *)
(*                                                                         *)
(*   CompletedMeansAllRan   a completed scan ran every stage               *)
(*   CompletedIsPlain       a plain COMPLETED hides no finding             *)
(*   FailuresAreNamed       a failed scan names its failure                *)
(*   CancellationHasCause   a cancelled scan was cancelled                 *)
(*   RunIsALifecycle        Run refines ScanLifecycle, without liveness    *)
(***************************************************************************)
EXTENDS Orchestrator, FiniteSetTheorems, TLAPS

-----------------------------------------------------------------------------
(* The limits after normalisation, and the helpers on the scan state.      *)

(* normalized() leaves a natural number in MaxFindings.                    *)
LEMMA FindingsLimitType == FindingsLimit \in Nat
BY OrchestratorAssumption DEF FindingsLimit

(* The truncation to MaxFindings keeps at most that many.                  *)
LEMMA KeptType ==
  ASSUME NEW n \in Nat
  PROVE  Kept(n) \in Nat /\ Kept(n) <= FindingsLimit
BY FindingsLimitType DEF Kept

(* normalized() leaves a positive number of slots.                         *)
LEMMA ScanSlotsType == ScanSlots \in Nat /\ ScanSlots > 0
BY OrchestratorAssumption DEF ScanSlots

(* StartStage, CompleteStage, FailStage and CancelStage keep stage maps.   *)
LEMMA WithStagesTyped ==
  ASSUME Typed, NEW s \in Scans, NEW S, NEW v \in StageStatus
  PROVE  WithStages(s, S, v) \in [Scans -> [Stage -> StageStatus]]
<1> [st \in Stage |-> IF st \in S THEN v ELSE stages[s][st]]
      \in [Stage -> StageStatus]
  BY DEF Typed
<1> QED BY DEF Typed, WithStages

(* CompleteStage followed by StartStage keeps stage maps.                  *)
LEMMA CompleteAndStartTyped ==
  ASSUME Typed, NEW s \in Scans, NEW S, NEW next
  PROVE  CompleteAndStart(s, S, next) \in [Scans -> [Stage -> StageStatus]]
<1> DEFINE new == [st \in Stage |->
     IF st \in S THEN "COMPLETED"
     ELSE IF st = next THEN "RUNNING" ELSE stages[s][st]]
<1>1. new \in [Stage -> StageStatus]
  BY DEF Typed, StageStatus
<1> HIDE DEF new
<1>2. [stages EXCEPT ![s] = new] \in [Scans -> [Stage -> StageStatus]]
  BY <1>1 DEF Typed
<1> QED BY <1>2 DEF CompleteAndStart, new

(* AddError adds a well-formed error.                                      *)
LEMMA WithErrorTyped ==
  ASSUME Typed, NEW s \in Scans, NEW category \in ErrorCategory,
         NEW stage \in Stage
  PROVE  WithError(s, category, stage) \in [Scans -> SUBSET ScanError]
<1> DEFINE e == [category |-> category, stage |-> stage]
<1>1. e \in ScanError
  BY DEF ScanError
<1> HIDE DEF e
<1>2. [errors EXCEPT ![s] = errors[s] \cup {e}] \in [Scans -> SUBSET ScanError]
  BY <1>1 DEF Typed
<1> QED BY <1>2 DEF WithError, e

(* So does what DETECTION records when it is judged.                       *)
LEMMA JudgeDetectionErrorsTyped ==
  ASSUME Typed, NEW s \in Scans, JudgeDetection(s)
  PROVE  errors' \in [Scans -> SUBSET ScanError]
<1>1. \A c \in ErrorCategory :
        [category |-> c, stage |-> "DETECTION"] \in ScanError
  BY DEF ScanError, Stage
<1>2. {"DETECTOR", "STAGE", "WARNING"} \subseteq ErrorCategory
  BY DEF ErrorCategory
<1>3. errors[s] \in SUBSET ScanError
  BY DEF Typed
<1>4. PICK E \in SUBSET ScanError : errors' = [errors EXCEPT ![s] = E]
  BY <1>1, <1>2, <1>3 DEF JudgeDetection
<1> QED BY <1>4 DEF Typed

(* The early return between two stages keeps every type.                   *)
LEMMA ReturnIfDoneTyped ==
  ASSUME Typed, NEW s \in Scans, NEW from, ReturnIfDone(s, from)
  PROVE  Typed'
BY DEF ReturnIfDone, Return, Goto, Typed, PC, Err, ctxVars, stateVars,
       resultVars, itemVars

(* A call answers nil, a context error or another error.                   *)
LEMMA CallErrType == \A done : CallErr(done) \subseteq Err
BY DEF CallErr, Err

(* Run goes on without an error, or returns one: its place and its error   *)
(* keep their types.                                                       *)
LEMMA MoveTyped ==
  ASSUME Typed, NEW s \in Scans, NEW from, NEW to \in PC, NEW err \in Err,
         (Goto(s, from, to) /\ runErr' = runErr) \/ Return(s, from, err)
  PROVE  pc' \in [Scans -> PC] /\ runErr' \in [Scans -> Err]
<1>1. pc \in [Scans -> PC] /\ runErr \in [Scans -> Err]
  BY DEF Typed
<1>2. "Unwind" \in PC
  BY DEF PC
<1>3. [pc EXCEPT ![s] = to] \in [Scans -> PC]
  BY ONLY <1>1, s \in Scans, to \in PC
<1>4. [pc EXCEPT ![s] = "Unwind"] \in [Scans -> PC]
  BY ONLY <1>1, <1>2, s \in Scans
<1>5. [runErr EXCEPT ![s] = err] \in [Scans -> Err]
  BY ONLY <1>1, s \in Scans, err \in Err
<1>6. CASE Goto(s, from, to) /\ runErr' = runErr
  BY ONLY <1>1, <1>3, <1>6 DEF Goto
<1>7. CASE Return(s, from, err)
  BY ONLY <1>4, <1>5, <1>7 DEF Return, Goto
<1> QED  BY <1>6, <1>7

-----------------------------------------------------------------------------
(* Every step keeps every variable's type.                                 *)
LEMMA TypedStep ==
  ASSUME Typed, [Next]_vars
  PROVE  Typed'
<1>1. ASSUME NEW s \in Scans, AcquireSlot(s) PROVE Typed'
  <2>1. stages' \in [Scans -> [Stage -> StageStatus]]
    BY <1>1, WithStagesTyped DEF AcquireSlot, StageStatus
  <2> QED
    BY <1>1, <2>1
    DEF AcquireSlot, Goto, StageContext, Typed, ctxVars, resultVars, itemVars,
        PC, Status
<1>2. ASSUME NEW s \in Scans, AbandonQueue(s) PROVE Typed'
  BY <1>2
  DEF AbandonQueue, Goto, stateVars, Typed, ctxVars, resultVars, itemVars, PC,
      Err
<1>3. ASSUME NEW s \in Scans, ResolveTarget(s) PROVE Typed'
  <2>1. stages' \in [Scans -> [Stage -> StageStatus]]
    BY <1>3, WithStagesTyped DEF ResolveTarget, Typed, StageStatus
  <2>2. errors' \in [Scans -> SUBSET ScanError]
    BY <1>3, WithErrorTyped DEF ResolveTarget, Typed, ErrorCategory, Stage
  <2>3. pc' \in [Scans -> PC] /\ runErr' \in [Scans -> Err]
    <3>1. PICK err \in Err : \/ Goto(s, "Scope", "ScopeDone") /\ runErr' = runErr
                             \/ Return(s, "Scope", err)
      BY <1>3, CallErrType DEF ResolveTarget
    <3>2. "ScopeDone" \in PC
      BY DEF PC
    <3> QED BY <3>1, <3>2, MoveTyped
  <2>4. stageCtx' \in [Scans -> {"none", "live", "expired"}]
    BY <1>3 DEF ResolveTarget, CancelStageContext, Typed
  <2> QED
    BY <1>3, <2>1, <2>2, <2>3, <2>4
    DEF ResolveTarget, Typed, ctxVars, resultVars, itemVars
<1>4. ASSUME NEW s \in Scans, StartRecon(s) PROVE Typed'
  <2>1. CASE ReturnIfDone(s, "ScopeDone")
    BY <2>1, ReturnIfDoneTyped
  <2>2. CASE ~ReturnIfDone(s, "ScopeDone")
    <3>1. stages' \in [Scans -> [Stage -> StageStatus]]
      BY <1>4, <2>2, WithStagesTyped
      DEF StartRecon, StartStages, stateVars, StageStatus
    <3>2. errors' \in [Scans -> SUBSET ScanError]
      BY <1>4, <2>2 DEF StartRecon, StartStages, stateVars, Typed
    <3> QED
      BY <1>4, <2>2, <3>1, <3>2
      DEF StartRecon, Goto, StartStages, StageContext, stateVars, Typed,
          ctxVars, resultVars, itemVars, PC
  <2> QED BY <2>1, <2>2
<1>5. ASSUME NEW s \in Scans, PipelineReturns(s) PROVE Typed'
  BY <1>5
  DEF PipelineReturns, Goto, stateVars, Typed, ctxVars, resultVars, itemVars,
      PC, Err
<1>6. ASSUME NEW s \in Scans, JudgeRecon(s) PROVE Typed'
  <2>1. stages' \in [Scans -> [Stage -> StageStatus]]
    BY <1>6, WithStagesTyped DEF JudgeRecon, Typed, StageStatus
  <2>2. errors' \in [Scans -> SUBSET ScanError]
    BY <1>6, WithErrorTyped DEF JudgeRecon, Typed, ErrorCategory, Stage
  <2>3. pc' \in [Scans -> PC] /\ runErr' \in [Scans -> Err]
    BY <1>6 DEF JudgeRecon, Return, Goto, Typed, PC, Err
  <2>4. stageCtx' \in [Scans -> {"none", "live", "expired"}]
    BY <1>6 DEF JudgeRecon, CancelStageContext, Typed
  <2> QED
    BY <1>6, <2>1, <2>2, <2>3, <2>4
    DEF JudgeRecon, Typed, ctxVars, resultVars, itemVars
<1>7. ASSUME NEW s \in Scans, StartDetection(s) PROVE Typed'
  <2>1. CASE ReturnIfDone(s, "ReconDone")
    BY <2>1, ReturnIfDoneTyped
  <2>2. CASE ~ReturnIfDone(s, "ReconDone")
    <3>1. stages' \in [Scans -> [Stage -> StageStatus]]
      BY <1>7, <2>2, WithStagesTyped
      DEF StartDetection, StartStages, stateVars, StageStatus
    <3>2. errors' \in [Scans -> SUBSET ScanError]
      BY <1>7, <2>2 DEF StartDetection, StartStages, stateVars, Typed
    <3>3. pc' \in [Scans -> PC]
      <4>1. Goto(s, "ReconDone", "Detect") /\ runErr' = runErr /\ "nil" \in Err
        BY <1>7, <2>2 DEF StartDetection, Err
      <4>2. "Detect" \in PC
        BY DEF PC
      <4> QED  BY <4>1, <4>2, MoveTyped
    <3>4. stageCtx' \in [Scans -> {"none", "live", "expired"}]
      <4>1. stageCtx' \in {stageCtx, [stageCtx EXCEPT ![s] = "live"],
                           [stageCtx EXCEPT ![s] = "none"]}
        BY <1>7, <2>2 DEF StartDetection, StageContext
      <4> QED  BY <4>1 DEF Typed
    <3> QED
      BY <1>7, <2>2, <3>1, <3>2, <3>3, <3>4
      DEF StartDetection, StartStages, stateVars, Typed, ctxVars, resultVars,
          itemVars
  <2> QED BY <2>1, <2>2
<1>8. ASSUME NEW s \in Scans, SkipDetection(s) PROVE Typed'
  <2>1. stages' \in [Scans -> [Stage -> StageStatus]]
    BY <1>8, CompleteAndStartTyped DEF SkipDetection, StageStatus
  <2> QED
    BY <1>8, <2>1
    DEF SkipDetection, Goto, Typed, ctxVars, resultVars, itemVars, PC,
        DetectionState
<1>9. ASSUME NEW s \in Scans, BuildExecutorFails(s) PROVE Typed'
  <2>1. stages' \in [Scans -> [Stage -> StageStatus]]
    BY <1>9, WithStagesTyped DEF BuildExecutorFails, StageStatus
  <2>2. errors' \in [Scans -> SUBSET ScanError]
    BY <1>9, WithErrorTyped
    DEF BuildExecutorFails, Typed, ErrorCategory, Stage
  <2>3. pc' \in [Scans -> PC] /\ runErr' \in [Scans -> Err]
    BY <1>9 DEF BuildExecutorFails, Return, Goto, CallErr, Typed, PC, Err
  <2>4. stageCtx' \in [Scans -> {"none", "live", "expired"}]
    BY <1>9 DEF BuildExecutorFails, CancelStageContext, Typed
  <2>5. detection' \in [Scans -> DetectionState]
    BY <1>9 DEF BuildExecutorFails, DetectionState, Typed
  <2> QED
    BY <1>9, <2>1, <2>2, <2>3, <2>4, <2>5
    DEF BuildExecutorFails, Typed, ctxVars, resultVars, itemVars
<1>10. ASSUME NEW s \in Scans, EngineReturns(s) PROVE Typed'
  BY <1>10
  DEF EngineReturns, Goto, EngineSummary, CallErr, stateVars, Typed, ctxVars,
      resultVars, itemVars, PC, Err, Summary
<1>11. ASSUME NEW s \in Scans, JudgeDetection(s) PROVE Typed'
  <2>1. stages' \in [Scans -> [Stage -> StageStatus]]
    BY <1>11, WithStagesTyped, CompleteAndStartTyped
    DEF JudgeDetection, StageStatus
  <2>2. errors' \in [Scans -> SUBSET ScanError]
    BY <1>11, JudgeDetectionErrorsTyped
  <2>3. pc' \in [Scans -> PC] /\ runErr' \in [Scans -> Err]
    BY <1>11 DEF JudgeDetection, Return, Goto, Typed, PC, Err
  <2>4. stageCtx' \in [Scans -> {"none", "live", "expired"}]
    BY <1>11 DEF JudgeDetection, CancelStageContext, Typed
  <2>5. detection' \in [Scans -> DetectionState]
    BY <1>11 DEF JudgeDetection, DetectionState, Typed
  <2> QED
    BY <1>11, <2>1, <2>2, <2>3, <2>4, <2>5
    DEF JudgeDetection, Typed, ctxVars, resultVars, itemVars
<1>12. ASSUME NEW s \in Scans, ListFindings(s) PROVE Typed'
  <2>1. stages' \in [Scans -> [Stage -> StageStatus]]
    BY <1>12, WithStagesTyped DEF ListFindings, Typed, StageStatus
  <2>2. errors' \in [Scans -> SUBSET ScanError]
    BY <1>12, WithErrorTyped DEF ListFindings, Typed, ErrorCategory, Stage
  <2>3. pc' \in [Scans -> PC] /\ runErr' \in [Scans -> Err]
    <3>1. PICK err \in Err : \/ Goto(s, "Correlate", "SaveChains") /\ runErr' = runErr
                             \/ Return(s, "Correlate", err)
      BY <1>12, CallErrType DEF ListFindings
    <3>2. "SaveChains" \in PC
      BY DEF PC
    <3> QED BY <3>1, <3>2, MoveTyped
  <2>4. canonical' \in [Scans -> Nat]
    <3>1. PICK n \in 0..CanonicalBound :
            canonical' \in {canonical, [canonical EXCEPT ![s] = n]}
      BY <1>12, OrchestratorAssumption DEF ListFindings
    <3>2. n \in Nat /\ canonical \in [Scans -> Nat]
      BY OrchestratorAssumption DEF Typed
    <3> QED  BY ONLY <3>1, <3>2, s \in Scans
  <2> QED
    BY <1>12, <2>1, <2>2, <2>3, <2>4
    DEF ListFindings, Typed, ctxVars, resultVars, itemVars
<1>13. ASSUME NEW s \in Scans, SaveChains(s) PROVE Typed'
  <2>1. stages' \in [Scans -> [Stage -> StageStatus]]
    BY <1>13, WithStagesTyped DEF SaveChains, StageStatus
  <2>2. errors' \in [Scans -> SUBSET ScanError]
    BY <1>13, WithErrorTyped DEF SaveChains, Typed, ErrorCategory, Stage
  <2> QED
    BY <1>13, <2>1, <2>2
    DEF SaveChains, Goto, Typed, ctxVars, resultVars, itemVars, PC
<1>14. ASSUME NEW s \in Scans, StartRisk(s) PROVE Typed'
  <2>1. CASE ReturnIfDone(s, "CorrelationDone")
    BY <2>1, ReturnIfDoneTyped
  <2>2. CASE ~ReturnIfDone(s, "CorrelationDone")
    <3>1. stages' \in [Scans -> [Stage -> StageStatus]]
      BY <1>14, <2>2, WithStagesTyped
      DEF StartRisk, StartStages, stateVars, StageStatus
    <3>2. errors' \in [Scans -> SUBSET ScanError]
      BY <1>14, <2>2 DEF StartRisk, StartStages, stateVars, Typed
    <3> QED
      BY <1>14, <2>2, <3>1, <3>2
      DEF StartRisk, Goto, StartStages, stateVars, Typed, ctxVars, resultVars,
          itemVars, PC
  <2> QED BY <2>1, <2>2
<1>15. ASSUME NEW s \in Scans, AssessRisk(s) PROVE Typed'
  <2>1. stages' \in [Scans -> [Stage -> StageStatus]]
    BY <1>15, WithStagesTyped DEF AssessRisk, StageStatus
  <2> QED
    BY <1>15, <2>1
    DEF AssessRisk, Goto, Typed, ctxVars, resultVars, itemVars, PC
<1>16. ASSUME NEW s \in Scans, StartEvidence(s) PROVE Typed'
  <2>1. CASE ReturnIfDone(s, "RiskDone")
    BY <2>1, ReturnIfDoneTyped
  <2>2. CASE ~ReturnIfDone(s, "RiskDone")
    <3>1. stages' \in [Scans -> [Stage -> StageStatus]]
      BY <1>16, <2>2, WithStagesTyped
      DEF StartEvidence, StartStages, stateVars, StageStatus
    <3>2. errors' \in [Scans -> SUBSET ScanError]
      BY <1>16, <2>2 DEF StartEvidence, StartStages, stateVars, Typed
    <3>3. pc' \in [Scans -> PC]
      <4>1. Goto(s, "RiskDone", "Evidence") /\ runErr' = runErr /\ "nil" \in Err
        BY <1>16, <2>2 DEF StartEvidence, Err
      <4>2. "Evidence" \in PC
        BY DEF PC
      <4> QED  BY <4>1, <4>2, MoveTyped
    <3>4. Kept(canonical[s]) \in Nat
      BY KeptType DEF Typed
    <3>5. todo' \in [Scans -> Nat]
      BY <1>16, <2>2, <3>4 DEF StartEvidence, Typed
    <3> QED
      BY <1>16, <2>2, <3>1, <3>2, <3>3, <3>5
      DEF StartEvidence, StartStages, Typed, ctxVars, resultVars, itemVars
  <2> QED BY <2>1, <2>2
<1>17. ASSUME NEW s \in Scans, BuildPackage(s) PROVE Typed'
  <2>1. stages' \in [Scans -> [Stage -> StageStatus]]
    BY <1>17, WithStagesTyped DEF BuildPackage, Typed, StageStatus
  <2>2. errors' \in [Scans -> SUBSET ScanError]
    BY <1>17, WithErrorTyped DEF BuildPackage, Typed, ErrorCategory, Stage
  <2>3. pc' \in [Scans -> PC] /\ runErr' \in [Scans -> Err]
    BY <1>17 DEF BuildPackage, Return, Goto, Typed, PC, Err
  <2>4. todo' \in [Scans -> Nat] /\ packages' \in [Scans -> Nat]
    BY <1>17 DEF BuildPackage, Typed
  <2> QED
    BY <1>17, <2>1, <2>2, <2>3, <2>4
    DEF BuildPackage, Typed, ctxVars, resultVars, itemVars
<1>18. ASSUME NEW s \in Scans, EvidenceComplete(s) PROVE Typed'
  <2>1. stages' \in [Scans -> [Stage -> StageStatus]]
    BY <1>18, WithStagesTyped DEF EvidenceComplete, StageStatus
  <2> QED
    BY <1>18, <2>1
    DEF EvidenceComplete, Goto, Typed, ctxVars, resultVars, itemVars, PC
<1>19. ASSUME NEW s \in Scans, CompleteFinalization(s) PROVE Typed'
  <2>1. CASE ReturnIfDone(s, "EvidenceDone")
    BY <2>1, ReturnIfDoneTyped
  <2>2. CASE ~ReturnIfDone(s, "EvidenceDone")
    <3>1. stages' \in [Scans -> [Stage -> StageStatus]]
      BY <1>19, <2>2, WithStagesTyped
      DEF CompleteFinalization, stateVars, StageStatus
    <3>2. errors' \in [Scans -> SUBSET ScanError]
      BY <1>19, <2>2, WithErrorTyped
      DEF CompleteFinalization, stateVars, Typed, ErrorCategory, Stage
    <3> QED
      BY <1>19, <2>2, <3>1, <3>2
      DEF CompleteFinalization, Goto, stateVars, Typed, ctxVars, resultVars,
          itemVars, PC
  <2> QED BY <2>1, <2>2
<1>20. ASSUME NEW s \in Scans, SnapshotCtx(s) PROVE Typed'
  BY <1>20
  DEF SnapshotCtx, CtxErr, Goto, stateVars, Typed, ctxVars, resultVars,
      itemVars, PC
<1>21. ASSUME NEW s \in Scans, CancelScanCtx(s) PROVE Typed'
  BY <1>21
  DEF CancelScanCtx, Goto, stateVars, Typed, ctxVars, resultVars, itemVars, PC
<1>22. ASSUME NEW s \in Scans, ReleaseSlot(s) PROVE Typed'
  BY <1>22
  DEF ReleaseSlot, Goto, stateVars, Typed, ctxVars, resultVars, itemVars, PC
<1>23. ASSUME NEW s \in Scans, Finalize(s) PROVE Typed'
  <2>1. stages' \in [Scans -> [Stage -> StageStatus]]
    BY <1>23, WithStagesTyped DEF Finalize, StageStatus
  <2> QED
    BY <1>23, <2>1
    DEF Finalize, Goto, TerminalStatus, Typed, ctxVars, resultVars, itemVars,
        PC, Status, Terminal, Completed
<1>24. ASSUME NEW s \in Scans, CallerCancels(s) PROVE Typed'
  BY <1>24 DEF CallerCancels, stateVars, Typed, ctxVars, resultVars, itemVars
<1>25. ASSUME NEW s \in Scans, ScanTimeoutFires(s) PROVE Typed'
  BY <1>25
  DEF ScanTimeoutFires, stateVars, Typed, ctxVars, resultVars, itemVars
<1>26. ASSUME NEW s \in Scans, StageTimeoutFires(s) PROVE Typed'
  BY <1>26
  DEF StageTimeoutFires, stateVars, Typed, ctxVars, resultVars, itemVars
<1>27. CASE UNCHANGED vars
  BY <1>27 DEF vars, Typed, ctxVars, stateVars, resultVars, itemVars
<1> QED
  BY <1>1, <1>2, <1>3, <1>4, <1>5, <1>6, <1>7, <1>8, <1>9, <1>10, <1>11, <1>12,
     <1>13, <1>14, <1>15, <1>16, <1>17, <1>18, <1>19, <1>20, <1>21, <1>22,
     <1>23, <1>24, <1>25, <1>26, <1>27
  DEF Next, ScanStep, EnvStep

-----------------------------------------------------------------------------
(* Nothing is ranked or packaged before EVIDENCE starts: the strengthening *)
(* that makes the bound on the evidence inductive.                         *)
BeforeEvidence(s) ==
  pc[s] \notin {"Evidence", "EvidenceDone", "Unwind", "Cleanup", "Release",
                "Finalize", "Returned"}

NothingBuiltEarly ==
  \A s \in Scans : BeforeEvidence(s) => todo[s] = 0 /\ packages[s] = 0

EvidenceInv == TypeOK /\ NothingBuiltEarly

(* The steps that leave the evidence counters alone never move a scan back *)
(* before EVIDENCE.                                                        *)
LEMMA SameEvidence ==
  ASSUME EvidenceInv, Typed', UNCHANGED <<todo, packages>>,
         \A s \in Scans : BeforeEvidence(s)' => BeforeEvidence(s)
  PROVE  EvidenceInv'
BY FindingsLimitType DEF EvidenceInv, TypeOK, NothingBuiltEarly

LEMMA EvidenceStep ==
  ASSUME EvidenceInv, [Next]_vars
  PROVE  EvidenceInv'
<1>1. Typed /\ Typed'
  BY TypedStep DEF EvidenceInv, TypeOK
<1>2. ASSUME NEW s \in Scans, StartEvidence(s) PROVE EvidenceInv'
  <2>1. CASE ReturnIfDone(s, "RiskDone")
    BY <1>1, <2>1, SameEvidence
    DEF ReturnIfDone, Return, Goto, Typed, BeforeEvidence, itemVars
  <2>2. CASE ~ReturnIfDone(s, "RiskDone")
    <3>1. pc[s] = "RiskDone" /\ packages' = packages
      BY <1>2, <2>2 DEF StartEvidence, Goto
    <3>2. packages[s] = 0
      BY <3>1 DEF EvidenceInv, NothingBuiltEarly, BeforeEvidence
    <3>3. Kept(canonical[s]) \in Nat /\ Kept(canonical[s]) <= FindingsLimit
      BY <1>1, KeptType DEF Typed
    <3>4. /\ todo' = [todo EXCEPT ![s] = Kept(canonical[s])]
          /\ pc' = [pc EXCEPT ![s] = "Evidence"]
      BY <1>2, <2>2 DEF StartEvidence, Goto
    <3>5. \A t \in Scans : todo'[t] + packages'[t] <= FindingsLimit
      BY <1>1, <3>1, <3>2, <3>3, <3>4, FindingsLimitType
      DEF Typed, EvidenceInv, TypeOK
    <3>6. NothingBuiltEarly'
      BY <1>1, <3>1, <3>4
      DEF Typed, EvidenceInv, NothingBuiltEarly, BeforeEvidence
    <3> QED BY <1>1, <3>5, <3>6 DEF EvidenceInv, TypeOK
  <2> QED BY <2>1, <2>2
<1>3. ASSUME NEW s \in Scans, BuildPackage(s) PROVE EvidenceInv'
  <2>1. CASE UNCHANGED <<todo, packages>>
    BY <1>1, <1>3, <2>1, SameEvidence
    DEF BuildPackage, Return, Goto, Typed, BeforeEvidence
  <2>2. CASE ~UNCHANGED <<todo, packages>>
    <3>1. /\ pc[s] = "Evidence" /\ pc' = [pc EXCEPT ![s] = "Evidence"]
          /\ todo[s] > 0
          /\ todo' = [todo EXCEPT ![s] = @ - 1]
          /\ packages' \in {packages, [packages EXCEPT ![s] = @ + 1]}
      BY <1>3, <2>2 DEF BuildPackage, Goto
    <3>2. \A t \in Scans : todo'[t] + packages'[t] <= FindingsLimit
      BY <1>1, <3>1, FindingsLimitType DEF Typed, EvidenceInv, TypeOK
    <3>3. NothingBuiltEarly'
      BY <1>1, <3>1 DEF Typed, EvidenceInv, NothingBuiltEarly, BeforeEvidence
    <3> QED BY <1>1, <3>2, <3>3 DEF EvidenceInv, TypeOK
  <2> QED BY <2>1, <2>2
<1>4. ASSUME NEW s \in Scans,
             ScanStep(s) \/ EnvStep(s), ~StartEvidence(s), ~BuildPackage(s)
      PROVE  EvidenceInv'
  <2>1. UNCHANGED <<todo, packages>>
    BY <1>4
    DEF ScanStep, EnvStep, AcquireSlot, AbandonQueue,
        ResolveTarget, StartRecon, PipelineReturns, JudgeRecon,
        StartDetection, SkipDetection, BuildExecutorFails, EngineReturns,
        JudgeDetection, ListFindings, SaveChains, StartRisk, AssessRisk,
        EvidenceComplete, CompleteFinalization, SnapshotCtx, CancelScanCtx,
        ReleaseSlot, Finalize, CallerCancels, ScanTimeoutFires,
        StageTimeoutFires, ReturnIfDone, itemVars
  <2>2. \A t \in Scans : BeforeEvidence(t)' => BeforeEvidence(t)
    BY <1>1, <1>4
    DEF ScanStep, EnvStep, AcquireSlot, AbandonQueue,
        ResolveTarget, StartRecon, PipelineReturns, JudgeRecon,
        StartDetection, SkipDetection, BuildExecutorFails, EngineReturns,
        JudgeDetection, ListFindings, SaveChains, StartRisk, AssessRisk,
        EvidenceComplete, CompleteFinalization, SnapshotCtx, CancelScanCtx,
        ReleaseSlot, Finalize, CallerCancels, ScanTimeoutFires,
        StageTimeoutFires, ReturnIfDone, Return, Goto, Typed, BeforeEvidence
  <2> QED BY <1>1, <2>1, <2>2, SameEvidence
<1>5. CASE UNCHANGED vars
  BY <1>1, <1>5, SameEvidence DEF vars, itemVars, BeforeEvidence
<1> QED BY <1>2, <1>3, <1>4, <1>5 DEF Next

(* Run keeps every field of its state within its type, and never builds    *)
(* evidence for more than MaxFindings findings, whatever the calls it      *)
(* makes return and whenever its contexts are done.                        *)
THEOREM TypeCorrect == Spec => []TypeOK
<1>1. Init => EvidenceInv
  BY FindingsLimitType
  DEF Init, EvidenceInv, TypeOK, Typed, NothingBuiltEarly, PC, Status, Err,
      Stage, StageStatus, Summary, NoSummary, DetectionState
<1>2. EvidenceInv /\ [Next]_vars => EvidenceInv'
  BY EvidenceStep
<1>3. EvidenceInv => TypeOK
  BY DEF EvidenceInv
<1> QED BY <1>1, <1>2, <1>3, PTL DEF Spec

-----------------------------------------------------------------------------
(* The scan-slot channel.  The invariant is inductive as it stands: every  *)
(* step either moves one scan into or out of Holders and a token with it,  *)
(* or moves neither.                                                       *)
Outside == {"Queued", "Finalize", "Returned"}

SlotInv == Typed /\ SlotAccounting

LEMMA HoldersFinite == IsFiniteSet(Holders)
BY OrchestratorAssumption, FS_Subset DEF Holders

(* A step that moves no scan across the boundary moves no token.           *)
LEMMA SameHolders ==
  ASSUME SlotInv, Typed', slots' = slots,
         \A t \in Scans : pc'[t] \in Outside <=> pc[t] \in Outside
  PROVE  SlotInv'
<1>1. Holders' = Holders
  BY DEF Holders, Outside
<1> QED BY <1>1 DEF SlotInv, SlotAccounting

LEMMA SlotStep ==
  ASSUME SlotInv, [Next]_vars
  PROVE  SlotInv'
<1>1. Typed /\ Typed'
  BY TypedStep DEF SlotInv
<1>2. ASSUME NEW s \in Scans, AcquireSlot(s) PROVE SlotInv'
  <2>1. Holders' = Holders \cup {s} /\ s \notin Holders
    BY <1>1, <1>2 DEF AcquireSlot, Goto, Holders, Typed
  <2>2. Cardinality(Holders') = Cardinality(Holders) + 1
    BY <2>1, HoldersFinite, FS_AddElement
  <2>3. slots < ScanSlots /\ slots' = slots + 1
    BY <1>2 DEF AcquireSlot
  <2> QED BY <1>1, <2>2, <2>3, ScanSlotsType DEF SlotInv, SlotAccounting, Typed
<1>3. ASSUME NEW s \in Scans, ReleaseSlot(s) PROVE SlotInv'
  <2>1. Holders' = Holders \ {s} /\ s \in Holders
    BY <1>1, <1>3 DEF ReleaseSlot, Goto, Holders, Typed
  <2>2. Cardinality(Holders') = Cardinality(Holders) - 1
    BY <2>1, HoldersFinite, FS_RemoveElement
  <2>3. slots' = slots - 1
    BY <1>3 DEF ReleaseSlot
  <2> QED BY <1>1, <2>2, <2>3, ScanSlotsType DEF SlotInv, SlotAccounting, Typed
<1>4. ASSUME NEW s \in Scans,
             ScanStep(s) \/ EnvStep(s), ~AcquireSlot(s), ~ReleaseSlot(s)
      PROVE  SlotInv'
  <2>1. slots' = slots
    BY <1>4
    DEF ScanStep, EnvStep, AbandonQueue, ResolveTarget,
        StartRecon, PipelineReturns, JudgeRecon, StartDetection,
        SkipDetection, BuildExecutorFails, EngineReturns, JudgeDetection,
        ListFindings, SaveChains, StartRisk, AssessRisk, StartEvidence,
        BuildPackage, EvidenceComplete, CompleteFinalization, SnapshotCtx,
        CancelScanCtx, Finalize, CallerCancels, ScanTimeoutFires,
        StageTimeoutFires, ReturnIfDone
  <2>2. \A t \in Scans : pc'[t] \in Outside <=> pc[t] \in Outside
    BY <1>1, <1>4
    DEF ScanStep, EnvStep, AbandonQueue, ResolveTarget,
        StartRecon, PipelineReturns, JudgeRecon, StartDetection,
        SkipDetection, BuildExecutorFails, EngineReturns, JudgeDetection,
        ListFindings, SaveChains, StartRisk, AssessRisk, StartEvidence,
        BuildPackage, EvidenceComplete, CompleteFinalization, SnapshotCtx,
        CancelScanCtx, Finalize, CallerCancels, ScanTimeoutFires,
        StageTimeoutFires, ReturnIfDone, Return, Goto, Typed, Outside
  <2> QED BY <1>1, <2>1, <2>2, SameHolders
<1>5. CASE UNCHANGED vars
  BY <1>1, <1>5, SameHolders DEF vars
<1> QED BY <1>2, <1>3, <1>4, <1>5 DEF Next

LEMMA TypedInit == Init => Typed
BY DEF Init, Typed, PC, Status, Err, Stage, StageStatus, Summary, NoSummary,
       DetectionState

(* On every path out of Run, with any number of concurrent calls, the      *)
(* tokens in the channel are exactly the scans between acquireScanSlot and *)
(* releaseScanSlot, and never more than MaxConcurrentScans.                *)
THEOREM SlotsAccountedFor == Spec => []SlotAccounting
<1>1. Init => SlotInv
  <2> SUFFICES ASSUME Init PROVE SlotInv
    OBVIOUS
  <2>1. Holders = {}
    BY DEF Init, Holders
  <2> QED
    BY <2>1, TypedInit, FS_EmptySet, ScanSlotsType
    DEF Init, SlotInv, SlotAccounting
<1>2. SlotInv /\ [Next]_vars => SlotInv'
  BY SlotStep
<1>3. SlotInv => SlotAccounting
  BY DEF SlotInv
<1> QED BY <1>1, <1>2, <1>3, PTL DEF Spec

-----------------------------------------------------------------------------
(* Cancellation.  A scan is doomed from the moment its context is done     *)
(* while Run can still see it; the snapshot of the context, then runErr,   *)
(* then the status carry that fact to the end.                             *)
Doomed(s) ==
  \/ Watching(s) /\ CtxErr(s)
  \/ /\ pc[s] \in {"Cleanup", "Release", "Finalize"}
     /\ ctxDone[s] \/ runErr[s] = "ctx"
  \/ pc[s] = "Returned" /\ status[s] = "CANCELLED"

(* No deadline exists before the slot is acquired, and no outcome before   *)
(* Run returns.                                                            *)
NoEarlyOutcome ==
  \A s \in Scans :
    /\ pc[s] = "Queued" => scanCtx[s] = "none"
    /\ pc[s] # "Returned" => status[s] \in {"QUEUED", "RUNNING"}

OutcomeInv == Typed /\ NoEarlyOutcome

LEMMA OutcomeStep ==
  ASSUME OutcomeInv, [Next]_vars
  PROVE  OutcomeInv'
<1>1. Typed /\ Typed'
  BY TypedStep DEF OutcomeInv
<1>2. ASSUME NEW s \in Scans, AcquireSlot(s) PROVE NoEarlyOutcome'
  BY <1>1, <1>2 DEF AcquireSlot, Goto, Typed, OutcomeInv, NoEarlyOutcome
<1>3. ASSUME NEW s \in Scans, CancelScanCtx(s) \/ ScanTimeoutFires(s)
      PROVE  NoEarlyOutcome'
  BY <1>1, <1>3
  DEF CancelScanCtx, ScanTimeoutFires, Goto, Typed, OutcomeInv,
      NoEarlyOutcome, stateVars
<1>4. ASSUME NEW s \in Scans, Finalize(s) PROVE NoEarlyOutcome'
  BY <1>1, <1>4
  DEF Finalize, Goto, Typed, OutcomeInv, NoEarlyOutcome, ctxVars
<1>5. ASSUME NEW s \in Scans, ScanStep(s) \/ EnvStep(s), ~AcquireSlot(s),
             ~CancelScanCtx(s), ~ScanTimeoutFires(s), ~Finalize(s)
      PROVE  NoEarlyOutcome'
  <2>1. scanCtx' = scanCtx /\ status' = status
    BY <1>5
    DEF ScanStep, EnvStep, AbandonQueue, ResolveTarget,
        StartRecon, PipelineReturns, JudgeRecon, StartDetection,
        SkipDetection, BuildExecutorFails, EngineReturns, JudgeDetection,
        ListFindings, SaveChains, StartRisk, AssessRisk, StartEvidence,
        BuildPackage, EvidenceComplete, CompleteFinalization, SnapshotCtx,
        ReleaseSlot, CallerCancels, StageTimeoutFires, ReturnIfDone,
        StartStages, ctxVars, stateVars
  <2>2. \A t \in Scans : /\ pc'[t] = "Queued" => pc[t] = "Queued"
                         /\ pc'[t] # "Returned" => pc[t] # "Returned"
    BY <1>1, <1>5
    DEF ScanStep, EnvStep, AbandonQueue, ResolveTarget,
        StartRecon, PipelineReturns, JudgeRecon, StartDetection,
        SkipDetection, BuildExecutorFails, EngineReturns, JudgeDetection,
        ListFindings, SaveChains, StartRisk, AssessRisk, StartEvidence,
        BuildPackage, EvidenceComplete, CompleteFinalization, SnapshotCtx,
        ReleaseSlot, CallerCancels, StageTimeoutFires, ReturnIfDone, Return,
        Goto, Typed
  <2> QED BY <2>1, <2>2 DEF OutcomeInv, NoEarlyOutcome
<1>6. CASE UNCHANGED vars
  BY <1>1, <1>6 DEF vars, ctxVars, stateVars, OutcomeInv, NoEarlyOutcome
<1> QED BY <1>1, <1>2, <1>3, <1>4, <1>5, <1>6 DEF Next, OutcomeInv

(* A done context stays done until Run stops looking at it.                *)
LEMMA DoomedStep ==
  ASSUME OutcomeInv, NEW s \in Scans, Doomed(s), [Next]_vars
  PROVE  Doomed(s)'
<1>1. Typed /\ NoEarlyOutcome
  BY DEF OutcomeInv
<1>2. ASSUME NEW t \in Scans, t # s, ScanStep(t) \/ EnvStep(t)
      PROVE  Doomed(s)'
  <2>1. /\ pc'[s] = pc[s] /\ callerDone'[s] = callerDone[s]
        /\ scanCtx'[s] = scanCtx[s] /\ ctxDone'[s] = ctxDone[s]
        /\ runErr'[s] = runErr[s] /\ status'[s] = status[s]
    BY <1>1, <1>2
    DEF ScanStep, EnvStep, AcquireSlot, AbandonQueue,
        ResolveTarget, StartRecon, PipelineReturns, JudgeRecon,
        StartDetection, SkipDetection, BuildExecutorFails, EngineReturns,
        JudgeDetection, ListFindings, SaveChains, StartRisk, AssessRisk,
        StartEvidence, BuildPackage, EvidenceComplete, CompleteFinalization,
        SnapshotCtx, CancelScanCtx, ReleaseSlot, Finalize, CallerCancels,
        ScanTimeoutFires, StageTimeoutFires, ReturnIfDone, Return, Goto,
        StartStages, ctxVars, stateVars, Typed
  <2> QED BY <2>1 DEF Doomed, Watching, CtxErr
<1>3. CASE AcquireSlot(s)
  BY <1>1, <1>3
  DEF AcquireSlot, Goto, NoEarlyOutcome, Doomed, Watching,
      CtxErr, Typed, ctxVars
<1>4. CASE AbandonQueue(s)
  BY <1>1, <1>4
  DEF AbandonQueue, Goto, Doomed, Watching, CtxErr, Typed,
      ctxVars
<1>5. CASE ResolveTarget(s)
  BY <1>1, <1>5
  DEF ResolveTarget, Goto, Return, Doomed, Watching, CtxErr,
      Typed, ctxVars
<1>6. CASE StartRecon(s)
  BY <1>1, <1>6
  DEF StartRecon, Goto, Return, ReturnIfDone, Doomed,
      Watching, CtxErr, Typed, ctxVars
<1>7. CASE PipelineReturns(s)
  BY <1>1, <1>7
  DEF PipelineReturns, Goto, Doomed, Watching, CtxErr, Typed,
      ctxVars
<1>8. CASE JudgeRecon(s)
  BY <1>1, <1>8
  DEF JudgeRecon, Goto, Return, Doomed, Watching, CtxErr,
      Typed, ctxVars
<1>9. CASE StartDetection(s)
  BY <1>1, <1>9
  DEF StartDetection, Goto, Return, ReturnIfDone, Doomed,
      Watching, CtxErr, Typed, ctxVars
<1>10. CASE SkipDetection(s)
  BY <1>1, <1>10
  DEF SkipDetection, Goto, Doomed, Watching, CtxErr, Typed,
      ctxVars
<1>11. CASE BuildExecutorFails(s)
  BY <1>1, <1>11
  DEF BuildExecutorFails, Goto, Return, Doomed, Watching,
      CtxErr, Typed, ctxVars
<1>12. CASE EngineReturns(s)
  BY <1>1, <1>12
  DEF EngineReturns, Goto, Doomed, Watching, CtxErr, Typed,
      ctxVars
<1>13. CASE JudgeDetection(s)
  BY <1>1, <1>13
  DEF JudgeDetection, Goto, Return, Doomed, Watching, CtxErr,
      Typed, ctxVars
<1>14. CASE ListFindings(s)
  BY <1>1, <1>14
  DEF ListFindings, Goto, Return, Doomed, Watching, CtxErr,
      Typed, ctxVars
<1>15. CASE SaveChains(s)
  BY <1>1, <1>15
  DEF SaveChains, Goto, Doomed, Watching, CtxErr, Typed,
      ctxVars
<1>16. CASE StartRisk(s)
  BY <1>1, <1>16
  DEF StartRisk, Goto, Return, ReturnIfDone, Doomed,
      Watching, CtxErr, Typed, ctxVars
<1>17. CASE AssessRisk(s)
  BY <1>1, <1>17
  DEF AssessRisk, Goto, Doomed, Watching, CtxErr, Typed,
      ctxVars
<1>18. CASE StartEvidence(s)
  BY <1>1, <1>18
  DEF StartEvidence, Goto, Return, ReturnIfDone, Doomed,
      Watching, CtxErr, Typed, ctxVars
<1>19. CASE BuildPackage(s)
  BY <1>1, <1>19
  DEF BuildPackage, Goto, Return, Doomed, Watching, CtxErr,
      Typed, ctxVars
<1>20. CASE EvidenceComplete(s)
  BY <1>1, <1>20
  DEF EvidenceComplete, Goto, Doomed, Watching, CtxErr,
      Typed, ctxVars
<1>21. CASE CompleteFinalization(s)
  BY <1>1, <1>21
  DEF CompleteFinalization, Goto, Return, ReturnIfDone,
      Doomed, Watching, CtxErr, Typed, ctxVars
<1>22. CASE SnapshotCtx(s)
  BY <1>1, <1>22
  DEF SnapshotCtx, Goto, Doomed, Watching, CtxErr, Typed,
      ctxVars
<1>23. CASE CancelScanCtx(s)
  BY <1>1, <1>23
  DEF CancelScanCtx, Goto, Doomed, Watching, CtxErr, Typed,
      ctxVars
<1>24. CASE ReleaseSlot(s)
  BY <1>1, <1>24
  DEF ReleaseSlot, Goto, Doomed, Watching, CtxErr, Typed,
      ctxVars
<1>25. CASE Finalize(s)
  BY <1>1, <1>25
  DEF Finalize, Goto, TerminalStatus, IsCancellation, Doomed,
      Watching, CtxErr, Typed, ctxVars
<1>26. CASE CallerCancels(s)
  BY <1>1, <1>26
  DEF CallerCancels, Doomed, Watching, CtxErr, Typed, ctxVars
<1>27. CASE ScanTimeoutFires(s)
  BY <1>1, <1>27
  DEF ScanTimeoutFires, stateVars, Doomed, Watching, CtxErr, Typed,
      ctxVars
<1>28. CASE StageTimeoutFires(s)
  BY <1>1, <1>28
  DEF StageTimeoutFires, stateVars, Doomed, Watching, CtxErr, Typed,
      ctxVars
<1>29. CASE UNCHANGED vars
  BY <1>29 DEF vars, ctxVars, stateVars, Doomed, Watching, CtxErr
<1> QED
  BY <1>2, <1>3, <1>4, <1>5, <1>6, <1>7, <1>8, <1>9, <1>10, <1>11, <1>12,
     <1>13, <1>14, <1>15, <1>16, <1>17, <1>18, <1>19, <1>20, <1>21, <1>22,
     <1>23, <1>24, <1>25, <1>26, <1>27, <1>28, <1>29
  DEF Next, ScanStep, EnvStep

(* "A cancelled/timed-out run is always reported CANCELLED": from the      *)
(* first state in which a scan's context is done while Run waits or works, *)
(* no state of any behaviour reports that scan completed or failed.        *)
THEOREM CancellationSticks == Spec => CancelledNeverCompletes
<1> SUFFICES ASSUME NEW s \in Scans
             PROVE  Spec => [](Watching(s) /\ CtxErr(s) =>
                               [](status[s] \in {"QUEUED", "RUNNING", "CANCELLED"}))
  BY DEF CancelledNeverCompletes
<1>1. Init => OutcomeInv
  BY TypedInit DEF Init, OutcomeInv, NoEarlyOutcome
<1>2. OutcomeInv /\ [Next]_vars => OutcomeInv'
  BY OutcomeStep
<1>3. OutcomeInv /\ Doomed(s) /\ [Next]_vars => Doomed(s)'
  BY DoomedStep
<1>4. Watching(s) /\ CtxErr(s) => Doomed(s)
  BY DEF Doomed
<1>5. OutcomeInv /\ Doomed(s) => status[s] \in {"QUEUED", "RUNNING", "CANCELLED"}
  BY DEF OutcomeInv, NoEarlyOutcome, Doomed, Watching
<1> QED BY <1>1, <1>2, <1>3, <1>4, <1>5, PTL DEF Spec

-----------------------------------------------------------------------------
(* What a step leaves alone.                                               *)

(* Every field that belongs to scan s keeps its value.                     *)
Untouched(s) ==
  /\ pc'[s] = pc[s]
  /\ callerDone'[s] = callerDone[s]
  /\ scanCtx'[s] = scanCtx[s]
  /\ stageCtx'[s] = stageCtx[s]
  /\ status'[s] = status[s]
  /\ stages'[s] = stages[s]
  /\ errors'[s] = errors[s]
  /\ runErr'[s] = runErr[s]
  /\ ctxDone'[s] = ctxDone[s]
  /\ call'[s] = call[s]
  /\ summary'[s] = summary[s]
  /\ detection'[s] = detection[s]
  /\ canonical'[s] = canonical[s]
  /\ todo'[s] = todo[s]
  /\ packages'[s] = packages[s]

(* No scan writes a field of another: Run keeps its state in locals and in *)
(* its own ScanState.                                                      *)
LEMMA OthersUntouched ==
  ASSUME Typed, NEW s \in Scans, NEW t \in Scans, t # s,
         ScanStep(t) \/ EnvStep(t)
  PROVE  Untouched(s)
<1> USE DEF Untouched, Typed, Goto, Return, ReturnIfDone, StartStages,
        StageContext, CancelStageContext, WithStages, WithError,
        CompleteAndStart, ctxVars, stateVars, resultVars, itemVars
<1>1. CASE AcquireSlot(t) BY <1>1 DEF AcquireSlot
<1>2. CASE AbandonQueue(t) BY <1>2 DEF AbandonQueue
<1>3. CASE ResolveTarget(t) BY <1>3 DEF ResolveTarget
<1>4. CASE StartRecon(t) BY <1>4 DEF StartRecon
<1>5. CASE PipelineReturns(t) BY <1>5 DEF PipelineReturns
<1>6. CASE JudgeRecon(t) BY <1>6 DEF JudgeRecon
<1>7. CASE StartDetection(t) BY <1>7 DEF StartDetection
<1>8. CASE SkipDetection(t) BY <1>8 DEF SkipDetection
<1>9. CASE BuildExecutorFails(t) BY <1>9 DEF BuildExecutorFails
<1>10. CASE EngineReturns(t) BY <1>10 DEF EngineReturns
<1>11. CASE JudgeDetection(t) BY <1>11 DEF JudgeDetection
<1>12. CASE ListFindings(t) BY <1>12 DEF ListFindings
<1>13. CASE SaveChains(t) BY <1>13 DEF SaveChains
<1>14. CASE StartRisk(t) BY <1>14 DEF StartRisk
<1>15. CASE AssessRisk(t) BY <1>15 DEF AssessRisk
<1>16. CASE StartEvidence(t) BY <1>16 DEF StartEvidence
<1>17. CASE BuildPackage(t) BY <1>17 DEF BuildPackage
<1>18. CASE EvidenceComplete(t) BY <1>18 DEF EvidenceComplete
<1>19. CASE CompleteFinalization(t) BY <1>19 DEF CompleteFinalization
<1>20. CASE SnapshotCtx(t) BY <1>20 DEF SnapshotCtx
<1>21. CASE CancelScanCtx(t) BY <1>21 DEF CancelScanCtx
<1>22. CASE ReleaseSlot(t) BY <1>22 DEF ReleaseSlot
<1>23. CASE Finalize(t) BY <1>23 DEF Finalize
<1>24. CASE CallerCancels(t) BY <1>24 DEF CallerCancels
<1>25. CASE ScanTimeoutFires(t) BY <1>25 DEF ScanTimeoutFires
<1>26. CASE StageTimeoutFires(t) BY <1>26 DEF StageTimeoutFires
<1> QED
  BY <1>1, <1>2, <1>3, <1>4, <1>5, <1>6, <1>7, <1>8, <1>9, <1>10, <1>11,
     <1>12, <1>13, <1>14, <1>15, <1>16, <1>17, <1>18, <1>19, <1>20, <1>21,
     <1>22, <1>23, <1>24, <1>25, <1>26
  DEF ScanStep, EnvStep

-----------------------------------------------------------------------------
(* Completed scans.  On the way through the stages Run has no error, and   *)
(* everything before the current stage is complete; once it unwinds, the   *)
(* same holds of all stages unless an error was set.                       *)

Leaving == {"Unwind", "Cleanup", "Release", "Finalize", "Returned"}

AfterEvidence    == {"EvidenceDone"} \cup Leaving
AfterRisk        == {"RiskDone", "Evidence"} \cup AfterEvidence
AfterCorrelation == {"CorrelationDone", "Risk"} \cup AfterRisk
AfterDetection   == {"Correlate", "SaveChains"} \cup AfterCorrelation
AfterRecon       == {"ReconDone", "Detect", "DetectReturned"} \cup AfterDetection
AfterScope       == {"ScopeDone", "Recon", "ReconReturned"} \cup AfterRecon

CompletedSoFar(s) ==
  /\ pc[s] \in AfterScope => stages[s]["SCOPE"] = "COMPLETED"
  /\ pc[s] \in AfterRecon => \A st \in ReconStages : stages[s][st] = "COMPLETED"
  /\ pc[s] \in AfterDetection =>
       \A st \in DetectStages : stages[s][st] = "COMPLETED"
  /\ pc[s] \in AfterCorrelation => stages[s]["CORRELATION"] = "COMPLETED"
  /\ pc[s] \in AfterRisk => stages[s]["RISK"] = "COMPLETED"
  /\ pc[s] \in AfterEvidence => stages[s]["EVIDENCE"] = "COMPLETED"
  /\ pc[s] \in Leaving => stages[s]["FINALIZATION"] = "COMPLETED"

NoSeriousError(s) == \A e \in errors[s] : e.category \notin {"FATAL", "STAGE"}

Ran(s) ==
  /\ pc[s] \notin Leaving => runErr[s] = "nil"
  /\ runErr[s] = "nil" => CompletedSoFar(s) /\ NoSeriousError(s)
  /\ status[s] \in Completed => pc[s] = "Returned" /\ runErr[s] = "nil"

RanInv == Typed /\ \A s \in Scans : Ran(s)

LEMMA RanStep ==
  ASSUME RanInv, [Next]_vars
  PROVE  RanInv'
<1>1. Typed /\ Typed'
  BY TypedStep DEF RanInv
<1> SUFFICES ASSUME NEW s \in Scans PROVE Ran(s)'
  BY <1>1 DEF RanInv
<1>2. Ran(s)
  BY DEF RanInv
<1>3. ASSUME NEW t \in Scans, t # s, ScanStep(t) \/ EnvStep(t)
      PROVE  Ran(s)'
  BY <1>1, <1>2, <1>3, OthersUntouched
  DEF Untouched, Ran, CompletedSoFar, NoSeriousError
<1>4. CASE UNCHANGED vars
  BY <1>2, <1>4
  DEF vars, stateVars, Ran, CompletedSoFar, NoSeriousError
<1> USE <1>1, <1>2
    DEF Typed, Ran, CompletedSoFar, NoSeriousError, Leaving, AfterEvidence,
        AfterRisk, AfterCorrelation, AfterDetection, AfterRecon, AfterScope,
        ReconStages, DetectStages, Stage, Completed, Goto, Return,
        ReturnIfDone, StartStages, WithStages, WithError, CompleteAndStart,
        stateVars
<1>5. CASE AcquireSlot(s) BY <1>5 DEF AcquireSlot
<1>6. CASE AbandonQueue(s) BY <1>6 DEF AbandonQueue
<1>7. CASE ResolveTarget(s) BY <1>7 DEF ResolveTarget
<1>8. CASE StartRecon(s) BY <1>8 DEF StartRecon
<1>9. CASE PipelineReturns(s) BY <1>9 DEF PipelineReturns
<1>10. CASE JudgeRecon(s) BY <1>10 DEF JudgeRecon
<1>11. CASE StartDetection(s) BY <1>11 DEF StartDetection
<1>12. CASE SkipDetection(s) BY <1>12 DEF SkipDetection
<1>13. CASE BuildExecutorFails(s) BY <1>13 DEF BuildExecutorFails
<1>14. CASE EngineReturns(s) BY <1>14 DEF EngineReturns
<1>15. CASE JudgeDetection(s)
  <2>1. CASE runErr'[s] # "nil"
    BY <1>15, <2>1 DEF JudgeDetection
  <2>2. CASE runErr'[s] = "nil"
    <3>1. call[s] = "nil" /\ pc[s] = "DetectReturned" /\ pc'[s] = "Correlate"
      BY <1>15, <2>2 DEF JudgeDetection
    <3>2. stages' = CompleteAndStart(s, DetectStages, "CORRELATION")
      BY <1>15, <2>2, <3>1 DEF JudgeDetection
    <3>3. CompletedSoFar(s)'
      BY <2>2, <3>1, <3>2
    <3>4. PICK E : /\ errors' = [errors EXCEPT ![s] = E]
                  /\ \A e \in E : e \in errors[s]
                                  \/ e.category \in {"DETECTOR", "WARNING"}
      BY <1>15, <2>2, <3>1 DEF JudgeDetection
    <3>5. NoSeriousError(s)'
      <4>1. errors'[s] = E
        BY <3>4
      <4>2. \A e \in errors[s] : e.category \notin {"FATAL", "STAGE"}
        BY <3>1
      <4>3. \A e \in E : e.category \notin {"FATAL", "STAGE"}
        BY ONLY <3>4, <4>2
      <4> QED  BY ONLY <4>1, <4>3
    <3>6. status' = status
      BY <1>15 DEF JudgeDetection
    <3> QED BY <2>2, <3>1, <3>3, <3>5, <3>6
  <2> QED BY <2>1, <2>2
<1>16. CASE ListFindings(s) BY <1>16 DEF ListFindings
<1>17. CASE SaveChains(s) BY <1>17 DEF SaveChains
<1>18. CASE StartRisk(s) BY <1>18 DEF StartRisk
<1>19. CASE AssessRisk(s) BY <1>19 DEF AssessRisk
<1>20. CASE StartEvidence(s) BY <1>20 DEF StartEvidence
<1>21. CASE BuildPackage(s) BY <1>21 DEF BuildPackage
<1>22. CASE EvidenceComplete(s) BY <1>22 DEF EvidenceComplete
<1>23. CASE CompleteFinalization(s) BY <1>23 DEF CompleteFinalization
<1>24. CASE SnapshotCtx(s) BY <1>24 DEF SnapshotCtx
<1>25. CASE CancelScanCtx(s) BY <1>25 DEF CancelScanCtx
<1>26. CASE ReleaseSlot(s) BY <1>26 DEF ReleaseSlot
<1>27. CASE Finalize(s) BY <1>27 DEF Finalize, TerminalStatus, IsCancellation
<1>28. CASE CallerCancels(s) BY <1>28 DEF CallerCancels
<1>29. CASE ScanTimeoutFires(s) BY <1>29 DEF ScanTimeoutFires
<1>30. CASE StageTimeoutFires(s) BY <1>30 DEF StageTimeoutFires
<1> HIDE <1>1, <1>2
     DEF Typed, Ran, CompletedSoFar, NoSeriousError, Leaving, AfterEvidence,
         AfterRisk, AfterCorrelation, AfterDetection, AfterRecon, AfterScope,
         ReconStages, DetectStages, Stage, Completed, Goto, Return,
         ReturnIfDone, StartStages, WithStages, WithError, CompleteAndStart,
         stateVars
<1>31. CASE ScanStep(s)
  BY <1>31, <1>5, <1>6, <1>7, <1>8, <1>9, <1>10, <1>11, <1>12, <1>13, <1>14,
     <1>15, <1>16, <1>17, <1>18, <1>19, <1>20, <1>21, <1>22, <1>23, <1>24,
     <1>25, <1>26, <1>27
  DEF ScanStep
<1>32. CASE EnvStep(s)
  BY <1>32, <1>28, <1>29, <1>30 DEF EnvStep
<1> QED
  BY <1>3, <1>4, <1>31, <1>32 DEF Next

(* "No partial result is incorrectly marked COMPLETED": whatever the calls *)
(* return and whenever contexts are done, a scan reported completed, with  *)
(* or without warnings, ran all nine stages and met no serious error.      *)
THEOREM CompletedMeansAllRan == Spec => []CompletedRanEverything
<1>1. Init => RanInv
  BY TypedInit
  DEF Init, RanInv, Ran, CompletedSoFar, NoSeriousError, Leaving,
      AfterEvidence, AfterRisk, AfterCorrelation, AfterDetection, AfterRecon,
      AfterScope, Completed
<1>2. RanInv /\ [Next]_vars => RanInv'
  BY RanStep
<1>3. RanInv => CompletedRanEverything
  BY DEF RanInv, Ran, CompletedSoFar, NoSeriousError, Leaving,
      AfterEvidence, AfterRisk, AfterCorrelation, AfterDetection, AfterRecon,
      AfterScope, ReconStages, DetectStages, Stage, CompletedRanEverything
<1> QED BY <1>1, <1>2, <1>3, PTL DEF Spec

-----------------------------------------------------------------------------
(* A plain COMPLETED.  While nothing was recorded that terminalStatus      *)
(* counts as a warning, every canonical finding that MaxFindings lets      *)
(* through has its package or is still to be built.                        *)

Unwarned(s) == runErr[s] = "nil" /\ ~HasWarningOrDetectorError(s)

Shown(s) ==
  /\ BeforeEvidence(s) => packages[s] = 0
  /\ Unwarned(s) =>
       /\ pc[s] \in AfterDetection =>
            detection[s] \in {"EXECUTED", "DISABLED_BY_PROFILE"}
       /\ pc[s] = "Evidence" => packages[s] + todo[s] = Kept(canonical[s])
       /\ pc[s] \in AfterEvidence => packages[s] = Kept(canonical[s])
       /\ pc[s] \in Leaving => canonical[s] <= FindingsLimit
  /\ status[s] = "COMPLETED" => pc[s] = "Returned" /\ Unwarned(s)

ShownInv == Typed /\ \A s \in Scans : Shown(s)

LEMMA ShownStep ==
  ASSUME ShownInv, [Next]_vars
  PROVE  ShownInv'
<1>1. Typed /\ Typed'
  BY TypedStep DEF ShownInv
<1> SUFFICES ASSUME NEW s \in Scans PROVE Shown(s)'
  BY <1>1 DEF ShownInv
<1>2. Shown(s)
  BY DEF ShownInv
<1>3. ASSUME NEW t \in Scans, t # s, ScanStep(t) \/ EnvStep(t)
      PROVE  Shown(s)'
  BY <1>1, <1>2, <1>3, OthersUntouched
  DEF Untouched, Shown, Unwarned, HasWarningOrDetectorError, BeforeEvidence
<1>4. CASE UNCHANGED vars
  BY <1>2, <1>4
  DEF vars, ctxVars, stateVars, resultVars, itemVars, Shown, Unwarned,
      HasWarningOrDetectorError, BeforeEvidence
<1> USE <1>1, <1>2, KeptType, FindingsLimitType
    DEF Shown, Unwarned, HasWarningOrDetectorError, BeforeEvidence, Typed,
        Goto, Return, ReturnIfDone, StartStages, stateVars, Leaving,
        AfterEvidence, AfterRisk, AfterCorrelation, AfterDetection,
        WithError, WithStages, Stage, itemVars, resultVars
<1>5. CASE AcquireSlot(s) BY <1>5 DEF AcquireSlot
<1>6. CASE AbandonQueue(s) BY <1>6 DEF AbandonQueue
<1>7. CASE ResolveTarget(s) BY <1>7 DEF ResolveTarget
<1>8. CASE StartRecon(s) BY <1>8 DEF StartRecon
<1>9. CASE PipelineReturns(s) BY <1>9 DEF PipelineReturns
<1>10. CASE JudgeRecon(s) BY <1>10 DEF JudgeRecon
<1>11. CASE StartDetection(s) BY <1>11 DEF StartDetection
<1>12. CASE SkipDetection(s) BY <1>12 DEF SkipDetection
<1>13. CASE BuildExecutorFails(s) BY <1>13 DEF BuildExecutorFails
<1>14. CASE EngineReturns(s) BY <1>14 DEF EngineReturns
<1>15. CASE JudgeDetection(s)
  <2>1. CASE runErr'[s] # "nil"
    BY <1>15, <2>1 DEF JudgeDetection
  <2>2. CASE runErr'[s] = "nil"
    <3>1. call[s] = "nil" /\ pc[s] = "DetectReturned" /\ pc'[s] = "Correlate"
      BY <1>15, <2>2 DEF JudgeDetection
    <3>2. CASE summary[s].ran
      BY <1>15, <2>2, <3>1, <3>2 DEF JudgeDetection
    <3>3. CASE ~summary[s].ran
      <4>1. [category |-> "WARNING", stage |-> "DETECTION"] \in errors'[s]
        BY <1>15, <2>2, <3>1, <3>3 DEF JudgeDetection
      <4>2. ~Unwarned(s)'
        BY <4>1
      <4> QED BY <1>15, <3>1, <4>2 DEF JudgeDetection
    <3> QED BY <3>2, <3>3
  <2> QED BY <2>1, <2>2
<1>16. CASE ListFindings(s) BY <1>16 DEF ListFindings
<1>17. CASE SaveChains(s) BY <1>17 DEF SaveChains
<1>18. CASE StartRisk(s) BY <1>18 DEF StartRisk
<1>19. CASE AssessRisk(s) BY <1>19 DEF AssessRisk
<1>20. CASE StartEvidence(s) BY <1>20 DEF StartEvidence
<1>21. CASE BuildPackage(s)
  <2>1. CASE CtxErr(s)
    BY <1>21, <2>1 DEF BuildPackage
  <2>2. CASE ~CtxErr(s)
    <3>1. /\ pc[s] = "Evidence" /\ pc'[s] = "Evidence" /\ todo[s] > 0
          /\ todo'[s] = todo[s] - 1
          /\ UNCHANGED <<status, runErr, canonical, detection>>
      BY <1>21, <2>2 DEF BuildPackage
    <3>2. CASE UNCHANGED errors /\ packages'[s] = packages[s] + 1
      BY <3>1, <3>2
    <3>3. CASE errors' = WithError(s, "WARNING", "EVIDENCE")
      <4>1. [category |-> "WARNING", stage |-> "EVIDENCE"] \in errors'[s]
        BY <3>3
      <4>2. ~Unwarned(s)'
        BY <4>1
      <4> QED BY <3>1, <4>2
    <3> QED BY <1>21, <2>2, <3>2, <3>3 DEF BuildPackage
  <2> QED BY <2>1, <2>2
<1>22. CASE EvidenceComplete(s) BY <1>22 DEF EvidenceComplete
<1>23. CASE CompleteFinalization(s)
  <2>1. CASE runErr'[s] # "nil"
    BY <1>23, <2>1 DEF CompleteFinalization
  <2>2. CASE runErr'[s] = "nil"
    <3>1. /\ pc[s] = "EvidenceDone" /\ pc'[s] = "Unwind"
          /\ UNCHANGED <<status, runErr, canonical, packages, detection>>
      BY <1>23, <2>2 DEF CompleteFinalization
    <3>2. CASE UNCHANGED errors /\ ~(canonical[s] > FindingsLimit)
      BY <3>1, <3>2
    <3>3. CASE errors' = WithError(s, "WARNING", "FINALIZATION")
      <4>1. [category |-> "WARNING", stage |-> "FINALIZATION"] \in errors'[s]
        BY <3>3
      <4>2. ~Unwarned(s)'
        BY <4>1
      <4> QED BY <3>1, <4>2
    <3> QED BY <1>23, <2>2, <3>2, <3>3 DEF CompleteFinalization
  <2> QED BY <2>1, <2>2
<1>24. CASE SnapshotCtx(s) BY <1>24 DEF SnapshotCtx
<1>25. CASE CancelScanCtx(s) BY <1>25 DEF CancelScanCtx
<1>26. CASE ReleaseSlot(s) BY <1>26 DEF ReleaseSlot
<1>27. CASE Finalize(s) BY <1>27 DEF Finalize, TerminalStatus, IsCancellation
<1>28. CASE CallerCancels(s) BY <1>28 DEF CallerCancels
<1>29. CASE ScanTimeoutFires(s) BY <1>29 DEF ScanTimeoutFires
<1>30. CASE StageTimeoutFires(s) BY <1>30 DEF StageTimeoutFires
<1> HIDE <1>1, <1>2, KeptType, FindingsLimitType
     DEF Shown, Unwarned, HasWarningOrDetectorError, BeforeEvidence, Typed,
         Goto, Return, ReturnIfDone, StartStages, stateVars, Leaving,
         AfterEvidence, AfterRisk, AfterCorrelation, AfterDetection,
         WithError, WithStages, Stage, itemVars, resultVars
<1>31. CASE ScanStep(s)
  BY <1>31, <1>5, <1>6, <1>7, <1>8, <1>9, <1>10, <1>11, <1>12, <1>13, <1>14,
     <1>15, <1>16, <1>17, <1>18, <1>19, <1>20, <1>21, <1>22, <1>23, <1>24,
     <1>25, <1>26, <1>27
  DEF ScanStep
<1>32. CASE EnvStep(s)
  BY <1>32, <1>28, <1>29, <1>30 DEF EnvStep
<1> QED
  BY <1>3, <1>4, <1>31, <1>32 DEF Next

(* A plain COMPLETED hides nothing: however many findings there are and    *)
(* whatever MaxFindings is, each has its package, none was cut, and        *)
(* detection ran or was disabled by the profile.                           *)
THEOREM CompletedIsPlain == Spec => []CompletedHidesNothing
<1>1. Init => ShownInv
  BY TypedInit
  DEF Init, ShownInv, Shown, BeforeEvidence, Leaving, AfterEvidence,
      AfterRisk, AfterCorrelation, AfterDetection
<1>2. ShownInv /\ [Next]_vars => ShownInv'
  BY ShownStep
<1>3. ShownInv => CompletedHidesNothing
  BY FindingsLimitType
  DEF ShownInv, Shown, Typed, Kept, Leaving, AfterEvidence, AfterRisk,
      AfterCorrelation, AfterDetection, CompletedHidesNothing
<1> QED BY <1>1, <1>2, <1>3, PTL DEF Spec

-----------------------------------------------------------------------------
(* Failed scans.  An error that is not a context error was recorded        *)
(* against its FAILED stage, except at RECON: there a done context makes   *)
(* the stage CANCELLED whatever the error, and unless that context was the *)
(* stage's own, the scan is doomed and will be reported CANCELLED.         *)

FailureNamed(s) ==
  \E e \in errors[s] : /\ e.category \in {"FATAL", "STAGE"}
                       /\ stages[s][e.stage] = "FAILED"

(* Run's context is done, and Run will see it or has seen it.              *)
StillDone(s) ==
  IF pc[s] = "Unwind" THEN CtxErr(s) ELSE ctxDone[s]

Located(s) ==
  /\ stageCtx[s] # "none" => HasStageTimeout
  /\ runErr[s] = "other" =>
       /\ pc[s] \in Leaving
       /\ \/ FailureNamed(s)
          \/ /\ stages[s]["RECON"] = "CANCELLED"
             /\ HasStageTimeout \/ StillDone(s)
  /\ status[s] = "FAILED" =>
       pc[s] = "Returned" /\ runErr[s] = "other" /\ ~ctxDone[s]

LocatedInv == Typed /\ \A s \in Scans : Located(s)

LEMMA LocatedStep ==
  ASSUME LocatedInv, [Next]_vars
  PROVE  LocatedInv'
<1>1. Typed /\ Typed'
  BY TypedStep DEF LocatedInv
<1> SUFFICES ASSUME NEW s \in Scans PROVE Located(s)'
  BY <1>1 DEF LocatedInv
<1>2. Located(s)
  BY DEF LocatedInv
<1>3. ASSUME NEW t \in Scans, t # s, ScanStep(t) \/ EnvStep(t)
      PROVE  Located(s)'
  BY <1>1, <1>2, <1>3, OthersUntouched
  DEF Untouched, Located, FailureNamed, StillDone, CtxErr
<1>4. CASE UNCHANGED vars
  BY <1>2, <1>4
  DEF vars, ctxVars, stateVars, resultVars, itemVars, Located, FailureNamed,
      StillDone, CtxErr
<1> USE <1>1, <1>2
    DEF Located, FailureNamed, StillDone, CtxErr, Typed, Goto, Return,
        ReturnIfDone, StartStages, stateVars, Leaving, WithError, WithStages,
        CompleteAndStart, ScanError, Stage, ReconStages, DetectStages,
        StageContext, CancelStageContext, ctxVars
<1>5. CASE AcquireSlot(s) BY <1>5 DEF AcquireSlot
<1>6. CASE AbandonQueue(s) BY <1>6 DEF AbandonQueue
<1>7. CASE ResolveTarget(s)
  <2>1. CASE runErr'[s] # "other"
    BY <1>7, <2>1 DEF ResolveTarget
  <2>2. CASE runErr'[s] = "other"
    <3>1. [category |-> "FATAL", stage |-> "SCOPE"] \in errors'[s]
      BY <1>7, <2>2 DEF ResolveTarget
    <3>2. stages'[s]["SCOPE"] = "FAILED"
      BY <1>7, <2>2 DEF ResolveTarget
    <3>3. FailureNamed(s)'
      BY <3>1, <3>2
    <3> QED BY <1>7, <2>2, <3>3 DEF ResolveTarget
  <2> QED BY <2>1, <2>2
<1>8. CASE StartRecon(s) BY <1>8 DEF StartRecon
<1>9. CASE PipelineReturns(s) BY <1>9 DEF PipelineReturns
<1>10. CASE JudgeRecon(s)
  <2>1. CASE runErr'[s] # "other"
    BY <1>10, <2>1 DEF JudgeRecon
  <2>2. CASE runErr'[s] = "other"
    <3>1. /\ pc'[s] = "Unwind" /\ call[s] = "other" /\ status' = status
          /\ stageCtx'[s] = "none" /\ UNCHANGED <<callerDone, scanCtx>>
          /\ pc[s] = "ReconReturned"
      BY <1>10, <2>2 DEF JudgeRecon
    <3>2. CASE IsCancellation(StageErr(s), call[s])
      <4>1. CtxErr(s) \/ stageCtx[s] = "expired"
        BY <3>1, <3>2 DEF IsCancellation, StageErr
      <4>2. stages'[s]["RECON"] = "CANCELLED"
        BY <1>10, <3>1, <3>2 DEF JudgeRecon
      <4> QED BY <2>2, <3>1, <4>1, <4>2
    <3>3. CASE ~IsCancellation(StageErr(s), call[s])
      <4>1. [category |-> "STAGE", stage |-> "RECON"] \in errors'[s]
        BY <1>10, <3>1, <3>3 DEF JudgeRecon
      <4>2. stages'[s]["RECON"] = "FAILED"
        BY <1>10, <3>1, <3>3 DEF JudgeRecon
      <4>3. FailureNamed(s)'
        BY <4>1, <4>2
      <4> QED BY <2>2, <3>1, <4>3
    <3> QED BY <3>2, <3>3
  <2> QED BY <2>1, <2>2
<1>11. CASE StartDetection(s) BY <1>11 DEF StartDetection
<1>12. CASE SkipDetection(s) BY <1>12 DEF SkipDetection
<1>13. CASE BuildExecutorFails(s)
  <2>1. CASE runErr'[s] # "other"
    BY <1>13, <2>1 DEF BuildExecutorFails
  <2>2. CASE runErr'[s] = "other"
    <3>1. [category |-> "STAGE", stage |-> "DETECTION"] \in errors'[s]
      BY <1>13, <2>2 DEF BuildExecutorFails
    <3>2. stages'[s]["DETECTION"] = "FAILED"
      BY <1>13, <2>2 DEF BuildExecutorFails
    <3>3. FailureNamed(s)'
      BY <3>1, <3>2
    <3> QED BY <1>13, <2>2, <3>3 DEF BuildExecutorFails
  <2> QED BY <2>1, <2>2
<1>14. CASE EngineReturns(s) BY <1>14 DEF EngineReturns
<1>15. CASE JudgeDetection(s)
  <2>1. CASE runErr'[s] # "other"
    BY <1>15, <2>1 DEF JudgeDetection
  <2>2. CASE runErr'[s] = "other"
    <3>1. [category |-> "STAGE", stage |-> "DETECTION"] \in errors'[s]
      BY <1>15, <2>2 DEF JudgeDetection
    <3>2. stages'[s]["DETECTION"] = "FAILED"
      BY <1>15, <2>2 DEF JudgeDetection
    <3>3. FailureNamed(s)'
      BY <3>1, <3>2
    <3> QED BY <1>15, <2>2, <3>3 DEF JudgeDetection
  <2> QED BY <2>1, <2>2
<1>16. CASE ListFindings(s)
  <2>1. CASE runErr'[s] # "other"
    BY <1>16, <2>1 DEF ListFindings
  <2>2. CASE runErr'[s] = "other"
    <3>1. [category |-> "STAGE", stage |-> "CORRELATION"] \in errors'[s]
      BY <1>16, <2>2 DEF ListFindings
    <3>2. stages'[s]["CORRELATION"] = "FAILED"
      BY <1>16, <2>2 DEF ListFindings
    <3>3. FailureNamed(s)'
      BY <3>1, <3>2
    <3> QED BY <1>16, <2>2, <3>3 DEF ListFindings
  <2> QED BY <2>1, <2>2
<1>17. CASE SaveChains(s) BY <1>17 DEF SaveChains
<1>18. CASE StartRisk(s) BY <1>18 DEF StartRisk
<1>19. CASE AssessRisk(s) BY <1>19 DEF AssessRisk
<1>20. CASE StartEvidence(s) BY <1>20 DEF StartEvidence
<1>21. CASE BuildPackage(s) BY <1>21 DEF BuildPackage
<1>22. CASE EvidenceComplete(s) BY <1>22 DEF EvidenceComplete
<1>23. CASE CompleteFinalization(s) BY <1>23 DEF CompleteFinalization
<1>24. CASE SnapshotCtx(s) BY <1>24 DEF SnapshotCtx
<1>25. CASE CancelScanCtx(s) BY <1>25 DEF CancelScanCtx
<1>26. CASE ReleaseSlot(s) BY <1>26 DEF ReleaseSlot
<1>27. CASE Finalize(s)
  <2>1. \A st \in Stage : stages[s][st] # "PENDING" => stages'[s][st] = stages[s][st]
    BY <1>27 DEF Finalize
  <2>2. FailureNamed(s) => FailureNamed(s)'
    <3> SUFFICES ASSUME FailureNamed(s) PROVE FailureNamed(s)'
      OBVIOUS
    <3>1. PICK e \in errors[s] : /\ e.category \in {"FATAL", "STAGE"}
                                 /\ stages[s][e.stage] = "FAILED"
      BY DEF FailureNamed
    <3>2. e \in ScanError
      BY <3>1
    <3>3. e.stage \in Stage
      BY ONLY <3>1, <3>2 DEF ScanError
    <3>4. stages'[s][e.stage] = "FAILED"
      BY ONLY <2>1, <3>1, <3>3
    <3>5. errors' = errors
      BY ONLY <1>27 DEF Finalize
    <3> QED  BY ONLY <3>1, <3>4, <3>5 DEF FailureNamed
  <2>3. stages[s]["RECON"] = "CANCELLED" => stages'[s]["RECON"] = "CANCELLED"
    BY <2>1
  <2>4. /\ pc[s] = "Finalize" /\ pc'[s] = "Returned"
        /\ UNCHANGED <<stageCtx, runErr, ctxDone>>
        /\ status'[s] = TerminalStatus(s)
    BY <1>27 DEF Finalize
  <2>5. status'[s] = "FAILED" => runErr[s] = "other" /\ ~ctxDone[s]
    BY <2>4 DEF TerminalStatus, IsCancellation, Err
  <2> HIDE DEF FailureNamed
  <2> QED BY <2>2, <2>3, <2>4, <2>5
<1>28. CASE CallerCancels(s) BY <1>28 DEF CallerCancels
<1>29. CASE ScanTimeoutFires(s) BY <1>29 DEF ScanTimeoutFires
<1>30. CASE StageTimeoutFires(s) BY <1>30 DEF StageTimeoutFires
<1> HIDE <1>1, <1>2
     DEF Located, FailureNamed, StillDone, CtxErr, Typed, Goto, Return,
         ReturnIfDone, StartStages, stateVars, Leaving, WithError, WithStages,
         CompleteAndStart, ScanError, Stage, ReconStages, DetectStages,
         StageContext, CancelStageContext, ctxVars
<1>31. CASE ScanStep(s)
  BY <1>31, <1>5, <1>6, <1>7, <1>8, <1>9, <1>10, <1>11, <1>12, <1>13, <1>14,
     <1>15, <1>16, <1>17, <1>18, <1>19, <1>20, <1>21, <1>22, <1>23, <1>24,
     <1>25, <1>26, <1>27
  DEF ScanStep
<1>32. CASE EnvStep(s)
  BY <1>32, <1>28, <1>29, <1>30 DEF EnvStep
<1> QED
  BY <1>3, <1>4, <1>31, <1>32 DEF Next

(* A scan reported FAILED names its failure, whatever the calls return and *)
(* whenever the contexts are done; the one exception needs a stage timeout *)
(* at RECON.                                                               *)
THEOREM FailuresAreNamed == Spec => []FailureIsLocated
<1>1. Init => LocatedInv
  BY TypedInit DEF Init, LocatedInv, Located
<1>2. LocatedInv /\ [Next]_vars => LocatedInv'
  BY LocatedStep
<1>3. LocatedInv => FailureIsLocated
  BY DEF LocatedInv, Located, FailureNamed, StillDone, FailureIsLocated
<1> QED BY <1>1, <1>2, <1>3, PTL DEF Spec

-----------------------------------------------------------------------------
(* Cancelled scans.  Run's own cancel function leaves the context done as  *)
(* well, but only after the snapshot.                                      *)

Caused(s) ==
  /\ scanCtx[s] = "released" => pc[s] \in {"Release", "Finalize", "Returned"}
  /\ ctxDone[s] =>
       /\ pc[s] \in {"Cleanup", "Release", "Finalize", "Returned"}
       /\ callerDone[s] \/ scanCtx[s] = "expired"
  /\ status[s] = "CANCELLED" =>
       pc[s] = "Returned" /\ (ctxDone[s] \/ runErr[s] = "ctx")

CausedInv == Typed /\ \A s \in Scans : Caused(s)

LEMMA CausedStep ==
  ASSUME CausedInv, [Next]_vars
  PROVE  CausedInv'
<1>1. Typed /\ Typed'
  BY TypedStep DEF CausedInv
<1> SUFFICES ASSUME NEW s \in Scans PROVE Caused(s)'
  BY <1>1 DEF CausedInv
<1>2. Caused(s)
  BY DEF CausedInv
<1>3. ASSUME NEW t \in Scans, t # s, ScanStep(t) \/ EnvStep(t)
      PROVE  Caused(s)'
  BY <1>1, <1>2, <1>3, OthersUntouched
  DEF Untouched, Caused
<1>4. CASE UNCHANGED vars
  BY <1>2, <1>4
  DEF vars, ctxVars, stateVars, resultVars, itemVars, Caused
<1> USE <1>1, <1>2
    DEF Caused, Typed, Goto, Return, ReturnIfDone, StartStages, stateVars,
        CtxErr, ctxVars
<1>5. CASE AcquireSlot(s) BY <1>5 DEF AcquireSlot
<1>6. CASE AbandonQueue(s) BY <1>6 DEF AbandonQueue
<1>7. CASE ResolveTarget(s) BY <1>7 DEF ResolveTarget
<1>8. CASE StartRecon(s) BY <1>8 DEF StartRecon
<1>9. CASE PipelineReturns(s) BY <1>9 DEF PipelineReturns
<1>10. CASE JudgeRecon(s) BY <1>10 DEF JudgeRecon
<1>11. CASE StartDetection(s) BY <1>11 DEF StartDetection
<1>12. CASE SkipDetection(s) BY <1>12 DEF SkipDetection
<1>13. CASE BuildExecutorFails(s) BY <1>13 DEF BuildExecutorFails
<1>14. CASE EngineReturns(s) BY <1>14 DEF EngineReturns
<1>15. CASE JudgeDetection(s) BY <1>15 DEF JudgeDetection
<1>16. CASE ListFindings(s) BY <1>16 DEF ListFindings
<1>17. CASE SaveChains(s) BY <1>17 DEF SaveChains
<1>18. CASE StartRisk(s) BY <1>18 DEF StartRisk
<1>19. CASE AssessRisk(s) BY <1>19 DEF AssessRisk
<1>20. CASE StartEvidence(s) BY <1>20 DEF StartEvidence
<1>21. CASE BuildPackage(s) BY <1>21 DEF BuildPackage
<1>22. CASE EvidenceComplete(s) BY <1>22 DEF EvidenceComplete
<1>23. CASE CompleteFinalization(s) BY <1>23 DEF CompleteFinalization
<1>24. CASE SnapshotCtx(s) BY <1>24 DEF SnapshotCtx
<1>25. CASE CancelScanCtx(s) BY <1>25 DEF CancelScanCtx
<1>26. CASE ReleaseSlot(s) BY <1>26 DEF ReleaseSlot
<1>27. CASE Finalize(s) BY <1>27 DEF Finalize, TerminalStatus, IsCancellation
<1>28. CASE CallerCancels(s) BY <1>28 DEF CallerCancels
<1>29. CASE ScanTimeoutFires(s) BY <1>29 DEF ScanTimeoutFires
<1>30. CASE StageTimeoutFires(s) BY <1>30 DEF StageTimeoutFires
<1> HIDE <1>1, <1>2
     DEF Caused, Typed, Goto, Return, ReturnIfDone, StartStages, stateVars,
         CtxErr, ctxVars
<1>31. CASE ScanStep(s)
  BY <1>31, <1>5, <1>6, <1>7, <1>8, <1>9, <1>10, <1>11, <1>12, <1>13, <1>14,
     <1>15, <1>16, <1>17, <1>18, <1>19, <1>20, <1>21, <1>22, <1>23, <1>24,
     <1>25, <1>26, <1>27
  DEF ScanStep
<1>32. CASE EnvStep(s)
  BY <1>32, <1>28, <1>29, <1>30 DEF EnvStep
<1> QED
  BY <1>3, <1>4, <1>31, <1>32 DEF Next

(* Run never mistakes its own cleanup for a cancellation: behind every     *)
(* CANCELLED there is a caller, a scan timeout or a context error.         *)
THEOREM CancellationHasCause == Spec => []CancelledHasCause
<1>1. Init => CausedInv
  BY TypedInit DEF Init, CausedInv, Caused
<1>2. CausedInv /\ [Next]_vars => CausedInv'
  BY CausedStep
<1>3. CausedInv => CancelledHasCause
  BY DEF CausedInv, Caused, CancelledHasCause
<1> QED BY <1>1, <1>2, <1>3, PTL DEF Spec

-----------------------------------------------------------------------------
(* Refinement.  Every step of Run is a step of ScanLifecycle or leaves     *)
(* what a caller sees unchanged.  The mapping reads the stages only to     *)
(* know whether a scan was ever admitted.                                  *)

PhaseOf(s) ==
  CASE pc[s] = "Queued" -> "waiting"
    [] pc[s] = "Returned" -> "ended"
    [] pc[s] \in {"Cleanup", "Release", "Finalize"} -> "leaving"
    [] OTHER -> "active"

CancelledOf(s) ==
  IF Watching(s) THEN CtxErr(s) ELSE ctxDone[s] \/ NeverAdmitted(s)

OutcomeOf(s) == IF status[s] \in Terminal THEN status[s] ELSE "none"

SamePhase(s)     == PhaseOf(s)' = PhaseOf(s)
SameCancelled(s) == CancelledOf(s)' = CancelledOf(s)
SameOutcome(s)   == OutcomeOf(s)' = OutcomeOf(s)
Stutters(s)      == SamePhase(s) /\ SameCancelled(s) /\ SameOutcome(s)

(* A scan that is not admitted leaves with the context's error, and one    *)
(* that is admitted never looks like one that is not.                      *)
Admitted(s) ==
  /\ pc[s] = "Queued" => scanCtx[s] = "none" /\ NeverAdmitted(s)
  /\ pc[s] \notin {"Queued", "Finalize", "Returned"} => ~NeverAdmitted(s)
  /\ pc[s] = "Finalize" /\ NeverAdmitted(s) => runErr[s] = "ctx"
  /\ pc[s] # "Returned" => status[s] \notin Terminal

AdmittedInv == SlotInv /\ \A s \in Scans : Admitted(s)

LEMMA AdmittedStep ==
  ASSUME AdmittedInv, [Next]_vars
  PROVE  AdmittedInv'
<1>1. Typed /\ Typed' /\ SlotInv'
  BY TypedStep, SlotStep DEF AdmittedInv, SlotInv
<1> SUFFICES ASSUME NEW s \in Scans PROVE Admitted(s)'
  BY <1>1 DEF AdmittedInv
<1>2. Admitted(s)
  BY DEF AdmittedInv
<1>3. ASSUME NEW t \in Scans, t # s, ScanStep(t) \/ EnvStep(t)
      PROVE  Admitted(s)'
  BY <1>1, <1>2, <1>3, OthersUntouched
  DEF Untouched, Admitted, NeverAdmitted
<1>4. CASE UNCHANGED vars
  BY <1>2, <1>4
  DEF vars, ctxVars, stateVars, resultVars, itemVars, Admitted, NeverAdmitted
<1> USE <1>1, <1>2
    DEF Admitted, NeverAdmitted, Typed, Goto, Return, ReturnIfDone,
        StartStages, stateVars, WithStages, CompleteAndStart, Stage,
        ReconStages, DetectStages, Terminal, Completed, ctxVars
<1>5. CASE AcquireSlot(s) BY <1>5 DEF AcquireSlot
<1>6. CASE AbandonQueue(s) BY <1>6 DEF AbandonQueue
<1>7. CASE ResolveTarget(s) BY <1>7 DEF ResolveTarget
<1>8. CASE StartRecon(s) BY <1>8 DEF StartRecon
<1>9. CASE PipelineReturns(s) BY <1>9 DEF PipelineReturns
<1>10. CASE JudgeRecon(s) BY <1>10 DEF JudgeRecon
<1>11. CASE StartDetection(s) BY <1>11 DEF StartDetection
<1>12. CASE SkipDetection(s) BY <1>12 DEF SkipDetection
<1>13. CASE BuildExecutorFails(s) BY <1>13 DEF BuildExecutorFails
<1>14. CASE EngineReturns(s) BY <1>14 DEF EngineReturns
<1>15. CASE JudgeDetection(s) BY <1>15 DEF JudgeDetection
<1>16. CASE ListFindings(s) BY <1>16 DEF ListFindings
<1>17. CASE SaveChains(s) BY <1>17 DEF SaveChains
<1>18. CASE StartRisk(s) BY <1>18 DEF StartRisk
<1>19. CASE AssessRisk(s) BY <1>19 DEF AssessRisk
<1>20. CASE StartEvidence(s) BY <1>20 DEF StartEvidence
<1>21. CASE BuildPackage(s) BY <1>21 DEF BuildPackage
<1>22. CASE EvidenceComplete(s) BY <1>22 DEF EvidenceComplete
<1>23. CASE CompleteFinalization(s) BY <1>23 DEF CompleteFinalization
<1>24. CASE SnapshotCtx(s) BY <1>24 DEF SnapshotCtx
<1>25. CASE CancelScanCtx(s) BY <1>25 DEF CancelScanCtx
<1>26. CASE ReleaseSlot(s) BY <1>26 DEF ReleaseSlot
<1>27. CASE Finalize(s) BY <1>27 DEF Finalize
<1>28. CASE CallerCancels(s) BY <1>28 DEF CallerCancels
<1>29. CASE ScanTimeoutFires(s) BY <1>29 DEF ScanTimeoutFires
<1>30. CASE StageTimeoutFires(s) BY <1>30 DEF StageTimeoutFires
<1> HIDE <1>1, <1>2
     DEF Admitted, NeverAdmitted, Typed, Goto, Return, ReturnIfDone,
         StartStages, stateVars, WithStages, CompleteAndStart, Stage,
         ReconStages, DetectStages, Terminal, Completed, ctxVars
<1>31. CASE ScanStep(s)
  BY <1>31, <1>5, <1>6, <1>7, <1>8, <1>9, <1>10, <1>11, <1>12, <1>13, <1>14,
     <1>15, <1>16, <1>17, <1>18, <1>19, <1>20, <1>21, <1>22, <1>23, <1>24,
     <1>25, <1>26, <1>27
  DEF ScanStep
<1>32. CASE EnvStep(s)
  BY <1>32, <1>28, <1>29, <1>30 DEF EnvStep
<1> QED
  BY <1>3, <1>4, <1>31, <1>32 DEF Next

(* The instance counts as this module does.                                *)
LEMMA LifecycleCardinality ==
  \A S : Lifecycle!Cardinality(S) = Cardinality(S)
BY DEF Lifecycle!Cardinality, Cardinality

(* What a step must do to the mapped state of one scan to be a step of     *)
(* ScanLifecycle.                                                          *)
LEMMA LifecycleSteps ==
  ASSUME NEW t \in Scans, \A s \in Scans \ {t} : Stutters(s)
  PROVE  /\ Stutters(t) => UNCHANGED Lifecycle!vars
         /\ /\ PhaseOf(t) \in {"waiting", "active"} /\ CancelledOf(t)'
            /\ SamePhase(t) /\ SameOutcome(t)
            => Lifecycle!Cancel(t)
         /\ /\ PhaseOf(t) = "waiting" /\ PhaseOf(t)' = "active"
            /\ Cardinality(Lifecycle!Active) < ScanSlots
            /\ SameCancelled(t) /\ SameOutcome(t)
            => Lifecycle!Admit(t)
         /\ /\ PhaseOf(t) = "waiting" /\ PhaseOf(t)' = "leaving"
            /\ CancelledOf(t) /\ SameCancelled(t) /\ SameOutcome(t)
            => Lifecycle!Withdraw(t)
         /\ /\ PhaseOf(t) = "active" /\ PhaseOf(t)' = "leaving"
            /\ SameCancelled(t) /\ SameOutcome(t)
            => Lifecycle!Leave(t)
         /\ /\ PhaseOf(t) = "leaving" /\ PhaseOf(t)' = "ended"
            /\ OutcomeOf(t)' \in Terminal
            /\ CancelledOf(t) => OutcomeOf(t)' = "CANCELLED"
            /\ SameCancelled(t)
            => Lifecycle!End(t)
<1> DEFINE phase     == [s \in Scans |-> PhaseOf(s)]
           cancelled == [s \in Scans |-> CancelledOf(s)]
           outcome   == [s \in Scans |-> OutcomeOf(s)]
<1>1. /\ SamePhase(t) => phase' = phase
      /\ SameCancelled(t) => cancelled' = cancelled
      /\ SameOutcome(t) => outcome' = outcome
  BY DEF Stutters, SamePhase, SameCancelled, SameOutcome
<1>2. /\ phase' = [phase EXCEPT ![t] = PhaseOf(t)']
      /\ cancelled' = [cancelled EXCEPT ![t] = CancelledOf(t)']
      /\ outcome' = [outcome EXCEPT ![t] = OutcomeOf(t)']
  BY DEF Stutters, SamePhase, SameCancelled, SameOutcome
<1>3. Stutters(t) => UNCHANGED Lifecycle!vars
  BY <1>1 DEF Lifecycle!vars, PhaseOf, CancelledOf, OutcomeOf, Stutters
<1>4. /\ PhaseOf(t) \in {"waiting", "active"} /\ CancelledOf(t)'
      /\ SamePhase(t) /\ SameOutcome(t)
      => Lifecycle!Cancel(t)
  BY <1>1, <1>2 DEF Lifecycle!Cancel, PhaseOf, CancelledOf, OutcomeOf
<1>5. /\ PhaseOf(t) = "waiting" /\ PhaseOf(t)' = "active"
      /\ Cardinality(Lifecycle!Active) < ScanSlots
      /\ SameCancelled(t) /\ SameOutcome(t)
      => Lifecycle!Admit(t)
  BY <1>1, <1>2, LifecycleCardinality DEF Lifecycle!Admit, PhaseOf, CancelledOf, OutcomeOf
<1>6. /\ PhaseOf(t) = "waiting" /\ PhaseOf(t)' = "leaving"
      /\ CancelledOf(t) /\ SameCancelled(t) /\ SameOutcome(t)
      => Lifecycle!Withdraw(t)
  BY <1>1, <1>2 DEF Lifecycle!Withdraw, PhaseOf, CancelledOf, OutcomeOf
<1>7. /\ PhaseOf(t) = "active" /\ PhaseOf(t)' = "leaving"
      /\ SameCancelled(t) /\ SameOutcome(t)
      => Lifecycle!Leave(t)
  BY <1>1, <1>2 DEF Lifecycle!Leave, PhaseOf, CancelledOf, OutcomeOf
<1>8. /\ PhaseOf(t) = "leaving" /\ PhaseOf(t)' = "ended"
      /\ OutcomeOf(t)' \in Terminal
      /\ CancelledOf(t) => OutcomeOf(t)' = "CANCELLED"
      /\ SameCancelled(t)
      => Lifecycle!End(t)
  BY <1>1, <1>2
  DEF Lifecycle!End, Lifecycle!Outcome, Terminal, Completed, PhaseOf, CancelledOf, OutcomeOf
<1> QED BY <1>3, <1>4, <1>5, <1>6, <1>7, <1>8

(* A step of Run for scan t, seen by the caller.                           *)
LEMMA LifecycleStep ==
  ASSUME AdmittedInv, NEW t \in Scans, ScanStep(t) \/ EnvStep(t)
  PROVE  [Lifecycle!Next]_Lifecycle!vars
<1>1. Typed /\ Typed' /\ Admitted(t) /\ Admitted(t)'
  BY AdmittedStep, TypedStep DEF AdmittedInv, SlotInv, Next
<1>2. \A s \in Scans \ {t} : Stutters(s)
  <2> SUFFICES ASSUME NEW s \in Scans \ {t} PROVE Stutters(s)
    OBVIOUS
  <2>1. Untouched(s)
    BY <1>1, OthersUntouched
  <2> QED
    BY <2>1
    DEF Untouched, Stutters, SamePhase, SameCancelled, SameOutcome, PhaseOf,
        CancelledOf, OutcomeOf, Watching, CtxErr, NeverAdmitted
<1>3. ASSUME Lifecycle!Cancel(t) \/ Lifecycle!Admit(t) \/ Lifecycle!Withdraw(t)
               \/ Lifecycle!Leave(t) \/ Lifecycle!End(t)
      PROVE  [Lifecycle!Next]_Lifecycle!vars
  BY <1>3 DEF Lifecycle!Next
<1> USE <1>1
    DEF Typed, Admitted, Stutters, SamePhase, SameCancelled, SameOutcome,
        PhaseOf, CancelledOf, OutcomeOf, Watching, CtxErr, Goto, ctxVars,
        stateVars
<1>4. CASE AcquireSlot(t)
  <2>1. PhaseOf(t) = "waiting" /\ PhaseOf(t)' = "active"
    BY <1>4 DEF AcquireSlot
  <2>2. SameCancelled(t) /\ SameOutcome(t)
    BY <1>4 DEF AcquireSlot, Terminal, Completed
  <2>3. Cardinality(Lifecycle!Active) < ScanSlots
    <3>1. Lifecycle!Active \subseteq Holders
      BY DEF Lifecycle!Active, Holders
    <3>2. Cardinality(Lifecycle!Active) <= Cardinality(Holders)
      BY <3>1, HoldersFinite, FS_Subset
    <3>3. slots < ScanSlots /\ slots = Cardinality(Holders)
      BY <1>4 DEF AcquireSlot, AdmittedInv, SlotInv, SlotAccounting
    <3>4. Cardinality(Lifecycle!Active) \in Nat
      BY <3>1, HoldersFinite, FS_Subset, FS_CardinalityType
    <3> QED BY <3>2, <3>3, <3>4, ScanSlotsType
  <2> HIDE DEF PhaseOf, CancelledOf, OutcomeOf, SameCancelled, SameOutcome
  <2> QED BY <1>2, <1>3, <2>1, <2>2, <2>3, LifecycleSteps
<1>5. CASE AbandonQueue(t)
  <2>1. PhaseOf(t) = "waiting" /\ PhaseOf(t)' = "leaving" /\ CancelledOf(t)
    BY <1>5 DEF AbandonQueue
  <2>2. SameCancelled(t) /\ SameOutcome(t)
    BY <1>5 DEF AbandonQueue, NeverAdmitted
  <2> HIDE DEF PhaseOf, CancelledOf, OutcomeOf, SameCancelled, SameOutcome
  <2> QED BY <1>2, <1>3, <2>1, <2>2, LifecycleSteps
<1>6. CASE SnapshotCtx(t)
  <2>1. PhaseOf(t) = "active" /\ PhaseOf(t)' = "leaving"
    BY <1>6 DEF SnapshotCtx
  <2>2. SameCancelled(t) /\ SameOutcome(t)
    BY <1>6 DEF SnapshotCtx, NeverAdmitted
  <2> HIDE DEF PhaseOf, CancelledOf, OutcomeOf, SameCancelled, SameOutcome
  <2> QED BY <1>2, <1>3, <2>1, <2>2, LifecycleSteps
<1>7. CASE Finalize(t)
  <2>1. PhaseOf(t) = "leaving" /\ PhaseOf(t)' = "ended"
    BY <1>7 DEF Finalize
  <2>2. /\ ctxDone' = ctxDone /\ runErr' = runErr
        /\ status'[t] = TerminalStatus(t)
    BY <1>7 DEF Finalize
  <2>3. TerminalStatus(t) \in Terminal
    BY DEF TerminalStatus, Terminal, Completed
  <2>4. NeverAdmitted(t)' <=> NeverAdmitted(t)
    BY <1>7 DEF Finalize, WithStages, NeverAdmitted, Stage
  <2>5. SameCancelled(t)
    BY <1>7, <2>2, <2>4 DEF Finalize
  <2>6. CancelledOf(t) => TerminalStatus(t) = "CANCELLED"
    BY <1>7 DEF Finalize, TerminalStatus, IsCancellation
  <2>7. OutcomeOf(t)' = TerminalStatus(t)
    BY <2>2, <2>3
  <2> HIDE DEF PhaseOf, CancelledOf, OutcomeOf, SameCancelled
  <2> QED BY <1>2, <1>3, <2>1, <2>3, <2>5, <2>6, <2>7, LifecycleSteps
<1>8. CASE CallerCancels(t) \/ ScanTimeoutFires(t)
  <2>1. SamePhase(t) /\ SameOutcome(t)
    BY <1>8 DEF CallerCancels, ScanTimeoutFires
  <2>2. CASE Watching(t)
    <3>1. PhaseOf(t) \in {"waiting", "active"} /\ CancelledOf(t)'
      BY <1>8, <2>2 DEF CallerCancels, ScanTimeoutFires
    <3> HIDE DEF PhaseOf, CancelledOf, OutcomeOf, SamePhase, SameOutcome
    <3> QED BY <1>2, <1>3, <2>1, <3>1, LifecycleSteps
  <2>3. CASE ~Watching(t)
    <3>1. Stutters(t)
      BY <1>8, <2>1, <2>3
      DEF CallerCancels, ScanTimeoutFires, NeverAdmitted
    <3> HIDE DEF Stutters
    <3> QED BY <1>2, <3>1, LifecycleSteps
  <2> QED BY <2>2, <2>3
<1>9. ASSUME Stutters(t) PROVE [Lifecycle!Next]_Lifecycle!vars
  <2> HIDE DEF Stutters
  <2> QED BY <1>2, <1>9, LifecycleSteps
<1>10. CASE ResolveTarget(t)
  BY <1>9, <1>10 DEF ResolveTarget, Return
<1>11. CASE StartRecon(t)
  BY <1>9, <1>11 DEF StartRecon, Return, ReturnIfDone, StartStages
<1>12. CASE PipelineReturns(t)
  BY <1>9, <1>12 DEF PipelineReturns
<1>13. CASE JudgeRecon(t)
  BY <1>9, <1>13 DEF JudgeRecon, Return
<1>14. CASE StartDetection(t)
  BY <1>9, <1>14 DEF StartDetection, Return, ReturnIfDone, StartStages
<1>15. CASE SkipDetection(t)
  BY <1>9, <1>15 DEF SkipDetection
<1>16. CASE BuildExecutorFails(t)
  BY <1>9, <1>16 DEF BuildExecutorFails, Return
<1>17. CASE EngineReturns(t)
  BY <1>9, <1>17 DEF EngineReturns
<1>18. CASE JudgeDetection(t)
  BY <1>9, <1>18 DEF JudgeDetection, Return
<1>19. CASE ListFindings(t)
  BY <1>9, <1>19 DEF ListFindings, Return
<1>20. CASE SaveChains(t)
  BY <1>9, <1>20 DEF SaveChains
<1>21. CASE StartRisk(t)
  BY <1>9, <1>21 DEF StartRisk, Return, ReturnIfDone, StartStages
<1>22. CASE AssessRisk(t)
  BY <1>9, <1>22 DEF AssessRisk
<1>23. CASE StartEvidence(t)
  BY <1>9, <1>23 DEF StartEvidence, Return, ReturnIfDone, StartStages
<1>24. CASE BuildPackage(t)
  BY <1>9, <1>24 DEF BuildPackage, Return
<1>25. CASE EvidenceComplete(t)
  BY <1>9, <1>25 DEF EvidenceComplete
<1>26. CASE CompleteFinalization(t)
  BY <1>9, <1>26 DEF CompleteFinalization, Return, ReturnIfDone, StartStages
<1>27. CASE CancelScanCtx(t)
  BY <1>9, <1>27 DEF CancelScanCtx, NeverAdmitted
<1>28. CASE ReleaseSlot(t)
  BY <1>9, <1>28 DEF ReleaseSlot, NeverAdmitted
<1>29. CASE StageTimeoutFires(t)
  BY <1>9, <1>29 DEF StageTimeoutFires, NeverAdmitted
<1> QED
  BY <1>4, <1>5, <1>6, <1>7, <1>8, <1>10, <1>11, <1>12, <1>13, <1>14, <1>15,
     <1>16, <1>17, <1>18, <1>19, <1>20, <1>21, <1>22, <1>23, <1>24, <1>25,
     <1>26, <1>27, <1>28, <1>29
  DEF ScanStep, EnvStep

(* The safety part of ImplementsLifecycle: a caller of Run sees nothing    *)
(* but what ScanLifecycle allows, for any number of scans and slots.       *)
THEOREM RunIsALifecycle == Spec => Lifecycle!Spec
<1>1. Init => AdmittedInv
  <2> SUFFICES ASSUME Init PROVE AdmittedInv
    OBVIOUS
  <2>1. Holders = {}
    BY DEF Init, Holders
  <2> QED
    BY <2>1, TypedInit, FS_EmptySet, ScanSlotsType
    DEF Init, AdmittedInv, Admitted, NeverAdmitted, SlotInv, SlotAccounting,
        Stage, Terminal, Completed
<1>2. AdmittedInv /\ [Next]_vars => AdmittedInv'
  BY AdmittedStep
<1>3. Init => Lifecycle!Init
  <2> SUFFICES ASSUME Init PROVE Lifecycle!Init
    OBVIOUS
  <2>1. [s \in Scans |-> PhaseOf(s)] = [s \in Scans |-> "waiting"]
    BY DEF Init, PhaseOf
  <2>2. [s \in Scans |-> CancelledOf(s)] = [s \in Scans |-> FALSE]
    <3>1. \A s \in Scans : CancelledOf(s) = FALSE
      BY DEF Init, CancelledOf, Watching, CtxErr
    <3> HIDE DEF CancelledOf
    <3> QED BY <3>1, Zenon
  <2>3. [s \in Scans |-> OutcomeOf(s)] = [s \in Scans |-> "none"]
    BY DEF Init, OutcomeOf, Terminal, Completed
  <2> QED
    BY <2>1, <2>2, <2>3
    DEF Lifecycle!Init, PhaseOf, CancelledOf, OutcomeOf
<1>4. AdmittedInv /\ [Next]_vars => [Lifecycle!Next]_Lifecycle!vars
  <2>1. CASE UNCHANGED vars
    BY <2>1
    DEF vars, ctxVars, stateVars, Lifecycle!vars, Watching, CtxErr,
        NeverAdmitted
  <2> QED BY <2>1, LifecycleStep DEF Next
<1> QED BY <1>1, <1>2, <1>3, <1>4, PTL DEF Spec, Lifecycle!Spec
=============================================================================
