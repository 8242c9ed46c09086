--------------------------- MODULE DetectionEngine ---------------------------
(***************************************************************************)
(* internal/detection: Engine.Run on one scan job, and running it again.   *)
(*                                                                         *)
(* Run walks over the (detector, target) pairs in order and hands each     *)
(* eligible one to an errgroup that holds at most Concurrency goroutines.  *)
(* A goroutine calls the detector, counts the call and records what came   *)
(* of it, each under the mutex; when all have returned, the findings are   *)
(* deduplicated against those already stored and created one by one.  The  *)
(* caller's context may be done at any point, and a later Run on the same  *)
(* job starts from whatever the earlier one stored.                        *)
(***************************************************************************)
EXTENDS Integers, Sequences, FiniteSets, SequencesExt

CONSTANTS
  NumPairs,    \* the pairs are 1..NumPairs, detectors outermost
  Eligible,    \* pairs that pass supportsTarget and Detector.Eligible
  Keys,        \* dedupKey values of the findings
  Concurrency, \* Engine.Concurrency as configured
  MaxPerPair,  \* bound on the findings of one Detect call
  MaxRuns      \* bound on the calls of Run

Pairs == 1..NumPairs

ASSUME EngineAssumption ==
  /\ NumPairs \in Nat
  /\ Eligible \subseteq Pairs
  /\ Concurrency \in Int
  /\ MaxPerPair \in Nat
  /\ MaxRuns \in Nat \ {0}

VARIABLES
  phase,    \* where Run is
  run,      \* how many calls of Run were made
  ctxDone,  \* the context of this call is done
  next,     \* next pair of the selection loop
  work,     \* what each pair's goroutine is doing
  result,   \* what each pair's Detect call returned
  found,    \* the shared slice of findings
  errs,     \* pairs with a DetectorError
  runCount, \* completed Detect calls
  kept,     \* positions in found still to be created
  counts,   \* RunSummary: eligible, runs, created, duplicates, cancelled
  err,      \* what Run returned
  stored    \* the findings table, in the order of its rows

poolVars == <<next, work, result, found, errs, runCount>>
vars == <<phase, run, ctxDone, poolVars, kept, counts, err, stored>>

-----------------------------------------------------------------------------
Phase == {"load", "select", "wait", "persist", "returned"}
Work  == {"idle", "scheduled", "detecting", "counted", "done", "panicked", "skipped"}
Finding == [key : Keys, pair : Pairs, run : 1..MaxRuns]

(* What Detect can return; an error carries no findings.                   *)
Failure == [kind |-> "error", keys |-> <<>>]
Results == {Failure} \cup [kind : {"ok"}, keys : BoundedSeq(Keys, MaxPerPair)]

NoCounts == [eligible |-> 0, runs |-> 0, created |-> 0, duplicates |-> 0,
             cancelled |-> FALSE]

(* A non-positive Concurrency means five.                                  *)
Limit == IF Concurrency <= 0 THEN 5 ELSE Concurrency

(* Goroutines that hold one of the errgroup's places.                      *)
Busy == {p \in Pairs : work[p] \in {"scheduled", "detecting", "counted"}}

Normalize(p, keys) ==
  [i \in DOMAIN keys |-> [key |-> keys[i], pair |-> p, run |-> run]]

KeysOf(findings) == {findings[i].key : i \in DOMAIN findings}

FirstOfItsKey(findings, i) == \A j \in 1 .. i - 1 : findings[j].key # findings[i].key

(* Fault: what an earlier run stored is not looked at.                     *)
DeduplicateWithin(existing, findings) == {i \in DOMAIN findings : FirstOfItsKey(findings, i)}

(* Deduplicate: the first finding of every key that is not stored yet, by  *)
(* its position.                                                           *)
Deduplicate(existing, findings) ==
  {i \in DOMAIN findings : /\ findings[i].key \notin KeysOf(existing)
                           /\ FirstOfItsKey(findings, i)}

-----------------------------------------------------------------------------
Init ==
  /\ phase = "load"
  /\ run = 1
  /\ ctxDone = FALSE
  /\ next = 1
  /\ work = [p \in Pairs |-> "idle"]
  /\ result = [p \in Pairs |-> Failure]
  /\ found = <<>>
  /\ errs = {}
  /\ runCount = 0
  /\ kept = {}
  /\ counts = NoCounts
  /\ err = "nil"
  /\ stored = <<>>

(* BuildTargets and ListByScanJob: either may fail, and without a target   *)
(* or an enabled detector Run returns at once.                             *)
Load ==
  /\ phase = "load"
  /\ \/ /\ phase' = "returned"
        /\ err' = "load"
        /\ UNCHANGED counts
     \/ /\ ~ctxDone
        /\ phase' = "select"
        /\ UNCHANGED <<counts, err>>
     \/ /\ phase' = "returned"
        /\ counts' = [counts EXCEPT !.cancelled = ctxDone]
        /\ UNCHANGED err
  /\ UNCHANGED <<run, ctxDone, poolVars, kept, stored>>

(* One iteration of the selection loop; g.Go blocks while the group is     *)
(* full.  The loop itself does not look at the context.                    *)
Select ==
  /\ phase = "select"
  /\ next <= NumPairs
  /\ next' = next + 1
  /\ \/ /\ next \notin Eligible
        /\ UNCHANGED <<work, counts>>
     \/ /\ next \in Eligible
        /\ Cardinality(Busy) < Limit
        /\ work' = [work EXCEPT ![next] = "scheduled"]
        /\ counts' = [counts EXCEPT !.eligible = @ + 1]
  /\ UNCHANGED <<phase, run, ctxDone, result, found, errs, runCount, kept, err, stored>>

SelectionEnds ==
  /\ phase = "select"
  /\ next > NumPairs
  /\ phase' = "wait"
  /\ UNCHANGED <<run, ctxDone, poolVars, kept, counts, err, stored>>

(* The goroutine of pair p looks at the context once, before Detect.       *)
Begin(p) ==
  /\ work[p] = "scheduled"
  /\ work' = [work EXCEPT ![p] = IF ctxDone THEN "skipped" ELSE "detecting"]
  /\ UNCHANGED <<phase, run, ctxDone, next, result, found, errs, runCount,
                 kept, counts, err, stored>>

(* Detect panics: recovered and recorded, but not counted as a run.        *)
DetectPanics(p) ==
  /\ work[p] = "detecting"
  /\ work' = [work EXCEPT ![p] = "panicked"]
  /\ errs' = errs \cup {p}
  /\ UNCHANGED <<phase, run, ctxDone, next, result, found, runCount, kept,
                 counts, err, stored>>

DetectReturns(p) ==
  /\ work[p] = "detecting"
  /\ work' = [work EXCEPT ![p] = "counted"]
  /\ runCount' = runCount + 1
  /\ \E r \in Results : result' = [result EXCEPT ![p] = r]
  /\ UNCHANGED <<phase, run, ctxDone, next, found, errs, kept, counts, err, stored>>

(* The second critical section: an error is recorded and goes no further,  *)
(* findings are normalised and appended in the order goroutines get there. *)
Record(p) ==
  /\ work[p] = "counted"
  /\ work' = [work EXCEPT ![p] = "done"]
  /\ IF result[p] = Failure
     THEN errs' = errs \cup {p} /\ UNCHANGED found
     ELSE found' = found \o Normalize(p, result[p].keys) /\ UNCHANGED errs
  /\ UNCHANGED <<phase, run, ctxDone, next, result, runCount, kept, counts,
                 err, stored>>

(* Fault: the context is not looked at after the wait.                     *)
WaitReturnsWithoutLooking ==
  /\ phase = "wait"
  /\ Busy = {}
  /\ phase' = "persist"
  /\ LET fresh == Deduplicate(stored, found)
     IN  /\ kept' = fresh
         /\ counts' = [counts EXCEPT !.runs = runCount,
                                     !.duplicates = Len(found) - Cardinality(fresh)]
  /\ UNCHANGED <<run, ctxDone, poolVars, err, stored>>

(* Fault: Run waits until every eligible pair has been counted.            *)
WaitReturnsWhenCounted ==
  /\ phase = "wait"
  /\ runCount = counts.eligible
  /\ phase' = "persist"
  /\ LET fresh == Deduplicate(stored, found)
     IN  /\ kept' = fresh
         /\ counts' = [counts EXCEPT !.runs = runCount,
                                     !.cancelled = ctxDone,
                                     !.duplicates = Len(found) - Cardinality(fresh)]
  /\ UNCHANGED <<run, ctxDone, poolVars, err, stored>>

(* g.Wait returns; the summary is filled in and the findings deduplicated. *)
WaitReturns ==
  /\ phase = "wait"
  /\ Busy = {}
  /\ phase' = "persist"
  /\ LET fresh == Deduplicate(stored, found)
     IN  /\ kept' = fresh
         /\ counts' = [counts EXCEPT !.runs = runCount,
                                     !.cancelled = ctxDone,
                                     !.duplicates = Len(found) - Cardinality(fresh)]
  /\ UNCHANGED <<run, ctxDone, poolVars, err, stored>>

(* The findings are created in the order in which they were found.         *)
NextKept(i) == i \in kept /\ \A j \in kept : i <= j

(* Fault: a finding that cannot be created is passed over.                 *)
PersistGoingOn ==
  /\ phase = "persist"
  /\ \E i \in kept :
       /\ NextKept(i)
       /\ kept' = kept \ {i}
       /\ \/ /\ ~ctxDone
             /\ stored' = Append(stored, found[i])
             /\ counts' = [counts EXCEPT !.created = @ + 1]
          \/ UNCHANGED <<stored, counts>>
  /\ UNCHANGED <<phase, err, run, ctxDone, poolVars>>

(* Findings().Create of the first finding left, under the call's context:  *)
(* it fails when the store does or when the context is done, and Run then  *)
(* returns with the rest not created.                                      *)
Persist ==
  /\ phase = "persist"
  /\ \E i \in kept :
       /\ NextKept(i)
       /\ \/ /\ ~ctxDone
             /\ stored' = Append(stored, found[i])
             /\ kept' = kept \ {i}
             /\ counts' = [counts EXCEPT !.created = @ + 1]
             /\ UNCHANGED <<phase, err>>
          \/ /\ phase' = "returned"
             /\ err' = IF ctxDone THEN "ctx" ELSE "store"
             /\ UNCHANGED <<stored, kept, counts>>
  /\ UNCHANGED <<run, ctxDone, poolVars>>

Return ==
  /\ phase = "persist"
  /\ kept = {}
  /\ phase' = "returned"
  /\ UNCHANGED <<run, ctxDone, poolVars, kept, counts, err, stored>>

CallerCancels ==
  /\ phase # "returned"
  /\ ~ctxDone
  /\ ctxDone' = TRUE
  /\ UNCHANGED <<phase, run, poolVars, kept, counts, err, stored>>

(* Another call of Run for the same scan job, with a new context.          *)
RunAgain ==
  /\ phase = "returned"
  /\ run < MaxRuns
  /\ run' = run + 1
  /\ phase' = "load"
  /\ ctxDone' = FALSE
  /\ next' = 1
  /\ work' = [p \in Pairs |-> "idle"]
  /\ result' = [p \in Pairs |-> Failure]
  /\ found' = <<>>
  /\ errs' = {}
  /\ runCount' = 0
  /\ kept' = {}
  /\ counts' = NoCounts
  /\ err' = "nil"
  /\ UNCHANGED stored

Worker(p) == Begin(p) \/ DetectPanics(p) \/ DetectReturns(p) \/ Record(p)
Main == Load \/ Select \/ SelectionEnds \/ WaitReturns \/ Persist \/ Return

Next ==
  \/ Main
  \/ \E p \in Pairs : Worker(p)
  \/ CallerCancels
  \/ RunAgain

Spec == Init /\ [][Next]_vars

(* The goroutines are scheduled, and a detector returns: its requests have *)
(* timeouts.  Nothing is assumed of the caller.                            *)
FairSpec == Spec /\ WF_vars(Main) /\ \A p \in Pairs : WF_vars(Worker(p))

-----------------------------------------------------------------------------
Counts == [eligible : 0..NumPairs, runs : 0..NumPairs, created : Nat,
           duplicates : Nat, cancelled : BOOLEAN]

(* Type invariant: every variable has its type, and the errgroup never     *)
(* holds more goroutines than its limit.                                   *)
TypeOK ==
  /\ phase \in Phase
  /\ run \in 1..MaxRuns
  /\ ctxDone \in BOOLEAN
  /\ next \in 1..(NumPairs + 1)
  /\ work \in [Pairs -> Work]
  /\ result \in [Pairs -> Results]
  /\ found \in Seq(Finding)
  /\ errs \subseteq Pairs
  /\ runCount \in 0..NumPairs
  /\ kept \subseteq DOMAIN found
  /\ counts \in Counts
  /\ err \in {"nil", "load", "store", "ctx"}
  /\ stored \in Seq(Finding)
  /\ Cardinality(Busy) <= Limit

(* "Dedup is idempotent across runs, not just within one": however earlier *)
(* runs ended, cut short in the middle of persisting or not, no two stored *)
(* findings have the same key.                                             *)
NoKeyStoredTwice ==
  \A i, j \in DOMAIN stored : stored[i].key = stored[j].key => i = j

(* Run came to its own end, having walked over all the pairs.              *)
RanThrough == phase = "returned" /\ err = "nil" /\ next > NumPairs

(* "Whatever was found ... is not silently discarded": when Run returns    *)
(* nil, every finding that any Detect call reported is stored under its    *)
(* key, and the summary accounts for each as created or as a duplicate.    *)
NothingReportedIsLost ==
  RanThrough =>
    /\ \A p \in Pairs : work[p] = "done" =>
         \A i \in DOMAIN result[p].keys : result[p].keys[i] \in KeysOf(stored)
    /\ counts.created + counts.duplicates = Len(found)

(* Error isolation: a panic, an error or a cancellation in one pair takes  *)
(* nothing from another.  When Run returns nil and does not say cancelled, *)
(* every eligible pair was run to its end or is named in Errors, and the   *)
(* two counters differ by the panics alone.                                *)
EveryEligiblePairSettled ==
  (RanThrough /\ ~counts.cancelled) =>
    LET done     == {p \in Pairs : work[p] = "done"}
        panicked == {p \in Pairs : work[p] = "panicked"}
    IN  /\ done \cup panicked = Eligible
        /\ counts.runs = Cardinality(done)
        /\ counts.eligible = Cardinality(Eligible)
        /\ errs = panicked \cup {p \in done : result[p] = Failure}

(* Run returns, whatever its detectors and its context do.                 *)
RunReturns == \A r \in 1..MaxRuns : (run = r) ~> (phase = "returned")
=============================================================================
