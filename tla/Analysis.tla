------------------------------ MODULE Analysis ------------------------------
(* The stages of a scan after detection (src/internal/orchestrator):       *)
(* CORRELATION reads the findings of the scan and folds them into          *)
(* canonical ones, builds the attack chains and saves them one statement   *)
(* at a time; RISK ranks, EVIDENCE packages, FINALIZATION reports what was *)
(* left out. Beside them the command that shows a chain reads the same     *)
(* tables from another process.                                            *)
EXTENDS EvidencePackage, Chains

CONSTANTS Scenarios,     \* sets of findings that a detection run may have stored
          MaxFindings    \* findings a report carries

(* The limits are positive; a finding has an id of its own, and its names  *)
(* are numbers.                                                            *)
ASSUME AnalysisAssumption ==
  /\ {MaxGroups, MaxItems, MaxFindings, MaxViews, MaxRelations, MaxChainLength, MaxCandidates}
       \subseteq Nat \ {0}
  /\ \A S \in Scenarios :
       /\ IsFiniteSet(S)
       /\ \A f, g \in S : f.id = g.id => f = g
       /\ \A f \in S : {f.id, f.scan, f.host, f.endpoint.name, f.urlPath.name} \subseteq Nat

(* Confidences and titles are numbers too. Every detector words its        *)
(* evidence in its own way, and of the severities that are not recognised  *)
(* there is one.                                                           *)
ASSUME ReportAssumption ==
  \A S \in Scenarios : \A f, g \in S :
    /\ {f.confidence, f.title} \subseteq Nat
    /\ f.evidence = g.evidence /\ f.title = g.title => f.detector = g.detector
    /\ RankOfSeverity(f.severity) = 0 /\ RankOfSeverity(g.severity) = 0
         => f.severity = g.severity

(* What differs has a digest of its own.                                   *)
ASSUME DigestAssumption ==
  \A S \in Scenarios :
    /\ \A c, d \in SUBSET {f.id : f \in S} :
         ChainDigest(c) \in Int /\ (ChainDigest(c) = ChainDigest(d) => c = d)
    /\ \A f, g \in S :
         /\ IdDigest(Identity(f)) \in Int
         /\ IdDigest(Identity(f)) = IdDigest(Identity(g)) => Identity(f) = Identity(g)
         /\ Digest(f.evidence) \in Int
         /\ Digest(f.evidence) = Digest(g.evidence) => f.evidence = g.evidence

VARIABLES
  stored,       \* the raw findings of the scan
  ctxDone,      \* whether the context of the scan is done
  pc,           \* what comes next
  arrived,      \* raw findings ingested so far
  buckets,      \* the correlation engine: identity -> groups
  statements,   \* what SaveResult still has to execute
  db,           \* the chain tables
  ranked,       \* assessments still to be packaged, in order
  truncated,    \* whether findings were cut off
  packages,     \* packages built
  warnings,     \* warnings recorded for the report
  reader        \* the process that shows a chain

vars == <<stored, ctxDone, pc, arrived, buckets, statements, db, ranked, truncated,
          packages, warnings, reader>>

Ends == {"done", "failed", "cancelled", "crashed"}
NoReader == [pc |-> "idle", candidate |-> {}, relations |-> {}]

Init ==
  /\ stored \in Scenarios
  /\ ctxDone = FALSE
  /\ pc = "list"
  /\ arrived = {} /\ buckets = <<>>
  /\ statements = <<>> /\ db = [relations |-> {}, candidates |-> {}]
  /\ ranked = <<>> /\ truncated = FALSE
  /\ packages = {} /\ warnings = {}
  /\ reader = NoReader

------------------------------------------------------------------------------
(* The list is read in one query; if it fails the stage and the scan do.   *)
ListByScanJob ==
  /\ pc = "list"
  /\ \/ ~ctxDone /\ pc' = "ingest"
     \/ pc' = "failed"
  /\ UNCHANGED <<stored, ctxDone, arrived, buckets, statements, db, ranked, truncated,
                 packages, warnings, reader>>

(* The list is in the order in which the findings were seen, which is any. *)
IngestOne ==
  /\ pc = "ingest"
  /\ \E f \in stored \ arrived :
       /\ buckets' = Ingest(buckets, f)
       /\ arrived' = arrived \cup {f}
  /\ UNCHANGED <<stored, ctxDone, pc, statements, db, ranked, truncated, packages, warnings,
                 reader>>

(* Fault: candidates are inserted before the relations they refer to.      *)
CandidatesFirst(result) ==
  [i \in DOMAIN result.candidates |-> [do |-> "insertCandidate", row |-> result.candidates[i]]]
    \o [i \in DOMAIN result.relations |-> [do |-> "insertRelation", row |-> result.relations[i]]]

(* The statements of SaveResult: both tables are cleared, the relations    *)
(* are inserted, and then the candidates that refer to them.               *)
SaveStatements(result) ==
  <<[do |-> "deleteRelations"], [do |-> "deleteCandidates"]>>
    \o [i \in DOMAIN result.relations |-> [do |-> "insertRelation", row |-> result.relations[i]]]
    \o [i \in DOMAIN result.candidates |-> [do |-> "insertCandidate", row |-> result.candidates[i]]]

StartSave ==
  /\ pc = "ingest" /\ arrived = stored
  /\ statements' = SaveStatements(Correlate(stored))
  /\ pc' = "save"
  /\ UNCHANGED <<stored, ctxDone, arrived, buckets, db, ranked, truncated, packages, warnings,
                 reader>>

Executed(statement) ==
  CASE statement.do = "deleteRelations" -> [db EXCEPT !.relations = {}]
  []   statement.do = "deleteCandidates" -> [db EXCEPT !.candidates = {}]
  []   statement.do = "insertRelation" -> [db EXCEPT !.relations = @ \cup {statement.row}]
  []   statement.do = "insertCandidate" -> [db EXCEPT !.candidates = @ \cup {statement.row}]

(* Every statement commits by itself.                                      *)
SaveStatement ==
  /\ pc = "save" /\ statements # <<>> /\ ~ctxDone
  /\ db' = Executed(Head(statements))
  /\ statements' = Tail(statements)
  /\ UNCHANGED <<stored, ctxDone, pc, arrived, buckets, ranked, truncated, packages, warnings,
                 reader>>

(* Once the chains are saved, or could not be, the scan goes on, unless    *)
(* its context is done: a statement that fails is only a warning.          *)
AfterCorrelation == pc' = IF ctxDone THEN "cancelled" ELSE "risk"

SaveFails ==
  /\ pc = "save" /\ statements # <<>>
  /\ warnings' = warnings \cup {[about |-> "chains"]}
  /\ statements' = <<>>
  /\ AfterCorrelation
  /\ UNCHANGED <<stored, ctxDone, arrived, buckets, db, ranked, truncated, packages, reader>>

SaveDone ==
  /\ pc = "save" /\ statements = <<>>
  /\ AfterCorrelation
  /\ UNCHANGED <<stored, ctxDone, arrived, buckets, statements, db, ranked, truncated, packages,
                 warnings, reader>>

(* Fault: the wrong end of the ranking is cut off.                         *)
KeepLast(all) == SubSeq(all, Max({1, Len(all) - MaxFindings + 1}), Len(all))

(* All canonical findings are ranked, and then the report is cut.          *)
Keep(all) == SubSeq(all, 1, Min({Len(all), MaxFindings}))

RankFindings ==
  /\ pc = "risk"
  /\ LET all == Rank({Assess(cf) : cf \in Findings(buckets)})
     IN  IF ctxDone THEN pc' = "cancelled" /\ UNCHANGED <<ranked, truncated>>
         ELSE /\ pc' = "evidence"
              /\ ranked' = Keep(all)
              /\ truncated' = (Len(all) > MaxFindings)
  /\ UNCHANGED <<stored, ctxDone, arrived, buckets, statements, db, packages, warnings, reader>>

(* A package that cannot be built, because building it panics, costs only  *)
(* that finding.                                                           *)
PackageOne ==
  /\ pc = "evidence" /\ ranked # <<>> /\ ~ctxDone
  /\ LET a == Head(ranked)
         cf == CHOOSE cf \in Findings(buckets) : cf.id = a.finding
     IN  \/ packages' = packages \cup {BuildPackage(cf, a)} /\ UNCHANGED warnings
         \/ /\ warnings' = warnings \cup {[about |-> "finding", finding |-> a.finding]}
            /\ UNCHANGED packages
  /\ ranked' = Tail(ranked)
  /\ UNCHANGED <<stored, ctxDone, pc, arrived, buckets, statements, db, truncated, reader>>

EvidenceEnds ==
  /\ pc = "evidence"
  /\ ranked = <<>> \/ ctxDone
  /\ pc' = IF ctxDone THEN "cancelled" ELSE "finalize"
  /\ UNCHANGED <<stored, ctxDone, arrived, buckets, statements, db, ranked, truncated, packages,
                 warnings, reader>>

Finalize ==
  /\ pc = "finalize"
  /\ warnings' = warnings \cup (IF truncated THEN {[about |-> "truncated"]} ELSE {})
  /\ pc' = "done"
  /\ UNCHANGED <<stored, ctxDone, arrived, buckets, statements, db, ranked, truncated, packages,
                 reader>>

------------------------------------------------------------------------------
(* The context may be done at any time, and the process may die.           *)
ContextDone ==
  /\ ~ctxDone /\ pc \notin Ends
  /\ ctxDone' = TRUE
  /\ UNCHANGED <<stored, pc, arrived, buckets, statements, db, ranked, truncated, packages,
                 warnings, reader>>

Crash ==
  /\ pc \notin Ends
  /\ pc' = "crashed"
  /\ arrived' = {} /\ buckets' = <<>> /\ statements' = <<>> /\ ranked' = <<>>
  /\ truncated' = FALSE /\ packages' = {} /\ warnings' = {}
  /\ UNCHANGED <<stored, ctxDone, db, reader>>

(* `chains show` looks for its candidate first and reads the relations in  *)
(* a query of its own.                                                     *)
FindCandidate ==
  /\ reader.pc # "found"
  /\ \E c \in db.candidates : reader' = [pc |-> "found", candidate |-> c, relations |-> {}]
  /\ UNCHANGED <<stored, ctxDone, pc, arrived, buckets, statements, db, ranked, truncated,
                 packages, warnings>>

ShowChain ==
  /\ reader.pc = "found"
  /\ reader' = [reader EXCEPT !.pc = "shown", !.relations = db.relations]
  /\ UNCHANGED <<stored, ctxDone, pc, arrived, buckets, statements, db, ranked, truncated,
                 packages, warnings>>

Next ==
  \/ ListByScanJob \/ IngestOne \/ StartSave \/ SaveStatement \/ SaveFails \/ SaveDone
  \/ RankFindings \/ PackageOne \/ EvidenceEnds \/ Finalize
  \/ ContextDone \/ Crash
  \/ FindCandidate \/ ShowChain

Spec == Init /\ [][Next]_vars

------------------------------------------------------------------------------
(* What the order of arrival decides nothing about: either all signatures  *)
(* of an identity fit, or no signature came twice.                         *)
Settled(came) ==
  \/ Cardinality(Summaries(came)) <= MaxGroups
  \/ \A f, g \in came : f.evidence = g.evidence => f = g

(* Every identity that came has a bucket, and the bucket is what the       *)
(* findings of that identity say in any order: the strongest signatures,   *)
(* each at its least confidence and severity (engine.go:86-139).           *)
CanonicalIsReference ==
  /\ DOMAIN buckets = {Identity(f) : f \in arrived}
  /\ \A id \in DOMAIN buckets :
       LET came == {f \in arrived : Identity(f) = id}
       IN  Settled(came) => buckets[id] = Strongest(Summaries(came), MaxGroups)

(* Whenever a chain is shown, and whatever happened to the scan that saved *)
(* it, all of its relations are found, they relate findings of the chain   *)
(* that belong to its scan and identity, and a SUPPORTED chain shows a     *)
(* relation of the level of evidence (repos.go:989, chains.go:118).        *)
ShownChainsResolve ==
  reader.pc = "shown" =>
    LET c == reader.candidate
        shown == {r \in reader.relations : {r.a, r.b} \subseteq c.findings}
        members == {f \in stored : f.id \in c.findings}
    IN  /\ c.relations \subseteq reader.relations
        /\ \A r \in c.relations : {r.a, r.b} \subseteq c.findings
        /\ c.findings = {f.id : f \in members}
        /\ \A f \in members : f.scan = c.scan /\ f.identity = c.identity
        /\ (c.status = "SUPPORTED") <=>
             \E r \in shown : r.type \in {"DATA_FLOW", "SHARED_EVIDENCE", "POTENTIAL_PRECONDITION"}

(* What the report of a scan that went through says of a raw finding: a    *)
(* package of its identity, or a warning that names it, or a warning that  *)
(* findings were cut off, and then it ranks below everything kept          *)
(* (orchestrator.go:579-619).                                              *)
EveryFindingAccountedFor ==
  pc = "done" =>
    LET reported == {p.finding.id : p \in packages}
                    \cup {w.finding : w \in {v \in warnings : v.about = "finding"}}
        Assessment(id) == Assess(Build(id, buckets[id]))
    IN  \A f \in stored :
          \/ Identity(f) \in reported
          \/ /\ [about |-> "truncated"] \in warnings
             /\ \A id \in reported : RankedBefore(Assessment(id), Assessment(Identity(f)))

(* What relate.go:10-18 and docs/phase-3-30-acceptance-test.md:430-432 say *)
(* of SQL injection: that its evidence is a source of data flow, so that a *)
(* finding about an object whose id it leaks is related to it.             *)
InjectionLeaksFlow ==
  pc = "risk" /\ warnings = {} =>
    \A f, g \in stored :
       /\ f.class = "sql_injection" /\ Isolated(f, g)
       /\ ResourceValue(g) \in Contents(f) \ {0}
       => \E r \in db.relations : r.type = "DATA_FLOW" /\ {r.a, r.b} = {f.id, g.id}
=============================================================================
