# sakanner, specified

sakanner is a Go program that scans targets for web vulnerabilities. One
command drives a *scan job* through reconnaissance, detection, correlation,
risk scoring and evidence, stores everything in one SQLite file, and must
never send a request outside the configured scope. This directory holds TLA+
specifications of the program, from its command line to the report, the TLC
configurations that check them and the TLAPS proofs about them. Paths below are relative to `src/`.

    tlc -workers 2 -config MCJobStore.cfg MCJobStore     # check a configuration
    tlapm JobStoreProofs.tla                             # check the proofs

## 1. The system

### How a scan runs

`cmd/scanner` builds one `orchestrator.Orchestrator` and calls `Run`. Run takes
a *scan slot* (a channel with `MaxConcurrentScans` places), registers the
target, calls `orchestration.Pipeline.Run` for the recon stages, then
`detection.Engine.Run`, then reads the findings back from the store, correlates
and ranks them, and builds an evidence package for each. The detectors reach
the network only through `detection.Executor`, and behind it
`mutation.Executor`, which check the scope, charge budgets and take a place of
a semaphore before `safedial` dials. Every step shares `context.Context`
cancellation: Ctrl+C, `ScanTimeout` and a timeout per stage. Several scanner
*processes* may share the database file; the job table records the owner's pid
so that the next process can tell a dead job from a live one.

### Components

About 33 000 lines of Go without tests. "State" is what outlives a call.

| component | where | state | operations | what is hard, and what makes it correct |
|---|---|---|---|---|
| scan orchestrator | `internal/orchestrator` | scan slots, `ScanState` (status, nine stages, errors) | `Run`, its stages, its four deferred functions | Cancellation at any point, order of the deferred functions, partial failure after detection. The outcome agrees with the stages, errors and context; slots are neither leaked nor released twice; every call returns. |
| detection engine | `internal/detection/engine.go`, `finding.go`, `registry.go` | findings table, the errgroup and what it shares under a mutex | `Run`, normalise, deduplicate, persist | Goroutines, panics, cancellation between detection and storage, a second run on one job. Nothing reported is lost, no key is stored twice, one detector costs no other its result. |
| detection targets | `internal/detection/targets.go`, `mutation_bridge.go` | none | `BuildTargets`, `NewMutationRequest` | What a crawl found becomes requests that change one input each, sent to the origin of the page or form they test. |
| request executors | `internal/detection/executor.go`, `internal/mutation` | request, mutation and per-target counters, two semaphores | `Do`, `ExecuteMutation`, building and mutating requests | Budgets charged concurrently and before other refusals; a slot on every way out; redirects followed under one charge. No more calls are made than the ceilings allow, slots are exact. |
| scan job store | `internal/storage/sqlite` (`sqlite.go`, `recovery_*.go`, the jobs of `repos.go`) | `scan_jobs` | create, update, sweep at start-up | Crashes, several processes, reused pids, the last write of a cancelled scan. Only dead scans are failed, and those are. |
| repositories | `internal/storage/sqlite/repos.go`, `internal/storage/storage.go` | the other tables | single statements; `Chains().SaveResult` is several | `SaveResult` is not transactional. |
| schema migrations | `internal/storage/migrations.go` | `schema_migrations` | `Migrate` under `BEGIN IMMEDIATE` | Several processes and binary versions open one fresh file; each migration is applied once, in order, and an older binary refuses a newer file. |
| recon pipeline | `internal/orchestration` | assets, hosts, services, endpoints | `Run`, `loadTargets`, `discoverAndResolve`, `scanPorts`, `probeAndFingerprint`, `crawlAndDiscoverEndpoints` | The job's frame and the worker pools. A job that was created is finished; a name is resolved once it can be. |
| recon stages | `internal/{discovery,dns,ports,http,fingerprint,target}` | a semaphore shared by port scans | enumerate, resolve, connect, probe | A producer whose consumer has returned; the limit shared by hosts. |
| crawler | `internal/crawler` | queue, visited paths | `Crawl` | The page limit counts queued and fetched pages together. Pages are bounded, none is fetched twice. |
| scope and safe dialing | `internal/scope`, `internal/safedial` | rules | `CheckHost`, `CheckIP`, `CheckResolved`, `ResolveInScope`, dialling, redirects | Deny rules win; the check is repeated before every dial and after every redirect. |
| authentication | `internal/auth` | session, cookie jar, identity states | login, `WithSession`, `JarFor` | Which identity a request carries; a session is pinned to its host. |
| finding correlation | `internal/correlation` | buckets of evidence groups | `ingest`, `Correlate` | At most fifty groups per bucket, the weakest evicted; the result should not depend on the order of findings. |
| attack chains | `internal/chains` | none | relate, candidates (union-find), caps | Caps keep the strongest, candidates partition the findings. |
| risk, evidence | `internal/risk`, `internal/evidence` | none | score and rank; redact, truncate, hash | Pure. Ranking is total and stable, sizes are bounded. |
| policy, configuration | `internal/policy`, `internal/config`, `configs` | profile registry, accounts | `Resolve`, `Validate` | Pure. A wrong option is refused before anything was done about it. |
| parameters, endpoints | `internal/parameters`, `internal/endpoints` | none | classify and normalise | Four passes over the same pages with six limits, joined afterwards by endpoint. No input is lost without a warning. |
| detectors | `internal/detectors/*` (14) | none | `Eligible`, `Detect` | Comparisons of responses that also differ for other reasons: echoes, noise, failures. Nothing inert is reported, a high confidence rests on a proof, a steady reaction is found. |
| command line | `cmd/scanner` | none | `scan` with its options, the other commands | The order of validation, logins and scan; the exit code tells what happened. |
| reporting, logging, plugins, models | `internal/reporting`, `internal/logging`, `pkg` | none | formatting, external tools | I/O and formatting. |
| lab, end-to-end tests, stubs | `lab`, `tests`, `internal/findings`, `internal/validation` | | | Not part of the scanner. |

`PROJECT.json` lists the same parts with their files and their status.

## 2. What is modelled

| module | component | models |
|---|---|---|
| `Orchestrator` | scan orchestrator | concurrent `Run` calls against one Orchestrator |
| `ScanLifecycle` | the same, abstractly | what a caller of `Run` may rely on, without stages |
| `JobStore` | scan job store, migrations, frame of the pipeline | one database file shared by processes that migrate it, scan, crash and reuse pids |
| `Recon` | recon pipeline | `Pipeline.Run` with its stages, composed of the next seven |
| `ReconContext` | | the stage, context, error, DNS and store that the stages share |
| `Scope`, `SafeDial` | scope validation, safe dialing | the decision about a host and an address; one HTTP request with its redirects |
| `Discovery`, `PortScan` | recon stages | targets into hosts; port goroutines, their channels and shared semaphore |
| `Login` | authentication | static, form and discovered logins |
| `WebStages`, `Inputs` | crawler, parameters and endpoints | HTTP probes and crawls; pages into endpoints and inputs |
| `DetectionEngine` | detection engine | `Engine.Run` with its goroutines, and running it again |
| `RequestExecutor` | request executors | `Do` and `ExecuteMutation` called concurrently |
| `DetectorRun` | detectors | one `Detect` call of any of the fourteen detectors |
| `PassiveDetectors`, `ActiveDetectors` | detectors | eligibility, probes, early ends and verdict of each |
| `Endpoint` | (external) | what a tested endpoint may answer |
| `Analysis` | stages after detection | correlation, chains and their rows, ranking, packages, report, a reader |
| `Correlation`, `Chains`, `Risk`, `EvidencePackage` | the components of these names | the algorithms, as operators |
| `Ordering` | (external) | `sort.Slice` and the loop that appends what it keeps, as these and `Inputs` use them |
| `ScanCommand` | command line | `scanner scan`: options, logins, scan, requests of the active detectors, exit code |
| `Targets`, `Mutation` | detection targets, request executors | what is tested, and how a request is built and changed |
| `Accounts`, `Policy` | authentication, policy, configuration | profiles and identities and what they resolve to; scan profiles |
| `OrchestratorProofs` | scan orchestrator | proofs: types, slots, cancellation; what `Run` reports, and the refinement |
| `ReconProofs` | recon pipeline | proofs: scope, sessions, names; what a completed job has covered; crawls and inputs |
| `AnalysisProofs` | stages after detection | proofs: canonical findings, chains that are shown, the account of the report |
| `DetectorProofs` | detectors | proofs: evidence, silence and success of each detector |
| `JobStoreProofs`, `DetectionEngineProofs`, `RequestExecutorProofs`, `ScanCommandProofs` | the modules they are named after | theorems and proofs |
| `MC...` | | instances for TLC |

An operator called a *fault* in its comment (`FinishKeepingSlot`, for
example) is no part of the model: it is a plausible bug, put in place of a
definition to see that the property named in `PROJECT.json` notices it.

### Orchestrator

One action per stretch of `Run` between two points where something else can
matter: `pc` is the place in `Run` (*ReconReturned* is the line after
`pipeline.Run`). Each call into another component has an action that chooses
its result (`PipelineReturns`, `EngineReturns`) and one that judges it
(`JudgeRecon`, `JudgeDetection`), so that a context can become done between the
two, as it can in the code. The results are those the callee can really return:
a pipeline returns nil only when its own last look found the context live, and
`EngineSummary` is what `DetectionEngine` can produce. Contexts are three
variables, one per `context.WithX`: the caller's, the scan's (*live*,
*expired* or *released* by `cancel`) and the current stage's. The deferred
functions are four actions, in the order in which Go runs them: `SnapshotCtx`,
`CancelScanCtx`, `ReleaseSlot`, `Finalize`. `status`, `stages` and `errors` are
the fields of `ScanState`; error texts and times are left out, and the
canonical findings are a number.

`ScanLifecycle` is the contract: a scan waits, is admitted while fewer than
`Slots` are active, or withdraws when cancelled; once cancelled, it ends
CANCELLED and nothing else. `ImplementsLifecycle` is the refinement, with
`phase`, `cancelled` and `outcome` computed from the state of `Run`; a scan
abandoned in the queue counts as cancelled although no snapshot was taken.

### JobStore

A process is one run of the scanner binary, with at most one job. `pc` is where
it is (opening and migrating the store, sweeping, scanning, gone), `pid` its
number, `row` its job's status. The sweep of `reconcileInterruptedJobs` is a
SELECT (`SelectOpenJobs`), one `kill(pid, 0)` per row (`CheckOwner`) and one
UPDATE per dead job (`ReconcileJob`), each a step, with every other process
free to go on in between. `ProcessAlive` follows `recovery_unix.go`: only ESRCH
means dead, so EPERM (a process of another user) means alive. The pid of a
process that is gone may be given to a later one. *interrupted* is `failed`
with the sweep's error text.

`Migrate` is `BeginImmediate` (the write lock of SQLite, for which a process
waits), the version it reads under the lock, one `ApplyMigration` per missing
migration, `CommitMigrations` or `RollBack`; a crash releases the lock and
leaves nothing. `Known` gives every process the migrations its binary has: an
older one refuses a newer file (`RefuseNewer`).

### Recon

`stage` is where `runStages` is. `Recon` composes the stages by conjunction:
an action of one stage leaves the variables of the others unchanged, and the
HTTP client (`req` of `SafeDial`) is shared by login, probes, crawls and
scripts. `Interrupt` cancels the context at any step; every step that looks at
the context in the code looks at it here. A store call fails where
`StoreMayFail` says it may.

`Scope` keeps names as sequences of labels and addresses as numbers with few
bits; its operators follow `Check*` with their order of rules. In `SafeDial` a
name is resolved anew for every connection (`Connect`), so an answer that
changes between a check and a dial is covered, and `Redirect` follows
`CheckRedirect`. `Discovery` has the loop over targets and the enumerator that
sends what it resolved while the loop decides, by `seenHostnames`, what is new.
`PortScan` has one goroutine per port of each host: it takes a place of the
semaphore of the job, waits for the limiter, dials and sends on an unbuffered
channel, or gives up when the group's context is done. `WebStages` runs one
goroutine of a stage at a time: they share only what they append to under a
lock. `Site` says what a server may answer for a path; `Inputs` is the pure part,
with the limits of `parameters.Limits`.

### DetectionEngine and RequestExecutor

`Select` is an iteration of the engine's loop over (detector, target) pairs: it
blocks while the errgroup is full. The goroutine of a pair is `Begin` (one look
at the context), `DetectReturns` or `DetectPanics`, and `Record`, each one
critical section of the mutex. `WaitReturns` is the code after `g.Wait`, with
`Deduplicate` giving the positions of the findings that it keeps, and `Persist`
one `Findings().Create`, of the first position left. A finding is its key, the pair
that reported it and the run; `RunAgain` starts another `Run` for the same job on what the first left.

A call of an executor moves through the checks of `Do` or `Execute` in the
code's order, one atomic operation per step: scope, budget, limiter and slot
for `Do`; validation, the two mutation budgets, scope and slot for `Execute`.
The budget counters are incremented and compared as `atomic.Int64.Add` does.
Any check may refuse, because what it looks at (rules, names, deadlines) is
outside that module. Each executor has its own semaphore: `sem` is a function of
the path. `client.Do` is a `FollowRedirect` for each redirect the client follows, up
to `MaxRedirects`, and `Finish`; `followed` counts them. A redirect is neither
charged nor given a place of its own.

### DetectorRun

A detector is four operators: which targets it takes, its probes in order,
whether it goes on after the answers so far, and its verdict. `DetectorRun`
sends them one by one; a probe may fail, and the polling for a callback is two
actions, so that the callback can come between them or too late. `Endpoint`,
which is no part of the program, says what an answer may be: the echo of the
value (plain, encoded, escaped, filtered), the parts that change from answer to
answer (numbers, words, failures), the marks a detector looks for. Bodies are
records of these, confidences percentages.

### Analysis

`Correlation`, `Chains`, `Risk` and `EvidencePackage` are pure: a bucket is a
set of groups, and `Ingest` one step of the fold over findings. `Analysis` runs
them as the orchestrator does, one finding, statement or package at a time, and
may be cancelled, fail or crash between any two. `SaveStatements` is the list of
statements of `SaveResult`; `FindCandidate` and `ShowChain` are the two reads of
`scanner chains show` in another process. Digests, by which the code breaks
ties, are given orders.

### ScanCommand

`step` is the place in `runFullScan`, `exit` the code of the process. The scan
itself is reduced to its status and, in the detection stage, to the requests
that active detectors build (`Detect`): `BuildTargets` over the pages of a crawl,
`NewMutationRequest`, `Mutate`, the address `resolveAndValidate` accepts and the
session `Execute` attaches. `Accounts` follows `Config.Validate` and
`ResolveProfile`/`ResolveIdentityProfile`; credentials are names of environment
variables, as in the configuration.

## 3. What is checked

Every property has a comment at its definition that says what it is about. The
times are for two workers.

| run | instance | states | shows |
|---|---|---|---|
| `orchestrator` | one scan, both timeouts, `MaxFindings` 1, two findings, `MaxConcurrentScans` 0 | 5 071, 3 s | A completed scan ran every stage and hides nothing; a failure is located; a cancellation has a cause and is never reported as anything else; Run returns. |
| `orchestrator_slots` | two scans, one slot, one of them recon-only | 72 638, 12 s | Slots are exact; `Orchestrator` implements `ScanLifecycle`, liveness included. |
| `jobstore` | three processes, one older, two pids, one foreign, three schema versions | 566 957, 115 s | Each migration runs once and in order; no sweep touches a live scan's job; a finished scan settles its row; a stranded job is swept. |
| `jobstore_overwrite` | two processes | violation | Finding 1. |
| `recon` | five jobs, two ports, two places, two redirects, three pages | 367 486, 100 s | Connections stay in scope and sessions with their host; names are scanned once and nothing is dropped silently; a completed job covered everything; a crawl is a bounded traversal; inputs are accounted for; every goroutine ends. |
| `detection_engine` | four pairs, three eligible, two places, two keys, two runs | 127 620, 11 s | Nothing lost, nothing stored twice, every eligible pair settled, Run returns. |
| `request_executor` | two passive calls, one original, three mutations of two targets, one slot each way, one redirect each | 877 370, 110 s | No more calls are handed to the client than a ceiling allows, and no more requests are sent than these may send; slots are exact, no budget is wasted by a rejected `Do`, every call ends. |
| `detectors` | fourteen detectors, some 900 endpoints, nine targets | 1 974 464, 95 s | Nothing inert is reported outside the limits named in `Misled`; 90 percent means proof; a steady reaction is found where the detector can see it (`Visible`). |
| `analysis` | up to five findings in any order, limits of two | 12 668, 10 s | Correlation is its order-free reference; a chain that is shown is whole; the report accounts for every finding. |
| `data_flow` | the same | violation | Finding 2. |
| `scan_command` | fourteen commands, four accounts, nine sites | 8 030, 3 s | Exit codes tell what was done; requests stay on their target with their session; each changes one input, at the path that was found unless that begins with two slashes. |
| `form_merge` | one site | violation | Finding 3. |

Five `ASSUME`s of the MC modules check pure operators over bounded inputs on
the same runs: `ScopeMeansWhatItSays` (all hosts and addresses),
`ComponentsAreConnected` (union-find against reachability, every set of
relations over five findings), `RiskIsMonotone` (all factors),
`LimitationsAreTrue` (every set of up to three items) and `OnlyTheKeyChanges`
(every JSON body over two keys, nested twice).

**Bounds.** Each instance is the smallest in which every kind of conflict
occurs. Scans meet only in the slots: two with one slot contend, and one alone
covers everything else. With `MaxFindings` 1 and two findings, truncation
happens. Three processes are what a reused pid needs: a dead owner, the process
that gets its pid, and the one that sweeps; with two binary versions one of
them may find a newer schema. In the engine three eligible pairs do not fit
into two places, and two keys for three findings force duplicates within and
across runs. In the executor each budget is one below the demand; one redirect already
sends more requests than were charged.
`CanonicalBound`, `MaxPerPair` and `MaxRuns` bound findings and runs and exist
for TLC only; `MaxConcurrentScans` 0 exercises the default.

In `recon` the jobs are those in which something can go wrong: a subdomain
that is also a target, a range with a denied address, a range that is too
large, a denied target, a login of each kind. Two ports of two hosts compete for
two places, so a sender can be left behind with one. The site links to a page
twice, to itself and to another host; limits of two inputs per endpoint and two
JSON fields are reached. In `detectors` endpoints combine one reaction with
one kind of echo or of noise, not with both: a detector's comparison looks at
each by itself. Ports, names and identifiers in `analysis` are spelled in all
the ways that `Identity` normalises, and every limit is below what a scenario
needs. In `scan_command` there is one command for each way through the
preflight checks, and one site for each kind of target, paths with empty
segments at each place among them.

Deadlock is not checked where `PROJECT.json`'s configurations say so: those
systems may stop, with their calls returned or their processes gone. That
nothing stops earlier is what the liveness properties say. `Recon` and
`ScanCommand` end in an explicit idle step instead.

**Fairness.** Only what the Go scheduler, or a timeout in the code, provides:
weak fairness of each `Run` call (its calls return: every network operation has
a timeout); of a process inside `sqlite.New` (no statement waits longer than the
busy timeout), not of a scan, which may hang or crash; of the engine's loop and
of each goroutine (a detector's requests time out); of *some* executor call,
with no promise of taking turns: a call takes a bounded number of steps, so
this is enough; and of *some* step of a recon run (`WF_vars(Progress)`), whose steps
repeat only within their limits: that one goroutine can always move, until all
have ended, is what `EverythingEnds` then shows. No fairness is assumed of a
caller, a timer, a crash or an interrupt.

## 4. Where code and documentation differ

1. *A finished job overwritten.* The sweep's UPDATE has no condition on the
   status. A scan that finishes and exits between the SELECT and the `kill` has
   its finished job marked failed.
2. *SQL injections leak nothing.* `chains/relate.go:16` lists the class `sqli`,
   but both detectors report `sql_injection`, so no DATA_FLOW relation ever
   starts at one.
3. *Merged forms.* Endpoints are keyed by path, method and source. Of two forms
   with the same path and method on two origins, the fields of both are tested
   at the first one's origin.

The following was seen while modelling and has no run of its own.

Scan and detection:
- NOT_RUN is decided from `DetectorRuns == 0` (`orchestrator.go:486`), also when
  every eligible detector panicked; `model.go:231-233` says nothing was eligible.
- When RECON's stage timeout passes while the pipeline returns another error,
  the stage is CANCELLED, no error is recorded and the scan is FAILED.
- A cancellation while findings are stored makes `Engine.Run` return an error
  and drops the findings left, against `engine.go:81-85`.
- `Do` and `ExecuteMutation` have a semaphore each, so twice `Concurrency`
  requests may be in flight, against `executor.go:23-25`.
- `config.go:137-143` calls `max_requests_per_run` a hard ceiling on the
  requests of one run, but mutated requests are charged neither to it nor to the
  limiter, and `scan.go` leaves the mutation budgets at 0, unlimited.
- Nor is it a ceiling for the others: `config.go:140-144` calls it one "on how many
  outbound requests one Engine.Run can make in total", `executor.go:31-36` one on "the
  total number of requests this Executor will ever perform", but what is charged is a
  call, and the client follows up to `max_redirects` redirects (5 by default,
  `config.go:336`) under that charge, without the limiter. The same holds of the two
  mutation budgets. `Ceilings` therefore bounds the calls by the ceiling and the
  requests by the ceiling times `Hops`, `1 + MaxRedirects`.
- `StageTimeout` bounds SCOPE, RECON and DETECTION only (`limits.go:33-36` says
  every stage).

Recon:
- A port, or a probe, for which the limiter sees no time left is skipped without
  an error, and the job may still be completed (`ports.go:102`).
- `scope.go:7-8` lets deny always win, but `CheckResolved` lets an allowed name
  win over a denied network of its address.
- `Page.URL` is the URL that was requested, not the final one
  (`pipeline.go:968-970`).
- Links queued twice use up the page limit; the JSON field warning is given when
  the limit is met exactly; crawl warnings are lost when `runStages` fails.

Command and requests:
- `scan.go:302-305` validates `--authz-identity` before any network activity, but
  a second identity that is disabled or cannot be resolved is refused only after
  the first has logged in. Identities are compared by name only.
- `--start-url` compares hosts, not ports or schemes, and drops the query.
- `InferPathInputs` counts the segments of a path that are not empty,
  `applyPath` all of them: in `/a//123` another segment is replaced.
- `PathOf` returns "/" for an address without a path before it looks at the query
  (`endpoints.go:107`), while `normalize.go:253` stores the names in that query as
  parameters of the endpoint. Of `http://host?a=1&b=2`, `a` is tested without `b` and
  `b` without `a`; with a path, the rest of the query is sent along. The proof of
  `EachInputTestedAlone` failed here, which now makes the exception.
- An endpoint's path is stored as a decoded string (`endpoints.go:102-114`) and parsed
  again as an address (`targets.go:181`, `320-326`, and `path.go:194-199` for the
  inputs in paths). Behind two slashes the first segment is taken for a host and
  dropped: a link to `http://app//a/b?x=1` is tested at `/b?x=1`. `ReadBack` in
  `Inputs` does this, and `EachInputTestedAlone` does not compare the path of such an
  address (`Stable`), because the code does send the request elsewhere. A decoded `?`,
  `%` or `#` would be read again too; segments in `Inputs` are words without these.
- `NewMutationRequest` adds the tested name to the query when `Query.Get` returns ""
  (`mutation_bridge.go:66-71`), so that a name that is there with an empty value gets
  one too. In `Mutation` and `Targets` a value in an address is not empty.
- A form's token is sent as the placeholder it is stored as. A name in a JSON
  body that contains a dot is taken for a path of keys.
- An interrupt during a login exits with 5, not 3.

Analysis:
- Which groups of a bucket survive at its limit depends on the order of arrival
  when a signature comes twice (`engine.go:86-89`).
- Stopping at exactly `MaxRelations` is not reported as truncation, and a chain
  that was cut to `MaxChainLength` may hold findings that are not connected.
- Reproduction steps and the REPRODUCTION item can disagree, and at twenty items
  the latter is cut. Evidence cut at 4096 bytes is no JSON any more, so its
  reproduction is LIMITED.

Detectors (`Misled` and `Visible` in `DetectorRun` list these as limits of the method):
- A single true/false pair counts as consistent for SQL injection: a page that
  changes by itself is reported. Identity comparison does not remove echoes.
  Template evaluation is taken in, and masked, by a changing number. A callback
  later than 200 ms is missed.
- `xssactive` sends a whole script element (`xssactive/detector.go:54-56`) and takes an
  altered one for no reflection. Behind a filter of script elements other markup
  comes through; `xssreflected` reports such an endpoint and `xssactive` does not.

## 5. What is proved

All theorems hold for every value of the constants under the assumptions of the
modules. Most of these only say what the constants are: finite sets of scans or
calls, and integers for limits, *any* integer where the code normalises them.
The others say what the code's inputs are:

- `ScopeAssumption`, `ReconAssumption`: rules are what `AddScopeRule` stores,
  targets what `target.Parse` returns; Go's resolver answers no empty name and
  no answer is without an address.
- `SafeDialAssumption`, `LoginAssumption`: redirect locations and login addresses
  name a host.
- `AccountsAssumption`: the configuration was accepted by `Config.Validate`.
- `DetectorAssumption`: an endpoint does one of the things to the value, and has one
  of the kinds of noise, that `Endpoint` distinguishes; `idor` has the two contexts
  without which it skips every target, and only the scan's identity is called so.
- `ScanCommandAssumption`: the HTTP service that recon found was dialled, so that
  its address is in scope and one of its host's own. In `Recon` this is
  `NoConnectionOutOfScope`. A form has a method: the crawler defaults to GET.
- `SiteAssumption`, and `IsSite` in `ScanCommandAssumption`: what is read of a page
  are finite slices; a link leads to a path that has an answer, if only an error;
  a name in a query is not empty.
- `AnalysisAssumption`: a scenario is a finite set of findings with different ids;
  the limits are the positive constants of the code.
- `ReportAssumption`: confidences and titles are numbers, findings with the same title
  and the same evidence are of one detector, and one severity at most is not among
  the five that are ordered.
- `DigestAssumption`: SHA-256, by which the code breaks ties, gives different things
  different digests.

**Orchestrator** (`OrchestratorProofs`).
`TypeCorrect`: the bound of `TypeOK` on the evidence, `todo + packages <=
FindingsLimit`, is not inductive, because nothing in it says that no package
exists before `StartEvidence` sets `todo`; `EvidenceInv` adds that.
`SlotsAccountedFor`: the invariant is the property with types; each action
either keeps the set of holders or adds or removes one scan with its token.
`CancellationSticks`: no outcome exists before `Finalize`, and `Doomed(s)`, that
the scan still watches a done context or has recorded it, is stable once true.

What a scan reports is a fact about one scan, and steps of the others leave it
alone, so each of these invariants is for one scan, with one case per action:
`Ran` ties each place in `Run` to the stages completed by then, as long as Run
has no error (`CompletedMeansAllRan`); `Shown` does the same for the packages,
and without a warning (`CompletedIsPlain`); `Located` carries the failure from
where it is recorded to `Finalize` (`FailuresAreNamed`); `Caused` tells Run's own
cancel function from a cancellation (`CancellationHasCause`). `RunIsALifecycle`
is the safety part of the refinement: each action maps to a step of
`ScanLifecycle` or to none. It needs `SlotInv`, for the admission, and
`Admitted`: a scan abandoned in the queue leaves with the context's error, and no
admitted scan looks like one.

**JobStore.** `JobTypeCorrect`; `MigrationsRunOnce`: `MigrationInv` adds that
whoever holds the lock has read the version that the committed schema and its
own migrations give, so that two processes never run the same one.
`LiveJobsAreSafe`: `SweepInv` adds that whoever has a job was started, so that
its pid is its own; foreign processes and reused pids only make the kernel
answer "alive". `FinishedScansSettle`: `Settling` says whose a running row is.

**RequestExecutor.** `RequestTypeCorrect`, `CeilingsHold`, `FlightsAreBounded`. A
ceiling is not inductive in terms of the calls handed to the client, since a call
may be charged and still on its way: `RequestInv`, `TotalInv` and `TargetInv` count
the calls that have passed a charge and were not refused since, and bound them
by the counter and the ceiling. That the requests sent are at most `Hops` for each
call handed over follows from the bound on `followed`. `BudgetIsSpentWell` needs the reverse, that none
of the budget is lost: `UsableInv` has the two counts equal.

**Recon.** `ScopeDecides` is the lemma about the rules: what `CheckResolved` allows
in its order of checks, the rules, read without one, allow. `NoConnectionOutOfScope`
and `CredentialsStayHome` then rest on the request alone (`DialInv`, `SessionInv`),
and on the hosts that the stages hand to it (`HostInv`, `WorkInv`): that the host is
one that can be dialled, and that headers are pinned to the session's host only
once the login, when the session may still change, is over. Every other step leaves
the request as it is, a frame lemma per stage. `NamesAreStoredOnce`: a stored name
is in `seen`.
`NothingIsDroppedSilently`: `SeenInv` says that a name that was seen has a host, a
warning, or a record of the enumeration that is running, and that a reported
name was seen or waits in its channel. `CompletedJobsCover` is about the job as a
whole: `FlowInv` gives the stages that must have ended without an error,
`PortInv` follows each goroutine of a port while nothing cuts it short (it waits
for its host, works while it receives, and has been dealt with when it returns),
`WebInv` accounts for each service by the list it is on, and what a stage has
done no later one undoes.

**DetectionEngine.** `PoolInv` accounts for each pair (selected or not, counted,
blamed), `FoundInv` for each finding of a pair that is done, and `StoreInv` for
what was kept and is not yet stored. Across the runs only the store matters:
deduplication keeps the first of each key and none that is stored
(`KeysAreStoredOnce`), and leaves out only what has its key stored or kept
(`FindingsAreNotLost`). With the goroutines returned, `PoolInv` is
`PairsAreSettled`. `EngineStaysInBounds` is the module's `TypeOK`, the limit of the
errgroup included.

**Detectors** (`DetectorProofs`). `DetectorInv` says that the requests come from the
detector's list in its order (the next one is the least that is wanted, and what is
before it has its answer or belongs to a proven case), that each answer is one the
endpoint can give, and that a call returned its verdict. `InOrder` keeps what was
decided before a request was made: a script is sent only where the markup came back
intact, another identity asks only for an object its owner was shown. Each
detector then has its case of the three theorems, on lemmas about the endpoint
(which page, status, marks and echo a value gets) and about its verdict.
`HighConfidenceIsProof` needs no assumption on the noise. `InertIsNotReported` is
that two answers to values which the endpoint does nothing with are equal once
the echo is stripped; the disjuncts of `Misled` are the places where this fails.
`ReactionsAreFound` is that no precondition stops the call before the value the
endpoint reacts to, and that the verdict then sees it, under the condition `Visible`
on what the endpoint shows.

**ScanCommand.** `ExitCodesTellOutcomes`: `OutcomeInv` says what is settled at
each step of `runFullScan` and what has left no trace yet. Its core is a lemma
about the accounts: whoever logs in as an identity has that identity's
credentials, overrides included, because names are distinct.
`TestsStayOnTarget`: a target is at an origin of the page or form it is of,
building and mutating a request move it nowhere, and the address is the
service's own or one the scope allows.

`TestsChangeOneInput` is about one request and all that led to it. That a target's
input was found on a page, at an endpoint of that page, comes from the passes of
`Inputs`: the lemmas say of each what a name it delivers implies about where it
stands, in the query of an address, among the fields of a form, in a segment of a
path that varies (`VaryingIsLast`). From a target's shape, one case for each location,
follows what `NewMutationRequest` builds, and `Mutate` then sets one name of one map.
That the method is the one found is carried the same way (`MethodIsGiven`,
`MethodIsKept`), and a plain path is one that reads back as itself (`PlainIsStable`).
The theorem allows what the code does: fields of all forms that share the endpoint,
placeholders for values that are not stored, and any path for an address behind two
slashes.

**Analysis** (`AnalysisProofs`).
`ShownChainsAreWhole`: `SavingInv` says that the tables hold what the first so many
statements of `SaveResult` put there (`Saved`), with all relations before the first
candidate; so a reader who finds a candidate finds its relations, whenever the
writer stops, and no later statement touches them. That a
candidate's findings have one owner is a fact about union-find: two findings are
united only by a relation, which has one scan and identity.
`NothingDisappears`: `AccountInv` says that what is reported and what is still ranked
together are the findings kept, up to `MaxFindings`; that all the others rank below
those is that the comparison of assessments is a total order, with the digest of
the identity last.
`FindingsAreCanonical` is by cases of a step of `Ingest`: a signature that is new, one
that is there, a bucket with room and one without. A group that findings are merged
into one by one is the summary of the set of them: the least confidence, the least
of the severities, the first of the titles. As long as no signature comes twice,
evicting the weakest each time leaves the strongest of all; `Settled` says when.

**Crawls and inputs** (`ReconProofs`).
`CrawlsAreTraversals`: `CrawlInv` says that everything in the queue but the start page
was linked by a page one level above, and that the page at hand was visited and is not yet fetched.
`InputsAreAccountedFor`: `RowsInv` says when the rows of a crawl are there; the rest is
that each pass of `Inputs` over the pages keeps an input, or meets its limit and says
so, and that the endpoint of an input is computed the same way in both places that
compute it.

**Recursion over data.** Folds, flattenings and orders of sequences are recursive
functions, of which the prover knows no more than that they are a `CHOOSE`. That one exists is
shown by the least number of steps for which none does, and a fact about the
result by the least step at which it fails: the library's induction theorems take
the formula as an operator, which no prover here can instantiate, but that a
relation is well-founded (`WFMin`) is first-order. `SortSeq` and `SelectSeq` cannot be
expanded at all, which is why `Ordering` defines sorting by rank, and filtering as a
fold. The lemmas about folds, orders and slices stand in each of the three modules
that need them, in the form it needs.

**Only model-checked:**

- the liveness properties (`RunReturns`, `EveryScanReturns`, `StrandedJobsAreSwept`,
  `EveryCallEnds`, `EverythingEnds`), and the fairness of `ScanLifecycle` in
  `ImplementsLifecycle`, of which `RunIsALifecycle` is the safety part: `ENABLED` and
  fairness are out of the prover's reach;
- the five `ASSUME`s of section 3, which compare pure operators with a reference on
  all bounded inputs.

## 6. What is not modelled, and why

- Error texts, times, identifiers, logging and output.
- HTML, JavaScript and JSON parsing, TLS certificates, fingerprints, redaction and
  hashing: their subject is strings. What they deliver is an input of the models.
- Addresses whose decoded path holds `?`, `%`, `#` or `:` and so reads back as something
  else, or does not parse; empty values in an address's query.
- Programs the scanner runs (subdomain enumerators, katana) and `pkg/plugins`.
- The windows variant of `processAlive`, which reports every process alive.
- The detector registry's lock: detectors are enabled before a scan starts and
  not changed during it.
- Commands other than `scan` and `chains show`: they list and change single rows.
- The laboratory of vulnerable servers and the end-to-end tests: they are not
  part of the scanner.

`PROJECT.json` gives each component its status and reason.

## 7. What is left

Everything named in section 1 that has control flow of its own has a module, and
every invariant and action property that a passing run checks has a theorem. What could be
added:

1. Theorems for the five `ASSUME`s. Of `ComponentsAreConnected`, `AnalysisProofs` has
   what `ShownChainsAreWhole` needs (findings that are united have one owner); that
   they are connected needs the transitive closure of a relation.
2. The commands that change single rows (`scope`, `target`, `auth`), once one of them
   does more than one statement.
3. `EachInputTestedAlone` without its exceptions, and the runs of the findings as
   passing ones, when the code is changed.
