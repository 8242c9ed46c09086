--------------------------------- MODULE Recon ---------------------------------
(***************************************************************************)
(* A reconnaissance run: the login of the command, and Pipeline.Run with   *)
(* the stages of the modules it extends, down to the status it stores.     *)
(***************************************************************************)
EXTENDS WebStages

VARIABLE job  \* the status of the job's row, or none

vars == <<targets, stage, ctx, err, dVars, pVars, req, lVars, wVars, job>>

-----------------------------------------------------------------------------
Init ==
  /\ \E j \in Jobs : targets = j.targets /\ profile = j.profile
  /\ stage = "login" /\ ctx = "live" /\ err = "none"
  /\ InitDiscovery /\ InitPortScan /\ InitLogin /\ InitWeb
  /\ req = Idle
  /\ job = "none"

(* terminalStatusFor, after the last look at the context.                  *)
StatusByError(e) ==
  IF e = "ctx" THEN "cancelled" ELSE IF e # "none" THEN "failed" ELSE "completed"

StatusFor(e) ==
  IF ctx = "done" \/ e = "ctx" THEN "cancelled"
  ELSE IF e # "none" THEN "failed" ELSE "completed"

StagesUnchanged == UNCHANGED <<dVars, pVars, req, lVars, wVars>>

(* fail: the row is created with its last status, in a context of its own. *)
RunFails(e) ==
  /\ stage' = "ended" /\ err' = IF ctx = "done" THEN "ctx" ELSE e
  /\ job' \in {StatusFor(e)} \cup IF StoreMayFail THEN {"none"} ELSE {}
  /\ UNCHANGED ctx

(* The targets and the rules are loaded; one target out of scope fails the *)
(* run before anything is sent.                                            *)
CheckTargets ==
  /\ stage = "check"
  /\ \/ StoreFails /\ RunFails("store")
     \/ (\E t \in Range(targets) : ~HostAllowed(t.value)) /\ RunFails("scope")
     \/ /\ StoreWorks /\ \A t \in Range(targets) : HostAllowed(t.value)
        /\ Proceed("check", "discover")
        /\ job' = "running"
     \/ /\ \A t \in Range(targets) : HostAllowed(t.value)
        /\ StoreFails
        /\ stage' = "ended" /\ err' = (IF ctx = "done" THEN "ctx" ELSE "store")
        /\ UNCHANGED <<ctx, job>>
  /\ StagesUnchanged

(* The last write has a context of its own too.                            *)
Finish ==
  /\ stage = "finish"
  /\ stage' = "ended"
  /\ job' \in {StatusFor(err)} \cup IF StoreMayFail THEN {job} ELSE {}
  /\ UNCHANGED <<ctx, err>> /\ StagesUnchanged

Discover == NextDiscovery /\ UNCHANGED <<pVars, req, lVars, wVars, job>>
ScanPorts == NextPortScan /\ UNCHANGED <<dVars, req, lVars, wVars, job>>
LogIn == NextLogin /\ UNCHANGED <<dVars, pVars, wVars, job>>
Web == NextWeb /\ UNCHANGED <<dVars, pVars, lVars, job>>
Exchange == NextRequest /\ Keep /\ UNCHANGED <<dVars, pVars, lVars, wVars, job>>

Progress ==
  /\ CheckTargets \/ Finish \/ Discover \/ ScanPorts \/ LogIn \/ Web \/ Exchange
  /\ UNCHANGED targets

Interrupt == Cancel /\ StagesUnchanged /\ UNCHANGED <<targets, job>>

(* The command has ended.                                                  *)
Quiet == stage = "ended" /\ UNCHANGED vars

Next == Progress \/ Interrupt \/ Quiet

Spec == Init /\ [][Next]_vars

(* Every goroutine, lookup and request gets to run, and ends: all of them  *)
(* have a timeout.  A channel or a semaphore that is for ever unavailable  *)
(* is not ruled out by this.                                               *)
FairSpec == Spec /\ WF_vars(Progress)

-----------------------------------------------------------------------------
TypeOK ==
  /\ [targets |-> targets, profile |-> profile] \in Jobs
  /\ ContextTypeOK /\ DiscoveryTypeOK /\ PortTypeOK /\ RequestTypeOK /\ LoginTypeOK /\ WebTypeOK
  /\ job \in {"none", "running", "completed", "failed", "cancelled"}

(* A job is stored as completed only when no stage was cut short: each of  *)
(* them takes a cancellation for the failure of one item, and returns no   *)
(* error.  What is left out was out of scope, spoke no HTTP, or was        *)
(* refused a token by a limiter that saw the deadline come.                *)
CompletedCovers ==
  job = "completed" =>
    /\ err = "none" /\ session.state # "failed"
    /\ next > Len(targets)
    /\ \A h \in hosts : h \in refused => ~DialAllowed(h.host, h.ip)
    /\ PortsCovered
    /\ services \subseteq crawlTargets \cup skipped
    /\ CrawlEnabled => crawlTargets = crawled

(* Every run ends, the goroutines of its ports included: a receiver that   *)
(* returned with an error leaves none of its senders blocked with a slot.  *)
EverythingEnds == <>[](stage = "ended" /\ Holding = {})
=============================================================================
