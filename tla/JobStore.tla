------------------------------ MODULE JobStore ------------------------------
(***************************************************************************)
(* internal/storage: the schema and the scan_jobs table of one database    *)
(* file, shared by the scanner processes that open it.                     *)
(*                                                                         *)
(* Every process that opens the store first migrates it, inside one        *)
(* transaction that holds SQLite's write lock, and then reconciles it: it  *)
(* reads the open jobs, asks the kernel which of their owners still exist, *)
(* and marks the others failed, one UPDATE per job.  Between the SELECT    *)
(* and an UPDATE other processes go on: they migrate, create and finish    *)
(* jobs, exit, crash, and the operating system gives their pids to new     *)
(* processes.  A SQL statement is one atomic step; one that writes waits   *)
(* for the lock, one that reads (the journal is a WAL) does not.           *)
(***************************************************************************)
EXTENDS Integers, Sequences, FiniteSetsExt

CONSTANTS
  Procs,   \* process runs of the scanner; each runs at most one scan job
  Foreign, \* those run by an unprivileged user other than the others' owner
  Pids,    \* what the operating system numbers processes with
  Known    \* the newest migration that each process's binary embeds

NoProc == "none"

ASSUME JobStoreAssumption ==
  /\ Foreign \subseteq Procs
  /\ Known \in [Procs -> Nat \ {0}]
  /\ NoProc \notin Procs

VARIABLES
  pc,        \* where each process is
  pid,       \* its process id, kept in its job's row after its death
  unchecked, \* rows of its SELECT a process has still to look at
  stale      \* rows whose owner it found dead and has still to update
VARIABLES
  schema,    \* the migrations that were committed, in the order they ran
  lock,      \* who holds the write lock between two statements
  seen,      \* the schema version that a process read when it began
  ran        \* the migrations it ran since, not committed yet
VARIABLES
  row,       \* status of the process's job: none when there is no row
  ctxDone,   \* the process was interrupted (Ctrl+C)
  broken     \* the final write of the job's status failed

sweepVars == <<unchecked, stale>>
lockVars  == <<schema, lock, seen, ran>>
jobVars   == <<row, ctxDone, broken>>
vars == <<pc, pid, sweepVars, lockVars, jobVars>>

-----------------------------------------------------------------------------
NoPid == "none"
PC == {"unborn", "open", "migrating", "migrated", "sweep", "ready", "scanning",
       "done", "exited", "crashed"}
Gone == {"exited", "crashed"}

(* interrupted is the status failed with reconcileInterruptedJobs' error.  *)
Finished == {"completed", "failed", "cancelled"}
RowStatus == {"none", "running", "interrupted"} \cup Finished

Live(p) == pc[p] \notin Gone \cup {"unborn"}
PidInUse(i) == \E p \in Procs : Live(p) /\ pid[p] = i

(* kill(pid, 0) as the kernel answers it to process p.                     *)
KillResult(p, i) ==
  IF ~PidInUse(i) THEN "ESRCH"
  ELSE IF \E q \in Procs : Live(q) /\ pid[q] = i /\ (q \in Foreign <=> p \in Foreign)
       THEN "nil" ELSE "EPERM"

(* Fault: a process one may not signal counts as gone.                     *)
ProcessAliveNilOnly(p, i) == KillResult(p, i) = "nil"

ProcessAlive(p, i) == KillResult(p, i) \in {"nil", "EPERM"}

-----------------------------------------------------------------------------
Init ==
  /\ pc = [p \in Procs |-> "unborn"]
  /\ pid = [p \in Procs |-> NoPid]
  /\ unchecked = [p \in Procs |-> {}]
  /\ stale = [p \in Procs |-> {}]
  /\ schema = <<>>
  /\ lock = NoProc
  /\ seen = [p \in Procs |-> 0]
  /\ ran = [p \in Procs |-> <<>>]
  /\ row = [p \in Procs |-> "none"]
  /\ ctxDone = [p \in Procs |-> FALSE]
  /\ broken = [p \in Procs |-> FALSE]

Goto(p, from, to) == pc[p] = from /\ pc' = [pc EXCEPT ![p] = to]

(* SELECT COALESCE(MAX(version), 0) FROM schema_migrations.                *)
Version == Max({0} \cup {schema[i] : i \in DOMAIN schema})

(* A statement that writes, outside of any transaction.                    *)
CanWrite == lock = NoProc

(* An open transaction is rolled back when its connection is closed, by    *)
(* the process or by its death.                                            *)
RollBack(p) ==
  /\ lock' = IF lock = p THEN NoProc ELSE lock
  /\ ran' = [ran EXCEPT ![p] = <<>>]
  /\ seen' = [seen EXCEPT ![p] = 0]
  /\ UNCHANGED schema

(* A process starts under any pid that is free, a dead scanner's included, *)
(* and opens the store.  One that goes no further stands for any other     *)
(* program that the operating system gives the pid.                        *)
Start(p) ==
  /\ Goto(p, "unborn", "open")
  /\ \E i \in Pids : /\ ~PidInUse(i)
                     /\ pid' = [pid EXCEPT ![p] = i]
  /\ UNCHANGED <<sweepVars, lockVars, jobVars>>

(* Fault: BEGIN, a deferred transaction, takes the lock when it first      *)
(* writes and not before it reads the version.                             *)
BeginDeferred(p) ==
  /\ Goto(p, "open", "migrating")
  /\ Version <= Known[p]
  /\ seen' = [seen EXCEPT ![p] = Version]
  /\ UNCHANGED <<pid, sweepVars, schema, lock, ran, jobVars>>

(* BEGIN IMMEDIATE waits for the lock and takes it; the version is read    *)
(* under it, so that the two make one step.                                *)
BeginImmediate(p) ==
  /\ Goto(p, "open", "migrating")
  /\ lock = NoProc
  /\ Version <= Known[p]
  /\ lock' = p
  /\ seen' = [seen EXCEPT ![p] = Version]
  /\ UNCHANGED <<pid, sweepVars, schema, ran, jobVars>>

(* migrateLocked refuses a database that is newer than the binary.         *)
RefuseNewer(p) ==
  /\ Goto(p, "open", "exited")
  /\ lock = NoProc
  /\ Version > Known[p]
  /\ UNCHANGED <<pid, sweepVars, lockVars, jobVars>>

(* One iteration of its loop: the migration is run and recorded.  It       *)
(* writes, so it would take the lock if BEGIN had not.                     *)
ApplyMigration(p) ==
  /\ pc[p] = "migrating"
  /\ lock \in {NoProc, p}
  /\ seen[p] + Len(ran[p]) < Known[p]
  /\ lock' = p
  /\ ran' = [ran EXCEPT ![p] = Append(@, seen[p] + Len(@) + 1)]
  /\ UNCHANGED <<pc, pid, sweepVars, schema, seen, jobVars>>

CommitMigrations(p) ==
  /\ Goto(p, "migrating", "migrated")
  /\ lock = p
  /\ seen[p] + Len(ran[p]) = Known[p]
  /\ schema' = schema \o ran[p]
  /\ lock' = NoProc
  /\ ran' = [ran EXCEPT ![p] = <<>>]
  /\ seen' = [seen EXCEPT ![p] = 0]
  /\ UNCHANGED <<pid, sweepVars, jobVars>>

(* Fault: jobs already running are not looked for.                         *)
SelectPendingJobs(p) ==
  /\ Goto(p, "migrated", "sweep")
  /\ unchecked' = [unchecked EXCEPT ![p] = {}]
  /\ UNCHANGED <<pid, stale, lockVars, jobVars>>

(* SELECT id, pid ... WHERE status IN ('pending', 'running').  No job is   *)
(* stored as pending: Pipeline.Run creates it running or terminal.         *)
SelectOpenJobs(p) ==
  /\ Goto(p, "migrated", "sweep")
  /\ unchecked' = [unchecked EXCEPT ![p] = {j \in Procs : row[j] = "running"}]
  /\ UNCHANGED <<pid, stale, lockVars, jobVars>>

(* One iteration of the rows loop.                                         *)
CheckOwner(p) ==
  /\ pc[p] = "sweep"
  /\ \E j \in unchecked[p] :
       /\ unchecked' = [unchecked EXCEPT ![p] = @ \ {j}]
       /\ stale' = [stale EXCEPT ![p] = IF ProcessAlive(p, pid[j]) THEN @ ELSE @ \cup {j}]
  /\ UNCHANGED <<pc, pid, lockVars, jobVars>>

(* UPDATE scan_jobs SET status = 'failed' ... WHERE id = ?, whatever the   *)
(* status has become since the SELECT.                                     *)
ReconcileJob(p) ==
  /\ pc[p] = "sweep"
  /\ unchecked[p] = {}
  /\ CanWrite
  /\ \E j \in stale[p] :
       /\ stale' = [stale EXCEPT ![p] = @ \ {j}]
       /\ row' = [row EXCEPT ![j] = "interrupted"]
  /\ UNCHANGED <<pc, pid, unchecked, lockVars, ctxDone, broken>>

(* Fault: New returns before its list of dead jobs is worked off.          *)
OpenedEarly(p) ==
  /\ Goto(p, "sweep", "ready")
  /\ unchecked[p] = {}
  /\ UNCHANGED <<pid, sweepVars, lockVars, jobVars>>

(* New returns the store.                                                  *)
Opened(p) ==
  /\ Goto(p, "sweep", "ready")
  /\ unchecked[p] = {}
  /\ stale[p] = {}
  /\ UNCHANGED <<pid, sweepVars, lockVars, jobVars>>

(* A statement of New fails, for want of the lock after busy_timeout or in *)
(* a migration; New closes the database and the command ends.              *)
OpenFails(p) ==
  /\ pc[p] \in {"open", "migrating", "migrated", "sweep"}
  /\ pc' = [pc EXCEPT ![p] = "exited"]
  /\ unchecked' = [unchecked EXCEPT ![p] = {}]
  /\ stale' = [stale EXCEPT ![p] = {}]
  /\ RollBack(p)
  /\ UNCHANGED <<pid, jobVars>>

(* Pipeline.Run creates the job as running; Create uses the scan's context.*)
CreateJob(p) ==
  /\ ~ctxDone[p]
  /\ CanWrite
  /\ Goto(p, "ready", "scanning")
  /\ row' = [row EXCEPT ![p] = "running"]
  /\ UNCHANGED <<pid, sweepVars, lockVars, ctxDone, broken>>

(* Creating it fails, or the command does not scan at all.                 *)
NoJob(p) ==
  /\ Goto(p, "ready", "done")
  /\ UNCHANGED <<pid, sweepVars, lockVars, jobVars>>

(* terminalStatusFor: a done context makes the job cancelled, and so does  *)
(* a context error that a call returned.  An interrupt that comes after    *)
(* this verdict changes nothing, so it is the later one of the two steps.  *)
Outcomes(p) == IF ctxDone[p] THEN {"cancelled"} ELSE Finished

(* Pipeline.fail: the job is created already terminal, under a detached    *)
(* context; that write may fail too.                                       *)
RejectJob(p) ==
  /\ Goto(p, "ready", "done")
  /\ \/ /\ \E o \in Outcomes(p) \ {"completed"} : row' = [row EXCEPT ![p] = o]
        /\ CanWrite
        /\ UNCHANGED broken
     \/ /\ broken' = [broken EXCEPT ![p] = TRUE]
        /\ UNCHANGED row
  /\ UNCHANGED <<pid, sweepVars, lockVars, ctxDone>>

(* Fault: the last write uses the scan's own context.                      *)
FinishJobUnderCtx(p) ==
  /\ Goto(p, "scanning", "done")
  /\ \/ /\ ~ctxDone[p]
        /\ \E o \in Outcomes(p) : row' = [row EXCEPT ![p] = o]
        /\ CanWrite
        /\ UNCHANGED broken
     \/ /\ ctxDone[p]
        /\ UNCHANGED <<row, broken>>
     \/ /\ broken' = [broken EXCEPT ![p] = TRUE]
        /\ UNCHANGED row
  /\ UNCHANGED <<pid, sweepVars, lockVars, ctxDone>>

(* The final status is written under a detached context, so that an        *)
(* interrupt cannot prevent it; the store itself may.                      *)
FinishJob(p) ==
  /\ Goto(p, "scanning", "done")
  /\ \/ /\ \E o \in Outcomes(p) : row' = [row EXCEPT ![p] = o]
        /\ CanWrite
        /\ UNCHANGED broken
     \/ /\ broken' = [broken EXCEPT ![p] = TRUE]
        /\ UNCHANGED row
  /\ UNCHANGED <<pid, sweepVars, lockVars, ctxDone>>

Exit(p) ==
  /\ Goto(p, "done", "exited")
  /\ UNCHANGED <<pid, sweepVars, lockVars, jobVars>>

-----------------------------------------------------------------------------
(* The environment: interrupts, SIGKILL and power loss.                    *)

(* An interrupt while the store is being opened only fails a statement.    *)
Interrupt(p) ==
  /\ pc[p] \in {"ready", "scanning"}
  /\ ~ctxDone[p]
  /\ ctxDone' = [ctxDone EXCEPT ![p] = TRUE]
  /\ UNCHANGED <<pc, pid, sweepVars, lockVars, row, broken>>

Crash(p) ==
  /\ Live(p)
  /\ pc' = [pc EXCEPT ![p] = "crashed"]
  /\ unchecked' = [unchecked EXCEPT ![p] = {}]
  /\ stale' = [stale EXCEPT ![p] = {}]
  /\ RollBack(p)
  /\ UNCHANGED <<pid, jobVars>>

Migrating(p) ==
  BeginImmediate(p) \/ RefuseNewer(p) \/ ApplyMigration(p) \/ CommitMigrations(p)

Opening(p) ==
  \/ Migrating(p)
  \/ SelectOpenJobs(p) \/ CheckOwner(p) \/ ReconcileJob(p) \/ Opened(p)

Scanning(p) ==
  CreateJob(p) \/ NoJob(p) \/ RejectJob(p) \/ FinishJob(p) \/ Exit(p)

Next ==
  \E p \in Procs : \/ Start(p)
                   \/ Opening(p)
                   \/ OpenFails(p)
                   \/ Scanning(p)
                   \/ Interrupt(p)
                   \/ Crash(p)

Spec == Init /\ [][Next]_vars

(* Nothing inside New waits for anything but the write lock, and for that  *)
(* no longer than SQLite's busy timeout: a process that is opening the     *)
(* store proceeds, and the one that holds the lock gives it back.          *)
FairSpec == Spec /\ \A p \in Procs : WF_vars(Opening(p))

-----------------------------------------------------------------------------
(* Type invariant: every variable has its type, and the work list of a     *)
(* sweep is empty outside the sweep.                                       *)
TypeOK ==
  /\ pc \in [Procs -> PC]
  /\ pid \in [Procs -> Pids \cup {NoPid}]
  /\ unchecked \in [Procs -> SUBSET Procs]
  /\ stale \in [Procs -> SUBSET Procs]
  /\ schema \in Seq(Nat)
  /\ lock \in Procs \cup {NoProc}
  /\ seen \in [Procs -> Nat]
  /\ ran \in [Procs -> Seq(Nat)]
  /\ row \in [Procs -> RowStatus]
  /\ ctxDone \in [Procs -> BOOLEAN]
  /\ broken \in [Procs -> BOOLEAN]
  /\ \A p \in Procs : pc[p] # "sweep" => unchecked[p] = {} /\ stale[p] = {}

IsUpTo(s, n) == Len(s) = n /\ \A i \in 1..n : s[i] = i

(* Every migration is run once and in its order, whoever runs it and       *)
(* whatever was interrupted in between: no process repeats one ("table     *)
(* already exists") or sees a database with only some of a binary's, and   *)
(* whoever is past Migrate has at least the schema its binary needs.       *)
MigratedOnce ==
  /\ \E n \in {0} \cup {Known[p] : p \in Procs} : IsUpTo(schema, n)
  /\ lock # NoProc => IsUpTo(schema \o ran[lock], seen[lock] + Len(ran[lock]))
  /\ \A p \in Procs :
       pc[p] \in {"migrated", "sweep", "ready", "scanning", "done"}
         => Len(schema) >= Known[p]

(* "A job whose recorded pid is still alive is left untouched": no sweep   *)
(* ever fails, or is about to fail, the job of a scan that is still        *)
(* running, whoever runs it and whatever became of the other pids.         *)
OnlyTheDeadAreInterrupted ==
  \A j \in Procs :
    (row[j] = "interrupted" \/ \E p \in Procs : j \in stale[p]) => pc[j] \in Gone

(* The detached last write: a process that came to the end of its scan     *)
(* leaves its job running only if the database itself refused the write,   *)
(* however it was interrupted.                                             *)
FinishedScanSettles ==
  \A p \in Procs : (pc[p] \in {"done", "exited"} /\ row[p] = "running") => broken[p]

(* A job left running by a process that is gone, its pid not taken by      *)
(* another.                                                                *)
Stranded(j) == row[j] = "running" /\ pc[j] \in Gone /\ ~PidInUse(pid[j])

(* The job of a killed scan does not stay running "forever": once a        *)
(* process that opens the store is there to see it, it is settled, unless  *)
(* that process dies itself or the pid is taken again meanwhile.           *)
StrandedJobsAreSwept ==
  \A p, j \in Procs :
    (pc[p] = "open" /\ Stranded(j)) ~> (~Stranded(j) \/ pc[p] \in Gone)

(* reconcileInterruptedJobs "marks any scan job left at pending/running by *)
(* a process that no longer exists as Failed": a job that its owner has    *)
(* finished is not one of them.                                            *)
FinishedJobsStay ==
  [][\A j \in Procs : row[j] \in Finished => row'[j] = row[j]]_vars
=============================================================================
