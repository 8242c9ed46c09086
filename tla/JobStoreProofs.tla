---------------------------- MODULE JobStoreProofs ----------------------------
(***************************************************************************)
(* Theorems about JobStore, for any number of processes, users and pids.   *)
(*                                                                         *)
(*   JobTypeCorrect    the type invariant                                  *)
(*   MigrationsRunOnce what the write lock of Migrate is for               *)
(*   LiveJobsAreSafe   no sweep ever touches the job of a live scan        *)
(*   FinishedScansSettle  the end of a scan settles its job                *)
(*                                                                         *)
(* The first two are proved together: the version that is read has a type  *)
(* because the schema is a prefix of the migrations, and it is one because *)
(* only the holder of the lock extends it.  The third rests on them and on *)
(* two facts that it needs to be inductive: a row that is running has an   *)
(* owner that was started, and a process never comes back from the dead,   *)
(* only its pid does.                                                      *)
(***************************************************************************)
EXTENDS JobStore, TLAPS

LEMMA TypeInit == Init => TypeOK
BY DEF Init, TypeOK, PC, RowStatus, NoPid, NoProc

-----------------------------------------------------------------------------
(* What the write lock protects: the schema and the holder's uncommitted   *)
(* migrations make a prefix of all of them, and only the holder migrates.  *)
Prefix == IsUpTo(schema, Len(schema))

HolderExtends ==
  \A p \in Procs :
    /\ pc[p] = "migrating" <=> lock = p
    /\ lock # p => ran[p] = <<>>
    /\ lock = p => /\ seen[p] = Len(schema)
                   /\ seen[p] + Len(ran[p]) <= Known[p]
                   /\ \A i \in 1..Len(ran[p]) : ran[p][i] = seen[p] + i

PastMigrate == {"migrated", "sweep", "ready", "scanning", "done"}

MigrationInv ==
  /\ Prefix
  /\ Len(schema) \in {0} \cup {Known[p] : p \in Procs}
  /\ HolderExtends
  /\ \A p \in Procs : pc[p] \in PastMigrate => Len(schema) >= Known[p]

LEMMA Concatenated ==
  ASSUME NEW s \in Seq(Nat), NEW t \in Seq(Nat), IsUpTo(s, Len(s)),
         \A i \in 1..Len(t) : t[i] = Len(s) + i
  PROVE  /\ IsUpTo(s \o t, Len(s) + Len(t))
         /\ Len(s \o t) = Len(s) + Len(t)
<1> DEFINE u == s \o t
           n == Len(s) + Len(t)
<1>1. Len(s) \in Nat /\ Len(t) \in Nat /\ Len(u) = n /\ DOMAIN u = 1..n
  OBVIOUS
<1>2. ASSUME NEW i \in 1..n PROVE u[i] = i
  <2>1. CASE i <= Len(s)
    <3>1. i \in 1..Len(s) /\ u[i] = s[i]
      BY <1>1, <2>1
    <3> QED BY <3>1 DEF IsUpTo
  <2>2. CASE i > Len(s)
    <3>1. i - Len(s) \in 1..Len(t) /\ u[i] = t[i - Len(s)]
      BY <1>1, <2>2
    <3> QED BY <1>1, <3>1
  <2> QED BY <1>1, <2>1, <2>2
<1> QED BY <1>1, <1>2 DEF IsUpTo

(* MAX(version) is the number of migrations that were run.                 *)
LEMMA VersionIsLength ==
  ASSUME schema \in Seq(Nat), Prefix
  PROVE  Version = Len(schema)
<1> DEFINE n == Len(schema)
           V == {0} \cup {schema[i] : i \in DOMAIN schema}
<1>1. n \in Nat /\ DOMAIN schema = 1..n
  OBVIOUS
<1>2. \A i \in 1..n : schema[i] = i
  BY <1>1 DEF Prefix, IsUpTo
<1>3. V = 0..n
  BY <1>1, <1>2
<1>4. n \in V /\ \A y \in V : n >= y
  BY <1>1, <1>3
<1>5. ASSUME NEW x \in V, \A y \in V : x >= y
      PROVE  x = n
  <2>1. x \in 0..n /\ x >= n
    BY <1>3, <1>4, <1>5
  <2> QED BY <1>1, <2>1
<1>6. Max(V) = n
  BY <1>4, <1>5, Zenon DEF Max
<1> QED BY <1>6 DEF Version

LEMMA TypeStep ==
  ASSUME TypeOK, Prefix, [Next]_vars
  PROVE  TypeOK'
<1> USE DEF TypeOK, PC, sweepVars, lockVars, jobVars
<1>1. ASSUME NEW p \in Procs, Start(p) PROVE TypeOK'
  BY <1>1 DEF Start, Goto
<1>2. ASSUME NEW p \in Procs, SelectOpenJobs(p) PROVE TypeOK'
  BY <1>2 DEF SelectOpenJobs, Goto
<1>3. ASSUME NEW p \in Procs, CheckOwner(p) PROVE TypeOK'
  BY <1>3 DEF CheckOwner
<1>4. ASSUME NEW p \in Procs, ReconcileJob(p) PROVE TypeOK'
  BY <1>4 DEF ReconcileJob, RowStatus
<1>5. ASSUME NEW p \in Procs, Opened(p) PROVE TypeOK'
  BY <1>5 DEF Opened, Goto
<1>6. ASSUME NEW p \in Procs, OpenFails(p) PROVE TypeOK'
  BY <1>6 DEF OpenFails, RollBack, NoProc
<1>7. ASSUME NEW p \in Procs, CreateJob(p) PROVE TypeOK'
  BY <1>7 DEF CreateJob, Goto, RowStatus
<1>8. ASSUME NEW p \in Procs, NoJob(p) PROVE TypeOK'
  BY <1>8 DEF NoJob, Goto
<1>9. ASSUME NEW p \in Procs, RejectJob(p) PROVE TypeOK'
  BY <1>9 DEF RejectJob, Outcomes, Goto, RowStatus, Finished
<1>10. ASSUME NEW p \in Procs, FinishJob(p) PROVE TypeOK'
  BY <1>10 DEF FinishJob, Outcomes, Goto, RowStatus, Finished
<1>11. ASSUME NEW p \in Procs, Exit(p) PROVE TypeOK'
  BY <1>11 DEF Exit, Goto
<1>12. ASSUME NEW p \in Procs, Interrupt(p) PROVE TypeOK'
  BY <1>12 DEF Interrupt
<1>13. ASSUME NEW p \in Procs, Crash(p) PROVE TypeOK'
  BY <1>13 DEF Crash, RollBack, NoProc
<1>14. CASE UNCHANGED vars
  BY <1>14 DEF vars
<1>15. ASSUME NEW p \in Procs, BeginImmediate(p) \/ RefuseNewer(p)
      PROVE  TypeOK'
  <2>1. Version \in Nat
    BY VersionIsLength
  <2>2. CASE BeginImmediate(p)
    BY <2>1, <2>2 DEF BeginImmediate, Goto
  <2>3. CASE RefuseNewer(p)
    BY <2>3 DEF RefuseNewer, Goto
  <2> QED BY <1>15, <2>2, <2>3
<1>16. ASSUME NEW p \in Procs, ApplyMigration(p) PROVE TypeOK'
  <2>1. seen[p] + Len(ran[p]) + 1 \in Nat
    OBVIOUS
  <2>2. Append(ran[p], seen[p] + Len(ran[p]) + 1) \in Seq(Nat)
    BY <2>1
  <2> QED BY <1>16, <2>2 DEF ApplyMigration
<1>17. ASSUME NEW p \in Procs, CommitMigrations(p) PROVE TypeOK'
  <2>1. schema \o ran[p] \in Seq(Nat)
    OBVIOUS
  <2> QED BY <1>17, <2>1 DEF CommitMigrations, Goto, NoProc
<1> QED
  BY <1>1, <1>2, <1>3, <1>4, <1>5, <1>6, <1>7, <1>8, <1>9, <1>10, <1>11,
     <1>12, <1>13, <1>14, <1>15, <1>16, <1>17
  DEF Next, Opening, Migrating, Scanning

(* A process that may not be migrating, and those that are not it, keep    *)
(* what the lock protects.                                                 *)
LEMMA MigrationFrame ==
  ASSUME TypeOK, MigrationInv, NEW p \in Procs,
         schema' = schema, lock' = lock, seen' = seen, ran' = ran,
         \A q \in Procs \ {p} : pc'[q] = pc[q],
         pc'[p] # "migrating", pc[p] # "migrating",
         pc'[p] \in PastMigrate => pc[p] \in PastMigrate
  PROVE  MigrationInv'
<1>1. HolderExtends'
  BY DEF MigrationInv, HolderExtends
<1>2. \A q \in Procs : pc'[q] \in PastMigrate => pc[q] \in PastMigrate
  OBVIOUS
<1>3. Prefix' /\ Len(schema') \in {0} \cup {Known[q] : q \in Procs}
  BY DEF MigrationInv, Prefix, IsUpTo
<1> QED BY <1>1, <1>2, <1>3 DEF MigrationInv

LEMMA RollBackStep ==
  ASSUME TypeOK, MigrationInv, NEW p \in Procs, RollBack(p),
         \A q \in Procs \ {p} : pc'[q] = pc[q],
         pc'[p] \in Gone
  PROVE  MigrationInv'
<1>1. /\ schema' = schema
      /\ lock' = IF lock = p THEN NoProc ELSE lock
      /\ \A q \in Procs \ {p} : ran'[q] = ran[q] /\ seen'[q] = seen[q]
  BY DEF RollBack, TypeOK
<1>2. pc'[p] # "migrating" /\ pc'[p] \notin PastMigrate
  BY DEF Gone, PastMigrate
<1>3. NoProc \notin Procs
  BY JobStoreAssumption
<1>4. HolderExtends'
  <2> SUFFICES ASSUME NEW q \in Procs
               PROVE  /\ pc'[q] = "migrating" <=> lock' = q
                      /\ lock' # q => ran'[q] = <<>>
                      /\ lock' = q =>
                           /\ seen'[q] = Len(schema')
                           /\ seen'[q] + Len(ran'[q]) <= Known[q]
                           /\ \A i \in 1..Len(ran'[q]) : ran'[q][i] = seen'[q] + i
    BY DEF HolderExtends
  <2>1. CASE q = p
    BY <1>1, <1>2, <1>3, <2>1 DEF RollBack, TypeOK
  <2>2. CASE q # p
    <3>1. /\ pc'[q] = pc[q] /\ ran'[q] = ran[q] /\ seen'[q] = seen[q]
          /\ lock' = q <=> lock = q
      BY <1>1, <1>3, <2>2
    <3> QED BY <1>1, <3>1 DEF MigrationInv, HolderExtends
  <2> QED BY <2>1, <2>2
<1>5. Prefix' /\ Len(schema') \in {0} \cup {Known[q] : q \in Procs}
  BY <1>1 DEF MigrationInv, Prefix, IsUpTo
<1> QED BY <1>1, <1>2, <1>4, <1>5 DEF MigrationInv

LEMMA MigrationStep ==
  ASSUME TypeOK, MigrationInv, [Next]_vars
  PROVE  MigrationInv'
<1> USE DEF sweepVars, lockVars, jobVars
<1>0. NoProc \notin Procs /\ \A p \in Procs : Known[p] \in Nat
  BY JobStoreAssumption
<1>1. Prefix /\ schema \in Seq(Nat) /\ Version = Len(schema)
  BY VersionIsLength DEF MigrationInv, TypeOK
<1>2. ASSUME NEW p \in Procs, BeginImmediate(p) PROVE MigrationInv'
  <2>1. /\ schema' = schema /\ lock = NoProc /\ lock' = p /\ ran' = ran
        /\ seen' = [seen EXCEPT ![p] = Len(schema)]
        /\ pc[p] = "open" /\ pc' = [pc EXCEPT ![p] = "migrating"]
        /\ Len(schema) <= Known[p]
    BY <1>1, <1>2 DEF BeginImmediate, Goto
  <2>2. ran[p] = <<>> /\ Len(ran[p]) = 0
    BY <1>0, <2>1 DEF MigrationInv, HolderExtends
  <2>3. HolderExtends'
    <3> SUFFICES ASSUME NEW q \in Procs
                 PROVE  /\ pc'[q] = "migrating" <=> lock' = q
                        /\ lock' # q => ran'[q] = <<>>
                        /\ lock' = q =>
                             /\ seen'[q] = Len(schema')
                             /\ seen'[q] + Len(ran'[q]) <= Known[q]
                             /\ \A i \in 1..Len(ran'[q]) : ran'[q][i] = seen'[q] + i
      BY DEF HolderExtends
    <3>1. CASE q = p
      <4>1. seen'[q] = Len(schema) /\ pc'[q] = "migrating" /\ ran'[q] = <<>>
        BY <2>1, <2>2, <3>1 DEF TypeOK
      <4> QED BY <1>0, <1>1, <2>1, <3>1, <4>1
    <3>2. CASE q # p
      BY <1>0, <2>1, <3>2 DEF TypeOK, MigrationInv, HolderExtends
    <3> QED BY <3>1, <3>2
  <2>4. \A q \in Procs : pc'[q] \in PastMigrate => pc[q] \in PastMigrate
    BY <2>1 DEF PastMigrate, TypeOK
  <2> QED BY <2>1, <2>3, <2>4 DEF MigrationInv, Prefix, IsUpTo
<1>3. ASSUME NEW p \in Procs, ApplyMigration(p) PROVE MigrationInv'
  <2> DEFINE k == seen[p] + Len(ran[p])
  <2>1. /\ schema' = schema /\ seen' = seen /\ pc' = pc
        /\ pc[p] = "migrating" /\ lock' = p /\ k < Known[p]
        /\ ran' = [ran EXCEPT ![p] = Append(ran[p], k + 1)]
    BY <1>3 DEF ApplyMigration, TypeOK
  <2>2. lock = p
    BY <2>1 DEF MigrationInv, HolderExtends
  <2>3. ran'[p] = Append(ran[p], k + 1) /\ ran[p] \in Seq(Nat) /\ seen[p] \in Nat
    BY <2>1 DEF TypeOK
  <2>4. Len(ran'[p]) = Len(ran[p]) + 1 /\ Len(ran[p]) \in Nat
    BY <2>3
  <2>5. \A i \in 1..Len(ran'[p]) : ran'[p][i] = seen[p] + i
    <3>1. \A i \in 1..Len(ran[p]) : ran[p][i] = seen[p] + i
      BY <2>2 DEF MigrationInv, HolderExtends
    <3>2. /\ \A i \in 1..Len(ran[p]) : ran'[p][i] = ran[p][i]
          /\ ran'[p][Len(ran[p]) + 1] = k + 1
      BY <2>3
    <3>3. SUFFICES ASSUME NEW i \in 1..(Len(ran[p]) + 1) PROVE ran'[p][i] = seen[p] + i
      BY <2>4
    <3>4. i \in 1..Len(ran[p]) \/ i = Len(ran[p]) + 1
      BY <2>4
    <3>5. CASE i \in 1..Len(ran[p])
      BY <3>1, <3>2, <3>5
    <3>6. CASE i = Len(ran[p]) + 1
      <4>1. ran'[p][i] = k + 1
        BY <3>2, <3>6
      <4>2. seen[p] \in Int /\ Len(ran[p]) \in Int
        BY <2>3, <2>4
      <4>3. (seen[p] + Len(ran[p])) + 1 = seen[p] + (Len(ran[p]) + 1)
        BY <4>2
      <4> QED BY <3>6, <4>1, <4>3
    <3> QED BY <3>4, <3>5, <3>6
  <2>6. HolderExtends'
    <3> SUFFICES ASSUME NEW q \in Procs
                 PROVE  /\ pc'[q] = "migrating" <=> lock' = q
                        /\ lock' # q => ran'[q] = <<>>
                        /\ lock' = q =>
                             /\ seen'[q] = Len(schema')
                             /\ seen'[q] + Len(ran'[q]) <= Known[q]
                             /\ \A i \in 1..Len(ran'[q]) : ran'[q][i] = seen'[q] + i
      BY DEF HolderExtends
    <3>1. CASE q = p
      BY <1>0, <2>1, <2>2, <2>3, <2>4, <2>5, <3>1 DEF MigrationInv, HolderExtends
    <3>2. CASE q # p
      BY <2>1, <2>2, <3>2 DEF MigrationInv, HolderExtends, TypeOK
    <3> QED BY <3>1, <3>2
  <2> QED BY <2>1, <2>6 DEF MigrationInv, Prefix, IsUpTo
<1>4. ASSUME NEW p \in Procs, CommitMigrations(p) PROVE MigrationInv'
  <2>1. /\ schema' = schema \o ran[p] /\ lock' = NoProc /\ lock = p
        /\ pc[p] = "migrating" /\ pc' = [pc EXCEPT ![p] = "migrated"]
        /\ ran' = [ran EXCEPT ![p] = <<>>]
        /\ seen[p] + Len(ran[p]) = Known[p]
    BY <1>4 DEF CommitMigrations, Goto
  <2>2. /\ ran[p] \in Seq(Nat) /\ seen[p] = Len(schema)
        /\ \A i \in 1..Len(ran[p]) : ran[p][i] = seen[p] + i
    BY <2>1 DEF TypeOK, MigrationInv, HolderExtends
  <2>3. IsUpTo(schema', Known[p]) /\ Len(schema') = Known[p]
    <3>1. \A i \in 1..Len(ran[p]) : ran[p][i] = Len(schema) + i
      BY <2>2
    <3>2. /\ IsUpTo(schema \o ran[p], Len(schema) + Len(ran[p]))
          /\ Len(schema \o ran[p]) = Len(schema) + Len(ran[p])
      BY <1>1, <2>2, <3>1, Concatenated DEF Prefix
    <3> QED BY <2>1, <2>2, <3>2
  <2>4. HolderExtends'
    BY <1>0, <2>1 DEF TypeOK, MigrationInv, HolderExtends
  <2>5. \A q \in Procs : pc'[q] \in PastMigrate => Len(schema') >= Known[q]
    <3> SUFFICES ASSUME NEW q \in Procs, pc'[q] \in PastMigrate
                 PROVE  Known[p] >= Known[q]
      BY <2>3
    <3>1. CASE q = p
      BY <1>0, <3>1
    <3>2. CASE q # p
      <4>1. Known[q] <= Len(schema)
        BY <2>1, <3>2 DEF TypeOK, MigrationInv, PastMigrate
      <4> QED BY <1>0, <1>1, <2>1, <2>2, <4>1
    <3> QED BY <3>1, <3>2
  <2> QED BY <2>3, <2>4, <2>5 DEF MigrationInv, Prefix
<1>5. ASSUME NEW p \in Procs, OpenFails(p) \/ Crash(p) PROVE MigrationInv'
  BY <1>5, RollBackStep DEF OpenFails, Crash, TypeOK, Gone
<1>6. ASSUME NEW p \in Procs,
             \/ Start(p) \/ RefuseNewer(p) \/ Opened(p) \/ Scanning(p)
             \/ SelectOpenJobs(p) \/ CheckOwner(p) \/ ReconcileJob(p)
             \/ Interrupt(p)
      PROVE  MigrationInv'
  <2>1. UNCHANGED lockVars
    BY <1>6 DEF Start, RefuseNewer, Opened, Scanning, SelectOpenJobs, CheckOwner,
                ReconcileJob, Interrupt, CreateJob, NoJob, RejectJob, FinishJob,
                Exit
  <2>2. /\ \A q \in Procs \ {p} : pc'[q] = pc[q]
        /\ pc[p] # "migrating" /\ pc'[p] # "migrating"
        /\ pc'[p] \in PastMigrate => pc[p] \in PastMigrate
    BY <1>6 DEF Start, RefuseNewer, Opened, Scanning, SelectOpenJobs, CheckOwner,
                ReconcileJob, Interrupt, CreateJob, NoJob, RejectJob, FinishJob,
                Exit, Goto, PastMigrate, TypeOK
  <2> QED BY <2>1, <2>2, MigrationFrame
<1>7. CASE UNCHANGED vars
  BY <1>7 DEF vars, MigrationInv, Prefix, IsUpTo, HolderExtends
<1> QED
  BY <1>2, <1>3, <1>4, <1>5, <1>6, <1>7 DEF Next, Opening, Migrating

StoreInv == TypeOK /\ MigrationInv

LEMMA StoreInit == Init => StoreInv
<1> SUFFICES ASSUME Init PROVE MigrationInv
  BY TypeInit DEF StoreInv
<1>1. NoProc \notin Procs /\ \A p \in Procs : Known[p] \in Nat
  BY JobStoreAssumption
<1>2. schema = <<>> /\ Len(schema) = 0
  BY DEF Init
<1> QED
  BY <1>1, <1>2 DEF Init, MigrationInv, Prefix, IsUpTo, HolderExtends, PastMigrate

LEMMA StoreStep ==
  ASSUME StoreInv, [Next]_vars
  PROVE  StoreInv'
BY TypeStep, MigrationStep DEF StoreInv, MigrationInv

LEMMA StoreInvariant == Spec => []StoreInv
<1>1. StoreInv /\ [Next]_vars => StoreInv'
  BY StoreStep
<1> QED BY <1>1, StoreInit, PTL DEF Spec

(* The table, the schema and the work lists of the sweeps keep their       *)
(* types, and no work list outlives its sweep.                             *)
THEOREM JobTypeCorrect == Spec => []TypeOK
<1>1. StoreInv => TypeOK
  BY DEF StoreInv
<1> QED BY <1>1, StoreInvariant, PTL

(* Whatever versions the scanners are, however many open a fresh database  *)
(* at once and wherever they fail or die, every migration is run once and  *)
(* in order, and nobody goes on with a schema that is older than its       *)
(* binary's or only part of a binary's.                                    *)
THEOREM MigrationsRunOnce == Spec => []MigratedOnce
<1>1. StoreInv => MigratedOnce
  <2> SUFFICES ASSUME StoreInv PROVE MigratedOnce
    OBVIOUS
  <2>1. \E n \in {0} \cup {Known[p] : p \in Procs} : IsUpTo(schema, n)
    BY DEF StoreInv, MigrationInv, Prefix
  <2>2. ASSUME lock # NoProc
        PROVE  IsUpTo(schema \o ran[lock], seen[lock] + Len(ran[lock]))
    <3>1. lock \in Procs /\ schema \in Seq(Nat) /\ ran[lock] \in Seq(Nat)
      BY <2>2 DEF StoreInv, TypeOK
    <3>2. /\ seen[lock] = Len(schema) /\ IsUpTo(schema, Len(schema))
          /\ \A i \in 1..Len(ran[lock]) : ran[lock][i] = Len(schema) + i
      BY <3>1 DEF StoreInv, MigrationInv, Prefix, HolderExtends
    <3> QED BY <3>1, <3>2, Concatenated
  <2> QED BY <2>1, <2>2 DEF StoreInv, MigrationInv, MigratedOnce, PastMigrate
<1> QED BY <1>1, StoreInvariant, PTL

-----------------------------------------------------------------------------
Started(j) == pc[j] # "unborn"

OwnersStarted ==
  \A j \in Procs : /\ row[j] = "running" => Started(j)
                   /\ \A p \in Procs : j \in unchecked[p] => Started(j)

SweepInv == StoreInv /\ OwnersStarted /\ OnlyTheDeadAreInterrupted

(* kill(pid, 0) answers ESRCH for no live process.                         *)
LEMMA ReportedDeadIsDead ==
  ASSUME NEW p \in Procs, NEW j \in Procs, Started(j),
         ~ProcessAlive(p, pid[j])
  PROVE  pc[j] \in Gone
BY DEF ProcessAlive, KillResult, PidInUse, Live, Started

(* A process that was started stays so, and one that is gone stays gone.   *)
LEMMA DeathIsFinal ==
  ASSUME TypeOK, [Next]_vars, NEW j \in Procs
  PROVE  /\ Started(j) => Started(j)'
         /\ pc[j] \in Gone => pc'[j] \in Gone
BY DEF TypeOK, Started, Gone, Next, vars, Start, Opening, SelectOpenJobs,
       CheckOwner, ReconcileJob, Opened, OpenFails, Scanning, CreateJob, NoJob,
       RejectJob, FinishJob, Exit, Interrupt, Crash, Live, Goto, Migrating,
       BeginImmediate, RefuseNewer, ApplyMigration, CommitMigrations

(* A step that adds to no work list and interrupts no job.                 *)
LEMMA NoSweepStep ==
  ASSUME SweepInv, [Next]_vars,
         \A p \in Procs : unchecked'[p] \subseteq unchecked[p],
         \A p \in Procs : stale'[p] \subseteq stale[p],
         \A j \in Procs : \/ row'[j] = row[j]
                          \/ Started(j) /\ row'[j] # "interrupted"
  PROVE  SweepInv'
<1>1. TypeOK /\ StoreInv' /\ TypeOK' /\ OwnersStarted
  BY StoreStep DEF SweepInv, StoreInv
<1>2. OwnersStarted'
  BY <1>1, DeathIsFinal DEF SweepInv, OwnersStarted
<1>3. OnlyTheDeadAreInterrupted'
  BY <1>1, DeathIsFinal DEF SweepInv, OnlyTheDeadAreInterrupted
<1> QED BY <1>1, <1>2, <1>3 DEF SweepInv

LEMMA SweepStep ==
  ASSUME SweepInv, [Next]_vars
  PROVE  SweepInv'
<1>1. TypeOK /\ StoreInv' /\ TypeOK' /\ OwnersStarted
  BY StoreStep DEF SweepInv, StoreInv
<1>d. \A j \in Procs : /\ Started(j) => Started(j)'
                       /\ pc[j] \in Gone => pc'[j] \in Gone
  BY <1>1, DeathIsFinal
<1>s. \A j \in Procs : (row[j] = "interrupted" \/ \E p \in Procs : j \in stale[p])
                        => pc[j] \in Gone
  BY DEF SweepInv, OnlyTheDeadAreInterrupted
<1>o. \A j \in Procs : /\ row[j] = "running" => Started(j)
                       /\ \A p \in Procs : j \in unchecked[p] => Started(j)
  BY <1>1 DEF OwnersStarted
<1>t. /\ unchecked \in [Procs -> SUBSET Procs] /\ stale \in [Procs -> SUBSET Procs]
      /\ DOMAIN row = Procs
  BY <1>1 DEF TypeOK
<1>2. ASSUME NEW p \in Procs, SelectOpenJobs(p) PROVE SweepInv'
  <2>1. /\ unchecked' = [unchecked EXCEPT ![p] = {j \in Procs : row[j] = "running"}]
        /\ stale' = stale /\ row' = row
    BY <1>2 DEF SelectOpenJobs, jobVars
  <2>2. OwnersStarted'
    <3>1. \A j, q \in Procs :
            j \in unchecked'[q] => row[j] = "running" \/ j \in unchecked[q]
      BY ONLY <1>t, <2>1
    <3> QED  BY ONLY <1>d, <1>o, <2>1, <3>1 DEF OwnersStarted, Started
  <2>3. OnlyTheDeadAreInterrupted'
    BY ONLY <1>d, <1>s, <2>1 DEF OnlyTheDeadAreInterrupted, Started
  <2> QED BY <1>1, <2>2, <2>3 DEF SweepInv
<1>3. ASSUME NEW p \in Procs, CheckOwner(p) PROVE SweepInv'
  <2>1. PICK j \in unchecked[p] :
          /\ unchecked' = [unchecked EXCEPT ![p] = @ \ {j}]
          /\ stale' = [stale EXCEPT ![p] =
                         IF ProcessAlive(p, pid[j]) THEN @ ELSE @ \cup {j}]
          /\ row' = row
    BY <1>3 DEF CheckOwner, jobVars
  <2>2. j \in Procs /\ Started(j)
    BY <1>1 DEF SweepInv, OwnersStarted, TypeOK
  <2>3. ~ProcessAlive(p, pid[j]) => pc[j] \in Gone
    BY <2>2, ReportedDeadIsDead
  <2>4. OwnersStarted'
    <3>1. \A q \in Procs : unchecked'[q] \subseteq unchecked[q]
      BY ONLY <1>t, <2>1
    <3> QED  BY ONLY <1>d, <1>o, <2>1, <3>1 DEF OwnersStarted, Started
  <2>5. \A q, i \in Procs : i \in stale'[q] => pc[i] \in Gone
    <3>1. \A q, i \in Procs :
            i \in stale'[q] => i \in stale[q] \/ (i = j /\ ~ProcessAlive(p, pid[j]))
      BY ONLY <1>t, <2>1
    <3> QED  BY ONLY <1>s, <2>3, <3>1
  <2>6. OnlyTheDeadAreInterrupted'
    BY ONLY <1>d, <1>s, <2>1, <2>5 DEF OnlyTheDeadAreInterrupted, Started
  <2> QED BY <1>1, <2>4, <2>6 DEF SweepInv
<1>4. ASSUME NEW p \in Procs, ReconcileJob(p) PROVE SweepInv'
  <2>1. PICK j \in stale[p] :
          /\ stale' = [stale EXCEPT ![p] = @ \ {j}]
          /\ row' = [row EXCEPT ![j] = "interrupted"]
          /\ unchecked' = unchecked
    BY <1>4 DEF ReconcileJob
  <2>2. j \in Procs /\ pc[j] \in Gone /\ Started(j)
    <3>1. j \in Procs /\ pc[j] \in Gone
      BY ONLY <1>s, <1>t, p \in Procs, j \in stale[p]
    <3> QED  BY ONLY <3>1 DEF Gone, Started
  <2>3. OwnersStarted'
    <3>1. \A i \in Procs : row'[i] = "running" => row[i] = "running"
      BY ONLY <1>t, <2>1
    <3> QED BY ONLY <1>d, <1>o, <2>1, <3>1 DEF OwnersStarted, Started
  <2>4. OnlyTheDeadAreInterrupted'
    <3>1. \A i \in Procs : row'[i] = "interrupted" => i = j \/ row[i] = "interrupted"
      BY ONLY <1>t, <2>1, <2>2
    <3>2. \A q \in Procs : stale'[q] \subseteq stale[q]
      BY ONLY <1>t, <2>1
    <3> QED BY ONLY <1>d, <1>s, <2>2, <3>1, <3>2 DEF OnlyTheDeadAreInterrupted, Started
  <2> QED BY <1>1, <2>3, <2>4 DEF SweepInv
<1>5. ASSUME NEW p \in Procs,
             CreateJob(p) \/ RejectJob(p) \/ FinishJob(p)
      PROVE  SweepInv'
  <2>1. unchecked' = unchecked /\ stale' = stale
    BY <1>5 DEF CreateJob, RejectJob, FinishJob, sweepVars
  <2>2. Started(p)
    BY <1>5 DEF CreateJob, RejectJob, FinishJob, Goto, Started
  <2>3. \A j \in Procs : row'[j] = row[j] \/ (j = p /\ row'[j] # "interrupted")
    <3>1. row' = row \/ \E o : o # "interrupted" /\ row' = [row EXCEPT ![p] = o]
      BY <1>5 DEF CreateJob, RejectJob, FinishJob, Outcomes, Finished
    <3> QED  BY ONLY <1>t, <3>1
  <2> QED BY <2>1, <2>2, <2>3, NoSweepStep
<1>6. ASSUME NEW p \in Procs,
             \/ Start(p) \/ Opened(p) \/ NoJob(p) \/ Exit(p) \/ Interrupt(p)
             \/ OpenFails(p) \/ Crash(p) \/ Migrating(p)
      PROVE  SweepInv'
  <2>1. row' = row
    BY <1>6 DEF Start, Opened, NoJob, Exit, Interrupt, OpenFails, Crash, jobVars,
           Migrating, BeginImmediate, RefuseNewer, ApplyMigration,
           CommitMigrations
  <2>2. \A q \in Procs : /\ unchecked'[q] \subseteq unchecked[q]
                         /\ stale'[q] \subseteq stale[q]
    <3>1. /\ unchecked' = unchecked \/ unchecked' = [unchecked EXCEPT ![p] = {}]
          /\ stale' = stale \/ stale' = [stale EXCEPT ![p] = {}]
      BY <1>6
      DEF Start, Opened, NoJob, Exit, Interrupt, OpenFails, Crash, sweepVars,
          Migrating, BeginImmediate, RefuseNewer, ApplyMigration, CommitMigrations
    <3> QED  BY ONLY <1>t, <3>1
  <2> QED BY <2>1, <2>2, NoSweepStep
<1>7. CASE UNCHANGED vars
  BY <1>7, NoSweepStep DEF vars, sweepVars, jobVars
<1> QED
  BY <1>2, <1>3, <1>4, <1>5, <1>6, <1>7 DEF Next, Opening, Scanning

(* However many scanners start, exit and crash around it, under whatever   *)
(* users and pids, no scan that is still running has its job failed by     *)
(* reconcileInterruptedJobs.                                               *)
THEOREM LiveJobsAreSafe == Spec => []OnlyTheDeadAreInterrupted
<1>1. Init => SweepInv
  BY StoreInit DEF Init, SweepInv, StoreInv, OwnersStarted, OnlyTheDeadAreInterrupted
<1>2. SweepInv /\ [Next]_vars => SweepInv'
  BY SweepStep
<1>3. SweepInv => OnlyTheDeadAreInterrupted
  BY DEF SweepInv
<1> QED BY <1>1, <1>2, <1>3, PTL DEF Spec

-----------------------------------------------------------------------------
(* A running row belongs to a process that is scanning, that crashed, or   *)
(* whose last write failed: nothing else leaves Scanning without writing.  *)
Settling(p) ==
  row[p] = "running" =>
    \/ pc[p] \in {"scanning", "crashed"}
    \/ pc[p] \in {"done", "exited"} /\ broken[p]

SettledInv == StoreInv /\ \A p \in Procs : Settling(p)

LEMMA SettledStep ==
  ASSUME SettledInv, [Next]_vars
  PROVE  SettledInv'
<1>1. TypeOK /\ StoreInv' /\ TypeOK'
  BY StoreStep DEF SettledInv, StoreInv
<1> SUFFICES ASSUME NEW j \in Procs PROVE Settling(j)'
  BY <1>1 DEF SettledInv
<1>2. Settling(j)
  BY DEF SettledInv
<1> USE <1>1, <1>2 DEF TypeOK, Settling, Goto, jobVars
<1>3. ASSUME NEW p \in Procs, Start(p) \/ Migrating(p) PROVE Settling(j)'
  BY <1>3
  DEF Start, Migrating, BeginImmediate, RefuseNewer, ApplyMigration,
      CommitMigrations
<1>4. ASSUME NEW p \in Procs,
             SelectOpenJobs(p) \/ CheckOwner(p) \/ ReconcileJob(p) \/ Opened(p)
      PROVE  Settling(j)'
  BY <1>4 DEF SelectOpenJobs, CheckOwner, ReconcileJob, Opened
<1>5. ASSUME NEW p \in Procs, OpenFails(p) \/ Crash(p) \/ Interrupt(p)
      PROVE  Settling(j)'
  BY <1>5 DEF OpenFails, Crash, Interrupt
<1>6. ASSUME NEW p \in Procs, CreateJob(p) \/ NoJob(p) \/ Exit(p)
      PROVE  Settling(j)'
  BY <1>6 DEF CreateJob, NoJob, Exit
<1>7. ASSUME NEW p \in Procs, RejectJob(p) \/ FinishJob(p) PROVE Settling(j)'
  BY <1>7 DEF RejectJob, FinishJob, Outcomes, Finished
<1>8. CASE UNCHANGED vars
  BY <1>8 DEF vars
<1> QED
  BY <1>3, <1>4, <1>5, <1>6, <1>7, <1>8 DEF Next, Opening, Scanning

(* The detached last write settles the job of every process that comes to  *)
(* the end of its scan, whenever it was interrupted and whoever else used  *)
(* the store, unless the store refused that write.                         *)
THEOREM FinishedScansSettle == Spec => []FinishedScanSettles
<1>1. Init => SettledInv
  BY StoreInit DEF Init, SettledInv, StoreInv, Settling
<1>2. SettledInv /\ [Next]_vars => SettledInv'
  BY SettledStep
<1>3. SettledInv => FinishedScanSettles
  BY DEF SettledInv, Settling, FinishedScanSettles
<1> QED BY <1>1, <1>2, <1>3, PTL DEF Spec
=============================================================================
