--------------------------- MODULE ScanLifecycle ---------------------------
(***************************************************************************)
(* What a caller of Orchestrator.Run can rely on, without the stages: at   *)
(* most Slots scans are active, a scan waits or withdraws when cancelled,  *)
(* and a scan whose context is done before it leaves ends CANCELLED and    *)
(* nothing else.                                                           *)
(***************************************************************************)
EXTENDS Integers, FiniteSets

CONSTANTS
  Scans, \* the Run calls
  Slots  \* how many may be active at once

VARIABLES
  phase,     \* waiting, active, leaving or ended
  cancelled, \* the scan's context was done before it left
  outcome    \* none, or what the caller was told

vars == <<phase, cancelled, outcome>>

Outcome == {"COMPLETED", "COMPLETED_WITH_WARNINGS", "FAILED", "CANCELLED"}
Active  == {s \in Scans : phase[s] = "active"}

Init ==
  /\ phase = [s \in Scans |-> "waiting"]
  /\ cancelled = [s \in Scans |-> FALSE]
  /\ outcome = [s \in Scans |-> "none"]

Cancel(s) ==
  /\ phase[s] \in {"waiting", "active"}
  /\ cancelled' = [cancelled EXCEPT ![s] = TRUE]
  /\ UNCHANGED <<phase, outcome>>

Admit(s) ==
  /\ phase[s] = "waiting"
  /\ Cardinality(Active) < Slots
  /\ phase' = [phase EXCEPT ![s] = "active"]
  /\ UNCHANGED <<cancelled, outcome>>

Withdraw(s) ==
  /\ phase[s] = "waiting"
  /\ cancelled[s]
  /\ phase' = [phase EXCEPT ![s] = "leaving"]
  /\ UNCHANGED <<cancelled, outcome>>

Leave(s) ==
  /\ phase[s] = "active"
  /\ phase' = [phase EXCEPT ![s] = "leaving"]
  /\ UNCHANGED <<cancelled, outcome>>

End(s) ==
  /\ phase[s] = "leaving"
  /\ phase' = [phase EXCEPT ![s] = "ended"]
  /\ \E o \in Outcome :
       /\ cancelled[s] => o = "CANCELLED"
       /\ outcome' = [outcome EXCEPT ![s] = o]
  /\ UNCHANGED cancelled

Next == \E s \in Scans :
          Cancel(s) \/ Admit(s) \/ Withdraw(s) \/ Leave(s) \/ End(s)

Spec == Init /\ [][Next]_vars

(* A scan that can be admitted or withdrawn eventually is, and an active   *)
(* one leaves and ends.                                                    *)
FairSpec ==
  Spec /\ \A s \in Scans : /\ WF_vars(Admit(s) \/ Withdraw(s))
                           /\ WF_vars(Leave(s))
                           /\ WF_vars(End(s))
=============================================================================
