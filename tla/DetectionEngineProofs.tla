------------------------- MODULE DetectionEngineProofs -------------------------
(***************************************************************************)
(* Theorems about Engine.Run, for any pairs, keys, pool and runs.          *)
(*                                                                         *)
(*   KeysAreStoredOnce     no key is stored twice, in one run or several   *)
(*   FindingsAreNotLost    a finding reported has its key in the store     *)
(*   PairsAreSettled       every eligible pair was run to an end           *)
(*   EngineStaysInBounds   the pool and the counters are what they count   *)
(*                                                                         *)
(* PoolInv accounts for each pair, FoundInv for the findings of the pairs  *)
(* that are done, StoreInv for what deduplication kept and is not stored   *)
(* yet; a finding that is left out has its key stored or kept.             *)
(***************************************************************************)
EXTENDS DetectionEngine, TLAPS, FiniteSetTheorems

-----------------------------------------------------------------------------
LEMMA LeastNatural ==
  ASSUME NEW T, T \subseteq Nat, T # {}
  PROVE  \E x \in T : \A y \in T : x <= y
<1>1. PICK x \in T : \A y \in T : ~ (<<y, x>> \in OpToRel(<,Nat))
  BY NatLessThanWellFounded, WFMin
<1>2. \A y \in T : ~ (y < x)
  BY <1>1 DEF OpToRel
<1> QED  BY <1>2

(* Deduplicate leaves out no key: a finding that it leaves out has its key *)
(* in a row or in a finding before it.                                     *)
LEMMA EveryKeyHasAFirst ==
  ASSUME NEW existing, NEW findings \in Seq(Finding), NEW i \in DOMAIN findings
  PROVE  \/ findings[i].key \in KeysOf(existing)
         \/ \E j \in Deduplicate(existing, findings) : findings[j].key = findings[i].key
<1> DEFINE T == {j \in DOMAIN findings : findings[j].key = findings[i].key}
<1>1. T \subseteq Nat /\ T # {}
  OBVIOUS
<1>2. PICK j \in T : \A y \in T : j <= y
  BY <1>1, LeastNatural
<1>3. FirstOfItsKey(findings, j)
  BY <1>2 DEF FirstOfItsKey
<1> QED  BY <1>2, <1>3 DEF Deduplicate

LEMMA FirstsDiffer ==
  ASSUME NEW existing, NEW findings \in Seq(Finding),
         NEW i \in Deduplicate(existing, findings), NEW j \in Deduplicate(existing, findings),
         findings[i].key = findings[j].key
  PROVE  i = j
BY DEF Deduplicate, FirstOfItsKey

-----------------------------------------------------------------------------
Summaries ==
  [eligible : Nat, runs : Nat, created : Nat, duplicates : Int, cancelled : BOOLEAN]

EngineTypes ==
  /\ phase \in Phase
  /\ run \in 1 .. MaxRuns
  /\ ctxDone \in BOOLEAN
  /\ next \in 1 .. NumPairs + 1
  /\ work \in [Pairs -> Work]
  /\ result \in [Pairs -> Results]
  /\ found \in Seq(Finding)
  /\ runCount \in Nat
  /\ kept \subseteq DOMAIN found
  /\ counts \in Summaries
  /\ err \in {"nil", "load", "store", "ctx"}
  /\ stored \in Seq(Finding)

LEMMA ResultKeys ==
  ASSUME NEW r \in Results
  PROVE  r.keys \in Seq(Keys)
<1>1. CASE r = Failure
  BY <1>1 DEF Failure
<1>2. CASE r \in [kind : {"ok"}, keys : BoundedSeq(Keys, MaxPerPair)]
  <2>1. r.keys \in BoundedSeq(Keys, MaxPerPair)
    BY <1>2
  <2>2. PICK m \in 0 .. MaxPerPair : r.keys \in [1 .. m -> Keys]
    BY <2>1, EngineAssumption DEF BoundedSeq, SeqOf
  <2> QED  BY <2>2
<1> QED  BY <1>1, <1>2 DEF Results

LEMMA NormalizeType ==
  ASSUME NEW p \in Pairs, NEW keys \in Seq(Keys), run \in 1 .. MaxRuns
  PROVE  /\ Normalize(p, keys) \in Seq(Finding)
         /\ DOMAIN Normalize(p, keys) = DOMAIN keys
         /\ \A i \in DOMAIN keys : Normalize(p, keys)[i].key = keys[i]
<1>1. /\ DOMAIN Normalize(p, keys) = 1 .. Len(keys)
      /\ \A i \in DOMAIN keys : Normalize(p, keys)[i] = [key |-> keys[i], pair |-> p, run |-> run]
  BY DEF Normalize
<1>2. ASSUME NEW i \in DOMAIN keys
      PROVE  /\ Normalize(p, keys)[i] \in Finding
             /\ Normalize(p, keys)[i].key = keys[i]
  <2>1. keys[i] \in Keys
    OBVIOUS
  <2>2. [key |-> keys[i], pair |-> p, run |-> run] \in Finding
    BY <2>1 DEF Finding
  <2> QED  BY <1>1, <2>2
<1>3. Normalize(p, keys) \in [1 .. Len(keys) -> Finding]
  <2>1. Normalize(p, keys) = [i \in 1 .. Len(keys) |-> Normalize(p, keys)[i]]
    BY <1>1 DEF Normalize
  <2>2. \A i \in 1 .. Len(keys) : Normalize(p, keys)[i] \in Finding
    BY <1>2
  <2> QED  BY <2>1, <2>2
<1>4. Len(keys) \in Nat
  OBVIOUS
<1>5. Normalize(p, keys) \in Seq(Finding)
  BY <1>3, <1>4
<1> QED  BY <1>1, <1>2, <1>5

LEMMA FreshIsCounted ==
  ASSUME NEW findings \in Seq(Finding), NEW T \in SUBSET DOMAIN findings
  PROVE  IsFiniteSet(T) /\ Cardinality(T) \in Nat
<1>1. IsFiniteSet(1 .. Len(findings))
  BY FS_Interval
<1> QED  BY <1>1, FS_Subset, FS_CardinalityType

(* What the assignments to a summary's fields make of it.                  *)
LEMMA SummaryFields ==
  ASSUME NEW c \in Summaries, NEW n \in Nat, NEW d \in Int, NEW b \in BOOLEAN
  PROVE  /\ [c EXCEPT !.eligible = n] \in Summaries
         /\ [c EXCEPT !.eligible = n].eligible = n
         /\ [c EXCEPT !.eligible = n].created = c.created
         /\ [c EXCEPT !.created = n] \in Summaries
         /\ [c EXCEPT !.created = n].created = n
         /\ [c EXCEPT !.created = n].eligible = c.eligible
         /\ [c EXCEPT !.created = n].runs = c.runs
         /\ [c EXCEPT !.created = n].duplicates = c.duplicates
         /\ [c EXCEPT !.created = n].cancelled = c.cancelled
         /\ [c EXCEPT !.cancelled = b] \in Summaries
         /\ [c EXCEPT !.cancelled = b].eligible = c.eligible
         /\ [c EXCEPT !.cancelled = b].runs = c.runs
         /\ [c EXCEPT !.cancelled = b].created = c.created
         /\ [c EXCEPT !.cancelled = b].duplicates = c.duplicates
         /\ [c EXCEPT !.runs = n, !.cancelled = b, !.duplicates = d] \in Summaries
         /\ [c EXCEPT !.runs = n, !.cancelled = b, !.duplicates = d].runs = n
         /\ [c EXCEPT !.runs = n, !.cancelled = b, !.duplicates = d].cancelled = b
         /\ [c EXCEPT !.runs = n, !.cancelled = b, !.duplicates = d].duplicates = d
         /\ [c EXCEPT !.runs = n, !.cancelled = b, !.duplicates = d].eligible = c.eligible
         /\ [c EXCEPT !.runs = n, !.cancelled = b, !.duplicates = d].created = c.created
BY DEF Summaries

LEMMA EngineTypesStep ==
  ASSUME EngineTypes, [Next]_vars
  PROVE  EngineTypes'
<1> USE EngineAssumption DEF EngineTypes, poolVars, Phase, Work, Summaries
<1>1. CASE Load
  <2>1. [counts EXCEPT !.cancelled = ctxDone] \in Summaries
    BY SummaryFields, counts.created \in Nat, counts.duplicates \in Int
  <2>2. counts' \in Summaries
    BY <1>1, <2>1 DEF Load
  <2> HIDE DEF Summaries
  <2> QED  BY <1>1, <2>2 DEF Load
<1>2. CASE Select
  <2>1. next' \in 1 .. NumPairs + 1
    BY <1>2 DEF Select
  <2>2. work' \in [Pairs -> Work]
    BY <1>2 DEF Select
  <2>3. counts' \in Summaries
    <3>1. counts.eligible + 1 \in Nat
      OBVIOUS
    <3>2. [counts EXCEPT !.eligible = counts.eligible + 1] \in Summaries
      BY <3>1, SummaryFields
    <3> QED  BY <1>2, <3>2 DEF Select
  <2> QED  BY <1>2, <2>1, <2>2, <2>3 DEF Select
<1>3. CASE SelectionEnds
  BY <1>3 DEF SelectionEnds
<1>4. CASE WaitReturns
  <2>1. Deduplicate(stored, found) \in SUBSET DOMAIN found
    BY DEF Deduplicate
  <2>2. Cardinality(Deduplicate(stored, found)) \in Nat
    BY <2>1, FreshIsCounted
  <2>3. Len(found) - Cardinality(Deduplicate(stored, found)) \in Int
    BY <2>2
  <2>4. counts' \in Summaries
    BY <1>4, <2>3, SummaryFields DEF WaitReturns
  <2> QED  BY <1>4, <2>1, <2>4 DEF WaitReturns
<1>5. CASE Persist
  <2>1. PICK i \in kept :
          /\ NextKept(i)
          /\ \/ /\ ~ctxDone
                /\ stored' = Append(stored, found[i])
                /\ kept' = kept \ {i}
                /\ counts' = [counts EXCEPT !.created = @ + 1]
                /\ UNCHANGED <<phase, err>>
             \/ /\ phase' = "returned"
                /\ err' = IF ctxDone THEN "ctx" ELSE "store"
                /\ UNCHANGED <<stored, kept, counts>>
    BY <1>5 DEF Persist
  <2>2. found[i] \in Finding
    OBVIOUS
  <2>3. stored' \in Seq(Finding)
    <3>1. Append(stored, found[i]) \in Seq(Finding)
      BY <2>2
    <3> QED  BY <2>1, <3>1
  <2>4. counts' \in Summaries
    <3>1. counts.created + 1 \in Nat
      OBVIOUS
    <3>2. [counts EXCEPT !.created = counts.created + 1] \in Summaries
      BY <3>1, SummaryFields
    <3> QED  BY <2>1, <3>2
  <2>5. phase' \in Phase /\ err' \in {"nil", "load", "store", "ctx"}
    BY <2>1
  <2>6. kept' \subseteq DOMAIN found
    BY <2>1
  <2> QED  BY <1>5, <2>3, <2>4, <2>5, <2>6 DEF Persist
<1>6. CASE Return
  BY <1>6 DEF Return
<1>7. ASSUME NEW p \in Pairs, Begin(p)
      PROVE  EngineTypes'
  BY <1>7 DEF Begin
<1>8. ASSUME NEW p \in Pairs, DetectPanics(p)
      PROVE  EngineTypes'
  BY <1>8 DEF DetectPanics
<1>9. ASSUME NEW p \in Pairs, DetectReturns(p)
      PROVE  EngineTypes'
  BY <1>9 DEF DetectReturns
<1>10. ASSUME NEW p \in Pairs, Record(p)
       PROVE  EngineTypes'
  <2>1. result[p].keys \in Seq(Keys)
    BY ResultKeys
  <2>2. /\ Normalize(p, result[p].keys) \in Seq(Finding)
        /\ found \o Normalize(p, result[p].keys) \in Seq(Finding)
    BY <2>1, NormalizeType
  <2>3. found' \in Seq(Finding)
    BY <1>10, <2>2 DEF Record
  <2>4. Len(found) <= Len(found')
    BY <1>10, <2>2 DEF Record
  <2>5. DOMAIN found \subseteq DOMAIN found'
    BY <2>3, <2>4
  <2> QED  BY <1>10, <2>3, <2>5 DEF Record
<1>11. CASE CallerCancels
  BY <1>11 DEF CallerCancels
<1>12. CASE RunAgain
  <2>1. result' \in [Pairs -> Results]
    BY <1>12 DEF RunAgain, Results
  <2>2. counts' \in Summaries
    BY <1>12 DEF RunAgain, NoCounts
  <2>3. run' \in 1 .. MaxRuns /\ next' \in 1 .. NumPairs + 1
    BY <1>12 DEF RunAgain
  <2>4. work' \in [Pairs -> Work]
    BY <1>12 DEF RunAgain
  <2>5. found' \in Seq(Finding) /\ kept' \subseteq DOMAIN found'
    BY <1>12 DEF RunAgain
  <2> HIDE DEF Summaries
  <2> QED  BY <1>12, <2>1, <2>2, <2>3, <2>4, <2>5 DEF RunAgain
<1>13. CASE UNCHANGED vars
  BY <1>13 DEF vars
<1> QED
  BY <1>1, <1>2, <1>3, <1>4, <1>5, <1>6, <1>7, <1>8, <1>9, <1>10, <1>11, <1>12, <1>13
     DEF Next, Main, Worker
-----------------------------------------------------------------------------
(* The findings still to be created are of keys that no row has, each of   *)
(* another key.                                                            *)
StoreInv ==
  /\ NoKeyStoredTwice
  /\ phase = "persist" =>
       /\ \A i \in kept : found[i].key \notin KeysOf(stored)
       /\ \A i, j \in kept : found[i].key = found[j].key => i = j

(* Run has walked over every pair and its goroutines have returned.        *)
Waited == phase = "persist" \/ (phase = "returned" /\ next > NumPairs)

(* Run is not selecting or waiting, so no goroutine is there.              *)
Alone == phase \in {"load", "persist", "returned"}

Visited  == {p \in Eligible : p < next}
Counted  == {p \in Pairs : work[p] \in {"counted", "done"}}
Blamed   == {p \in Pairs : work[p] = "panicked" \/ (work[p] = "done" /\ result[p] = Failure)}

(* How far the loop is, what the goroutines have come to, and the counters *)
(* that must agree with them.                                              *)
PoolInv ==
  /\ \A p \in Pairs : work[p] # "idle" <=> p \in Visited
  /\ phase = "load" => next = 1 /\ counts = NoCounts
  /\ phase \in {"wait", "persist"} => next > NumPairs
  /\ Alone => Busy = {}
  /\ counts.eligible = Cardinality(Visited)
  /\ runCount = Cardinality(Counted)
  /\ errs = Blamed
  /\ Waited => counts.runs = runCount
  /\ \A p \in Pairs : work[p] = "skipped" => ctxDone /\ (Alone => counts.cancelled)

(* Every key reported is on its way: in the shared slice once the pair is  *)
(* done, and from there in a row or still to be created.                   *)
FoundInv ==
  /\ \A p \in Pairs : work[p] = "done" =>
       \A i \in DOMAIN result[p].keys : result[p].keys[i] \in KeysOf(found)
  /\ phase = "load" => found = <<>>
  /\ phase \notin {"persist", "returned"} => kept = {} /\ counts.created = 0
  /\ phase = "persist" \/ RanThrough =>
       /\ \A i \in DOMAIN found : \/ found[i].key \in KeysOf(stored)
                                  \/ \E j \in kept : found[j].key = found[i].key
       /\ counts.created + counts.duplicates + Cardinality(kept) = Len(found)
  /\ RanThrough => kept = {}

-----------------------------------------------------------------------------
LEMMA KeysAfterAppend ==
  ASSUME NEW rows \in Seq(Finding), NEW f \in Finding
  PROVE  KeysOf(Append(rows, f)) = KeysOf(rows) \cup {f.key}
<1>1. /\ DOMAIN Append(rows, f) = (1 .. Len(rows)) \cup {Len(rows) + 1}
      /\ DOMAIN rows = 1 .. Len(rows)
      /\ Append(rows, f)[Len(rows) + 1] = f
      /\ \A i \in 1 .. Len(rows) : Append(rows, f)[i] = rows[i]
  OBVIOUS
<1> QED  BY <1>1 DEF KeysOf

(* A step that leaves the rows alone and does not begin to persist, or     *)
(* leaves alone what is still to be created.                               *)
LEMMA StoreFrame ==
  ASSUME StoreInv, UNCHANGED stored,
         \/ phase' # "persist"
         \/ UNCHANGED <<phase, kept, found>>
  PROVE  StoreInv'
BY DEF StoreInv, NoKeyStoredTwice, KeysOf

LEMMA StoreInvPersist ==
  ASSUME EngineTypes, StoreInv, Persist
  PROVE  StoreInv'
<1>1. PICK i \in kept :
        \/ /\ ~ctxDone
           /\ stored' = Append(stored, found[i])
           /\ kept' = kept \ {i}
           /\ UNCHANGED <<phase, err>>
        \/ /\ phase' = "returned"
           /\ UNCHANGED stored
  BY DEF Persist
<1>2. CASE phase' = "returned" /\ UNCHANGED stored
  BY <1>2, StoreFrame
<1>3. CASE stored' = Append(stored, found[i]) /\ kept' = kept \ {i} /\ UNCHANGED phase
  <2>1. phase = "persist" /\ found' = found
    BY DEF Persist, poolVars
  <2>2. found[i] \in Finding /\ stored \in Seq(Finding)
    BY DEF EngineTypes
  <2>3. found[i].key \notin KeysOf(stored)
    BY <2>1 DEF StoreInv
  <2>4. NoKeyStoredTwice'
    <3>1. /\ DOMAIN stored' = (1 .. Len(stored)) \cup {Len(stored) + 1}
          /\ DOMAIN stored = 1 .. Len(stored)
          /\ stored'[Len(stored) + 1] = found[i]
          /\ \A j \in 1 .. Len(stored) : stored'[j] = stored[j]
      BY <1>3, <2>2
    <3>2. \A j \in 1 .. Len(stored) : stored[j].key # found[i].key
      BY <2>3, <3>1 DEF KeysOf
    <3>3. \A j, k \in 1 .. Len(stored) : stored[j].key = stored[k].key => j = k
      BY <3>1 DEF StoreInv, NoKeyStoredTwice
    <3> QED  BY <3>1, <3>2, <3>3 DEF NoKeyStoredTwice
  <2>5. KeysOf(stored') = KeysOf(stored) \cup {found[i].key}
    BY <1>3, <2>2, KeysAfterAppend
  <2>6. \A j \in kept' : found'[j].key \notin KeysOf(stored)'
    <3>1. KeysOf(stored)' = KeysOf(stored')
      BY DEF KeysOf
    <3> QED  BY <1>3, <2>1, <2>5, <3>1 DEF StoreInv
  <2>7. \A j, k \in kept' : found'[j].key = found'[k].key => j = k
    BY <1>3, <2>1 DEF StoreInv
  <2> QED  BY <2>4, <2>6, <2>7 DEF StoreInv
<1> QED  BY <1>1, <1>2, <1>3

LEMMA StoreInvStep ==
  ASSUME EngineTypes, PoolInv, StoreInv, [Next]_vars
  PROVE  StoreInv'
<1>1. CASE Load
  BY <1>1, StoreFrame DEF Load
<1>2. CASE Select
  BY <1>2, StoreFrame DEF Select
<1>3. CASE SelectionEnds
  BY <1>3, StoreFrame DEF SelectionEnds
<1>4. CASE WaitReturns
  <2>1. /\ kept' = Deduplicate(stored, found)
        /\ stored' = stored /\ found' = found
    BY <1>4 DEF WaitReturns, poolVars
  <2>2. found \in Seq(Finding)
    BY DEF EngineTypes
  <2>3. \A i \in kept' : found[i].key \notin KeysOf(stored)
    BY <2>1 DEF Deduplicate
  <2>4. \A i, j \in kept' : found[i].key = found[j].key => i = j
    BY <2>1, <2>2, FirstsDiffer
  <2>5. KeysOf(stored)' = KeysOf(stored)
    BY <2>1 DEF KeysOf
  <2> QED  BY <2>1, <2>3, <2>4, <2>5 DEF StoreInv, NoKeyStoredTwice
<1>5. CASE Persist
  BY <1>5, StoreInvPersist
<1>6. CASE Return
  BY <1>6, StoreFrame DEF Return
<1>7. ASSUME NEW p \in Pairs, Worker(p)
      PROVE  StoreInv'
  <2>1. p \in Busy
    BY <1>7 DEF Worker, Begin, DetectPanics, DetectReturns, Record, Busy
  <2>2. phase # "persist"
    BY <2>1 DEF PoolInv, Alone
  <2>3. phase' = phase /\ stored' = stored
    BY <1>7 DEF Worker, Begin, DetectPanics, DetectReturns, Record
  <2> QED  BY <2>2, <2>3, StoreFrame
<1>8. CASE CallerCancels
  BY <1>8, StoreFrame DEF CallerCancels, poolVars
<1>9. CASE RunAgain
  BY <1>9, StoreFrame DEF RunAgain
<1>10. CASE UNCHANGED vars
  BY <1>10, StoreFrame DEF vars, poolVars
<1> QED
  BY <1>1, <1>2, <1>3, <1>4, <1>5, <1>6, <1>7, <1>8, <1>9, <1>10 DEF Next, Main

-----------------------------------------------------------------------------
LEMMA PairSets ==
  /\ IsFiniteSet(Pairs)
  /\ \A T \in SUBSET Pairs : IsFiniteSet(T) /\ Cardinality(T) \in Nat
<1>1. IsFiniteSet(Pairs)
  BY FS_Interval, EngineAssumption DEF Pairs
<1> QED  BY <1>1, FS_Subset, FS_CardinalityType

LEMMA OneMorePair ==
  ASSUME NEW T \in SUBSET Pairs, NEW p \in Pairs, p \notin T
  PROVE  Cardinality(T \cup {p}) = Cardinality(T) + 1
BY PairSets, FS_AddElement

(* Before the loop has begun there is no goroutine.                        *)
LEMMA NothingBegun ==
  ASSUME EngineTypes, PoolInv, next = 1
  PROVE  runCount = 0 /\ \A p \in Pairs : work[p] = "idle"
<1>1. Visited = {}
  <2>1. \A p \in Eligible : p \in Int /\ p >= 1
    BY EngineAssumption DEF Pairs
  <2> QED  BY <2>1 DEF Visited
<1>2. \A p \in Pairs : work[p] = "idle"
  BY <1>1 DEF PoolInv
<1>3. Counted = {}
  BY <1>2 DEF Counted
<1> QED  BY <1>2, <1>3, FS_EmptySet DEF PoolInv

(* A step of Run itself, or of its caller, past the goroutines.            *)
LEMMA PoolFrame ==
  ASSUME PoolInv, UNCHANGED <<next, work, result, errs, runCount>>,
         counts'.eligible = counts.eligible,
         phase' = "load" => UNCHANGED <<phase, counts>>,
         phase' \in {"wait", "persist"} => next > NumPairs,
         Alone' => Busy = {},
         Waited' => counts'.runs = runCount,
         ctxDone => ctxDone',
         \A p \in Pairs : work[p] = "skipped" => (Alone' => counts'.cancelled)
  PROVE  PoolInv'
<1>1. /\ Visited' = Visited
      /\ Counted' = Counted
      /\ Blamed' = Blamed
      /\ Busy' = Busy
  BY DEF Visited, Counted, Blamed, Busy
<1> QED  BY <1>1 DEF PoolInv

(* A step of the goroutine of pair p, that leaves p's work at w.           *)
LEMMA PoolWorker ==
  ASSUME EngineTypes, PoolInv, NEW p \in Pairs, NEW w \in Work \ {"idle"},
         p \in Busy,
         work' = [work EXCEPT ![p] = w],
         UNCHANGED <<phase, ctxDone, next, counts>>,
         w = "skipped" => ctxDone,
         runCount' = Cardinality(Counted'),
         errs' = Blamed'
  PROVE  PoolInv'
<1>1. ~Alone /\ ~Alone' /\ ~Waited'
  BY DEF PoolInv, Alone, Waited
<1>2. /\ work'[p] = w
      /\ \A q \in Pairs : q # p => work'[q] = work[q]
  BY DEF EngineTypes
<1>3. work[p] # "idle"
  BY DEF Busy
<1>4. Visited' = Visited
  BY DEF Visited
<1>5. \A q \in Pairs : work'[q] # "idle" <=> q \in Visited
  BY <1>2, <1>3 DEF PoolInv
<1>6. \A q \in Pairs : work'[q] = "skipped" => ctxDone
  BY <1>2 DEF PoolInv
<1>7. phase' \in {"wait", "persist"} => next' > NumPairs
  BY DEF PoolInv
<1>8. phase' # "load"
  BY <1>1 DEF Alone
<1>9. counts'.eligible = Cardinality(Visited)
  BY DEF PoolInv
<1> QED  BY <1>1, <1>4, <1>5, <1>6, <1>7, <1>8, <1>9 DEF PoolInv

LEMMA PoolSelect ==
  ASSUME EngineTypes, PoolInv, Select
  PROVE  PoolInv'
<1>1. /\ phase = "select" /\ phase' = phase
      /\ next \in Pairs /\ next' = next + 1
      /\ UNCHANGED <<ctxDone, result, errs, runCount>>
  BY DEF Select, EngineTypes, Pairs
<1>2. ~Alone' /\ ~Waited'
  BY <1>1 DEF Alone, Waited
<1>3. \A p \in Eligible : p \in Int
  BY EngineAssumption DEF Pairs
<1>4. next \in Int
  BY DEF EngineTypes
<1>5. CASE next \notin Eligible
  <2>1. UNCHANGED <<work, counts>>
    BY <1>5 DEF Select
  <2>2. Visited' = Visited
    BY <1>1, <1>3, <1>4, <1>5 DEF Visited
  <2>3. Counted' = Counted /\ Blamed' = Blamed
    BY <1>1, <2>1 DEF Counted, Blamed
  <2> QED  BY <1>1, <1>2, <2>1, <2>2, <2>3 DEF PoolInv
<1>6. CASE next \in Eligible
  <2>1. /\ work' = [work EXCEPT ![next] = "scheduled"]
        /\ counts' = [counts EXCEPT !.eligible = counts.eligible + 1]
    BY <1>6 DEF Select
  <2>2. /\ work'[next] = "scheduled"
        /\ \A p \in Pairs : p # next => work'[p] = work[p]
    BY <1>1, <2>1 DEF EngineTypes
  <2>3. next \notin Visited /\ Visited' = Visited \cup {next}
    <3>1. \A p \in Eligible : p < next + 1 <=> (p < next \/ p = next)
      BY <1>3, <1>4
    <3>2. ~(next < next)
      BY <1>4
    <3> QED  BY <1>1, <1>6, <3>1, <3>2 DEF Visited
  <2>4. work[next] = "idle"
    BY <1>1, <2>3 DEF PoolInv
  <2>5. Counted' = Counted /\ Blamed' = Blamed
    BY <1>1, <2>2, <2>4 DEF Counted, Blamed
  <2>6. Cardinality(Visited') = Cardinality(Visited) + 1
    <3>1. Visited \in SUBSET Pairs
      BY EngineAssumption DEF Visited
    <3> QED  BY <1>1, <2>3, <3>1, OneMorePair
  <2>7. counts'.eligible = counts.eligible + 1
    BY <2>1 DEF EngineTypes, Summaries
  <2>8. counts'.eligible = Cardinality(Visited)'
    <3>1. Cardinality(Visited)' = Cardinality(Visited')
      OBVIOUS
    <3> QED  BY <2>6, <2>7, <3>1 DEF PoolInv
  <2>9. \A p \in Pairs : work'[p] # "idle" <=> p \in Visited'
    BY <2>2, <2>3 DEF PoolInv
  <2>10. \A p \in Pairs : work'[p] = "skipped" => ctxDone'
    BY <1>1, <2>2 DEF PoolInv
  <2> QED  BY <1>1, <1>2, <2>5, <2>8, <2>9, <2>10 DEF PoolInv
<1> QED  BY <1>5, <1>6

(* What the four steps of a goroutine count and blame.                     *)
LEMMA PoolGoroutine ==
  ASSUME EngineTypes, PoolInv, NEW p \in Pairs, Worker(p)
  PROVE  PoolInv'
<1>1. p \in Busy
  BY DEF Worker, Begin, DetectPanics, DetectReturns, Record, Busy
<1>2. UNCHANGED <<phase, ctxDone, next, counts>>
  BY DEF Worker, Begin, DetectPanics, DetectReturns, Record
<1>3. runCount = Cardinality(Counted) /\ errs = Blamed
  BY DEF PoolInv
<1>4. CASE Begin(p)
  <2> DEFINE w == IF ctxDone THEN "skipped" ELSE "detecting"
  <2>1. /\ work[p] = "scheduled" /\ work' = [work EXCEPT ![p] = w]
        /\ UNCHANGED <<result, errs, runCount>>
    BY <1>4 DEF Begin
  <2>2. w \in Work \ {"idle"} /\ (w = "skipped" => ctxDone)
    BY DEF Work
  <2>3. work'[p] = w /\ \A q \in Pairs : q # p => work'[q] = work[q]
    BY <2>1 DEF EngineTypes
  <2>4. Counted' = Counted /\ Blamed' = Blamed
    BY <2>1, <2>3 DEF Counted, Blamed
  <2>5. runCount' = Cardinality(Counted') /\ errs' = Blamed'
    BY <1>3, <2>1, <2>4
  <2> HIDE DEF w
  <2> QED  BY <1>1, <1>2, <2>1, <2>2, <2>5, PoolWorker
<1>5. CASE DetectPanics(p)
  <2>1. /\ work[p] = "detecting" /\ work' = [work EXCEPT ![p] = "panicked"]
        /\ errs' = errs \cup {p}
        /\ UNCHANGED <<result, runCount>>
    BY <1>5 DEF DetectPanics
  <2>2. work'[p] = "panicked" /\ \A q \in Pairs : q # p => work'[q] = work[q]
    BY <2>1 DEF EngineTypes
  <2>3. Counted' = Counted /\ Blamed' = Blamed \cup {p}
    BY <2>1, <2>2 DEF Counted, Blamed
  <2>4. runCount' = Cardinality(Counted') /\ errs' = Blamed'
    BY <1>3, <2>1, <2>3
  <2>5. "panicked" \in Work \ {"idle"}
    BY DEF Work
  <2> QED  BY <1>1, <1>2, <2>1, <2>4, <2>5, PoolWorker
<1>6. CASE DetectReturns(p)
  <2>1. PICK r \in Results :
          /\ work[p] = "detecting" /\ work' = [work EXCEPT ![p] = "counted"]
          /\ runCount' = runCount + 1
          /\ result' = [result EXCEPT ![p] = r]
          /\ UNCHANGED errs
    BY <1>6 DEF DetectReturns
  <2>2. work'[p] = "counted" /\ \A q \in Pairs : q # p => work'[q] = work[q]
    BY <2>1 DEF EngineTypes
  <2>3. \A q \in Pairs : q # p => result'[q] = result[q]
    BY <2>1 DEF EngineTypes
  <2>4. p \notin Counted /\ Counted' = Counted \cup {p}
    BY <2>1, <2>2 DEF Counted
  <2>5. Blamed' = Blamed
    BY <2>1, <2>2, <2>3 DEF Blamed
  <2>6. Counted \in SUBSET Pairs
    BY DEF Counted
  <2>7. runCount' = Cardinality(Counted') /\ errs' = Blamed'
    BY <1>3, <2>1, <2>4, <2>5, <2>6, OneMorePair
  <2>8. "counted" \in Work \ {"idle"}
    BY DEF Work
  <2> QED  BY <1>1, <1>2, <2>1, <2>7, <2>8, PoolWorker
<1>7. CASE Record(p)
  <2>1. /\ work[p] = "counted" /\ work' = [work EXCEPT ![p] = "done"]
        /\ errs' = IF result[p] = Failure THEN errs \cup {p} ELSE errs
        /\ UNCHANGED <<result, runCount>>
    BY <1>7 DEF Record
  <2>2. work'[p] = "done" /\ \A q \in Pairs : q # p => work'[q] = work[q]
    BY <2>1 DEF EngineTypes
  <2>3. Counted' = Counted
    BY <2>1, <2>2 DEF Counted
  <2>4. Blamed' = IF result[p] = Failure THEN Blamed \cup {p} ELSE Blamed
    BY <2>1, <2>2 DEF Blamed
  <2>5. runCount' = Cardinality(Counted') /\ errs' = Blamed'
    BY <1>3, <2>1, <2>3, <2>4
  <2>6. "done" \in Work \ {"idle"}
    BY DEF Work
  <2> QED  BY <1>1, <1>2, <2>1, <2>5, <2>6, PoolWorker
<1> QED  BY <1>4, <1>5, <1>6, <1>7 DEF Worker

LEMMA PoolInvStep ==
  ASSUME EngineTypes, PoolInv, [Next]_vars
  PROVE  PoolInv'
<1>1. CASE Load
  <2>1. /\ phase = "load" /\ phase' \in {"select", "returned"}
        /\ UNCHANGED <<next, work, result, errs, runCount, ctxDone>>
    BY <1>1 DEF Load, poolVars
  <2>2. next = 1 /\ counts = NoCounts
    BY <2>1 DEF PoolInv
  <2>3. runCount = 0 /\ \A p \in Pairs : work[p] = "idle"
    BY <2>2, NothingBegun
  <2>4. counts' = counts \/ counts' = [counts EXCEPT !.cancelled = ctxDone]
    BY <1>1 DEF Load
  <2>5. counts'.eligible = counts.eligible /\ counts'.runs = 0
    BY <2>2, <2>4 DEF NoCounts
  <2>6. Busy = {}
    BY <2>3 DEF Busy
  <2> QED  BY <2>1, <2>3, <2>5, <2>6, PoolFrame
<1>2. CASE Select
  BY <1>2, PoolSelect
<1>3. CASE SelectionEnds
  <2>1. /\ next > NumPairs /\ phase' = "wait"
        /\ UNCHANGED <<next, work, result, errs, runCount, ctxDone, counts>>
    BY <1>3 DEF SelectionEnds, poolVars
  <2> QED  BY <2>1, PoolFrame DEF Alone, Waited
<1>4. CASE WaitReturns
  <2>1. /\ phase = "wait" /\ Busy = {} /\ phase' = "persist"
        /\ counts' = [counts EXCEPT !.runs = runCount, !.cancelled = ctxDone,
                        !.duplicates = Len(found) - Cardinality(Deduplicate(stored, found))]
        /\ UNCHANGED <<next, work, result, errs, runCount, ctxDone>>
    BY <1>4 DEF WaitReturns, poolVars
  <2>2. /\ counts'.eligible = counts.eligible
        /\ counts'.runs = runCount /\ counts'.cancelled = ctxDone
    BY <2>1 DEF EngineTypes, Summaries
  <2>3. \A p \in Pairs : work[p] = "skipped" => counts'.cancelled
    BY <2>2 DEF PoolInv
  <2>4. next > NumPairs
    BY <2>1 DEF PoolInv
  <2> QED  BY <2>1, <2>2, <2>3, <2>4, PoolFrame
<1>5. CASE Persist
  <2>1. /\ phase = "persist" /\ phase' \in {"persist", "returned"}
        /\ counts' = counts \/ counts' = [counts EXCEPT !.created = counts.created + 1]
        /\ UNCHANGED <<next, work, result, errs, runCount, ctxDone>>
    BY <1>5 DEF Persist, poolVars
  <2>2. /\ counts'.eligible = counts.eligible /\ counts'.runs = counts.runs
        /\ counts'.cancelled = counts.cancelled
    BY <2>1 DEF EngineTypes, Summaries
  <2>3. Alone /\ Waited
    BY <2>1 DEF Alone, Waited
  <2>4. /\ Busy = {} /\ counts.runs = runCount /\ next > NumPairs
        /\ \A p \in Pairs : work[p] = "skipped" => counts.cancelled
    BY <2>1, <2>3 DEF PoolInv
  <2> QED  BY <2>1, <2>2, <2>4, PoolFrame
<1>6. CASE Return
  <2>1. /\ phase = "persist" /\ phase' = "returned"
        /\ UNCHANGED <<next, work, result, errs, runCount, ctxDone, counts>>
    BY <1>6 DEF Return, poolVars
  <2>2. Alone /\ Waited
    BY <2>1 DEF Alone, Waited
  <2>3. /\ Busy = {} /\ counts.runs = runCount
        /\ \A p \in Pairs : work[p] = "skipped" => counts.cancelled
    BY <2>2 DEF PoolInv
  <2> QED  BY <2>1, <2>3, PoolFrame
<1>7. ASSUME NEW p \in Pairs, Worker(p)
      PROVE  PoolInv'
  BY <1>7, PoolGoroutine
<1>8. CASE CallerCancels
  <2>1. /\ ctxDone' = TRUE
        /\ UNCHANGED <<next, work, result, errs, runCount, phase, counts>>
    BY <1>8 DEF CallerCancels, poolVars
  <2>2. Alone' = Alone /\ Waited' = Waited
    BY <2>1 DEF Alone, Waited
  <2>3. /\ Alone => Busy = {}
        /\ Waited => counts.runs = runCount
        /\ phase \in {"wait", "persist"} => next > NumPairs
        /\ \A p \in Pairs : work[p] = "skipped" => (Alone => counts.cancelled)
    BY DEF PoolInv
  <2> QED  BY <2>1, <2>2, <2>3, PoolFrame
<1>9. CASE RunAgain
  <2>1. /\ phase' = "load" /\ next' = 1 /\ counts' = NoCounts
        /\ work' = [p \in Pairs |-> "idle"]
        /\ runCount' = 0 /\ errs' = {}
    BY <1>9 DEF RunAgain
  <2>2. Visited' = {}
    <3>1. \A p \in Eligible : p \in Int /\ p >= 1
      BY EngineAssumption DEF Pairs
    <3> QED  BY <2>1, <3>1 DEF Visited
  <2>3. Counted' = {} /\ Blamed' = {} /\ Busy' = {}
    BY <2>1 DEF Counted, Blamed, Busy
  <2>4. ~Waited'
    BY <2>1 DEF Waited
  <2>5. counts'.eligible = 0
    BY <2>1 DEF NoCounts
  <2>6. Cardinality(Visited)' = 0 /\ Cardinality(Counted)' = 0
    BY <2>2, <2>3, FS_EmptySet
  <2> QED  BY <2>1, <2>2, <2>3, <2>4, <2>5, <2>6 DEF PoolInv
<1>10. CASE UNCHANGED vars
  <2>1. UNCHANGED <<next, work, result, errs, runCount, phase, counts, ctxDone>>
    BY <1>10 DEF vars, poolVars
  <2>2. /\ Visited' = Visited /\ Counted' = Counted /\ Blamed' = Blamed
        /\ Busy' = Busy /\ Alone' = Alone /\ Waited' = Waited
    BY <2>1 DEF Visited, Counted, Blamed, Busy, Alone, Waited
  <2> QED  BY <2>1, <2>2 DEF PoolInv
<1> QED
  BY <1>1, <1>2, <1>3, <1>4, <1>5, <1>6, <1>7, <1>8, <1>9, <1>10 DEF Next, Main

-----------------------------------------------------------------------------
LEMMA KeysOfBoth ==
  ASSUME NEW s \in Seq(Finding), NEW t \in Seq(Finding)
  PROVE  KeysOf(s \o t) = KeysOf(s) \cup KeysOf(t)
<1>1. /\ DOMAIN s = 1 .. Len(s) /\ DOMAIN t = 1 .. Len(t)
      /\ DOMAIN (s \o t) = 1 .. Len(s) + Len(t)
      /\ \A i \in 1 .. Len(s) : (s \o t)[i] = s[i]
      /\ \A i \in 1 .. Len(t) : (s \o t)[Len(s) + i] = t[i]
      /\ Len(s) \in Nat /\ Len(t) \in Nat
  OBVIOUS
<1>2. \A i \in DOMAIN (s \o t) : \/ i \in 1 .. Len(s)
                                 \/ i - Len(s) \in 1 .. Len(t) /\ i = Len(s) + (i - Len(s))
  BY <1>1
<1>3. \A i \in DOMAIN (s \o t) : (s \o t)[i].key \in KeysOf(s) \cup KeysOf(t)
  BY <1>1, <1>2 DEF KeysOf
<1>4. \A i \in 1 .. Len(s) : i \in DOMAIN (s \o t)
  BY <1>1
<1>5. \A i \in 1 .. Len(t) : Len(s) + i \in DOMAIN (s \o t)
  BY <1>1
<1>6. \A i \in DOMAIN s : s[i].key \in KeysOf(s \o t)
  BY <1>1, <1>4 DEF KeysOf
<1>7. \A i \in DOMAIN t : t[i].key \in KeysOf(s \o t)
  BY <1>1, <1>5 DEF KeysOf
<1> QED  BY <1>3, <1>6, <1>7 DEF KeysOf

(* The goroutines are at work: nothing is kept or created yet, and what is *)
(* left to show is that the keys of the pairs done are in the slice.       *)
LEMMA FoundWorker ==
  ASSUME EngineTypes, PoolInv, FoundInv, NEW p \in Pairs, Worker(p)
  PROVE  FoundInv'
<1>1. p \in Busy
  BY DEF Worker, Begin, DetectPanics, DetectReturns, Record, Busy
<1>2. ~Alone
  BY <1>1 DEF PoolInv
<1>3. UNCHANGED <<phase, kept, counts>>
  BY DEF Worker, Begin, DetectPanics, DetectReturns, Record
<1>4. phase \notin {"load", "persist", "returned"}
  BY <1>2 DEF Alone
<1>5. ~RanThrough'
  BY <1>3, <1>4 DEF RanThrough
<1>6. SUFFICES ASSUME NEW q \in Pairs, work'[q] = "done",
                      NEW i \in DOMAIN result'[q].keys
               PROVE  result'[q].keys[i] \in KeysOf(found')
  <2>1. KeysOf(found') = KeysOf(found)'
    BY DEF KeysOf
  <2> QED  BY <1>3, <1>4, <1>5, <1>6, <2>1 DEF FoundInv
<1>7. CASE ~Record(p)
  <2>1. /\ work' = [work EXCEPT ![p] = work'[p]] /\ work'[p] # "done"
        /\ found' = found
    BY <1>7 DEF Worker, Begin, DetectPanics, DetectReturns, EngineTypes
  <2>2. q # p /\ work[q] = "done"
    BY <1>6, <2>1 DEF EngineTypes
  <2>3. result'[q] = result[q]
    BY <1>7, <2>2 DEF Worker, Begin, DetectPanics, DetectReturns, EngineTypes
  <2> QED  BY <1>6, <2>1, <2>2, <2>3 DEF FoundInv
<1>8. CASE Record(p)
  <2>1. /\ work[p] = "counted" /\ work' = [work EXCEPT ![p] = "done"]
        /\ result' = result
        /\ IF result[p] = Failure
           THEN found' = found
           ELSE found' = found \o Normalize(p, result[p].keys)
    BY <1>8 DEF Record
  <2>2. /\ result[p].keys \in Seq(Keys) /\ run \in 1 .. MaxRuns
        /\ found \in Seq(Finding)
    BY ResultKeys DEF EngineTypes
  <2>3. KeysOf(found) \subseteq KeysOf(found')
    <3>1. Normalize(p, result[p].keys) \in Seq(Finding)
      BY <2>2, NormalizeType
    <3>2. found' = found \/ found' = found \o Normalize(p, result[p].keys)
      BY <2>1
    <3>3. KeysOf(found) \subseteq KeysOf(found \o Normalize(p, result[p].keys))
      BY ONLY <2>2, <3>1, KeysOfBoth
    <3> QED  BY ONLY <3>2, <3>3
  <2>4. CASE q # p
    BY <1>6, <2>1, <2>3, <2>4 DEF FoundInv, EngineTypes
  <2>5. CASE q = p
    <3>1. result[p] # Failure
      BY <1>6, <2>1, <2>5 DEF Failure
    <3> DEFINE new == Normalize(p, result[p].keys)
    <3>2. /\ new \in Seq(Finding)
          /\ i \in DOMAIN new
          /\ new[i].key = result[p].keys[i]
      BY <1>6, <2>1, <2>2, <2>5, NormalizeType
    <3>3. found' = found \o new
      BY <2>1, <3>1
    <3>4. result[p].keys[i] \in KeysOf(new)
      BY <3>2 DEF KeysOf
    <3> HIDE DEF new
    <3> QED  BY <2>1, <2>2, <2>5, <3>2, <3>3, <3>4, KeysOfBoth
  <2> QED  BY <2>4, <2>5
<1> QED  BY <1>7, <1>8

LEMMA FoundPersist ==
  ASSUME EngineTypes, FoundInv, Persist
  PROVE  FoundInv'
<1>1. PICK k \in kept :
        \/ /\ stored' = Append(stored, found[k])
           /\ kept' = kept \ {k}
           /\ counts' = [counts EXCEPT !.created = @ + 1]
           /\ UNCHANGED <<phase, err>>
        \/ /\ phase' = "returned"
           /\ err' \in {"ctx", "store"}
           /\ UNCHANGED <<stored, kept, counts>>
  BY DEF Persist
<1>2. phase = "persist" /\ UNCHANGED <<work, result, found>>
  BY DEF Persist, poolVars
<1>3. \A p \in Pairs : work'[p] = "done" =>
        \A i \in DOMAIN result'[p].keys : result'[p].keys[i] \in KeysOf(found)'
  BY <1>2 DEF FoundInv, KeysOf
<1>4. CASE phase' = "returned" /\ err' \in {"ctx", "store"}
  <2>1. ~RanThrough'
    BY <1>4 DEF RanThrough
  <2> QED  BY <1>3, <1>4, <2>1 DEF FoundInv
<1>5. CASE /\ stored' = Append(stored, found[k])
           /\ kept' = kept \ {k}
           /\ counts' = [counts EXCEPT !.created = @ + 1]
           /\ UNCHANGED <<phase, err>>
  <2>1. ~RanThrough' /\ phase' = "persist"
    BY <1>2, <1>5 DEF RanThrough
  <2>2. found[k] \in Finding /\ stored \in Seq(Finding)
    BY DEF EngineTypes
  <2>3. KeysOf(stored)' = KeysOf(stored) \cup {found[k].key}
    <3>1. KeysOf(stored)' = KeysOf(stored')
      BY DEF KeysOf
    <3> QED  BY <1>5, <2>2, <3>1, KeysAfterAppend
  <2>4. \A i \in DOMAIN found' : \/ found'[i].key \in KeysOf(stored)'
                                 \/ \E j \in kept' : found'[j].key = found'[i].key
    BY <1>2, <1>5, <2>3 DEF FoundInv
  <2>5. /\ counts'.created = counts.created + 1
        /\ counts'.duplicates = counts.duplicates
        /\ counts.created \in Nat /\ counts.duplicates \in Int
    BY <1>5 DEF EngineTypes, Summaries
  <2>6. /\ Cardinality(kept') = Cardinality(kept) - 1
        /\ Cardinality(kept) \in Nat
    BY <1>5, FreshIsCounted, FS_RemoveElement DEF EngineTypes
  <2>7. counts.created + counts.duplicates + Cardinality(kept) = Len(found)
    BY <1>2 DEF FoundInv
  <2>8. counts'.created + counts'.duplicates + Cardinality(kept)' = Len(found)'
    BY <1>2, <2>5, <2>6, <2>7
  <2> QED  BY <1>3, <2>1, <2>4, <2>8 DEF FoundInv
<1> QED  BY <1>1, <1>4, <1>5

LEMMA FoundInvStep ==
  ASSUME EngineTypes, PoolInv, FoundInv, [Next]_vars
  PROVE  FoundInv'
<1>1. CASE Load
  <2>1. /\ phase = "load" /\ phase' \in {"select", "returned"}
        /\ UNCHANGED <<work, result, found, kept, stored>>
        /\ counts' = counts \/ counts' = [counts EXCEPT !.cancelled = ctxDone]
    BY <1>1 DEF Load, poolVars
  <2>2. counts = NoCounts /\ found = <<>> /\ kept = {}
    BY <2>1 DEF PoolInv, FoundInv
  <2>3. counts'.created = 0 /\ counts'.duplicates = 0
    BY <2>1, <2>2 DEF NoCounts
  <2>4. \A p \in Pairs : work'[p] = "done" =>
          \A i \in DOMAIN result'[p].keys : result'[p].keys[i] \in KeysOf(found)'
    BY <2>1 DEF FoundInv, KeysOf
  <2>5. DOMAIN found' = {} /\ Len(found') = 0 /\ kept' = {} /\ Cardinality(kept') = 0
    BY <2>1, <2>2, FS_EmptySet
  <2> QED  BY <2>1, <2>3, <2>4, <2>5 DEF FoundInv
<1>2. CASE Select
  <2>1. /\ phase = "select" /\ phase' = "select"
        /\ UNCHANGED <<result, found, kept>>
        /\ work' = work \/ work' = [work EXCEPT ![next] = "scheduled"]
        /\ counts' = counts \/ counts' = [counts EXCEPT !.eligible = counts.eligible + 1]
    BY <1>2 DEF Select
  <2>2. counts'.created = counts.created
    BY <2>1 DEF EngineTypes, Summaries
  <2>3. ~RanThrough'
    BY <2>1 DEF RanThrough
  <2>4. \A p \in Pairs : work'[p] = "done" => work[p] = "done"
    BY <2>1 DEF EngineTypes
  <2>5. KeysOf(found)' = KeysOf(found)
    BY <2>1 DEF KeysOf
  <2> QED  BY <2>1, <2>2, <2>3, <2>4, <2>5 DEF FoundInv
<1>3. CASE SelectionEnds
  BY <1>3 DEF SelectionEnds, poolVars, FoundInv, RanThrough, KeysOf
<1>4. CASE WaitReturns
  <2> DEFINE fresh == Deduplicate(stored, found)
  <2>1. /\ phase = "wait" /\ phase' = "persist" /\ kept' = fresh
        /\ counts' = [counts EXCEPT !.runs = runCount, !.cancelled = ctxDone,
                                    !.duplicates = Len(found) - Cardinality(fresh)]
        /\ UNCHANGED <<work, result, found, stored>>
    BY <1>4 DEF WaitReturns, poolVars
  <2>2. found \in Seq(Finding) /\ fresh \in SUBSET DOMAIN found
    BY DEF EngineTypes, Deduplicate
  <2>3. Cardinality(fresh) \in Nat /\ Len(found) \in Nat
    BY <2>2, FreshIsCounted
  <2>4. counts.created = 0
    BY <2>1 DEF FoundInv
  <2>5. counts'.created = 0 /\ counts'.duplicates = Len(found) - Cardinality(fresh)
    BY <2>1, <2>4 DEF EngineTypes, Summaries
  <2>6. counts'.created + counts'.duplicates + Cardinality(kept)' = Len(found)'
    BY <2>1, <2>3, <2>5
  <2>7. KeysOf(found)' = KeysOf(found) /\ KeysOf(stored)' = KeysOf(stored)
    BY <2>1 DEF KeysOf
  <2>8. \A i \in DOMAIN found' : \/ found'[i].key \in KeysOf(stored)'
                                 \/ \E j \in kept' : found'[j].key = found'[i].key
    BY <2>1, <2>2, <2>7, EveryKeyHasAFirst
  <2>9. ~RanThrough'
    BY <2>1 DEF RanThrough
  <2> QED  BY <2>1, <2>6, <2>7, <2>8, <2>9 DEF FoundInv
<1>5. CASE Persist
  BY <1>5, FoundPersist
<1>6. CASE Return
  <2>1. /\ phase = "persist" /\ phase' = "returned" /\ kept = {}
        /\ UNCHANGED <<work, result, found, stored, kept, counts>>
    BY <1>6 DEF Return, poolVars
  <2>2. KeysOf(found)' = KeysOf(found) /\ KeysOf(stored)' = KeysOf(stored)
    BY <2>1 DEF KeysOf
  <2>3. Cardinality(kept)' = Cardinality(kept)
    BY <2>1
  <2> QED  BY <2>1, <2>2, <2>3 DEF FoundInv
<1>7. ASSUME NEW p \in Pairs, Worker(p)
      PROVE  FoundInv'
  BY <1>7, FoundWorker
<1>8. CASE CallerCancels
  <2>1. UNCHANGED <<phase, poolVars, kept, counts, err, stored>>
    BY <1>8 DEF CallerCancels
  <2> QED  BY <2>1 DEF FoundInv, RanThrough, KeysOf, poolVars
<1>9. CASE RunAgain
  <2>1. /\ phase' = "load" /\ found' = <<>> /\ kept' = {} /\ counts'.created = 0
        /\ work' = [p \in Pairs |-> "idle"]
    BY <1>9 DEF RunAgain, NoCounts
  <2>2. ~RanThrough'
    BY <2>1 DEF RanThrough
  <2> QED  BY <2>1, <2>2 DEF FoundInv
<1>10. CASE UNCHANGED vars
  BY <1>10 DEF vars, poolVars, FoundInv, RanThrough, KeysOf
<1> QED
  BY <1>1, <1>2, <1>3, <1>4, <1>5, <1>6, <1>7, <1>8, <1>9, <1>10 DEF Next, Main

-----------------------------------------------------------------------------
EngineInv ==
  /\ EngineTypes
  /\ PoolInv
  /\ StoreInv
  /\ FoundInv

LEMMA EngineInvInit == Init => EngineInv
<1> SUFFICES ASSUME Init
             PROVE  EngineInv
  OBVIOUS
<1> USE EngineAssumption DEF Init
<1>1. EngineTypes
  <2>1. counts \in Summaries
    BY DEF NoCounts, Summaries
  <2>2. result \in [Pairs -> Results]
    BY DEF Results
  <2>3. work \in [Pairs -> Work]
    BY DEF Work
  <2>4. found \in Seq(Finding) /\ stored \in Seq(Finding) /\ kept \subseteq DOMAIN found
    OBVIOUS
  <2>5. run \in 1 .. MaxRuns /\ next \in 1 .. NumPairs + 1 /\ runCount \in Nat
    OBVIOUS
  <2> QED  BY <2>1, <2>2, <2>3, <2>4, <2>5 DEF EngineTypes, Phase
<1>2. PoolInv
  <2>1. \A p \in Eligible : p \in Int /\ p >= 1
    BY DEF Pairs
  <2>2. Visited = {} /\ Counted = {} /\ Blamed = {} /\ Busy = {}
    BY <2>1 DEF Visited, Counted, Blamed, Busy
  <2>3. ~Waited /\ counts.eligible = 0
    BY DEF Waited, NoCounts
  <2> QED  BY <2>2, <2>3, FS_EmptySet DEF PoolInv
<1>3. StoreInv
  BY DEF StoreInv, NoKeyStoredTwice
<1>4. FoundInv
  BY DEF FoundInv, RanThrough, NoCounts
<1> QED  BY <1>1, <1>2, <1>3, <1>4 DEF EngineInv

LEMMA EngineInvariant == Spec => []EngineInv
<1>1. EngineInv /\ [Next]_vars => EngineInv'
  BY EngineTypesStep, PoolInvStep, StoreInvStep, FoundInvStep DEF EngineInv
<1> QED  BY <1>1, EngineInvInit, PTL DEF Spec

(* "Dedup is idempotent across runs": for any number of runs on a job, cut *)
(* short or cancelled wherever they were, no two of the rows that          *)
(* Engine.Run created have the same key.                                   *)
THEOREM KeysAreStoredOnce == Spec => []NoKeyStoredTwice
<1>1. EngineInv => NoKeyStoredTwice
  BY DEF EngineInv, StoreInv
<1> QED  BY <1>1, EngineInvariant, PTL

(* "Not silently discarded": when Engine.Run comes to its end with nil,    *)
(* every key that a Detect call reported is in a row, and the summary      *)
(* counts each finding once, as created or as a duplicate.                 *)
THEOREM FindingsAreNotLost == Spec => []NothingReportedIsLost
<1>1. EngineInv => NothingReportedIsLost
  <2> SUFFICES ASSUME EngineInv, RanThrough
               PROVE  /\ \A p \in Pairs : work[p] = "done" =>
                           \A i \in DOMAIN result[p].keys : result[p].keys[i] \in KeysOf(stored)
                      /\ counts.created + counts.duplicates = Len(found)
    BY DEF NothingReportedIsLost
  <2>1. kept = {} /\ Cardinality(kept) = 0
    BY FS_EmptySet DEF EngineInv, FoundInv
  <2>2. \A i \in DOMAIN found : found[i].key \in KeysOf(stored)
    BY <2>1 DEF EngineInv, FoundInv
  <2>3. KeysOf(found) \subseteq KeysOf(stored)
    BY <2>2 DEF KeysOf
  <2>4. counts.created \in Nat /\ counts.duplicates \in Int
    BY DEF EngineInv, EngineTypes, Summaries
  <2>5. counts.created + counts.duplicates + 0 = Len(found)
    BY <2>1 DEF EngineInv, FoundInv
  <2> QED  BY <2>3, <2>4, <2>5 DEF EngineInv, FoundInv
<1> QED  BY <1>1, EngineInvariant, PTL

(* Error isolation: when Engine.Run ends with nil and does not say         *)
(* cancelled, every eligible pair was run to its end or panicked, Errors   *)
(* names exactly the pairs that panicked or failed, and Runs counts all    *)
(* but the panics.                                                         *)
THEOREM PairsAreSettled == Spec => []EveryEligiblePairSettled
<1>1. EngineInv => EveryEligiblePairSettled
  <2> SUFFICES ASSUME EngineInv, RanThrough, ~counts.cancelled
               PROVE  EveryEligiblePairSettled
    BY DEF EveryEligiblePairSettled
  <2> DEFINE done     == {p \in Pairs : work[p] = "done"}
             panicked == {p \in Pairs : work[p] = "panicked"}
  <2>1. Alone /\ Waited
    BY DEF RanThrough, Alone, Waited
  <2>2. \A p \in Pairs : ~(work[p] \in {"scheduled", "detecting", "counted"})
    BY <2>1 DEF EngineInv, PoolInv, Busy
  <2>3. \A p \in Pairs : work[p] # "skipped"
    BY <2>1 DEF EngineInv, PoolInv
  <2>4. Visited = Eligible
    <3>1. next > NumPairs /\ next \in Int
      BY DEF RanThrough, EngineInv, EngineTypes
    <3>2. \A p \in Eligible : p \in Int /\ p <= NumPairs
      BY EngineAssumption DEF Pairs
    <3>3. \A p \in Eligible : p < next
      BY <3>1, <3>2, EngineAssumption
    <3> QED  BY <3>3 DEF Visited
  <2>5. \A p \in Pairs : p \in Eligible <=> work[p] \in {"done", "panicked"}
    BY <2>2, <2>3, <2>4 DEF EngineInv, PoolInv, EngineTypes, Work
  <2>6. done \cup panicked = Eligible
    BY <2>5, EngineAssumption
  <2>7. Counted = done
    BY <2>2 DEF Counted
  <2>8. counts.runs = Cardinality(done)
    BY <2>1, <2>7 DEF EngineInv, PoolInv
  <2>9. counts.eligible = Cardinality(Eligible)
    BY <2>4 DEF EngineInv, PoolInv
  <2>10. errs = panicked \cup {p \in done : result[p] = Failure}
    BY DEF EngineInv, PoolInv, Blamed
  <2> QED  BY <2>6, <2>8, <2>9, <2>10 DEF EveryEligiblePairSettled
<1> QED  BY <1>1, EngineInvariant, PTL

-----------------------------------------------------------------------------
(* The errgroup's limit, and the bounds of the counters that a run fills   *)
(* in.                                                                     *)
BoundInv ==
  /\ Cardinality(Busy) <= Limit
  /\ counts.runs <= NumPairs
  /\ counts.duplicates >= 0

LEMMA PairSubsets ==
  /\ Cardinality(Pairs) = NumPairs
  /\ \A T \in SUBSET Pairs : Cardinality(T) \in 0 .. NumPairs
  /\ \A T \in SUBSET Pairs : \A U \in SUBSET T : Cardinality(U) <= Cardinality(T)
<1>1. Cardinality(Pairs) = NumPairs
  BY FS_Interval, EngineAssumption DEF Pairs
<1>2. \A T \in SUBSET Pairs : Cardinality(T) <= NumPairs
  BY <1>1, PairSets, FS_Subset
<1>3. \A T \in SUBSET Pairs : \A U \in SUBSET T : Cardinality(U) <= Cardinality(T)
  BY PairSets, FS_Subset
<1> QED  BY <1>1, <1>2, <1>3, PairSets, EngineAssumption

LEMMA BoundInvStep ==
  ASSUME EngineTypes, PoolInv, BoundInv, [Next]_vars
  PROVE  BoundInv'
<1>1. Busy \in SUBSET Pairs /\ Cardinality(Busy) \in Nat /\ Limit \in Nat \ {0}
  BY PairSets, EngineAssumption DEF Busy, Limit
<1>2. Limit' = Limit
  BY DEF Limit
<1>3. ASSUME Busy' \subseteq Busy,
             counts'.runs = counts.runs, counts'.duplicates = counts.duplicates
      PROVE  BoundInv'
  <2>1. Cardinality(Busy') <= Cardinality(Busy) /\ Cardinality(Busy') \in Nat
    BY <1>1, <1>3, PairSubsets, PairSets
  <2> QED  BY <1>1, <1>2, <1>3, <2>1 DEF BoundInv
<1>4. CASE Load
  <2>1. work' = work
    BY <1>4 DEF Load, poolVars
  <2>2. counts'.runs = counts.runs /\ counts'.duplicates = counts.duplicates
    BY <1>4 DEF Load, EngineTypes, Summaries
  <2> QED  BY <1>3, <2>1, <2>2 DEF Busy
<1>5. CASE Select
  <2>1. counts'.runs = counts.runs /\ counts'.duplicates = counts.duplicates
    BY <1>5 DEF Select, EngineTypes, Summaries
  <2>2. CASE work' = work
    BY <1>3, <2>1, <2>2 DEF Busy
  <2>3. CASE Cardinality(Busy) < Limit /\ work' = [work EXCEPT ![next] = "scheduled"]
    <3>1. next \in Pairs
      BY <1>5 DEF Select, EngineTypes, Pairs
    <3>2. Busy' = Busy \cup {next}
      BY <2>3, <3>1 DEF Busy, EngineTypes
    <3>3. Cardinality(Busy') <= Cardinality(Busy) + 1 /\ Cardinality(Busy') \in Nat
      <4>1. CASE next \in Busy
        <5>1. Busy' = Busy
          BY <3>2, <4>1
        <5> QED  BY <1>1, <5>1
      <4>2. CASE next \notin Busy
        BY <1>1, <3>1, <3>2, <4>2, OneMorePair
      <4> QED  BY <4>1, <4>2
    <3> QED  BY <1>1, <1>2, <2>1, <2>3, <3>3 DEF BoundInv
  <2> QED  BY <1>5, <2>2, <2>3 DEF Select
<1>6. CASE SelectionEnds \/ Return
  BY <1>3, <1>6 DEF SelectionEnds, Return, poolVars, Busy
<1>7. CASE WaitReturns
  <2> DEFINE fresh == Deduplicate(stored, found)
  <2>1. /\ counts' = [counts EXCEPT !.runs = runCount, !.cancelled = ctxDone,
                                    !.duplicates = Len(found) - Cardinality(fresh)]
        /\ work' = work
    BY <1>7 DEF WaitReturns, poolVars
  <2>2. counts'.runs = runCount /\ counts'.duplicates = Len(found) - Cardinality(fresh)
    BY <2>1 DEF EngineTypes, Summaries
  <2>3. runCount <= NumPairs
    <3>1. Counted \in SUBSET Pairs
      BY DEF Counted
    <3> QED  BY <3>1, PairSubsets, EngineAssumption DEF PoolInv
  <2>4. Cardinality(fresh) <= Len(found) /\ Cardinality(fresh) \in Nat /\ Len(found) \in Nat
    <3>1. fresh \in SUBSET (1 .. Len(found)) /\ Len(found) \in Nat
      BY DEF EngineTypes, Deduplicate
    <3> DEFINE n == Len(found)
    <3> HIDE DEF n
    <3>2. IsFiniteSet(1 .. n) /\ Cardinality(1 .. n) = n
      <4>1. n \in Nat
        BY <3>1 DEF n
      <4> QED  BY <4>1, FS_Interval
    <3>3. Cardinality(fresh) <= n /\ Cardinality(fresh) \in Nat
      BY <3>1, <3>2, FS_Subset, FS_CardinalityType DEF n
    <3> QED  BY <3>1, <3>3 DEF n
  <2>5. Busy' = Busy
    BY <2>1 DEF Busy
  <2> QED  BY <1>2, <2>2, <2>3, <2>4, <2>5 DEF BoundInv
<1>8. CASE Persist
  <2>1. work' = work
    BY <1>8 DEF Persist, poolVars
  <2>2. counts'.runs = counts.runs /\ counts'.duplicates = counts.duplicates
    BY <1>8 DEF Persist, EngineTypes, Summaries
  <2> QED  BY <1>3, <2>1, <2>2 DEF Busy
<1>9. ASSUME NEW p \in Pairs, Worker(p)
      PROVE  BoundInv'
  <2>1. p \in Busy /\ counts' = counts
    BY <1>9 DEF Worker, Begin, DetectPanics, DetectReturns, Record, Busy
  <2>2. \A q \in Pairs : q # p => work'[q] = work[q]
    BY <1>9 DEF Worker, Begin, DetectPanics, DetectReturns, Record, EngineTypes
  <2>3. Busy' \subseteq Busy
    BY <2>1, <2>2 DEF Busy
  <2> QED  BY <1>3, <2>1, <2>3
<1>10. CASE CallerCancels
  BY <1>3, <1>10 DEF CallerCancels, poolVars, Busy
<1>11. CASE RunAgain
  <2>1. Busy' = {} /\ counts'.runs = 0 /\ counts'.duplicates = 0
    BY <1>11 DEF RunAgain, NoCounts, Busy
  <2> QED  BY <1>1, <1>2, <2>1, FS_EmptySet, EngineAssumption DEF BoundInv
<1>12. CASE UNCHANGED vars
  BY <1>3, <1>12 DEF vars, poolVars, Busy
<1> QED
  BY <1>4, <1>5, <1>6, <1>7, <1>8, <1>9, <1>10, <1>11, <1>12 DEF Next, Main

(* Whatever Concurrency is configured, the errgroup never holds more       *)
(* goroutines than its limit, and no counter of the summary leaves its     *)
(* range: none goes below zero, none but created and duplicates, which     *)
(* count findings, above the number of pairs.                              *)
THEOREM EngineStaysInBounds == Spec => []TypeOK
<1>1. Init => BoundInv
  <2> SUFFICES ASSUME Init
               PROVE  BoundInv
    OBVIOUS
  <2>1. Busy = {} /\ counts.runs = 0 /\ counts.duplicates = 0
    BY DEF Init, NoCounts, Busy
  <2> QED  BY <2>1, FS_EmptySet, EngineAssumption DEF BoundInv, Limit
<1>2. EngineInv /\ BoundInv /\ [Next]_vars => BoundInv'
  BY BoundInvStep DEF EngineInv
<1>3. EngineInv /\ BoundInv => TypeOK
  <2> SUFFICES ASSUME EngineInv, BoundInv
               PROVE  TypeOK
    OBVIOUS
  <2>1. EngineTypes /\ PoolInv
    BY DEF EngineInv
  <2>2. Visited \in SUBSET Pairs /\ Counted \in SUBSET Pairs /\ Blamed \in SUBSET Pairs
    BY EngineAssumption DEF Visited, Counted, Blamed
  <2>3. /\ counts.eligible \in 0 .. NumPairs /\ runCount \in 0 .. NumPairs
        /\ errs \subseteq Pairs
    BY <2>1, <2>2, PairSubsets DEF PoolInv
  <2>4. counts \in Counts
    <3>1. /\ counts.runs \in 0 .. NumPairs /\ counts.duplicates \in Nat
          /\ counts.created \in Nat /\ counts.cancelled \in BOOLEAN
      BY <2>1, EngineAssumption DEF BoundInv, EngineTypes, Summaries
    <3>2. counts = [eligible |-> counts.eligible, runs |-> counts.runs,
                    created |-> counts.created, duplicates |-> counts.duplicates,
                    cancelled |-> counts.cancelled]
      BY <2>1 DEF EngineTypes, Summaries
    <3> QED  BY <2>3, <3>1, <3>2 DEF Counts
  <2> QED  BY <2>1, <2>3, <2>4 DEF EngineTypes, TypeOK, BoundInv
<1> QED  BY <1>1, <1>2, <1>3, EngineInvariant, PTL DEF Spec
=============================================================================
