---------------------------- MODULE Correlation ----------------------------
(* Finding correlation (src/internal/correlation): the raw findings of the *)
(* detectors are folded, one by one, into buckets of one identity each,    *)
(* whose groups hold the findings that show exactly the same evidence.     *)
(*                                                                         *)
(* Names are numbers: they are only compared, and 0 is the empty string.   *)
(* A path is a name with or without a closing slash. An item of evidence   *)
(* is its kind, its first MaxContent bytes (text) and what follows them    *)
(* (tail); a finding's evidence is the set of its items. Letter case and   *)
(* surrounding blanks of hosts, methods and types are not represented.     *)
EXTENDS Ordering, FiniteSetsExt, SequencesExt

CONSTANTS MaxGroups,     \* evidence groups a bucket keeps (50)
          MaxItems,      \* items of evidence a canonical finding has (20)
          Digest(_),     \* order of the digests of evidence sets
          Size(_)        \* length of an item's content

Severities == <<"info", "low", "medium", "high", "critical">>
KindOrder == [baseline |-> 1, probe |-> 2, request_response |-> 3]

(* An unrecognised severity never outranks a recognised one.               *)
RankOfSeverity(s) ==
  IF s \in {Severities[i] : i \in 1..5} THEN CHOOSE i \in 1..5 : Severities[i] = s ELSE 0

MaxSeverity(a, b) == IF RankOfSeverity(b) > RankOfSeverity(a) THEN b ELSE a

(* ... and never wins the minimum either.                                  *)
MinSeverity(a, b) ==
  IF RankOfSeverity(a) = 0 \/ (RankOfSeverity(b) # 0 /\ RankOfSeverity(b) < RankOfSeverity(a))
  THEN b ELSE a

------------------------------------------------------------------------------
DefaultPort(scheme) == CASE scheme = "http" -> 80 [] scheme = "https" -> 443 [] OTHER -> 0

Scheme(f) == IF f.scheme = "" THEN "http" ELSE f.scheme

Location(f) ==
  IF f.param = 0 THEN "" ELSE IF f.inQuery THEN "query" ELSE "unspecified"

(* The object a finding is about, which only idor findings have.           *)
Resource(f) == IF f.class = "idor" /\ f.param # 0 /\ f.inQuery THEN f.value ELSE 0

Identity(f) ==
  [scan |-> f.scan, scheme |-> Scheme(f), host |-> f.host,
   port |-> IF f.port = 0 THEN DefaultPort(Scheme(f)) ELSE f.port,
   path |-> IF f.endpoint.name # 0 THEN f.endpoint.name ELSE f.urlPath.name,
   method |-> f.method, param |-> f.param, location |-> Location(f),
   class |-> f.class, resource |-> Resource(f)]

------------------------------------------------------------------------------
(* A content that is too long is cut, after which items may coincide.      *)
Bounded(evidence) == {[item EXCEPT !.tail = 0] : item \in evidence}

StrongerThan(g, h) ==
  \/ RankOfSeverity(g.severity) > RankOfSeverity(h.severity)
  \/ RankOfSeverity(g.severity) = RankOfSeverity(h.severity) /\ g.confidence > h.confidence
  \/ /\ RankOfSeverity(g.severity) = RankOfSeverity(h.severity)
     /\ g.confidence = h.confidence
     /\ Digest(g.signature) < Digest(h.signature)

NewGroup(f) ==
  [signature |-> f.evidence, confidence |-> f.confidence, severity |-> f.severity,
   evidence |-> Bounded(f.evidence), title |-> f.title, detector |-> f.detector]

(* Fault: the last of two findings with the same evidence wins.            *)
MergeLast(g, h) ==
  [g EXCEPT !.confidence = h.confidence, !.severity = h.severity, !.title = h.title,
            !.detector = h.detector]

(* The same evidence again raises neither confidence nor severity, and the *)
(* smaller title stays.                                                    *)
Merge(g, h) ==
  [g EXCEPT !.confidence = IF h.confidence < @ THEN h.confidence ELSE @,
            !.severity = MinSeverity(@, h.severity),
            !.title = IF h.title < g.title THEN h.title ELSE @,
            !.detector = IF h.title < g.title THEN h.detector ELSE @]

Weakest(groups) == CHOOSE g \in groups : \A h \in groups \ {g} : StrongerThan(h, g)

IngestInto(groups, f) ==
  LET g == NewGroup(f)
      same == {h \in groups : h.signature = g.signature}
  IN  IF same # {} THEN (groups \ same) \cup {Merge(h, g) : h \in same}
      ELSE IF Cardinality(groups) < MaxGroups THEN groups \cup {g}
      ELSE IF StrongerThan(g, Weakest(groups)) THEN (groups \ {Weakest(groups)}) \cup {g}
      ELSE groups

(* A bucket is made for a new identity, and takes the finding in any case. *)
Ingest(buckets, f) ==
  LET id == Identity(f)
  IN  IF id \in DOMAIN buckets THEN [buckets EXCEPT ![id] = IngestInto(@, f)]
      ELSE [i \in DOMAIN buckets \cup {id} |-> IF i = id THEN IngestInto({}, f) ELSE buckets[i]]

------------------------------------------------------------------------------
ItemBelow(a, b) ==
  \/ KindOrder[a.kind] < KindOrder[b.kind]
  \/ a.kind = b.kind /\ a.text < b.text

(* Beyond MaxItems the longer items are kept.                              *)
KeptFirst(a, b) ==
  \/ Size(a) > Size(b)
  \/ Size(a) = Size(b) /\ ItemBelow(a, b)

BoundForOutput(items) ==
  LET byStrength == Sorted(items, KeptFirst)
  IN  Sorted(IF Cardinality(items) <= MaxItems THEN items
             ELSE {byStrength[i] : i \in 1..MaxItems}, ItemBelow)

Winning(groups) == CHOOSE g \in groups : \A h \in groups \ {g} : StrongerThan(g, h)

(* The canonical finding of a bucket; two groups of evidence confirm it.   *)
Build(id, groups) ==
  [id |-> id,
   severity |-> FoldSet(MaxSeverity, "info", {g.severity : g \in groups}),
   confidence |-> Max({g.confidence : g \in groups}),
   status |-> IF Cardinality(groups) >= 2 THEN "CONFIRMED" ELSE "NEW",
   title |-> Winning(groups).title, detector |-> Winning(groups).detector,
   evidence |-> BoundForOutput(UNION {g.evidence : g \in groups})]

Findings(buckets) == {Build(id, buckets[id]) : id \in DOMAIN buckets}

------------------------------------------------------------------------------
(* What the groups of an identity have to be, whatever the order in which  *)
(* its findings came: one group for every signature, with the least        *)
(* confidence and severity it was ever reported with, of which the         *)
(* strongest MaxGroups are kept.                                           *)
Summary(findings) ==
  LET f == CHOOSE f \in findings : \A g \in findings : f.title <= g.title
  IN  [NewGroup(f) EXCEPT
        !.confidence = Min({g.confidence : g \in findings}),
        !.severity = FoldSet(MinSeverity, f.severity, {g.severity : g \in findings})]

Summaries(findings) ==
  {Summary({g \in findings : g.evidence = f.evidence}) : f \in findings}

Strongest(groups, n) ==
  {g \in groups : Cardinality({h \in groups \ {g} : StrongerThan(h, g)}) < n}
=============================================================================
