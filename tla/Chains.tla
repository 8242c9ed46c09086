------------------------------- MODULE Chains -------------------------------
(* Attack chains (src/internal/chains): the raw findings of a scan are     *)
(* compared in pairs, related pairs are joined into components, and every  *)
(* component becomes a chain candidate.                                    *)
(*                                                                         *)
(* Findings are those of Correlation, with an id, the identity they were   *)
(* found under (0: none) and numbers for names. What a content says is     *)
(* the set of values that occur in it.                                     *)
EXTENDS Ordering, FiniteSetsExt, SequencesExt

CONSTANTS MaxViews,         \* findings compared (500)
          MaxRelations,     \* relations found (2000)
          MaxChainLength,   \* findings of a chain (10)
          MaxCandidates,    \* chains (100)
          MaxFrequency,     \* findings that may share a telling token (4)
          Mentions(_),      \* the values that occur in the text of an item
          Identifiers,      \* values that look like the id of an object
          Tokens,           \* values that look like a telling token
          LongHosts,        \* hosts of at least minTokenLength characters
          ChainDigest(_)    \* order of the digests of sets of ids

DataFlowSources == {"info_exposure", "reflected_xss", "sqli", "path_traversal", "idor"}
PreconditionSources == {"open_redirect", "ssrf"}

RelationTypes ==
  <<"SAME_ENDPOINT", "SAME_PARAMETER", "SAME_RESOURCE", "SAME_IDENTITY", "SHARED_EVIDENCE",
    "DATA_FLOW", "POTENTIAL_PRECONDITION", "POTENTIAL_IMPACT_AMPLIFIER">>

RelationConfidence ==
  [SAME_ENDPOINT |-> 60, SAME_PARAMETER |-> 30, SAME_RESOURCE |-> 70, SAME_IDENTITY |-> 50,
   SHARED_EVIDENCE |-> 50, DATA_FLOW |-> 65, POTENTIAL_PRECONDITION |-> 55,
   POTENTIAL_IMPACT_AMPLIFIER |-> 40]

------------------------------------------------------------------------------
(* The object a finding names in its query, if it looks like an id.        *)
ResourceValue(f) ==
  IF f.param # 0 /\ f.inQuery /\ f.value \in Identifiers THEN f.value ELSE 0

(* Neither the default port nor a closing slash is normalised here.        *)
EndpointKey(f) ==
  [host |-> f.host, port |-> f.port,
   path |-> IF f.endpoint.name # 0 THEN f.endpoint ELSE f.urlPath]

Contents(f) == UNION {Mentions(item.text) : item \in f.evidence}

ViewBelow(f, g) ==
  \/ f.scan < g.scan
  \/ f.scan = g.scan /\ f.host < g.host
  \/ f.scan = g.scan /\ f.host = g.host /\ f.endpoint.name < g.endpoint.name
  \/ /\ f.scan = g.scan /\ f.host = g.host /\ f.endpoint.name = g.endpoint.name
     /\ f.id < g.id

(* The findings that are compared, in order: one for every id but the      *)
(* empty one, cut at MaxViews.                                             *)
Views(findings) ==
  LET all == Sorted({f \in findings : f.id # 0}, ViewBelow)
  IN  SubSeq(all, 1, Min({Len(all), MaxViews}))

TokenFrequency(views, token) ==
  Cardinality({i \in DOMAIN views : token \in Contents(views[i])})

------------------------------------------------------------------------------
(* Findings of different scans or identities are never related.            *)
Isolated(f, g) == f.scan # 0 /\ f.scan = g.scan /\ f.identity = g.identity

SharesEvidence(f, g, views) ==
  \E token \in Contents(f) \cap Contents(g) \cap Tokens :
     TokenFrequency(views, token) <= MaxFrequency

FlowsInto(f, g) ==
  /\ f.class \in DataFlowSources
  /\ ResourceValue(g) # 0
  /\ ResourceValue(g) \in Contents(f)

LeadsTo(f, g) ==
  /\ f.class \in PreconditionSources
  /\ g.host \in LongHosts
  /\ g.host # f.host
  /\ g.host \in Contents(f)

Holds(type, f, g, views) ==
  LET sameEndpoint == EndpointKey(f) = EndpointKey(g)
      sameResource == ResourceValue(f) # 0 /\ ResourceValue(f) = ResourceValue(g)
  IN  CASE type = "SAME_ENDPOINT" -> sameEndpoint
      []   type = "SAME_PARAMETER" -> f.param # 0 /\ f.param = g.param
      []   type = "SAME_RESOURCE" -> sameResource
      []   type = "SAME_IDENTITY" -> f.identity # 0 /\ f.identity = g.identity
      []   type = "SHARED_EVIDENCE" -> SharesEvidence(f, g, views)
      []   type = "DATA_FLOW" -> FlowsInto(f, g) \/ FlowsInto(g, f)
      []   type = "POTENTIAL_PRECONDITION" -> LeadsTo(f, g) \/ LeadsTo(g, f)
      []   type = "POTENTIAL_IMPACT_AMPLIFIER" ->
             /\ sameEndpoint \/ sameResource
             /\ f.class # g.class
             /\ {f.severity, g.severity} \cap {"high", "critical"} # {}

(* A relation's id is its type and its two findings in the order of their  *)
(* ids, so that a pair has at most one relation of every type. The two     *)
(* directions of a flow are one relation: the second is a duplicate, which *)
(* is dropped only after it was counted.                                   *)
NewRelation(type, f, g) ==
  [type |-> type, a |-> Min({f.id, g.id}), b |-> Max({f.id, g.id}), scan |-> f.scan,
   confidence |-> RelationConfidence[type]]

Twice(type, f, g) ==
  \/ type = "DATA_FLOW" /\ FlowsInto(f, g) /\ FlowsInto(g, f)
  \/ type = "POTENTIAL_PRECONDITION" /\ LeadsTo(f, g) /\ LeadsTo(g, f)

RelationsFor(f, g, views) ==
  FlattenSeq([i \in DOMAIN RelationTypes |->
    LET type == RelationTypes[i]
        r == NewRelation(type, f, g)
    IN  IF ~Holds(type, f, g, views) THEN <<>>
        ELSE IF Twice(type, f, g) THEN <<r, r>> ELSE <<r>>])

(* Pairs in order, until there are enough relations; the set that is left  *)
(* when duplicates are dropped.                                            *)
Relations(views) ==
  LET n == Len(views)
      pairs == FlattenSeq([i \in 1..n |-> [j \in 1..(n - i) |-> <<views[i], views[i + j]>>]])
      Related(p) == IF Isolated(p[1], p[2]) THEN RelationsFor(p[1], p[2], views) ELSE <<>>
      all == FlattenSeq([k \in DOMAIN pairs |-> Related(pairs[k])])
  IN  {all[k] : k \in 1..Min({Len(all), MaxRelations})}

(* Relations are saved in the order of their types' names, then of ids.    *)
TypeOrder ==
  [DATA_FLOW |-> 1, POTENTIAL_IMPACT_AMPLIFIER |-> 2, POTENTIAL_PRECONDITION |-> 3,
   SAME_ENDPOINT |-> 4, SAME_IDENTITY |-> 5, SAME_PARAMETER |-> 6, SAME_RESOURCE |-> 7,
   SHARED_EVIDENCE |-> 8]

RelationBelow(r, s) ==
  \/ TypeOrder[r.type] < TypeOrder[s.type]
  \/ r.type = s.type /\ r.a < s.a
  \/ r.type = s.type /\ r.a = s.a /\ r.b < s.b

------------------------------------------------------------------------------
(* The disjoint sets, as the partition they stand for: a relation unites   *)
(* the parts of its two findings.                                          *)
Unite(parts, r) ==
  LET touched == {p \in parts : {r.a, r.b} \cap p # {}}
  IN  (parts \ touched) \cup {{r.a, r.b} \cup UNION touched}

Components(relations) == FoldSet(LAMBDA r, parts : Unite(parts, r), {}, relations)

Statuses(types) ==
  IF types \cap {"DATA_FLOW", "SHARED_EVIDENCE", "POTENTIAL_PRECONDITION"} # {}
  THEN "SUPPORTED" ELSE "POTENTIAL"

(* The candidate of a component: its first MaxChainLength findings, and    *)
(* the relations among those.                                              *)
Members(component) ==
  {x \in component : Cardinality({y \in component : y < x}) < MaxChainLength}

Inside(relations, ids) == {r \in relations : {r.a, r.b} \subseteq ids}

Candidate(ids, relations, views) ==
  LET inside == Inside(relations, ids)
      first == CHOOSE f \in Range(views) : f.id = Min(ids)
  IN  [findings |-> ids, scan |-> first.scan, identity |-> first.identity,
       relations |-> inside, status |-> Statuses({r.type : r \in inside}),
       confidence |-> Max({r.confidence : r \in inside})]

(* A component of which the cut leaves no relation is no chain; the first  *)
(* MaxCandidates chains in the order of their digests are kept.            *)
BuildCandidates(relations, views) ==
  LET cores == {Members(c) : c \in Components(relations)}
      all == Sorted({c \in cores : Inside(relations, c) # {}},
                    LAMBDA c, d : ChainDigest(c) < ChainDigest(d))
  IN  [i \in 1..Min({Len(all), MaxCandidates}) |-> Candidate(all[i], relations, views)]

Correlate(findings) ==
  LET views == Views(findings)
      relations == Relations(views)
  IN  [relations |-> Sorted(relations, RelationBelow),
       candidates |-> BuildCandidates(relations, views)]

------------------------------------------------------------------------------
(* What the components have to be: the findings that a path of relations   *)
(* connects.                                                               *)
Connected(relations, x, y) ==
  LET Step(S) == S \cup UNION {{r.a, r.b} : r \in {q \in relations : {q.a, q.b} \cap S # {}}}
      reach[n \in Nat] == IF n = 0 THEN {x} ELSE Step(reach[n - 1])
  IN  y \in reach[Cardinality(relations)]

ConnectedComponents(relations) ==
  LET ids == UNION {{r.a, r.b} : r \in relations}
  IN  {{y \in ids : Connected(relations, x, y)} : x \in ids}
=============================================================================
