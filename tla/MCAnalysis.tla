----------------------------- MODULE MCAnalysis -----------------------------
(* A small instance of Analysis: small limits, a handful of raw findings   *)
(* of which every scenario stores some.                                    *)
EXTENDS Analysis

Item(kind, text) == [kind |-> kind, text |-> text, tail |-> 0]
Long(kind, text, tail) == [kind |-> kind, text |-> text, tail |-> tail]
Answer(text) == Item("request_response", text)

At(name) == [name |-> name, slash |-> FALSE]

Raw(id, class, severity, confidence, evidence) ==
  [id |-> id, scan |-> 1, identity |-> 0, scheme |-> "http", host |-> 1, port |-> 80,
   endpoint |-> At(1), urlPath |-> At(1), method |-> "GET", param |-> 1, inQuery |-> TRUE,
   value |-> 30, class |-> class, severity |-> severity, confidence |-> confidence,
   title |-> id, detector |-> class, evidence |-> evidence]

(* More signatures than fit, reported by different spellings of a place.   *)
MoreThanFit ==
  {Raw(1, "reflected_xss", "medium", 70, {Answer(1)}),
   [Raw(2, "reflected_xss", "high", 50, {Answer(2), Item("baseline", 3)}) EXCEPT !.port = 0],
   [Raw(3, "reflected_xss", "medium", 70, {Long("request_response", 4, 1)})
      EXCEPT !.endpoint = [name |-> 1, slash |-> TRUE]],
   [Raw(4, "reflected_xss", "low", 90, {Long("request_response", 4, 2), Item("probe", 3)})
      EXCEPT !.endpoint = At(0), !.scheme = ""]}

(* The same evidence again, stronger, weaker, and of an unknown severity.  *)
SameAgain ==
  {Raw(1, "ssrf", "high", 80, {Answer(1)}), Raw(2, "ssrf", "low", 90, {Answer(1)}),
   Raw(3, "ssrf", "odd", 60, {Answer(1)}),
   Raw(4, "ssrf", "odd", 50, {Answer(2), Item("baseline", 3)})}

(* An injection that leaks the id of an object, which two other findings   *)
(* name, one of them under another identity; a redirect to another host.   *)
Leak ==
  {Raw(1, "reflected_xss", "high", 80, {Answer(5)}),
   [Raw(2, "idor", "high", 60, {Answer(1)}) EXCEPT !.value = 40, !.endpoint = At(2)],
   [Raw(3, "idor", "high", 90, {Answer(2)}) EXCEPT !.value = 40, !.identity = 1],
   [Raw(4, "open_redirect", "low", 70, {Answer(6)}) EXCEPT !.param = 0, !.endpoint = At(3)],
   [Raw(5, "ssti", "info", 20, {Answer(6)}) EXCEPT !.host = 2, !.endpoint = At(4)]}

(* Two chains, of which one fits, and findings of another scan's id.       *)
TwoChains ==
  {Raw(1, "path_traversal", "medium", 40, {Answer(1)}),
   Raw(2, "ssti", "critical", 75, {Answer(2)}),
   [Raw(3, "ssti", "medium", 40, {Answer(1)}) EXCEPT !.identity = 1],
   [Raw(4, "ssrf", "medium", 40, {Answer(1)}) EXCEPT !.identity = 1]}

SQLInjection ==
  {Raw(1, "sql_injection", "high", 80, {Answer(5)}),
   [Raw(2, "idor", "high", 60, {Answer(1)}) EXCEPT !.value = 40, !.endpoint = At(2)]}

(* Every choice of at least two of them: detection may find less.          *)
MCScenarios ==
  {S \in UNION {SUBSET P : P \in {MoreThanFit, SameAgain, Leak, TwoChains, SQLInjection}} :
     Cardinality(S) >= 2}

(* What the texts say: 3 is a baseline, 4 is no JSON, since it was cut; 5  *)
(* shows the id of an object and 6 a host and a telling token.             *)
Reads(n) ==
  [json |-> TRUE, body |-> n, binary |-> FALSE, longBody |-> n = 2, longObservation |-> FALSE,
   longText |-> FALSE, observation |-> n, reason |-> IF n = 2 THEN 0 ELSE n,
   request |-> [method |-> IF n = 6 THEN "" ELSE "GET", url |-> n, value |-> IF n = 5 THEN 0 ELSE n,
                longURL |-> n = 6, longValue |-> FALSE, secret |-> n = 3]]

MCReading(text) == IF text = 4 THEN [json |-> FALSE, longText |-> TRUE] ELSE Reads(text)
MCMentions(text) == CASE text = 5 -> {40} [] text = 6 -> {2, 50} [] OTHER -> {}
MCSize(item) == IF item.text = 4 THEN 9 ELSE item.text
MCDigest(evidence) ==
  FoldSet(LAMBDA item, n : n + 2 ^ (IF item.tail = 0 THEN 3 * item.text - KindOrder[item.kind]
                                    ELSE 17 + item.tail),
          0, evidence)
MCIdDigest(id) ==
  LET classes == <<"ssti", "idor", "reflected_xss", "ssrf", "path_traversal", "sql_injection",
                   "open_redirect">>
      class == CHOOSE i \in DOMAIN classes : classes[i] = id.class
  IN  id.param + 2 * class + 20 * id.path + 200 * id.resource
MCEvidenceDigest(item) == (7 * item.observation) % 11
MCChainDigest(ids) == 100 - FoldSet(LAMBDA id, n : n + 2 ^ id, 0, ids)

(* The operators that are algorithms, against what they have to compute.   *)
SmallRelations ==
  {[type |-> "SAME_ENDPOINT", a |-> a, b |-> b] : a \in 1..4, b \in 2..5}

ASSUME ComponentsAreConnected ==
  \A S \in SUBSET {r \in SmallRelations : r.a < r.b} :
     Components(S) = ConnectedComponents(S)

ASSUME RiskIsMonotone == WorseScoresMore

(* What a package says that it lacks is what it lacks.                     *)
Evidences ==
  {S \in SUBSET [kind : {"baseline", "probe", "request_response"}, text : 1..6, tail : {0}] :
     Cardinality(S) \in 1..3}

ASSUME LimitationsAreTrue ==
  \A S \in Evidences :
     LET f == Raw(1, "ssrf", "high", 80, S)
         cf == Build(Identity(f), {NewGroup(f)})
         p == BuildPackage(cf, Assess(cf))
         shown == Range(p.evidence)
     IN  /\ ("no baseline" \in p.limitations) <=> \A e \in shown : e.type # "BASELINE"
         /\ ("truncated" \in p.limitations) <=> \E e \in shown : IsCut(e)
         /\ p.reproduction.level = "FULL" => p.reproduction.request.value # 0
=============================================================================
