---------------------------- MODULE PassiveDetectors ----------------------------
(***************************************************************************)
(* The decisions of the detectors of phase 3.2 to 3.7 (xssreflected, sqli, *)
(* ssrf, idor, traversal and cmdinjection under internal/detectors): which *)
(* values they put in the parameter and in which order, when they stop,    *)
(* and what the answers amount to.  A detector is given by                 *)
(*   XEligible(t) the targets it takes;                                    *)
(*   XProbes     the requests in order;                                    *)
(*   XGoesOn(a)  whether, with the answers a, it sends the next one;       *)
(*   XVerdict(a) what it returns then, a finding by XFinding.              *)
(* Confidences are in percent.  Of a target the model keeps what Eligible  *)
(* looks at, the sorts its parameter's name suggests among it.             *)
(***************************************************************************)
EXTENDS Endpoint, Sequences, SequencesExt

CONSTANTS
  Cases,     \* the numbers of the configured TraversalCases, in order
  Contexts   \* the identities of the configured AuthContexts, the owner first

(* Result: an outcome and, with a finding, its severity, confidence and    *)
(* the requests its evidence shows.                                        *)
Result(o) == [outcome |-> o, severity |-> "none", confidence |-> 0, evidence |-> {}]
Skipped == Result("skipped")
NoFinding == Result("no_finding")
Finding(severity, confidence, evidence) ==
  [outcome |-> "finding", severity |-> severity, confidence |-> confidence,
   evidence |-> evidence]

QueryOfGet(t) == t.kind = "endpoint" /\ t.method = "GET" /\ t.location = "query"

Got(a, p) == p \in DOMAIN a
Asked(a, what) == {p \in DOMAIN a : p.what = what}

(* isAnalyzable, isHTMLLike, looksAllowed, isResourceSpecific.             *)
Analyzable(r) == r.type # "binary"
HTMLLike(r) == r.type = "html"
LooksAllowed(r) == r.status = "ok"
ResourceSpecific(r) == "id" \in r.marks \/ r.echo = [form |-> "raw", of |-> "legit"]

(* normalizeBody erases numbers; stripPayload removes the value as sent,   *)
(* HTML-escaped and URL-escaped, and nothing of a value that was altered.  *)
NormalizeBody(r) == [page |-> r.page, echo |-> r.echo, words |-> r.words, marks |-> r.marks]
Unstripped(r) == r
StripPayload(r) ==
  IF r.echo.form \in {"raw", "encoded"}
  THEN [r EXCEPT !.echo = [form |-> "none", of |-> "nothing"]]
  ELSE r
SameStripped(r, q) == NormalizeBody(StripPayload(r)) = NormalizeBody(StripPayload(q))

-----------------------------------------------------------------------------
(* xssreflected: the marker, then metacharacters, then a whole payload.    *)
XSSEligible(t) == QueryOfGet(t)
XSSProbes == <<Value("marker"), Value("markup"), Value("script")>>

HasMarker(r) == r.echo.form # "none"
Intact(r) == r.echo.form = "raw"

(* classifyContext: a script's text is text to it, and a tag it cannot     *)
(* read is unknown.                                                        *)
ClassifyContext(r) ==
  CASE r.place \in {"text", "script"} -> "html_text"
    [] r.place = "attribute" -> "html_attribute"
    [] r.place = "tag" -> "unknown"

XSSGoesOn(a) ==
  /\ Got(a, Value("marker")) =>
       HTMLLike(a[Value("marker")]) /\ HasMarker(a[Value("marker")])
  /\ Got(a, Value("markup")) =>
       Intact(a[Value("markup")]) /\ ClassifyContext(a[Value("marker")]) # "unknown"

(* A finding shows the last request.                                       *)
XSSFinding(severity, confidence, what) == Finding(severity, confidence, {Value(what)})

XSSVerdict(a) ==
  IF ~HTMLLike(a[Value("marker")]) THEN Skipped
  ELSE CASE Got(a, Value("script")) ->
              CASE Intact(a[Value("script")]) -> XSSFinding("high", 95, "script")
                [] ~HasMarker(a[Value("script")]) -> NoFinding
                [] OTHER -> XSSFinding("high", 60, "script")
         [] ~Got(a, Value("script")) /\ Got(a, Value("markup")) /\ Intact(a[Value("markup")]) ->
              XSSFinding("medium", 35, "markup")
         [] OTHER -> NoFinding

-----------------------------------------------------------------------------
(* sqli: an inert value, a syntax error, a true and a false condition.     *)
SqliEligible(t) == QueryOfGet(t)
SqliProbes == <<Value("inert"), Value("quote"), Value("true"), Value("false")>>

SqliGoesOn(a) == Got(a, Value("inert")) => Analyzable(a[Value("inert")])

(* matchDBError: a named family before the generic one.                    *)
MatchDBError(r) ==
  CASE "mysql" \in r.marks -> "mysql"
    [] "generic" \in r.marks /\ "mysql" \notin r.marks -> "generic"
    [] OTHER -> "none"

(* computeSignals: an error that the baseline does not show as well.       *)
ErrorFamily(baseline, probe) ==
  IF MatchDBError(probe) # MatchDBError(baseline) THEN MatchDBError(probe) ELSE "none"

NoTier == <<"none", 0>>
AnyDifferenceIsCertain(family, booleanDiff) ==
  IF booleanDiff THEN <<"critical", 95>> ELSE NoTier
Classify(family, booleanDiff) ==
  CASE booleanDiff -> <<"critical", IF family = "mysql" THEN 95 ELSE 75>>
    [] ~booleanDiff /\ family = "mysql" -> <<"high", 55>>
    [] ~booleanDiff /\ family = "generic" -> <<"medium", 30>>
    [] OTHER -> NoTier

SqliFinding(tier, a) == IF tier = NoTier THEN NoFinding ELSE Finding(tier[1], tier[2], DOMAIN a)

SqliVerdict(a) ==
  IF ~Analyzable(a[Value("inert")]) THEN Skipped
  ELSE SqliFinding(Classify(ErrorFamily(a[Value("inert")], a[Value("quote")]),
                            ~SameStripped(a[Value("true")], a[Value("false")])), a)

-----------------------------------------------------------------------------
(* ssrf: an inert value, then the URL of a callback service.  The calls    *)
(* that the service has seen are the parameter called.                     *)
SSRFEligible(t) == QueryOfGet(t) /\ "url" \in t.sorts
SSRFProbes == <<Value("inert"), Value("callback")>>

SSRFGoesOn(a) == Got(a, Value("inert")) => Analyzable(a[Value("inert")])

FetchErrorPhrase(r) == "fetch-error" \in r.marks

SSRFFinding(severity, confidence, a) == Finding(severity, confidence, DOMAIN a)

SSRFVerdict(a, called) ==
  LET base == a[Value("inert")]
      probe == a[Value("callback")]
  IN CASE ~Analyzable(base) -> Skipped
       [] Analyzable(base) /\ called -> SSRFFinding("critical", 90, a)
       [] Analyzable(base) /\ ~called /\ SameStripped(base, probe) -> NoFinding
       [] OTHER -> IF FetchErrorPhrase(probe) /\ ~FetchErrorPhrase(base)
                   THEN SSRFFinding("high", 50, a) ELSE SSRFFinding("medium", 25, a)

-----------------------------------------------------------------------------
(* idor: the owner of the object, then every other context.                *)
IDOREligible(t) == QueryOfGet(t) /\ "object" \in t.sorts
Owner == AsIdentity("scan", "legit")
Others == [i \in 1 .. Len(Contexts) - 1 |-> AsIdentity(Contexts[i + 1], "legit")]
IDORProbes == <<Owner>> \o Others

IDORGoesOn(a) ==
  Got(a, Owner) => /\ Analyzable(a[Owner]) /\ LooksAllowed(a[Owner])
                   /\ ResourceSpecific(a[Owner])

Crosses(a) == {p \in DOMAIN a \ {Owner} : LooksAllowed(a[p])}
MatchesOwner(a, p) == NormalizeBody(a[p]) = NormalizeBody(a[Owner])

IDOREvidence(a) == {Owner} \cup Crosses(a)
IDORFinding(a) ==
  IF \E p \in Crosses(a) : MatchesOwner(a, p)
  THEN Finding("critical", 90, IDOREvidence(a))
  ELSE Finding("high", 55, IDOREvidence(a))

IDORVerdict(a) ==
  CASE ~Analyzable(a[Owner]) -> Skipped
    [] Analyzable(a[Owner]) /\ Crosses(a) = {} -> NoFinding
    [] OTHER -> IDORFinding(a)

-----------------------------------------------------------------------------
(* traversal: the value found, a name that does not exist, and for every   *)
(* case the representations of its path until one is proven.               *)
TraversalEligible(t) == QueryOfGet(t) /\ "path" \in t.sorts
Forms == <<"raw", "dots", "slashes", "both">>
CaseProbe(c, form) == Request("file", form, c, "scan")
CaseProbes(forms) ==
  LET n == Len(forms)
  IN  [i \in 1 .. n * Len(Cases) |-> CaseProbe(Cases[((i - 1) \div n) + 1], forms[((i - 1) % n) + 1])]

TraversalProbes == <<Value("legit"), Value("missing")>> \o CaseProbes(Forms)

TraversalGoesOn(a) ==
  Got(a, Value("legit")) => Analyzable(a[Value("legit")]) /\ LooksAllowed(a[Value("legit")])

Confirmed(a) == {p \in Asked(a, "file") : LooksAllowed(a[p]) /\ "proof" \in a[p].marks}
Suspicious(a) ==
  {p \in Asked(a, "file") : /\ LooksAllowed(a[p]) /\ "proof" \notin a[p].marks
                            /\ ~SameStripped(a[p], a[Value("missing")])}
(* break: the other representations of a proven case are not tried.        *)
Proven(a, p) == \E q \in Confirmed(a) : q.case = p.case

TraversalEvidence(attempts) == {Value("legit"), Value("missing")} \cup attempts
TraversalFinding(a) ==
  IF Confirmed(a) # {} THEN Finding("critical", 90, TraversalEvidence(Confirmed(a)))
  ELSE Finding("high", 55, TraversalEvidence(Suspicious(a)))

TraversalVerdict(a) ==
  CASE ~Analyzable(a[Value("legit")]) -> Skipped
    [] Confirmed(a) \cup Suspicious(a) # {} -> TraversalFinding(a)
    [] OTHER -> NoFinding

-----------------------------------------------------------------------------
(* cmdinjection: the value found, then one separator after the other until *)
(* the answer holds the token of its own probe.                            *)
CommandEligible(t) == QueryOfGet(t) /\ "command" \in t.sorts
CommandVariants == <<"pipe", "semicolon", "and">>
CommandProbes(variants) ==
  <<Value("legit")>> \o [i \in 1 .. Len(variants) |-> Variant("shell", variants[i])]

ShowsToken(a) == {p \in Asked(a, "shell") : "token" \in a[p].marks}

OneSeparator(a) == Asked(a, "shell") = {}
CommandGoesOn(a) ==
  /\ Got(a, Value("legit")) => Analyzable(a[Value("legit")]) /\ LooksAllowed(a[Value("legit")])
  /\ ShowsToken(a) = {}

CommandFinding(a) == Finding("critical", 95, {Value("legit")} \cup ShowsToken(a))
CommandVerdict(a) ==
  CASE ~Analyzable(a[Value("legit")]) -> Skipped
    [] ShowsToken(a) # {} -> CommandFinding(a)
    [] OTHER -> NoFinding
=============================================================================
