---------------------------- MODULE ActiveDetectors ----------------------------
(***************************************************************************)
(* The decisions of the detectors that send mutated requests (the *active  *)
(* packages under internal/detectors), in the terms of PassiveDetectors.   *)
(* ExecuteMutation returns an error with every outcome but success, so a   *)
(* probe that got no response never reaches these decisions.               *)
(***************************************************************************)
EXTENDS PassiveDetectors

CONSTANTS
  Internal,        \* an internal resource and its marker are configured
  CompareIdentity  \* the second identity of an IDOR test

(* locationFor, payloadsFor: what goes into a path or a JSON body is the   *)
(* raw value, what goes into a query or a form comes in several spellings. *)
Wire(location) == location \in {"query", "form"}

(* Eligible: any parameter, those of a query only of a GET.                *)
AnyParameter(t) == t.kind = "endpoint" /\ t.location # "none" /\ (t.location = "query" => t.method = "GET")

NormalizedDiffers(r, q) == NormalizeBody(r) # NormalizeBody(q)
StructurallyDifferent(r, q) ==
  r.status # q.status \/ r.type # q.type \/ NormalizedDiffers(r, q)

-----------------------------------------------------------------------------
(* xssactive: the marker; unless a JSON answer shows it, contextPayload,   *)
(* which ends an attribute and is a whole script element.                  *)
XSSActiveEligible(t) == AnyParameter(t)
XSSActiveProbes == <<Value("marker"), Value("script")>>

XSSActiveGoesOn(a) ==
  Got(a, Value("marker")) => HasMarker(a[Value("marker")]) /\ a[Value("marker")].type # "json"

(* classifyReflection and classifyHTMLContext: a payload that was altered  *)
(* is taken for one that is not there.                                     *)
ClassifyReflection(r) ==
  CASE r.echo.form = "encoded" -> "html_encoded"
    [] r.echo.form \in {"none", "altered"} -> "none"
    [] OTHER -> CASE r.place = "script" -> "javascript"
                  [] r.place = "attribute" -> "attribute"
                  [] OTHER -> "exact"

Tier(kind) == IF kind = "javascript" THEN 95 ELSE 90

XSSActiveFinding(kind) == Finding("critical", Tier(kind), {Value("marker"), Value("script")})
XSSActiveJSON == Finding("medium", 50, {Value("marker")})

XSSActiveVerdict(a) ==
  LET marker == Value("marker")
      script == Value("script")
  IN CASE ~HasMarker(a[marker]) -> NoFinding
       [] HasMarker(a[marker]) /\ a[marker].type = "json" -> XSSActiveJSON
       [] OTHER ->
            IF ClassifyReflection(a[script]) \in {"none", "html_encoded"} THEN NoFinding
            ELSE XSSActiveFinding(ClassifyReflection(a[script]))

-----------------------------------------------------------------------------
(* sqliactive: as sqli, but status and content type of the two conditions  *)
(* are compared as well, and of the answers to them the evidence keeps no  *)
(* more than the status.                                                   *)
SqliActiveEligible(t) == AnyParameter(t)
SqliActiveFinding(tier) ==
  IF tier = NoTier THEN NoFinding
  ELSE Finding(tier[1], tier[2], {Value("inert"), Value("quote")})
SqliActiveVerdict(a) ==
  SqliActiveFinding(
    Classify(ErrorFamily(a[Value("inert")], a[Value("quote")]),
             StructurallyDifferent(StripPayload(a[Value("true")]), StripPayload(a[Value("false")]))))

-----------------------------------------------------------------------------
(* cmdinjectionactive: four separators.                                    *)
CommandActiveEligible(t) == AnyParameter(t) /\ "command" \in t.sorts
ActiveVariants == <<"pipe", "semicolon", "and", "amp">>

CommandActiveGoesOn(a) ==
  /\ Got(a, Value("legit")) => LooksAllowed(a[Value("legit")])
  /\ ShowsToken(a) = {}

CommandActiveFinding(a) == Finding("critical", 95, {Value("legit")} \cup ShowsToken(a))
CommandActiveVerdict(a) ==
  CASE ~LooksAllowed(a[Value("legit")]) -> Skipped
    [] ShowsToken(a) # {} -> CommandActiveFinding(a)
    [] OTHER -> NoFinding

-----------------------------------------------------------------------------
(* idoractive: the request as its identity and as the other one, and a     *)
(* value that names nothing as the other one.                              *)
IDORActiveEligible(t) ==
  t.kind = "endpoint" /\ t.location # "none" /\ t.method = "GET" /\ "object" \in t.sorts
Cross == AsIdentity(CompareIdentity, "legit")
KnownBad == AsIdentity(CompareIdentity, "missing")
IDORActiveProbes == <<Value("legit"), Cross, KnownBad>>

(* looksLikeSuccessfulObjectResponse                                       *)
SuccessfulObject(r) == LooksAllowed(r) /\ r.page # "denied"

IDORActiveGoesOn(a) ==
  /\ Got(a, Value("legit")) => SuccessfulObject(a[Value("legit")])
  /\ Got(a, Cross) => SuccessfulObject(a[Cross])

IDORActiveFinding(a) ==
  Finding("critical", IF ResourceSpecific(a[Cross]) THEN 90 ELSE 75, DOMAIN a)

IDORActiveVerdict(a) ==
  CASE ~Got(a, KnownBad) -> NoFinding
    [] Got(a, KnownBad) /\ StructurallyDifferent(a[Value("legit")], a[Cross]) -> NoFinding
    [] Got(a, KnownBad) /\ ~StructurallyDifferent(a[KnownBad], a[Cross]) -> NoFinding
    [] OTHER -> IDORActiveFinding(a)

-----------------------------------------------------------------------------
(* openredirectactive: spellings of one destination, until a redirect      *)
(* leads there.                                                            *)
RedirectEligible(t) == AnyParameter(t) /\ "url" \in t.sorts
RedirectForms(location) ==
  IF Wire(location) THEN <<"plain", "protocol-relative", "percent-encoded">> ELSE <<"plain">>
RedirectProbes(location) ==
  <<Value("legit")>>
  \o [i \in 1 .. Len(RedirectForms(location)) |-> Variant("redirect", RedirectForms(location)[i])]

Redirected(a) ==
  {p \in Asked(a, "redirect") : a[p].status = "redirect" /\ "destination" \in a[p].marks}

RedirectGoesOn(a) == Redirected(a) = {}

RedirectFinding(a) == Finding("medium", 90, {Value("legit")} \cup Redirected(a))
RedirectVerdict(a) == IF Redirected(a) = {} THEN NoFinding ELSE RedirectFinding(a)

-----------------------------------------------------------------------------
(* ssrfactive: an inert value, an internal resource, a callback.           *)
SSRFActiveEligible(t) == AnyParameter(t) /\ "url" \in t.sorts
SSRFActiveProbes ==
  IF Internal THEN <<Value("inert"), Value("internal"), Value("callback")>>
  ELSE <<Value("inert"), Value("callback")>>

MarkerFound(a) == Internal /\ "internal" \in a[Value("internal")].marks

SSRFActiveFinding(confidence, a) == Finding("critical", confidence, DOMAIN a)
SSRFActiveVerdict(a, called) ==
  CASE MarkerFound(a) /\ called -> SSRFActiveFinding(95, a)
    [] ~MarkerFound(a) /\ called -> SSRFActiveFinding(90, a)
    [] MarkerFound(a) /\ ~called -> SSRFActiveFinding(85, a)
    [] OTHER -> NoFinding

-----------------------------------------------------------------------------
(* sstiactive: a product that the page does not show by itself, asked for  *)
(* in four syntaxes; a number that changes may be that product.            *)
SSTIEligible(t) == AnyParameter(t)
Syntaxes == <<"braces", "dollar", "hash", "erb">>
SSTIProbes == <<Value("legit")>> \o [i \in 1 .. Len(Syntaxes) |-> Variant("template", Syntaxes[i])]

ContainsIsolatedNumber(r) == "product" \in r.marks \/ r.digits = 1
Evaluated(a) == {p \in Asked(a, "template") : ContainsIsolatedNumber(a[p])}

SSTIGoesOn(a) ==
  /\ Got(a, Value("legit")) =>
       LooksAllowed(a[Value("legit")]) /\ ~ContainsIsolatedNumber(a[Value("legit")])
  /\ Evaluated(a) = {}

SSTIFinding(a) == Finding("high", 90, {Value("legit")} \cup Evaluated(a))
SSTIVerdict(a) ==
  CASE ~LooksAllowed(a[Value("legit")]) -> Skipped
    [] Evaluated(a) # {} -> SSTIFinding(a)
    [] OTHER -> NoFinding

-----------------------------------------------------------------------------
(* traversalactive: the value found, then every case until a marker shows. *)
TraversalActiveEligible(t) == AnyParameter(t) /\ "path" \in t.sorts
ActiveForms(location) == IF Wire(location) THEN Forms ELSE <<"raw">>
TraversalActiveProbes(location) == <<Value("legit")>> \o CaseProbes(ActiveForms(location))

ShowsProof(a) == {p \in Asked(a, "file") : "proof" \in a[p].marks}

TraversalActiveGoesOn(a) ==
  /\ Got(a, Value("legit")) => LooksAllowed(a[Value("legit")])
  /\ ShowsProof(a) = {}

TraversalActiveFinding(a) == Finding("critical", 90, {Value("legit")} \cup ShowsProof(a))
TraversalActiveVerdict(a) ==
  CASE ~LooksAllowed(a[Value("legit")]) -> Skipped
    [] ShowsProof(a) # {} -> TraversalActiveFinding(a)
    [] OTHER -> NoFinding
=============================================================================
