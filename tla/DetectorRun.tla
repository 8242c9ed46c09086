------------------------------ MODULE DetectorRun ------------------------------
(***************************************************************************)
(* One call of a detector's Detect on a target that is eligible for it:    *)
(* requests one after the other, each of which may fail, the wait for a    *)
(* callback, and the verdict on the answers.                               *)
(***************************************************************************)
EXTENDS ActiveDetectors, Functions

CONSTANTS
  Detectors,  \* the detectors that run
  Servers,    \* the endpoints they may meet
  Targets     \* the targets

VARIABLES
  detector, server, target,  \* of this call
  configured,  \* what the detector needs from the operator is there
  answers,     \* the requests made so far and their responses
  waiting,     \* waitForCallback polls
  called,      \* the callback service has seen the endpoint's request
  observed,    \* and so has a poll
  result       \* what Detect returned

vars == <<detector, server, target, configured, answers, waiting, called, observed, result>>

-----------------------------------------------------------------------------
Passive == {"xssreflected", "sqli", "ssrf", "idor", "traversal", "cmdinjection"}
Active == {"xssactive", "sqliactive", "cmdinjectionactive", "idoractive", "openredirectactive",
           "ssrfactive", "sstiactive", "traversalactive"}

(* "scan" names the identity of the scan only; with fewer than two         *)
(* contexts idor skips every target.                                       *)
ASSUME DetectorAssumption ==
  /\ Detectors \subseteq Passive \cup Active
  /\ \A s \in Servers : s.echo \in EchoKinds /\ s.noise \in NoiseKinds /\ s.place \in Places
  /\ Cases \in Seq(Nat)
  /\ Contexts \in Seq(Range(Contexts)) /\ Len(Contexts) >= 2
  /\ \A i \in 2 .. Len(Contexts) : Contexts[i] # "scan"
  /\ CompareIdentity # "scan"
  /\ Internal \in BOOLEAN

Eligible(d, t) ==
  CASE d = "xssreflected" -> XSSEligible(t)
    [] d = "sqli" -> SqliEligible(t)
    [] d = "ssrf" -> SSRFEligible(t)
    [] d = "idor" -> IDOREligible(t)
    [] d = "traversal" -> TraversalEligible(t)
    [] d = "cmdinjection" -> CommandEligible(t)
    [] d = "xssactive" -> XSSActiveEligible(t)
    [] d = "sqliactive" -> SqliActiveEligible(t)
    [] d = "cmdinjectionactive" -> CommandActiveEligible(t)
    [] d = "idoractive" -> IDORActiveEligible(t)
    [] d = "openredirectactive" -> RedirectEligible(t)
    [] d = "ssrfactive" -> SSRFActiveEligible(t)
    [] d = "sstiactive" -> SSTIEligible(t)
    [] d = "traversalactive" -> TraversalActiveEligible(t)

(* A detector without its callback service, cases, contexts, second        *)
(* identity or destination skips every target.                             *)
NeedsOperator == {"ssrf", "ssrfactive", "idor", "idoractive", "traversal", "traversalactive",
                  "openredirectactive"}

Init ==
  /\ detector \in Detectors /\ server \in Servers /\ target \in Targets
  /\ Eligible(detector, target)
  /\ configured \in {TRUE, detector \notin NeedsOperator}
  /\ answers = <<>>
  /\ waiting = FALSE /\ called = FALSE /\ observed = FALSE
  /\ result = Result("running")

-----------------------------------------------------------------------------
Probes ==
  CASE detector = "xssreflected" -> XSSProbes
    [] detector \in {"sqli", "sqliactive"} -> SqliProbes
    [] detector = "ssrf" -> SSRFProbes
    [] detector = "idor" -> IDORProbes
    [] detector = "traversal" -> TraversalProbes
    [] detector = "cmdinjection" -> CommandProbes(CommandVariants)
    [] detector = "xssactive" -> XSSActiveProbes
    [] detector = "cmdinjectionactive" -> CommandProbes(ActiveVariants)
    [] detector = "idoractive" -> IDORActiveProbes
    [] detector = "openredirectactive" -> RedirectProbes(target.location)
    [] detector = "ssrfactive" -> SSRFActiveProbes
    [] detector = "sstiactive" -> SSTIProbes
    [] detector = "traversalactive" -> TraversalActiveProbes(target.location)

GoesOn ==
  CASE detector = "xssreflected" -> XSSGoesOn(answers)
    [] detector = "sqli" -> SqliGoesOn(answers)
    [] detector = "ssrf" -> SSRFGoesOn(answers)
    [] detector = "idor" -> IDORGoesOn(answers)
    [] detector = "traversal" -> TraversalGoesOn(answers)
    [] detector = "cmdinjection" -> CommandGoesOn(answers)
    [] detector = "xssactive" -> XSSActiveGoesOn(answers)
    [] detector = "cmdinjectionactive" -> CommandActiveGoesOn(answers)
    [] detector = "idoractive" -> IDORActiveGoesOn(answers)
    [] detector = "openredirectactive" -> RedirectGoesOn(answers)
    [] detector \in {"sqliactive", "ssrfactive"} -> TRUE
    [] detector = "sstiactive" -> SSTIGoesOn(answers)
    [] detector = "traversalactive" -> TraversalActiveGoesOn(answers)

Verdict ==
  CASE detector = "xssreflected" -> XSSVerdict(answers)
    [] detector = "sqli" -> SqliVerdict(answers)
    [] detector = "ssrf" -> SSRFVerdict(answers, observed)
    [] detector = "idor" -> IDORVerdict(answers)
    [] detector = "traversal" -> TraversalVerdict(answers)
    [] detector = "cmdinjection" -> CommandVerdict(answers)
    [] detector = "xssactive" -> XSSActiveVerdict(answers)
    [] detector = "sqliactive" -> SqliActiveVerdict(answers)
    [] detector = "cmdinjectionactive" -> CommandActiveVerdict(answers)
    [] detector = "idoractive" -> IDORActiveVerdict(answers)
    [] detector = "openredirectactive" -> RedirectVerdict(answers)
    [] detector = "ssrfactive" -> SSRFActiveVerdict(answers, observed)
    [] detector = "sstiactive" -> SSTIVerdict(answers)
    [] detector = "traversalactive" -> TraversalActiveVerdict(answers)

(* The places of the probes still to be asked, with the answers there are, *)
(* and the first of them.                                                  *)
Todo ==
  IF ~GoesOn THEN {}
  ELSE LET probes == Probes IN
       {i \in DOMAIN probes :
          ~Got(answers, probes[i]) /\ ~(detector = "traversal" /\ Proven(answers, probes[i]))}

NextProbe == LET todo == Todo IN Probes[CHOOSE i \in todo : \A j \in todo : i <= j]

Running == result = Result("running") /\ ~waiting

(* A request and its response; after the callback's the detector polls.    *)
Probe ==
  /\ Running /\ configured /\ Todo # {}
  /\ LET next == NextProbe IN
     /\ \E r \in Responses(server, next) :
          answers' = [p \in DOMAIN answers \cup {next} |-> IF p = next THEN r ELSE answers[p]]
     /\ waiting' = (next.what = "callback")
  /\ UNCHANGED <<detector, server, target, configured, called, observed, result>>

(* A request that fails or is refused, a body that cannot be read, a token *)
(* that cannot be obtained: the call ends with an error.                   *)
Fail ==
  /\ result = Result("running") /\ configured
  /\ waiting \/ Todo # {}
  /\ result' = Result("error") /\ waiting' = FALSE
  /\ UNCHANGED <<detector, server, target, configured, answers, called, observed>>

(* An endpoint that fetches does so when it can, which may be late.        *)
Call ==
  /\ Value("callback") \in DOMAIN answers /\ ~called
  /\ server.reacts = "fetch" /\ "out" \in server.through
  /\ called' = TRUE
  /\ UNCHANGED <<detector, server, target, configured, answers, waiting, observed, result>>

(* The poll that sees the call, or the last one that does not.             *)
Poll ==
  /\ waiting
  /\ waiting' = FALSE /\ observed' = called
  /\ UNCHANGED <<detector, server, target, configured, answers, called, result>>

Conclude ==
  /\ Running
  /\ IF configured THEN Todo = {} /\ result' = Verdict ELSE result' = Skipped
  /\ UNCHANGED <<detector, server, target, configured, answers, waiting, called, observed>>

Next == Probe \/ Fail \/ Call \/ Poll \/ Conclude

Spec == Init /\ [][Next]_vars

-----------------------------------------------------------------------------
Reported == result.outcome = "finding"

(* What may make a detector report an endpoint that does nothing with the  *)
(* value: words that change or a failure between two answers that are      *)
(* compared, an altered or unencoded echo where echoes are not removed,    *)
(* a changing number that happens to be the product, and JSON that echoes. *)
Comparing == {"sqli", "sqliactive", "ssrf", "traversal", "idor", "idoractive"}
Misled ==
  \/ detector \in Comparing /\ server.noise \in {"words", "flaky"}
  \/ detector \in {"sqli", "sqliactive"} /\ server.echo = "escaping"
  \/ detector \in {"idor", "idoractive"} /\ server.echo # "none"
  \/ detector = "sstiactive" /\ server.noise = "digits"
  \/ detector = "xssactive" /\ server.type = "json" /\ server.echo # "none"

(* No detector reports an endpoint that does nothing with the value, not   *)
(* even one that echoes it, whose numbers change, which shows database     *)
(* errors all the time or answers everything with a success.               *)
InertNeverReported == Reported => Reacts(server, detector) \/ Misled

(* Whatever an endpoint's noise and failures, a confidence of 90 percent   *)
(* or more rests on an answer, kept in the evidence, that shows the proof  *)
(* the detector asked for, or on the callback of its own token.            *)
Proves(p) ==
  CASE detector \in {"xssreflected", "xssactive"} -> Intact(answers[p])
    [] detector \in {"sqli", "sqliactive"} -> answers[p].marks \cap {"mysql"} # {}
    [] detector \in {"ssrf", "ssrfactive"} -> called
    [] detector \in {"idor", "idoractive"} ->
         p.as # "scan" /\ p.what = "legit" /\ LooksAllowed(answers[p])
    [] detector \in {"traversal", "traversalactive"} -> "proof" \in answers[p].marks
    [] detector \in {"cmdinjection", "cmdinjectionactive"} -> "token" \in answers[p].marks
    [] detector = "openredirectactive" -> "destination" \in answers[p].marks
    [] detector = "sstiactive" -> ContainsIsolatedNumber(answers[p])

HighConfidenceShowsProof ==
  Reported /\ result.confidence >= 90 =>
    \E p \in result.evidence : Got(answers, p) /\ Proves(p)

(* An endpoint that does what a detector looks for, in a form it tries,    *)
(* and answers steadily is reported, unless a request fails or the callback*)
(* comes too late.  What an endpoint has to show for it is Visible.  It is *)
(* more for xssactive than for xssreflected: the one asks for a script     *)
(* element and takes an altered one for none, so behind a filter of such   *)
(* elements it misses markup that the other reports; only of JSON it asks  *)
(* no more than the marker.                                                *)
Tried ==
  \E i \in 1 .. Len(Probes) :
    Probes[i].what \in {"shell", "file", "redirect", "template"} /\ Probes[i].form \in server.through
Visible ==
  CASE detector \in {"sqli", "sqliactive", "idor"} -> TRUE
    [] detector = "idoractive" -> server.noise # "words"
    [] detector = "xssreflected" -> server.echo \in {"plain", "filtering"}
    [] detector = "xssactive" -> server.echo = "plain" \/ server.type = "json"
    [] detector = "ssrf" -> observed
    [] detector = "ssrfactive" -> observed \/ (Internal /\ "shown" \in server.through)
    [] detector \in {"traversal", "traversalactive"} -> Tried /\ "marked" \in server.through
    [] detector = "sstiactive" -> Tried /\ server.noise # "digits"
    [] OTHER -> Tried

Readable ==
  CASE detector = "xssreflected" -> server.type = "html"
    [] detector \in Passive \ {"xssreflected"} -> server.type # "binary"
    [] OTHER -> TRUE

ReactionIsReported ==
  /\ Reacts(server, detector) /\ Visible /\ Readable
  /\ server.noise # "flaky" /\ configured
  => result.outcome \notin {"skipped", "no_finding"}
=============================================================================
