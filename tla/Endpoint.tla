------------------------------- MODULE Endpoint -------------------------------
(***************************************************************************)
(* What the detectors see of the endpoint they test.  The endpoint is not  *)
(* part of the program: it is modelled from what internal/detectors tells  *)
(* apart in a response.  A request is the value put in the parameter and   *)
(* the identity that asks; a response is a status, a content type and a    *)
(* body, the body being the page, the echo of the value, the parts that    *)
(* change from one response to the next and the marks a detector looks for.*)
(***************************************************************************)
EXTENDS Integers, FiniteSets

(* A value, the form it is written in, the configured case it belongs to   *)
(* and the identity whose session asks.                                    *)
Request(what, form, case, as) == [what |-> what, form |-> form, case |-> case, as |-> as]
Value(what) == Request(what, "plain", 0, "scan")
Variant(what, form) == Request(what, form, 0, "scan")
AsIdentity(who, what) == Request(what, "plain", 0, who)

(* Values with characters that an endpoint may encode, escape or filter.   *)
Meta == {"quote", "true", "false", "markup", "script"}

(* What an endpoint may do to the value, and how its answers may change.   *)
EchoKinds == {"none", "plain", "encoding", "escaping", "filtering", "dropping"}
NoiseKinds == {"none", "digits", "words", "flaky"}
Places == {"text", "script", "attribute", "tag"}

(* How the value appears in the body, by what the endpoint does to it.     *)
EchoForm(does, what) ==
  CASE does = "none"      -> "none"
    [] does = "plain"     -> "raw"
    [] does = "encoding"  -> IF what \in Meta THEN "encoded" ELSE "raw"
    [] does = "escaping"  -> IF what \in Meta THEN "altered" ELSE "raw"
    [] does = "filtering" -> IF what = "script" THEN "altered" ELSE "raw"
    [] does = "dropping"  -> IF what = "script" THEN "none" ELSE "raw"

Echo(s, p) ==
  LET form == EchoForm(s.echo, p.what) IN
  [form |-> form, of |-> IF form = "none" THEN "nothing" ELSE p.what]

(* The endpoint does with the value what the detectors look for.           *)
Takes(s, reaction, p) == s.reacts = reaction /\ p.form \in s.through

Refuses(s, p) == s.reacts # "open" /\ s.lookup /\ p.as # "scan"

Page(s, p) ==
  CASE Refuses(s, p) /\ p.what = "legit"          -> "denied"
    [] s.reacts = "sql" /\ p.what = "quote"       -> "error"
    [] s.reacts = "sql" /\ p.what = "true"        -> "all"
    [] s.reacts = "sql" /\ p.what = "false"       -> "nothing"
    [] p.what = "file" /\ Takes(s, "files", p)    -> "file"
    [] OTHER -> IF ~s.lookup THEN "static"
                ELSE IF p.what = "legit" THEN "data" ELSE "missing"

Status(s, p) ==
  LET page == Page(s, p)
      redirects == p.what = "redirect" /\ Takes(s, "redirect", p)
  IN CASE redirects -> "redirect"
       [] page = "error" -> "broken"
       [] page = "denied" \/ (page = "missing" /\ ~s.soft /\ ~redirects) -> "denied"
       [] OTHER -> "ok"

(* Texts the detectors look for: database errors, the proof of a command,  *)
(* of a file, of an internal resource or of a template, words of a failed  *)
(* fetch, the object's own identifier and the location of a redirect.      *)
Marks(s, p) ==
  {m \in {"mysql", "generic"} : s.errors = m}
  \cup {m \in {"mysql", "generic"} : Page(s, p) = "error" /\ m \in s.through}
  \cup {m \in {"token"}       : p.what = "shell" /\ Takes(s, "shell", p)}
  \cup {m \in {"product"}     : p.what = "template" /\ Takes(s, "template", p)}
  \cup {m \in {"proof"}       : Page(s, p) = "file" /\ "marked" \in s.through}
  \cup {m \in {"internal"}    : p.what = "internal" /\ s.reacts = "fetch" /\ "shown" \in s.through}
  \cup {m \in {"fetch-error"} : p.what = "callback" /\ s.reacts = "fetch" /\ "words" \in s.through}
  \cup {m \in {"id"}          : Page(s, p) = "data"}
  \cup {m \in {"destination"} : Status(s, p) = "redirect"}

Regular(s, p) ==
  [status |-> Status(s, p), type |-> s.type, page |-> Page(s, p), echo |-> Echo(s, p),
   place |-> s.place, words |-> 0, digits |-> 0, marks |-> Marks(s, p)]

(* Numbers or words that change by themselves, or a failure at any time.   *)
Responses(s, p) ==
  LET r == Regular(s, p) IN
  CASE s.noise = "none"   -> {r}
    [] s.noise = "digits" -> {[r EXCEPT !.digits = n] : n \in 0 .. 1}
    [] s.noise = "words"  -> {[r EXCEPT !.words = n] : n \in 0 .. 1}
    [] s.noise = "flaky"  ->
         {r, [r EXCEPT !.status = "broken", !.page = "failure", !.marks = {},
                       !.echo = [form |-> "none", of |-> "nothing"]]}

-----------------------------------------------------------------------------
(* Whether the value put in its parameter makes it do what detector d      *)
(* looks for, when d tries it.                                             *)
Reacts(s, d) ==
  CASE d \in {"sqli", "sqliactive"} -> s.reacts = "sql"
    [] d \in {"xssreflected", "xssactive"} -> s.echo \in {"plain", "filtering", "dropping"}
    [] d \in {"cmdinjection", "cmdinjectionactive"} -> s.reacts = "shell"
    [] d \in {"ssrf", "ssrfactive"} -> s.reacts = "fetch"
    [] d \in {"traversal", "traversalactive"} -> s.reacts = "files"
    [] d \in {"idor", "idoractive"} -> s.reacts = "open" /\ s.lookup
    [] d = "openredirectactive" -> s.reacts = "redirect"
    [] d = "sstiactive" -> s.reacts = "template"
=============================================================================
