------------------------------ MODULE ScanCommand ------------------------------
(***************************************************************************)
(* scanner scan <target> (runFullScan in cmd/scanner/scan.go): the checks  *)
(* of its options, the logins, the scan, and the exit code.  Of the scan   *)
(* itself (modules Orchestrator and Recon) this keeps the registration of  *)
(* the target, the outcome, and the requests of the active detectors,      *)
(* which are built from what was crawled and sent with a session.          *)
(***************************************************************************)
EXTENDS Scope, Targets, Accounts, Policy

CONSTANTS
  Commands,    \* what may be asked: target, start, profile, auth, identity, authz
  ConfigStart, \* crawler.start_path
  Answers,     \* the addresses a name resolves to
  Service,     \* the HTTP service of the target
  Sites,       \* what a crawl may bring back, as pages
  ObjectNames, \* by location, the names that IsLikelyObjectIdentifier knows
  CommandNames \* by location, those that IsLikelyCommandParameter knows

(* The addresses a host stands for.                                        *)
AddressesOf(host) == IF host.kind = "ip" THEN {host.addr} ELSE Answers[host]

(* An address is a path and the names in its query.  What is found on a    *)
(* page, and in a form, is in the order it was found in.  A form without a *)
(* method has GET.                                                         *)
IsAddress(url) ==
  /\ url.path \in Seq(Range(url.path))
  /\ url.query \subseteq Nat \ {Unnamed} /\ IsFiniteSet(url.query)

IsForms(forms) ==
  /\ forms \in Seq(Range(forms))
  /\ \A f \in Range(forms) : IsAddress(f.action) /\ f.method # "" /\ f.fields \in Seq(Nat)

IsLinks(links) == links \in Seq(Range(links)) /\ \A l \in Range(links) : IsAddress(l)

IsSite(site) ==
  /\ site \in Seq(Range(site))
  /\ \A page \in Range(site) :
       /\ IsAddress(page.url) /\ IsLinks(page.links) /\ IsForms(page.forms) /\ IsLinks(page.scripts)
       /\ page.json \subseteq Seq(Nat) /\ IsFiniteSet(page.json)

ASSUME ScanCommandAssumption ==
  /\ Service.ip # NoAddress =>
       /\ DialAllowed(Service.origin.host, Service.ip)
       /\ Service.ip \in AddressesOf(Service.origin.host)
  /\ NoAddress \notin Addresses
  /\ \A site \in Sites : IsSite(site)

VARIABLES
  ctx,     \* the command's context: live or done
  asked,   \* the command
  step,    \* where runFullScan is
  policy,  \* the effective policy
  session, \* the session of the scan
  compare, \* the session of the second identity
  scan,    \* the scan: none, running, or its status
  pages,   \* what was crawled
  request, \* the last request of a detector
  exit     \* the exit code

vars == <<ctx, asked, step, policy, session, compare, scan, pages, request, exit>>

-----------------------------------------------------------------------------
Running == -1
OK == 0
GenericError == 1
ScanFailed == 2
ScanCancelled == 3
AuthFailed == 5

NoSession == [identity |-> Unset, state |-> "none", host |-> Nowhere, secrets |-> <<>>]
NoPolicy  == [crawl |-> FALSE, detect |-> FALSE]

Init ==
  /\ ctx = "live"
  /\ asked \in Commands
  /\ step = "options"
  /\ policy = NoPolicy
  /\ session = NoSession /\ compare = NoSession
  /\ scan = "none" /\ pages = <<>> /\ request = None
  /\ exit = Running

CtxIsDone ==
  /\ ctx = "live" /\ exit = Running
  /\ ctx' = "done"
  /\ UNCHANGED <<asked, step, policy, session, compare, scan, pages, request, exit>>

Goto(from, to) ==
  /\ step = from /\ exit = Running
  /\ step' = to
  /\ UNCHANGED <<ctx, asked, exit>>

Exit(code) ==
  /\ exit' = code /\ step' = "over"
  /\ UNCHANGED <<ctx, asked>>

Nothing == UNCHANGED <<policy, session, compare, scan, pages, request>>

Is(place) == step = place /\ exit = Running

-----------------------------------------------------------------------------
(* The second identity needs a first one that is not itself.  Whether it   *)
(* is disabled, and whether its profile resolves, is seen only later.      *)
IdentitiesOK ==
  asked.authz # Unset =>
    /\ asked.identity # Unset
    /\ asked.authz # asked.identity
    /\ KnownIdentity(asked.authz)

CheckIdentities ==
  /\ Is("options") /\ Nothing
  /\ IF IdentitiesOK THEN Goto("options", "start") ELSE Exit(AuthFailed)

(* resolveScanStartPath: a path is taken as it is, an address must be one  *)
(* of the target's host.                                                   *)
StartValue == IF asked.start # None THEN asked.start ELSE ConfigStart

StartOK ==
  StartValue.kind = "url" =>
    StartValue.host # Nowhere /\ asked.target.parses /\ StartValue.host = asked.target.host

CheckStart ==
  /\ Is("start") /\ Nothing
  /\ IF StartOK THEN Goto("start", "policy") ELSE Exit(GenericError)

ResolvePolicy ==
  /\ Is("policy")
  /\ IF Resolvable(asked.profile)
     THEN Goto("policy", "login") /\ policy' = Resolve(asked.profile)
     ELSE Exit(GenericError) /\ UNCHANGED policy
  /\ UNCHANGED <<session, compare, scan, pages, request>>

-----------------------------------------------------------------------------
(* performAuthentication: the scope rules are loaded; a static profile     *)
(* asks them for its host, a form is fetched from an address in scope.     *)
InScopeAt(host, ip) ==
  ctx = "live" /\ DialAllowed(host, ip) /\ ip \in AddressesOf(host)

MayLogIn(p) ==
  IF p.type \in StaticTypes THEN HostAllowed(p.host)
  ELSE \E ip \in Addresses : InScopeAt(p.url.host, ip)

Session(p, identity, state) ==
  [identity |-> identity, state |-> state, host |-> p.host, secrets |-> p.secrets]

(* Where a login leads: the session with which it goes on, or an exit code *)
(* with the session there is then.                                         *)
Goes(sess)     == [goes |-> TRUE, session |-> sess, code |-> Running]
Stops(code, s) == [goes |-> FALSE, session |-> s, code |-> code]

Attempts(config, identity) ==
  IF ~ProfileResolves(config) THEN {Stops(AuthFailed, NoSession)}
  ELSE LET p == Resolved(config) IN
       {Stops(GenericError, NoSession)}
         \cup {Stops(AuthFailed, Session(p, identity, "failed"))}
         \cup {Goes(Session(p, identity, "authenticated")) : x \in {y \in {0} : MayLogIn(p)}}

(* Fault: the name of the profile is taken for that of the identity.       *)
WithoutOverridesOf(name) ==
  IF ~KnownIdentity(name) \/ Named(Identities, name).disabled THEN {Stops(AuthFailed, NoSession)}
  ELSE Attempts(Named(AuthProfiles, Named(Identities, name).profile), name)

(* authenticateForIdentity and authenticateForScan.                        *)
AsIdentity(name) ==
  IF ~KnownIdentity(name) \/ Named(Identities, name).disabled THEN {Stops(AuthFailed, NoSession)}
  ELSE Attempts(ProfileOf(Named(Identities, name)), name)

AsProfile(name) ==
  IF ~KnownProfile(name) THEN {Stops(AuthFailed, NoSession)}
  ELSE Attempts(Named(AuthProfiles, name), Unset)

Logins ==
  CASE asked.identity # Unset -> AsIdentity(asked.identity)
    [] asked.identity = Unset /\ asked.auth # Unset -> AsProfile(asked.auth)
    [] OTHER -> {Goes(NoSession)}

LogIn ==
  /\ Is("login")
  /\ \E l \in Logins :
       /\ session' = l.session
       /\ IF l.goes THEN Goto("login", "second login") ELSE Exit(l.code)
  /\ UNCHANGED <<policy, compare, scan, pages, request>>

(* The second identity logs in on its own.                                 *)
LogInSecond ==
  /\ Is("second login") /\ asked.authz # Unset
  /\ \E l \in AsIdentity(asked.authz) :
       /\ compare' = l.session
       /\ IF l.goes THEN Goto("second login", "executor") ELSE Exit(l.code)
  /\ UNCHANGED <<policy, session, scan, pages, request>>

NoSecond ==
  /\ Is("second login") /\ asked.authz = Unset
  /\ Goto("second login", "run") /\ Nothing

(* buildAuthzExecutor can only fail to load the scope rules.               *)
BuildExecutor ==
  /\ Is("executor") /\ Nothing
  /\ Goto("executor", "run") \/ Exit(GenericError)

-----------------------------------------------------------------------------
(* buildProductionRegistry: what is missing outside a laboratory disables  *)
(* six detectors, and the comparison of identities needs a second one.     *)
Active == {"xss-active", "sqli-active", "command-injection-active", "ssti-active", "idor-active",
           "ssrf-active", "path-traversal-active", "open-redirect-active"}
NotConfigured == {"ssrf-active", "path-traversal-active", "open-redirect-active"}

Enabled == (Active \ NotConfigured) \ {d \in {"idor-active"} : asked.authz = Unset}

(* Run, resolveAndRegisterTarget: a target that is none or is out of scope *)
(* fails the scan, which exists by then.                                   *)
TargetRegistered == asked.target.parses /\ HostAllowed(asked.target.host)

StartScan ==
  /\ Is("run")
  /\ scan' = "running"
  /\ IF TargetRegistered
     THEN Goto("run", "recon") \/ Goto("run", "end")
     ELSE Goto("run", "refused")
  /\ UNCHANGED <<policy, session, compare, pages, request>>

(* scanPipeline: the policy decides whether there is a crawl.              *)
Recon ==
  /\ Is("recon") /\ Goto("recon", "detection")
  /\ pages' \in IF policy.crawl THEN Sites ELSE {<<>>}
  /\ UNCHANGED <<policy, session, compare, scan, request>>

(* A query is tested with GET only, an object of another identity too.     *)
Eligible(d, t) ==
  /\ t.kind = "endpoint" /\ LocationOf(t) # ""
  /\ LocationOf(t) = "query" \/ d = "idor-active" => t.method = "GET"
  /\ d = "idor-active" => NameOf(t) \in ObjectNames[LocationOf(t)]
  /\ d = "command-injection-active" => NameOf(t) \in CommandNames[LocationOf(t)]

(* The values a detector sends, in the encoding it sends them in: command  *)
(* injection encodes its own in a query and in a form.                     *)
Encoding(d, t) ==
  IF d = "command-injection-active" /\ LocationOf(t) \in {"query", "form"}
  THEN "verbatim" ELSE "escaped"

(* Two of the detectors send the request as it is too; the comparison of   *)
(* identities sends it with both sessions, and the rest with the second.   *)
SendOriginal == {"ssti-active", "idor-active"}
Compares(d) == d = "idor-active"

SentBy(d, mutant) ==
  IF mutant THEN {IF Compares(d) THEN "compare" ELSE "scan"}
  ELSE IF d \in SendOriginal THEN {"scan"} \cup {x \in {"compare"} : Compares(d)} ELSE {}

Built(d, t, mutant) ==
  IF mutant THEN Mutate(NewMutationRequest(t), NewTargetMutation(t, d, Encoding(d, t)))
  ELSE NewMutationRequest(t)

(* Execute: resolveAndValidate checks the address it is given, or looks    *)
(* for one; a session is attached to requests to its own host.             *)
AddressFor(host, given, ip) ==
  IF given # NoAddress THEN ip = given /\ DialAllowed(host, given) ELSE InScopeAt(host, ip)

AttachedTo(s, host) == s.state = "authenticated" /\ s.host = host
Attached(s, host) == AttachedTo(s, host)

Detect ==
  /\ Is("detection") /\ policy.detect /\ ctx = "live"
  /\ \E t \in BuildTargets(Service, pages), d \in Enabled, mutant \in BOOLEAN, ip \in Addresses :
       /\ Eligible(d, t)
       /\ \E by \in SentBy(d, mutant) :
            LET built == Built(d, t, mutant)
                used == IF by = "scan" THEN session ELSE compare
            IN /\ built \notin {Refused, Panics}
               /\ AddressFor(built.origin.host, built.ip, ip)
               /\ request' = [kind |-> "sent", by |-> by, mutant |-> mutant, detector |-> d,
                              target |-> t, ip |-> ip, http |-> built,
                              session |-> Attached(used, built.origin.host)]
  /\ Goto("detection", "detection")
  /\ UNCHANGED <<policy, session, compare, scan, pages>>

(* What the orchestrator makes of a scan: it ends CANCELLED when its       *)
(* context is done, and a target it cannot register fails it.              *)
Statuses == {"COMPLETED", "COMPLETED_WITH_WARNINGS", "FAILED", "CANCELLED"}

FinishScan ==
  /\ \E place \in {"recon", "detection", "end"} : Is(place) /\ Goto(place, "exit")
  /\ scan' \in {s \in Statuses : ctx = "done" => s = "CANCELLED"}
  /\ UNCHANGED <<policy, session, compare, pages, request>>

RefuseTarget ==
  /\ Is("refused") /\ Goto("refused", "exit")
  /\ scan' \in {s \in {"FAILED", "CANCELLED"} : ctx = "done" => s = "CANCELLED"}
  /\ UNCHANGED <<policy, session, compare, pages, request>>

CodeFor(status) ==
  CASE status = "FAILED" -> ScanFailed
    [] status = "CANCELLED" -> ScanCancelled
    [] OTHER -> OK

Return == Is("exit") /\ Exit(CodeFor(scan)) /\ Nothing

Done == exit # Running /\ UNCHANGED vars

Next ==
  \/ CtxIsDone
  \/ CheckIdentities
  \/ CheckStart
  \/ ResolvePolicy
  \/ LogIn
  \/ LogInSecond
  \/ NoSecond
  \/ BuildExecutor
  \/ StartScan
  \/ Recon
  \/ Detect
  \/ FinishScan
  \/ RefuseTarget
  \/ Return
  \/ Done

Spec == Init /\ [][Next]_vars /\ WF_vars(Next)

-----------------------------------------------------------------------------
(* A session that is asked for is that of the identity, whose own          *)
(* credentials come before those of the profile it shares with others.     *)
SecretOf(id, c) ==
  Environment[IF id.env[c] # Unset THEN id.env[c] ELSE Named(AuthProfiles, id.profile).env[c]]

LoggedInAs(name, s) ==
  /\ s.state = "authenticated" /\ s.identity = name
  /\ ~Named(Identities, name).disabled
  /\ \A c \in DOMAIN s.secrets : s.secrets[c] = SecretOf(Named(Identities, name), c)

Acted == session # NoSession \/ compare # NoSession \/ scan # "none"

(* Exit codes (exitcode.go) tell whether there was a scan and how it       *)
(* ended: 2 and 3 are those of a scan, with 1 and 5 there was none, and a  *)
(* scan that was to run as an identity, or to compare two, runs with their *)
(* sessions or not at all.  Nothing is done about options that are wrong.  *)
ExitTellsOutcome ==
  /\ exit = OK            => scan \in {"COMPLETED", "COMPLETED_WITH_WARNINGS"}
  /\ exit = ScanFailed    => scan = "FAILED"
  /\ exit = ScanCancelled => scan = "CANCELLED"
  /\ exit \in {GenericError, AuthFailed} => scan = "none" /\ request = None
  /\ scan # "none" /\ asked.identity # Unset => LoggedInAs(asked.identity, session)
  /\ scan # "none" /\ asked.authz # Unset =>
       LoggedInAs(asked.authz, compare) /\ compare.identity # session.identity
  /\ Acted => Resolvable(asked.profile) /\ StartOK /\ IdentitiesOK

-----------------------------------------------------------------------------
Sent == request.kind = "sent"
Tested == Sent /\ request.mutant

(* Where the pages say that the tested endpoint is; an action without an   *)
(* origin of its own is on the service.                                    *)
OriginOf(f) == IF f.action.origin = NoOrigin THEN Service.origin ELSE f.action.origin
Origins(e) ==
  IF IsForm(e) THEN {OriginOf(f) : f \in FormsAt(pages, e)} ELSE {Service.origin}

(* A request of a detector goes to the origin of the form or the page it   *)
(* tests, at an address that is in scope for that host and is one of its   *)
(* own; only the session's host gets the session, and only the comparison  *)
(* of identities uses the second.  An origin that cannot be read back is   *)
(* not routable, and then only what has no form's fields is tested.        *)
RequestsStayOnTarget ==
  Sent =>
    LET origin == request.http.origin
        used == IF request.by = "scan" THEN session ELSE compare
    IN /\ request.ip \in AddressesOf(origin.host)
       /\ DialAllowed(origin.host, request.ip)
       /\ origin \in Origins(request.target.endpoint)
            \/ Origins(request.target.endpoint) \cap Unparsable # {}
       /\ request.session => used.host = origin.host
       /\ request.by = "compare" => asked.authz # Unset /\ request.detector = "idor-active"

-----------------------------------------------------------------------------
Inside(fields, n) == n \in DOMAIN fields
NamesFound(e, location) ==
  {NameOf(c) : c \in {d \in Parameters(pages) : d.endpoint = e /\ LocationOf(d) = location}}

(* One value is another than what was found, and it is the one tested.     *)
OnlyDiffers(fields, name) ==
  /\ Inside(fields, name) /\ fields[name].text = request.detector
  /\ \A n \in DOMAIN fields \ {name} : fields[n].text \in {"found", "redacted"}

(* The segment the pages differ in, when no blank comes before it.         *)
VaryingSegment(path) == Max({i \in DOMAIN path : path[i] # Blank})
Plain(path) == \A i \in DOMAIN path : path[i] = Blank => i > VaryingSegment(path)

(* A path that is the same when its string is parsed again.                *)
Stable(path) == ReadBack(path) = path

(* What a detector sends is the stored request of the page or the form but *)
(* for the value it tests.  It is made with the method that was found.     *)
(* Every other field is there, a token that guards the form too, with the  *)
(* value that was found, or with what replaced it if the field is one      *)
(* whose values are not stored.  Neither a token nor a field that was only *)
(* seen in a response is tested, and no second input changes.              *)
(*                                                                         *)
(* The fields are those of all forms that share the endpoint               *)
(* (FieldsGoToTheirForm).  And the request is not always sent to the path  *)
(* that was found: behind two slashes the code takes the first segment for *)
(* a host and drops it, so that a link to http://app//a/b is tested at     *)
(* /b.  Such a path is exempt, but only from the comparison of the paths.  *)
(* Exempt are also a path with empty segments inside, where the code       *)
(* counts the segments in two ways, and the query of an address without a  *)
(* path, which is not part of its endpoint.                                *)
EachInputTestedAlone ==
  Tested =>
    LET t == request.target
        e == t.endpoint
        sent == request.http
    IN /\ LocationOf(t) \in {"query", "form", "path"}
       /\ sent.method = e.method
       /\ Stable(e.at.path) /\ LocationOf(t) # "path" => sent.path = e.at.path
       /\ IsForm(e) /\ LocationOf(t) # "path" => NameOf(t) \notin Tokens
       /\ LocationOf(t) = "query" =>
            /\ IsForm(e) \/ e.at.query # {} =>
                 DOMAIN SentQuery(sent) =
                   e.at.query \cup IF IsForm(e) THEN NamesFound(e, "query") ELSE {}
            /\ OnlyDiffers(SentQuery(sent), NameOf(t))
            /\ sent.body = None
       /\ LocationOf(t) = "form" =>
            /\ DOMAIN sent.body.fields = NamesFound(e, "form")
            /\ OnlyDiffers(sent.body.fields, NameOf(t))
            /\ SentQuery(sent) = Addressed(e.at.query)
       /\ LocationOf(t) = "path" => SentQuery(sent) = Addressed(e.at.query)
       /\ LocationOf(t) = "path" /\ Plain(e.at.path) =>
            /\ DOMAIN sent.path = DOMAIN e.at.path
            /\ \A i \in DOMAIN e.at.path :
                 IF i = VaryingSegment(e.at.path) THEN sent.path[i].text = request.detector
                 ELSE sent.path[i] = e.at.path[i]

(* targets.go:169: a form whose action is on another origin "is targeted   *)
(* at ITS OWN real destination": the origin a field is sent to is that of  *)
(* a form that has the field.                                              *)
FieldsGoToTheirForm ==
  Tested /\ IsForm(request.target.endpoint) /\ LocationOf(request.target) \in {"query", "form"} =>
    \E f \in FormsAt(pages, request.target.endpoint) :
      /\ f.action.origin \in {NoOrigin, request.http.origin}
      /\ NameOf(request.target) \in Range(f.fields) \cup f.action.query
===============================================================================
