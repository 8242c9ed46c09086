--------------------------- MODULE ScanCommandProofs ---------------------------
(***************************************************************************)
(* What the scan command promises for every configuration and every site:  *)
(* its exit code tells what was done and under whose accounts              *)
(* (ExitCodesTellOutcomes), the requests of the detectors stay on what     *)
(* they test (TestsStayOnTarget), and each test changes one input and      *)
(* nothing else (TestsChangeOneInput).                                     *)
(***************************************************************************)
EXTENDS ScanCommand, TLAPS, FiniteSetTheorems

(* The steps of runFullScan, as far as something has been settled.         *)
Scanning == {"recon", "refused", "end", "detection", "exit"}
Compared == {"executor", "run"} \cup Scanning
LoggedIn == {"second login"} \cup Compared
Permitted == {"login"} \cup LoggedIn
Started  == {"policy"} \cup Permitted
Checked  == {"start"} \cup Started
Steps    == {"options", "over"} \cup Checked

OptionsOK == Resolvable(asked.profile) /\ StartOK /\ IdentitiesOK

(* What has been settled holds from then on, and what has not been done    *)
(* has left no trace.                                                      *)
OutcomeInv ==
  /\ step \in Steps
  /\ step = "over" <=> exit # Running
  /\ step \in Checked => IdentitiesOK
  /\ step \in Started => StartOK
  /\ step \in Permitted => Resolvable(asked.profile)
  /\ step \in LoggedIn /\ asked.identity # Unset => LoggedInAs(asked.identity, session)
  /\ step \in Compared /\ asked.authz # Unset => LoggedInAs(asked.authz, compare)
  /\ step \in {"options", "start", "policy", "login"} => session = NoSession
  /\ step \notin Compared \cup {"over"} => compare = NoSession
  /\ step \notin Scanning \cup {"over"} => scan = "none"
  /\ step \in Scanning => scan # "none"
  /\ step \notin {"detection", "exit", "over"} \/ scan = "none" => request = None
  /\ step = "exit" => scan \in Statuses
  /\ scan # "none" => OptionsOK
  /\ ExitTellsOutcome

-----------------------------------------------------------------------------
(* Who is logged in with the credentials that AsIdentity resolves.         *)
LEMMA NamedIsListed ==
  ASSUME NEW list, NEW name \in NamesOf(list)
  PROVE  Named(list, name) \in Range(list)
BY DEF NamesOf, Named, Range

LEMMA LoginIsOfIdentity ==
  ASSUME NEW name, NEW l \in AsIdentity(name), l.goes
  PROVE  LoggedInAs(name, l.session)
<1> DEFINE id == Named(Identities, name)
           config == ProfileOf(id)
           profile == Named(AuthProfiles, id.profile)
           p == Resolved(config)
<1>1. KnownIdentity(name) /\ ~id.disabled /\ l \in Attempts(config, name)
  BY DEF AsIdentity, Stops
<1>2. ProfileResolves(config) /\ l = Goes(Session(p, name, "authenticated"))
  BY <1>1 DEF Attempts, Stops
<1>3. IsProfile(profile)
  <2>1. id \in Range(Identities)
    BY <1>1, NamedIsListed DEF KnownIdentity
  <2>2. id.profile \in NamesOf(AuthProfiles)
    BY <2>1, AccountsAssumption DEF ValidAccounts, ValidIdentity
  <2> QED  BY <2>2, NamedIsListed, AccountsAssumption
<1>4. config.env = [c \in Credentials |-> IF id.env[c] # Unset THEN id.env[c] ELSE profile.env[c]]
  <2> DEFINE env == [c \in Credentials |-> IF id.env[c] # Unset THEN id.env[c] ELSE profile.env[c]]
  <2>1. config = [profile EXCEPT !.env = env]
    BY DEF ProfileOf, WithOverrides
  <2> HIDE DEF env, config, profile
  <2> QED  BY <1>3, <2>1 DEF IsProfile, env
<1>5. Needs(config.type) \subseteq Credentials
  BY <1>2 DEF ProfileResolves, Needs, FormTypes, StaticTypes, Credentials
<1>6. l.session = [identity |-> name, state |-> "authenticated", host |-> p.host, secrets |-> p.secrets]
  BY <1>2 DEF Goes, Session
<1>7. p.secrets = [c \in Needs(config.type) |-> Environment[config.env[c]]]
  BY DEF Resolved
<1>8. ASSUME NEW c \in DOMAIN l.session.secrets
      PROVE  l.session.secrets[c] = SecretOf(id, c)
  <2>1. c \in Needs(config.type) /\ c \in Credentials
    BY <1>5, <1>6, <1>7, <1>8
  <2>2. l.session.secrets[c] = Environment[config.env[c]]
    BY <1>6, <1>7, <2>1
  <2> QED  BY <1>4, <2>1, <2>2 DEF SecretOf
<1> QED  BY <1>1, <1>6, <1>8 DEF LoggedInAs

(* A login that does not go on stops the command with an error.            *)
LEMMA StopCodes ==
  ASSUME NEW name
  PROVE  /\ \A l \in AsIdentity(name) : ~l.goes => l.code \in {GenericError, AuthFailed}
         /\ \A l \in AsProfile(name) : ~l.goes => l.code \in {GenericError, AuthFailed}
<1>1. ASSUME NEW config, NEW who, NEW l \in Attempts(config, who), ~l.goes
      PROVE  l.code \in {GenericError, AuthFailed}
  BY <1>1 DEF Attempts, Stops, Goes
<1> QED  BY <1>1 DEF AsIdentity, AsProfile, Stops

-----------------------------------------------------------------------------
LEMMA AskedOnce ==
  ASSUME [Next]_vars
  PROVE  asked' = asked
BY DEF Next, vars, Nothing, Goto, Exit, CtxIsDone, CheckIdentities, CheckStart, ResolvePolicy,
       LogIn, LogInSecond, NoSecond, BuildExecutor, StartScan, Recon, Detect, FinishScan,
       RefuseTarget, Return, Done

(* The sessions are those that were asked for, and never one identity's    *)
(* twice.                                                                  *)
LEMMA SecondDiffers ==
  ASSUME OutcomeInv, step \in Compared, asked.authz # Unset
  PROVE  /\ LoggedInAs(asked.authz, compare)
         /\ asked.identity # Unset
         /\ LoggedInAs(asked.identity, session)
         /\ compare.identity # session.identity
<1>1. step \in Checked /\ step \in LoggedIn
  BY DEF Checked, Started, Permitted, LoggedIn, Compared
<1> QED  BY <1>1 DEF OutcomeInv, IdentitiesOK, LoggedInAs

LEMMA CodesTell ==
  Running \notin {OK, ScanFailed, ScanCancelled, GenericError, AuthFailed}
<1>1. Running # OK /\ Running # ScanFailed /\ Running # ScanCancelled
  BY DEF Running, OK, ScanFailed, ScanCancelled
<1>2. Running # GenericError /\ Running # AuthFailed
  BY DEF Running, GenericError, AuthFailed
<1> QED  BY <1>1, <1>2

(* A step that goes on: what it settles has to hold.                       *)
LEMMA GoesOnRight ==
  ASSUME OutcomeInv, asked' = asked, exit = Running, exit' = Running,
         step' \in Steps \ {"over"},
         step' \in Checked => IdentitiesOK,
         step' \in Started => StartOK,
         step' \in Permitted => Resolvable(asked.profile),
         step' \in LoggedIn /\ asked.identity # Unset => LoggedInAs(asked.identity, session'),
         step' \in Compared /\ asked.authz # Unset => LoggedInAs(asked.authz, compare'),
         step' \in {"options", "start", "policy", "login"} => session' = NoSession,
         step' \notin Compared => compare' = NoSession,
         step' \in Scanning <=> scan' # "none",
         step' \notin {"detection", "exit"} \/ scan' = "none" => request' = None,
         step' = "exit" => scan' \in Statuses
  PROVE  OutcomeInv'
<1> USE DEF Steps, Checked, Started, Permitted, LoggedIn, Compared, Scanning
<1>1. IdentitiesOK' = IdentitiesOK /\ StartOK' = StartOK /\ OptionsOK' = OptionsOK
  BY DEF IdentitiesOK, StartOK, StartValue, OptionsOK
<1>2. Acted' => step' \in LoggedIn
  BY DEF Acted
<1>3. step' \in LoggedIn => OptionsOK
  BY DEF OptionsOK
<1>4. scan' # "none" => step' \in Compared /\ step' \in LoggedIn
  OBVIOUS
<1>5. ASSUME scan' # "none", asked.authz # Unset
      PROVE  /\ LoggedInAs(asked.authz, compare')
             /\ compare'.identity # session'.identity
  <2>1. LoggedInAs(asked.authz, compare') /\ IdentitiesOK
    BY <1>4, <1>5
  <2>2. asked.identity # Unset /\ asked.identity # asked.authz
    BY <1>5, <2>1 DEF IdentitiesOK
  <2>3. LoggedInAs(asked.identity, session')
    BY <1>4, <1>5, <2>2
  <2> QED  BY <2>1, <2>2, <2>3 DEF LoggedInAs
<1>6. ExitTellsOutcome'
  <2>1. exit' \notin {OK, ScanFailed, ScanCancelled, GenericError, AuthFailed}
    BY CodesTell
  <2>2. scan' # "none" /\ asked.identity # Unset => LoggedInAs(asked.identity, session')
    BY <1>4
  <2> QED  BY <1>1, <1>2, <1>3, <1>5, <2>1, <2>2 DEF ExitTellsOutcome, OptionsOK
<1>7. scan' # "none" => OptionsOK'
  BY <1>1, <1>3, <1>4
<1> QED  BY <1>1, <1>6, <1>7 DEF OutcomeInv

(* A step that stops before there was a scan.                              *)
LEMMA StopsRight ==
  ASSUME OutcomeInv, asked' = asked, step' = "over",
         exit' \in {GenericError, AuthFailed},
         scan' = "none", request' = None,
         Acted' => OptionsOK
  PROVE  OutcomeInv'
<1>1. IdentitiesOK' = IdentitiesOK /\ StartOK' = StartOK /\ OptionsOK' = OptionsOK
  BY DEF IdentitiesOK, StartOK, StartValue, OptionsOK
<1>2. exit' \notin {Running, OK, ScanFailed, ScanCancelled}
  BY DEF Running, OK, GenericError, ScanFailed, ScanCancelled, AuthFailed
<1>3. ExitTellsOutcome'
  BY <1>1, <1>2 DEF ExitTellsOutcome, OptionsOK
<1> QED
  BY <1>1, <1>2, <1>3
     DEF OutcomeInv, Steps, Checked, Started, Permitted, LoggedIn, Compared, Scanning

LEMMA OutcomeInvStep ==
  ASSUME OutcomeInv, [Next]_vars
  PROVE  OutcomeInv'
<1>1. asked' = asked
  BY AskedOnce
<1> USE DEF Steps, Checked, Started, Permitted, LoggedIn, Compared, Scanning
<1>2. CASE CtxIsDone \/ Done \/ UNCHANGED vars
  <2>1. UNCHANGED <<asked, step, policy, session, compare, scan, pages, request, exit>>
    BY <1>2 DEF CtxIsDone, Done, vars
  <2>2. /\ IdentitiesOK' = IdentitiesOK /\ StartOK' = StartOK
        /\ OptionsOK' = OptionsOK /\ ExitTellsOutcome' = ExitTellsOutcome
    BY <2>1 DEF IdentitiesOK, StartOK, StartValue, OptionsOK, ExitTellsOutcome, Acted
  <2> QED  BY <2>1, <2>2 DEF OutcomeInv
<1>3. CASE CheckIdentities
  <2>1. /\ step = "options" /\ exit = Running
        /\ UNCHANGED <<session, compare, scan, request>>
    BY <1>3 DEF CheckIdentities, Is, Nothing
  <2>2. /\ session = NoSession /\ compare = NoSession
        /\ scan = "none" /\ request = None
    BY <2>1 DEF OutcomeInv
  <2>3. CASE IdentitiesOK /\ step' = "start" /\ exit' = exit
    BY <1>1, <2>1, <2>2, <2>3, GoesOnRight
  <2>4. CASE step' = "over" /\ exit' = AuthFailed
    BY <1>1, <2>1, <2>2, <2>4, StopsRight DEF Acted
  <2> QED  BY <1>3, <2>3, <2>4 DEF CheckIdentities, Goto, Exit
<1>4. CASE CheckStart
  <2>1. /\ step = "start" /\ exit = Running
        /\ UNCHANGED <<session, compare, scan, request>>
    BY <1>4 DEF CheckStart, Is, Nothing
  <2>2. /\ session = NoSession /\ compare = NoSession /\ IdentitiesOK
        /\ scan = "none" /\ request = None
    BY <2>1 DEF OutcomeInv
  <2>3. CASE StartOK /\ step' = "policy" /\ exit' = exit
    BY <1>1, <2>1, <2>2, <2>3, GoesOnRight
  <2>4. CASE step' = "over" /\ exit' = GenericError
    BY <1>1, <2>1, <2>2, <2>4, StopsRight DEF Acted
  <2> QED  BY <1>4, <2>3, <2>4 DEF CheckStart, Goto, Exit
<1>5. CASE ResolvePolicy
  <2>1. /\ step = "policy" /\ exit = Running
        /\ UNCHANGED <<session, compare, scan, request>>
    BY <1>5 DEF ResolvePolicy, Is
  <2>2. /\ session = NoSession /\ compare = NoSession /\ IdentitiesOK /\ StartOK
        /\ scan = "none" /\ request = None
    BY <2>1 DEF OutcomeInv
  <2>3. CASE Resolvable(asked.profile) /\ step' = "login" /\ exit' = exit
    BY <1>1, <2>1, <2>2, <2>3, GoesOnRight
  <2>4. CASE step' = "over" /\ exit' = GenericError
    BY <1>1, <2>1, <2>2, <2>4, StopsRight DEF Acted
  <2> QED  BY <1>5, <2>3, <2>4 DEF ResolvePolicy, Goto, Exit
<1>6. CASE LogIn
  <2>1. PICK l \in Logins :
          /\ session' = l.session
          /\ IF l.goes THEN Goto("login", "second login") ELSE Exit(l.code)
    BY <1>6 DEF LogIn
  <2>2. /\ step = "login" /\ exit = Running
        /\ UNCHANGED <<compare, scan, request>>
    BY <1>6 DEF LogIn, Is
  <2>3. /\ compare = NoSession /\ OptionsOK
        /\ scan = "none" /\ request = None
    BY <2>2 DEF OutcomeInv, OptionsOK
  <2>4. CASE l.goes
    <3>1. step' = "second login" /\ exit' = exit
      BY <2>1, <2>4 DEF Goto
    <3>2. asked.identity # Unset => LoggedInAs(asked.identity, session')
      BY <2>1, <2>4, LoginIsOfIdentity DEF Logins
    <3> QED  BY <1>1, <2>2, <2>3, <3>1, <3>2, GoesOnRight DEF OptionsOK
  <2>5. CASE ~l.goes
    <3>1. step' = "over" /\ exit' = l.code
      BY <2>1, <2>5 DEF Exit
    <3>2. l.code \in {GenericError, AuthFailed}
      BY <2>5, StopCodes DEF Logins, Goes
    <3> QED  BY <1>1, <2>2, <2>3, <3>1, <3>2, StopsRight
  <2> QED  BY <2>4, <2>5
<1>7. CASE LogInSecond
  <2>1. PICK l \in AsIdentity(asked.authz) :
          /\ compare' = l.session
          /\ IF l.goes THEN Goto("second login", "executor") ELSE Exit(l.code)
    BY <1>7 DEF LogInSecond
  <2>2. /\ step = "second login" /\ exit = Running
        /\ UNCHANGED <<session, scan, request>>
    BY <1>7 DEF LogInSecond, Is
  <2>3. /\ OptionsOK /\ scan = "none" /\ request = None
        /\ asked.identity # Unset => LoggedInAs(asked.identity, session)
    BY <2>2 DEF OutcomeInv, OptionsOK
  <2>4. CASE l.goes
    <3>1. step' = "executor" /\ exit' = exit
      BY <2>1, <2>4 DEF Goto
    <3>2. LoggedInAs(asked.authz, compare')
      BY <2>1, <2>4, LoginIsOfIdentity
    <3> QED  BY <1>1, <2>2, <2>3, <3>1, <3>2, GoesOnRight DEF OptionsOK
  <2>5. CASE ~l.goes
    <3>1. step' = "over" /\ exit' = l.code
      BY <2>1, <2>5 DEF Exit
    <3>2. l.code \in {GenericError, AuthFailed}
      BY <2>5, StopCodes
    <3> QED  BY <1>1, <2>2, <2>3, <3>1, <3>2, StopsRight
  <2> QED  BY <2>4, <2>5
<1>8. CASE NoSecond \/ BuildExecutor
  <2>1. /\ step \in {"second login", "executor"} /\ exit = Running
        /\ step = "second login" => asked.authz = Unset
        /\ UNCHANGED <<session, compare, scan, request>>
    BY <1>8 DEF NoSecond, BuildExecutor, Is, Nothing
  <2>2. /\ OptionsOK /\ scan = "none" /\ request = None
        /\ asked.identity # Unset => LoggedInAs(asked.identity, session)
        /\ asked.authz # Unset => LoggedInAs(asked.authz, compare)
    BY <2>1 DEF OutcomeInv, OptionsOK
  <2>3. CASE step' = "run" /\ exit' = exit
    BY <1>1, <2>1, <2>2, <2>3, GoesOnRight DEF OptionsOK
  <2>4. CASE step' = "over" /\ exit' = GenericError
    BY <1>1, <2>1, <2>2, <2>4, StopsRight
  <2> QED  BY <1>8, <2>3, <2>4 DEF NoSecond, BuildExecutor, Goto, Exit
<1>9. ASSUME step \in Compared, exit = Running, exit' = Running, step' \in Scanning,
             UNCHANGED <<session, compare>>,
             request' # None => step' \in {"detection", "exit"},
             scan' # "none",
             step' = "exit" => scan' \in Statuses
      PROVE  OutcomeInv'
  <2>1. /\ OptionsOK
        /\ asked.identity # Unset => LoggedInAs(asked.identity, session)
        /\ asked.authz # Unset => LoggedInAs(asked.authz, compare)
    BY <1>9 DEF OutcomeInv, OptionsOK
  <2> QED  BY <1>1, <1>9, <2>1, GoesOnRight DEF OptionsOK
<1>10. CASE StartScan
  <2>1. /\ step = "run" /\ exit = Running /\ exit' = exit
        /\ step' \in {"recon", "end", "refused"}
        /\ scan' = "running"
        /\ UNCHANGED <<session, compare, request>>
    BY <1>10 DEF StartScan, Is, Goto
  <2>2. request = None
    BY <2>1 DEF OutcomeInv
  <2> QED  BY <1>9, <2>1, <2>2
<1>11. CASE Recon
  <2>1. /\ step = "recon" /\ exit = Running /\ exit' = exit
        /\ step' = "detection"
        /\ UNCHANGED <<session, compare, scan, request>>
    BY <1>11 DEF Recon, Is, Goto
  <2>2. request = None /\ scan # "none"
    BY <2>1 DEF OutcomeInv
  <2> QED  BY <1>9, <2>1, <2>2
<1>12. CASE Detect
  <2>1. /\ step = "detection" /\ exit = Running /\ exit' = exit
        /\ step' = "detection"
        /\ UNCHANGED <<session, compare, scan>>
    BY <1>12 DEF Detect, Is, Goto
  <2>2. scan # "none"
    BY <2>1 DEF OutcomeInv
  <2> QED  BY <1>9, <2>1, <2>2
<1>13. CASE FinishScan \/ RefuseTarget
  <2>1. /\ step \in Scanning /\ exit = Running /\ exit' = exit
        /\ step' = "exit"
        /\ scan' \in Statuses
        /\ UNCHANGED <<session, compare, request>>
    BY <1>13 DEF FinishScan, RefuseTarget, Is, Goto, Statuses
  <2>2. scan' # "none"
    BY <2>1 DEF Statuses
  <2> QED  BY <1>9, <2>1, <2>2
<1>14. CASE Return
  <2>1. /\ step = "exit" /\ step' = "over" /\ exit' = CodeFor(scan)
        /\ UNCHANGED <<session, compare, scan, request>>
    BY <1>14 DEF Return, Is, Exit, Nothing
  <2>2. /\ OptionsOK /\ scan \in Statuses
        /\ asked.identity # Unset => LoggedInAs(asked.identity, session)
    BY <2>1 DEF OutcomeInv, OptionsOK
  <2>3. asked.authz # Unset =>
          LoggedInAs(asked.authz, compare) /\ compare.identity # session.identity
    BY <2>1, SecondDiffers
  <2>4. /\ exit' = OK => scan \in {"COMPLETED", "COMPLETED_WITH_WARNINGS"}
        /\ exit' = ScanFailed => scan = "FAILED"
        /\ exit' = ScanCancelled => scan = "CANCELLED"
        /\ exit' \notin {GenericError, AuthFailed, Running}
    BY <2>1, <2>2 DEF CodeFor, Statuses, Running, OK, GenericError, ScanFailed, ScanCancelled, AuthFailed
  <2>5. IdentitiesOK' = IdentitiesOK /\ StartOK' = StartOK /\ OptionsOK' = OptionsOK
    BY <1>1 DEF IdentitiesOK, StartOK, StartValue, OptionsOK
  <2>6. ExitTellsOutcome'
    BY <1>1, <2>1, <2>2, <2>3, <2>4, <2>5 DEF ExitTellsOutcome, OptionsOK
  <2>7. scan # "none"
    BY <2>2 DEF Statuses
  <2> QED  BY <1>1, <2>1, <2>2, <2>4, <2>5, <2>6, <2>7 DEF OutcomeInv
<1> QED
  BY <1>2, <1>3, <1>4, <1>5, <1>6, <1>7, <1>8, <1>10, <1>11, <1>12, <1>13, <1>14 DEF Next

LEMMA OutcomeInvInit == Init => OutcomeInv
<1> SUFFICES ASSUME Init
             PROVE  OutcomeInv
  OBVIOUS
<1>1. ExitTellsOutcome
  BY CodesTell DEF Init, ExitTellsOutcome, Acted
<1> QED
  BY <1>1 DEF Init, OutcomeInv, Steps, Checked, Started, Permitted, LoggedIn, Compared, Scanning

LEMMA OutcomeInvariant == Spec => []OutcomeInv
BY OutcomeInvInit, OutcomeInvStep, PTL DEF Spec

(* The exit code of the scan command: 0, 2 and 3 are those of a scan that  *)
(* completed, failed or was cancelled, 1 and 5 mean that there was none.   *)
(* A scan that is to run as an identity has that identity's session with   *)
(* its own credentials, one that compares two has both, and nothing at all *)
(* is done about wrong options.                                            *)
THEOREM ExitCodesTellOutcomes == Spec => []ExitTellsOutcome
<1>1. OutcomeInv => ExitTellsOutcome
  BY DEF OutcomeInv
<1> QED  BY <1>1, OutcomeInvariant, PTL

-----------------------------------------------------------------------------
LEMMA LeastNatural ==
  ASSUME NEW T, T \subseteq Nat, T # {}
  PROVE  \E x \in T : \A y \in T : x <= y
<1>1. PICK x \in T : \A y \in T : ~ (<<y, x>> \in OpToRel(<,Nat))
  BY NatLessThanWellFounded, WFMin
<1>2. \A y \in T : ~ (y < x)
  BY <1>1 DEF OpToRel
<1> QED  BY <1>2

(* One of the places is the first.                                         *)
LEMMA FirstIsAPlace ==
  ASSUME NEW places, places \subseteq Nat \X Nat, places # {}
  PROVE  FirstPlace(places) \in places
<1> DEFINE firsts == {p[1] : p \in places}
<1>1. firsts \subseteq Nat /\ firsts # {}
  OBVIOUS
<1>2. PICK i \in firsts : \A k \in firsts : i <= k
  BY <1>1, LeastNatural
<1> DEFINE seconds == {p[2] : p \in {q \in places : q[1] = i}}
<1>3. seconds \subseteq Nat /\ seconds # {}
  BY <1>2
<1>4. PICK j \in seconds : \A k \in seconds : j <= k
  BY <1>3, LeastNatural
<1>5. PICK p \in places : p[1] = i /\ p[2] = j
  BY <1>4
<1>6. \A q \in places : p[1] < q[1] \/ (p[1] = q[1] /\ p[2] <= q[2])
  <2> SUFFICES ASSUME NEW q \in places
               PROVE  p[1] < q[1] \/ (p[1] = q[1] /\ p[2] <= q[2])
    OBVIOUS
  <2>1. q[1] \in firsts /\ q[1] \in Nat /\ i \in Nat /\ i <= q[1]
    BY <1>1, <1>2
  <2>2. CASE q[1] = i
    <3>1. q[2] \in seconds
      BY <2>2
    <3> QED  BY <1>4, <1>5, <2>2, <3>1
  <2>3. CASE q[1] # i
    BY <1>5, <2>1, <2>3
  <2> QED  BY <2>2, <2>3
<1> QED  BY <1>5, <1>6 DEF FirstPlace

(* The origin of a form's endpoint is that of one of its forms.            *)
LEMMA OriginIsOfAForm ==
  ASSUME NEW site, IsSite(site), NEW e \in Endpoints(site), IsForm(e)
  PROVE  \E f \in FormsAt(site, e) : ActionOrigin(site, e) = f.action.origin
<1>1. PICK page \in Range(site) : e \in PageEndpoints(page)
  BY DEF Endpoints
<1>2. PICK f \in Range(page.forms) : e = Endpoint(f.action, f.method, "form")
  BY <1>1 DEF PageEndpoints, IsForm, Endpoint
<1>3. PICK i \in DOMAIN site : site[i] = page
  BY DEF Range
<1>4. PICK j \in DOMAIN page.forms : page.forms[j] = f
  BY DEF Range
<1>5. <<i, j>> \in FormPlaces(site, e)
  <2>1. FormAt(site, <<i, j>>) = f
    BY <1>3, <1>4 DEF FormAt
  <2>2. <<i, j>> \in UNION {{k} \X DOMAIN site[k].forms : k \in DOMAIN site}
    BY <1>3, <1>4
  <2> QED  BY <1>2, <2>1, <2>2 DEF FormPlaces
<1>6. FormPlaces(site, e) \subseteq Nat \X Nat
  <2>1. \A k \in DOMAIN site : k \in Nat /\ DOMAIN site[k].forms \subseteq Nat
    <3> SUFFICES ASSUME NEW k \in DOMAIN site
                 PROVE  k \in Nat /\ DOMAIN site[k].forms \subseteq Nat
      OBVIOUS
    <3>1. site[k] \in Range(site)
      BY DEF Range
    <3>2. site[k].forms \in Seq(Range(site[k].forms))
      BY <3>1 DEF IsSite, IsForms
    <3> QED  BY <3>2 DEF IsSite
  <2> QED  BY <2>1 DEF FormPlaces
<1>7. FirstPlace(FormPlaces(site, e)) \in FormPlaces(site, e)
  BY <1>5, <1>6, FirstIsAPlace
<1> QED  BY <1>7 DEF FormsAt, ActionOrigin, IsForm

-----------------------------------------------------------------------------
(* Where a target is: the service, at the address it was found at, or the  *)
(* origin of its form's action, at an address to be looked up.             *)
LEMMA TargetIsSomewhere ==
  ASSUME NEW site, NEW t \in BuildTargets(Service, site), t.kind = "endpoint"
  PROVE  /\ Service.ip # NoAddress
         /\ t.endpoint \in Endpoints(site)
         /\ t.origin = IF Rerouted(Service, site, t.endpoint)
                       THEN ActionOrigin(site, t.endpoint) ELSE Service.origin
         /\ t.ip = IF Rerouted(Service, site, t.endpoint) THEN NoAddress ELSE Service.ip
<1>1. Service.ip # NoAddress
  BY DEF BuildTargets, Dialable
<1>2. t # ServiceTarget(Service)
  <2>1. ServiceTarget(Service).kind = "http_service"
    BY DEF ServiceTarget
  <2> QED  BY <2>1
<1>3. PICK e \in Endpoints(site) : t \in EndpointTargets(Service, site, e)
  BY <1>1, <1>2 DEF BuildTargets, Dialable
<1> DEFINE root == EndpointTarget(Service, site, e)
<1> DEFINE from == ServiceTarget(Service)
<1>s. /\ from.origin = Service.origin /\ from.ip = Service.ip
      /\ from = [x \in DOMAIN from |-> from[x]]
      /\ {"kind", "endpoint", "path", "query", "method", "origin", "ip", "input", "index", "fields"}
           \subseteq DOMAIN from
  BY DEF ServiceTarget
<1>r. root = [from EXCEPT
     !.kind = "endpoint", !.endpoint = e, !.method = e.method,
     !.path = ReadBack(e.at.path), !.query = e.at.query,
     !.origin = IF Rerouted(Service, site, e) THEN ActionOrigin(site, e) ELSE @,
     !.ip = IF Rerouted(Service, site, e) THEN NoAddress ELSE @]
  BY DEF EndpointTarget
<1> HIDE DEF from
<1>4. /\ root.endpoint = e
      /\ root.origin = IF Rerouted(Service, site, e) THEN ActionOrigin(site, e) ELSE Service.origin
      /\ root.ip = IF Rerouted(Service, site, e) THEN NoAddress ELSE Service.ip
      /\ DOMAIN root = DOMAIN from
  BY <1>s, <1>r
<1> HIDE DEF root
<1>5. /\ t.endpoint = root.endpoint
      /\ t.origin = root.origin
      /\ t.ip = root.ip
  <2>1. CASE t = root
    BY <2>1
  <2>2. CASE t \in QueryTargets(Service, site, e)
    <3>1. PICK n, names : t = [Testing(root, "query", n) EXCEPT !.fields = names]
      BY <2>2 DEF QueryTargets, root
    <3> QED  BY <1>4, <3>1 DEF Testing
  <2>3. CASE t \in BodyTargets(Service, site, e)
    <3>1. PICK n : t = Testing(root, "body", n)
      BY <2>3 DEF BodyTargets, root
    <3> QED  BY <1>4, <3>1 DEF Testing
  <2>4. CASE t \in FormTargets(Service, site, e)
    <3>1. PICK n, names : t = [Testing(root, "form", n) EXCEPT !.fields = names]
      BY <2>4 DEF FormTargets, root
    <3> QED  BY <1>4, <3>1 DEF Testing
  <2>5. CASE t \in PathTargets(Service, site, e)
    <3>1. PICK n, k : t = [Testing(root, "path", n) EXCEPT !.index = k]
      BY <2>5 DEF PathTargets, root
    <3> QED  BY <1>4, <3>1 DEF Testing
  <2> QED  BY <1>3, <2>1, <2>2, <2>3, <2>4, <2>5 DEF EndpointTargets, root
<1> QED  BY <1>1, <1>3, <1>4, <1>5

(* Mutate changes neither the origin nor the address of a request.         *)
LEMMA MutantIsWhereItWas ==
  ASSUME NEW d, NEW t, NEW mutant \in BOOLEAN, Built(d, t, mutant) \notin {Refused, Panics}
  PROVE  /\ Built(d, t, mutant).origin = t.origin
         /\ Built(d, t, mutant).ip = t.ip
<1> DEFINE req == NewMutationRequest(t)
           m == NewTargetMutation(t, d, Encoding(d, t))
           made == Mutated(req, m)
           Fields == {"method", "origin", "ip", "path", "query", "raw", "body", "type", "made"}
<1>1. /\ req.origin = t.origin /\ req.ip = t.ip
      /\ DOMAIN req = Fields
  BY DEF NewMutationRequest
<1>2. CASE ~mutant
  BY <1>1, <1>2 DEF Built
<1>3. CASE mutant
  <2> HIDE DEF req, m, made
  <2>1. Built(d, t, mutant) = Mutate(req, m)
    BY <1>3 DEF Built, req, m
  <2>2. made \notin {Refused, Panics} /\ Mutate(req, m) = [made EXCEPT !.made = "MUTATED"]
    BY <2>1 DEF Mutate, made
  <2>3. made \in {ApplyQuery(req, m), ApplyForm(req, m), ApplyJSON(req, m), ApplyPath(req, m)}
    BY <2>2 DEF Mutated, made
  <2>4. made.origin = req.origin /\ made.ip = req.ip /\ DOMAIN made = Fields
    <3>1. CASE made = ApplyQuery(req, m)
      BY <1>1, <3>1 DEF ApplyQuery
    <3>2. CASE made = ApplyForm(req, m)
      BY <1>1, <3>2 DEF ApplyForm
    <3>3. CASE made = ApplyJSON(req, m)
      BY <1>1, <3>3 DEF ApplyJSON
    <3>4. CASE made = ApplyPath(req, m)
      BY <1>1, <3>4 DEF ApplyPath
    <3> QED  BY <2>3, <3>1, <3>2, <3>3, <3>4
  <2>5. Mutate(req, m).origin = made.origin /\ Mutate(req, m).ip = made.ip
    BY <2>2, <2>4
  <2> QED  BY <1>1, <2>1, <2>4, <2>5 DEF req
<1> QED  BY <1>2, <1>3

-----------------------------------------------------------------------------
(* The pages and the sessions a request was built from are still those     *)
(* when it has been sent.                                                  *)
TestInv ==
  /\ pages \in Sites \cup {<<>>}
  /\ RequestsStayOnTarget

LEMMA DetectStaysOnTarget ==
  ASSUME pages \in Sites \cup {<<>>}, Detect
  PROVE  RequestsStayOnTarget'
<1>1. PICK t \in BuildTargets(Service, pages), d \in Enabled, mutant \in BOOLEAN, ip \in Addresses :
        /\ Eligible(d, t)
        /\ \E by \in SentBy(d, mutant) :
             LET built == Built(d, t, mutant)
                 used == IF by = "scan" THEN session ELSE compare
             IN /\ built \notin {Refused, Panics}
                /\ AddressFor(built.origin.host, built.ip, ip)
                /\ request' = [kind |-> "sent", by |-> by, mutant |-> mutant, detector |-> d,
                               target |-> t, ip |-> ip, http |-> built,
                               session |-> Attached(used, built.origin.host)]
  BY DEF Detect
<1> DEFINE built == Built(d, t, mutant)
<1>2. PICK by \in SentBy(d, mutant) :
        LET used == IF by = "scan" THEN session ELSE compare
        IN /\ built \notin {Refused, Panics}
           /\ AddressFor(built.origin.host, built.ip, ip)
           /\ request' = [kind |-> "sent", by |-> by, mutant |-> mutant, detector |-> d,
                          target |-> t, ip |-> ip, http |-> built,
                          session |-> Attached(used, built.origin.host)]
  BY <1>1
<1> DEFINE used == IF by = "scan" THEN session ELSE compare
<1> HIDE DEF built
<1>3. /\ request'.by = by /\ request'.detector = d /\ request'.target = t
      /\ request'.ip = ip /\ request'.http = built
      /\ request'.session = Attached(used, built.origin.host)
  BY <1>2
<1>4. UNCHANGED <<asked, pages, session, compare>>
  BY DEF Detect, Goto
<1>5. built.origin = t.origin /\ built.ip = t.ip
  BY <1>2, MutantIsWhereItWas DEF built
<1>6. t.kind = "endpoint"
  BY <1>1 DEF Eligible
<1> DEFINE e == t.endpoint
<1>7. /\ Service.ip # NoAddress
      /\ e \in Endpoints(pages)
      /\ t.origin = IF Rerouted(Service, pages, e) THEN ActionOrigin(pages, e) ELSE Service.origin
      /\ t.ip = IF Rerouted(Service, pages, e) THEN NoAddress ELSE Service.ip
  BY <1>6, TargetIsSomewhere
<1>8. DialAllowed(t.origin.host, ip) /\ ip \in AddressesOf(t.origin.host)
  <2>1. CASE t.ip # NoAddress
    <3>1. ip = Service.ip /\ t.origin = Service.origin
      BY <1>2, <1>5, <1>7, <2>1 DEF AddressFor
    <3> QED  BY <1>7, <3>1, ScanCommandAssumption
  <2>2. CASE t.ip = NoAddress
    BY <1>2, <1>5, <2>2 DEF AddressFor, InScopeAt
  <2> QED  BY <2>1, <2>2
<1>9. \/ t.origin \in Origins(e)
      \/ Origins(e) \cap Unparsable # {}
  <2>1. CASE ~IsForm(e)
    <3>1. ~Rerouted(Service, pages, e)
      BY <2>1 DEF Rerouted, Elsewhere, ActionOrigin, IsForm
    <3> QED  BY <1>7, <2>1, <3>1 DEF Origins
  <2>2. CASE IsForm(e)
    <3>1. IsSite(pages)
      <4>1. CASE pages \in Sites
        BY <4>1, ScanCommandAssumption
      <4>2. CASE pages = <<>>
        <5>1. Range(pages) = {}
          BY <4>2 DEF Range
        <5>2. e \in UNION {}
          BY <1>7, <5>1 DEF Endpoints
        <5> QED  BY <5>2
      <4> QED  BY <4>1, <4>2
    <3>2. PICK f \in FormsAt(pages, e) : ActionOrigin(pages, e) = f.action.origin
      BY <1>7, <2>2, <3>1, OriginIsOfAForm
    <3>3. OriginOf(f) \in Origins(e)
      BY <2>2 DEF Origins
    <3>4. CASE Rerouted(Service, pages, e)
      BY <1>7, <3>2, <3>3, <3>4 DEF Rerouted, Elsewhere, OriginOf
    <3>5. CASE ~Elsewhere(Service, pages, e)
      BY <1>7, <3>2, <3>3, <3>5 DEF Rerouted, Elsewhere, OriginOf
    <3>6. CASE Elsewhere(Service, pages, e) /\ ~Routable(Service, pages, e)
      BY <3>2, <3>3, <3>6 DEF Routable, Elsewhere, OriginOf
    <3> QED  BY <3>4, <3>5, <3>6 DEF Rerouted
  <2> QED  BY <2>1, <2>2
<1>10. Attached(used, t.origin.host) => used.host = t.origin.host
  BY DEF Attached, AttachedTo
<1>11. by = "compare" => asked.authz # Unset /\ d = "idor-active"
  <2>1. by = "compare" => d = "idor-active"
    BY <1>2 DEF SentBy, Compares
  <2>2. d = "idor-active" => asked.authz # Unset
    BY DEF Enabled
  <2> QED  BY <2>1, <2>2
<1>12. Origins(e)' = Origins(e)
  BY <1>4 DEF Origins, OriginOf
<1>13. request'.http.origin = t.origin
  BY <1>3, <1>5
<1>14. IF request'.by = "scan" THEN session' = used ELSE compare' = used
  BY <1>3, <1>4
<1> HIDE DEF used, e
<1> QED
  BY <1>3, <1>4, <1>5, <1>8, <1>9, <1>10, <1>11, <1>12, <1>13, <1>14
     DEF RequestsStayOnTarget, e

LEMMA TestInvStep ==
  ASSUME OutcomeInv, TestInv, [Next]_vars
  PROVE  TestInv'
<1>1. pages' \in Sites \cup {<<>>}
  BY DEF TestInv, Next, vars, Nothing, CtxIsDone, CheckIdentities, CheckStart, ResolvePolicy,
         LogIn, LogInSecond, NoSecond, BuildExecutor, StartScan, Recon, Detect, FinishScan,
         RefuseTarget, Return, Done
<1>2. CASE Detect
  BY <1>1, <1>2, DetectStaysOnTarget DEF TestInv
<1>3. CASE request = None /\ UNCHANGED request
  BY <1>1, <1>3 DEF TestInv, RequestsStayOnTarget, Sent, None
<1>4. CASE UNCHANGED <<asked, request, session, compare, pages>>
  BY <1>1, <1>4 DEF TestInv, RequestsStayOnTarget, Sent, Origins, OriginOf
<1>5. LogIn \/ LogInSecond \/ Recon => request = None /\ UNCHANGED request
  BY DEF LogIn, LogInSecond, Recon, Is, OutcomeInv
<1>6. \/ CtxIsDone \/ CheckIdentities \/ CheckStart \/ ResolvePolicy \/ NoSecond \/ BuildExecutor
      \/ StartScan \/ FinishScan \/ RefuseTarget \/ Return \/ Done \/ UNCHANGED vars
      => UNCHANGED <<asked, request, session, compare, pages>>
  BY AskedOnce
     DEF vars, Nothing, CtxIsDone, CheckIdentities, CheckStart, ResolvePolicy, NoSecond,
         BuildExecutor, StartScan, FinishScan, RefuseTarget, Return, Done
<1> QED  BY <1>2, <1>3, <1>4, <1>5, <1>6 DEF Next

(* Whatever a site brings back, a detector's request goes to the origin of *)
(* the form or of the page that it tests, at an address that is one of     *)
(* that host's own and in scope; only the host a session was made for gets *)
(* it, and only the comparison of identities uses the second session.      *)
THEOREM TestsStayOnTarget == Spec => []RequestsStayOnTarget
<1>1. Init => TestInv
  BY DEF Init, TestInv, RequestsStayOnTarget, Sent, None
<1>2. OutcomeInv /\ TestInv /\ [Next]_vars => TestInv'
  BY TestInvStep
<1>3. TestInv => RequestsStayOnTarget
  BY DEF TestInv
<1> QED  BY <1>1, <1>2, <1>3, OutcomeInvariant, PTL DEF Spec

-----------------------------------------------------------------------------
(* A fold over a finite set: which element is taken next, what a step      *)
(* keeps, and the recursion that takes one element away.                   *)
Picks(pick, S) == \A s \in SUBSET S : s # {} => pick[s] \in s
Keeps(next, S, V) == \A x \in S, v \in V : next[<<x, v>>] \in V

Folds(g, S, V, base, pick, next) ==
  /\ g \in [SUBSET S -> V]
  /\ g[{}] = base
  /\ \A s \in SUBSET S : s # {} => g[s] = next[<<pick[s], g[s \ {pick[s]}]>>]

(* The recursion has a solution.                                           *)
LEMMA FoldExists ==
  ASSUME NEW S, IsFiniteSet(S), NEW V, NEW base \in V,
         NEW pick, Picks(pick, S), NEW next, Keeps(next, S, V)
  PROVE  \E g : Folds(g, S, V, base, pick, next)
<1> USE DEF Picks, Keeps
<1> DEFINE Upto(n) == {s \in SUBSET S : Cardinality(s) <= n}
           Solves(g, n) == /\ g \in [Upto(n) -> V]
                           /\ g[{}] = base
                           /\ \A s \in Upto(n) :
                                s # {} => g[s] = next[<<pick[s], g[s \ {pick[s]}]>>]
           Bad == {n \in Nat : ~ \E g : Solves(g, n)}
<1>0. \A s \in SUBSET S :
        IsFiniteSet(s) /\ Cardinality(s) \in Nat /\ Cardinality(s) <= Cardinality(S)
  BY FS_Subset, FS_CardinalityType
<1>1. ASSUME Bad # {}  PROVE FALSE
  <2>1. PICK n \in Bad : \A m \in Bad : n <= m
    <3> HIDE DEF Solves
    <3> QED  BY <1>1, LeastNatural
  <2> n \in Nat  OBVIOUS
  <2>2. CASE n = 0
    <3> DEFINE g == [s \in Upto(n) |-> base]
    <3>1. \A s \in Upto(n) : s = {}
      BY <2>2, <1>0, FS_EmptySet
    <3>2. {} \in Upto(n)
      BY <2>2, FS_EmptySet
    <3>3. Solves(g, n)
      BY <3>1, <3>2
    <3> QED  BY <3>3
  <2>3. CASE n # 0
    <3>1. n - 1 \in Nat /\ n - 1 \notin Bad
      <4>1. n - 1 \in Nat /\ ~(n <= n - 1)
        BY <2>3
      <4> HIDE DEF Bad
      <4> QED  BY <4>1, <2>1
    <3>2. PICK g : Solves(g, n - 1)
      BY <3>1
    <3> DEFINE h == [s \in Upto(n) |-> IF s = {} THEN base
                                       ELSE next[<<pick[s], g[s \ {pick[s]}]>>]]
    <3>3. {} \in Upto(n) /\ {} \in Upto(n - 1)
      BY <3>1, FS_EmptySet
    <3>4. \A s \in Upto(n) : s # {} => pick[s] \in S /\ s \ {pick[s]} \in Upto(n - 1)
      <4> SUFFICES ASSUME NEW s \in Upto(n), s # {}
                   PROVE  pick[s] \in S /\ s \ {pick[s]} \in Upto(n - 1)
        OBVIOUS
      <4>1. pick[s] \in s
        OBVIOUS
      <4>2. Cardinality(s \ {pick[s]}) = Cardinality(s) - 1
        BY <4>1, <1>0, FS_RemoveElement
      <4> QED  BY <4>1, <4>2, <1>0
    <3>5. \A s \in Upto(n - 1) : h[s] = g[s]
      <4>1. \A s \in Upto(n - 1) : s \in Upto(n)
        BY <1>0, <3>1
      <4> QED  BY <4>1, <3>2
    <3>6. h \in [Upto(n) -> V]
      BY <3>2, <3>4
    <3>7. \A s \in Upto(n) : s # {} => h[s] = next[<<pick[s], h[s \ {pick[s]}]>>]
      BY <3>4, <3>5
    <3>8. Solves(h, n)
      BY <3>3, <3>6, <3>7
    <3> HIDE DEF h
    <3> QED  BY <3>8
  <2> QED  BY <2>2, <2>3
<1>2. Cardinality(S) \in Nat
  BY FS_CardinalityType
<1>3. PICK g : Solves(g, Cardinality(S))
  BY <1>1, <1>2
<1>4. Upto(Cardinality(S)) = SUBSET S
  BY <1>0
<1> QED  BY <1>3, <1>4 DEF Folds

(* The greatest of some of the first numbers.                              *)
LEMMA GreatestOfSome ==
  ASSUME NEW n \in Nat, NEW s \in SUBSET (1..n), s # {}
  PROVE  Max(s) \in s /\ \A i \in s : i <= Max(s)
<1> DEFINE T == {n - i : i \in s}
<1>1. T \subseteq Nat /\ T # {}
  OBVIOUS
<1>2. PICK t \in T : \A u \in T : t <= u
  <2> HIDE DEF T
  <2> QED  BY <1>1, LeastNatural
<1>3. PICK m \in s : t = n - m
  BY <1>2
<1>4. \A i \in s : m >= i
  <2> TAKE i \in s
  <2>1. n - m <= n - i
    BY <1>2, <1>3
  <2> QED  BY <2>1
<1>5. \E x \in s : \A y \in s : x >= y
  BY <1>4
<1>6. Max(s) \in s /\ \A y \in s : Max(s) >= y
  BY <1>5 DEF Max
<1> QED  BY <1>6

LEMMA LastOfTheFirst ==
  ASSUME NEW i \in Nat \ {0}
  PROVE  Max(1..i) = i /\ (1..i) \ {i} = 1..(i - 1)
<1>1. 1..i \in SUBSET (1..i) /\ 1..i # {} /\ i \in 1..i
  OBVIOUS
<1>2. Max(1..i) \in 1..i /\ \A j \in 1..i : j <= Max(1..i)
  BY <1>1, GreatestOfSome
<1>3. i <= Max(1..i)
  BY <1>1, <1>2
<1> QED  BY <1>2, <1>3

(* A fold over a sequence of which the indices are what is folded.         *)
InARow(g, n, base, next) ==
  g = [s \in SUBSET (1..n) |-> IF s = {} THEN base ELSE next[<<Max(s), g[s \ {Max(s)}]>>]]

LEMMA FoldInARow ==
  ASSUME NEW n \in Nat, NEW V, NEW base \in V, NEW next, Keeps(next, 1..n, V)
  PROVE  \E g \in [SUBSET (1..n) -> V] : InARow(g, n, base, next)
<1> DEFINE D == 1..n
           pick == [s \in SUBSET D |-> Max(s)]
<1>1. IsFiniteSet(D)
  BY FS_Interval
<1>2. Picks(pick, D)
  BY GreatestOfSome DEF Picks
<1>3. PICK g : Folds(g, D, V, base, pick, next)
  <2>1. Keeps(next, D, V)
    OBVIOUS
  <2> HIDE DEF pick, D
  <2> QED  BY <1>1, <1>2, <2>1, FoldExists
<1>4. \A s \in SUBSET D : g[s] = IF s = {} THEN base ELSE next[<<Max(s), g[s \ {Max(s)}]>>]
  <2>1. \A s \in SUBSET D : pick[s] = Max(s)
    OBVIOUS
  <2> HIDE DEF pick, D
  <2> QED  BY <1>3, <2>1 DEF Folds
<1>5. g \in [SUBSET D -> V]
  BY <1>3 DEF Folds
<1>6. InARow(g, n, base, next)
  BY <1>4, <1>5 DEF InARow
<1> QED  BY <1>5, <1>6

(* What holds of a sequence from the start on, step by step, holds at its  *)
(* end.                                                                    *)
LEMMA AlongARow ==
  ASSUME NEW n \in Nat, NEW T, T \subseteq 0..n, 0 \in T,
         \A i \in 1..n : i - 1 \in T => i \in T
  PROVE  n \in T
<1> DEFINE Bad == {i \in 0..n : i \notin T}
<1> SUFFICES ASSUME n \notin T PROVE FALSE
  OBVIOUS
<1>1. Bad \subseteq Nat /\ Bad # {}
  OBVIOUS
<1>2. PICK i \in Bad : \A j \in Bad : i <= j
  <2> HIDE DEF Bad
  <2> QED  BY <1>1, LeastNatural
<1>3. i \in 1..n /\ i - 1 \in 0..n
  BY <1>2
<1>4. i - 1 \notin Bad
  <2>1. ~(i <= i - 1)
    BY <1>3
  <2> HIDE DEF Bad
  <2> QED  BY <1>2, <2>1
<1> QED  BY <1>2, <1>3, <1>4

(* What a loop keeps of a slice, element after element.                    *)
KeptBy(f, q, T) ==
  /\ f[0] = <<>>
  /\ \A i \in 1..Len(q) : f[i] = IF q[i] \in T THEN Append(f[i - 1], q[i]) ELSE f[i - 1]
  /\ f[Len(q)] = Filtered(q, T)

LEMMA FilteredInSteps ==
  ASSUME NEW Q, NEW q \in Seq(Q), NEW T
  PROVE  \E f : KeptBy(f, q, T)
<1> DEFINE V == Seq(Q)
           n == Len(q)
           next == [p \in (1..n) \X V |-> IF q[p[1]] \in T THEN Append(p[2], q[p[1]]) ELSE p[2]]
           Goal(g) == g = [s \in SUBSET DOMAIN q |->
                             IF s = {} THEN <<>>
                             ELSE LET x == Max(s)
                                  IN  IF q[x] \in T THEN Append(g[s \ {x}], q[x])
                                      ELSE g[s \ {x}]]
           Rule(g) == InARow(g, n, <<>>, next)
           iter == CHOOSE g : Goal(g)
<1>0. n \in Nat /\ DOMAIN q = 1..n /\ \A i \in 1..n : q[i] \in Q
  OBVIOUS
<1>1. Filtered(q, T) = iter[DOMAIN q]
  BY DEF Filtered, FoldLeft, MapThenFoldSet
<1>2. Keeps(next, 1..n, V)
  <2>1. \A x \in 1..n, v \in V : Append(v, q[x]) \in V
    BY <1>0
  <2> QED  BY <2>1 DEF Keeps
<1>3. <<>> \in V
  OBVIOUS
<1>4. \E g \in [SUBSET DOMAIN q -> V] : Rule(g)
  <2> HIDE DEF next, V
  <2> QED  BY <1>0, <1>2, <1>3, FoldInARow
<1>5. \A s \in SUBSET DOMAIN q : s # {} => Max(s) \in 1..n /\ s \ {Max(s)} \in SUBSET DOMAIN q
  <2> TAKE s \in SUBSET DOMAIN q
  <2> HAVE s # {}
  <2>1. Max(s) \in s
    BY <1>0, GreatestOfSome
  <2> QED  BY <2>1, <1>0
<1>6. \A g \in [SUBSET DOMAIN q -> V] : Rule(g) => Goal(g)
  <2> SUFFICES ASSUME NEW g \in [SUBSET DOMAIN q -> V], Rule(g) PROVE Goal(g)
    OBVIOUS
  <2>1. ASSUME NEW s \in SUBSET DOMAIN q
        PROVE  g[s] = IF s = {} THEN <<>>
                      ELSE LET x == Max(s)
                           IN  IF q[x] \in T THEN Append(g[s \ {x}], q[x]) ELSE g[s \ {x}]
    <3>1. CASE s = {}
      BY <3>1, <1>0 DEF InARow
    <3>2. CASE s # {}
      <4>1. Max(s) \in 1..n /\ g[s \ {Max(s)}] \in V
        BY <1>5, <3>2
      <4>2. g[s] = next[<<Max(s), g[s \ {Max(s)}]>>]
        BY <3>2, <1>0 DEF InARow
      <4> HIDE DEF Goal, Rule, V
      <4> QED  BY <4>1, <4>2, <3>2
    <3> QED  BY <3>1, <3>2
  <2> HIDE DEF next, V
  <2> QED  BY <2>1
<1>7. Goal(iter)
  <2>1. \E g : Goal(g)
    <3> HIDE DEF Goal, Rule, V, next
    <3> QED  BY <1>4, <1>6
  <2> HIDE DEF Goal
  <2> QED  BY <2>1
<1> HIDE DEF iter
<1> DEFINE f == [i \in 0..n |-> iter[1..i]]
<1>8. f[0] = <<>>
  <2>1. 1..0 = {}
    OBVIOUS
  <2>2. iter[{}] = <<>>
    BY <1>7
  <2> QED  BY <2>1, <2>2, <1>0
<1>9. ASSUME NEW i \in 1..n
      PROVE  f[i] = IF q[i] \in T THEN Append(f[i - 1], q[i]) ELSE f[i - 1]
  <2>1. 1..i \in SUBSET DOMAIN q /\ 1..i # {} /\ i \in 0..n /\ i - 1 \in 0..n
    <3> HIDE DEF n
    <3>1. i \in 1..i /\ i \in 0..n /\ i - 1 \in 0..n /\ 1..i \subseteq 1..n
      BY <1>0
    <3> QED  BY <1>0, <3>1
  <2>2. Max(1..i) = i /\ (1..i) \ {i} = 1..(i - 1)
    <3>1. i \in Nat \ {0}
      BY <1>0
    <3> QED  BY <3>1, LastOfTheFirst
  <2>4. iter[1..i] = IF q[i] \in T THEN Append(iter[1..(i - 1)], q[i]) ELSE iter[1..(i - 1)]
    BY <1>7, <2>1, <2>2
  <2> QED  BY <2>1, <2>4
<1>10. f[n] = Filtered(q, T)
  BY <1>0, <1>1
<1> HIDE DEF f
<1> QED  BY <1>8, <1>9, <1>10 DEF KeptBy

LEMMA FilteredIs ==
  ASSUME NEW Q, NEW q \in Seq(Q), NEW T
  PROVE  Filtered(q, T) \in Seq(Q)
<1> DEFINE n == Len(q)
<1>0. n \in Nat /\ \A i \in 1..n : q[i] \in Q
  OBVIOUS
<1>1. PICK f : KeptBy(f, q, T)
  BY FilteredInSteps
<1> DEFINE Good == {i \in 0..n : f[i] \in Seq(Q)}
<1>2. 0 \in Good
  <2>1. f[0] = <<>> /\ 0 \in 0..n
    BY <1>0, <1>1 DEF KeptBy
  <2>2. <<>> \in Seq(Q)
    OBVIOUS
  <2>3. f[0] \in Seq(Q)
    BY <2>1, <2>2
  <2> QED  BY <2>1, <2>3
<1>3. \A i \in 1..n : i - 1 \in Good => i \in Good
  <2> SUFFICES ASSUME NEW i \in 1..n, i - 1 \in Good PROVE i \in Good
    OBVIOUS
  <2>1. f[i] = IF q[i] \in T THEN Append(f[i - 1], q[i]) ELSE f[i - 1]
    BY <1>1 DEF KeptBy
  <2>2. q[i] \in Q /\ f[i - 1] \in Seq(Q) /\ i \in 0..n
    BY <1>0
  <2>3. Append(f[i - 1], q[i]) \in Seq(Q)
    BY <2>2
  <2> QED  BY <2>1, <2>2, <2>3
<1>4. n \in Good
  <2>1. Good \subseteq 0..n
    OBVIOUS
  <2> HIDE DEF Good
  <2> QED  BY <2>1, <1>0, <1>2, <1>3, AlongARow
<1> QED  BY <1>1, <1>4 DEF KeptBy

(* A slice that is kept up to a place, and no further.                     *)
LEMMA FilteredOfFirst ==
  ASSUME NEW Q, NEW q \in Seq(Q), NEW T, NEW v \in 0..Len(q),
         \A i \in 1..Len(q) : q[i] \in T <=> i <= v
  PROVE  Len(Filtered(q, T)) = v
<1> DEFINE n == Len(q)
<1>0. n \in Nat /\ v \in Nat /\ v <= n /\ \A i \in 1..n : q[i] \in Q
  OBVIOUS
<1>1. PICK f : KeptBy(f, q, T)
  BY FilteredInSteps
<1> DEFINE Good == {i \in 0..n : f[i] \in Seq(Q) /\ Len(f[i]) = IF i <= v THEN i ELSE v}
<1>2. 0 \in Good
  <2>1. f[0] = <<>> /\ 0 <= v /\ 0 \in 0..n
    BY <1>0, <1>1 DEF KeptBy
  <2>2. <<>> \in Seq(Q) /\ Len(<<>>) = 0
    OBVIOUS
  <2>3. f[0] \in Seq(Q) /\ Len(f[0]) = 0
    BY <2>1, <2>2
  <2> QED  BY <2>1, <2>3
<1>3. \A i \in 1..n : i - 1 \in Good => i \in Good
  <2> SUFFICES ASSUME NEW i \in 1..n, i - 1 \in Good PROVE i \in Good
    OBVIOUS
  <2>1. f[i] = IF q[i] \in T THEN Append(f[i - 1], q[i]) ELSE f[i - 1]
    BY <1>1 DEF KeptBy
  <2>2. q[i] \in Q /\ f[i - 1] \in Seq(Q) /\ i \in 0..n /\ i \in Nat /\ i - 1 \in Nat
    BY <1>0
  <2>3. Append(f[i - 1], q[i]) \in Seq(Q) /\ Len(Append(f[i - 1], q[i])) = Len(f[i - 1]) + 1
    BY <2>2
  <2>4. q[i] \in T <=> i <= v
    OBVIOUS
  <2>5. Len(f[i - 1]) = IF i - 1 <= v THEN i - 1 ELSE v
    OBVIOUS
  <2>6. CASE i <= v
    <3>1. i - 1 <= v
      BY <1>0, <2>2, <2>6
    <3>2. f[i] = Append(f[i - 1], q[i]) /\ Len(f[i - 1]) = i - 1
      BY <2>1, <2>4, <2>5, <2>6, <3>1
    <3>3. f[i] \in Seq(Q) /\ Len(f[i]) = i
      <4>1. i - 1 + 1 = i
        BY <2>2
      <4> QED  BY <2>3, <3>2, <4>1
    <3> QED  BY <2>2, <2>6, <3>3
  <2>7. CASE ~(i <= v)
    <3>1. Len(f[i - 1]) = v
      BY <1>0, <2>2, <2>5, <2>7
    <3> QED  BY <2>1, <2>2, <2>4, <2>7, <3>1
  <2> QED  BY <2>6, <2>7
<1>4. n \in Good
  <2>1. Good \subseteq 0..n
    OBVIOUS
  <2> HIDE DEF Good
  <2> QED  BY <2>1, <1>0, <1>2, <1>3, AlongARow
<1>5. Len(f[n]) = v
  BY <1>0, <1>4
<1> QED  BY <1>1, <1>5 DEF KeptBy

(* An order in which no two elements tie, how many stand before an         *)
(* element, and the elements in a row.                                     *)
IsTotal(S, R) ==
  /\ \A x \in S : <<x, x>> \notin R
  /\ \A x, y, z \in S : <<x, y>> \in R /\ <<y, z>> \in R => <<x, z>> \in R
  /\ \A x, y \in S : x = y \/ <<x, y>> \in R \/ <<y, x>> \in R

Place(S, R, x) == Cardinality({y \in S : <<y, x>> \in R})

(* Every place of an order is taken by one element.                        *)
LEMMA PlacesAreTaken ==
  ASSUME NEW S, IsFiniteSet(S), NEW R, IsTotal(S, R)
  PROVE  /\ \A x \in S : Place(S, R, x) \in 0..(Cardinality(S) - 1)
         /\ \A x, y \in S : <<x, y>> \in R => Place(S, R, x) < Place(S, R, y)
         /\ \A i \in 1..Cardinality(S) : \E x \in S : Place(S, R, x) = i - 1
<1> USE DEF IsTotal
<1> DEFINE Below(x) == {y \in S : <<y, x>> \in R}
           place == [x \in S |-> Cardinality(Below(x))]
<1>1. Cardinality(S) \in Nat
  BY FS_CardinalityType
<1>2. \A x \in S : IsFiniteSet(Below(x)) /\ Cardinality(Below(x)) \in Nat
  BY FS_Subset, FS_CardinalityType
<1>3. ASSUME NEW x \in S  PROVE Cardinality(Below(x)) <= Cardinality(S) - 1
  <2>1. /\ IsFiniteSet(S \ {x})
        /\ Cardinality(S \ {x}) = Cardinality(S) - 1
    BY FS_RemoveElement
  <2>2. Below(x) \subseteq S \ {x}
    OBVIOUS
  <2>3. Cardinality(Below(x)) <= Cardinality(S \ {x})
    <3> HIDE DEF Below
    <3> QED  BY <2>1, <2>2, FS_Subset
  <2> QED  BY <2>1, <2>3
<1>4. place \in [S -> 0..(Cardinality(S) - 1)]
  <2>1. place = [x \in S |-> Cardinality(Below(x))]
    OBVIOUS
  <2> HIDE DEF Below
  <2> QED  BY <2>1, <1>1, <1>2, <1>3
<1>5. ASSUME NEW x \in S, NEW y \in S, <<x, y>> \in R
      PROVE  place[x] < place[y]
  <2>1. Below(x) \subseteq Below(y) /\ x \in Below(y) /\ x \notin Below(x)
    BY <1>5
  <2>2. Cardinality(Below(x)) <= Cardinality(Below(y))
    BY <2>1, <1>2, FS_Subset
  <2>3. Cardinality(Below(x)) # Cardinality(Below(y))
    BY <2>1, <1>2, FS_Subset
  <2>4. place[x] = Cardinality(Below(x)) /\ place[y] = Cardinality(Below(y))
    OBVIOUS
  <2> HIDE DEF Below
  <2> QED  BY <2>2, <2>3, <2>4, <1>2
<1>6. \A x, y \in S : place[x] = place[y] => x = y
  <2> SUFFICES ASSUME NEW x \in S, NEW y \in S, place[x] = place[y], x # y
               PROVE  FALSE
    OBVIOUS
  <2>1. <<x, y>> \in R \/ <<y, x>> \in R
    OBVIOUS
  <2>2. place[x] < place[y] \/ place[y] < place[x]
    BY <2>1, <1>5
  <2>3. place[x] \in Int /\ place[y] \in Int
    BY <1>4, <1>1
  <2> QED  BY <2>2, <2>3
<1>7. place \in Injection(S, 0..(Cardinality(S) - 1))
  BY <1>4, <1>6 DEF Injection, IsInjective
<1>8. /\ IsFiniteSet(0..(Cardinality(S) - 1))
      /\ Cardinality(0..(Cardinality(S) - 1)) = Cardinality(S)
  <2>1. 0 \in Int /\ Cardinality(S) - 1 \in Int
    BY <1>1
  <2> HIDE DEF Below
  <2>2. /\ IsFiniteSet(0..(Cardinality(S) - 1))
        /\ Cardinality(0..(Cardinality(S) - 1)) =
             IF 0 > Cardinality(S) - 1 THEN 0 ELSE Cardinality(S) - 1 - 0 + 1
    BY <2>1, FS_Interval
  <2> QED  BY <2>2, <1>1
<1>9. place \in Surjection(S, 0..(Cardinality(S) - 1))
  BY <1>7, <1>8, FS_Injection
<1>10. \A i \in 1..Cardinality(S) : \E x \in S : place[x] = i - 1
  <2>1. \A i \in 1..Cardinality(S) : i - 1 \in 0..(Cardinality(S) - 1)
    BY <1>1
  <2> QED  BY <2>1, <1>9 DEF Surjection
<1>11. \A x \in S : place[x] = Place(S, R, x)
  BY DEF Place
<1> HIDE DEF place
<1> QED  BY <1>4, <1>5, <1>10, <1>11

(* The lesser of two.                                                      *)
LEMMA MinOfTwo ==
  ASSUME NEW a \in Int, NEW b \in Int
  PROVE  /\ Min({a, b}) \in {a, b} /\ Min({a, b}) <= a /\ Min({a, b}) <= b
         /\ Max({a, b}) \in {a, b} /\ {Min({a, b}), Max({a, b})} = {a, b}
<1>1. \E x \in {a, b} : \A y \in {a, b} : x <= y
  OBVIOUS
<1>2. \E x \in {a, b} : \A y \in {a, b} : x >= y
  OBVIOUS
<1>3. Min({a, b}) \in {a, b} /\ \A y \in {a, b} : Min({a, b}) <= y
  BY <1>1 DEF Min
<1>4. Max({a, b}) \in {a, b} /\ \A y \in {a, b} : Max({a, b}) >= y
  BY <1>2 DEF Max
<1> QED  BY <1>3, <1>4

(* A sequence of sequences, in one: it has nothing else than they have.    *)
LEMMA FlatIs ==
  ASSUME NEW V, NEW seqs \in Seq(Seq(V))
  PROVE  FlattenSeq(seqs) \in Seq(V)
<1>1. CASE Len(seqs) = 0
  BY <1>1 DEF FlattenSeq
<1>2. CASE Len(seqs) # 0
  <2> DEFINE n == Len(seqs)
             D == 1..n
             Cat(r, i) == r \o seqs[i]
             next == [p \in D \X Seq(V) |-> Cat(p[2], p[1])]
             Rule(f) == f = [i \in 1..n |-> IF i = 1 THEN seqs[i] ELSE f[i - 1] \o seqs[i]]
             flat == CHOOSE f : Rule(f)
  <2>1. n \in Nat \ {0} /\ DOMAIN seqs = D /\ \A i \in D : seqs[i] \in Seq(V)
    BY <1>2
  <2>2. Keeps(next, D, Seq(V)) /\ <<>> \in Seq(V)
    <3>1. \A x \in D, v \in Seq(V) : Cat(v, x) \in Seq(V)
      BY <2>1
    <3> HIDE DEF Cat
    <3> QED  BY <3>1 DEF Keeps
  <2>3. PICK g \in [SUBSET D -> Seq(V)] : InARow(g, n, <<>>, next)
    <3> HIDE DEF next
    <3> QED  BY <2>1, <2>2, FoldInARow
  <2>4. ASSUME NEW i \in D
        PROVE  /\ g[1..i] \in Seq(V) /\ g[1..(i - 1)] \in Seq(V)
               /\ g[1..i] = g[1..(i - 1)] \o seqs[i]
    <3>1. 1..i \in SUBSET D /\ 1..i # {} /\ 1..(i - 1) \in SUBSET D
      <4> HIDE DEF n
      <4>1. i \in 1..i /\ 1..i \subseteq 1..n /\ 1..(i - 1) \subseteq 1..n
        BY <2>1
      <4> QED  BY <4>1
    <3>2. Max(1..i) = i /\ (1..i) \ {i} = 1..(i - 1)
      <4>1. i \in Nat \ {0}
        BY <2>1
      <4> QED  BY <4>1, LastOfTheFirst
    <3>3. g[1..i] = next[<<i, g[1..(i - 1)]>>]
      <4> HIDE DEF next
      <4> QED  BY <2>3, <3>1, <3>2 DEF InARow
    <3>4. g[1..i] \in Seq(V) /\ g[1..(i - 1)] \in Seq(V)
      BY <2>3, <3>1
    <3> QED  BY <3>3, <3>4
  <2>5. g[{}] = <<>>
    <3>1. {} \in SUBSET (1..n)
      OBVIOUS
    <3> QED  BY <2>3, <3>1 DEF InARow
  <2>6. Rule([i \in D |-> g[1..i]])
    <3> DEFINE h == [i \in D |-> g[1..i]]
    <3>1. ASSUME NEW i \in D  PROVE h[i] = IF i = 1 THEN seqs[i] ELSE h[i - 1] \o seqs[i]
      <4>1. CASE i = 1
        <5>1. 1..0 = {} /\ i - 1 = 0
          BY <4>1
        <5>2. g[1..(i - 1)] = <<>>
          BY <5>1, <2>5
        <5>3. <<>> \o seqs[i] = seqs[i]
          BY <2>1
        <5> QED  BY <4>1, <5>2, <5>3, <2>4
      <4>2. CASE i # 1
        <5>1. i - 1 \in D
          BY <4>2, <2>1
        <5> QED  BY <4>2, <5>1, <2>4
      <4> QED  BY <4>1, <4>2
    <3> DEFINE rhs == [i \in 1..n |-> IF i = 1 THEN seqs[i] ELSE h[i - 1] \o seqs[i]]
    <3>2. DOMAIN h = D /\ DOMAIN rhs = D /\ \A i \in D : h[i] = rhs[i]
      BY <3>1
    <3>3. h = [i \in DOMAIN h |-> h[i]] /\ rhs = [i \in DOMAIN rhs |-> rhs[i]]
      OBVIOUS
    <3>4. h = rhs
      <4> HIDE DEF h, rhs, D
      <4> QED  BY <3>2, <3>3
    <3> QED  BY <3>4 DEF rhs
  <2>7. Rule(flat)
    <3> HIDE DEF Rule
    <3> QED  BY <2>6
  <2>8. FlattenSeq(seqs) = flat[n]
    BY <1>2 DEF FlattenSeq
  <2> HIDE DEF flat
  <2> DEFINE Good == {i \in 0..n : i # 0 => flat[i] \in Seq(V)}
  <2>9. \A i \in 1..n : i - 1 \in Good => i \in Good
    <3> SUFFICES ASSUME NEW i \in 1..n, i - 1 \in Good PROVE i \in Good
      OBVIOUS
    <3>1. seqs[i] \in Seq(V) /\ i \in 0..n
      BY <2>1
    <3>2. CASE i = 1
      <4>1. flat[i] = seqs[i]
        BY <3>2, <2>7
      <4> QED  BY <3>1, <4>1
    <3>3. CASE i # 1
      <4>0. i - 1 # 0 /\ i - 1 \in Nat
        BY <3>3
      <4>1. flat[i] = flat[i - 1] \o seqs[i]
        BY <3>3, <2>7
      <4>2. flat[i - 1] \in Seq(V)
        BY <4>0
      <4>3. flat[i - 1] \o seqs[i] \in Seq(V)
        BY <3>1, <4>2
      <4> QED  BY <3>1, <4>1, <4>3
    <3> QED  BY <3>2, <3>3
  <2>10. n \in Good
    <3>1. 0 \in Good /\ Good \subseteq 0..n
      BY <2>1
    <3> HIDE DEF Good
    <3> QED  BY <2>1, <2>9, <3>1, AlongARow
  <2> QED  BY <2>1, <2>8, <2>10
<1> QED  BY <1>1, <1>2

LEMMA ImageIsFinite ==
  ASSUME NEW S, IsFiniteSet(S), NEW f, DOMAIN f = S
  PROVE  IsFiniteSet({f[x] : x \in S})
<1> DEFINE T == {f[x] : x \in S}
           g == [x \in S |-> f[x]]
<1>1. g \in Surjection(S, T)
  BY DEF Surjection
<1> HIDE DEF g, T
<1>2. IsFiniteSet(T)
  BY <1>1, FS_Surjection
<1> QED  BY <1>2 DEF T

LEMMA RangeIsFinite ==
  ASSUME NEW Q, NEW s \in Seq(Q)
  PROVE  IsFiniteSet(Range(s))
<1>1. DOMAIN s = 1..Len(s) /\ Len(s) \in Nat
  OBVIOUS
<1>2. IsFiniteSet(DOMAIN s)
  BY <1>1, FS_Interval
<1>3. IsFiniteSet({s[i] : i \in DOMAIN s})
  BY <1>2, ImageIsFinite
<1> QED  BY <1>3 DEF Range

LEMMA EndpointsAreFinite ==
  ASSUME NEW ps, ps \in Seq(Range(ps)), \A p \in Range(ps) : IsFiniteSet(PageEndpoints(p))
  PROVE  IsFiniteSet(Endpoints(ps))
<1> DEFINE S == Range(ps)
           f == [p \in S |-> PageEndpoints(p)]
<1>1. IsFiniteSet(S) /\ DOMAIN f = S /\ \A p \in S : f[p] = PageEndpoints(p)
  BY RangeIsFinite
<1>2. Endpoints(ps) = UNION {f[p] : p \in S}
  BY DEF Endpoints
<1> HIDE DEF f, S
<1>3. IsFiniteSet({f[p] : p \in S})
  BY <1>1, ImageIsFinite
<1>4. \A T \in {f[p] : p \in S} : IsFiniteSet(T)
  BY <1>1 DEF S
<1> QED  BY <1>2, <1>3, <1>4, FS_UNION

(* A page has what it has in slices.                                       *)
LEMMA PageEndpointsAreFinite ==
  ASSUME NEW p, p.links \in Seq(Range(p.links)), p.forms \in Seq(Range(p.forms)),
         p.scripts \in Seq(Range(p.scripts))
  PROVE  IsFiniteSet(PageEndpoints(p))
<1> DEFINE L == Range(p.links)
           F == Range(p.forms)
           J == Range(p.scripts)
           l == [x \in L |-> Endpoint(x, "GET", "link")]
           f == [x \in F |-> Endpoint(x.action, x.method, "form")]
           j == [x \in J |-> Endpoint(x, "GET", "javascript")]
           A == {Endpoint(p.url, "GET", "crawl")}
           B == {l[x] : x \in L}
           C == {f[x] : x \in F}
           D == {j[x] : x \in J}
<1>1. IsFiniteSet(L) /\ IsFiniteSet(F) /\ IsFiniteSet(J)
  BY RangeIsFinite
<1>2. PageEndpoints(p) = ((A \cup B) \cup C) \cup D
  BY DEF PageEndpoints
<1>3. DOMAIN l = L /\ DOMAIN f = F /\ DOMAIN j = J
  OBVIOUS
<1>4. IsFiniteSet(A)
  BY FS_Singleton
<1> HIDE DEF L, F, J, l, f, j, A
<1>5. IsFiniteSet(B) /\ IsFiniteSet(C) /\ IsFiniteSet(D)
  BY <1>1, <1>3, ImageIsFinite
<1> HIDE DEF B, C, D
<1>6. IsFiniteSet(A \cup B)
  BY <1>4, <1>5, FS_Union
<1>7. IsFiniteSet((A \cup B) \cup C)
  BY <1>5, <1>6, FS_Union
<1>8. IsFiniteSet(((A \cup B) \cup C) \cup D)
  BY <1>5, <1>7, FS_Union
<1> QED  BY <1>2, <1>8

LEMMA InOneRow ==
  ASSUME NEW S, IsFiniteSet(S)
  PROVE  Range(SetToSeq(S)) \subseteq S
<1> DEFINE n == Cardinality(S)
<1>1. ExistsBijection(1..n, S)
  BY FS_CardinalityType
<1>2. \E f \in [1..n -> S] : IsInjective(f)
  BY <1>1 DEF ExistsBijection, Bijection, Injection, IsInjective
<1> HIDE DEF n
<1>3. (CHOOSE f \in [1..n -> S] : IsInjective(f)) \in [1..n -> S]
  BY <1>2
<1>4. SetToSeq(S) \in [1..n -> S]
  BY <1>3 DEF SetToSeq, n
<1> QED  BY <1>4 DEF Range

-----------------------------------------------------------------------------
(* What is stored of a site's queries and paths.  The name of an input in  *)
(* a query is one of the names in its endpoint's query, but for a form,    *)
(* whose fields are elsewhere, and an endpoint that lost its query.        *)
InQuery(c) ==
  LocationOf(c) = "query" /\ ~IsForm(c.endpoint) /\ c.endpoint.at.query # {} =>
    NameOf(c) \in c.endpoint.at.query

Asked(E) == {c \in [endpoint : E, input : {"query", "form"} \X Nat] : InQuery(c)}

LEMMA AscendingAre ==
  ASSUME NEW S, S \subseteq Nat, IsFiniteSet(S)
  PROVE  /\ Cardinality(S) \in Nat /\ DOMAIN Ascending(S) = 1..Cardinality(S)
         /\ \A i \in 1..Cardinality(S) : Ascending(S)[i] \in S
<1> DEFINE R == {p \in S \X S : p[1] < p[2]}
           At(i) == CHOOSE x \in S : Cardinality({y \in S : y < x}) = i - 1
<1>1. IsTotal(S, R)
  BY DEF IsTotal
<1>2. \A x \in S : Place(S, R, x) = Cardinality({y \in S : y < x})
  <2> TAKE x \in S
  <2>1. {y \in S : <<y, x>> \in R} = {y \in S : y < x}
    OBVIOUS
  <2> QED  BY <2>1 DEF Place
<1>3. \A i \in 1..Cardinality(S) : \E x \in S : Cardinality({y \in S : y < x}) = i - 1
  <2> HIDE DEF R
  <2>1. \A i \in 1..Cardinality(S) : \E x \in S : Place(S, R, x) = i - 1
    BY <1>1, PlacesAreTaken
  <2> QED  BY <1>2, <2>1
<1>4. \A i \in 1..Cardinality(S) : At(i) \in S
  BY <1>3
<1>5. Ascending(S) = [i \in 1..Cardinality(S) |-> At(i)]
  BY DEF Ascending, Sorted
<1>6. Cardinality(S) \in Nat
  BY FS_CardinalityType
<1> HIDE DEF At
<1> QED  BY <1>4, <1>5, <1>6

LEMMA QueryIsAsked ==
  ASSUME NEW u, IsAddress(u), NEW source, source # "form",
         NEW E, Endpoint(u, "GET", source) \in E
  PROVE  QueryCandidates(u, source) \in Seq(Asked(E))
<1> DEFINE n == Cardinality(u.query)
           names == Ascending(u.query)
           e == Endpoint(u, "GET", source)
<1>0. u.query \subseteq Nat /\ IsFiniteSet(u.query)
  BY DEF IsAddress
<1>1. n \in Nat /\ DOMAIN names = 1..n /\ \A i \in 1..n : names[i] \in u.query
  BY <1>0, AscendingAre
<1>2. e.at = PathOf(u) /\ ~IsForm(e) /\ e \in E
  BY DEF Endpoint, IsForm
<1>3. PathOf(u).query # {} => PathOf(u).query = u.query
  BY DEF PathOf
<1>4. QueryCandidates(u, source) = [i \in DOMAIN names |-> Candidate(e, "query", names[i])]
  BY DEF QueryCandidates
<1> HIDE DEF names, e, n
<1>5. \A i \in 1..n : Candidate(e, "query", names[i]) \in Asked(E)
  <2> TAKE i \in 1..n
  <2>1. names[i] \in Nat /\ names[i] \in u.query
    BY <1>0, <1>1
  <2> DEFINE c == Candidate(e, "query", names[i])
  <2>2. c.endpoint = e /\ LocationOf(c) = "query" /\ NameOf(c) = names[i]
    BY DEF Candidate, LocationOf, NameOf
  <2>3. c \in [endpoint : E, input : {"query", "form"} \X Nat]
    BY <1>2, <2>1 DEF Candidate
  <2> HIDE DEF c
  <2>4. InQuery(c)
    BY <1>2, <1>3, <2>1, <2>2 DEF InQuery
  <2> QED  BY <2>3, <2>4 DEF Asked, c
<1>6. [i \in 1..n |-> Candidate(e, "query", names[i])] \in Seq(Asked(E))
  <2> HIDE DEF Candidate
  <2> QED  BY <1>1, <1>5
<1> QED  BY <1>1, <1>4, <1>6

LEMMA FormFieldsIs == FormFields \in Nat
BY InputsAssumption DEF FormFields, OrDefault

LEMMA FormIsAsked ==
  ASSUME NEW f, f.fields \in Seq(Nat), NEW E, Endpoint(f.action, f.method, "form") \in E
  PROVE  FormCandidates(f) \in Seq(Asked(E))
<1> DEFINE s == f.fields
           m == Min({FormFields, Len(s)})
           T == Range(s) \ {Unnamed}
           q == SubSeq(s, 1, m)
           e == Endpoint(f.action, f.method, "form")
           loc == IF f.method = "GET" THEN "query" ELSE "form"
           names == FieldsOf(f)
<1>1. s \in Seq(Nat) /\ Len(s) \in Nat /\ FormFields \in Nat
  BY FormFieldsIs
<1>2. m \in {FormFields, Len(s)} /\ m <= Len(s)
  <2>1. Len(s) \in Int /\ FormFields \in Int
    BY <1>1
  <2> HIDE DEF s
  <2> QED  BY <2>1, MinOfTwo
<1>3. names = Filtered(q, T)
  BY DEF FieldsOf
<1>4. IsForm(e) /\ e \in E /\ loc \in {"query", "form"}
  BY DEF Endpoint, IsForm
<1>5. FormCandidates(f) = [i \in DOMAIN names |-> Candidate(e, loc, names[i])]
  BY DEF FormCandidates
<1> HIDE DEF m, T, s, e, loc, names
<1>6. m \in Nat /\ q \in Seq(Nat)
  BY <1>1, <1>2
<1> HIDE DEF q
<1>7. names \in Seq(Nat)
  BY <1>3, <1>6, FilteredIs
<1>8. DOMAIN names = 1..Len(names) /\ Len(names) \in Nat /\ \A i \in 1..Len(names) : names[i] \in Nat
  BY <1>7
<1>9. \A i \in 1..Len(names) : Candidate(e, loc, names[i]) \in Asked(E)
  <2> TAKE i \in 1..Len(names)
  <2> DEFINE c == Candidate(e, loc, names[i])
  <2>1. c.endpoint = e /\ c \in [endpoint : E, input : {"query", "form"} \X Nat]
    BY <1>4, <1>8 DEF Candidate
  <2> HIDE DEF c
  <2>2. InQuery(c)
    BY <1>4, <2>1 DEF InQuery
  <2> QED  BY <2>1, <2>2 DEF Asked, c
<1>10. [i \in 1..Len(names) |-> Candidate(e, loc, names[i])] \in Seq(Asked(E))
  <2> HIDE DEF Candidate
  <2> QED  BY <1>8, <1>9
<1> QED  BY <1>5, <1>8, <1>10

(* A page's links and forms.                                               *)
IsPageOf(page) ==
  /\ IsAddress(page.url) /\ IsLinks(page.links) /\ IsForms(page.forms) /\ IsLinks(page.scripts)
  /\ page.json \subseteq Seq(Nat) /\ IsFiniteSet(page.json)

LEMMA InIt ==
  ASSUME NEW s, s \in Seq(Range(s))
  PROVE  /\ Len(s) \in Nat /\ DOMAIN s = 1..Len(s)
         /\ \A i \in DOMAIN s : s[i] \in Range(s)
BY DEF Range

LEMMA PageIsAsked ==
  ASSUME NEW p, IsPageOf(p), NEW E, PageEndpoints(p) \subseteq E
  PROVE  PageCandidates(p) \in Seq(Asked(E))
<1> DEFINE own == QueryCandidates(p.url, "crawl")
           ofLinks == [i \in DOMAIN p.links |-> QueryCandidates(p.links[i], "link")]
           ofForms == [i \in DOMAIN p.forms |-> FormCandidates(p.forms[i])]
           V == Asked(E)
<1>1. /\ p.links \in Seq(Range(p.links)) /\ p.forms \in Seq(Range(p.forms))
      /\ \A l \in Range(p.links) : IsAddress(l)
      /\ \A f \in Range(p.forms) : f.fields \in Seq(Nat)
      /\ IsAddress(p.url)
  BY DEF IsPageOf, IsLinks, IsForms
<1>2. /\ DOMAIN p.links = 1..Len(p.links) /\ Len(p.links) \in Nat
      /\ DOMAIN p.forms = 1..Len(p.forms) /\ Len(p.forms) \in Nat
      /\ \A i \in DOMAIN p.links : p.links[i] \in Range(p.links)
      /\ \A i \in DOMAIN p.forms : p.forms[i] \in Range(p.forms)
  BY <1>1, InIt
<1>3. /\ Endpoint(p.url, "GET", "crawl") \in E
      /\ \A l \in Range(p.links) : Endpoint(l, "GET", "link") \in E
      /\ \A f \in Range(p.forms) : Endpoint(f.action, f.method, "form") \in E
  BY DEF PageEndpoints
<1>4. own \in Seq(V)
  <2>1. "crawl" # "form"
    OBVIOUS
  <2> QED  BY <1>1, <1>3, <2>1, QueryIsAsked
<1>5. \A l \in Range(p.links) : QueryCandidates(l, "link") \in Seq(V)
  <2>1. "link" # "form"
    OBVIOUS
  <2> QED  BY <1>1, <1>3, <2>1, QueryIsAsked
<1>6. \A f \in Range(p.forms) : FormCandidates(f) \in Seq(V)
  BY <1>1, <1>3, FormIsAsked
<1>7. ofLinks \in Seq(Seq(V)) /\ ofForms \in Seq(Seq(V))
  <2> HIDE DEF V
  <2>1. ofLinks \in [1..Len(p.links) -> Seq(V)]
    BY <1>2, <1>5
  <2>2. ofForms \in [1..Len(p.forms) -> Seq(V)]
    BY <1>2, <1>6
  <2> QED  BY <1>2, <2>1, <2>2
<1>8. PageCandidates(p) = (own \o FlattenSeq(ofLinks)) \o FlattenSeq(ofForms)
  BY DEF PageCandidates
<1> HIDE DEF own, ofLinks, ofForms, V
<1>9. FlattenSeq(ofLinks) \in Seq(V) /\ FlattenSeq(ofForms) \in Seq(V)
  BY <1>7, FlatIs
<1>10. own \o FlattenSeq(ofLinks) \in Seq(V)
  BY <1>4, <1>9
<1>11. (own \o FlattenSeq(ofLinks)) \o FlattenSeq(ofForms) \in Seq(V)
  BY <1>9, <1>10
<1> QED  BY <1>8, <1>11 DEF V

(* What a response has in it is told apart from what a request may have.   *)
LEMMA BodyIsAnswered ==
  ASSUME NEW p, IsPageOf(p)
  PROVE  /\ BodyCandidates(p) \in Seq(Range(BodyCandidates(p)))
         /\ \A c \in Range(BodyCandidates(p)) : LocationOf(c) = "json"
<1> DEFINE N == JSONNames(p.json)
           keys == Sorted(N, KeyBefore)
           e == Endpoint(p.url, "GET", "crawl")
           n == Cardinality(N)
           s == BodyCandidates(p)
<1>1. n \in Nat
  <2>1. N \subseteq p.json /\ IsFiniteSet(p.json)
    BY DEF JSONNames, Shallow, IsPageOf
  <2> HIDE DEF N
  <2>2. IsFiniteSet(N)
    BY <2>1, FS_Subset
  <2> QED  BY <2>2, FS_CardinalityType
<1>2. DOMAIN keys = 1..n
  BY DEF Sorted
<1>3. s = [i \in DOMAIN keys |-> Candidate(e, "json", keys[i])]
  BY DEF BodyCandidates
<1> HIDE DEF n, keys, e, N, s
<1>4. DOMAIN s = 1..n /\ \A i \in 1..n : s[i] = Candidate(e, "json", keys[i])
  BY <1>2, <1>3
<1>5. \A i \in 1..n : s[i] \in Range(s)
  BY <1>4 DEF Range
<1>6. s = [i \in 1..n |-> s[i]]
  BY <1>2, <1>3, <1>4
<1>7. s \in Seq(Range(s))
  BY <1>1, <1>5, <1>6
<1>8. \A c \in Range(s) : LocationOf(c) = "json"
  BY <1>4 DEF Range, Candidate, LocationOf
<1> QED  BY <1>7, <1>8 DEF s


(* Of everything that is discovered: a query's names are in the query, and *)
(* a path's are of endpoints whose path has an input.                      *)
LEMMA DiscoveredIs ==
  ASSUME NEW ps, IsSite(ps), NEW c \in Discovered(ps)
  PROVE  /\ InQuery(c)
         /\ LocationOf(c) = "path" => IsPathInput(Endpoints(ps), c.endpoint)
<1> DEFINE E == Endpoints(ps)
           ofPages == [i \in DOMAIN ps |-> PageCandidates(ps[i])]
           bodies == [i \in DOMAIN ps |-> BodyCandidates(ps[i])]
           W == UNION {Range(BodyCandidates(p)) : p \in Range(ps)}
           P == PathCandidates(E)
           row == SetToSeq(P)
<1>1. ps \in Seq(Range(ps)) /\ \A p \in Range(ps) : IsPageOf(p)
  BY DEF IsSite, IsPageOf
<1>2. /\ DOMAIN ps = 1..Len(ps) /\ Len(ps) \in Nat
      /\ \A i \in DOMAIN ps : ps[i] \in Range(ps)
  BY <1>1, InIt
<1>3. \A p \in Range(ps) : PageCandidates(p) \in Seq(Asked(E))
  <2> TAKE p \in Range(ps)
  <2>1. PageEndpoints(p) \subseteq E
    BY DEF Endpoints
  <2> HIDE DEF E
  <2> QED  BY <1>1, <2>1, PageIsAsked
<1>4. \A p \in Range(ps) : BodyCandidates(p) \in Seq(W)
  <2> TAKE p \in Range(ps)
  <2>1. BodyCandidates(p) \in Seq(Range(BodyCandidates(p)))
    BY <1>1, BodyIsAnswered
  <2>2. Range(BodyCandidates(p)) \subseteq W
    OBVIOUS
  <2> HIDE DEF W
  <2> QED  BY <2>1, <2>2
<1>5. \A w \in W : LocationOf(w) = "json"
  BY <1>1, BodyIsAnswered
<1>6. IsFiniteSet(P)
  <2>1. \A p \in Range(ps) : IsFiniteSet(PageEndpoints(p))
    BY <1>1, PageEndpointsAreFinite DEF IsPageOf, IsLinks, IsForms
  <2>2. IsFiniteSet(E)
    BY <1>1, <2>1, EndpointsAreFinite
  <2> DEFINE S == {e \in E : IsPathInput(E, e)}
             f == [e \in S |-> Candidate(e, "path", PathInputName(E, e))]
  <2>3. P = {f[e] : e \in S}
    BY DEF PathCandidates
  <2>4. IsFiniteSet(S)
    <3>1. S \subseteq E
      OBVIOUS
    <3> HIDE DEF S, E
    <3> QED  BY <2>2, <3>1, FS_Subset
  <2>5. DOMAIN f = S
    OBVIOUS
  <2> HIDE DEF f, S, E, P
  <2> QED  BY <2>3, <2>4, <2>5, ImageIsFinite
<1>7. RequestCandidates(ps) = FlattenSeq(ofPages) /\ ResponseCandidates(ps) = FlattenSeq(bodies)
  BY DEF RequestCandidates, ResponseCandidates
<1>8. ofPages \in Seq(Seq(Asked(E))) /\ bodies \in Seq(Seq(W))
  <2> HIDE DEF E, W
  <2>1. ofPages \in [1..Len(ps) -> Seq(Asked(E))]
    BY <1>2, <1>3
  <2>2. bodies \in [1..Len(ps) -> Seq(W)]
    BY <1>2, <1>4
  <2> QED  BY <1>2, <2>1, <2>2
<1> HIDE DEF ofPages, bodies, W
<1>9. RequestCandidates(ps) \in Seq(Asked(E)) /\ ResponseCandidates(ps) \in Seq(W)
  BY <1>7, <1>8, FlatIs
<1>10. Range(RequestCandidates(ps)) \subseteq Asked(E) /\ Range(ResponseCandidates(ps)) \subseteq W
  <2> HIDE DEF E
  <2> QED  BY <1>9 DEF Range
<1>11. Range(row) \subseteq P
  <2> HIDE DEF P
  <2> QED  BY <1>6, InOneRow
<1>12. PICK cs \in {RequestCandidates(ps), ResponseCandidates(ps), row} : c \in Kept(cs)
  BY DEF Discovered, Passes
<1>13. c \in Range(cs)
  BY <1>12 DEF Kept, FirstsOf
<1>14. CASE cs = RequestCandidates(ps)
  <2>1. c \in Asked(E)
    BY <1>10, <1>13, <1>14
  <2>2. InQuery(c) /\ LocationOf(c) \in {"query", "form"}
    BY <2>1 DEF Asked, LocationOf
  <2> QED  BY <2>2
<1>15. CASE cs = ResponseCandidates(ps)
  <2>1. LocationOf(c) = "json"
    BY <1>5, <1>10, <1>13, <1>15
  <2> QED  BY <2>1 DEF InQuery
<1>16. CASE cs = row
  <2>1. PICK e \in {f \in E : IsPathInput(E, f)} : c = Candidate(e, "path", PathInputName(E, e))
    BY <1>11, <1>13, <1>16 DEF PathCandidates
  <2>2. LocationOf(c) = "path" /\ c.endpoint = e
    BY <2>1 DEF Candidate, LocationOf
  <2> QED  BY <2>1, <2>2 DEF InQuery
<1> QED  BY <1>12, <1>14, <1>15, <1>16

LEMMA PathIsASlice ==
  ASSUME NEW ps, IsSite(ps), NEW e \in Endpoints(ps)
  PROVE  e.at.path \in Seq(Range(e.at.path))
<1>1. PICK p \in Range(ps) : e \in PageEndpoints(p)
  BY DEF Endpoints
<1>2. IsPageOf(p)
  BY DEF IsSite, IsPageOf
<1>u. /\ IsAddress(p.url)
      /\ \A l \in Range(p.links) \cup Range(p.scripts) : IsAddress(l)
      /\ \A f \in Range(p.forms) : IsAddress(f.action)
  BY <1>2 DEF IsPageOf, IsLinks, IsForms
<1>3. PICK u : IsAddress(u) /\ e.at = PathOf(u)
  <2>1. PICK u, m, source :
          /\ e = Endpoint(u, m, source)
          /\ u \in {p.url} \cup Range(p.links) \cup Range(p.scripts)
                   \cup {f.action : f \in Range(p.forms)}
    BY <1>1 DEF PageEndpoints
  <2>2. IsAddress(u)
    BY <1>u, <2>1
  <2>3. e.at = PathOf(u)
    BY <2>1 DEF Endpoint
  <2> QED  BY <2>2, <2>3
<1>4. CASE u.path = <<>>
  <2>1. e.at.path = <<Blank>>
    BY <1>3, <1>4 DEF PathOf
  <2>2. Blank \in Range(<<Blank>>)
    BY DEF Range
  <2> QED  BY <2>1, <2>2
<1>5. CASE u.path # <<>>
  <2>1. e.at.path = u.path
    BY <1>3, <1>5 DEF PathOf
  <2> QED  BY <1>3, <2>1 DEF IsAddress
<1> QED  BY <1>4, <1>5

LEMMA MethodIsGiven ==
  ASSUME NEW ps, IsSite(ps), NEW e \in Endpoints(ps)
  PROVE  e.method # ""
<1>1. PICK p \in Range(ps) : e \in PageEndpoints(p)
  BY DEF Endpoints
<1>2. \A f \in Range(p.forms) : f.method # ""
  BY DEF IsSite, IsForms
<1>3. PICK u, m, source :
        e = Endpoint(u, m, source) /\ m \in {"GET"} \cup {f.method : f \in Range(p.forms)}
  BY <1>1 DEF PageEndpoints
<1>4. e.method = m
  BY <1>3 DEF Endpoint
<1>5. m # ""
  BY <1>2, <1>3
<1> QED  BY <1>4, <1>5

(* Where no empty segment is before another one, the last that is counted  *)
(* is the last there is.                                                   *)
LEMMA VaryingIsLast ==
  ASSUME NEW path, path \in Seq(Range(path)), Plain(path),
         NEW kept, kept = Filtered(path, Range(path) \ {Blank}), Len(kept) >= 1
  PROVE  VaryingSegment(path) \in DOMAIN path /\ VaryingSegment(path) = Len(kept)
<1> DEFINE K == {i \in DOMAIN path : path[i] # Blank}
           T == Range(path) \ {Blank}
           n == Len(path)
           Q == Range(path)
<1>1. n \in Nat /\ DOMAIN path = 1..n /\ \A i \in DOMAIN path : path[i] \in Range(path)
  BY InIt
<1>2. \A i \in 1..n : path[i] \in T <=> i \in K
  BY <1>1
<1>3. VaryingSegment(path) = Max(K)
  BY DEF VaryingSegment
<1>4. \A i \in 1..n : path[i] = Blank => i > Max(K)
  BY <1>1, <1>3 DEF Plain
<1>5. path \in Seq(Q) /\ kept = Filtered(path, T)
  OBVIOUS
<1>6. K \in SUBSET (1..n)
  BY <1>1
<1>7. CASE K = {}
  <2>1. 0 \in 0..n
    BY <1>1
  <2>2. \A i \in 1..n : path[i] \in T <=> i <= 0
    BY <1>1, <1>2, <1>7
  <2> HIDE DEF K, T, Q
  <2>3. Len(kept) = 0
    BY <1>5, <2>1, <2>2, FilteredOfFirst
  <2> QED  BY <2>3
<1>8. CASE K # {}
  <2> DEFINE v == Max(K)
  <2>1. v \in K /\ \A i \in K : i <= v
    <3> HIDE DEF K
    <3> QED  BY <1>1, <1>6, <1>8, GreatestOfSome
  <2>2. v \in 1..n /\ v \in 0..n
    BY <1>1, <1>6, <2>1
  <2>3. \A i \in 1..n : i \in K <=> i <= v
    <3> TAKE i \in 1..n
    <3>1. i \in K => i <= v
      BY <2>1
    <3>2. i <= v => path[i] # Blank
      <4> HIDE DEF K
      <4>1. path[i] = Blank => i > v
        BY <1>4
      <4> QED  BY <4>1, <2>2
    <3>3. path[i] # Blank => i \in K
      BY <1>1
    <3> QED  BY <3>1, <3>2, <3>3
  <2>4. \A i \in 1..n : path[i] \in T <=> i <= v
    BY <1>2, <2>3
  <2> HIDE DEF K, T, Q, v
  <2>5. Len(kept) = v
    BY <1>5, <2>2, <2>4, FilteredOfFirst
  <2> QED  BY <1>1, <1>3, <2>2, <2>5 DEF v
<1> QED  BY <1>7, <1>8

(* Nor does such a path begin with two slashes, when a segment is counted. *)
LEMMA PlainIsStable ==
  ASSUME NEW path, path \in Seq(Range(path)), Plain(path), Len(NotBlank(ReadBack(path))) >= 1
  PROVE  Stable(path)
<1> DEFINE K == {i \in DOMAIN path : path[i] # Blank}
           n == Len(path)
<1>1. n \in Nat /\ DOMAIN path = 1..n /\ \A i \in DOMAIN path : path[i] \in Range(path)
  BY InIt
<1>2. SUFFICES ASSUME BehindTwoSlashes(path) PROVE FALSE
  BY DEF Stable, ReadBack
<1>3. n > 1 /\ path[1] = Blank /\ (n > 2 => path[2] # Blank)
  BY <1>2 DEF BehindTwoSlashes
<1>4. CASE n > 2
  <2>1. 2 \in K
    BY <1>1, <1>3, <1>4
  <2>2. K \in SUBSET (1..n)
    BY <1>1
  <2> HIDE DEF K
  <2>3. Max(K) \in K /\ 2 <= Max(K)
    BY <1>1, <2>1, <2>2, GreatestOfSome
  <2>4. 1 \in DOMAIN path
    BY <1>1, <1>4
  <2>5. 1 > Max(K)
    BY <1>3, <2>4 DEF Plain, VaryingSegment, K
  <2> DEFINE v == Max(K)
  <2>6. v \in 1..n /\ 2 <= v /\ 1 > v
    BY <2>2, <2>3, <2>5
  <2> HIDE DEF v
  <2> QED  BY <1>1, <2>6
<1>5. CASE n <= 2
  <2> DEFINE rest == ReadBack(path)
             T == Range(rest) \ {Blank}
  <2>1. n = 2
    BY <1>1, <1>3, <1>5
  <2>2. rest = SubSeq(path, 3, 2)
    BY <1>2, <2>1 DEF ReadBack
  <2>3. rest = <<>>
    BY <2>2
  <2>4. /\ Len(rest) = 0 /\ 0 \in 0..Len(rest)
        /\ rest \in Seq(Range(rest))
        /\ \A i \in 1..Len(rest) : rest[i] \in T <=> i <= 0
    BY <2>3
  <2>5. NotBlank(rest) = Filtered(rest, T)
    BY DEF NotBlank
  <2> HIDE DEF rest, T
  <2>6. Len(NotBlank(rest)) = 0
    BY <2>4, <2>5, FilteredOfFirst
  <2> QED  BY <2>6 DEF rest
<1> QED  BY <1>1, <1>4, <1>5

-----------------------------------------------------------------------------
(* What a target is, by where the input it tests is.                       *)
AsksQuery(site, t) ==
  LET names == NamesAt(site, t.endpoint, "query") IN
  /\ LocationOf(t) = "query" /\ NameOf(t) \in names
  /\ t.fields = (IF IsForm(t.endpoint) THEN names ELSE {})
  /\ IsForm(t.endpoint) => NameOf(t) \notin Tokens

AsksForm(site, t) ==
  /\ LocationOf(t) = "form" /\ NameOf(t) \in t.fields \ Tokens
  /\ t.fields = NamesAt(site, t.endpoint, "form")

AsksPath(site, t) ==
  /\ LocationOf(t) = "path" /\ NameOf(t) \in NamesAt(site, t.endpoint, "path")
  /\ t.index = PathSegmentIndex(t.endpoint)

(* Nothing is asked that was only seen in a response.                      *)
LEMMA NothingAnsweredIsAsked ==
  ASSUME NEW site, NEW e
  PROVE  NamesAt(site, e, "json") = {}
<1>1. \A d : LocationOf(d) = "json" => Provenance(d) # "REQUEST_INPUT"
  BY DEF Provenance
<1> QED  BY <1>1 DEF NamesAt

LEMMA InputIs ==
  ASSUME NEW t, NEW location, NEW name, t.input = <<location, name>>
  PROVE  LocationOf(t) = location /\ NameOf(t) = name
BY DEF LocationOf, NameOf

LEMMA TargetAsks ==
  ASSUME NEW site, NEW t \in BuildTargets(Service, site), LocationOf(t) # ""
  PROVE  /\ t.endpoint \in Endpoints(site)
         /\ t.path = ReadBack(t.endpoint.at.path) /\ t.query = t.endpoint.at.query
         /\ t.method = t.endpoint.method
         /\ AsksQuery(site, t) \/ AsksForm(site, t) \/ AsksPath(site, t)
<1>1. t # ServiceTarget(Service)
  <2>1. LocationOf(ServiceTarget(Service)) = ""
    BY DEF ServiceTarget, LocationOf
  <2> QED  BY <2>1
<1>2. PICK e \in Endpoints(site) : t \in EndpointTargets(Service, site, e)
  BY <1>1 DEF BuildTargets
<1> DEFINE root == EndpointTarget(Service, site, e)
           from == ServiceTarget(Service)
           path == ReadBack(e.at.path)
           Asks(u, loc, n, F, k) ==
             /\ u.endpoint = e /\ u.method = e.method /\ u.path = path /\ u.query = e.at.query
             /\ LocationOf(u) = loc /\ NameOf(u) = n /\ u.fields = F /\ u.index = k
<1>s. /\ from = [x \in DOMAIN from |-> from[x]]
      /\ {"kind", "endpoint", "path", "query", "method", "origin", "ip", "input", "index", "fields"}
           \subseteq DOMAIN from
      /\ from.input = <<"", Unnamed>> /\ from.fields = {} /\ from.index = 0
  BY DEF ServiceTarget
<1>r. root = [from EXCEPT
     !.kind = "endpoint", !.endpoint = e, !.method = e.method,
     !.path = ReadBack(e.at.path), !.query = e.at.query,
     !.origin = IF Rerouted(Service, site, e) THEN ActionOrigin(site, e) ELSE @,
     !.ip = IF Rerouted(Service, site, e) THEN NoAddress ELSE @]
  BY DEF EndpointTarget
<1> HIDE DEF from
<1>3. /\ root.endpoint = e /\ root.method = e.method
      /\ root.path = path /\ root.query = e.at.query
      /\ root.input = from.input /\ root.fields = from.fields /\ root.index = from.index
      /\ DOMAIN root = DOMAIN from
  BY <1>s, <1>r
<1> HIDE DEF root, path
<1>4. t # root
  <2>1. root.input = <<"", Unnamed>>
    BY <1>s, <1>3
  <2>2. LocationOf(root) = ""
    BY <2>1, InputIs
  <2> QED  BY <2>2
<1>5. ASSUME NEW loc, NEW n, NEW F, t = [Testing(root, loc, n) EXCEPT !.fields = F]
      PROVE  Asks(t, loc, n, F, 0)
  <2>1. t = [[root EXCEPT !.input = <<loc, n>>] EXCEPT !.fields = F]
    BY <1>5 DEF Testing
  <2>2. /\ t.endpoint = e /\ t.method = e.method /\ t.path = path /\ t.query = e.at.query
        /\ t.input = <<loc, n>> /\ t.fields = F /\ t.index = 0
    BY <1>s, <1>3, <2>1
  <2>3. t.input = <<loc, n>>
    BY <2>2
  <2>4. LocationOf(t) = loc /\ NameOf(t) = n
    BY <2>3, InputIs
  <2> QED  BY <2>2, <2>4
<1>6. ASSUME NEW loc, NEW n, NEW k, t = [Testing(root, loc, n) EXCEPT !.index = k]
      PROVE  Asks(t, loc, n, {}, k)
  <2>1. t = [[root EXCEPT !.input = <<loc, n>>] EXCEPT !.index = k]
    BY <1>6 DEF Testing
  <2>2. /\ t.endpoint = e /\ t.method = e.method /\ t.path = path /\ t.query = e.at.query
        /\ t.input = <<loc, n>> /\ t.fields = {} /\ t.index = k
    BY <1>s, <1>3, <2>1
  <2>3. t.input = <<loc, n>>
    BY <2>2
  <2>4. LocationOf(t) = loc /\ NameOf(t) = n
    BY <2>3, InputIs
  <2> QED  BY <2>2, <2>4
<1> HIDE DEF Asks
<1>7. CASE t \in QueryTargets(Service, site, e)
  <2> DEFINE names == NamesAt(site, e, "query")
             F == IF IsForm(e) THEN names ELSE {}
  <2>1. PICK n \in names :
          /\ t = [Testing(root, "query", n) EXCEPT !.fields = F]
          /\ IsForm(e) => n \notin Tokens
    BY <1>7 DEF QueryTargets, root
  <2> HIDE DEF names, F
  <2>2. Asks(t, "query", n, F, 0)
    BY <1>5, <2>1
  <2>3. t.endpoint = e /\ t.method = e.method /\ t.path = path /\ t.query = e.at.query
    BY <2>2 DEF Asks
  <2>4. AsksQuery(site, t)
    <3>1. /\ t.endpoint = e /\ LocationOf(t) = "query" /\ NameOf(t) = n
          /\ t.fields = F /\ t.index = 0
      BY <2>2 DEF Asks
    <3> QED  BY <2>1, <3>1 DEF AsksQuery, names, F
  <2> QED  BY <2>3, <2>4 DEF path
<1>8. CASE t \in BodyTargets(Service, site, e)
  BY <1>8, NothingAnsweredIsAsked DEF BodyTargets
<1>9. CASE t \in FormTargets(Service, site, e)
  <2> DEFINE names == NamesAt(site, e, "form")
  <2>1. PICK n \in names \ Tokens : t = [Testing(root, "form", n) EXCEPT !.fields = names]
    BY <1>9 DEF FormTargets, root
  <2> HIDE DEF names
  <2>2. Asks(t, "form", n, names, 0)
    BY <1>5, <2>1
  <2>3. t.endpoint = e /\ t.method = e.method /\ t.path = path /\ t.query = e.at.query
    BY <2>2 DEF Asks
  <2>4. AsksForm(site, t)
    <3>1. /\ t.endpoint = e /\ LocationOf(t) = "form" /\ NameOf(t) = n
          /\ t.fields = names /\ t.index = 0
      BY <2>2 DEF Asks
    <3> QED  BY <2>1, <3>1 DEF AsksForm, names
  <2> QED  BY <2>3, <2>4 DEF path
<1>10. CASE t \in PathTargets(Service, site, e)
  <2> DEFINE k == PathSegmentIndex(e)
  <2>1. PICK n \in NamesAt(site, e, "path") : t = [Testing(root, "path", n) EXCEPT !.index = k]
    BY <1>10 DEF PathTargets, root
  <2> HIDE DEF k
  <2>2. Asks(t, "path", n, {}, k)
    BY <1>6, <2>1
  <2>3. t.endpoint = e /\ t.method = e.method /\ t.path = path /\ t.query = e.at.query
    BY <2>2 DEF Asks
  <2>4. AsksPath(site, t)
    <3>1. /\ t.endpoint = e /\ LocationOf(t) = "path" /\ NameOf(t) = n
          /\ t.fields = {} /\ t.index = k
      BY <2>2 DEF Asks
    <3> QED  BY <2>1, <3>1 DEF AsksPath, k
  <2> QED  BY <2>3, <2>4 DEF path
<1> QED  BY <1>2, <1>4, <1>7, <1>8, <1>9, <1>10 DEF EndpointTargets, root, path

-----------------------------------------------------------------------------
(* One value is another, and it is the one that was to be.                 *)
LEMMA SetIs ==
  ASSUME NEW fields, NEW name, NEW value
  PROVE  /\ DOMAIN Set(fields, name, value) = DOMAIN fields \cup {name}
         /\ Set(fields, name, value)[name] = value
         /\ \A n \in DOMAIN fields \ {name} : Set(fields, name, value)[n] = fields[n]
BY DEF Set

(* What was found, or what it was replaced by when it was stored.          *)
AsStored(fields) == \A n \in DOMAIN fields : fields[n].text \in {"found", "redacted"}

Changed(fields, name, d, before) ==
  /\ DOMAIN fields = before \cup {name} /\ fields[name].text = d
  /\ \A n \in DOMAIN fields \ {name} : fields[n].text \in {"found", "redacted"}

LEMMA SetChangesOne ==
  ASSUME NEW fields, AsStored(fields), NEW name, NEW d, NEW enc
  PROVE  Changed(Set(fields, name, Payload(d, enc)), name, d, DOMAIN fields)
<1> DEFINE value == Payload(d, enc)
           after == Set(fields, name, value)
<1>1. value.text = d
  BY DEF Payload
<1> HIDE DEF value
<1>2. /\ DOMAIN after = DOMAIN fields \cup {name}
      /\ after[name] = value
      /\ \A n \in DOMAIN fields \ {name} : after[n] = fields[n]
  BY DEF Set
<1> HIDE DEF after
<1>3. Changed(after, name, d, DOMAIN fields)
  BY <1>1, <1>2 DEF Changed, AsStored
<1> QED  BY <1>3 DEF after, value

LEMMA RequestIs ==
  ASSUME NEW t
  PROVE  LET req == NewMutationRequest(t) IN
         /\ t.method # "" => req.method = t.method
         /\ req.path = t.path /\ req.query = QueryOf(t) /\ req.raw = None /\ req.body = BodyOf(t)
         /\ {"path", "query", "raw", "body", "type", "made"} \subseteq DOMAIN req
         /\ req = [x \in DOMAIN req |-> req[x]]
         /\ AsStored(req.query)
         /\ DOMAIN req.query = t.query \cup IF LocationOf(t) = "query" THEN t.fields ELSE {}
<1> DEFINE fields == IF LocationOf(t) = "query" THEN t.fields ELSE {}
           q == QueryOf(t)
<1>1. \A n \in fields : FieldValues(fields)[n].text \in {"found", "redacted"}
  BY DEF FieldValues, Found, Redacted
<1>2. q = [n \in t.query \cup fields |-> IF n \in t.query THEN Found ELSE FieldValues(fields)[n]]
  BY DEF QueryOf
<1>3. Found.text = "found"
  BY DEF Found
<1> HIDE DEF fields, q
<1>4. DOMAIN q = t.query \cup fields /\ AsStored(q)
  BY <1>1, <1>2, <1>3 DEF AsStored
<1> QED  BY <1>4 DEF NewMutationRequest, fields, q

(* Mutate never changes the method.                                        *)
LEMMA MethodIsKept ==
  ASSUME NEW t, t.method # "", NEW m, NEW req, req = NewMutationRequest(t),
         NEW sent, sent = Mutate(req, m), sent \notin {Refused, Panics}
  PROVE  sent.method = t.method
<1> DEFINE made == Mutated(req, m)
<1>1. req.method = t.method
  BY RequestIs
<1>2. "method" \in DOMAIN req
  BY DEF NewMutationRequest
<1>3. sent = [made EXCEPT !.made = "MUTATED"] /\ made \notin {Refused, Panics}
  BY DEF Mutate
<1> DEFINE Same(r) == r.method = req.method /\ "method" \in DOMAIN r
<1>4. Same(made)
  <2>1. made \in {ApplyQuery(req, m), ApplyForm(req, m), ApplyJSON(req, m), ApplyPath(req, m)}
    BY <1>3 DEF Mutated
  <2>2. Same(ApplyQuery(req, m))
    BY <1>2 DEF ApplyQuery
  <2>3. Same(ApplyForm(req, m))
    BY <1>2 DEF ApplyForm
  <2>4. Same(ApplyJSON(req, m))
    BY <1>2 DEF ApplyJSON
  <2>5. Same(ApplyPath(req, m))
    BY <1>2 DEF ApplyPath
  <2> HIDE DEF made, Same
  <2> QED  BY ONLY <2>1, <2>2, <2>3, <2>4, <2>5
<1> HIDE DEF made
<1>5. sent.method = made.method
  BY <1>3, <1>4
<1> QED  BY <1>1, <1>4, <1>5

(* A test of a query, however its value is written.                        *)
LEMMA QueryIsTested ==
  ASSUME NEW t, LocationOf(t) = "query", NEW d, NEW enc,
         NEW m, m = NewTargetMutation(t, d, enc), NEW req, req = NewMutationRequest(t),
         NEW sent, sent = Mutate(req, m), sent \notin {Refused, Panics}
  PROVE  /\ Changed(SentQuery(sent), NameOf(t), d, t.query \cup t.fields)
         /\ sent.path = t.path /\ sent.body = None
<1> DEFINE name == NameOf(t)
           value == Payload(d, enc)
           q == req.query
           raw == [kind |-> "raw", name |-> name, value |-> value]
           made == ApplyQuery(req, m)
<1>1. m.location = "query" /\ m.parameter = name /\ m.value = value /\ m.encoding = enc
  BY DEF NewTargetMutation, NewMutation, LocationFor
<1>2. /\ req.path = t.path /\ req.raw = None /\ req.body = None
      /\ {"path", "query", "raw", "body", "type", "made"} \subseteq DOMAIN req
      /\ req = [x \in DOMAIN req |-> req[x]]
      /\ AsStored(q) /\ DOMAIN q = t.query \cup t.fields
  BY RequestIs DEF BodyOf
<1>3. Mutated(req, m) = made
  BY <1>1 DEF Mutated
<1>4. sent = [made EXCEPT !.made = "MUTATED"]
  <2> HIDE DEF made
  <2> QED  BY <1>3 DEF Mutate
<1>5. CASE enc = "verbatim"
  <2> DEFINE rest == Without(q, name)
  <2>1. made = [req EXCEPT !.query = rest, !.raw = raw]
    BY <1>1, <1>5 DEF ApplyQuery
  <2>2. raw # None /\ raw.name = name /\ raw.value = value
    <3>1. raw.kind # None.kind
      BY DEF None
    <3> QED  BY <3>1
  <2>3. DOMAIN rest = DOMAIN q \ {name} /\ AsStored(rest)
    BY <1>2 DEF Without, Restrict, AsStored
  <2> HIDE DEF rest, raw, made, q, value
  <2>4. sent.query = rest /\ sent.raw = raw /\ sent.path = t.path /\ sent.body = None
    BY <1>2, <1>4, <2>1
  <2>5. SentQuery(sent) = Set(rest, name, value)
    BY <2>2, <2>4 DEF SentQuery
  <2>6. Changed(Set(rest, name, value), name, d, DOMAIN q \ {name})
    BY <2>3, SetChangesOne DEF value
  <2>7. Changed(Set(rest, name, value), name, d, DOMAIN q)
    BY <2>6 DEF Changed
  <2> QED  BY <1>2, <2>4, <2>5, <2>7
<1>6. CASE enc # "verbatim"
  <2>1. made = [req EXCEPT !.query = Set(@, name, value), !.raw = None]
    BY <1>1, <1>6 DEF ApplyQuery
  <2> HIDE DEF made, value
  <2>2. sent.query = Set(q, name, value) /\ sent.raw = None /\ sent.path = t.path /\ sent.body = None
    BY <1>2, <1>4, <2>1
  <2>3. SentQuery(sent) = Set(q, name, value)
    BY <2>2 DEF SentQuery
  <2> HIDE DEF q
  <2>4. Changed(Set(q, name, value), name, d, DOMAIN q)
    BY <1>2, SetChangesOne DEF value
  <2> QED  BY <1>2, <2>2, <2>3, <2>4
<1> QED  BY <1>5, <1>6

(* The query of an address, as it was found.                               *)
LEMMA AddressedIs ==
  ASSUME NEW t, LocationOf(t) # "query"
  PROVE  QueryOf(t) = Addressed(t.query)
BY DEF QueryOf, Addressed

(* A test of a form's body.                                                *)
LEMMA FormIsTested ==
  ASSUME NEW t, LocationOf(t) = "form", t.fields # {}, NEW d, NEW enc,
         NEW m, m = NewTargetMutation(t, d, enc), NEW req, req = NewMutationRequest(t),
         NEW sent, sent = Mutate(req, m), sent \notin {Refused, Panics}
  PROVE  /\ Changed(sent.body.fields, NameOf(t), d, t.fields)
         /\ sent.path = t.path /\ SentQuery(sent) = Addressed(t.query)
<1> DEFINE name == NameOf(t)
           value == Payload(d, enc)
           fields == FieldValues(t.fields)
           after == Set(fields, name, value)
           made == ApplyForm(req, m)
<1>1. m.location = "form" /\ m.parameter = name /\ m.value = value
  BY DEF NewTargetMutation, NewMutation, LocationFor
<1>2. /\ req.path = t.path /\ req.raw = None /\ req.query = Addressed(t.query)
      /\ req.body = FormBody(fields)
      /\ {"path", "query", "raw", "body", "type", "made"} \subseteq DOMAIN req
      /\ req = [x \in DOMAIN req |-> req[x]]
  BY RequestIs, AddressedIs DEF BodyOf
<1>3. BodyFields(req) = fields
  BY <1>2 DEF BodyFields, FormBody
<1>4. Mutated(req, m) = made
  BY <1>1 DEF Mutated
<1>5. sent = [made EXCEPT !.made = "MUTATED"]
  <2> HIDE DEF made
  <2> QED  BY <1>4 DEF Mutate
<1>6. made = [req EXCEPT !.body = FormBody(after), !.type = "form"]
  <2> HIDE DEF fields, value
  <2> QED  BY <1>1, <1>3 DEF ApplyForm
<1>7. DOMAIN fields = t.fields /\ AsStored(fields)
  BY DEF FieldValues, AsStored, Found, Redacted
<1>8. Changed(after, name, d, DOMAIN fields)
  <2> HIDE DEF fields
  <2> QED  BY <1>7, SetChangesOne
<1> HIDE DEF made, after, fields, value
<1>9. /\ sent.body = FormBody(after) /\ sent.raw = None
      /\ sent.path = t.path /\ sent.query = Addressed(t.query)
  BY <1>2, <1>5, <1>6
<1>10. sent.body.fields = after /\ SentQuery(sent) = Addressed(t.query)
  BY <1>9 DEF FormBody, SentQuery
<1> QED  BY <1>7, <1>8, <1>9, <1>10

(* A test of a path.                                                       *)
LEMMA PathIsTested ==
  ASSUME NEW t, LocationOf(t) = "path", NEW d, NEW enc,
         NEW m, m = NewTargetMutation(t, d, enc), NEW req, req = NewMutationRequest(t),
         NEW sent, sent = Mutate(req, m), sent \notin {Refused, Panics}
  PROVE  /\ sent.path = [t.path EXCEPT ![t.index + 1] = Payload(d, enc)]
         /\ SentQuery(sent) = Addressed(t.query)
<1> DEFINE value == Payload(d, enc)
           made == ApplyPath(req, m)
           after == [t.path EXCEPT ![t.index + 1] = value]
<1>1. m.location = "path" /\ m.value = value /\ m.index = t.index
  BY DEF NewTargetMutation, NewMutation, LocationFor
<1>2. /\ req.path = t.path /\ req.raw = None /\ req.query = Addressed(t.query)
      /\ {"path", "query", "raw", "body", "type", "made"} \subseteq DOMAIN req
      /\ req = [x \in DOMAIN req |-> req[x]]
  BY RequestIs, AddressedIs
<1>3. Mutated(req, m) \in {made, Refused}
  BY <1>1 DEF Mutated
<1>4. Mutated(req, m) = made /\ sent = [made EXCEPT !.made = "MUTATED"]
  <2> HIDE DEF made
  <2> QED  BY <1>3 DEF Mutate
<1>5. made = [req EXCEPT !.path = after]
  BY <1>1, <1>2 DEF ApplyPath
<1> HIDE DEF made, after, value
<1>6. sent.path = after /\ sent.raw = None /\ sent.query = Addressed(t.query)
  BY <1>2, <1>4, <1>5
<1>7. SentQuery(sent) = Addressed(t.query)
  BY <1>6 DEF SentQuery
<1> QED  BY <1>6, <1>7 DEF after, value

-----------------------------------------------------------------------------
(* What EachInputTestedAlone says, of one request.                         *)
Alone(site, t, d, sent) ==
  LET e == t.endpoint
      names(location) == NamesAt(site, e, location)
      onlyDiffers(fields) ==
        /\ NameOf(t) \in DOMAIN fields /\ fields[NameOf(t)].text = d
        /\ \A n \in DOMAIN fields \ {NameOf(t)} : fields[n].text \in {"found", "redacted"}
  IN /\ LocationOf(t) \in {"query", "form", "path"}
     /\ sent.method = e.method
     /\ Stable(e.at.path) /\ LocationOf(t) # "path" => sent.path = e.at.path
     /\ IsForm(e) /\ LocationOf(t) # "path" => NameOf(t) \notin Tokens
     /\ LocationOf(t) = "query" =>
          /\ IsForm(e) \/ e.at.query # {} =>
               DOMAIN SentQuery(sent) = e.at.query \cup IF IsForm(e) THEN names("query") ELSE {}
          /\ onlyDiffers(SentQuery(sent))
          /\ sent.body = None
     /\ LocationOf(t) = "form" =>
          /\ DOMAIN sent.body.fields = names("form")
          /\ onlyDiffers(sent.body.fields)
          /\ SentQuery(sent) = Addressed(e.at.query)
     /\ LocationOf(t) = "path" => SentQuery(sent) = Addressed(e.at.query)
     /\ LocationOf(t) = "path" /\ Plain(e.at.path) =>
          /\ DOMAIN sent.path = DOMAIN e.at.path
          /\ \A i \in DOMAIN e.at.path :
               IF i = VaryingSegment(e.at.path) THEN sent.path[i].text = d
               ELSE sent.path[i] = e.at.path[i]

LEMMA NameIsDiscovered ==
  ASSUME NEW site, NEW e, NEW location, NEW n \in NamesAt(site, e, location)
  PROVE  \E c \in Discovered(site) :
           c.endpoint = e /\ LocationOf(c) = location /\ NameOf(c) = n
BY DEF NamesAt, Parameters

LEMMA PathSegmentsIs == PathSegments \in Int
BY InputsAssumption DEF PathSegments, OrDefault

LEMMA AtLeastOne ==
  ASSUME NEW m \in Int, NEW n \in 1..m
  PROVE  n \in Int /\ n >= 1
OBVIOUS

LEMMA TestIsAlone ==
  ASSUME NEW site, IsSite(site), NEW t \in BuildTargets(Service, site), LocationOf(t) # "",
         NEW d, NEW enc, NEW sent, sent \notin {Refused, Panics},
         sent = Mutate(NewMutationRequest(t), NewTargetMutation(t, d, enc))
  PROVE  Alone(site, t, d, sent)
<1> DEFINE e == t.endpoint
           name == NameOf(t)
           path == e.at.path
<1>1. /\ e \in Endpoints(site) /\ t.path = ReadBack(path) /\ t.query = e.at.query
      /\ AsksQuery(site, t) \/ AsksForm(site, t) \/ AsksPath(site, t)
  BY TargetAsks
<1>m. sent.method = e.method
  <2>1. t.method = e.method
    BY TargetAsks
  <2>2. e.method # ""
    BY <1>1, MethodIsGiven
  <2>3. t.method # ""
    BY ONLY <2>1, <2>2
  <2>4. sent.method = t.method
    BY ONLY <2>3, MethodIsKept, sent \notin {Refused, Panics},
            sent = Mutate(NewMutationRequest(t), NewTargetMutation(t, d, enc))
  <2> QED  BY <2>1, <2>4
<1>p. Stable(path) => t.path = path
  BY <1>1 DEF Stable
<1>2. CASE AsksQuery(site, t)
  <2> DEFINE names == NamesAt(site, e, "query")
             q == SentQuery(sent)
  <2>1. /\ LocationOf(t) = "query" /\ name \in names
        /\ t.fields = (IF IsForm(e) THEN names ELSE {})
        /\ IsForm(e) => name \notin Tokens
    BY <1>2 DEF AsksQuery
  <2>2. Changed(q, name, d, t.query \cup t.fields) /\ sent.path = t.path /\ sent.body = None
    BY ONLY <2>1, QueryIsTested, sent \notin {Refused, Panics},
            sent = Mutate(NewMutationRequest(t), NewTargetMutation(t, d, enc))
  <2>3. ~IsForm(e) /\ e.at.query # {} => name \in e.at.query
    <3>1. PICK c \in Discovered(site) : c.endpoint = e /\ LocationOf(c) = "query" /\ NameOf(c) = name
      BY <2>1, NameIsDiscovered
    <3>2. InQuery(c)
      BY DiscoveredIs
    <3> QED  BY <3>1, <3>2 DEF InQuery
  <2> HIDE DEF names, q, e, name, path
  <2>4. IsForm(e) \/ e.at.query # {} =>
          DOMAIN q = e.at.query \cup IF IsForm(e) THEN names ELSE {}
    BY <1>1, <2>1, <2>2, <2>3 DEF Changed
  <2>5. /\ name \in DOMAIN q /\ q[name].text = d
        /\ \A n \in DOMAIN q \ {name} : q[n].text \in {"found", "redacted"}
    BY <2>2 DEF Changed
  <2>6. (Stable(path) => sent.path = path) /\ sent.body = None
    BY <1>p, <2>2
  <2> QED  BY <1>m, <2>1, <2>4, <2>5, <2>6 DEF Alone, names, q, e, name, path
<1>3. CASE AsksForm(site, t)
  <2> DEFINE names == NamesAt(site, e, "form")
             q == sent.body.fields
  <2>1. LocationOf(t) = "form" /\ name \in names /\ name \notin Tokens /\ t.fields = names
    BY <1>3 DEF AsksForm
  <2>2. t.fields # {}
    BY <2>1
  <2>3. /\ Changed(q, name, d, t.fields)
        /\ sent.path = t.path /\ SentQuery(sent) = Addressed(t.query)
    BY ONLY <2>1, <2>2, FormIsTested, sent \notin {Refused, Panics},
            sent = Mutate(NewMutationRequest(t), NewTargetMutation(t, d, enc))
  <2> HIDE DEF names, q, e, name, path
  <2>4. DOMAIN q = names
    BY <2>1, <2>3 DEF Changed
  <2>5. /\ name \in DOMAIN q /\ q[name].text = d
        /\ \A n \in DOMAIN q \ {name} : q[n].text \in {"found", "redacted"}
    BY <2>3 DEF Changed
  <2>6. (Stable(path) => sent.path = path) /\ SentQuery(sent) = Addressed(e.at.query)
    BY <1>1, <1>p, <2>3
  <2> QED  BY <1>m, <2>1, <2>4, <2>5, <2>6 DEF Alone, names, q, e, name, path
<1>4. CASE AsksPath(site, t)
  <2> DEFINE kept == Segments(e)
             v == VaryingSegment(path)
  <2>1. /\ LocationOf(t) = "path" /\ name \in NamesAt(site, e, "path")
        /\ t.index = Len(kept) - 1
    BY <1>4 DEF AsksPath, PathSegmentIndex
  <2>2. PICK c \in Discovered(site) : c.endpoint = e /\ LocationOf(c) = "path"
    BY <2>1, NameIsDiscovered
  <2>3. IsPathInput(Endpoints(site), e)
    BY <2>2, DiscoveredIs
  <2>4. Len(kept) \in Int /\ Len(kept) >= 1
    <3> DEFINE n == Len(kept)
    <3>1. n \in 1..PathSegments
      BY <2>3 DEF IsPathInput, Considered
    <3> HIDE DEF n
    <3>2. n \in Int /\ n >= 1
      BY <3>1, PathSegmentsIs, AtLeastOne
    <3> QED  BY <3>2 DEF n
  <2>5. /\ sent.path = [t.path EXCEPT ![t.index + 1] = Payload(d, enc)]
        /\ SentQuery(sent) = Addressed(t.query)
    <3>1. LocationOf(t) = "path"
      BY ONLY <2>1
    <3> QED  BY ONLY <3>1, PathIsTested, sent \notin {Refused, Panics},
                    sent = Mutate(NewMutationRequest(t), NewTargetMutation(t, d, enc))
  <2>6. t.index + 1 = Len(kept)
    <3> HIDE DEF kept, e
    <3> QED  BY <2>1, <2>4
  <2>7. path \in Seq(Range(path))
    BY <1>1, PathIsASlice
  <2>8. /\ kept = NotBlank(ReadBack(path))
        /\ Stable(path) => kept = Filtered(path, Range(path) \ {Blank})
    BY DEF Segments, NotBlank, Stable
  <2> HIDE DEF kept, path, e, name
  <2>9. ASSUME Plain(path)
        PROVE  /\ DOMAIN sent.path = DOMAIN path
               /\ \A i \in DOMAIN path :
                    IF i = v THEN sent.path[i].text = d ELSE sent.path[i] = path[i]
    <3>p. Stable(path)
      BY <2>4, <2>7, <2>8, <2>9, PlainIsStable
    <3>1. v \in DOMAIN path /\ v = Len(kept)
      BY <2>4, <2>7, <2>8, <2>9, <3>p, VaryingIsLast
    <3> DEFINE value == Payload(d, enc)
    <3>2. value.text = d
      BY DEF Payload
    <3> HIDE DEF value, v
    <3>3. sent.path = [path EXCEPT ![v] = value]
      BY <1>p, <2>5, <2>6, <3>p, <3>1 DEF value
    <3> QED  BY <3>1, <3>2, <3>3
  <2>10. SentQuery(sent) = Addressed(e.at.query)
    BY <1>1, <2>5
  <2> QED  BY <1>m, <2>1, <2>9, <2>10 DEF Alone, e, name, path
<1> QED  BY <1>1, <1>2, <1>3, <1>4

LEMMA NothingIsASite == IsSite(<<>>)
<1>1. Range(<<>>) = {}
  BY DEF Range
<1> QED  BY <1>1 DEF IsSite

LEMMA DetectTestsAlone ==
  ASSUME pages \in Sites \cup {<<>>}, Detect
  PROVE  EachInputTestedAlone'
<1>1. PICK t \in BuildTargets(Service, pages), d \in Enabled, mutant \in BOOLEAN, ip \in Addresses :
        /\ Eligible(d, t)
        /\ \E by \in SentBy(d, mutant) :
             LET built == Built(d, t, mutant)
                 used == IF by = "scan" THEN session ELSE compare
             IN /\ built \notin {Refused, Panics}
                /\ AddressFor(built.origin.host, built.ip, ip)
                /\ request' = [kind |-> "sent", by |-> by, mutant |-> mutant, detector |-> d,
                               target |-> t, ip |-> ip, http |-> built,
                               session |-> Attached(used, built.origin.host)]
  BY DEF Detect
<1> DEFINE built == Built(d, t, mutant)
<1>2. /\ built \notin {Refused, Panics}
      /\ request'.mutant = mutant /\ request'.detector = d
      /\ request'.target = t /\ request'.http = built
  BY <1>1
<1>3. LocationOf(t) # ""
  BY <1>1 DEF Eligible
<1>4. pages' = pages
  BY DEF Detect
<1>5. IsSite(pages)
  BY ScanCommandAssumption, NothingIsASite
<1> HIDE DEF built
<1>6. mutant => Alone(pages, t, d, built)
  <2> HAVE mutant
  <2>1. built = Mutate(NewMutationRequest(t), NewTargetMutation(t, d, Encoding(d, t)))
    BY DEF Built, built
  <2> QED  BY <1>2, <1>3, <1>5, <2>1, TestIsAlone
<1> DEFINE found(e, location) ==
             {NameOf(c) : c \in {x \in Parameters(pages) : x.endpoint = e /\ LocationOf(x) = location}}
<1>7. \A e : /\ NamesAt(pages, e, "query") = found(e, "query")
             /\ NamesAt(pages, e, "form") = found(e, "form")
  BY DEF NamesAt, Provenance
<1>8. mutant => EachInputTestedAlone'
  <2> HAVE mutant
  <2>1. Alone(pages, t, d, built)
    BY <1>6
  <2>2. LocationOf(t) \in {"query", "form", "path"}
    BY ONLY <2>1 DEF Alone
  <2>n. LET names(location) ==
              {NameOf(c) : c \in {x \in Parameters(pages') :
                                     x.endpoint = t.endpoint /\ LocationOf(x) = location}}
        IN /\ NamesAt(pages, t.endpoint, "query") = names("query")
           /\ NamesAt(pages, t.endpoint, "form") = names("form")
    BY ONLY <1>4, <1>7
  <2>3. CASE LocationOf(t) = "query"
    BY ONLY <1>2, <2>n, <2>1, <2>3
       DEF EachInputTestedAlone, Alone, OnlyDiffers, Inside, NamesFound
  <2>4. CASE LocationOf(t) = "form"
    BY ONLY <1>2, <2>n, <2>1, <2>4
       DEF EachInputTestedAlone, Alone, OnlyDiffers, Inside, NamesFound
  <2>5. CASE LocationOf(t) = "path"
    BY ONLY <1>2, <2>1, <2>5 DEF EachInputTestedAlone, Alone
  <2> QED  BY ONLY <2>2, <2>3, <2>4, <2>5
<1> QED  BY <1>2, <1>8 DEF EachInputTestedAlone, Tested

AloneInv ==
  /\ pages \in Sites \cup {<<>>}
  /\ EachInputTestedAlone

LEMMA AloneInvStep ==
  ASSUME OutcomeInv, AloneInv, [Next]_vars
  PROVE  AloneInv'
<1>1. pages' \in Sites \cup {<<>>}
  BY DEF AloneInv, Next, vars, Nothing, CtxIsDone, CheckIdentities, CheckStart, ResolvePolicy,
         LogIn, LogInSecond, NoSecond, BuildExecutor, StartScan, Recon, Detect, FinishScan,
         RefuseTarget, Return, Done
<1>2. CASE Detect
  BY <1>1, <1>2, DetectTestsAlone DEF AloneInv
<1>3. CASE request = None /\ UNCHANGED request
  BY <1>1, <1>3 DEF AloneInv, EachInputTestedAlone, Tested, Sent, None
<1>4. CASE UNCHANGED <<request, pages>>
  <2>1. EachInputTestedAlone' = EachInputTestedAlone
    BY <1>4 DEF EachInputTestedAlone, Tested, Sent, OnlyDiffers, Inside, NamesFound
  <2> QED  BY <1>1, <2>1 DEF AloneInv
<1>5. Recon => request = None /\ UNCHANGED request
  BY DEF Recon, Is, OutcomeInv
<1>6. \/ CtxIsDone \/ CheckIdentities \/ CheckStart \/ ResolvePolicy \/ LogIn \/ LogInSecond
      \/ NoSecond \/ BuildExecutor \/ StartScan \/ FinishScan \/ RefuseTarget \/ Return
      \/ Done \/ UNCHANGED vars
      => UNCHANGED <<request, pages>>
  BY DEF vars, Nothing, CtxIsDone, CheckIdentities, CheckStart, ResolvePolicy, LogIn, LogInSecond,
         NoSecond, BuildExecutor, StartScan, FinishScan, RefuseTarget, Return, Done
<1> QED  BY <1>2, <1>3, <1>4, <1>5, <1>6 DEF Next

(* Whatever a site brings back, a detector's test differs from the stored  *)
(* request of the page or the form in the one value it tests.  The method  *)
(* is the one that was found.  The fields of all forms that share the      *)
(* endpoint are sent, with what was found in them or what replaced it; the *)
(* form's token is among them and not tested, nor is what was only seen in *)
(* a response.  The path is the one that was found, but for the tested     *)
(* segment, unless it begins with two slashes: of such a path the code     *)
(* loses the first segment, and the theorem says nothing of where the      *)
(* request goes.  Paths with empty segments inside and the query of an     *)
(* address without a path are exempt as in EachInputTestedAlone.           *)
THEOREM TestsChangeOneInput == Spec => []EachInputTestedAlone
<1>1. Init => AloneInv
  BY DEF Init, AloneInv, EachInputTestedAlone, Tested, Sent, None
<1>2. OutcomeInv /\ AloneInv /\ [Next]_vars => AloneInv'
  BY AloneInvStep
<1>3. AloneInv => EachInputTestedAlone
  BY DEF AloneInv
<1> QED  BY <1>1, <1>2, <1>3, OutcomeInvariant, PTL DEF Spec
=============================================================================
