--------------------------------- MODULE Login ---------------------------------
(***************************************************************************)
(* internal/auth: how a scan gets the session it crawls with, before the   *)
(* pipeline starts (performAuthentication in cmd/scanner/scan.go).         *)
(*                                                                         *)
(* A static profile needs no request; a form login fetches its page and    *)
(* submits the form; an automatic one first looks for the form, on three   *)
(* pages at most.                                                          *)
(***************************************************************************)
EXTENDS SafeDial

CONSTANT
  MaxDiscoveryPages \* maxDiscoveryPages

ASSUME LoginAssumption ==
  \A p \in {j.profile : j \in Jobs} :
    /\ p.type \in {"none", "static", "form", "auto"} /\ p.redirects \in Nat
    /\ IsHost(p.host) /\ IsHost(p.url)

VARIABLES
  profile, \* the profile of the scan: type, host, url (of which the host counts), redirects
  login,   \* what Authenticate is doing
  fetched, \* discoverLoginForm's pagesFetched
  links,   \* login links still in its queue
  session  \* the session: its state, and what it attaches to requests

lVars == <<profile, login, fetched, links, session>>

-----------------------------------------------------------------------------
NoSession == [state |-> "none", host |-> Nobody, jar |-> FALSE, headers |-> FALSE]

InitLogin ==
  /\ login = "start" /\ fetched = 0 /\ links = 0
  /\ session = NoSession

LoggingIn(at) == stage = "login" /\ login = at

Session(state, jar, headers) ==
  [state |-> state, host |-> profile.host, jar |-> jar, headers |-> headers]

(* performAuthentication: a failed login ends the command, and no scan is  *)
(* started.                                                                *)
LoginFails ==
  /\ session' = Session("failed", FALSE, FALSE)
  /\ login' = "over" /\ stage' = "ended" /\ err' = "login"
  /\ UNCHANGED <<ctx, profile, fetched, links>>

LoginSucceeds(jar, headers) ==
  /\ session' = Session("authenticated", jar, headers)
  /\ login' = "over"
  /\ Proceed("login", "check")
  /\ UNCHANGED <<profile, fetched, links>>

(* Without a profile there is no session; StaticProvider asks the scope    *)
(* for its host, and has its headers at once.                              *)
SkipLogin ==
  /\ LoggingIn("start") /\ profile.type = "none"
  /\ login' = "over" /\ Proceed("login", "check")
  /\ UNCHANGED <<req, profile, fetched, links, session>>

StaticLogin ==
  /\ LoggingIn("start") /\ profile.type = "static"
  /\ IF ctx = "live" /\ HostAllowed(profile.host) THEN LoginSucceeds(FALSE, TRUE) ELSE LoginFails
  /\ UNCHANGED req

(* ResolveInScope for the login or the start URL; the client keeps that    *)
(* address.                                                                *)
FetchLoginPage ==
  /\ LoggingIn("start") /\ profile.type \in {"form", "auto"}
  /\ \/ \E ip \in Addresses :
          /\ InScopeAt(profile.url, ip)
          /\ req' = Request(profile.url, profile.url, ip, profile.redirects, Nobody, FALSE)
          /\ login' = "page" /\ fetched' = 1
          /\ Keep /\ UNCHANGED <<profile, links, session>>
     \/ LoginFails /\ UNCHANGED req

MayFetchMore == fetched < MaxDiscoveryPages

(* A page of the discovery without a password field: its login links, all  *)
(* of the start URL's origin, join the queue unless this was the last one. *)
NoFormHere ==
  /\ LoggingIn("page") /\ profile.type = "auto" /\ RequestOver
  /\ \E more \in IF req.state = "answered" /\ MayFetchMore THEN 0 .. 2 ELSE {0} :
       IF links + more > 0 /\ MayFetchMore
       THEN /\ links' = links + more - 1 /\ fetched' = fetched + 1
            /\ req' = Request(profile.url, profile.url, req.origIP, profile.redirects, Nobody, FALSE)
            /\ Keep /\ UNCHANGED <<profile, login, session>>
       ELSE LoginFails /\ req' = Idle

(* The page of a form login cannot be fetched, or holds no usable form.    *)
NoLoginForm ==
  /\ LoggingIn("page") /\ RequestOver
  /\ profile.type = "form" \/ req.state = "answered"
  /\ LoginFails /\ req' = Idle

(* submitCredentials.  An action on another host than the page's needs the *)
(* scope's consent before credentials are put into a request to it.        *)
PageHost == IF profile.type = "form" THEN profile.url ELSE req.host

SubmitForm(action) ==
  /\ LoggingIn("page") /\ req.state = "answered"
  /\ IF action = PageHost \/ (ctx = "live" /\ HostAllowed(action))
     THEN /\ req' = Request(action, req.origHost, req.origIP, profile.redirects, Nobody, TRUE)
          /\ login' = "submit"
          /\ Keep /\ UNCHANGED <<profile, fetched, links, session>>
     ELSE LoginFails /\ req' = Idle

(* evaluateSuccess decides by what the profile names, or by a cookie.      *)
Evaluated ==
  /\ LoggingIn("submit") /\ RequestOver
  /\ \/ req.state = "answered" /\ LoginSucceeds(TRUE, FALSE)
     \/ LoginFails
  /\ req' = Idle

NextLogin ==
  \/ SkipLogin
  \/ StaticLogin
  \/ FetchLoginPage
  \/ NoFormHere
  \/ NoLoginForm
  \/ \E h \in Locations : SubmitForm(h)
  \/ Evaluated

-----------------------------------------------------------------------------
(* JarFor and HeadersFor: the session of another host is none.             *)
HasSomeHeaders(host) == session.headers

HasJar(host)     == session.jar /\ host = session.host
HasHeaders(host) == session.headers /\ host = session.host
PinnedFor(host)  == IF HasHeaders(host) THEN host ELSE Nobody

LoginTypeOK ==
  /\ login \in {"start", "page", "submit", "over"}
  /\ fetched \in 0 .. MaxDiscoveryPages /\ links \in Nat
  /\ session.state \in {"none", "authenticated", "failed"}

(* What a session attaches reaches the session's own host and no other,    *)
(* wherever a redirect leads, and whichever host is crawled.               *)
SessionStaysHome ==
  req.headers => session.state = "authenticated" /\ req.host = session.host
=============================================================================
