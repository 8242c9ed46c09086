------------------------------ MODULE ReconProofs ------------------------------
(***************************************************************************)
(* Theorems about Pipeline.Run, for any rules, answers, sites, jobs and    *)
(* limits.                                                                 *)
(*                                                                         *)
(*   NoConnectionOutOfScope   every connection is to an allowed host       *)
(*   CredentialsStayHome      a session's secrets go to its host only      *)
(*   NamesAreStoredOnce       no name is stored as two assets              *)
(*   NothingIsDroppedSilently what discovery leaves out has a reason       *)
(*   CompletedJobsCover       a completed job has looked at all it was to  *)
(*   CrawlsAreTraversals      a crawl follows links, level by level        *)
(*   InputsAreAccountedFor    inputs have endpoints; what is cut is told   *)
(*                                                                         *)
(* The first two rest on NetInv, about the request that is on its way and  *)
(* the hosts the stages know; the next two on AssetInv and SeenInv, about  *)
(* the rows and the names that discovery has seen.  For the fifth, FlowInv *)
(* says which stages have ended without an error, PortInv and WebInv what  *)
(* each of them then has done, and a stage that has ended does not undo it.*)
(* CrawlInv says how the queue and the pages of a crawl hang together and  *)
(* RowsInv when its rows are there; that no input is lost between its page *)
(* and its row is shown along folds, flattenings and orders, by the least  *)
(* index at which something would be wrong.                                *)
(***************************************************************************)
EXTENDS Recon, FiniteSetTheorems, NaturalsInduction, WellFoundedInduction, TLAPS

-----------------------------------------------------------------------------
(* The order of the checks in CheckResolved loses nothing: what it allows  *)
(* is what the rules, read without an order, allow.                        *)
LEMMA ScopeDecides ==
  ASSUME NEW h, NEW a, IsHost(h), h # Nobody, h.kind = "ip" => a = h.addr,
         DialAllowed(h, a)
  PROVE  MayReach(h, a)
<1> USE ScopeAssumption DEF IsRule, Evaluate
<1>1. ~IsReserved(a) /\ (CheckHost(h) = "allow" \/ (CheckHost(h) = "unmatched" /\ CheckIP(a) = "allow"))
  BY DEF DialAllowed, CheckResolved
<1>2. AllowReserved \/ a \notin Reserved
  BY <1>1 DEF IsReserved
<1>3. CASE h.kind = "name"
  <2>1. CheckHost(h) = CheckName(h.labels)
    BY <1>3 DEF CheckHost, IsHost, Nobody
  <2>2. CASE CheckHost(h) = "allow"
    BY <1>2, <1>3, <2>1, <2>2 DEF CheckName, MayReach, IsHost
  <2>3. CASE CheckHost(h) = "unmatched" /\ CheckIP(a) = "allow"
    BY <1>1, <1>2, <1>3, <2>1, <2>3 DEF CheckName, CheckIP, MayReach, IsHost
  <2> QED  BY <1>1, <2>2, <2>3
<1>4. CASE h.kind = "ip"
  <2>1. CheckHost(h) = CheckIP(a)
    BY <1>4 DEF CheckHost
  <2>2. CheckIP(a) = "allow"
    BY <1>1, <2>1
  <2>3. h = Address(a)
    BY <1>4 DEF IsHost, Address, Name
  <2> QED  BY <1>1, <1>2, <2>2, <2>3 DEF CheckIP, MayReach, Address
<1> QED  BY <1>3, <1>4 DEF IsHost

-----------------------------------------------------------------------------
(* Hosts that are known to be somewhere, and how the stages hand them on:  *)
(* records of the discovery, ports of records, services among those ports. *)
Known(h, ip) == IsHost(h) /\ h # Nobody /\ (h.kind = "ip" => ip = h.addr)

HostInv ==
  /\ \E j \in Jobs : targets = j.targets /\ profile = j.profile
  /\ next \in Nat \ {0}
  /\ \A r \in hosts \cup enumHosts : Known(r.host, r.ip)
  /\ \A c \in sent : Spells[c.name] # <<>>
  /\ DOMAIN probe \subseteq hosts \X Ports
  /\ services \subseteq DOMAIN probe

LEMMA CurrentIsTarget ==
  ASSUME HostInv, next <= Len(targets)
  PROVE  IsTarget(Current)
<1>1. PICK j \in Jobs : targets = j.targets
  BY DEF HostInv
<1>2. targets \in Seq(Range(targets)) /\ \A t \in Range(targets) : IsTarget(t)
  BY <1>1, ReconAssumption
<1>3. next \in DOMAIN targets
  BY <1>2 DEF HostInv
<1> QED  BY <1>2, <1>3 DEF Current, Range

LEMMA ResolvedIsKnown ==
  ASSUME NEW labels, NEW ips, Resolves(labels, ips)
  PROVE  labels # <<>> /\ ips \in (SUBSET Addresses) \ {{}}
BY ReconAssumption DEF Resolves

LEMMA NameIsKnown ==
  ASSUME NEW labels, labels # <<>>, NEW by, NEW ips,
         NEW r \in HostRecords(by, Name(labels), ips)
  PROVE  Known(r.host, r.ip)
BY DEF HostRecords, Known, IsHost, Name, Nobody

LEMMA DiscoveryKeepsHosts ==
  ASSUME HostInv, NextDiscovery, UNCHANGED <<targets, profile, probe, services>>
  PROVE  HostInv'
<1> USE DEF HostInv
<1>1. CASE ExpandTarget
  <2>1. IsTarget(Current)
    BY <1>1, CurrentIsTarget DEF ExpandTarget, Discovering
  <2>2. \A a \in AddressesOf(Current.value) : Known(Address(a), a)
    BY <1>1, <2>1 DEF ExpandTarget, AddressesOf, Expand, IsTarget, IsHost, Known, Nobody, Address, Name
  <2> QED
    BY <1>1, <2>2 DEF ExpandTarget, dVars, NextTarget, EnumerationUnchanged
<1>2. CASE ResolveTarget
  <2>1. Current.value = Name(Current.value.labels)
    BY <1>2, CurrentIsTarget DEF ResolveTarget, Discovering, IsTarget, IsHost, Address
  <2>2. \A ips : Resolves(Current.value.labels, ips) =>
          \A r \in HostRecords(ByTarget, Current.value, ips) : Known(r.host, r.ip)
    BY <2>1, ResolvedIsKnown, NameIsKnown
  <2>3. next' \in Nat \ {0}
    BY <1>2 DEF ResolveTarget, AfterResolving, NextTarget
  <2>4. PICK more : hosts' = hosts \cup more /\ \A r \in more : Known(r.host, r.ip)
    <3>1. CASE hosts' = hosts
      BY <3>1
    <3>2. CASE hosts' # hosts
      BY <1>2, <2>2, <3>2 DEF ResolveTarget
    <3> QED  BY <3>1, <3>2
  <2>5. UNCHANGED <<targets, profile, enumHosts, sent, probe, services>>
    BY <1>2 DEF ResolveTarget, EnumerationUnchanged
  <2> QED
    BY <2>3, <2>4, <2>5
<1>3. CASE StartEnumeration
  BY <1>3 DEF StartEnumeration
<1>4. ASSUME NEW c \in DOMAIN Spells, LookupCandidate(c)
      PROVE  HostInv'
  <2>1. UNCHANGED <<targets, profile, next, hosts, enumHosts, probe, services>>
    BY <1>4 DEF LookupCandidate
  <2>2. \A d \in sent' : Spells[d.name] # <<>>
    <3>1. CASE sent' = sent
      BY <3>1
    <3>2. CASE sent' # sent
      <4>1. PICK ips : Resolves(Spells[c], ips) /\ sent' = sent \cup {[name |-> c, ips |-> ips]}
        BY <1>4, <3>2 DEF LookupCandidate
      <4> QED  BY <4>1, ResolvedIsKnown
    <3> QED  BY <3>1, <3>2
  <2> QED  BY <2>1, <2>2
<1>5. ASSUME NEW c \in sent, ReceiveCandidate(c)
      PROVE  HostInv'
  <2>1. \A r \in HostRecords(c.name, Name(Spells[c.name]), c.ips) : Known(r.host, r.ip)
    BY NameIsKnown
  <2>2. PICK more : enumHosts' = enumHosts \cup more /\ \A r \in more : Known(r.host, r.ip)
    <3>1. CASE enumHosts' = enumHosts
      BY <3>1
    <3>2. CASE enumHosts' # enumHosts
      BY <1>5, <2>1, <3>2 DEF ReceiveCandidate
    <3> QED  BY <3>1, <3>2
  <2>3. /\ UNCHANGED <<targets, profile, next, hosts, probe, services>>
        /\ sent' = sent \ {c}
    BY <1>5 DEF ReceiveCandidate
  <2> QED
    BY <2>2, <2>3
<1>6. CASE EndEnumeration
  BY <1>6 DEF EndEnumeration, Collected, NextTarget
<1> QED  BY <1>1, <1>2, <1>3, <1>4, <1>5, <1>6 DEF NextDiscovery

LEMMA PortsKeepHosts ==
  ASSUME HostInv, NextPortScan, UNCHANGED <<targets, profile, dVars>>
  PROVE  HostInv'
<1> USE DEF HostInv, dVars
<1>1. CASE StartPorts
  BY <1>1 DEF StartPorts
<1>2. ASSUME NEW h \in DOMAIN scan, StartHost(h) \/ HostDone(h)
      PROVE  HostInv'
  BY <1>2 DEF StartHost, HostDone
<1>3. ASSUME NEW k \in DOMAIN probe,
             \/ Acquire(k) \/ AcquireFails(k) \/ LimiterFails(k)
             \/ Dial(k) \/ Send(k) \/ SendGivenUp(k)
      PROVE  HostInv'
  BY <1>3 DEF Acquire, AcquireFails, LimiterFails, Dial, Send, SendGivenUp, Becomes
<1>4. CASE EndPorts
  BY <1>4 DEF EndPorts, pVars
<1> QED  BY <1>1, <1>2, <1>3, <1>4 DEF NextPortScan, NextPortGoroutine

-----------------------------------------------------------------------------
(* The request in flight: its host can be dialled, its known address is    *)
(* one of its first host, and a connection stands only where the scope     *)
(* allows it.  Headers are pinned to the session's own host, and only      *)
(* after the login, when the session no longer changes.                    *)
DialInv ==
  /\ DOMAIN req = DOMAIN Idle
  /\ req.state \in {"idle", "dial", "connected", "answered", "failed"}
  /\ IsHost(req.host)
  /\ req.state # "idle" => Known(req.origHost, req.origIP)
  /\ stage = "login" /\ login = "page" => req.origHost = profile.url
  /\ stage = "login" /\ login \in {"page", "submit"} => req.state # "idle"
  /\ req.state = "connected" => MayReach(req.host, req.ip)

SessionInv ==
  /\ req.headers => req.pinned # Nobody /\ req.pinned = req.host
  /\ req.pinned # Nobody => session.state = "authenticated" /\ req.pinned = session.host
  /\ session.headers => session.state = "authenticated"
  /\ stage = "login" => req.pinned = Nobody

WorkInv ==
  /\ todo \cup crawlTargets \subseteq services
  /\ work \notin {"none", "next"} => at \in services

NetInv == DialInv /\ SessionInv /\ WorkInv

LEMMA RequestFields ==
  ASSUME NEW host, NEW origHost, NEW origIP, NEW max, NEW pinned, NEW secret
  PROVE  LET r == Request(host, origHost, origIP, max, pinned, secret) IN
         /\ DOMAIN r = DOMAIN Idle
         /\ r.state = "dial" /\ r.host = host /\ r.origHost = origHost /\ r.origIP = origIP
         /\ r.pinned = pinned /\ r.headers = FALSE
BY DEF Request, Idle

LEMMA IdleFields ==
  /\ Idle.state = "idle" /\ IsHost(Idle.host)
  /\ Idle.pinned = Nobody /\ Idle.headers = FALSE
BY DEF Idle, Nobody, IsHost, Name

LEMMA InScopeIsKnown ==
  ASSUME NEW host, NEW ip, IsHost(host), InScopeAt(host, ip)
  PROVE  Known(host, ip)
BY ResolvedIsKnown DEF InScopeAt, IsHost, Known, Nobody, Name, Address

(* One step of a request: a dial goes where the scope says, a redirect     *)
(* forgets the headers.                                                    *)
LEMMA ExchangeKeepsNet ==
  ASSUME NetInv, NextRequest, UNCHANGED <<stage, login, profile, session, wVars, services>>
  PROVE  NetInv'
<1> USE DEF NetInv, DialInv, SessionInv
<1>0. WorkInv'
  BY DEF WorkInv, wVars
<1>5. DOMAIN req = {"state", "host", "ip", "origHost", "origIP", "via", "max", "pinned",
                    "headers", "secret"}
  BY DEF Idle
<1>1. ASSUME NEW ip \in Addresses, Connect(ip)
      PROVE  NetInv'
  <2>1. /\ req'.state = "connected" /\ req'.ip = ip
        /\ req'.host = req.host /\ req'.origHost = req.origHost /\ req'.origIP = req.origIP
        /\ req'.pinned = req.pinned
        /\ req'.headers => req.pinned # Nobody /\ req.pinned = req.host
    BY <1>1, <1>5 DEF Connect
  <2>2. DialAllowed(req.host, ip) /\ Known(req.host, ip)
    <3>1. CASE req.host = req.origHost
      BY <1>1, <3>1 DEF Connect
    <3>2. CASE req.host # req.origHost
      BY <1>1, <3>2, InScopeIsKnown DEF Connect, InScopeAt
    <3> QED  BY <3>1, <3>2
  <2>3. MayReach(req.host, ip)
    BY <2>2, ScopeDecides DEF Known
  <2> QED  BY <1>0, <1>1, <1>5, <2>1, <2>2, <2>3 DEF Connect
<1>2. CASE Answer
  BY <1>0, <1>2, <1>5 DEF Answer
<1>3. ASSUME NEW h \in Locations, Redirect(h)
      PROVE  NetInv'
  <2>1. IsHost(h)
    BY SafeDialAssumption
  <2>2. CASE req' = [req EXCEPT !.state = "answered"]
    BY <1>0, <1>3, <1>5, <2>2 DEF Redirect
  <2>3. ASSUME NEW keep,
               req' = [req EXCEPT !.state = "dial", !.host = h, !.ip = -1, !.via = @ + 1,
                                  !.headers = FALSE, !.secret = keep]
        PROVE  NetInv'
    <3>1. /\ DOMAIN req' = DOMAIN req /\ req'.state = "dial" /\ req'.host = h
          /\ req'.origHost = req.origHost /\ req'.origIP = req.origIP
          /\ req'.pinned = req.pinned /\ req'.headers = FALSE
      BY ONLY <1>5, <2>3
    <3>2. req.state = "connected"
      BY ONLY <1>3 DEF Redirect
    <3>3. DialInv'
      BY <2>1, <3>1, <3>2
    <3>4. SessionInv'
      BY <3>1
    <3> QED  BY <1>0, <3>3, <3>4
  <2> QED  BY <1>3, <2>2, <2>3 DEF Redirect
<1>4. CASE FailRequest
  BY <1>0, <1>4, <1>5 DEF FailRequest
<1> QED  BY <1>1, <1>2, <1>3, <1>4 DEF NextRequest

(* A login leaves the request idle or sends one that is bound to the page  *)
(* it was found on; the session is made with no request in flight.         *)
LEMMA LoginKeepsNet ==
  ASSUME HostInv, NetInv, NextLogin, UNCHANGED <<wVars, services>>
  PROVE  NetInv'
<1> USE IdleFields DEF NetInv, DialInv, SessionInv
<1>0. WorkInv'
  BY DEF WorkInv, wVars
<1>p. IsHost(profile.url) /\ IsHost(profile.host)
  BY LoginAssumption DEF HostInv
<1>f. ASSUME LoginFails, stage = "login", req' = req \/ req' = Idle
      PROVE  NetInv'
  BY <1>0, <1>f DEF LoginFails, Session
<1>s. ASSUME NEW jar, NEW headers, LoginSucceeds(jar, headers), stage = "login",
             req' = req \/ req' = Idle
      PROVE  NetInv'
  BY <1>0, <1>s DEF LoginSucceeds, Session, Proceed
<1>r. ASSUME NEW STATE host, NEW STATE orig, NEW STATE ip, NEW STATE secret,
             req' = Request(host, orig, ip, profile.redirects, Nobody, secret),
             IsHost(host), Known(orig, ip), login' = "page" => orig = profile.url,
             stage = "login", UNCHANGED <<stage, ctx, err, profile, session>>
      PROVE  NetInv'
  <2>1. /\ DOMAIN req' = DOMAIN Idle
        /\ req'.state = "dial" /\ req'.host = host /\ req'.origHost = orig /\ req'.origIP = ip
        /\ req'.pinned = Nobody /\ req'.headers = FALSE
    BY <1>r DEF Request, Idle
  <2>2. DialInv'
    BY <1>r, <2>1
  <2> QED  BY <1>0, <1>r, <2>1, <2>2
<1>1. CASE SkipLogin
  BY <1>0, <1>1 DEF SkipLogin, Proceed, LoggingIn
<1>2. CASE StaticLogin
  BY <1>2, <1>f, <1>s DEF StaticLogin, LoggingIn
<1>3. CASE FetchLoginPage
  <2>1. CASE \E ip \in Addresses : InScopeAt(profile.url, ip)
             /\ req' = Request(profile.url, profile.url, ip, profile.redirects, Nobody, FALSE)
             /\ login' = "page" /\ fetched' = 1 /\ Keep /\ UNCHANGED <<profile, links, session>>
    <3>1. PICK ip \in Addresses :
            /\ InScopeAt(profile.url, ip)
            /\ req' = Request(profile.url, profile.url, ip, profile.redirects, Nobody, FALSE)
      BY <2>1
    <3>2. Known(profile.url, ip)
      BY <1>p, <3>1, InScopeIsKnown
    <3> QED  BY <1>p, <1>r, <1>3, <2>1, <3>1, <3>2 DEF FetchLoginPage, LoggingIn, Keep
  <2>2. CASE LoginFails /\ UNCHANGED req
    BY <1>f, <1>3, <2>2 DEF FetchLoginPage, LoggingIn
  <2> QED  BY <1>3, <2>1, <2>2 DEF FetchLoginPage
<1>4. CASE NoFormHere
  <2>1. CASE LoginFails
    BY <1>f, <1>4, <2>1 DEF NoFormHere, LoggingIn, LoginFails
  <2>2. CASE ~LoginFails
    <3>1. /\ req' = Request(profile.url, profile.url, req.origIP, profile.redirects, Nobody, FALSE)
          /\ stage = "login" /\ login = "page" /\ UNCHANGED <<stage, ctx, err, profile, session>>
      BY <1>4, <2>2 DEF NoFormHere, LoggingIn, Keep
    <3> QED  BY <1>p, <1>r, <3>1
  <2> QED  BY <2>1, <2>2
<1>5. CASE NoLoginForm
  BY <1>5, <1>f DEF NoLoginForm, LoggingIn
<1>6. ASSUME NEW h \in Locations, SubmitForm(h)
      PROVE  NetInv'
  <2>1. CASE req' = Request(h, req.origHost, req.origIP, profile.redirects, Nobody, TRUE)
             /\ login' = "submit" /\ Keep /\ UNCHANGED <<profile, fetched, links, session>>
    <3>1. stage = "login" /\ login = "page" /\ UNCHANGED <<stage, ctx, err, profile, session>>
      BY <1>6, <2>1 DEF SubmitForm, LoggingIn, Keep
    <3>2. IsHost(h) /\ Known(req.origHost, req.origIP)
      BY <3>1, SafeDialAssumption
    <3> QED  BY <1>r, <2>1, <3>1, <3>2
  <2>2. CASE LoginFails /\ req' = Idle
    BY <1>f, <1>6, <2>2 DEF SubmitForm, LoggingIn
  <2> QED  BY <1>6, <2>1, <2>2 DEF SubmitForm
<1>7. CASE Evaluated
  BY <1>7, <1>f, <1>s DEF Evaluated, LoggingIn
<1> QED  BY <1>1, <1>2, <1>3, <1>4, <1>5, <1>6, <1>7 DEF NextLogin

(* A probe, a page and a script are fetched from the host and the address  *)
(* of a service; only a page gets the session's headers, if it is theirs.  *)
LEMMA ServiceIsKnown ==
  ASSUME HostInv, NEW k \in services
  PROVE  Known(HostOf(k), k[1].ip)
<1>1. k \in hosts \X Ports
  BY DEF HostInv
<1>2. k[1] \in hosts
  BY <1>1
<1> QED  BY <1>2 DEF HostInv, HostOf

LEMMA WebKeepsNet ==
  ASSUME HostInv, NetInv, NextWeb, UNCHANGED <<lVars, services>>
  PROVE  NetInv'
<1> USE DEF lVars
<1>w. DialInv /\ SessionInv /\ WorkInv
  BY DEF NetInv
<1>i. ASSUME WorkInv', req' = req \/ req' = Idle, stage' # "login"
      PROVE  NetInv'
  BY <1>w, <1>i, IdleFields DEF NetInv, DialInv, SessionInv
<1>f. ASSUME NEW STATE k, k \in services, NEW STATE max, NEW STATE pinned,
             pinned \in {Nobody, PinnedFor(HostOf(k))},
             WorkInv', req' = Fetch(k, max, pinned), stage' # "login"
      PROVE  NetInv'
  <2>1. Known(HostOf(k), k[1].ip)
    BY <1>f, ServiceIsKnown
  <2>2. /\ DOMAIN req' = DOMAIN Idle
        /\ req'.state = "dial" /\ req'.host = HostOf(k) /\ req'.origHost = HostOf(k)
        /\ req'.origIP = k[1].ip /\ req'.pinned = pinned /\ req'.headers = FALSE
    BY <1>f DEF Fetch, Request, Idle
  <2>3. DialInv'
    BY <1>f, <2>1, <2>2 DEF DialInv, Known
  <2>4. pinned # Nobody => session.headers /\ pinned = session.host
    BY <1>f DEF PinnedFor, HasHeaders
  <2>5. SessionInv'
    BY <1>w, <1>f, <2>2, <2>4 DEF SessionInv
  <2> QED  BY <1>f, <2>3, <2>5 DEF NetInv
<1>a. ASSUME WebAborts, UNCHANGED todo, crawlTargets' \subseteq services
      PROVE  NetInv'
  <2>1. WorkInv'
    BY <1>w, <1>a DEF WebAborts, WorkInv
  <2> QED  BY <1>a, <1>i, <2>1 DEF WebAborts, Abort
<1>1. CASE StartProbes
  <2>1. WorkInv'
    BY <1>w, <1>1 DEF StartProbes, WorkInv
  <2> QED  BY <1>1, <1>i, <2>1 DEF StartProbes, Keep
<1>2. ASSUME NEW k \in todo, StartProbe(k)
      PROVE  NetInv'
  <2>1. WorkInv' /\ k \in services /\ stage' # "login"
    BY <1>w, <1>2 DEF StartProbe, Working, WorkInv, Keep
  <2> QED  BY <1>2, <1>i, <1>f, <2>1 DEF StartProbe
<1>3. ASSUME NEW k \in todo, StartCrawl(k)
      PROVE  NetInv'
  <2>1. WorkInv' /\ stage' # "login"
    BY <1>w, <1>3 DEF StartCrawl, Working, WorkInv, Keep
  <2> QED  BY <1>3, <1>i, <2>1 DEF StartCrawl
<1>4. CASE TryHTTP
  <2>1. WorkInv' /\ at \in services /\ stage' # "login"
    BY <1>w, <1>4 DEF TryHTTP, Working, WorkInv, Keep
  <2> QED  BY <1>4, <1>f, <2>1 DEF TryHTTP
<1>5. CASE NotHTTP
  <2>1. WorkInv' /\ stage' # "login"
    BY <1>w, <1>5 DEF NotHTTP, Working, WorkInv, Keep
  <2> QED  BY <1>5, <1>i, <2>1 DEF NotHTTP
<1>6. CASE StoreProbe
  <2>1. at \in services
    BY <1>w, <1>6 DEF StoreProbe, WorkInv
  <2>2. CASE WebAborts
    BY <1>w, <1>6, <1>a, <2>1, <2>2 DEF StoreProbe, WorkInv
  <2>3. CASE ~WebAborts
    <3>1. WorkInv' /\ stage' # "login" /\ req' = Idle
      BY <1>w, <1>6, <2>1, <2>3 DEF StoreProbe, WorkInv, Keep
    <3> QED  BY <1>i, <3>1
  <2> QED  BY <2>2, <2>3
<1>7. CASE EndProbes
  <2>1. WorkInv' /\ stage' # "login"
    BY <1>w, <1>7 DEF EndProbes, Proceed, Working, WorkInv
  <2> QED  BY <1>7, <1>i, <2>1 DEF EndProbes
<1>8. CASE CrawlCancelled \/ PassVisited
  <2>1. WorkInv' /\ stage' # "login"
    BY <1>w, <1>8 DEF CrawlCancelled, PassVisited, Crawling, Working, WorkInv, Keep
  <2> QED  BY <1>8, <1>i, <2>1 DEF CrawlCancelled, PassVisited
<1>9. CASE Visit
  <2>1. WorkInv' /\ at \in services /\ stage' # "login"
    BY <1>w, <1>9 DEF Visit, Crawling, Working, WorkInv, Keep
  <2> QED  BY <1>9, <1>f, <2>1 DEF Visit
<1>10. CASE PageFailed
  <2>1. WorkInv' /\ stage' # "login"
    BY <1>w, <1>10 DEF PageFailed, Working, WorkInv, Keep
  <2> QED  BY <1>10, <1>i, <2>1 DEF PageFailed
<1>11. ASSUME NEW answer \in Answered, PageFetched(answer)
       PROVE  NetInv'
  <2>1. WorkInv' /\ stage' # "login" /\ req' = Idle
    BY <1>w, <1>11 DEF PageFetched, Working, WorkInv, Keep
  <2> QED  BY <1>i, <2>1
<1>12. CASE StoreCrawl
  <2>1. CASE WebAborts
    BY <1>w, <1>12, <1>a, <2>1 DEF StoreCrawl, WorkInv
  <2>2. CASE ~WebAborts
    <3>1. WorkInv' /\ stage' # "login" /\ req' = req
      BY <1>w, <1>12, <2>2 DEF StoreCrawl, Crawling, Working, WorkInv, Keep
    <3> QED  BY <1>i, <3>1
  <2> QED  BY <2>1, <2>2
<1>13. ASSUME NEW s \in scripts, FetchScript(s)
       PROVE  NetInv'
  <2>1. WorkInv' /\ at \in services /\ stage' # "login"
    BY <1>w, <1>13 DEF FetchScript, Working, WorkInv, Keep
  <2> QED  BY <1>13, <1>f, <2>1 DEF FetchScript
<1>14. CASE ScriptSkipped
  <2>1. WorkInv' /\ stage' # "login"
    BY <1>w, <1>14 DEF ScriptSkipped, Working, WorkInv, Keep
  <2> QED  BY <1>14, <1>i, <2>1 DEF ScriptSkipped
<1>15. CASE ScriptFetched
  <2>1. CASE WebAborts
    BY <1>w, <1>15, <1>a, <2>1 DEF ScriptFetched, WorkInv
  <2>2. CASE ~WebAborts
    <3>1. WorkInv' /\ stage' # "login" /\ req' = Idle
      BY <1>w, <1>15, <2>2 DEF ScriptFetched, Working, WorkInv, Keep
    <3> QED  BY <1>i, <3>1
  <2> QED  BY <2>1, <2>2
<1>16. CASE EndCrawl \/ EndCrawls
  <2>1. WorkInv' /\ stage' # "login" /\ req' = req
    BY <1>w, <1>16 DEF EndCrawl, EndCrawls, Proceed, Working, WorkInv, Keep
  <2> QED  BY <1>i, <2>1
<1> QED
  BY <1>1, <1>2, <1>3, <1>4, <1>5, <1>6, <1>7, <1>8, <1>9, <1>10, <1>11, <1>12, <1>13, <1>14,
     <1>15, <1>16 DEF NextWeb

-----------------------------------------------------------------------------
LEMMA NetInvInit ==
  ASSUME Init
  PROVE  HostInv /\ NetInv
<1> USE IdleFields DEF Init
<1>1. HostInv
  BY DEF HostInv, InitDiscovery, InitPortScan
<1>2. DialInv
  BY DEF DialInv, InitLogin
<1>3. SessionInv
  BY DEF SessionInv, InitLogin, NoSession
<1>4. WorkInv
  BY DEF WorkInv, InitWeb
<1> QED  BY <1>1, <1>2, <1>3, <1>4 DEF NetInv

(* What the stages without a request leave alone.                          *)
LEMMA OtherStepsKeepNet ==
  ASSUME NetInv, UNCHANGED <<req, lVars, wVars>>, services \subseteq services',
         stage' = "login" => stage = "login"
  PROVE  NetInv'
BY DEF NetInv, DialInv, SessionInv, WorkInv, lVars, wVars

LEMMA NetInvStep ==
  ASSUME HostInv, NetInv, [Next]_vars
  PROVE  HostInv' /\ NetInv'
<1>1. CASE CheckTargets /\ UNCHANGED targets
  <2>1. UNCHANGED <<targets, dVars, pVars, req, lVars, wVars>> /\ stage' # "login"
    BY <1>1 DEF CheckTargets, StagesUnchanged, RunFails, Proceed
  <2>2. HostInv'
    BY <2>1 DEF HostInv, dVars, pVars, lVars
  <2> QED  BY <2>1, <2>2, OtherStepsKeepNet DEF pVars
<1>2. CASE (Finish \/ Interrupt) /\ UNCHANGED targets
  <2>1. /\ UNCHANGED <<targets, dVars, pVars, req, lVars, wVars>>
        /\ stage' = "login" => stage = "login"
    BY <1>2 DEF Finish, Interrupt, Cancel, StagesUnchanged
  <2>2. HostInv'
    BY <2>1 DEF HostInv, dVars, pVars, lVars
  <2> QED  BY <2>1, <2>2, OtherStepsKeepNet DEF pVars
<1>3. CASE Discover /\ UNCHANGED targets
  <2>1. HostInv'
    BY <1>3, DiscoveryKeepsHosts DEF Discover, pVars, lVars
  <2>2. stage' # "login"
    BY <1>3 DEF Discover, NextDiscovery, ExpandTarget, ResolveTarget, StartEnumeration,
                LookupCandidate, ReceiveCandidate, EndEnumeration, Discovering, Abort, Keep
  <2> QED  BY <1>3, <2>1, <2>2, OtherStepsKeepNet DEF Discover, pVars
<1>4. CASE ScanPorts /\ UNCHANGED targets
  <2>1. HostInv'
    BY <1>4, PortsKeepHosts DEF ScanPorts, lVars
  <2>2. services \subseteq services' /\ (stage' = "login" => stage = "login")
    BY <1>4 DEF ScanPorts, NextPortScan, NextPortGoroutine, StartPorts, StartHost, HostDone, Acquire,
                AcquireFails, LimiterFails, Dial, Send, SendGivenUp, EndPorts, Proceed, Abort,
                Keep, pVars
  <2> QED  BY <1>4, <2>1, <2>2, OtherStepsKeepNet DEF ScanPorts
<1>5. CASE LogIn /\ UNCHANGED targets
  <2>1. UNCHANGED profile
    BY <1>5 DEF LogIn, NextLogin, SkipLogin, StaticLogin, FetchLoginPage, NoFormHere, NoLoginForm,
                SubmitForm, Evaluated, LoginFails, LoginSucceeds
  <2>2. HostInv'
    BY <1>5, <2>1 DEF LogIn, HostInv, dVars, pVars
  <2> QED  BY <1>5, <2>2, LoginKeepsNet DEF LogIn, pVars
<1>6. CASE Web /\ UNCHANGED targets
  <2>1. HostInv'
    BY <1>6 DEF Web, HostInv, dVars, pVars, lVars
  <2> QED  BY <1>6, <2>1, WebKeepsNet DEF Web, pVars
<1>7. CASE Exchange /\ UNCHANGED targets
  <2>1. HostInv'
    BY <1>7 DEF Exchange, HostInv, dVars, pVars, lVars
  <2> QED  BY <1>7, <2>1, ExchangeKeepsNet DEF Exchange, Keep, lVars, pVars
<1>8. CASE UNCHANGED vars
  BY <1>8 DEF vars, HostInv, NetInv, DialInv, SessionInv, WorkInv, dVars, pVars, lVars, wVars
<1> QED
  BY <1>1, <1>2, <1>3, <1>4, <1>5, <1>6, <1>7, <1>8 DEF Next, Progress, Interrupt, Quiet

LEMMA NetInvHolds == Spec => [](HostInv /\ NetInv)
<1>1. Init => HostInv /\ NetInv
  BY NetInvInit
<1>2. HostInv /\ NetInv /\ [Next]_vars => (HostInv /\ NetInv)'
  BY NetInvStep
<1> QED  BY <1>1, <1>2, PTL DEF Spec

(* No connection of a login, a probe, a crawl or a script fetch leaves the *)
(* scope: dialValidated checks the address it dials, and CheckRedirect the *)
(* host it goes to, whatever the rules, the names and the answers are.     *)
THEOREM NoConnectionOutOfScope == Spec => []ConnectionsInScope
<1>1. HostInv /\ NetInv => ConnectionsInScope
  BY DEF NetInv, DialInv, ConnectionsInScope
<1> QED  BY <1>1, NetInvHolds, PTL

(* The headers of a session are attached to requests for its own host, by  *)
(* HeadersFor and PinnedRoundTripper, and not before the login succeeded.  *)
THEOREM CredentialsStayHome == Spec => []SessionStaysHome
<1>1. HostInv /\ NetInv => SessionStaysHome
  BY DEF NetInv, SessionInv, SessionStaysHome
<1> QED  BY <1>1, NetInvHolds, PTL

-----------------------------------------------------------------------------
(* What discoverAndResolve knows of a name it has seen: the name has a     *)
(* host, here or in the enumeration that is running, or it was warned of.  *)
Held(h) == \E r \in enumHosts : r.host = h
Waiting(name) == \E c \in sent : c.name = name

SeenInv ==
  /\ doing \in {"resolve", "enumerate", "receive"}
  /\ doing # "resolve" => next <= Len(targets) /\ Current.value \in seen
  /\ doing # "receive" => sent = {} /\ enumHosts = {}
  /\ \A c \in sent : <<next, c.name>> \in reported /\ c.ips # {}
  /\ \A r \in enumHosts :
       <<next, r.from.by>> \in reported /\ r.host = Name(Spells[r.from.by])
  /\ \A i \in 1 .. next - 1 :
       targets[i].type \in {"host", "domain"} => targets[i].value \in seen
  /\ \A h \in seen : Scanned(h) \/ Explained(h) \/ Held(h)
  /\ \A r \in reported : Name(Spells[r[2]]) \in seen \/ Waiting(r[2])

AssetInv ==
  /\ \A a \in assets : a.host.kind = "name" => a.host \in seen
  /\ OncePerName

LEMMA RecordsHaveHost ==
  ASSUME NEW by, NEW h, NEW ips, ips # {}
  PROVE  \E r \in HostRecords(by, h, ips) : r.host = h
<1>1. PICK a : a \in ips
  OBVIOUS
<1>2. [from |-> From(by), host |-> h, ip |-> a] \in HostRecords(by, h, ips)
  BY <1>1 DEF HostRecords
<1> QED  BY <1>2

(* A warning, a report and a record are never taken back.                  *)
LEMMA ReasonsStay ==
  ASSUME targets' = targets, hosts \subseteq hosts', warned \subseteq warned',
         reported \subseteq reported', NEW h
  PROVE  /\ Scanned(h) => Scanned(h)'
         /\ Explained(h) => Explained(h)'
<1>1. Scanned(h) => Scanned(h)'
  BY DEF Scanned
<1>2. Explained(h) => Explained(h)'
  BY DEF Explained
<1> QED  BY <1>1, <1>2

(* What Persisted says of one new name.                                    *)
LEMMA PersistedIsExplained ==
  ASSUME NEW by, NEW h, NEW ips, ips # {}, NEW records, Persisted(by, h, ips, records)
  PROVE  /\ warned \subseteq warned'
         /\ assets' \in {assets, assets \cup {Asset(by, h)}}
         /\ records \in {{}, HostRecords(by, h, ips)}
         /\ h \in warned' \/ \E r \in records : r.host = h
BY RecordsHaveHost DEF Persisted

LEMMA DiscoveryKeepsSeen ==
  ASSUME HostInv, SeenInv, NextDiscovery, UNCHANGED targets
  PROVE  SeenInv'
<1> USE DEF SeenInv
<1>0. next \in Nat /\ 1 <= next
  BY DEF HostInv
<1>m. ASSUME hosts \subseteq hosts', warned \subseteq warned', reported \subseteq reported', NEW h
      PROVE  (Scanned(h) => Scanned(h)') /\ (Explained(h) => Explained(h)')
  BY <1>m, ReasonsStay
<1>w. \A h : h \in warned' => Explained(h)'
  BY DEF Explained
<1>1. CASE ExpandTarget
  <2>1. CASE UNCHANGED dVars
    BY <2>1 DEF dVars, Current, Scanned, Explained, Held, Waiting
  <2>2. CASE ~UNCHANGED dVars
    <3>1. /\ doing = "resolve" /\ next <= Len(targets) /\ Current.type \in {"ip", "cidr"}
          /\ next' = next + 1 /\ doing' = "resolve"
          /\ UNCHANGED <<sent, enumHosts, reported, warned>>
          /\ seen' \in {seen, seen \cup {Current.value}}
          /\ Current.type = "cidr" => seen' = seen
          /\ hosts' = hosts \cup {[from |-> From(ByTarget), host |-> Address(a), ip |-> a]
                                    : a \in AddressesOf(Current.value)}
      BY <1>1, <2>2 DEF ExpandTarget, Discovering, NextTarget, EnumerationUnchanged
    <3>0. PICK h : h = Current.value
      OBVIOUS
    <3>2. Current.type = "ip" => Scanned(h)'
      <4> SUFFICES ASSUME Current.type = "ip"
                   PROVE  Scanned(h)'
        OBVIOUS
      <4>1. h = Address(h.addr) /\ h.addr \in AddressesOf(h)
        BY <3>0, <3>1, CurrentIsTarget DEF IsTarget, IsHost, AddressesOf, Name
      <4>2. PICK r : r = [from |-> From(ByTarget), host |-> Address(h.addr), ip |-> h.addr]
        OBVIOUS
      <4>3. r \in hosts' /\ r.host = h
        BY <3>0, <3>1, <4>1, <4>2
      <4> QED  BY <4>3 DEF Scanned
    <3>3. \A g \in seen' : Scanned(g)' \/ Explained(g)' \/ Held(g)'
      BY <3>0, <3>1, <3>2, <1>m DEF Held
    <3>4. \A i \in 1 .. next' - 1 :
            targets[i].type \in {"host", "domain"} => targets[i].value \in seen'
      BY <1>0, <3>1 DEF Current
    <3> QED  BY <3>1, <3>3, <3>4 DEF Waiting
  <2> QED  BY <2>1, <2>2
<1>2. CASE ResolveTarget
  <2>0. PICK h : h = Current.value
    OBVIOUS
  <2>1. /\ doing = "resolve" /\ next <= Len(targets)
        /\ Current.type \in {"host", "domain"}
        /\ seen' = seen \cup {h}
        /\ UNCHANGED <<sent, enumHosts, reported, pending>>
        /\ \/ next' = next + 1 /\ doing' = "resolve"
           \/ next' = next /\ doing' = "enumerate"
    BY <1>2, <2>0 DEF ResolveTarget, Discovering, AfterResolving, NextTarget, EnumerationUnchanged
  <2>2. /\ hosts \subseteq hosts' /\ warned \subseteq warned'
        /\ h \in seen \/ h \in warned' \/ Scanned(h)'
    <3>1. CASE ~New(h) /\ UNCHANGED <<hosts, warned>>
      BY <3>1 DEF New
    <3>2. CASE warned' = warned \cup {h} /\ UNCHANGED hosts
      BY <3>2
    <3>3. CASE \E ips \in UNION Range(Answers) :
                 /\ Resolves(h.labels, ips)
                 /\ \E records \in {{}, HostRecords(ByTarget, h, ips)} :
                      hosts' = hosts \cup records /\ Persisted(ByTarget, h, ips, records)
      <4>1. PICK ips, records : /\ Resolves(h.labels, ips)
                                /\ hosts' = hosts \cup records
                                /\ Persisted(ByTarget, h, ips, records)
        BY <3>3
      <4>2. ips # {}
        BY <4>1, ResolvedIsKnown
      <4>3. /\ warned \subseteq warned'
            /\ h \in warned' \/ \E r \in records : r.host = h
        BY ONLY <4>1, <4>2, PersistedIsExplained
      <4>4. (\E r \in records : r.host = h) => Scanned(h)'
        BY <4>1 DEF Scanned
      <4> QED  BY <4>1, <4>3, <4>4
    <3> QED  BY <1>2, <2>0, <3>1, <3>2, <3>3 DEF ResolveTarget
  <2>3. \A g \in seen' : Scanned(g)' \/ Explained(g)' \/ Held(g)'
    BY <2>1, <2>2, <1>m, <1>w DEF Held
  <2>4. \A i \in 1 .. next' - 1 :
          targets[i].type \in {"host", "domain"} => targets[i].value \in seen'
    BY <1>0, <2>0, <2>1 DEF Current
  <2> QED  BY <1>0, <2>0, <2>1, <2>3, <2>4 DEF Waiting, Current
<1>3. CASE StartEnumeration
  BY <1>3 DEF StartEnumeration, Discovering, Current, Scanned, Explained, Held, Waiting
<1>4. ASSUME NEW c \in DOMAIN Spells, LookupCandidate(c)
      PROVE  SeenInv'
  <2>1. /\ doing = "receive"
        /\ UNCHANGED <<next, doing, seen, hosts, enumHosts, warned>>
    BY <1>4 DEF LookupCandidate, Discovering
  <2>2. CASE UNCHANGED <<sent, reported>>
    BY <2>1, <2>2 DEF Current, Scanned, Explained, Held, Waiting
  <2>3. CASE ~UNCHANGED <<sent, reported>>
    <3>1. PICK ips : /\ Resolves(Spells[c], ips)
                     /\ sent' = sent \cup {[name |-> c, ips |-> ips]}
                     /\ reported' = reported \cup {<<next, c>>}
      BY <1>4, <2>3 DEF LookupCandidate
    <3>2. ips # {}
      BY <3>1, ResolvedIsKnown
    <3>3. \A h \in seen' : Scanned(h)' \/ Explained(h)' \/ Held(h)'
      BY <2>1, <3>1, <1>m DEF Held
    <3>4. \A d \in sent' : <<next', d.name>> \in reported' /\ d.ips # {}
      BY <2>1, <3>1, <3>2
    <3>5. \A r \in reported' : Name(Spells[r[2]]) \in seen' \/ Waiting(r[2])'
      <4>1. [name |-> c, ips |-> ips] \in sent'
        BY <3>1
      <4>2. \A r \in reported : Waiting(r[2]) => Waiting(r[2])'
        BY <3>1 DEF Waiting
      <4>3. Waiting(c)'
        <5>1. [name |-> c, ips |-> ips].name = c
          OBVIOUS
        <5> QED  BY <4>1, <5>1 DEF Waiting
      <4> QED  BY <2>1, <3>1, <4>2, <4>3
    <3> QED  BY <2>1, <3>1, <3>3, <3>4, <3>5 DEF Current
  <2> QED  BY <2>2, <2>3
<1>5. ASSUME NEW c \in sent, ReceiveCandidate(c)
      PROVE  SeenInv'
  <2> DEFINE h == Name(Spells[c.name])
  <2>1. /\ doing = "receive"
        /\ seen' = seen \cup {h} /\ sent' = sent \ {c}
        /\ UNCHANGED <<next, doing, hosts, reported>>
    BY <1>5 DEF ReceiveCandidate, Discovering
  <2>2. /\ warned \subseteq warned' /\ enumHosts \subseteq enumHosts'
        /\ \A r \in enumHosts' : r \in enumHosts \/ (r.from.by = c.name /\ r.host = h)
        /\ h \in seen \/ h \in warned' \/ Held(h)'
    <3>1. CASE ~New(h) /\ UNCHANGED <<enumHosts, warned>>
      BY <3>1 DEF New
    <3>2. CASE \E records \in {{}, HostRecords(c.name, h, c.ips)} :
                 enumHosts' = enumHosts \cup records /\ Persisted(c.name, h, c.ips, records)
      <4>1. PICK records \in {{}, HostRecords(c.name, h, c.ips)} :
                 enumHosts' = enumHosts \cup records /\ Persisted(c.name, h, c.ips, records)
        BY <3>2
      <4>2. \A r \in records : r.from.by = c.name /\ r.host = h
        BY <4>1 DEF HostRecords, From
      <4> HIDE DEF h
      <4> QED  BY <4>1, <4>2, PersistedIsExplained DEF Held
    <3> QED  BY <1>5, <3>1, <3>2 DEF ReceiveCandidate
  <2>3. \A g \in seen' : Scanned(g)' \/ Explained(g)' \/ Held(g)'
    BY <2>1, <2>2, <1>m, <1>w DEF Held
  <2>4. \A r \in reported' : Name(Spells[r[2]]) \in seen' \/ Waiting(r[2])'
    BY <2>1 DEF Waiting
  <2>5. \A r \in enumHosts' :
          <<next', r.from.by>> \in reported' /\ r.host = Name(Spells[r.from.by])
    BY <2>1, <2>2
  <2> QED  BY <2>1, <2>2, <2>3, <2>4, <2>5 DEF Current
<1>6. CASE EndEnumeration
  <2>1. /\ doing = "receive" /\ next <= Len(targets) /\ sent = {}
        /\ next' = next + 1 /\ doing' = "resolve" /\ enumHosts' = {}
        /\ UNCHANGED <<seen, sent, reported>>
        /\ \/ hosts' = Collected /\ UNCHANGED warned
           \/ warned' = warned \cup {Current.value} /\ UNCHANGED hosts
    BY <1>6 DEF EndEnumeration, Discovering, NextTarget
  <2>2. \A g \in seen' : Scanned(g)' \/ Explained(g)'
    <3> SUFFICES ASSUME NEW g \in seen
                 PROVE  Scanned(g)' \/ Explained(g)'
      BY <2>1
    <3>1. CASE Scanned(g) \/ Explained(g)
      BY <2>1, <3>1, <1>m DEF Collected
    <3>2. ASSUME NEW r \in enumHosts, r.host = g
          PROVE  Scanned(g)' \/ Explained(g)'
      <4>1. CASE hosts' = Collected
        BY <3>2, <4>1 DEF Collected, Scanned
      <4>2. CASE warned' = warned \cup {Current.value}
        <5>1. <<next, r.from.by>> \in reported' /\ Name(Spells[r.from.by]) = g
          BY <2>1, <3>2
        <5>2. targets'[next] \in {targets[next]} /\ targets[next].value \in warned'
          BY <4>2 DEF Current
        <5> QED  BY <5>1, <5>2 DEF Explained
      <4> QED  BY <2>1, <4>1, <4>2
    <3> QED  BY <3>1, <3>2 DEF Held
  <2>3. \A i \in 1 .. next' - 1 :
          targets[i].type \in {"host", "domain"} => targets[i].value \in seen'
    BY <1>0, <2>1 DEF Current
  <2> QED  BY <2>1, <2>2, <2>3 DEF Waiting
<1> QED  BY <1>1, <1>2, <1>3, <1>4, <1>5, <1>6 DEF NextDiscovery

LEMMA NewAsset ==
  ASSUME AssetInv, NEW by, NEW h, assets' = assets \cup {Asset(by, h)}, seen \subseteq seen',
         h.kind = "name" => h \in seen' \ seen
  PROVE  AssetInv'
<1>1. Asset(by, h).host = h
  BY DEF Asset
<1>2. \A a \in assets : a.host.kind = "name" => a.host # h
  BY DEF AssetInv
<1>3. \A a \in assets' : a.host.kind = "name" => a.host \in seen'
  BY <1>1 DEF AssetInv
<1>4. OncePerName'
  BY <1>1, <1>2 DEF AssetInv, OncePerName
<1> QED  BY <1>3, <1>4 DEF AssetInv

LEMMA SameAssets ==
  ASSUME AssetInv, assets' = assets, seen \subseteq seen'
  PROVE  AssetInv'
BY DEF AssetInv, OncePerName

LEMMA DiscoveryKeepsAssets ==
  ASSUME HostInv, AssetInv, NextDiscovery
  PROVE  AssetInv'
<1>1. CASE ExpandTarget
  <2>1. CASE UNCHANGED dVars
    BY <2>1, SameAssets DEF dVars
  <2>2. CASE ~UNCHANGED dVars
    <3>1. /\ next <= Len(targets) /\ Current.type \in {"ip", "cidr"}
          /\ assets' = assets \cup {Asset(ByTarget, Current.value)} /\ seen \subseteq seen'
      BY <1>1, <2>2 DEF ExpandTarget, Discovering
    <3>2. Current.value.kind # "name"
      BY <3>1, CurrentIsTarget DEF IsTarget
    <3> QED  BY <3>1, <3>2, NewAsset
  <2> QED  BY <2>1, <2>2
<1>2. CASE ResolveTarget
  <2>0. PICK h : h = Current.value
    OBVIOUS
  <2>1. seen' = seen \cup {h} /\ (assets' = assets \/ New(h))
    BY <1>2, <2>0 DEF ResolveTarget
  <2>2. assets' \in {assets, assets \cup {Asset(ByTarget, h)}}
    BY <1>2, <2>0 DEF ResolveTarget, Persisted
  <2> QED  BY <2>1, <2>2, NewAsset, SameAssets DEF New
<1>3. ASSUME NEW c \in sent, ReceiveCandidate(c)
      PROVE  AssetInv'
  <2> DEFINE h == Name(Spells[c.name])
  <2>1. seen' = seen \cup {h} /\ (assets' = assets \/ New(h))
    BY <1>3 DEF ReceiveCandidate
  <2>2. assets' \in {assets, assets \cup {Asset(c.name, h)}}
    BY <1>3 DEF ReceiveCandidate, Persisted
  <2> HIDE DEF h
  <2> QED  BY <2>1, <2>2, NewAsset, SameAssets DEF New
<1>4. CASE StartEnumeration \/ EndEnumeration \/ \E c \in DOMAIN Spells : LookupCandidate(c)
  BY <1>4, SameAssets DEF StartEnumeration, EndEnumeration, LookupCandidate
<1> QED  BY <1>1, <1>2, <1>3, <1>4 DEF NextDiscovery

-----------------------------------------------------------------------------
LEMMA DiscoveryInvHolds == Spec => [](HostInv /\ SeenInv /\ AssetInv)
<1>1. Init => SeenInv /\ AssetInv
  BY DEF Init, InitDiscovery, SeenInv, AssetInv, OncePerName
<1>2. ASSUME HostInv, SeenInv, AssetInv, [Next]_vars
      PROVE  SeenInv' /\ AssetInv'
  <2>1. CASE Discover /\ UNCHANGED targets
    BY <1>2, <2>1, DiscoveryKeepsSeen, DiscoveryKeepsAssets DEF Discover
  <2>2. CASE UNCHANGED <<targets, dVars>>
    BY <1>2, <2>2 DEF SeenInv, AssetInv, OncePerName, dVars, Current, Scanned, Explained, Held, Waiting
  <2>3. (Discover /\ UNCHANGED targets) \/ UNCHANGED <<targets, dVars>>
    <3>1. Next => (Discover /\ UNCHANGED targets) \/ UNCHANGED <<targets, dVars>>
      BY DEF Next, Progress, Interrupt, Quiet, CheckTargets, Finish, ScanPorts, LogIn, Web, Exchange,
             StagesUnchanged, vars
    <3> QED  BY <1>2, <3>1 DEF vars
  <2> QED  BY <2>1, <2>2, <2>3
<1> QED  BY <1>1, <1>2, NetInvHolds, PTL DEF Spec

(* However often, and however spelled, targets and enumerations come by a  *)
(* name, one asset is made of it: seenHostnames is asked first, and its    *)
(* answer cannot become stale, since one goroutine asks and writes.        *)
THEOREM NamesAreStoredOnce == Spec => []OncePerName
<1>1. AssetInv => OncePerName
  BY DEF AssetInv
<1> QED  BY <1>1, DiscoveryInvHolds, PTL

(* When the discovery is over, every name that was targeted or reported    *)
(* has a host or a warning, though a failed lookup is not repeated when    *)
(* the name is met again, and a failed enumeration loses its hosts.        *)
THEOREM NothingIsDroppedSilently == Spec => []NothingDroppedSilently
<1>1. ASSUME HostInv, SeenInv, DiscoveryDone
      PROVE  NothingDroppedSilently
  <2>1. next \in Nat /\ next > Len(targets) /\ DOMAIN targets = 1 .. Len(targets)
    BY <1>1, ReconAssumption DEF HostInv, DiscoveryDone
  <2>2. Len(targets) \in Nat
    BY <1>1, ReconAssumption DEF HostInv
  <2>3. doing = "resolve"
    BY <1>1, <2>1, <2>2 DEF SeenInv
  <2>4. \A h \in seen : Scanned(h) \/ Explained(h)
    BY <1>1, <2>3 DEF SeenInv, Held
  <2>5. \A t \in Range(targets) : t.type \in {"host", "domain"} => t.value \in seen
    <3> SUFFICES ASSUME NEW t \in Range(targets), t.type \in {"host", "domain"}
                 PROVE  t.value \in seen
      OBVIOUS
    <3>1. PICK i \in 1 .. Len(targets) : t = targets[i]
      BY <2>1 DEF Range
    <3>2. i \in 1 .. next - 1
      BY <2>1, <2>2
    <3> QED  BY <1>1, <3>1, <3>2 DEF SeenInv
  <2>6. \A r \in reported : Name(Spells[r[2]]) \in seen
    BY <1>1, <2>3 DEF SeenInv, Waiting
  <2> QED  BY <2>4, <2>5, <2>6 DEF NothingDroppedSilently
<1>2. HostInv /\ SeenInv => NothingDroppedSilently
  BY <1>1 DEF NothingDroppedSilently
<1> QED  BY <1>2, DiscoveryInvHolds, PTL

-----------------------------------------------------------------------------
(* Where Run is.  A stage that has failed skips the rest, so no error and  *)
(* a late stage mean that every earlier stage has returned nil.            *)
FlowInv ==
  /\ ctx \in {"live", "done"}
  /\ stage \notin {"finish", "ended"} => err = "none"
  /\ stage \in {"ports", "probe", "crawl", "finish", "ended"} /\ err = "none" =>
       next > Len(targets)
  /\ stage \in {"probe", "crawl", "finish", "ended"} /\ err = "none" => ~groupErr
  /\ session.state = "failed" => err # "none"
  /\ job = "completed" => stage = "ended" /\ err = "none" /\ ctx = "live"

(* The goroutines of the port scan while nothing has cut them short: the   *)
(* ports of a host wait for their host, work as long as it receives, and   *)
(* have been dealt with when it returns.                                   *)
PortFate(k) ==
  /\ scan[k[1]] = "waiting" => probe[k] = "idle"
  /\ scan[k[1]] = "receiving" => probe[k] # "idle" /\ DialAllowed(k[1].host, k[1].ip)
  /\ scan[k[1]] = "returned" =>
       probe[k] = "gone" \/ (probe[k] = "idle" /\ k[1] \in refused)
  /\ probe[k] \in {"open", "closed", "gone"} => k \in dialed \cup turnedAway

PortInv ==
  /\ DOMAIN probe = (DOMAIN scan) \X Ports
  /\ \A h \in DOMAIN scan : scan[h] \in {"waiting", "receiving", "returned"}
  /\ stage # "ports" => \A h \in DOMAIN scan : scan[h] = "returned"
  /\ ~GroupDone =>
       /\ \A h \in refused : ~DialAllowed(h.host, h.ip)
       /\ \A k \in DOMAIN probe : PortFate(k)

(* What the web stages have left of the services while nothing has cut     *)
(* them short.                                                             *)
AtHand(busy) == IF work \in busy THEN {at} ELSE {}

WebInv ==
  /\ stage = "probe" => work \in {"none", "next", "https", "http"}
  /\ stage = "crawl" => work \in {"next", "loop", "page", "scripts", "script"}
  /\ stage \notin {"probe", "crawl"} => work = "none"
  /\ stage \notin {"crawl", "finish", "ended"} => crawled = {}
  /\ ctx = "live" /\ err = "none" =>
       /\ stage = "probe" /\ work # "none" =>
            services \subseteq todo \cup crawlTargets \cup skipped \cup AtHand({"https", "http"})
       /\ stage \in {"crawl", "finish", "ended"} => services \subseteq crawlTargets \cup skipped
       /\ stage = "crawl" =>
            crawlTargets = crawled \cup todo \cup AtHand({"loop", "page", "scripts", "script"})
       /\ stage \in {"finish", "ended"} /\ CrawlEnabled => crawlTargets = crawled

(* CompletedCovers follows, once the receivers are known to have returned. *)
LEMMA CoverageFollows ==
  ASSUME HostInv, FlowInv, PortInv, WebInv
  PROVE  CompletedCovers
<1> SUFFICES ASSUME job = "completed"
             PROVE  /\ err = "none" /\ session.state # "failed"
                    /\ next > Len(targets)
                    /\ \A h \in hosts : h \in refused => ~DialAllowed(h.host, h.ip)
                    /\ PortsCovered
                    /\ services \subseteq crawlTargets \cup skipped
                    /\ CrawlEnabled => crawlTargets = crawled
  BY DEF CompletedCovers
<1>1. stage = "ended" /\ err = "none" /\ ctx = "live" /\ ~groupErr /\ next > Len(targets)
  BY DEF FlowInv
<1>2. ~GroupDone
  BY <1>1 DEF GroupDone
<1>3. \A k \in DOMAIN probe : PortFate(k) /\ scan[k[1]] = "returned"
  <2> SUFFICES ASSUME NEW k \in DOMAIN probe
               PROVE  PortFate(k) /\ scan[k[1]] = "returned"
    OBVIOUS
  <2>1. k[1] \in DOMAIN scan
    BY DEF PortInv
  <2> QED  BY <1>1, <1>2, <2>1 DEF PortInv
<1>4. PortsCovered
  <2>1. ASSUME NEW h \in DOMAIN scan, h \notin refused, NEW p \in Ports
        PROVE  <<h, p>> \in dialed \cup turnedAway
    <3>1. <<h, p>> \in DOMAIN probe /\ <<h, p>>[1] = h
      BY <2>1 DEF PortInv
    <3> QED  BY <1>3, <2>1, <3>1 DEF PortFate
  <2>2. Holding = {}
    BY <1>3 DEF Holding, PortFate
  <2> QED  BY <2>1, <2>2 DEF PortsCovered
<1>5. \A h \in refused : ~DialAllowed(h.host, h.ip)
  BY <1>2 DEF PortInv
<1> QED  BY <1>1, <1>4, <1>5 DEF FlowInv, WebInv

-----------------------------------------------------------------------------
(* How the stage moves, seen without what the stages do.                   *)
Stays == UNCHANGED <<stage, ctx, err>>
Moves(from, to) == stage = from /\ stage' = to /\ UNCHANGED <<ctx, err>>
Breaks(from) == stage = from /\ stage' = "finish" /\ err' # "none" /\ UNCHANGED ctx

LEMMA DiscoveryMoves ==
  ASSUME NextDiscovery
  PROVE  stage = "discover" /\ (Stays \/ Breaks("discover"))
<1> USE DEF Stays, Breaks, Keep, Abort, Discovering
<1>1. CASE ExpandTarget
  BY <1>1 DEF ExpandTarget
<1>2. CASE ResolveTarget
  BY <1>2 DEF ResolveTarget
<1>3. CASE StartEnumeration
  BY <1>3 DEF StartEnumeration
<1>4. CASE \E c \in DOMAIN Spells : LookupCandidate(c)
  BY <1>4 DEF LookupCandidate
<1>5. CASE \E c \in sent : ReceiveCandidate(c)
  BY <1>5 DEF ReceiveCandidate
<1>6. CASE EndEnumeration
  BY <1>6 DEF EndEnumeration
<1> QED  BY <1>1, <1>2, <1>3, <1>4, <1>5, <1>6 DEF NextDiscovery

LEMMA LoginMoves ==
  ASSUME NextLogin
  PROVE  /\ stage = "login"
         /\ \/ /\ Stays \/ Moves("login", "check")
               /\ session'.state = "failed" => session.state = "failed"
            \/ stage' = "ended" /\ err' = "login" /\ UNCHANGED ctx
<1> USE DEF Stays, Moves, Keep, Proceed, LoggingIn, LoginFails, LoginSucceeds, Session
<1>1. CASE SkipLogin
  BY <1>1 DEF SkipLogin
<1>2. CASE StaticLogin
  BY <1>2 DEF StaticLogin
<1>3. CASE FetchLoginPage
  BY <1>3 DEF FetchLoginPage
<1>4. CASE NoFormHere
  BY <1>4 DEF NoFormHere
<1>5. CASE NoLoginForm
  BY <1>5 DEF NoLoginForm
<1>6. CASE \E h \in Locations : SubmitForm(h)
  BY <1>6 DEF SubmitForm
<1>7. CASE Evaluated
  BY <1>7 DEF Evaluated
<1> QED  BY <1>1, <1>2, <1>3, <1>4, <1>5, <1>6, <1>7 DEF NextLogin

LEMMA WebMoves ==
  ASSUME NextWeb
  PROVE  \/ Stays
         \/ Moves("probe", "crawl") \/ Moves("probe", "finish") \/ Moves("crawl", "finish")
         \/ Breaks("probe") \/ Breaks("crawl")
<1> USE DEF Stays, Moves, Breaks, Keep, Proceed, Working, Crawling
<1>1. CASE StartProbes \/ TryHTTP \/ NotHTTP \/ EndProbes
  BY <1>1 DEF StartProbes, TryHTTP, NotHTTP, EndProbes
<1>2. CASE StoreProbe \/ StoreCrawl \/ ScriptFetched
  BY <1>2 DEF StoreProbe, StoreCrawl, ScriptFetched, WebAborts, Abort
<1>3. CASE \E k \in todo : StartProbe(k) \/ StartCrawl(k)
  BY <1>3 DEF StartProbe, StartCrawl
<1>4. CASE CrawlCancelled \/ PassVisited \/ Visit \/ PageFailed
  BY <1>4 DEF CrawlCancelled, PassVisited, Visit, PageFailed
<1>5. CASE \E answer \in Answered : PageFetched(answer)
  BY <1>5 DEF PageFetched
<1>6. CASE (\E s \in scripts : FetchScript(s)) \/ ScriptSkipped \/ EndCrawl \/ EndCrawls
  BY <1>6 DEF FetchScript, ScriptSkipped, EndCrawl, EndCrawls
<1> QED  BY <1>1, <1>2, <1>3, <1>4, <1>5, <1>6 DEF NextWeb

(* A port scan fails the run exactly when one of its receivers has.        *)
LEMMA PortMoves ==
  ASSUME PortInv, NextPortScan
  PROVE  \/ Stays /\ (groupErr' # groupErr => \E h \in DOMAIN scan : scan[h] = "receiving")
         \/ Moves("discover", "ports") /\ DiscoveryDone /\ UNCHANGED groupErr
         \/ Moves("ports", "probe") /\ ~groupErr /\ UNCHANGED groupErr
         \/ Breaks("ports") /\ UNCHANGED groupErr
<1> USE DEF Stays, Moves, Breaks, Keep, Proceed
<1>1. CASE StartPorts
  BY <1>1 DEF StartPorts
<1>2. CASE \E h \in DOMAIN scan : StartHost(h) \/ HostDone(h)
  BY <1>2 DEF StartHost, HostDone
<1>3. ASSUME NEW k \in DOMAIN probe,
             Acquire(k) \/ AcquireFails(k) \/ LimiterFails(k) \/ Dial(k) \/ SendGivenUp(k)
      PROVE  Stays /\ UNCHANGED groupErr
  BY <1>3 DEF Acquire, AcquireFails, LimiterFails, Dial, SendGivenUp
<1>4. ASSUME NEW k \in DOMAIN probe, Send(k)
      PROVE  Stays /\ \E h \in DOMAIN scan : scan[h] = "receiving"
  BY <1>4 DEF Send, PortInv
<1>5. CASE EndPorts
  BY <1>5 DEF EndPorts, Abort, pVars
<1> QED  BY <1>1, <1>2, <1>3, <1>4, <1>5 DEF NextPortScan, NextPortGoroutine

-----------------------------------------------------------------------------
(* One goroutine of a port moves: only that entry of probe changes.        *)
LEMMA OnePortMoves ==
  ASSUME PortInv, NEW k \in DOMAIN probe, NEW to, probe' = [probe EXCEPT ![k] = to],
         UNCHANGED <<scan, refused, stage, ctx, groupErr>>,
         dialed \subseteq dialed', turnedAway \subseteq turnedAway',
         ~GroupDone => /\ probe[k] # "idle" /\ probe[k] # "gone" /\ to # "idle"
                       /\ to \in {"open", "closed", "gone"} => k \in dialed' \cup turnedAway'
  PROVE  PortInv'
<1> USE DEF PortInv
<1>1. DOMAIN probe' = (DOMAIN scan') \X Ports
  OBVIOUS
<1>2. ASSUME ~GroupDone', NEW j \in DOMAIN probe'
      PROVE  PortFate(j)'
  <2>1. ~GroupDone
    BY <1>2 DEF GroupDone
  <2>2. CASE j = k
    BY <2>1, <2>2 DEF PortFate
  <2>3. CASE j # k
    BY <2>1, <2>3 DEF PortFate
  <2> QED  BY <2>2, <2>3
<1> QED  BY <1>1, <1>2 DEF GroupDone

LEMMA PortsKeepInv ==
  ASSUME PortInv, NextPortScan
  PROVE  PortInv'
<1>1. CASE StartPorts
  <2>1. /\ scan' = [h \in hosts |-> "waiting"] /\ probe' = [k \in hosts \X Ports |-> "idle"]
        /\ stage' = "ports" /\ UNCHANGED <<ctx, groupErr, refused>>
    BY <1>1 DEF StartPorts, Proceed
  <2>2. \A k \in DOMAIN probe' : PortFate(k)'
    BY <2>1 DEF PortFate
  <2> QED  BY <2>1, <2>2 DEF PortInv, GroupDone
<1>2. ASSUME NEW h \in DOMAIN scan, StartHost(h)
      PROVE  PortInv'
  <2>1. /\ stage = "ports" /\ scan[h] = "waiting"
        /\ UNCHANGED <<stage, ctx, err, groupErr, dialed, turnedAway>>
    BY <1>2 DEF StartHost, Keep
  <2>2. CASE GroupDone \/ ~DialAllowed(h.host, h.ip)
    <3>1. scan' = [scan EXCEPT ![h] = "returned"] /\ refused' = refused \cup {h} /\ UNCHANGED probe
      BY <1>2, <2>2 DEF StartHost
    <3>2. ASSUME ~GroupDone', NEW k \in DOMAIN probe'
          PROVE  PortFate(k)'
      <4>1. ~GroupDone /\ k[1] \in DOMAIN scan
        BY <2>1, <3>1, <3>2 DEF GroupDone, PortInv
      <4>2. PortFate(k)
        BY <3>1, <3>2, <4>1 DEF PortInv
      <4> QED  BY <2>1, <3>1, <4>1, <4>2 DEF PortFate
    <3> QED  BY <2>1, <2>2, <3>1, <3>2 DEF PortInv, GroupDone
  <2>3. CASE ~(GroupDone \/ ~DialAllowed(h.host, h.ip))
    <3>1. /\ scan' = [scan EXCEPT ![h] = "receiving"] /\ UNCHANGED refused
          /\ probe' = [k \in DOMAIN probe |-> IF k[1] = h THEN "queued" ELSE probe[k]]
      BY <1>2, <2>3 DEF StartHost
    <3>2. ASSUME ~GroupDone', NEW k \in DOMAIN probe'
          PROVE  PortFate(k)'
      <4>1. ~GroupDone /\ k[1] \in DOMAIN scan
        BY <2>1, <3>1, <3>2 DEF GroupDone, PortInv
      <4>2. PortFate(k)
        BY <3>1, <3>2, <4>1 DEF PortInv
      <4> QED  BY <2>1, <2>3, <3>1, <3>2, <4>1, <4>2 DEF PortFate
    <3> QED  BY <2>1, <2>3, <3>1, <3>2 DEF PortInv, GroupDone
  <2> QED  BY <2>2, <2>3
<1>3. ASSUME NEW h \in DOMAIN scan, HostDone(h)
      PROVE  PortInv'
  <2>1. /\ scan' = [scan EXCEPT ![h] = "returned"] /\ scan[h] = "receiving"
        /\ \A p \in Ports : probe[<<h, p>>] = "gone"
        /\ UNCHANGED <<stage, ctx, probe, groupErr, dialed, turnedAway, refused>>
    BY <1>3 DEF HostDone, Keep
  <2>2. ASSUME ~GroupDone', NEW k \in DOMAIN probe'
        PROVE  PortFate(k)'
    <3>1. ~GroupDone /\ k \in (DOMAIN scan) \X Ports
      BY <2>1, <2>2 DEF GroupDone, PortInv
    <3>2. PortFate(k) /\ k = <<k[1], k[2]>> /\ k[2] \in Ports
      BY <2>1, <3>1 DEF PortInv
    <3> QED  BY <2>1, <3>1, <3>2 DEF PortFate
  <2> QED  BY <2>1, <2>2 DEF PortInv, GroupDone
<1>4. ASSUME NEW k \in DOMAIN probe, Acquire(k) \/ AcquireFails(k) \/ SendGivenUp(k)
      PROVE  PortInv'
  BY <1>4, OnePortMoves DEF Acquire, AcquireFails, SendGivenUp, Becomes, NobodyWaits, Keep
<1>5. ASSUME NEW k \in DOMAIN probe, LimiterFails(k)
      PROVE  PortInv'
  BY <1>5, OnePortMoves DEF LimiterFails, Becomes, Keep
<1>6. ASSUME NEW k \in DOMAIN probe, Dial(k)
      PROVE  PortInv'
  <2>1. k[1] \in DOMAIN scan
    BY <1>6 DEF PortInv
  <2>2. /\ probe[k] = "slot" /\ dialed \subseteq dialed'
        /\ UNCHANGED <<scan, refused, stage, ctx, groupErr, turnedAway>>
        /\ \E to \in {"open", "closed"} : probe' = [probe EXCEPT ![k] = to]
    BY <1>6 DEF Dial, Becomes, Keep
  <2>3. ~GroupDone => DialAllowed(k[1].host, k[1].ip)
    BY <2>1, <2>2 DEF PortInv, PortFate
  <2>4. ~GroupDone => k \in dialed'
    BY <1>6, <2>3 DEF Dial
  <2> QED  BY <2>2, <2>4, OnePortMoves
<1>7. ASSUME NEW k \in DOMAIN probe, Send(k)
      PROVE  PortInv'
  <2>1. k[1] \in DOMAIN scan /\ scan[k[1]] = "receiving" /\ stage = "ports"
        /\ UNCHANGED <<stage, ctx, dialed, turnedAway, refused>>
        /\ probe[k] \in {"open", "closed"} /\ probe' = [probe EXCEPT ![k] = "gone"]
    BY <1>7 DEF Send, Becomes, Keep, PortInv
  <2>2. CASE UNCHANGED <<scan, groupErr>>
    <3>1. ~GroupDone => k \in dialed \cup turnedAway
      BY <2>1 DEF PortInv, PortFate
    <3> QED  BY <2>1, <2>2, <3>1, OnePortMoves
  <2>3. CASE scan' = [scan EXCEPT ![k[1]] = "returned"] /\ groupErr' = TRUE
    BY <2>1, <2>3 DEF PortInv, GroupDone
  <2> QED  BY <1>7, <2>2, <2>3 DEF Send
<1>8. CASE EndPorts
  <2>1. UNCHANGED pVars /\ UNCHANGED ctx /\ \A h \in DOMAIN scan : scan[h] = "returned"
    BY <1>8 DEF EndPorts, Abort, Proceed
  <2> QED  BY <2>1 DEF PortInv, pVars, GroupDone, PortFate
<1> QED
  BY <1>1, <1>2, <1>3, <1>4, <1>5, <1>6, <1>7, <1>8 DEF NextPortScan, NextPortGoroutine

-----------------------------------------------------------------------------
LEMMA WebKeepsCover ==
  ASSUME WebInv, FlowInv, NextWeb, UNCHANGED services
  PROVE  WebInv'
<1> USE DEF WebInv, AtHand
<1>a. ASSUME WebAborts, UNCHANGED crawled, stage = "crawl" \/ crawled = {}
      PROVE  WebInv'
  BY <1>a DEF WebAborts, Abort
<1>1. CASE StartProbes
  BY <1>1 DEF StartProbes, Keep
<1>2. ASSUME NEW k \in todo, StartProbe(k)
      PROVE  WebInv'
  BY <1>2 DEF StartProbe, Skip, Working, Keep
<1>3. ASSUME NEW k \in todo, StartCrawl(k)
      PROVE  WebInv'
  BY <1>3 DEF StartCrawl, Working, Keep
<1>4. CASE TryHTTP
  BY <1>4 DEF TryHTTP, Working, Keep
<1>5. CASE NotHTTP
  BY <1>5 DEF NotHTTP, Skip, Working, Keep
<1>6. CASE StoreProbe
  <2>1. CASE WebAborts
    BY <1>6, <1>a, <2>1 DEF StoreProbe
  <2>2. CASE ~WebAborts
    BY <1>6, <2>2 DEF StoreProbe, Keep
  <2> QED  BY <2>1, <2>2
<1>7. CASE EndProbes
  BY <1>7 DEF EndProbes, Proceed, Working
<1>8. CASE CrawlCancelled
  BY <1>8 DEF CrawlCancelled, Crawling, Working, Keep
<1>9. CASE PassVisited \/ Visit \/ PageFailed
  BY <1>9 DEF PassVisited, Visit, PageFailed, Crawling, Working, CrawlUnchanged, Keep
<1>10. ASSUME NEW answer \in Answered, PageFetched(answer)
       PROVE  WebInv'
  BY <1>10 DEF PageFetched, Working, Keep
<1>11. CASE StoreCrawl
  <2>1. CASE WebAborts
    BY <1>11, <1>a, <2>1 DEF StoreCrawl, Crawling, Working
  <2>2. CASE ~WebAborts
    BY <1>11, <2>2 DEF StoreCrawl, Crawling, Working, Keep
  <2> QED  BY <2>1, <2>2
<1>12. ASSUME NEW s \in scripts, FetchScript(s)
       PROVE  WebInv'
  BY <1>12 DEF FetchScript, Working, Keep
<1>13. CASE ScriptSkipped
  BY <1>13 DEF ScriptSkipped, Working, Keep
<1>14. CASE ScriptFetched
  <2>1. CASE WebAborts
    BY <1>14, <1>a, <2>1 DEF ScriptFetched, Working
  <2>2. CASE ~WebAborts
    BY <1>14, <2>2 DEF ScriptFetched, Working, Keep
  <2> QED  BY <2>1, <2>2
<1>15. CASE EndCrawl \/ EndCrawls
  BY <1>15 DEF EndCrawl, EndCrawls, Working, Proceed, Keep
<1> QED
  BY <1>1, <1>2, <1>3, <1>4, <1>5, <1>6, <1>7, <1>8, <1>9, <1>10, <1>11, <1>12, <1>13, <1>14,
     <1>15 DEF NextWeb

-----------------------------------------------------------------------------
CoverInv == HostInv /\ FlowInv /\ PortInv /\ WebInv

LEMMA PortsFrame ==
  ASSUME PortInv, UNCHANGED pVars, ctx' \in {ctx, "done"},
         stage' # "ports" => stage # "ports"
  PROVE  PortInv'
BY DEF PortInv, PortFate, GroupDone, pVars

LEMMA WebFrame ==
  ASSUME WebInv, UNCHANGED wVars, ctx' \in {ctx, "done"}, UNCHANGED services \/ stage = "ports",
         stage' = stage \/ (stage \notin {"probe", "crawl", "finish", "ended"}
                              /\ stage' \notin {"crawl", "finish", "ended"})
                        \/ (stage' \in {"finish", "ended"} /\ err' # "none"
                              /\ stage \notin {"probe", "crawl"})
                        \/ (stage = "finish" /\ stage' = "ended"),
         err' = "none" => err = "none"
  PROVE  WebInv'
BY DEF WebInv, AtHand, wVars

LEMMA CoverStep ==
  ASSUME CoverInv, HostInv', [Next]_vars
  PROVE  CoverInv'
<1> USE DEF CoverInv
<1>1. CASE CheckTargets /\ UNCHANGED targets
  <2>1. /\ UNCHANGED <<targets, dVars, pVars, req, lVars, wVars, ctx>>
        /\ stage = "check" /\ \/ stage' = "discover" /\ UNCHANGED err
                              \/ stage' = "ended" /\ err' # "none"
        /\ job' # "completed"
    BY <1>1 DEF CheckTargets, StagesUnchanged, RunFails, Proceed, StatusFor, FlowInv
  <2>2. PortInv' /\ WebInv'
    BY <2>1, PortsFrame, WebFrame DEF pVars
  <2>3. FlowInv'
    BY <2>1 DEF FlowInv, lVars
  <2> QED  BY <2>2, <2>3
<1>2. CASE Finish /\ UNCHANGED targets
  <2>1. /\ UNCHANGED <<targets, dVars, pVars, req, lVars, wVars, ctx, err>>
        /\ stage = "finish" /\ stage' = "ended"
        /\ job' = "completed" => err = "none" /\ ctx = "live"
    BY <1>2 DEF Finish, StagesUnchanged, StatusFor, FlowInv, ContextTypeOK
  <2>2. PortInv' /\ WebInv'
    BY <2>1, PortsFrame, WebFrame DEF pVars
  <2>3. FlowInv'
    BY <2>1 DEF FlowInv, lVars, dVars, pVars
  <2> QED  BY <2>2, <2>3
<1>3. CASE Interrupt
  <2>1. /\ UNCHANGED <<targets, dVars, pVars, req, lVars, wVars, err, stage, job>>
        /\ stage # "ended" /\ ctx' = "done"
    BY <1>3 DEF Interrupt, Cancel, StagesUnchanged
  <2>2. PortInv' /\ WebInv'
    BY <2>1, PortsFrame, WebFrame DEF pVars
  <2>3. FlowInv'
    BY <2>1 DEF FlowInv, lVars, dVars, pVars
  <2> QED  BY <2>2, <2>3
<1>4. CASE Discover /\ UNCHANGED targets
  <2>1. /\ UNCHANGED <<targets, pVars, req, lVars, wVars, job>>
        /\ stage = "discover" /\ (Stays \/ Breaks("discover"))
    BY <1>4, DiscoveryMoves DEF Discover
  <2>2. PortInv' /\ WebInv'
    BY <2>1, PortsFrame, WebFrame DEF pVars, Stays, Breaks, FlowInv
  <2>3. FlowInv'
    BY <2>1 DEF FlowInv, lVars, pVars, Stays, Breaks
  <2> QED  BY <2>2, <2>3
<1>5. CASE ScanPorts /\ UNCHANGED targets
  <2>1. UNCHANGED <<targets, dVars, req, lVars, wVars, job>> /\ NextPortScan
    BY <1>5 DEF ScanPorts
  <2>2. PortInv'
    BY <2>1, PortsKeepInv
  <2>3. FlowInv'
    BY <2>1, PortMoves DEF FlowInv, PortInv, lVars, dVars, Stays, Moves, Breaks, DiscoveryDone
  <2>4. UNCHANGED services \/ stage = "ports"
    <3>1. ASSUME NEW k \in DOMAIN probe, Send(k)
          PROVE  stage = "ports"
      BY <3>1 DEF Send, PortInv
    <3> QED
      BY <2>1, <3>1 DEF NextPortScan, NextPortGoroutine, StartPorts, StartHost, HostDone, Acquire,
           AcquireFails, LimiterFails, Dial, SendGivenUp, EndPorts, pVars
  <2>5. WebInv'
    BY <2>1, <2>4, PortMoves, WebFrame DEF Stays, Moves, Breaks, FlowInv
  <2> QED  BY <2>2, <2>3, <2>5
<1>6. CASE LogIn /\ UNCHANGED targets
  <2>1. UNCHANGED <<targets, dVars, pVars, wVars, job>> /\ NextLogin
    BY <1>6 DEF LogIn
  <2>2. PortInv' /\ WebInv'
    BY <2>1, LoginMoves, PortsFrame, WebFrame DEF pVars, Stays, Moves, FlowInv
  <2>3. FlowInv'
    BY <2>1, LoginMoves DEF FlowInv, dVars, pVars, Stays, Moves
  <2> QED  BY <2>2, <2>3
<1>7. CASE Web /\ UNCHANGED targets
  <2>1. UNCHANGED <<targets, dVars, pVars, lVars, job>> /\ NextWeb
    BY <1>7 DEF Web
  <2>2. PortInv'
    BY <2>1, WebMoves, PortsFrame DEF pVars, Stays, Moves, Breaks
  <2>3. FlowInv'
    BY <2>1, WebMoves DEF FlowInv, lVars, dVars, pVars, Stays, Moves, Breaks
  <2> QED  BY <2>1, <2>2, <2>3, WebKeepsCover DEF pVars
<1>8. CASE Exchange /\ UNCHANGED targets
  <2>1. UNCHANGED <<targets, dVars, pVars, lVars, wVars, job, stage, ctx, err>>
    BY <1>8 DEF Exchange, Keep
  <2>2. PortInv' /\ WebInv'
    BY <2>1, PortsFrame, WebFrame DEF pVars
  <2>3. FlowInv'
    BY <2>1 DEF FlowInv, lVars, dVars, pVars
  <2> QED  BY <2>2, <2>3
<1>9. CASE UNCHANGED vars
  <2>1. UNCHANGED <<targets, dVars, pVars, lVars, wVars, job, stage, ctx, err>>
    BY <1>9 DEF vars
  <2>2. PortInv' /\ WebInv'
    BY <2>1, PortsFrame, WebFrame DEF pVars
  <2>3. FlowInv'
    BY <2>1 DEF FlowInv, lVars, dVars, pVars
  <2> QED  BY <2>2, <2>3
<1> QED
  BY <1>1, <1>2, <1>3, <1>4, <1>5, <1>6, <1>7, <1>8, <1>9 DEF Next, Progress, Quiet

(* A job that Run stores as completed has covered its targets: every port  *)
(* of every host in scope was dialled, every service was probed, every one *)
(* that speaks HTTP was crawled, though the goroutines of each stage take  *)
(* a cancellation for one item's failure and return no error.  It is the   *)
(* look at the context in terminalStatusFor that makes this true.          *)
THEOREM CompletedJobsCover == Spec => []CompletedCovers
<1>1. Init => CoverInv
  <2> SUFFICES ASSUME Init PROVE CoverInv
    OBVIOUS
  <2>1. HostInv
    BY NetInvInit
  <2>2. FlowInv /\ PortInv /\ WebInv
    BY DEF Init, InitPortScan, InitLogin, InitWeb, NoSession, FlowInv, PortInv, PortFate, WebInv, AtHand
  <2> QED  BY <2>1, <2>2 DEF CoverInv
<1>2. CoverInv /\ HostInv' /\ [Next]_vars => CoverInv'
  BY CoverStep
<1>3. CoverInv => CompletedCovers
  BY CoverageFollows DEF CoverInv
<1> QED  BY <1>1, <1>2, <1>3, NetInvHolds, PTL DEF Spec

-----------------------------------------------------------------------------
(* Of sequences, and of what is done along them.                           *)

(* A set of natural numbers that is not empty has a least element.         *)
LEMMA LeastNatural ==
  ASSUME NEW T, T \subseteq Nat, T # {}
  PROVE  \E n \in T : \A m \in T : n <= m
<1>1. PICK n \in T : \A m \in T : ~ (<<m, n>> \in OpToRel(<, Nat))
  BY NatLessThanWellFounded, WFMin
<1>2. \A m \in T : ~ (m < n)
  BY <1>1 DEF OpToRel
<1> QED  BY <1>2

(* A fold over a finite set: which element is taken next, what a step      *)
(* keeps, and the recursion that takes one element away.                   *)
Picks(pick, S) == \A s \in SUBSET S : s # {} => pick[s] \in s
Keeps(step, S, V) == \A x \in S, v \in V : step[<<x, v>>] \in V

Folds(g, S, V, base, pick, step) ==
  /\ g \in [SUBSET S -> V]
  /\ g[{}] = base
  /\ \A s \in SUBSET S : s # {} => g[s] = step[<<pick[s], g[s \ {pick[s]}]>>]

(* The recursion has a solution.                                           *)
LEMMA FoldExists ==
  ASSUME NEW S, IsFiniteSet(S), NEW V, NEW base \in V,
         NEW pick, Picks(pick, S), NEW step, Keeps(step, S, V)
  PROVE  \E g : Folds(g, S, V, base, pick, step)
<1> USE DEF Picks, Keeps
<1> DEFINE Upto(n) == {s \in SUBSET S : Cardinality(s) <= n}
           Solves(g, n) == /\ g \in [Upto(n) -> V]
                           /\ g[{}] = base
                           /\ \A s \in Upto(n) :
                                s # {} => g[s] = step[<<pick[s], g[s \ {pick[s]}]>>]
           Bad == {n \in Nat : ~ \E g : Solves(g, n)}
<1>0. \A s \in SUBSET S :
        IsFiniteSet(s) /\ Cardinality(s) \in Nat /\ Cardinality(s) <= Cardinality(S)
  BY FS_Subset, FS_CardinalityType
<1>1. ASSUME Bad # {}  PROVE FALSE
  <2>1. PICK n \in Bad : \A m \in Bad : n <= m
    <3> HIDE DEF Solves
    <3> QED  BY <1>1, LeastNatural
  <2> n \in Nat  OBVIOUS
  <2>2. CASE n = 0
    <3> DEFINE g == [s \in Upto(n) |-> base]
    <3>1. \A s \in Upto(n) : s = {}
      BY <2>2, <1>0, FS_EmptySet
    <3>2. {} \in Upto(n)
      BY <2>2, FS_EmptySet
    <3>3. Solves(g, n)
      BY <3>1, <3>2
    <3> QED  BY <3>3
  <2>3. CASE n # 0
    <3>1. n - 1 \in Nat /\ n - 1 \notin Bad
      <4>1. n - 1 \in Nat /\ ~(n <= n - 1)
        BY <2>3
      <4> HIDE DEF Bad
      <4> QED  BY <4>1, <2>1
    <3>2. PICK g : Solves(g, n - 1)
      BY <3>1
    <3> DEFINE h == [s \in Upto(n) |-> IF s = {} THEN base
                                       ELSE step[<<pick[s], g[s \ {pick[s]}]>>]]
    <3>3. {} \in Upto(n) /\ {} \in Upto(n - 1)
      BY <3>1, FS_EmptySet
    <3>4. \A s \in Upto(n) : s # {} => pick[s] \in S /\ s \ {pick[s]} \in Upto(n - 1)
      <4> SUFFICES ASSUME NEW s \in Upto(n), s # {}
                   PROVE  pick[s] \in S /\ s \ {pick[s]} \in Upto(n - 1)
        OBVIOUS
      <4>1. pick[s] \in s
        OBVIOUS
      <4>2. Cardinality(s \ {pick[s]}) = Cardinality(s) - 1
        BY <4>1, <1>0, FS_RemoveElement
      <4> QED  BY <4>1, <4>2, <1>0
    <3>5. \A s \in Upto(n - 1) : h[s] = g[s]
      <4>1. \A s \in Upto(n - 1) : s \in Upto(n)
        BY <1>0, <3>1
      <4> QED  BY <4>1, <3>2
    <3>6. h \in [Upto(n) -> V]
      BY <3>2, <3>4
    <3>7. \A s \in Upto(n) : s # {} => h[s] = step[<<pick[s], h[s \ {pick[s]}]>>]
      BY <3>4, <3>5
    <3>8. Solves(h, n)
      BY <3>3, <3>6, <3>7
    <3> HIDE DEF h
    <3> QED  BY <3>8
  <2> QED  BY <2>2, <2>3
<1>2. Cardinality(S) \in Nat
  BY FS_CardinalityType
<1>3. PICK g : Solves(g, Cardinality(S))
  BY <1>1, <1>2
<1>4. Upto(Cardinality(S)) = SUBSET S
  BY <1>0
<1> QED  BY <1>3, <1>4 DEF Folds

(* What such a recursion keeps at every step, its result has.              *)
LEMMA FoldKeeps ==
  ASSUME NEW S, IsFiniteSet(S), NEW V, NEW h, h[{}] \in V,
         NEW pick, Picks(pick, S),
         \A s \in SUBSET S : s # {} /\ h[s \ {pick[s]}] \in V => h[s] \in V
  PROVE  h[S] \in V
<1> DEFINE Bad == {n \in Nat : \E s \in SUBSET S : Cardinality(s) = n /\ h[s] \notin V}
<1>0. \A s \in SUBSET S : IsFiniteSet(s) /\ Cardinality(s) \in Nat
  BY FS_Subset, FS_CardinalityType
<1>1. ASSUME Bad # {}  PROVE FALSE
  <2>1. PICK n \in Bad : \A m \in Bad : n <= m
    BY <1>1, LeastNatural
  <2>2. PICK s \in SUBSET S : Cardinality(s) = n /\ h[s] \notin V
    BY <2>1
  <2>3. s # {} /\ pick[s] \in s
    BY <2>2 DEF Picks
  <2>4. Cardinality(s \ {pick[s]}) = n - 1 /\ n - 1 \in Nat
    <3>1. IsFiniteSet(s) /\ Cardinality(s) \in Nat /\ n \in Nat
      BY <1>0
    <3>2. Cardinality(s \ {pick[s]}) = Cardinality(s) - 1
      <4>1. \A x \in s : Cardinality(s \ {x}) = Cardinality(s) - 1
        BY <3>1, FS_RemoveElement
      <4> QED  BY <2>3, <4>1
    <3>3. s \ {pick[s]} \in SUBSET S
      OBVIOUS
    <3> QED  BY <2>2, <3>1, <3>2, <3>3, <1>0
  <2>5. h[s \ {pick[s]}] \in V
    <3>1. n - 1 \notin Bad
      <4> HIDE DEF Bad
      <4>1. ~(n <= n - 1)
        BY <2>4 DEF Bad
      <4> QED  BY <2>1, <4>1
    <3> QED  BY <3>1, <2>4
  <2> QED  BY <2>2, <2>3, <2>5
<1> QED  BY <1>0, <1>1

(* The greatest of some of the first numbers.                              *)
LEMMA GreatestOfSome ==
  ASSUME NEW n \in Nat, NEW s \in SUBSET (1..n), s # {}
  PROVE  Max(s) \in s /\ \A i \in s : i <= Max(s)
<1> DEFINE T == {n - i : i \in s}
<1>1. T \subseteq Nat /\ T # {}
  OBVIOUS
<1>2. PICK t \in T : \A u \in T : t <= u
  <2> HIDE DEF T
  <2> QED  BY <1>1, LeastNatural
<1>3. PICK m \in s : t = n - m
  BY <1>2
<1>4. \A i \in s : m >= i
  <2> TAKE i \in s
  <2>1. n - m <= n - i
    BY <1>2, <1>3
  <2> QED  BY <2>1
<1>5. \E x \in s : \A y \in s : x >= y
  BY <1>4
<1>6. Max(s) \in s /\ \A y \in s : Max(s) >= y
  BY <1>5 DEF Max
<1> QED  BY <1>6

LEMMA LastOfTheFirst ==
  ASSUME NEW i \in Nat \ {0}
  PROVE  Max(1..i) = i /\ (1..i) \ {i} = 1..(i - 1)
<1>1. 1..i \in SUBSET (1..i) /\ 1..i # {} /\ i \in 1..i
  OBVIOUS
<1>2. Max(1..i) \in 1..i /\ \A j \in 1..i : j <= Max(1..i)
  BY <1>1, GreatestOfSome
<1>3. i <= Max(1..i)
  BY <1>1, <1>2
<1> QED  BY <1>2, <1>3

(* A fold over a sequence of which the indices are what is folded.         *)
InARow(g, n, base, step) ==
  g = [s \in SUBSET (1..n) |-> IF s = {} THEN base ELSE step[<<Max(s), g[s \ {Max(s)}]>>]]

LEMMA FoldInARow ==
  ASSUME NEW n \in Nat, NEW V, NEW base \in V, NEW step, Keeps(step, 1..n, V)
  PROVE  \E g \in [SUBSET (1..n) -> V] : InARow(g, n, base, step)
<1> DEFINE D == 1..n
           pick == [s \in SUBSET D |-> Max(s)]
<1>1. IsFiniteSet(D)
  BY FS_Interval
<1>2. Picks(pick, D)
  BY GreatestOfSome DEF Picks
<1>3. PICK g : Folds(g, D, V, base, pick, step)
  <2>1. Keeps(step, D, V)
    OBVIOUS
  <2> HIDE DEF pick, D
  <2> QED  BY <1>1, <1>2, <2>1, FoldExists
<1>4. \A s \in SUBSET D : g[s] = IF s = {} THEN base ELSE step[<<Max(s), g[s \ {Max(s)}]>>]
  <2>1. \A s \in SUBSET D : pick[s] = Max(s)
    OBVIOUS
  <2> HIDE DEF pick, D
  <2> QED  BY <1>3, <2>1 DEF Folds
<1>5. g \in [SUBSET D -> V]
  BY <1>3 DEF Folds
<1>6. InARow(g, n, base, step)
  BY <1>4, <1>5 DEF InARow
<1> QED  BY <1>5, <1>6

(* What holds of a sequence from the start on, step by step, holds at its  *)
(* end.                                                                    *)
LEMMA AlongARow ==
  ASSUME NEW n \in Nat, NEW T, T \subseteq 0..n, 0 \in T,
         \A i \in 1..n : i - 1 \in T => i \in T
  PROVE  n \in T
<1> DEFINE Bad == {i \in 0..n : i \notin T}
<1> SUFFICES ASSUME n \notin T PROVE FALSE
  OBVIOUS
<1>1. Bad \subseteq Nat /\ Bad # {}
  OBVIOUS
<1>2. PICK i \in Bad : \A j \in Bad : i <= j
  <2> HIDE DEF Bad
  <2> QED  BY <1>1, LeastNatural
<1>3. i \in 1..n /\ i - 1 \in 0..n
  BY <1>2
<1>4. i - 1 \notin Bad
  <2>1. ~(i <= i - 1)
    BY <1>3
  <2> HIDE DEF Bad
  <2> QED  BY <1>2, <2>1
<1> QED  BY <1>2, <1>3, <1>4

LEMMA RangeOfAppend ==
  ASSUME NEW Q, NEW q \in Seq(Q), NEW x
  PROVE  Range(Append(q, x)) = Range(q) \cup {x}
<1>1. /\ DOMAIN q = 1..Len(q) /\ Len(q) \in Nat
      /\ DOMAIN Append(q, x) = 1..(Len(q) + 1)
      /\ \A i \in 1..Len(q) : Append(q, x)[i] = q[i]
      /\ Append(q, x)[Len(q) + 1] = x
  OBVIOUS
<1>2. 1..(Len(q) + 1) = (1..Len(q)) \cup {Len(q) + 1}
  BY <1>1
<1> QED  BY <1>1, <1>2 DEF Range

(* What a loop keeps of a slice.                                           *)
LEMMA FilteredIs ==
  ASSUME NEW Q, NEW q \in Seq(Q), NEW T
  PROVE  /\ Filtered(q, T) \in Seq(Q)
         /\ Range(Filtered(q, T)) = Range(q) \cap T
<1> DEFINE V == Seq(Q)
           n == Len(q)
           step == [p \in (1..n) \X V |-> IF q[p[1]] \in T THEN Append(p[2], q[p[1]]) ELSE p[2]]
           Goal(g) == g = [s \in SUBSET DOMAIN q |->
                             IF s = {} THEN <<>>
                             ELSE LET x == Max(s)
                                  IN  IF q[x] \in T THEN Append(g[s \ {x}], q[x])
                                      ELSE g[s \ {x}]]
           Rule(g) == InARow(g, n, <<>>, step)
           iter == CHOOSE g : Goal(g)
<1>0. n \in Nat /\ DOMAIN q = 1..n /\ \A i \in 1..n : q[i] \in Q
  OBVIOUS
<1>1. Filtered(q, T) = iter[DOMAIN q]
  BY DEF Filtered, FoldLeft, MapThenFoldSet
<1>2. Keeps(step, 1..n, V)
  <2>1. \A x \in 1..n, v \in V : Append(v, q[x]) \in V
    BY <1>0
  <2> QED  BY <2>1 DEF Keeps
<1>3. <<>> \in V
  OBVIOUS
<1>4. \E g \in [SUBSET DOMAIN q -> V] : Rule(g)
  <2> HIDE DEF step, V
  <2> QED  BY <1>0, <1>2, <1>3, FoldInARow
<1>5. \A s \in SUBSET DOMAIN q : s # {} => Max(s) \in 1..n /\ s \ {Max(s)} \in SUBSET DOMAIN q
  <2> TAKE s \in SUBSET DOMAIN q
  <2> HAVE s # {}
  <2>1. Max(s) \in s
    BY <1>0, GreatestOfSome
  <2> QED  BY <2>1, <1>0
<1>6. \A g \in [SUBSET DOMAIN q -> V] : Rule(g) => Goal(g)
  <2> SUFFICES ASSUME NEW g \in [SUBSET DOMAIN q -> V], Rule(g) PROVE Goal(g)
    OBVIOUS
  <2>1. ASSUME NEW s \in SUBSET DOMAIN q
        PROVE  g[s] = IF s = {} THEN <<>>
                      ELSE LET x == Max(s)
                           IN  IF q[x] \in T THEN Append(g[s \ {x}], q[x]) ELSE g[s \ {x}]
    <3>1. CASE s = {}
      BY <3>1, <1>0 DEF InARow
    <3>2. CASE s # {}
      <4>1. Max(s) \in 1..n /\ g[s \ {Max(s)}] \in V
        BY <1>5, <3>2
      <4>2. g[s] = step[<<Max(s), g[s \ {Max(s)}]>>]
        BY <3>2, <1>0 DEF InARow
      <4> HIDE DEF Goal, Rule, V
      <4> QED  BY <4>1, <4>2, <3>2
    <3> QED  BY <3>1, <3>2
  <2> HIDE DEF step, V
  <2> QED  BY <2>1
<1>7. Goal(iter)
  <2>1. \E g : Goal(g)
    <3> HIDE DEF Goal, Rule, V, step
    <3> QED  BY <1>4, <1>6
  <2> HIDE DEF Goal
  <2> QED  BY <2>1
<1> HIDE DEF iter
<1> DEFINE f == [i \in 0..n |-> iter[1..i]]
<1>8. f[0] = <<>>
  <2>1. 1..0 = {}
    OBVIOUS
  <2>2. iter[{}] = <<>>
    BY <1>7
  <2> QED  BY <2>1, <2>2, <1>0
<1>9. ASSUME NEW i \in 1..n
      PROVE  f[i] = IF q[i] \in T THEN Append(f[i - 1], q[i]) ELSE f[i - 1]
  <2>1. 1..i \in SUBSET DOMAIN q /\ 1..i # {} /\ i \in 0..n /\ i - 1 \in 0..n
    <3> HIDE DEF n
    <3>1. i \in 1..i /\ i \in 0..n /\ i - 1 \in 0..n /\ 1..i \subseteq 1..n
      BY <1>0
    <3> QED  BY <1>0, <3>1
  <2>2. Max(1..i) = i /\ (1..i) \ {i} = 1..(i - 1)
    <3>1. i \in Nat \ {0}
      BY <1>0
    <3> QED  BY <3>1, LastOfTheFirst
  <2>4. iter[1..i] = IF q[i] \in T THEN Append(iter[1..(i - 1)], q[i]) ELSE iter[1..(i - 1)]
    BY <1>7, <2>1, <2>2
  <2> QED  BY <2>1, <2>4
<1>10. f[n] = Filtered(q, T)
  BY <1>0, <1>1
<1> HIDE DEF f
<1> DEFINE Good == {i \in 0..n : /\ f[i] \in Seq(Q)
                                 /\ Range(f[i]) = {q[j] : j \in {k \in 1..i : q[k] \in T}}}
<1>11. 0 \in Good
  <2>1. Range(<<>>) = {} /\ 1..0 = {} /\ 0 \in 0..n
    BY <1>0 DEF Range
  <2>2. {q[j] : j \in {k \in 1..0 : q[k] \in T}} = {}
    BY <2>1
  <2>3. f[0] \in Seq(Q) /\ Range(f[0]) = {q[j] : j \in {k \in 1..0 : q[k] \in T}}
    BY <1>8, <2>1, <2>2
  <2> QED  BY <2>1, <2>3
<1>12. \A i \in 1..n : i - 1 \in Good => i \in Good
  <2> SUFFICES ASSUME NEW i \in 1..n, i - 1 \in Good PROVE i \in Good
    OBVIOUS
  <2> DEFINE So(k) == {q[j] : j \in {l \in 1..k : q[l] \in T}}
  <2>1. f[i - 1] \in Seq(Q) /\ Range(f[i - 1]) = So(i - 1)
    OBVIOUS
  <2>2. q[i] \in Q /\ 1..i = (1..(i - 1)) \cup {i} /\ i \in 0..n
    BY <1>0
  <2>3. So(i) = IF q[i] \in T THEN So(i - 1) \cup {q[i]} ELSE So(i - 1)
    BY <2>2
  <2>4. f[i] \in Seq(Q) /\ Range(f[i]) = So(i)
    <3> HIDE DEF So, Good
    <3>1. CASE q[i] \in T
      <4>1. f[i] = Append(f[i - 1], q[i])
        BY <1>9, <3>1
      <4>2. Range(Append(f[i - 1], q[i])) = Range(f[i - 1]) \cup {q[i]}
        BY <2>1, <2>2, RangeOfAppend
      <4> QED  BY <2>1, <2>2, <2>3, <3>1, <4>1, <4>2
    <3>2. CASE q[i] \notin T
      BY <1>9, <2>1, <2>3, <3>2
    <3> QED  BY <3>1, <3>2
  <2> QED  BY <2>2, <2>4
<1>13. n \in Good
  <2> HIDE DEF Good
  <2>1. Good \subseteq 0..n
    BY DEF Good
  <2> QED  BY <2>1, <1>0, <1>11, <1>12, AlongARow
<1>14. Range(q) \cap T = {q[j] : j \in {k \in 1..n : q[k] \in T}}
  BY <1>0 DEF Range
<1>15. Filtered(q, T) \in Seq(Q) /\ Range(Filtered(q, T)) = {q[j] : j \in {k \in 1..n : q[k] \in T}}
  BY <1>10, <1>13
<1> QED  BY <1>14, <1>15

(* An order in which no two elements tie, how many stand before an         *)
(* element, and the elements in a row.                                     *)
IsTotal(S, R) ==
  /\ \A x \in S : <<x, x>> \notin R
  /\ \A x, y, z \in S : <<x, y>> \in R /\ <<y, z>> \in R => <<x, z>> \in R
  /\ \A x, y \in S : x = y \/ <<x, y>> \in R \/ <<y, x>> \in R

Place(S, R, x) == Cardinality({y \in S : <<y, x>> \in R})

Arranged(s, S, R) ==
  /\ s \in Seq(S)
  /\ Len(s) = Cardinality(S)
  /\ \A x \in S : \E i \in 1..Len(s) : s[i] = x
  /\ \A i, j \in 1..Len(s) : i < j => <<s[i], s[j]>> \in R

(* Every place of an order is taken by one element.                        *)
LEMMA PlacesAreTaken ==
  ASSUME NEW S, IsFiniteSet(S), NEW R, IsTotal(S, R)
  PROVE  /\ \A x \in S : Place(S, R, x) \in 0..(Cardinality(S) - 1)
         /\ \A x, y \in S : <<x, y>> \in R => Place(S, R, x) < Place(S, R, y)
         /\ \A i \in 1..Cardinality(S) : \E x \in S : Place(S, R, x) = i - 1
<1> USE DEF IsTotal
<1> DEFINE Below(x) == {y \in S : <<y, x>> \in R}
           place == [x \in S |-> Cardinality(Below(x))]
<1>1. Cardinality(S) \in Nat
  BY FS_CardinalityType
<1>2. \A x \in S : IsFiniteSet(Below(x)) /\ Cardinality(Below(x)) \in Nat
  BY FS_Subset, FS_CardinalityType
<1>3. ASSUME NEW x \in S  PROVE Cardinality(Below(x)) <= Cardinality(S) - 1
  <2>1. /\ IsFiniteSet(S \ {x})
        /\ Cardinality(S \ {x}) = Cardinality(S) - 1
    BY FS_RemoveElement
  <2>2. Below(x) \subseteq S \ {x}
    OBVIOUS
  <2>3. Cardinality(Below(x)) <= Cardinality(S \ {x})
    <3> HIDE DEF Below
    <3> QED  BY <2>1, <2>2, FS_Subset
  <2> QED  BY <2>1, <2>3
<1>4. place \in [S -> 0..(Cardinality(S) - 1)]
  <2>1. place = [x \in S |-> Cardinality(Below(x))]
    OBVIOUS
  <2> HIDE DEF Below
  <2> QED  BY <2>1, <1>1, <1>2, <1>3
<1>5. ASSUME NEW x \in S, NEW y \in S, <<x, y>> \in R
      PROVE  place[x] < place[y]
  <2>1. Below(x) \subseteq Below(y) /\ x \in Below(y) /\ x \notin Below(x)
    BY <1>5
  <2>2. Cardinality(Below(x)) <= Cardinality(Below(y))
    BY <2>1, <1>2, FS_Subset
  <2>3. Cardinality(Below(x)) # Cardinality(Below(y))
    BY <2>1, <1>2, FS_Subset
  <2>4. place[x] = Cardinality(Below(x)) /\ place[y] = Cardinality(Below(y))
    OBVIOUS
  <2> HIDE DEF Below
  <2> QED  BY <2>2, <2>3, <2>4, <1>2
<1>6. \A x, y \in S : place[x] = place[y] => x = y
  <2> SUFFICES ASSUME NEW x \in S, NEW y \in S, place[x] = place[y], x # y
               PROVE  FALSE
    OBVIOUS
  <2>1. <<x, y>> \in R \/ <<y, x>> \in R
    OBVIOUS
  <2>2. place[x] < place[y] \/ place[y] < place[x]
    BY <2>1, <1>5
  <2>3. place[x] \in Int /\ place[y] \in Int
    BY <1>4, <1>1
  <2> QED  BY <2>2, <2>3
<1>7. place \in Injection(S, 0..(Cardinality(S) - 1))
  BY <1>4, <1>6 DEF Injection, IsInjective
<1>8. /\ IsFiniteSet(0..(Cardinality(S) - 1))
      /\ Cardinality(0..(Cardinality(S) - 1)) = Cardinality(S)
  <2>1. 0 \in Int /\ Cardinality(S) - 1 \in Int
    BY <1>1
  <2> HIDE DEF Below
  <2>2. /\ IsFiniteSet(0..(Cardinality(S) - 1))
        /\ Cardinality(0..(Cardinality(S) - 1)) =
             IF 0 > Cardinality(S) - 1 THEN 0 ELSE Cardinality(S) - 1 - 0 + 1
    BY <2>1, FS_Interval
  <2> QED  BY <2>2, <1>1
<1>9. place \in Surjection(S, 0..(Cardinality(S) - 1))
  BY <1>7, <1>8, FS_Injection
<1>10. \A i \in 1..Cardinality(S) : \E x \in S : place[x] = i - 1
  <2>1. \A i \in 1..Cardinality(S) : i - 1 \in 0..(Cardinality(S) - 1)
    BY <1>1
  <2> QED  BY <2>1, <1>9 DEF Surjection
<1>11. \A x \in S : place[x] = Place(S, R, x)
  BY DEF Place
<1> HIDE DEF place
<1> QED  BY <1>4, <1>5, <1>10, <1>11

(* What stands in the places of an order is sorted, and all of it.         *)
LEMMA SortedIs ==
  ASSUME NEW S, IsFiniteSet(S), NEW R, IsTotal(S, R),
         NEW s \in [1..Cardinality(S) -> S],
         \A i \in 1..Cardinality(S) : Place(S, R, s[i]) = i - 1
  PROVE  Arranged(s, S, R)
<1> DEFINE place(x) == Place(S, R, x)
<1>0. Cardinality(S) \in Nat
  BY FS_CardinalityType
<1>1. /\ \A x \in S : place(x) \in 0..(Cardinality(S) - 1)
      /\ \A x, y \in S : <<x, y>> \in R => place(x) < place(y)
  BY PlacesAreTaken
<1>2. s \in Seq(S) /\ Len(s) = Cardinality(S)
  BY <1>0
<1>3. \A i \in 1..Cardinality(S) : place(s[i]) = i - 1
  OBVIOUS
<1> HIDE DEF place
<1>4. \A x, y \in S : place(x) = place(y) => x = y
  <2> SUFFICES ASSUME NEW x \in S, NEW y \in S, place(x) = place(y), x # y
               PROVE  FALSE
    OBVIOUS
  <2>1. place(x) \in Int /\ place(y) \in Int
    BY <1>1, <1>0
  <2>2. CASE <<x, y>> \in R
    BY <2>1, <2>2, <1>1
  <2>3. CASE <<y, x>> \in R
    <3>1. place(y) < place(x)
      BY <2>3, <1>1
    <3> QED  BY <3>1, <2>1
  <2> QED  BY <2>2, <2>3 DEF IsTotal
<1>5. \A x \in S : \E i \in 1..Len(s) : s[i] = x
  <2> SUFFICES ASSUME NEW x \in S
               PROVE  \E i \in 1..Len(s) : s[i] = x
    OBVIOUS
  <2>1. place(x) \in 0..(Cardinality(S) - 1)
    BY <1>1
  <2>2. place(x) + 1 \in 1..Cardinality(S) /\ place(x) + 1 - 1 = place(x)
    BY <2>1, <1>0
  <2>3. PICK i \in 1..Cardinality(S) : i = place(x) + 1
    BY <2>2
  <2>4. place(s[i]) = place(x) /\ s[i] \in S
    <3>1. place(s[i]) = i - 1
      BY <1>3
    <3>2. i - 1 = place(x)
      BY <2>1, <2>3, <1>0
    <3>3. s[i] \in S
      OBVIOUS
    <3> QED  BY <3>1, <3>2, <3>3
  <2> QED  BY <2>3, <2>4, <1>4, <1>2
<1>6. ASSUME NEW i \in 1..Len(s), NEW j \in 1..Len(s), i < j
      PROVE  <<s[i], s[j]>> \in R
  <2>1. s[i] \in S /\ s[j] \in S /\ place(s[i]) = i - 1 /\ place(s[j]) = j - 1
    BY <1>2, <1>3
  <2>2. s[i] # s[j] /\ ~(place(s[j]) < place(s[i]))
    BY <2>1, <1>6
  <2> QED  BY <2>1, <2>2, <1>1 DEF IsTotal
<1> QED  BY <1>2, <1>5, <1>6 DEF Arranged

(* The lesser of two.                                                      *)
LEMMA MinOfTwo ==
  ASSUME NEW a \in Int, NEW b \in Int
  PROVE  /\ Min({a, b}) \in {a, b} /\ Min({a, b}) <= a /\ Min({a, b}) <= b
         /\ Max({a, b}) \in {a, b} /\ {Min({a, b}), Max({a, b})} = {a, b}
<1>1. \E x \in {a, b} : \A y \in {a, b} : x <= y
  OBVIOUS
<1>2. \E x \in {a, b} : \A y \in {a, b} : x >= y
  OBVIOUS
<1>3. Min({a, b}) \in {a, b} /\ \A y \in {a, b} : Min({a, b}) <= y
  BY <1>1 DEF Min
<1>4. Max({a, b}) \in {a, b} /\ \A y \in {a, b} : Max({a, b}) >= y
  BY <1>2 DEF Max
<1> QED  BY <1>3, <1>4

(* Two sequences, one after the other.                                     *)
LEMMA RangeOfBoth ==
  ASSUME NEW V, NEW a \in Seq(V), NEW b \in Seq(V)
  PROVE  a \o b \in Seq(V) /\ Range(a) \subseteq Range(a \o b) /\ Range(b) \subseteq Range(a \o b)
<1>1. /\ a \o b \in Seq(V)
      /\ DOMAIN (a \o b) = 1..(Len(a) + Len(b)) /\ Len(a) \in Nat /\ Len(b) \in Nat
      /\ DOMAIN a = 1..Len(a) /\ DOMAIN b = 1..Len(b)
      /\ \A i \in 1..Len(a) : (a \o b)[i] = a[i]
      /\ \A i \in 1..Len(b) : (a \o b)[Len(a) + i] = b[i]
  OBVIOUS
<1>2. /\ \A i \in 1..Len(a) : i \in 1..(Len(a) + Len(b))
      /\ \A i \in 1..Len(b) : Len(a) + i \in 1..(Len(a) + Len(b))
  BY <1>1
<1> QED  BY <1>1, <1>2 DEF Range

(* A sequence of sequences, in one: it has what each of them has, and      *)
(* nothing else.                                                           *)
LEMMA FlatIs ==
  ASSUME NEW V, NEW seqs \in Seq(Seq(V))
  PROVE  /\ FlattenSeq(seqs) \in Seq(V)
         /\ \A k \in DOMAIN seqs : Range(seqs[k]) \subseteq Range(FlattenSeq(seqs))
<1>1. CASE Len(seqs) = 0
  BY <1>1 DEF FlattenSeq
<1>2. CASE Len(seqs) # 0
  <2> DEFINE n == Len(seqs)
             D == 1..n
             Cat(r, i) == r \o seqs[i]
             step == [p \in D \X Seq(V) |-> Cat(p[2], p[1])]
             Rule(f) == f = [i \in 1..n |-> IF i = 1 THEN seqs[i] ELSE f[i - 1] \o seqs[i]]
             flat == CHOOSE f : Rule(f)
  <2>1. n \in Nat \ {0} /\ DOMAIN seqs = D /\ \A i \in D : seqs[i] \in Seq(V)
    BY <1>2
  <2>2. Keeps(step, D, Seq(V)) /\ <<>> \in Seq(V)
    <3>1. \A x \in D, v \in Seq(V) : Cat(v, x) \in Seq(V)
      BY <2>1
    <3> HIDE DEF Cat
    <3> QED  BY <3>1 DEF Keeps
  <2>3. PICK g \in [SUBSET D -> Seq(V)] : InARow(g, n, <<>>, step)
    <3> HIDE DEF step
    <3> QED  BY <2>1, <2>2, FoldInARow
  <2>4. ASSUME NEW i \in D
        PROVE  /\ g[1..i] \in Seq(V) /\ g[1..(i - 1)] \in Seq(V)
               /\ g[1..i] = g[1..(i - 1)] \o seqs[i]
    <3>1. 1..i \in SUBSET D /\ 1..i # {} /\ 1..(i - 1) \in SUBSET D
      <4> HIDE DEF n
      <4>1. i \in 1..i /\ 1..i \subseteq 1..n /\ 1..(i - 1) \subseteq 1..n
        BY <2>1
      <4> QED  BY <4>1
    <3>2. Max(1..i) = i /\ (1..i) \ {i} = 1..(i - 1)
      <4>1. i \in Nat \ {0}
        BY <2>1
      <4> QED  BY <4>1, LastOfTheFirst
    <3>3. g[1..i] = step[<<i, g[1..(i - 1)]>>]
      <4> HIDE DEF step
      <4> QED  BY <2>3, <3>1, <3>2 DEF InARow
    <3>4. g[1..i] \in Seq(V) /\ g[1..(i - 1)] \in Seq(V)
      BY <2>3, <3>1
    <3> QED  BY <3>3, <3>4
  <2>5. g[{}] = <<>>
    <3>1. {} \in SUBSET (1..n)
      OBVIOUS
    <3> QED  BY <2>3, <3>1 DEF InARow
  <2>6. Rule([i \in D |-> g[1..i]])
    <3> DEFINE h == [i \in D |-> g[1..i]]
    <3>1. ASSUME NEW i \in D  PROVE h[i] = IF i = 1 THEN seqs[i] ELSE h[i - 1] \o seqs[i]
      <4>1. CASE i = 1
        <5>1. 1..0 = {} /\ i - 1 = 0
          BY <4>1
        <5>2. g[1..(i - 1)] = <<>>
          BY <5>1, <2>5
        <5>3. <<>> \o seqs[i] = seqs[i]
          BY <2>1
        <5> QED  BY <4>1, <5>2, <5>3, <2>4
      <4>2. CASE i # 1
        <5>1. i - 1 \in D
          BY <4>2, <2>1
        <5> QED  BY <4>2, <5>1, <2>4
      <4> QED  BY <4>1, <4>2
    <3> DEFINE rhs == [i \in 1..n |-> IF i = 1 THEN seqs[i] ELSE h[i - 1] \o seqs[i]]
    <3>2. DOMAIN h = D /\ DOMAIN rhs = D /\ \A i \in D : h[i] = rhs[i]
      BY <3>1
    <3>3. h = [i \in DOMAIN h |-> h[i]] /\ rhs = [i \in DOMAIN rhs |-> rhs[i]]
      OBVIOUS
    <3>4. h = rhs
      <4> HIDE DEF h, rhs, D
      <4> QED  BY <3>2, <3>3
    <3> QED  BY <3>4 DEF rhs
  <2>7. Rule(flat)
    <3> HIDE DEF Rule
    <3> QED  BY <2>6
  <2>8. FlattenSeq(seqs) = flat[n]
    BY <1>2 DEF FlattenSeq
  <2> HIDE DEF flat
  <2> DEFINE Good == {i \in 0..n : i # 0 =>
                        /\ flat[i] \in Seq(V)
                        /\ \A k \in 1..i : Range(seqs[k]) \subseteq Range(flat[i])}
  <2>9. \A i \in 1..n : i - 1 \in Good => i \in Good
    <3> SUFFICES ASSUME NEW i \in 1..n, i - 1 \in Good PROVE i \in Good
      OBVIOUS
    <3>1. seqs[i] \in Seq(V) /\ i \in 0..n
      BY <2>1
    <3>2. CASE i = 1
      <4>1. flat[i] = seqs[i]
        BY <3>2, <2>7
      <4> QED  BY <3>1, <3>2, <4>1
    <3>3. CASE i # 1
      <4>0. i - 1 # 0 /\ i - 1 \in Nat
        BY <3>3
      <4>1. flat[i] = flat[i - 1] \o seqs[i]
        BY <3>3, <2>7
      <4>2. /\ flat[i - 1] \in Seq(V)
            /\ \A k \in 1..(i - 1) : Range(seqs[k]) \subseteq Range(flat[i - 1])
        BY <4>0
      <4>3. /\ flat[i] \in Seq(V)
            /\ Range(flat[i - 1]) \subseteq Range(flat[i])
            /\ Range(seqs[i]) \subseteq Range(flat[i])
        BY <3>1, <4>1, <4>2, RangeOfBoth
      <4>4. \A k \in 1..i : k \in 1..(i - 1) \/ k = i
        OBVIOUS
      <4> QED  BY <3>1, <4>2, <4>3, <4>4
    <3> QED  BY <3>2, <3>3
  <2>10. n \in Good
    <3>1. 0 \in Good /\ Good \subseteq 0..n
      BY <2>1
    <3> HIDE DEF Good
    <3> QED  BY <2>1, <2>9, <3>1, AlongARow
  <2> QED  BY <2>1, <2>8, <2>10
<1> QED  BY <1>1, <1>2

-----------------------------------------------------------------------------
(* What the crawler queues: what it had queued, and the paths of links.    *)
QueuedOf(Q, found, depth) == Q \cup {[path |-> l.path, depth |-> depth] : l \in Range(found)}

LEMMA QueuedIs ==
  ASSUME NEW Q, NEW q \in Seq(Q), NEW done, NEW L, NEW found \in Seq(L), NEW depth
  PROVE  Queued(q, done, found, depth) \in Seq(QueuedOf(Q, found, depth))
<1> DEFINE V == Seq(QueuedOf(Q, found, depth))
           n == Len(found)
           Take(r, l) == IF ~Fresh(l.path) \/ Len(r) + done >= PageLimit THEN r
                         ELSE Append(r, [path |-> l.path, depth |-> depth])
           step == [p \in (1..n) \X V |-> Take(p[2], found[p[1]])]
           Goal(g) == g = [s \in SUBSET DOMAIN found |->
                             IF s = {} THEN q
                             ELSE LET x == Max(s) IN Take(g[s \ {x}], found[x])]
           Rule(g) == InARow(g, n, q, step)
           iter == CHOOSE g : Goal(g)
<1>0. n \in Nat /\ DOMAIN found = 1..n
  OBVIOUS
<1>1. Queued(q, done, found, depth) = iter[DOMAIN found]
  BY DEF Queued, FoldLeft, MapThenFoldSet
<1>2. \A x \in 1..n, v \in V : Take(v, found[x]) \in V
  <2> SUFFICES ASSUME NEW x \in 1..n, NEW v \in V PROVE Take(v, found[x]) \in V
    OBVIOUS
  <2> DEFINE e == [path |-> found[x].path, depth |-> depth]
  <2>1. e \in QueuedOf(Q, found, depth)
    BY <1>0 DEF QueuedOf, Range
  <2>2. Append(v, e) \in V
    <3> HIDE DEF e
    <3> QED  BY <2>1
  <2> QED  BY <2>2
<1>3. q \in V
  <2>1. Q \subseteq QueuedOf(Q, found, depth)
    BY DEF QueuedOf
  <2> HIDE DEF QueuedOf
  <2> QED  BY <2>1
<1> HIDE DEF Take
<1>4. Keeps(step, 1..n, V)
  BY <1>2 DEF Keeps
<1>5. \E g \in [SUBSET DOMAIN found -> V] : Rule(g)
  <2> HIDE DEF step, V
  <2> QED  BY <1>0, <1>3, <1>4, FoldInARow
<1>6. \A s \in SUBSET DOMAIN found :
        s # {} => Max(s) \in s /\ Max(s) \in 1..n /\ s \ {Max(s)} \in SUBSET DOMAIN found
  <2> TAKE s \in SUBSET DOMAIN found
  <2> HAVE s # {}
  <2>1. Max(s) \in s
    BY <1>0, GreatestOfSome
  <2> QED  BY <2>1, <1>0
<1>7. \A g \in [SUBSET DOMAIN found -> V] : Rule(g) => Goal(g)
  <2> SUFFICES ASSUME NEW g \in [SUBSET DOMAIN found -> V], Rule(g) PROVE Goal(g)
    OBVIOUS
  <2>1. ASSUME NEW s \in SUBSET DOMAIN found
        PROVE  g[s] = IF s = {} THEN q
                      ELSE LET x == Max(s) IN Take(g[s \ {x}], found[x])
    <3>1. CASE s = {}
      BY <3>1, <1>0 DEF InARow
    <3>2. CASE s # {}
      <4>1. Max(s) \in 1..n /\ g[s \ {Max(s)}] \in V
        BY <1>6, <3>2
      <4>2. g[s] = step[<<Max(s), g[s \ {Max(s)}]>>]
        BY <3>2, <1>0 DEF InARow
      <4> HIDE DEF Goal, Rule, V
      <4> QED  BY <4>1, <4>2, <3>2
    <3> QED  BY <3>1, <3>2
  <2> HIDE DEF step, V
  <2> QED  BY <2>1 DEF InARow
<1>8. Goal(iter)
  <2>1. \E g : Goal(g)
    <3> HIDE DEF Goal, Rule, V, step
    <3> QED  BY <1>5, <1>7
  <2> HIDE DEF Goal
  <2> QED  BY <2>1
<1> HIDE DEF iter
<1> DEFINE pick == [s \in SUBSET DOMAIN found |-> Max(s)]
<1>9. iter[{}] \in V /\ Picks(pick, DOMAIN found) /\ IsFiniteSet(DOMAIN found)
  <2>1. iter[{}] = q
    BY <1>8
  <2>2. Picks(pick, DOMAIN found)
    BY <1>6 DEF Picks
  <2>3. IsFiniteSet(DOMAIN found)
    BY <1>0, FS_Interval
  <2> QED  BY <1>3, <2>1, <2>2, <2>3
<1>10. ASSUME NEW s \in SUBSET DOMAIN found, s # {}, iter[s \ {pick[s]}] \in V
       PROVE  iter[s] \in V
  <2>1. iter[s] = Take(iter[s \ {Max(s)}], found[Max(s)])
    BY <1>8, <1>10
  <2>2. pick[s] = Max(s)
    OBVIOUS
  <2>3. Max(s) \in 1..n /\ iter[s \ {Max(s)}] \in V
    BY <1>6, <1>10, <2>2
  <2> HIDE DEF V, pick
  <2> QED  BY <1>2, <2>1, <2>3
<1> HIDE DEF V, pick, step, Goal
<1>11. iter[DOMAIN found] \in V
  BY <1>9, <1>10, FoldKeeps
<1> QED  BY <1>1, <1>11 DEF V

-----------------------------------------------------------------------------
(* A path a crawl comes to: the start, or one that a page on the level     *)
(* above links.                                                            *)
Reached(path, depth, ps) ==
  /\ path \in DOMAIN Site
  /\ \/ path = StartPath /\ depth = 0
     \/ /\ depth \in 1 .. MaxDepth
        /\ \E j \in DOMAIN ps :
             ps[j].depth = depth - 1 /\ \E l \in Range(ps[j].links) : l.path = path

(* A page was reached by those before it, on a path no other page has.     *)
IsPage(p, met) == p.url.path \in met /\ p.url.query = {} /\ IsAnswer(p)

PagesOK ==
  /\ pages \in Seq(Range(pages))
  /\ Len(pages) <= PageLimit
  /\ \A i, j \in DOMAIN pages : pages[i].url.path = pages[j].url.path => i = j
  /\ \A i \in DOMAIN pages :
       /\ IsPage(pages[i], visited)
       /\ Reached(pages[i].url.path, pages[i].depth, SubSeq(pages, 1, i - 1))

CrawlInv ==
  /\ PagesOK
  /\ queue \in Seq(Range(queue))
  /\ \A q \in Range(queue) : Reached(q.path, q.depth, pages)
  /\ work = "page" =>
       /\ Len(pages) < PageLimit
       /\ item.path \in visited /\ \A i \in DOMAIN pages : pages[i].url.path # item.path
       /\ Reached(item.path, item.depth, pages)

LEMMA CrawlFrame ==
  ASSUME CrawlInv, UNCHANGED <<pages, queue, visited, item>>, work' = "page" => work = "page"
  PROVE  CrawlInv'
BY DEF CrawlInv, PagesOK, IsPage

LEMMA PageLimitIs == PageLimit \in Nat /\ PageLimit >= 1
BY SiteAssumption DEF PageLimit

LEMMA InRange ==
  ASSUME NEW s, NEW x
  PROVE  x \in Range(s) <=> \E i \in DOMAIN s : s[i] = x
BY DEF Range

(* A sequence is one of what it has.                                       *)
LEMMA OfItsRange ==
  ASSUME NEW Q, NEW s \in Seq(Q)
  PROVE  s \in Seq(Range(s)) /\ Range(s) \subseteq Q
<1>1. DOMAIN s = 1..Len(s) /\ Len(s) \in Nat /\ \A i \in 1..Len(s) : s[i] \in Q
  OBVIOUS
<1>2. \A i \in 1..Len(s) : s[i] \in Range(s)
  BY <1>1 DEF Range
<1> HIDE DEF Range
<1>3. s \in Seq(Range(s))
  BY <1>1, <1>2
<1>4. Range(s) \subseteq Q
  BY <1>1 DEF Range
<1> QED  BY <1>3, <1>4

LEMMA TailIsOf ==
  ASSUME NEW Q, NEW s \in Seq(Q), s # <<>>
  PROVE  Head(s) \in Range(s) /\ Tail(s) \in Seq(Q) /\ Range(Tail(s)) \subseteq Range(s)
<1>1. /\ Len(s) \in Nat \ {0} /\ DOMAIN s = 1..Len(s) /\ Head(s) = s[1]
      /\ Tail(s) \in Seq(Q) /\ DOMAIN Tail(s) = 1..(Len(s) - 1)
      /\ \A i \in 1..(Len(s) - 1) : Tail(s)[i] = s[i + 1]
  OBVIOUS
<1>2. \A i \in 1..(Len(s) - 1) : i + 1 \in 1..Len(s)
  BY <1>1
<1>3. 1 \in 1..Len(s)
  BY <1>1
<1> QED  BY <1>1, <1>2, <1>3 DEF Range

(* More pages reach no less.                                               *)
LEMMA ReachedStays ==
  ASSUME NEW path, NEW depth, NEW ps, NEW qs, DOMAIN ps \subseteq DOMAIN qs,
         \A i \in DOMAIN ps : qs[i] = ps[i], Reached(path, depth, ps)
  PROVE  Reached(path, depth, qs)
BY DEF Reached

LEMMA CrawlBegins ==
  ASSUME NEW k, StartCrawl(k)
  PROVE  CrawlInv'
<1>1. queue' = <<[path |-> StartPath, depth |-> 0]>> /\ pages' = <<>> /\ work' = "loop"
  BY DEF StartCrawl
<1>2. PagesOK'
  BY <1>1, PageLimitIs DEF PagesOK, Range
<1> DEFINE e == [path |-> StartPath, depth |-> 0]
<1>3. e.path = StartPath /\ e.depth = 0
  OBVIOUS
<1> HIDE DEF e
<1>4. queue' \in Seq({e}) /\ Range(queue') = {e}
  BY <1>1 DEF e, Range
<1>5. Reached(e.path, e.depth, pages')
  BY <1>3, SiteAssumption DEF Reached
<1> QED  BY <1>1, <1>2, <1>4, <1>5 DEF CrawlInv

LEMMA CrawlPasses ==
  ASSUME CrawlInv, PassVisited \/ Visit
  PROVE  CrawlInv'
<1>1. queue # <<>> /\ queue' = Tail(queue) /\ UNCHANGED pages
  BY DEF PassVisited, Visit, More
<1>2. /\ Head(queue) \in Range(queue)
      /\ queue' \in Seq(Range(queue)) /\ Range(queue') \subseteq Range(queue)
  BY <1>1, TailIsOf DEF CrawlInv
<1>3. /\ queue' \in Seq(Range(queue'))
      /\ \A q \in Range(queue') : Reached(q.path, q.depth, pages')
  BY <1>1, <1>2, OfItsRange DEF CrawlInv
<1>4. CASE PassVisited
  BY <1>1, <1>3, <1>4 DEF PassVisited, Crawling, Working, CrawlInv, PagesOK, IsPage
<1>5. CASE Visit
  <2>1. /\ item' = Head(queue) /\ visited' = visited \cup {Head(queue).path}
        /\ Head(queue).path \notin visited /\ Len(pages) < PageLimit
    BY <1>5 DEF Visit, Fresh, More
  <2>2. PagesOK'
    BY <1>1, <2>1 DEF CrawlInv, PagesOK, IsPage
  <2>3. /\ item'.path \in visited' /\ \A i \in DOMAIN pages' : pages'[i].url.path # item'.path
        /\ Reached(item'.path, item'.depth, pages')
    BY <1>1, <1>2, <2>1 DEF CrawlInv, PagesOK, IsPage
  <2> QED  BY <1>1, <1>3, <2>1, <2>2, <2>3 DEF CrawlInv
<1> QED  BY <1>4, <1>5

(* A page that was fetched is the last of those there are, and its links   *)
(* to the host that answered are reached, unless it is as deep as a crawl  *)
(* goes.                                                                   *)
FetchedPage(answer, own) ==
  [url |-> [host |-> HostOf(at), path |-> item.path, query |-> {}],
   depth |-> item.depth, links |-> own, forms |-> answer.forms,
   scripts |-> answer.scripts, json |-> answer.json, denied |-> answer.denied]

LEMMA FetchedPageIs ==
  ASSUME NEW answer, NEW own, NEW p, p = FetchedPage(answer, own)
  PROVE  /\ p.url.path = item.path /\ p.url.query = {} /\ p.depth = item.depth
         /\ p.links = own /\ p.forms = answer.forms /\ p.json = answer.json
         /\ p.scripts = answer.scripts
BY DEF FetchedPage

LEMMA CrawlFetches ==
  ASSUME CrawlInv, NEW answer \in Answered, PageFetched(answer)
  PROVE  CrawlInv'
<1> DEFINE own == Filtered(answer.links, {l \in Range(answer.links) : l.host = req.host})
           p == FetchedPage(answer, own)
           n == Len(pages)
<1>1. /\ work = "page" /\ work' = "loop" /\ UNCHANGED <<item, visited>>
      /\ pages' = Append(pages, p)
      /\ queue' = IF item.depth >= MaxDepth THEN queue
                  ELSE Queued(queue, Len(pages) + 1, own, item.depth + 1)
  BY DEF PageFetched, Working, FetchedPage
<1>2. /\ PagesOK /\ n < PageLimit
      /\ item.path \in visited /\ \A i \in DOMAIN pages : pages[i].url.path # item.path
      /\ Reached(item.path, item.depth, pages)
      /\ queue \in Seq(Range(queue))
      /\ \A q \in Range(queue) : Reached(q.path, q.depth, pages)
  BY <1>1 DEF CrawlInv
<1>3. item.path \in DOMAIN Site /\ item.depth \in Nat
  BY <1>2 DEF Reached
<1>4. IsAnswer(answer)
  BY <1>1, <1>3, SiteAssumption DEF Answered
<1>5. own \in Seq(Range(own)) /\ Range(own) \subseteq Range(answer.links)
  <2>1. answer.links \in Seq(Range(answer.links))
    BY <1>4 DEF IsAnswer
  <2>2. own \in Seq(Range(answer.links)) /\ Range(own) \subseteq Range(answer.links)
    BY <2>1, FilteredIs
  <2> HIDE DEF own
  <2> QED  BY <2>2, OfItsRange
<1> HIDE DEF own
<1>6. /\ p.url.path = item.path /\ p.url.query = {} /\ p.depth = item.depth
      /\ p.links = own /\ p.forms = answer.forms /\ p.json = answer.json
      /\ p.scripts = answer.scripts
  BY FetchedPageIs
<1> HIDE DEF p
<1>7. IsPage(p, visited')
  BY <1>1, <1>2, <1>4, <1>5, <1>6 DEF IsPage, IsAnswer
<1>8. /\ n \in Nat /\ DOMAIN pages = 1..n /\ pages \in Seq(Range(pages))
      /\ DOMAIN pages' = 1..(n + 1) /\ Len(pages') = n + 1
      /\ pages'[n + 1] = p
      /\ \A i \in 1..n : pages'[i] = pages[i]
  BY <1>1, <1>2 DEF PagesOK
<1>9. \A i \in 1..(n + 1) : i \in 1..n \/ i = n + 1
  BY <1>8
<1>10. /\ \A i \in 1..n : SubSeq(pages', 1, i - 1) = SubSeq(pages, 1, i - 1)
       /\ SubSeq(pages', 1, n) = pages
  <2>1. \A i \in 1..n : SubSeq(pages, 1, i - 1) = [j \in 1..(i - 1) |-> pages[j]]
    BY <1>8
  <2>2. \A i \in 1..(n + 1) : SubSeq(pages', 1, i - 1) = [j \in 1..(i - 1) |-> pages'[j]]
    BY <1>8
  <2>3. pages = [j \in 1..n |-> pages[j]]
    BY <1>8
  <2>4. \A i \in 1..(n + 1) : \A j \in 1..(i - 1) : j \in 1..n
    BY <1>8
  <2>5. n + 1 \in 1..(n + 1) /\ (n + 1) - 1 = n /\ \A i \in 1..n : i \in 1..(n + 1)
    BY <1>8
  <2> HIDE DEF n
  <2>6. ASSUME NEW i \in 1..n
        PROVE  SubSeq(pages', 1, i - 1) = SubSeq(pages, 1, i - 1)
    <3>1. i \in 1..(n + 1) /\ \A j \in 1..(i - 1) : j \in 1..n
      BY <2>4, <2>5
    <3>2. \A j \in 1..(i - 1) : pages'[j] = pages[j]
      BY <1>8, <3>1
    <3>3. [j \in 1..(i - 1) |-> pages'[j]] = [j \in 1..(i - 1) |-> pages[j]]
      BY ONLY <3>2
    <3> QED  BY ONLY <2>1, <2>2, <3>1, <3>3
  <2>7. SubSeq(pages', 1, n) = pages
    <3>1. SubSeq(pages', 1, n) = [j \in 1..n |-> pages'[j]]
      BY ONLY <2>2, <2>5
    <3>2. \A j \in 1..n : pages'[j] = pages[j]
      BY <1>8
    <3>3. [j \in 1..n |-> pages'[j]] = [j \in 1..n |-> pages[j]]
      BY ONLY <3>2
    <3> QED  BY ONLY <2>3, <3>1, <3>3
  <2> QED  BY <2>6, <2>7
<1>11. PagesOK'
  <2>1. pages' \in Seq(Range(pages'))
    <3>1. pages' \in Seq(Range(pages) \cup {p})
      BY <1>1, <1>8
    <3> QED  BY <3>1, OfItsRange
  <2>2. Len(pages') <= PageLimit
    BY <1>2, <1>8, PageLimitIs
  <2>3. \A i, j \in DOMAIN pages' : pages'[i].url.path = pages'[j].url.path => i = j
    <3> HIDE DEF n
    <3> QED  BY <1>2, <1>6, <1>8, <1>9 DEF PagesOK
  <2>4. ASSUME NEW i \in DOMAIN pages'
        PROVE  /\ IsPage(pages'[i], visited')
               /\ Reached(pages'[i].url.path, pages'[i].depth, SubSeq(pages', 1, i - 1))
    <3>1. CASE i \in 1..n
      BY <1>1, <1>2, <1>8, <1>10, <3>1 DEF PagesOK, IsPage
    <3>2. CASE i = n + 1
      <4>1. i - 1 = n
        BY <1>8, <3>2
      <4> HIDE DEF n
      <4> QED  BY <1>2, <1>6, <1>7, <1>8, <1>10, <3>2, <4>1 DEF IsPage
    <3> QED  BY <1>8, <1>9, <3>1, <3>2
  <2> QED  BY <2>1, <2>2, <2>3, <2>4 DEF PagesOK
<1>12. \A q \in Range(queue) : Reached(q.path, q.depth, pages')
  <2>1. DOMAIN pages \subseteq DOMAIN pages' /\ \A i \in DOMAIN pages : pages'[i] = pages[i]
    BY <1>8
  <2> QED  BY <1>2, <2>1, ReachedStays
<1>13. /\ queue' \in Seq(Range(queue'))
       /\ \A q \in Range(queue') : Reached(q.path, q.depth, pages')
  <2>1. CASE item.depth >= MaxDepth
    BY <1>1, <1>2, <1>12, <2>1
  <2>2. CASE ~(item.depth >= MaxDepth)
    <3> DEFINE d == item.depth + 1
               All == QueuedOf(Range(queue), own, d)
    <3>1. queue' = Queued(queue, Len(pages) + 1, own, d)
      BY <1>1, <2>2
    <3>2. queue' \in Seq(All)
      BY <1>2, <1>5, <3>1, QueuedIs
    <3>3. d \in 1..MaxDepth /\ d - 1 = item.depth
      BY <1>3, <2>2, SiteAssumption
    <3>4. \A l \in Range(own) : Reached(l.path, d, pages')
      <4> HIDE DEF d
      <4>1. n + 1 \in DOMAIN pages' /\ pages'[n + 1].links = own /\ pages'[n + 1].depth = d - 1
        BY <1>6, <1>8, <3>3
      <4>2. \A l \in Range(own) : l.path \in DOMAIN Site
        BY <1>4, <1>5 DEF IsAnswer
      <4> QED  BY <3>3, <4>1, <4>2 DEF Reached
    <3>5. \A q \in All : Reached(q.path, q.depth, pages')
      <4> SUFFICES ASSUME NEW q \in All, q \notin Range(queue)
                   PROVE  Reached(q.path, q.depth, pages')
        BY <1>12
      <4>1. PICK l \in Range(own) : q = [path |-> l.path, depth |-> d]
        BY DEF QueuedOf
      <4>2. q.path = l.path /\ q.depth = d
        BY <4>1
      <4> QED  BY <3>4, <4>2
    <3> HIDE DEF All
    <3> QED  BY <3>2, <3>5, OfItsRange
  <2> QED  BY <2>1, <2>2
<1> QED  BY <1>1, <1>11, <1>13 DEF CrawlInv

LEMMA WebKeepsCrawl ==
  ASSUME CrawlInv, NextWeb
  PROVE  CrawlInv'
<1> USE CrawlFrame
<1>1. CASE StartProbes \/ TryHTTP \/ NotHTTP
  BY <1>1 DEF StartProbes, TryHTTP, NotHTTP, CrawlUnchanged
<1>2. CASE StoreProbe \/ EndProbes
  BY <1>2 DEF StoreProbe, EndProbes, WebAborts, CrawlUnchanged
<1>3. ASSUME NEW k \in todo, StartProbe(k) PROVE CrawlInv'
  BY <1>3 DEF StartProbe, Working, CrawlUnchanged
<1>4. ASSUME NEW k \in todo, StartCrawl(k) PROVE CrawlInv'
  BY <1>4, CrawlBegins
<1>5. CASE CrawlCancelled \/ PageFailed
  BY <1>5 DEF CrawlCancelled, PageFailed, CrawlUnchanged
<1>6. CASE PassVisited \/ Visit
  BY <1>6, CrawlPasses
<1>7. ASSUME NEW answer \in Answered, PageFetched(answer) PROVE CrawlInv'
  BY <1>7, CrawlFetches
<1>8. CASE StoreCrawl
  BY <1>8 DEF StoreCrawl, WebAborts
<1>9. ASSUME NEW s \in scripts, FetchScript(s) PROVE CrawlInv'
  BY <1>9 DEF FetchScript
<1>10. CASE ScriptSkipped \/ ScriptFetched
  BY <1>10 DEF ScriptSkipped, ScriptFetched, WebAborts, CrawlUnchanged
<1>11. CASE EndCrawl \/ EndCrawls
  BY <1>11 DEF EndCrawl, EndCrawls, CrawlUnchanged
<1> QED
  BY <1>1, <1>2, <1>3, <1>4, <1>5, <1>6, <1>7, <1>8, <1>9, <1>10, <1>11 DEF NextWeb

LEMMA StepsOfTheWeb ==
  ASSUME [Next]_vars
  PROVE  UNCHANGED wVars \/ NextWeb
BY DEF Next, Progress, Interrupt, Quiet, vars, CheckTargets, Finish, StagesUnchanged, Discover,
       ScanPorts, LogIn, Web, Exchange

LEMMA CrawlInvHolds == Spec => []CrawlInv
<1>1. Init => CrawlInv
  BY PageLimitIs DEF Init, InitWeb, CrawlInv, PagesOK, Range
<1>2. CrawlInv /\ [Next]_vars => CrawlInv'
  <2> SUFFICES ASSUME CrawlInv, [Next]_vars PROVE CrawlInv'
    OBVIOUS
  <2>1. CASE UNCHANGED wVars
    BY <2>1, CrawlFrame DEF wVars
  <2>2. CASE NextWeb
    BY <2>2, WebKeepsCrawl
  <2>3. UNCHANGED wVars \/ NextWeb
    BY StepsOfTheWeb
  <2> QED  BY <2>1, <2>2, <2>3
<1> QED  BY <1>1, <1>2, PTL DEF Spec

(* What a crawl fetched is a traversal of the site's links from the start  *)
(* path: no path twice, though links repeat and the queue holds a path     *)
(* more than once; no more pages than the limit and none below the depth;  *)
(* every page but the first linked from the level above by one fetched     *)
(* before it.                                                              *)
THEOREM CrawlsAreTraversals == Spec => []CrawlIsTraversal
<1>1. CrawlInv => CrawlIsTraversal
  <2> SUFFICES ASSUME CrawlInv, NEW i \in DOMAIN pages,
                      ~(pages[i].url.path = StartPath /\ pages[i].depth = 0)
               PROVE  /\ pages[i].depth \in 1 .. MaxDepth
                      /\ \E j \in 1 .. i - 1 :
                           /\ pages[j].depth = pages[i].depth - 1
                           /\ \E l \in Range(pages[j].links) : l.path = pages[i].url.path
    BY DEF CrawlInv, PagesOK, CrawlIsTraversal
  <2> DEFINE ps == SubSeq(pages, 1, i - 1)
  <2>1. pages \in Seq(Range(pages)) /\ Reached(pages[i].url.path, pages[i].depth, ps)
    BY DEF CrawlInv, PagesOK
  <2>2. DOMAIN ps = 1..(i - 1) /\ \A j \in 1..(i - 1) : ps[j] = pages[j]
    BY <2>1
  <2> HIDE DEF ps
  <2> QED  BY <2>1, <2>2 DEF Reached
<1> QED  BY <1>1, CrawlInvHolds, PTL

-----------------------------------------------------------------------------
(* The order of the key paths.                                             *)
Shorter(a, b) == Len(a) < Len(b) /\ \A j \in 1..Len(a) : a[j] = b[j]

PartAt(a, b, i) ==
  /\ i \in 1..Len(a) /\ i \in 1..Len(b)
  /\ a[i] < b[i] /\ \A j \in 1..(i - 1) : a[j] = b[j]

LEMMA KeyBeforeIs ==
  ASSUME NEW a \in Seq(Nat), NEW b \in Seq(Nat)
  PROVE  KeyBefore(a, b) <=> Shorter(a, b) \/ \E i \in Nat : PartAt(a, b, i)
<1>0. Len(a) \in Nat /\ Len(b) \in Nat
  OBVIOUS
<1>1. /\ Len(a) \in Nat /\ Len(b) \in Nat
      /\ a = [i \in 1..Len(a) |-> a[i]] /\ b = [i \in 1..Len(b) |-> b[i]]
  OBVIOUS
<1>2. IsStrictPrefix(a, b) <=> Shorter(a, b)
  <2>1. CASE Len(a) <= Len(b)
    <3>1. /\ SubSeq(a, 1, Len(a)) = [i \in 1..Len(a) |-> a[i]]
          /\ SubSeq(b, 1, Len(a)) = [i \in 1..Len(a) |-> b[i]]
      BY <2>1
    <3>2. SubSeq(a, 1, Len(a)) = SubSeq(b, 1, Len(a)) <=> \A j \in 1..Len(a) : a[j] = b[j]
      BY <3>1
    <3>3. (\A j \in 1..Len(a) : a[j] = b[j]) /\ a # b => Len(a) # Len(b)
      BY <1>1
    <3>4. a = b => Len(a) = Len(b)
      OBVIOUS
    <3>5. IsStrictPrefix(a, b) <=> (\A j \in 1..Len(a) : a[j] = b[j]) /\ a # b
      BY <2>1, <3>2 DEF IsStrictPrefix, IsPrefix
    <3>6. Len(a) # Len(b) <=> Len(a) < Len(b)
      BY <1>0, <2>1
    <3> QED  BY <3>3, <3>4, <3>5, <3>6 DEF Shorter
  <2>2. CASE ~(Len(a) <= Len(b))
    BY <1>1, <2>2 DEF IsStrictPrefix, IsPrefix, Shorter
  <2> QED  BY <2>1, <2>2
<1>3. (\E i \in (1..Len(a)) \cap (1..Len(b)) :
          a[i] < b[i] /\ \A j \in 1 .. (i - 1) : a[j] = b[j]) <=> \E i \in Nat : PartAt(a, b, i)
  BY <1>1 DEF PartAt
<1> QED  BY <1>2, <1>3 DEF KeyBefore

LEMMA BeforeThat ==
  ASSUME NEW i \in Nat \ {0}, NEW k \in Nat, NEW n \in Nat, i < k, k \in 1..n
  PROVE  i \in 1..(k - 1) /\ i \in 1..n /\ \A j \in 1..(i - 1) : j \in 1..(k - 1)
OBVIOUS

KeyOrder(S) == {p \in S \X S : KeyBefore(p[1], p[2])}

LEMMA KeyOrderIsTotal ==
  ASSUME NEW S, S \subseteq Seq(Nat)
  PROVE  IsTotal(S, KeyOrder(S))
<1>0. \A a, b \in S : <<a, b>> \in KeyOrder(S) <=> Shorter(a, b) \/ \E i \in Nat : PartAt(a, b, i)
  <2> TAKE a, b \in S
  <2>1. a \in Seq(Nat) /\ b \in Seq(Nat)
    OBVIOUS
  <2>2. KeyBefore(a, b) <=> Shorter(a, b) \/ \E i \in Nat : PartAt(a, b, i)
    BY <2>1, KeyBeforeIs
  <2> QED  BY <2>2 DEF KeyOrder
<1>a. \A a \in S : /\ Len(a) \in Nat /\ a = [i \in 1..Len(a) |-> a[i]]
                   /\ \A i \in 1..Len(a) : a[i] \in Nat
  OBVIOUS
<1>1. \A a \in S : <<a, a>> \notin KeyOrder(S)
  BY <1>0, <1>a DEF Shorter, PartAt
<1>2. ASSUME NEW a \in S, NEW b \in S, NEW c \in S,
             <<a, b>> \in KeyOrder(S), <<b, c>> \in KeyOrder(S)
      PROVE  <<a, c>> \in KeyOrder(S)
  <2> USE <1>0, <1>a
  <2>1. CASE Shorter(a, b) /\ Shorter(b, c)
    <3>1. Shorter(a, c)
      BY <2>1 DEF Shorter
    <3> QED  BY <3>1
  <2>2. ASSUME Shorter(a, b), NEW k \in Nat, PartAt(b, c, k)
        PROVE  <<a, c>> \in KeyOrder(S)
    <3>1. CASE k <= Len(a)
      <4>1. PartAt(a, c, k)
        BY <2>2, <3>1 DEF Shorter, PartAt
      <4> QED  BY <4>1
    <3>2. CASE ~(k <= Len(a))
      <4>1. Shorter(a, c)
        BY <2>2, <3>2 DEF Shorter, PartAt
      <4> QED  BY <4>1
    <3> QED  BY <3>1, <3>2
  <2>3. ASSUME NEW i \in Nat, PartAt(a, b, i), Shorter(b, c)
        PROVE  <<a, c>> \in KeyOrder(S)
    <3>a. /\ i \in 1..Len(a) /\ i \in 1..Len(b) /\ a[i] < b[i]
          /\ \A j \in 1..(i - 1) : a[j] = b[j]
      BY ONLY <2>3 DEF PartAt
    <3>b. Len(b) < Len(c) /\ \A j \in 1..Len(b) : b[j] = c[j]
      BY ONLY <2>3 DEF Shorter
    <3>c. Len(b) \in Nat /\ Len(c) \in Nat
      BY ONLY <1>a, b \in S, c \in S
    <3>d. i \in 1..Len(c) /\ \A j \in 1..(i - 1) : j \in 1..Len(b)
      BY ONLY <3>a, <3>b, <3>c
    <3>e. a[i] < c[i] /\ \A j \in 1..(i - 1) : a[j] = c[j]
      BY ONLY <3>a, <3>b, <3>d
    <3>1. PartAt(a, c, i)
      BY ONLY <3>a, <3>d, <3>e DEF PartAt
    <3> QED  BY <3>1
  <2>4. ASSUME NEW i \in Nat, PartAt(a, b, i), NEW k \in Nat, PartAt(b, c, k)
        PROVE  <<a, c>> \in KeyOrder(S)
    <3>a. /\ i \in 1..Len(a) /\ i \in 1..Len(b) /\ a[i] < b[i]
          /\ \A j \in 1..(i - 1) : a[j] = b[j]
      BY ONLY <2>4 DEF PartAt
    <3>b. /\ k \in 1..Len(b) /\ k \in 1..Len(c) /\ b[k] < c[k]
          /\ \A j \in 1..(k - 1) : b[j] = c[j]
      BY ONLY <2>4 DEF PartAt
    <3>c. Len(a) \in Nat /\ Len(b) \in Nat /\ Len(c) \in Nat
      BY ONLY <1>a, a \in S, b \in S, c \in S
    <3>d. i \in Nat \ {0} /\ k \in Nat \ {0}
      BY ONLY <3>a, <3>b, <3>c
    <3>e. a[i] \in Nat /\ b[i] \in Nat
      BY ONLY <1>a, <3>a, a \in S, b \in S
    <3>0. /\ i \in Nat \ {0} /\ k \in Nat \ {0}
          /\ i \in 1..Len(a) /\ i \in 1..Len(b) /\ k \in 1..Len(b) /\ k \in 1..Len(c)
          /\ a[i] < b[i] /\ b[k] < c[k]
          /\ \A j \in 1..(i - 1) : a[j] = b[j]
          /\ \A j \in 1..(k - 1) : b[j] = c[j]
          /\ Len(a) \in Nat /\ Len(b) \in Nat /\ Len(c) \in Nat
          /\ a[i] \in Nat /\ b[i] \in Nat
      BY ONLY <3>a, <3>b, <3>c, <3>d, <3>e
    <3>1. CASE i < k
      <4>1. i \in 1..(k - 1) /\ i \in 1..Len(c) /\ \A j \in 1..(i - 1) : j \in 1..(k - 1)
        BY <3>0, <3>1, BeforeThat
      <4>2. PartAt(a, c, i)
        BY <3>0, <4>1 DEF PartAt
      <4> QED  BY <4>2
    <3>2. CASE k < i
      <4>1. k \in 1..(i - 1) /\ k \in 1..Len(a) /\ \A j \in 1..(k - 1) : j \in 1..(i - 1)
        BY <3>0, <3>2, BeforeThat
      <4>2. PartAt(a, c, k)
        BY <3>0, <4>1 DEF PartAt
      <4> QED  BY <4>2
    <3>3. CASE i = k
      <4>1. c[i] \in Nat
        BY ONLY <1>a, <3>b, <3>3, c \in S
      <4>2. a[i] < c[i]
        BY ONLY <3>a, <3>b, <3>e, <3>3, <4>1
      <4>3. PartAt(a, c, i)
        BY <3>0, <3>3, <4>2 DEF PartAt
      <4> QED  BY <4>3
    <3> QED  BY <3>1, <3>2, <3>3
  <2> QED  BY <1>2, <2>1, <2>2, <2>3, <2>4
<1>3. ASSUME NEW a \in S, NEW b \in S
      PROVE  a = b \/ <<a, b>> \in KeyOrder(S) \/ <<b, a>> \in KeyOrder(S)
  <2> USE <1>0, <1>a
  <2> DEFINE D == {i \in Nat : i \in 1..Len(a) /\ i \in 1..Len(b) /\ a[i] # b[i]}
  <2>1. CASE D = {}
    <3>1. \A j \in Nat : j \in 1..Len(a) /\ j \in 1..Len(b) => a[j] = b[j]
      BY <2>1
    <3>2. CASE Len(a) = Len(b)
      <4>0. /\ a = [j \in 1..Len(a) |-> a[j]] /\ b = [j \in 1..Len(b) |-> b[j]]
            /\ Len(a) \in Nat
        BY ONLY <1>a, a \in S, b \in S
      <4>1. \A j \in 1..Len(a) : a[j] = b[j]
        BY ONLY <3>1, <3>2, <4>0
      <4>2. a = b
        BY ONLY <3>2, <4>0, <4>1
      <4> QED  BY <4>2
    <3>3. CASE Len(a) < Len(b)
      <4>0. \A j \in 1..Len(a) : j \in Nat /\ j \in 1..Len(b)
        BY <3>3
      <4>1. Shorter(a, b)
        BY <3>1, <3>3, <4>0 DEF Shorter
      <4> QED  BY <4>1
    <3>4. CASE Len(b) < Len(a)
      <4>0. \A j \in 1..Len(b) : j \in Nat /\ j \in 1..Len(a)
        BY <3>4
      <4>1. Shorter(b, a)
        BY <3>1, <3>4, <4>0 DEF Shorter
      <4> QED  BY <4>1
    <3> QED  BY <3>2, <3>3, <3>4
  <2>2. CASE D # {}
    <3>1. PICK i \in D : \A j \in D : i <= j
      <4>1. D \subseteq Nat
        OBVIOUS
      <4> HIDE DEF D
      <4> QED  BY <2>2, <4>1, LeastNatural
    <3>2. \A j \in 1..(i - 1) : a[j] = b[j]
      <4> SUFFICES ASSUME NEW j \in 1..(i - 1), a[j] # b[j] PROVE FALSE
        OBVIOUS
      <4>a. Len(a) \in Nat /\ Len(b) \in Nat /\ i \in Nat /\ i \in 1..Len(a) /\ i \in 1..Len(b)
        BY <3>1
      <4>b. j \in Nat /\ j \in 1..Len(a) /\ j \in 1..Len(b) /\ ~(i <= j)
        BY ONLY <4>a, j \in 1..(i - 1)
      <4>c. a[j] # b[j]
        OBVIOUS
      <4>1. j \in D /\ ~(i <= j)
        BY ONLY <4>b, <4>c
      <4> HIDE DEF D
      <4> QED  BY <3>1, <4>1
    <3>3. a[i] < b[i] \/ b[i] < a[i]
      BY <3>1
    <3>4. PartAt(a, b, i) \/ PartAt(b, a, i)
      BY <3>1, <3>2, <3>3 DEF PartAt
    <3> QED  BY <3>1, <3>4
  <2> QED  BY <2>1, <2>2
<1> QED  BY <1>1, <1>2, <1>3 DEF IsTotal

(* The names of a query, and the key paths of a body, in their order:      *)
(* none is missing.                                                        *)
LEMMA InPlace ==
  ASSUME NEW S, IsFiniteSet(S), NEW R, IsTotal(S, R), NEW s, DOMAIN s = 1..Cardinality(S),
         \A i \in DOMAIN s : s[i] \in S /\ Place(S, R, s[i]) = i - 1,
         s = [i \in DOMAIN s |-> s[i]]
  PROVE  s \in Seq(S) /\ Range(s) = S
<1>1. s \in [1..Cardinality(S) -> S]
  OBVIOUS
<1>2. Arranged(s, S, R)
  BY <1>1, SortedIs
<1>3. DOMAIN s = 1..Len(s) /\ s \in Seq(S)
  BY <1>2 DEF Arranged
<1> QED  BY <1>2, <1>3 DEF Arranged, Range

LEMMA AscendingIs ==
  ASSUME NEW S, S \subseteq Nat, IsFiniteSet(S)
  PROVE  Ascending(S) \in Seq(S) /\ Range(Ascending(S)) = S
<1> DEFINE R == {p \in S \X S : p[1] < p[2]}
           s == Ascending(S)
<1>1. IsTotal(S, R)
  BY DEF IsTotal
<1>2. \A x \in S : Place(S, R, x) = Cardinality({y \in S : y < x})
  <2> TAKE x \in S
  <2>1. {y \in S : <<y, x>> \in R} = {y \in S : y < x}
    OBVIOUS
  <2> QED  BY <2>1 DEF Place
<1>3. \A i \in 1..Cardinality(S) : \E x \in S : Cardinality({y \in S : y < x}) = i - 1
  <2> HIDE DEF R
  <2>1. \A i \in 1..Cardinality(S) : \E x \in S : Place(S, R, x) = i - 1
    BY <1>1, PlacesAreTaken
  <2> QED  BY <1>2, <2>1
<1> DEFINE At(i) == CHOOSE x \in S : Cardinality({y \in S : y < x}) = i - 1
<1>4. s = [i \in 1..Cardinality(S) |-> At(i)]
  BY DEF Ascending, Sorted
<1> HIDE DEF R, s
<1>5. DOMAIN s = 1..Cardinality(S) /\ s = [i \in DOMAIN s |-> s[i]]
  <2> HIDE DEF At
  <2> QED  BY <1>4
<1>6. \A i \in DOMAIN s : s[i] \in S /\ Place(S, R, s[i]) = i - 1
  <2> SUFFICES ASSUME NEW i \in 1..Cardinality(S) PROVE s[i] \in S /\ Place(S, R, s[i]) = i - 1
    BY <1>5
  <2>1. s[i] = CHOOSE x \in S : Cardinality({y \in S : y < x}) = i - 1
    <3>1. s[i] = At(i)
      <4> HIDE DEF At
      <4> QED  BY <1>4
    <3> QED  BY <3>1
  <2>2. s[i] \in S /\ Cardinality({y \in S : y < s[i]}) = i - 1
    BY <1>3, <2>1
  <2> QED  BY <1>2, <2>2
<1>7. s \in Seq(S) /\ Range(s) = S
  BY <1>1, <1>5, <1>6, InPlace
<1> QED  BY <1>7 DEF s

LEMMA KeysInOrder ==
  ASSUME NEW S, S \subseteq Seq(Nat), IsFiniteSet(S)
  PROVE  Sorted(S, KeyBefore) \in Seq(S) /\ Range(Sorted(S, KeyBefore)) = S
<1> DEFINE R == KeyOrder(S)
           s == Sorted(S, KeyBefore)
<1>1. IsTotal(S, R)
  BY KeyOrderIsTotal
<1>2. \A x \in S : Place(S, R, x) = Cardinality({y \in S : KeyBefore(y, x)})
  <2> TAKE x \in S
  <2>1. {y \in S : <<y, x>> \in R} = {y \in S : KeyBefore(y, x)}
    BY DEF KeyOrder
  <2> QED  BY <2>1 DEF Place
<1>3. \A i \in 1..Cardinality(S) : \E x \in S : Cardinality({y \in S : KeyBefore(y, x)}) = i - 1
  <2> HIDE DEF R
  <2> QED  BY <1>1, <1>2, PlacesAreTaken
<1> DEFINE At(i) == CHOOSE x \in S : Cardinality({y \in S : KeyBefore(y, x)}) = i - 1
<1>4. s = [i \in 1..Cardinality(S) |-> At(i)]
  BY DEF Sorted
<1> HIDE DEF R, s
<1>5. DOMAIN s = 1..Cardinality(S) /\ s = [i \in DOMAIN s |-> s[i]]
  <2> HIDE DEF At
  <2> QED  BY <1>4
<1>6. \A i \in DOMAIN s : s[i] \in S /\ Place(S, R, s[i]) = i - 1
  <2> SUFFICES ASSUME NEW i \in 1..Cardinality(S) PROVE s[i] \in S /\ Place(S, R, s[i]) = i - 1
    BY <1>5
  <2>1. s[i] = CHOOSE x \in S : Cardinality({y \in S : KeyBefore(y, x)}) = i - 1
    <3>1. s[i] = At(i)
      <4> HIDE DEF At
      <4> QED  BY <1>4
    <3> QED  BY <3>1
  <2>2. s[i] \in S /\ Cardinality({y \in S : KeyBefore(y, s[i])}) = i - 1
    BY <1>3, <2>1
  <2> QED  BY <1>2, <2>2
<1>7. s \in Seq(S) /\ Range(s) = S
  BY <1>1, <1>5, <1>6, InPlace
<1> QED  BY <1>7 DEF s

(* A body of which no key path is left out, if the limits were not met.    *)
LEMMA SomeAreFirst ==
  ASSUME NEW S, IsFiniteSet(S), NEW R, IsTotal(S, R), NEW n \in Nat, n <= Cardinality(S)
  PROVE  n <= Cardinality({x \in S : Place(S, R, x) < n})
<1> DEFINE T == {x \in S : Place(S, R, x) < n}
           f == [i \in 1..n |-> CHOOSE x \in S : Place(S, R, x) = i - 1]
<1>0. Cardinality(S) \in Nat /\ IsFiniteSet(T) /\ Cardinality(T) \in Nat
  BY FS_CardinalityType, FS_Subset
<1>1. \A i \in 1..n : f[i] \in S /\ Place(S, R, f[i]) = i - 1
  <2>1. \A i \in 1..n : i \in 1..Cardinality(S)
    BY <1>0
  <2>2. \A i \in 1..n : \E x \in S : Place(S, R, x) = i - 1
    BY <2>1, PlacesAreTaken
  <2> QED  BY <2>2
<1>2. \A i \in 1..n : f[i] \in T
  <2>1. \A i \in 1..n : i - 1 < n
    OBVIOUS
  <2> HIDE DEF f
  <2> QED  BY <1>1, <2>1
<1>3. f \in [1..n -> T]
  <2> HIDE DEF T
  <2>1. f = [i \in 1..n |-> f[i]]
    OBVIOUS
  <2> HIDE DEF f
  <2> QED  BY <1>2, <2>1
<1> HIDE DEF f, T
<1>4. f \in Injection(1..n, T)
  BY <1>1, <1>3 DEF Injection, IsInjective
<1>5. Cardinality(1..n) <= Cardinality(T)
  BY <1>0, <1>4, FS_Injection
<1>6. Cardinality(1..n) = n
  BY FS_Interval
<1> QED  BY <1>5, <1>6 DEF T

LEMMA JSONFieldsIs == JSONFields \in Nat \ {0} /\ JSONDepth \in Nat /\ FormFields \in Nat \ {0}
BY InputsAssumption DEF JSONFields, JSONDepth, FormFields, OrDefault

LEMMA BodyIsWhole ==
  ASSUME NEW body, body \subseteq Seq(Nat), IsFiniteSet(body),
         ~ AtFieldLimit(Cardinality(JSONNames(body))),
         \A k \in body \ Shallow(body) :
           ~ (Cardinality({j \in Shallow(body) : KeyBefore(j, k)}) < JSONFields)
  PROVE  JSONNames(body) = body
<1> DEFINE S == Shallow(body)
           R == KeyOrder(S)
           n == JSONFields
<1>1. S \subseteq Seq(Nat) /\ S \subseteq body
  BY DEF Shallow
<1>2. IsFiniteSet(S) /\ Cardinality(S) \in Nat /\ IsTotal(S, R)
  <2> HIDE DEF S
  <2> QED  BY <1>1, KeyOrderIsTotal, FS_Subset, FS_CardinalityType
<1>3. n \in Nat \ {0}
  BY JSONFieldsIs
<1> HIDE DEF n
<1>4. \A x \in S : Place(S, R, x) = Cardinality({y \in S : KeyBefore(y, x)})
  <2> TAKE x \in S
  <2>1. {y \in S : <<y, x>> \in R} = {y \in S : KeyBefore(y, x)}
    BY DEF KeyOrder
  <2> QED  BY <2>1 DEF Place
<1>5. JSONNames(body) = {x \in S : Place(S, R, x) < n}
  BY <1>4 DEF JSONNames, n
<1> HIDE DEF S, R
<1>6. Cardinality({x \in S : Place(S, R, x) < n}) \in Nat
  BY <1>2, FS_Subset, FS_CardinalityType
<1>7. Cardinality(S) < n
  <2> SUFFICES ASSUME n <= Cardinality(S) PROVE FALSE
    BY <1>2, <1>3
  <2>1. n <= Cardinality({x \in S : Place(S, R, x) < n})
    BY <1>2, <1>3, SomeAreFirst
  <2> QED  BY <2>1, <1>3, <1>5, <1>6 DEF AtFieldLimit, n
<1>8. \A x \in S : Place(S, R, x) < n
  <2>1. \A x \in S : Place(S, R, x) \in 0..(Cardinality(S) - 1)
    BY <1>2, PlacesAreTaken
  <2> QED  BY <1>2, <1>3, <1>7, <2>1
<1>9. body \ S = {}
  <2> SUFFICES ASSUME NEW k \in body \ S PROVE FALSE
    OBVIOUS
  <2> DEFINE B == {j \in S : KeyBefore(j, k)}
  <2>1. B \subseteq S /\ ~(Cardinality(B) < n)
    BY DEF S, n
  <2> HIDE DEF B
  <2>2. Cardinality(B) \in Nat /\ Cardinality(B) <= Cardinality(S)
    BY <1>2, <2>1, FS_Subset, FS_CardinalityType
  <2> QED  BY <1>2, <1>3, <1>7, <2>1, <2>2
<1> QED  BY <1>1, <1>5, <1>8, <1>9

-----------------------------------------------------------------------------
(* The candidates of pages: where each pass puts them, and that no input   *)
(* is missing among them.                                                  *)
Rows(E) == [endpoint : E, input : {"query", "form", "json"} \X (Nat \cup Seq(Nat))]

LEMMA RowOf ==
  ASSUME NEW E, NEW e \in E, NEW loc \in {"query", "form", "json"}, NEW n \in Nat \cup Seq(Nat)
  PROVE  Candidate(e, loc, n) \in Rows(E)
BY DEF Candidate, Rows

(* What is read off one place, name after name.                            *)
Read(e, loc, names) == [i \in DOMAIN names |-> Candidate(e, loc, names[i])]

LEMMA ReadIs ==
  ASSUME NEW E, NEW e \in E, NEW loc \in {"query", "form", "json"},
         NEW N, N \subseteq Nat \cup Seq(Nat), NEW names \in Seq(N)
  PROVE  /\ Read(e, loc, names) \in Seq(Rows(E))
         /\ \A n \in Range(names) : Candidate(e, loc, n) \in Range(Read(e, loc, names))
<1>1. DOMAIN names = 1..Len(names) /\ Len(names) \in Nat /\ \A i \in 1..Len(names) : names[i] \in N
  OBVIOUS
<1>2. \A i \in 1..Len(names) : Candidate(e, loc, names[i]) \in Rows(E)
  BY <1>1, RowOf
<1> HIDE DEF Candidate
<1>3. /\ DOMAIN Read(e, loc, names) = 1..Len(names)
      /\ \A i \in 1..Len(names) : Read(e, loc, names)[i] = Candidate(e, loc, names[i])
  BY <1>1 DEF Read
<1>4. Read(e, loc, names) \in Seq(Rows(E))
  <2>1. Read(e, loc, names) \in [1..Len(names) -> Rows(E)]
    BY <1>1, <1>2 DEF Read
  <2> QED  BY <1>1, <2>1
<1>5. \A n \in Range(names) : Candidate(e, loc, n) \in Range(Read(e, loc, names))
  BY <1>1, <1>3 DEF Range
<1> QED  BY <1>4, <1>5

LEMMA QueryIsRead ==
  ASSUME NEW u, NEW source, u.query \subseteq Nat, IsFiniteSet(u.query),
         NEW E, Endpoint(u, "GET", source) \in E
  PROVE  /\ QueryCandidates(u, source) \in Seq(Rows(E))
         /\ \A n \in u.query : Candidate(Endpoint(u, "GET", source), "query", n)
                                 \in Range(QueryCandidates(u, source))
<1>1. Ascending(u.query) \in Seq(u.query) /\ Range(Ascending(u.query)) = u.query
  BY AscendingIs
<1>2. QueryCandidates(u, source) = Read(Endpoint(u, "GET", source), "query", Ascending(u.query))
  BY DEF QueryCandidates, Read
<1>3. u.query \subseteq Nat \cup Seq(Nat)
  OBVIOUS
<1> QED  BY <1>1, <1>2, <1>3, ReadIs

LEMMA BodyIsRead ==
  ASSUME NEW p, p.json \subseteq Seq(Nat), IsFiniteSet(p.json),
         NEW E, Endpoint(p.url, "GET", "crawl") \in E
  PROVE  /\ BodyCandidates(p) \in Seq(Rows(E))
         /\ \A n \in JSONNames(p.json) : Candidate(Endpoint(p.url, "GET", "crawl"), "json", n)
                                           \in Range(BodyCandidates(p))
<1> DEFINE N == JSONNames(p.json)
           keys == Sorted(N, KeyBefore)
<1>1. N \subseteq Seq(Nat) /\ IsFiniteSet(N)
  <2>1. N \subseteq p.json
    BY DEF JSONNames, Shallow
  <2> QED  BY <2>1, FS_Subset
<1>2. BodyCandidates(p) = Read(Endpoint(p.url, "GET", "crawl"), "json", keys)
  BY DEF BodyCandidates, Read
<1> HIDE DEF N
<1>3. keys \in Seq(N) /\ Range(keys) = N /\ N \subseteq Nat \cup Seq(Nat)
  BY <1>1, KeysInOrder
<1> HIDE DEF keys
<1> QED  BY <1>2, <1>3, ReadIs DEF N

(* Only the limit hides a field.                                           *)
LEMMA FieldsAre ==
  ASSUME NEW f, f.fields \in Seq(Nat)
  PROVE  /\ FieldsOf(f) \in Seq(Nat)
         /\ Len(f.fields) <= FormFields => Range(FieldsOf(f)) = Range(f.fields) \ {Unnamed}
<1> DEFINE s == f.fields
           m == Min({FormFields, Len(s)})
           T == Range(s) \ {Unnamed}
           q == SubSeq(s, 1, m)
<1>1. s \in Seq(Nat) /\ Len(s) \in Nat /\ FormFields \in Nat \ {0}
  BY JSONFieldsIs
<1>2. m \in {FormFields, Len(s)} /\ m <= FormFields /\ m <= Len(s)
  <2>1. Len(s) \in Int /\ FormFields \in Int
    BY <1>1
  <2> HIDE DEF s
  <2> QED  BY <2>1, MinOfTwo
<1>3. FieldsOf(f) = Filtered(q, T)
  BY DEF FieldsOf
<1> HIDE DEF m, T, s
<1>4. m \in Nat /\ q \in Seq(Nat)
  BY <1>1, <1>2
<1>6. Len(s) <= FormFields => q = s
  <2>1. Len(s) <= FormFields => m = Len(s)
    BY <1>1, <1>2
  <2>2. SubSeq(s, 1, Len(s)) = s
    BY <1>1
  <2> QED  BY <2>1, <2>2
<1> HIDE DEF q
<1>5. FieldsOf(f) \in Seq(Nat) /\ Range(FieldsOf(f)) = Range(q) \cap T
  BY <1>3, <1>4, FilteredIs
<1>7. T = Range(s) \ {Unnamed}
  BY DEF T
<1> QED  BY <1>5, <1>6, <1>7 DEF s

LEMMA FormIsRead ==
  ASSUME NEW f, f.fields \in Seq(Nat), NEW E, Endpoint(f.action, f.method, "form") \in E
  PROVE  /\ FormCandidates(f) \in Seq(Rows(E))
         /\ Len(f.fields) <= FormFields =>
              \A n \in Range(f.fields) \ {Unnamed} :
                Candidate(Endpoint(f.action, f.method, "form"),
                          IF f.method = "GET" THEN "query" ELSE "form", n)
                  \in Range(FormCandidates(f))
<1> DEFINE loc == IF f.method = "GET" THEN "query" ELSE "form"
           e == Endpoint(f.action, f.method, "form")
<1>1. FormCandidates(f) = Read(e, loc, FieldsOf(f))
  BY DEF FormCandidates, Read
<1>2. loc \in {"query", "form", "json"} /\ e \in E
  OBVIOUS
<1> HIDE DEF loc, e
<1>3. /\ FormCandidates(f) \in Seq(Rows(E))
      /\ \A n \in Range(FieldsOf(f)) : Candidate(e, loc, n) \in Range(FormCandidates(f))
  <2>1. FieldsOf(f) \in Seq(Nat) /\ Nat \subseteq Nat \cup Seq(Nat)
    BY FieldsAre
  <2> QED  BY <1>1, <1>2, <2>1, ReadIs
<1>4. Len(f.fields) <= FormFields => Range(FieldsOf(f)) = Range(f.fields) \ {Unnamed}
  BY FieldsAre
<1> QED  BY <1>3, <1>4 DEF loc, e

(* A page: what is found on it, and the endpoint of each.                  *)
SitePage(p) == IsAnswer(p) /\ p.url.query = {}

LEMMA PageIsRead ==
  ASSUME NEW p, SitePage(p), NEW E, PageEndpoints(p) \subseteq E
  PROVE  /\ PageCandidates(p) \in Seq(Rows(E))
         /\ \A l \in Range(p.links) : \A n \in l.query :
              Candidate(Endpoint(l, "GET", "link"), "query", n) \in Range(PageCandidates(p))
         /\ \A f \in Range(p.forms) : Len(f.fields) <= FormFields =>
              \A n \in Range(f.fields) \ {Unnamed} :
                Candidate(Endpoint(f.action, f.method, "form"),
                          IF f.method = "GET" THEN "query" ELSE "form", n)
                  \in Range(PageCandidates(p))
<1> DEFINE own == QueryCandidates(p.url, "crawl")
           ofLinks == [i \in DOMAIN p.links |-> QueryCandidates(p.links[i], "link")]
           ofForms == [i \in DOMAIN p.forms |-> FormCandidates(p.forms[i])]
           V == Rows(E)
<1>1. /\ p.links \in Seq(Range(p.links)) /\ p.forms \in Seq(Range(p.forms))
      /\ \A l \in Range(p.links) : l.query \subseteq Nat /\ IsFiniteSet(l.query)
      /\ \A f \in Range(p.forms) : f.fields \in Seq(Nat)
      /\ p.url.query \subseteq Nat /\ IsFiniteSet(p.url.query)
  BY FS_EmptySet DEF SitePage, IsAnswer
<1>2. /\ DOMAIN p.links = 1..Len(p.links) /\ Len(p.links) \in Nat
      /\ DOMAIN p.forms = 1..Len(p.forms) /\ Len(p.forms) \in Nat
      /\ \A i \in DOMAIN p.links : p.links[i] \in Range(p.links)
      /\ \A i \in DOMAIN p.forms : p.forms[i] \in Range(p.forms)
  BY <1>1 DEF Range
<1>3. /\ Endpoint(p.url, "GET", "crawl") \in E
      /\ \A l \in Range(p.links) : Endpoint(l, "GET", "link") \in E
      /\ \A f \in Range(p.forms) : Endpoint(f.action, f.method, "form") \in E
  BY DEF PageEndpoints
<1>4. own \in Seq(V)
  BY <1>1, <1>3, QueryIsRead
<1>5. ASSUME NEW l \in Range(p.links)
      PROVE  /\ QueryCandidates(l, "link") \in Seq(V)
             /\ \A n \in l.query : Candidate(Endpoint(l, "GET", "link"), "query", n)
                                     \in Range(QueryCandidates(l, "link"))
  BY <1>1, <1>3, QueryIsRead
<1>6. ASSUME NEW f \in Range(p.forms)
      PROVE  /\ FormCandidates(f) \in Seq(V)
             /\ Len(f.fields) <= FormFields =>
                  \A n \in Range(f.fields) \ {Unnamed} :
                    Candidate(Endpoint(f.action, f.method, "form"),
                              IF f.method = "GET" THEN "query" ELSE "form", n)
                      \in Range(FormCandidates(f))
  BY <1>1, <1>3, FormIsRead
<1>7. /\ ofLinks \in Seq(Seq(V)) /\ DOMAIN ofLinks = DOMAIN p.links
      /\ ofForms \in Seq(Seq(V)) /\ DOMAIN ofForms = DOMAIN p.forms
      /\ \A i \in DOMAIN p.links : ofLinks[i] = QueryCandidates(p.links[i], "link")
      /\ \A i \in DOMAIN p.forms : ofForms[i] = FormCandidates(p.forms[i])
  <2> HIDE DEF V
  <2>1. ofLinks \in [1..Len(p.links) -> Seq(V)]
    BY <1>2, <1>5
  <2>2. ofForms \in [1..Len(p.forms) -> Seq(V)]
    BY <1>2, <1>6
  <2> QED  BY <1>2, <2>1, <2>2
<1>8. PageCandidates(p) = own \o FlattenSeq(ofLinks) \o FlattenSeq(ofForms)
  BY DEF PageCandidates
<1> HIDE DEF own, ofLinks, ofForms, V
<1>9. /\ FlattenSeq(ofLinks) \in Seq(V) /\ FlattenSeq(ofForms) \in Seq(V)
      /\ \A i \in DOMAIN ofLinks : Range(ofLinks[i]) \subseteq Range(FlattenSeq(ofLinks))
      /\ \A i \in DOMAIN ofForms : Range(ofForms[i]) \subseteq Range(FlattenSeq(ofForms))
  BY <1>7, FlatIs
<1>10. /\ PageCandidates(p) \in Seq(V)
       /\ Range(FlattenSeq(ofLinks)) \subseteq Range(PageCandidates(p))
       /\ Range(FlattenSeq(ofForms)) \subseteq Range(PageCandidates(p))
  <2> DEFINE a == FlattenSeq(ofLinks)
             b == FlattenSeq(ofForms)
  <2>1. a \in Seq(V) /\ b \in Seq(V) /\ PageCandidates(p) = (own \o a) \o b
    BY <1>8, <1>9
  <2> HIDE DEF a, b
  <2>2. own \o a \in Seq(V) /\ Range(a) \subseteq Range(own \o a)
    BY <1>4, <2>1, RangeOfBoth
  <2> DEFINE c == own \o a
  <2> HIDE DEF c
  <2>3. c \o b \in Seq(V) /\ Range(c) \subseteq Range(c \o b) /\ Range(b) \subseteq Range(c \o b)
    BY <2>1, <2>2, RangeOfBoth DEF c
  <2> QED  BY <2>1, <2>2, <2>3 DEF a, b, c
<1>11. \A l \in Range(p.links) :
         Range(QueryCandidates(l, "link")) \subseteq Range(PageCandidates(p))
  <2> TAKE l \in Range(p.links)
  <2>1. PICK i \in DOMAIN p.links : p.links[i] = l
    BY DEF Range
  <2>2. Range(ofLinks[i]) \subseteq Range(PageCandidates(p))
    BY <1>7, <1>9, <1>10, <2>1
  <2> QED  BY <1>7, <2>1, <2>2
<1>12. \A f \in Range(p.forms) : Range(FormCandidates(f)) \subseteq Range(PageCandidates(p))
  <2> TAKE f \in Range(p.forms)
  <2>1. PICK i \in DOMAIN p.forms : p.forms[i] = f
    BY DEF Range
  <2>2. Range(ofForms[i]) \subseteq Range(PageCandidates(p))
    BY <1>7, <1>9, <1>10, <2>1
  <2> QED  BY <1>7, <2>1, <2>2
<1>13. \A l \in Range(p.links) : \A n \in l.query :
         Candidate(Endpoint(l, "GET", "link"), "query", n) \in Range(PageCandidates(p))
  BY <1>5, <1>11
<1>14. ASSUME NEW f \in Range(p.forms), Len(f.fields) <= FormFields,
              NEW n \in Range(f.fields) \ {Unnamed}
       PROVE  Candidate(Endpoint(f.action, f.method, "form"),
                        IF f.method = "GET" THEN "query" ELSE "form", n)
                \in Range(PageCandidates(p))
  BY <1>6, <1>12, <1>14
<1> QED  BY <1>10, <1>13, <1>14 DEF V

LEMMA PagesAreRead ==
  ASSUME NEW ps, ps \in Seq(Range(ps)), \A p \in Range(ps) : SitePage(p)
  PROVE  /\ RequestCandidates(ps) \in Seq(Rows(Endpoints(ps)))
         /\ ResponseCandidates(ps) \in Seq(Rows(Endpoints(ps)))
         /\ \A p \in Range(ps) :
              /\ Range(PageCandidates(p)) \subseteq Range(RequestCandidates(ps))
              /\ Range(BodyCandidates(p)) \subseteq Range(ResponseCandidates(ps))
<1> DEFINE E == Endpoints(ps)
           V == Rows(E)
           asked == [i \in DOMAIN ps |-> PageCandidates(ps[i])]
           answered == [i \in DOMAIN ps |-> BodyCandidates(ps[i])]
<1>1. /\ DOMAIN ps = 1..Len(ps) /\ Len(ps) \in Nat
      /\ \A i \in DOMAIN ps : ps[i] \in Range(ps)
  BY DEF Range
<1>2. \A p \in Range(ps) : PageEndpoints(p) \subseteq E
  BY DEF Endpoints
<1>3. \A p \in Range(ps) : Endpoint(p.url, "GET", "crawl") \in PageEndpoints(p)
  BY DEF PageEndpoints
<1> HIDE DEF E
<1>4. \A p \in Range(ps) : PageCandidates(p) \in Seq(V)
  BY <1>2, PageIsRead
<1>5. ASSUME NEW p \in Range(ps)  PROVE BodyCandidates(p) \in Seq(V)
  <2>1. p.json \subseteq Seq(Nat) /\ IsFiniteSet(p.json) /\ Endpoint(p.url, "GET", "crawl") \in E
    BY <1>2, <1>3 DEF SitePage, IsAnswer
  <2> QED  BY <2>1, BodyIsRead
<1>6. /\ asked \in Seq(Seq(V)) /\ DOMAIN asked = DOMAIN ps
      /\ answered \in Seq(Seq(V)) /\ DOMAIN answered = DOMAIN ps
      /\ \A i \in DOMAIN ps : asked[i] = PageCandidates(ps[i])
      /\ \A i \in DOMAIN ps : answered[i] = BodyCandidates(ps[i])
  <2> HIDE DEF V
  <2>1. asked \in [1..Len(ps) -> Seq(V)]
    BY <1>1, <1>4
  <2>2. answered \in [1..Len(ps) -> Seq(V)]
    BY <1>1, <1>5
  <2> QED  BY <1>1, <2>1, <2>2
<1>7. RequestCandidates(ps) = FlattenSeq(asked) /\ ResponseCandidates(ps) = FlattenSeq(answered)
  BY DEF RequestCandidates, ResponseCandidates
<1> HIDE DEF asked, answered, V
<1>8. /\ FlattenSeq(asked) \in Seq(V) /\ FlattenSeq(answered) \in Seq(V)
      /\ \A i \in DOMAIN asked : Range(asked[i]) \subseteq Range(FlattenSeq(asked))
      /\ \A i \in DOMAIN answered : Range(answered[i]) \subseteq Range(FlattenSeq(answered))
  BY <1>6, FlatIs
<1>9. ASSUME NEW p \in Range(ps)
      PROVE  /\ Range(PageCandidates(p)) \subseteq Range(RequestCandidates(ps))
             /\ Range(BodyCandidates(p)) \subseteq Range(ResponseCandidates(ps))
  <2>1. PICK i \in DOMAIN ps : ps[i] = p
    BY DEF Range
  <2>2. /\ Range(asked[i]) \subseteq Range(RequestCandidates(ps))
        /\ Range(answered[i]) \subseteq Range(ResponseCandidates(ps))
    BY <1>6, <1>7, <1>8
  <2> QED  BY <1>6, <2>1, <2>2
<1> QED  BY <1>7, <1>8, <1>9 DEF V, E

-----------------------------------------------------------------------------
(* The rows of a crawl.                                                    *)
LEMMA ImageIsFinite ==
  ASSUME NEW S, IsFiniteSet(S), NEW f, DOMAIN f = S
  PROVE  IsFiniteSet({f[x] : x \in S})
<1> DEFINE T == {f[x] : x \in S}
           g == [x \in S |-> f[x]]
<1>1. g \in Surjection(S, T)
  BY DEF Surjection
<1> HIDE DEF g, T
<1>2. IsFiniteSet(T)
  BY <1>1, FS_Surjection
<1> QED  BY <1>2 DEF T

LEMMA RangeIsFinite ==
  ASSUME NEW Q, NEW s \in Seq(Q)
  PROVE  IsFiniteSet(Range(s))
<1>1. DOMAIN s = 1..Len(s) /\ Len(s) \in Nat
  OBVIOUS
<1>2. IsFiniteSet(DOMAIN s)
  BY <1>1, FS_Interval
<1>3. IsFiniteSet({s[i] : i \in DOMAIN s})
  BY <1>2, ImageIsFinite
<1> QED  BY <1>3 DEF Range

LEMMA EndpointsAreFinite ==
  ASSUME NEW ps, ps \in Seq(Range(ps)), \A p \in Range(ps) : IsFiniteSet(PageEndpoints(p))
  PROVE  IsFiniteSet(Endpoints(ps))
<1> DEFINE S == Range(ps)
           f == [p \in S |-> PageEndpoints(p)]
<1>1. IsFiniteSet(S) /\ DOMAIN f = S /\ \A p \in S : f[p] = PageEndpoints(p)
  BY RangeIsFinite
<1>2. Endpoints(ps) = UNION {f[p] : p \in S}
  BY DEF Endpoints
<1> HIDE DEF f, S
<1>3. IsFiniteSet({f[p] : p \in S})
  BY <1>1, ImageIsFinite
<1>4. \A T \in {f[p] : p \in S} : IsFiniteSet(T)
  BY <1>1 DEF S
<1> QED  BY <1>2, <1>3, <1>4, FS_UNION

(* A page has what it has in slices.                                       *)
LEMMA PageEndpointsAreFinite ==
  ASSUME NEW p, p.links \in Seq(Range(p.links)), p.forms \in Seq(Range(p.forms)),
         p.scripts \in Seq(Range(p.scripts))
  PROVE  IsFiniteSet(PageEndpoints(p))
<1> DEFINE L == Range(p.links)
           F == Range(p.forms)
           J == Range(p.scripts)
           l == [x \in L |-> Endpoint(x, "GET", "link")]
           f == [x \in F |-> Endpoint(x.action, x.method, "form")]
           j == [x \in J |-> Endpoint(x, "GET", "javascript")]
           A == {Endpoint(p.url, "GET", "crawl")}
           B == {l[x] : x \in L}
           C == {f[x] : x \in F}
           D == {j[x] : x \in J}
<1>1. IsFiniteSet(L) /\ IsFiniteSet(F) /\ IsFiniteSet(J)
  BY RangeIsFinite
<1>2. PageEndpoints(p) = ((A \cup B) \cup C) \cup D
  BY DEF PageEndpoints
<1>3. DOMAIN l = L /\ DOMAIN f = F /\ DOMAIN j = J
  OBVIOUS
<1>4. IsFiniteSet(A)
  BY FS_Singleton
<1> HIDE DEF L, F, J, l, f, j, A
<1>5. IsFiniteSet(B) /\ IsFiniteSet(C) /\ IsFiniteSet(D)
  BY <1>1, <1>3, ImageIsFinite
<1> HIDE DEF B, C, D
<1>6. IsFiniteSet(A \cup B)
  BY <1>4, <1>5, FS_Union
<1>7. IsFiniteSet((A \cup B) \cup C)
  BY <1>5, <1>6, FS_Union
<1>8. IsFiniteSet(((A \cup B) \cup C) \cup D)
  BY <1>5, <1>7, FS_Union
<1> QED  BY <1>2, <1>8

LEMMA InOneRow ==
  ASSUME NEW S, IsFiniteSet(S)
  PROVE  Range(SetToSeq(S)) \subseteq S
<1> DEFINE n == Cardinality(S)
<1>1. ExistsBijection(1..n, S)
  BY FS_CardinalityType
<1>2. \E f \in [1..n -> S] : IsInjective(f)
  BY <1>1 DEF ExistsBijection, Bijection, Injection, IsInjective
<1> HIDE DEF n
<1>3. (CHOOSE f \in [1..n -> S] : IsInjective(f)) \in [1..n -> S]
  BY <1>2
<1>4. SetToSeq(S) \in [1..n -> S]
  BY <1>3 DEF SetToSeq, n
<1> QED  BY <1>4 DEF Range

LEMMA KeptAreMet ==
  ASSUME NEW cs
  PROVE  /\ Kept(cs) \subseteq Range(cs)
         /\ LimitWarnings(cs) = {} => Kept(cs) = Range(cs)
BY DEF Kept, FirstsOf, LimitWarnings

LEMMA RowsHaveEndpoints ==
  ASSUME NEW E, NEW cs \in Seq(Rows(E)), NEW c \in Range(cs)
  PROVE  c.endpoint \in E
<1>1. c \in Rows(E)
  BY OfItsRange
<1> QED  BY <1>1 DEF Rows

LEMMA DiscoveredHaveEndpoints ==
  ASSUME NEW ps, ps \in Seq(Range(ps)), IsFiniteSet(Endpoints(ps)),
         \A p \in Range(ps) : SitePage(p)
  PROVE  Parameters(ps) = Discovered(ps)
<1> DEFINE E == Endpoints(ps)
           P == PathCandidates(E)
<1>1. IsFiniteSet(P) /\ \A c \in P : c.endpoint \in E
  <2> DEFINE S == {f \in E : IsPathInput(E, f)}
             g == [e \in S |-> Candidate(e, "path", PathInputName(E, e))]
  <2>1. IsFiniteSet(S)
    BY FS_Subset
  <2>2. P = {g[e] : e \in S} /\ DOMAIN g = S
    BY DEF PathCandidates
  <2>3. IsFiniteSet({g[e] : e \in S})
    <3> HIDE DEF g, S
    <3> QED  BY <2>1, <2>2, ImageIsFinite
  <2>4. \A c \in P : c.endpoint \in E
    BY DEF PathCandidates, Candidate
  <2> QED  BY <2>2, <2>3, <2>4
<1>2. RequestCandidates(ps) \in Seq(Rows(E)) /\ ResponseCandidates(ps) \in Seq(Rows(E))
  BY PagesAreRead
<1>3. \A cs \in Passes(ps) : cs \in Seq(Rows(E)) \/ cs = SetToSeq(P)
  BY <1>2 DEF Passes
<1> HIDE DEF P, E
<1>4. ASSUME NEW c \in Discovered(ps)
      PROVE  c.endpoint \in E
  <2>1. PICK cs \in Passes(ps) : c \in Kept(cs)
    BY DEF Discovered
  <2>2. c \in Range(cs)
    BY <2>1, KeptAreMet
  <2>3. CASE cs \in Seq(Rows(E))
    BY <2>2, <2>3, RowsHaveEndpoints
  <2>4. CASE cs = SetToSeq(P)
    BY <1>1, <2>2, <2>4, InOneRow
  <2> QED  BY <1>3, <2>3, <2>4
<1> QED  BY <1>4 DEF Parameters, E

LEMMA NoneIsMissing ==
  ASSUME NEW ps, ps \in Seq(Range(ps)), \A p \in Range(ps) : SitePage(p),
         InputWarnings(ps) = {}, NEW p \in Range(ps)
  PROVE  AllInputs(p) \subseteq Discovered(ps)
<1>1. /\ RequestWarnings(ps) = {} /\ ResponseWarnings(ps) = {}
      /\ \A cs \in Passes(ps) : LimitWarnings(cs) = {}
  BY DEF InputWarnings
<1>2. /\ RequestCandidates(ps) \in Passes(ps) /\ ResponseCandidates(ps) \in Passes(ps)
  BY DEF Passes
<1>3. /\ Range(RequestCandidates(ps)) \subseteq Discovered(ps)
      /\ Range(ResponseCandidates(ps)) \subseteq Discovered(ps)
  <2>1. ASSUME NEW cs \in Passes(ps)  PROVE Range(cs) \subseteq Discovered(ps)
    <3>1. Kept(cs) = Range(cs)
      BY <1>1, KeptAreMet
    <3> QED  BY <3>1 DEF Discovered
  <2> QED  BY <1>2, <2>1
<1>4. /\ Range(PageCandidates(p)) \subseteq Discovered(ps)
      /\ Range(BodyCandidates(p)) \subseteq Discovered(ps)
  BY <1>3, PagesAreRead
<1>5. JSONNames(p.json) = p.json
  <2>1. ~ AtFieldLimit(Cardinality(JSONNames(p.json)))
    BY <1>1 DEF ResponseWarnings
  <2>2. \A k \in p.json \ Shallow(p.json) :
          ~ (Cardinality({j \in Shallow(p.json) : KeyBefore(j, k)}) < JSONFields)
    BY <1>1 DEF ResponseWarnings
  <2>3. p.json \subseteq Seq(Nat) /\ IsFiniteSet(p.json)
    BY DEF SitePage, IsAnswer
  <2> QED  BY <2>1, <2>2, <2>3, BodyIsWhole
<1>6. \A n \in p.json : Candidate(Endpoint(p.url, "GET", "crawl"), "json", n) \in Discovered(ps)
  <2> DEFINE E == {Endpoint(p.url, "GET", "crawl")}
  <2>1. /\ p.json \subseteq Seq(Nat) /\ IsFiniteSet(p.json)
        /\ Endpoint(p.url, "GET", "crawl") \in E
    BY DEF SitePage, IsAnswer
  <2> HIDE DEF E
  <2>2. \A n \in JSONNames(p.json) : Candidate(Endpoint(p.url, "GET", "crawl"), "json", n)
                                       \in Range(BodyCandidates(p))
    BY <2>1, BodyIsRead
  <2> QED  BY <1>4, <1>5, <2>2
<1>7. /\ \A l \in Range(p.links) : \A n \in l.query :
           Candidate(Endpoint(l, "GET", "link"), "query", n) \in Range(PageCandidates(p))
      /\ \A f \in Range(p.forms) : Len(f.fields) <= FormFields =>
           \A n \in Range(f.fields) \ {Unnamed} :
             Candidate(Endpoint(f.action, f.method, "form"),
                       IF f.method = "GET" THEN "query" ELSE "form", n)
               \in Range(PageCandidates(p))
  <2> DEFINE E == PageEndpoints(p)
  <2>1. PageEndpoints(p) \subseteq E
    OBVIOUS
  <2> HIDE DEF E
  <2> QED  BY <2>1, PageIsRead
<1>8. ASSUME NEW f \in Range(p.forms)  PROVE Len(f.fields) <= FormFields
  <2>1. ~(Len(f.fields) > FormFields)
    <3> SUFFICES ASSUME Len(f.fields) > FormFields PROVE FALSE
      OBVIOUS
    <3>1. f \in UNION {Range(q.forms) : q \in Range(ps)}
      OBVIOUS
    <3>2. "form" \in RequestWarnings(ps)
      BY <3>1 DEF RequestWarnings
    <3> QED  BY <1>1, <3>2
  <2>2. Len(f.fields) \in Nat /\ FormFields \in Nat
    <3>1. f.fields \in Seq(Nat)
      BY DEF SitePage, IsAnswer
    <3> QED  BY <3>1, JSONFieldsIs
  <2> QED  BY <2>1, <2>2
<1>9. ASSUME NEW l \in Range(p.links), NEW n \in PathOf(l).query
      PROVE  Candidate(Endpoint(l, "GET", "link"), "query", n) \in Discovered(ps)
  <2>1. n \in l.query
    <3>1. CASE l.path = <<>>
      BY <3>1 DEF PathOf
    <3>2. CASE l.path # <<>>
      BY <3>2 DEF PathOf
    <3> QED  BY <3>1, <3>2
  <2> QED  BY <1>4, <1>7, <2>1
<1>10. ASSUME NEW f \in Range(p.forms), NEW n \in Range(f.fields) \ {Unnamed}
       PROVE  Candidate(Endpoint(f.action, f.method, "form"),
                        IF f.method = "GET" THEN "query" ELSE "form", n) \in Discovered(ps)
  BY <1>4, <1>7, <1>8
<1> SUFFICES ASSUME NEW c \in AllInputs(p) PROVE c \in Discovered(ps)
  OBVIOUS
<1>11. \/ \E n \in p.json : c = Candidate(Endpoint(p.url, "GET", "crawl"), "json", n)
       \/ \E l \in Range(p.links) : \E n \in PathOf(l).query :
            c = Candidate(Endpoint(l, "GET", "link"), "query", n)
       \/ \E f \in Range(p.forms) : \E n \in Range(f.fields) \ {Unnamed} :
            c = Candidate(Endpoint(f.action, f.method, "form"),
                          IF f.method = "GET" THEN "query" ELSE "form", n)
  <2> DEFINE A == {Candidate(Endpoint(p.url, "GET", "crawl"), "json", n) : n \in p.json}
             B(l) == {Candidate(Endpoint(l, "GET", "link"), "query", n) : n \in PathOf(l).query}
             C(f) == {Candidate(Endpoint(f.action, f.method, "form"),
                                IF f.method = "GET" THEN "query" ELSE "form", n)
                        : n \in Range(f.fields) \ {Unnamed}}
             L == {B(l) : l \in Range(p.links)}
             F == {C(f) : f \in Range(p.forms)}
  <2>1. AllInputs(p) = A \cup (UNION L) \cup (UNION F)
    BY DEF AllInputs
  <2>2. c \in A \/ (\E l \in Range(p.links) : c \in B(l)) \/ \E f \in Range(p.forms) : c \in C(f)
    <3>1. c \in A \/ (\E b \in L : c \in b) \/ \E b \in F : c \in b
      <4> HIDE DEF A, B, C, L, F
      <4>1. c \in A \cup (UNION L) \cup (UNION F)
        BY <2>1
      <4> QED  BY <4>1
    <3>2. \A b \in L : \E l \in Range(p.links) : b = B(l)
      <4> HIDE DEF B
      <4> QED  OBVIOUS
    <3>3. \A b \in F : \E f \in Range(p.forms) : b = C(f)
      <4> HIDE DEF C
      <4> QED  OBVIOUS
    <3> HIDE DEF A, B, C, L, F
    <3> QED  BY <3>1, <3>2, <3>3
  <2> QED  BY <2>2
<1> QED  BY <1>6, <1>9, <1>10, <1>11

-----------------------------------------------------------------------------
(* While a crawl runs there are no rows of it; from its end on, until the  *)
(* next begins, there are those of its pages, unless the store failed.     *)
RowsInv ==
  /\ work \in {"loop", "page"} => rows = NoRows
  /\ work \in {"scripts", "script"} => rows = AllRows
  /\ rows.parameters = {} \/ rows = AllRows

LEMMA RowsFrame ==
  ASSUME RowsInv, UNCHANGED <<pages, rows>>,
         work' \in {"loop", "page"} => work \in {"loop", "page"},
         work' \in {"scripts", "script"} => work \in {"scripts", "script"}
  PROVE  RowsInv'
BY DEF RowsInv, AllRows

LEMMA NoParameters == NoRows.parameters = {} /\ NoRows.endpoints = {}
BY DEF NoRows

LEMMA WebKeepsRows ==
  ASSUME RowsInv, NextWeb
  PROVE  RowsInv'
<1> USE RowsFrame
<1>1. CASE StartProbes \/ TryHTTP \/ NotHTTP
  BY <1>1 DEF StartProbes, TryHTTP, NotHTTP, CrawlUnchanged
<1>2. CASE StoreProbe \/ EndProbes
  BY <1>2 DEF StoreProbe, EndProbes, WebAborts, CrawlUnchanged
<1>3. ASSUME NEW k \in todo, StartProbe(k) PROVE RowsInv'
  BY <1>3 DEF StartProbe, Working, CrawlUnchanged
<1>4. ASSUME NEW k \in todo, StartCrawl(k) PROVE RowsInv'
  BY <1>4, NoParameters DEF StartCrawl, RowsInv
<1>5. CASE CrawlCancelled \/ PageFailed
  BY <1>5 DEF CrawlCancelled, PageFailed, CrawlUnchanged, Working
<1>6. CASE PassVisited \/ Visit
  BY <1>6 DEF PassVisited, Visit, Crawling, Working
<1>7. ASSUME NEW answer \in Answered, PageFetched(answer) PROVE RowsInv'
  <2>1. rows' = rows /\ work = "page" /\ work' = "loop"
    BY <1>7 DEF PageFetched, Working
  <2> QED  BY <2>1, NoParameters DEF RowsInv
<1>8. CASE StoreCrawl
  <2>1. rows = NoRows /\ UNCHANGED pages
    BY <1>8 DEF StoreCrawl, Crawling, Working, RowsInv
  <2>2. CASE WebAborts
    <3>1. work' = "none"
      BY <2>2 DEF WebAborts
    <3>2. rows' = rows \/ rows' = [NoRows EXCEPT !.endpoints = Endpoints(pages)] \/ rows' = AllRows
      BY <1>8 DEF StoreCrawl
    <3>3. rows'.parameters = {} \/ rows' = AllRows'
      <4>1. [NoRows EXCEPT !.endpoints = Endpoints(pages)].parameters = {}
        BY DEF NoRows
      <4>2. AllRows' = AllRows
        BY <2>1 DEF AllRows
      <4> HIDE DEF AllRows
      <4> QED  BY <2>1, <3>2, <4>1, <4>2, NoParameters
    <3> QED  BY <3>1, <3>3 DEF RowsInv
  <2>3. CASE ~WebAborts
    <3>1. rows' = AllRows /\ work' = "scripts"
      BY <1>8, <2>3 DEF StoreCrawl
    <3> QED  BY <2>1, <3>1 DEF RowsInv, AllRows
  <2> QED  BY <2>2, <2>3
<1>9. ASSUME NEW s \in scripts, FetchScript(s) PROVE RowsInv'
  BY <1>9 DEF FetchScript, Working
<1>10. CASE ScriptSkipped \/ ScriptFetched
  BY <1>10 DEF ScriptSkipped, ScriptFetched, WebAborts, CrawlUnchanged, Working
<1>11. CASE EndCrawl \/ EndCrawls
  BY <1>11 DEF EndCrawl, EndCrawls, CrawlUnchanged
<1> QED
  BY <1>1, <1>2, <1>3, <1>4, <1>5, <1>6, <1>7, <1>8, <1>9, <1>10, <1>11 DEF NextWeb

LEMMA RowsInvHolds == Spec => []RowsInv
<1>1. Init => RowsInv
  BY NoParameters DEF Init, InitWeb, RowsInv
<1>2. RowsInv /\ [Next]_vars => RowsInv'
  <2> SUFFICES ASSUME RowsInv, [Next]_vars PROVE RowsInv'
    OBVIOUS
  <2>1. CASE UNCHANGED wVars
    BY <2>1, RowsFrame DEF wVars
  <2>2. CASE NextWeb
    BY <2>2, WebKeepsRows
  <2>3. UNCHANGED wVars \/ NextWeb
    BY StepsOfTheWeb
  <2> QED  BY <2>1, <2>2, <2>3
<1> QED  BY <1>1, <1>2, PTL DEF Spec

LEMMA PagesAreAnswers ==
  ASSUME PagesOK
  PROVE  /\ pages \in Seq(Range(pages)) /\ \A p \in Range(pages) : SitePage(p)
         /\ IsFiniteSet(Endpoints(pages))
<1>1. pages \in Seq(Range(pages)) /\ \A p \in Range(pages) : SitePage(p)
  BY DEF PagesOK, IsPage, SitePage, Range
<1>2. \A p \in Range(pages) : IsFiniteSet(PageEndpoints(p))
  BY <1>1, PageEndpointsAreFinite DEF SitePage, IsAnswer
<1> QED  BY <1>1, <1>2, EndpointsAreFinite

(* Each input stored for a crawl has its endpoint's row, which is stored   *)
(* before; none that a pass found is left out for want of it, though the   *)
(* passes and Normalize read the pages apart; and an input on a page that  *)
(* has no row was cut off by a limit that left a warning.                  *)
THEOREM InputsAreAccountedFor == Spec => []InputsAccountedFor
<1>1. CrawlInv /\ RowsInv => InputsAccountedFor
  <2> SUFFICES ASSUME CrawlInv, RowsInv PROVE InputsAccountedFor
    OBVIOUS
  <2>1. /\ pages \in Seq(Range(pages)) /\ \A p \in Range(pages) : SitePage(p)
        /\ IsFiniteSet(Endpoints(pages))
    BY PagesAreAnswers DEF CrawlInv
  <2>2. /\ AllRows.parameters = Parameters(pages) /\ AllRows.endpoints = Endpoints(pages)
        /\ AllRows.warnings = InputWarnings(pages)
    BY DEF AllRows
  <2>3. \A c \in rows.parameters : c.endpoint \in rows.endpoints
    BY <2>2 DEF RowsInv, Parameters
  <2>4. ASSUME work = "scripts"
        PROVE  /\ rows.parameters = Discovered(pages)
               /\ \/ UNION {AllInputs(p) : p \in Range(pages)} \subseteq rows.parameters
                  \/ rows.warnings # {}
    <3>1. rows = AllRows
      BY <2>4 DEF RowsInv
    <3>2. Parameters(pages) = Discovered(pages)
      BY <2>1, DiscoveredHaveEndpoints
    <3>3. InputWarnings(pages) = {} =>
            \A p \in Range(pages) : AllInputs(p) \subseteq Discovered(pages)
      BY <2>1, NoneIsMissing
    <3> QED  BY <2>2, <3>1, <3>2, <3>3
  <2> QED  BY <2>3, <2>4 DEF InputsAccountedFor
<1> QED  BY <1>1, CrawlInvHolds, RowsInvHolds, PTL
===============================================================================
