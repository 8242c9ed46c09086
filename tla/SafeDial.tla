------------------------------- MODULE SafeDial -------------------------------
(***************************************************************************)
(* internal/safedial: one request of the HTTP client that logins, probes,  *)
(* crawls and script fetches are made with, redirects included.  Every     *)
(* connection of it is dialled anew, to an address checked for its host.   *)
(***************************************************************************)
EXTENDS ReconContext

CONSTANT Locations  \* hosts a server may redirect to or link to

ASSUME SafeDialAssumption == \A h \in Locations : IsHost(h)

VARIABLE req  \* the request in flight

-----------------------------------------------------------------------------
Nobody == Name(<<>>)

Idle == [state |-> "idle", host |-> Nobody, ip |-> -1, origHost |-> Nobody, origIP |-> -1,
         via |-> 0, max |-> 0, pinned |-> Nobody, headers |-> FALSE, secret |-> FALSE]

(* NewClient and client.Do.  origHost is known to be at origIP; headers    *)
(* are pinned to one host; secret says that the body holds credentials.    *)
Request(host, origHost, origIP, max, pinned, secret) ==
  [Idle EXCEPT !.state = "dial", !.host = host, !.origHost = origHost, !.origIP = origIP,
               !.max = IF max < 0 THEN 0 ELSE max, !.pinned = pinned, !.secret = secret]

UncheckedAt(host, ip) ==
  /\ host.kind = "name"
  /\ \E ips \in UNION Range(Answers) : ip \in ips /\ Resolves(host.labels, ips)

(* resolveInScope: the first address of an answer that is in scope.        *)
InScopeAt(host, ip) ==
  /\ DialAllowed(host, ip)
  /\ IF host.kind = "ip" THEN ctx = "live" /\ ip = host.addr
     ELSE \E ips \in UNION Range(Answers) : ip \in ips /\ Resolves(host.labels, ips)

(* dialValidated: the known address is checked again, any other host is    *)
(* looked up.  PinnedRoundTripper adds its headers for their host only.    *)
Connect(ip) ==
  /\ req.state = "dial" /\ ctx = "live"
  /\ IF req.host = req.origHost
     THEN ip = req.origIP /\ DialAllowed(req.origHost, ip)
     ELSE InScopeAt(req.host, ip)
  /\ req' = [req EXCEPT !.state = "connected", !.ip = ip,
                        !.headers = req.pinned # Nobody /\ req.pinned = req.host]

Answer ==
  /\ req.state = "connected"
  /\ req' = [req EXCEPT !.state = "answered"]

(* CheckRedirect: past the limit, or out of scope, the redirect itself is  *)
(* the answer.  Some redirects repeat the body, others drop it.            *)
Follows(h) == req.via + 1 <= req.max /\ ctx = "live" /\ HostAllowed(h)

Redirect(h) ==
  /\ req.state = "connected"
  /\ \/ ~Follows(h) /\ req' = [req EXCEPT !.state = "answered"]
     \/ /\ Follows(h)
        /\ \E keep \in {req.secret, FALSE} :
             req' = [req EXCEPT !.state = "dial", !.host = h, !.ip = -1, !.via = @ + 1,
                                !.headers = FALSE, !.secret = keep]

(* No address in scope, a refused connection, a timeout, a broken answer.  *)
FailRequest ==
  /\ req.state \in {"dial", "connected"}
  /\ req' = [req EXCEPT !.state = "failed"]

NextRequest ==
  \/ \E ip \in Addresses : Connect(ip)
  \/ Answer
  \/ \E h \in Locations : Redirect(h)
  \/ FailRequest

RequestOver == req.state \in {"answered", "failed"}

-----------------------------------------------------------------------------
RequestTypeOK ==
  /\ req.state \in {"idle", "dial", "connected", "answered", "failed"}
  /\ req.ip \in Addresses \cup {-1} /\ req.via \in 0 .. req.max

(* Said without the checks of the code: what a connection may never reach. *)
MayReach(host, ip) ==
  LET rules(action) == {r \in Rules : r.action = action}
      knows(r) ==
        \/ r.type = "exact_host" /\ r.value = host
        \/ r.type = "domain_suffix" /\ host.kind = "name" /\ IsSuffix(r.value.labels, host.labels)
      covers(r) ==
        \/ r.type = "exact_host" /\ r.value = Address(ip)
        \/ r.type = "cidr" /\ InNetwork(ip, r.value)
  IN /\ AllowReserved \/ ip \notin Reserved
     /\ ~ \E r \in rules("deny") : knows(r)
     /\ \/ \E r \in rules("allow") : knows(r)
        \/ (\E r \in rules("allow") : covers(r)) /\ ~ \E r \in rules("deny") : covers(r)

(* Whatever redirects lead to, and however names resolve between a check   *)
(* and a dial, no connection of a login, probe, crawl or script fetch      *)
(* leaves the scope.                                                       *)
ConnectionsInScope ==
  req.state = "connected" => MayReach(req.host, req.ip)
=============================================================================
