------------------------------- MODULE Discovery -------------------------------
(***************************************************************************)
(* discoverAndResolve (orchestration/pipeline.go) with the enumerators of  *)
(* internal/discovery: what each target of a scan becomes, in the order of *)
(* the targets, and which hosts the later stages get.                      *)
(*                                                                         *)
(* An enumerator looks names up concurrently and sends those that resolve; *)
(* the loop that receives them decides, by the set of names seen so far in *)
(* the whole job, whether they are new.                                    *)
(***************************************************************************)
EXTENDS ReconContext

CONSTANTS
  Candidates,    \* for the labels of a domain, the spellings an enumerator tries
  Spells,        \* normalizeHostname: the labels a spelling stands for
  MaxCIDRHosts,  \* Pipeline.MaxCIDRHosts
  DNSRecords     \* Pipeline.EnumerateDNSRecords

ASSUME DiscoveryAssumption == DNSRecords \in BOOLEAN

VARIABLES
  next,      \* the target at hand
  doing,     \* what is done for it: expand or resolve it, or enumerate it
  seen,      \* seenHostnames
  assets,    \* assets committed: who found them, and as which host
  hosts,     \* the host records for the next stages
  pending,   \* spellings the enumerator still looks up
  sent,      \* spellings in the channel, with their addresses
  enumHosts, \* host records of the enumeration that is running
  enumErr,   \* the enumerator's group has failed
  reported,  \* spellings ever sent on the channel
  warned     \* hosts and domains a warning was logged for

dVars == <<next, doing, seen, assets, hosts, pending, sent, enumHosts, enumErr,
           reported, warned>>

-----------------------------------------------------------------------------
(* Who found an asset: a target, or a spelling found under a target.       *)
ByTarget == "target"
From(by) == [target |-> next, by |-> by]

HostRecords(by, host, ips) == {[from |-> From(by), host |-> host, ip |-> a] : a \in ips}
Asset(by, host) == [from |-> From(by), host |-> host]

InitDiscovery ==
  /\ next = 1 /\ doing = "resolve"
  /\ seen = {} /\ assets = {} /\ hosts = {}
  /\ pending = {} /\ sent = {} /\ enumHosts = {} /\ enumErr = FALSE
  /\ reported = {} /\ warned = {}

EnumerationUnchanged == UNCHANGED <<pending, sent, enumHosts, enumErr, reported>>

Discovering(what) == stage = "discover" /\ next <= Len(targets) /\ doing = what
Current == targets[next]

NextTarget == next' = next + 1 /\ doing' = "resolve"

(* maxHosts of zero or less is 256.                                        *)
CIDRLimit == IF MaxCIDRHosts <= 0 THEN 256 ELSE MaxCIDRHosts
Expand(n) == {a \in Addresses : InNetwork(a, n)}

-----------------------------------------------------------------------------
(* An address, or a range that is small enough: one asset with its hosts,  *)
(* in one transaction.  The address is noted as seen, the range's are not. *)
AddressesOf(h) == IF h.kind = "ip" THEN {h.addr} ELSE Expand(h)

ExpandTarget ==
  LET h == Current.value IN
  /\ Discovering("resolve") /\ Current.type \in {"ip", "cidr"}
  /\ \/ /\ Current.type = "cidr" /\ Cardinality(Expand(h)) > CIDRLimit
        /\ Abort("range")
        /\ UNCHANGED dVars
     \/ /\ Current.type = "cidr" => Cardinality(Expand(h)) <= CIDRLimit
        /\ StoreFails /\ Abort("store")
        /\ UNCHANGED dVars
     \/ /\ Current.type = "cidr" => Cardinality(Expand(h)) <= CIDRLimit
        /\ StoreWorks
        /\ assets' = assets \cup {Asset(ByTarget, h)}
        /\ hosts' = hosts \cup {[from |-> From(ByTarget), host |-> Address(a), ip |-> a]
                                 : a \in AddressesOf(h)}
        /\ seen' = IF Current.type = "ip" THEN seen \cup {h} ELSE seen
        /\ NextTarget
        /\ Keep /\ EnumerationUnchanged /\ UNCHANGED warned

AnySpelling(h) == TRUE
New(h) == h \notin seen

(* What persistAssetHostsAndDNSRecords leaves and the records it returns:  *)
(* when a DNS record cannot be stored, assets whose hosts the scan will    *)
(* not visit.                                                              *)
Persisted(by, host, ips, records) ==
  \/ StoreWorks /\ assets' = assets \cup {Asset(by, host)}
     /\ records = HostRecords(by, host, ips) /\ UNCHANGED warned
  \/ StoreFails /\ records = {} /\ warned' = warned \cup {host} /\ UNCHANGED assets
  \/ /\ DNSRecords /\ StoreMayFail /\ StoreWorks /\ records = {}
     /\ assets' = assets \cup {Asset(by, host)}
     /\ warned' = warned \cup {host}

(* The case of a host or a domain: seen before, or marked as seen and then *)
(* looked up, a failure being a warning.                                   *)
AfterResolving ==
  IF Current.type = "host" THEN NextTarget ELSE doing' = "enumerate" /\ UNCHANGED next

ResolveTarget ==
  LET h == Current.value IN
  /\ Discovering("resolve") /\ Current.type \in {"host", "domain"}
  /\ AfterResolving
  /\ seen' = seen \cup {h}
  /\ \/ ~New(h) /\ UNCHANGED <<assets, hosts, warned>>
     \/ New(h) /\ warned' = warned \cup {h} /\ UNCHANGED <<assets, hosts>>
     \/ /\ New(h)
        /\ \E ips \in UNION Range(Answers) :
             /\ Resolves(h.labels, ips)
             /\ \E records \in {{}, HostRecords(ByTarget, h, ips)} :
                  /\ hosts' = hosts \cup records
                  /\ Persisted(ByTarget, h, ips, records)
  /\ Keep /\ EnumerationUnchanged

-----------------------------------------------------------------------------
(* enumerateSubdomains starts the enumerator: the wordlist tries every     *)
(* name, a tool reports some of them.                                      *)
StartEnumeration ==
  /\ Discovering("enumerate")
  /\ \E names \in SUBSET Candidates[Current.value.labels] : pending' = names
  /\ doing' = "receive" /\ enumErr' = FALSE
  /\ Keep /\ UNCHANGED <<next, seen, assets, hosts, sent, enumHosts, reported, warned>>

(* One lookup of the group: a failure is an error of the group only when   *)
(* its context is done, and a name that resolves may then not be sent.     *)
LookupCandidate(c) ==
  /\ Discovering("receive") /\ c \in pending
  /\ pending' = pending \ {c}
  /\ \/ \E ips \in UNION Range(Answers) :
          /\ Resolves(Spells[c], ips)
          /\ sent' = sent \cup {[name |-> c, ips |-> ips]}
          /\ reported' = reported \cup {<<next, c>>}
          /\ UNCHANGED enumErr
     \/ /\ enumErr' \in IF ctx = "done" THEN {enumErr, TRUE} ELSE {enumErr}
        /\ UNCHANGED <<sent, reported>>
  /\ Keep /\ UNCHANGED <<next, doing, seen, assets, hosts, enumHosts, warned>>

(* The loop takes one candidate from the channel.                          *)
ReceiveCandidate(c) ==
  LET h == Name(Spells[c.name]) IN
  /\ Discovering("receive") /\ c \in sent
  /\ sent' = sent \ {c}
  /\ seen' = seen \cup {h}
  /\ \/ ~New(h) /\ UNCHANGED <<assets, enumHosts, warned>>
     \/ New(h)
        /\ \E records \in {{}, HostRecords(c.name, h, c.ips)} :
             /\ enumHosts' = enumHosts \cup records
             /\ Persisted(c.name, h, c.ips, records)
  /\ Keep /\ UNCHANGED <<next, doing, hosts, pending, enumErr, reported>>

OnlyEnumerated == enumHosts
Collected == hosts \cup enumHosts

(* The channel is closed.  The enumerator's error, the one of a tool that  *)
(* failed included, makes discoverAndResolve drop what was found.          *)
EndEnumeration ==
  /\ Discovering("receive") /\ pending = {} /\ sent = {}
  /\ \/ ~enumErr /\ hosts' = Collected /\ UNCHANGED warned
     \/ warned' = warned \cup {Current.value} /\ UNCHANGED hosts
  /\ enumHosts' = {} /\ enumErr' = FALSE
  /\ NextTarget
  /\ Keep /\ UNCHANGED <<seen, assets, pending, sent, reported>>

NextDiscovery ==
  \/ ExpandTarget
  \/ ResolveTarget
  \/ StartEnumeration
  \/ \E c \in DOMAIN Spells : LookupCandidate(c)
  \/ \E c \in sent : ReceiveCandidate(c)
  \/ EndEnumeration

DiscoveryDone == stage = "discover" /\ next > Len(targets)

-----------------------------------------------------------------------------
DiscoveryTypeOK ==
  /\ next \in 1 .. Len(targets) + 1
  /\ doing \in {"resolve", "enumerate", "receive"}
  /\ seen \subseteq {t.value : t \in Range(targets)} \cup {Name(Spells[c]) : c \in DOMAIN Spells}
  /\ \A r \in hosts \cup enumHosts : r.ip \in Addresses
  /\ pending \subseteq DOMAIN Spells
  /\ \A c \in sent : <<next, c.name>> \in reported

(* A name is stored and scanned once in a job, however often and however   *)
(* spelled targets and enumerations come by it.                            *)
OncePerName ==
  \A a, b \in assets : a.host.kind = "name" /\ a.host = b.host => a = b

(* When discovery is over, a name that was targeted, or that an enumerator *)
(* reported, has a host to scan, unless a warning was logged for it or for *)
(* a domain it was reported under: a failed lookup is never tried again,   *)
(* and the hosts of a failed enumeration are dropped.                      *)
Scanned(h) == \E r \in hosts : r.host = h
Explained(h) ==
  \/ h \in warned
  \/ \E r \in reported : Name(Spells[r[2]]) = h /\ targets[r[1]].value \in warned

NothingDroppedSilently ==
  DiscoveryDone =>
    /\ \A t \in Range(targets) :
         t.type \in {"host", "domain"} => Scanned(t.value) \/ Explained(t.value)
    /\ \A r \in reported :
         LET h == Name(Spells[r[2]]) IN Scanned(h) \/ Explained(h)
=============================================================================
