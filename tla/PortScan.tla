------------------------------- MODULE PortScan -------------------------------
(***************************************************************************)
(* scanPorts (orchestration/pipeline.go) over the native scanner of        *)
(* internal/ports.                                                         *)
(*                                                                         *)
(* One goroutine per host, at most PortWorkers of them, receives from an   *)
(* unbuffered channel what one goroutine per port sends; all those of the  *)
(* job share one semaphore, and hold their slot until they have sent.  A   *)
(* receiver that cannot store a service returns at once: its senders are   *)
(* left to find the group's context done.                                  *)
(***************************************************************************)
EXTENDS Discovery

CONSTANTS
  Ports,       \* the ports of the job, after dedupInts
  Listening,   \* pairs of an address and a port that accept a connection
  PortWorkers  \* Concurrency.PortWorkers: limit of the group, and semaphore

(* config.Validate refuses a number of workers that is not positive.       *)
ASSUME PortAssumption == PortWorkers \in Nat \ {0}

VARIABLES
  scan,       \* the goroutine of each host: waiting, receiving, returned
  probe,      \* the goroutine of each port of each host
  groupErr,   \* the error the group of hosts is cancelled with
  dialed,     \* host and port pairs a connection was tried to, in scope
  turnedAway, \* pairs given up because the limiter refused a token
  refused,    \* hosts whose Scan failed: logged and skipped
  services    \* services stored: host record and port

pVars == <<scan, probe, groupErr, dialed, turnedAway, refused, services>>

-----------------------------------------------------------------------------
InitPortScan ==
  /\ scan = <<>> /\ probe = <<>>
  /\ groupErr = FALSE
  /\ dialed = {} /\ turnedAway = {} /\ refused = {} /\ services = {}

(* Goroutines that hold a slot of the semaphore.                           *)
Holding  == {k \in DOMAIN probe : probe[k] \in {"slot", "open", "closed"}}
GroupDone == ctx = "done" \/ groupErr

StartPorts ==
  /\ DiscoveryDone
  /\ Proceed("discover", "ports")
  /\ scan' = [h \in hosts |-> "waiting"]
  /\ probe' = [k \in hosts \X Ports |-> "idle"]
  /\ UNCHANGED <<groupErr, dialed, turnedAway, refused, services>>

(* g.Go blocks at the limit.  Scan checks the host once, for all ports.    *)
StartHost(h) ==
  /\ stage = "ports" /\ h \in DOMAIN scan /\ scan[h] = "waiting"
  /\ Cardinality({g \in DOMAIN scan : scan[g] = "receiving"}) < PortWorkers
  /\ IF GroupDone \/ ~DialAllowed(h.host, h.ip)
     THEN /\ scan' = [scan EXCEPT ![h] = "returned"]
          /\ refused' = refused \cup {h}
          /\ UNCHANGED probe
     ELSE /\ scan' = [scan EXCEPT ![h] = "receiving"]
          /\ probe' = [k \in DOMAIN probe |-> IF k[1] = h THEN "queued" ELSE probe[k]]
          /\ UNCHANGED refused
  /\ Keep /\ UNCHANGED <<groupErr, dialed, turnedAway, services>>

Becomes(k, from, to) == probe[k] = from /\ probe' = [probe EXCEPT ![k] = to]

(* sem.Acquire: a slot, or the error of the context.                       *)
Acquire(k) ==
  /\ Becomes(k, "queued", "slot") /\ Cardinality(Holding) < PortWorkers
  /\ Keep /\ UNCHANGED <<scan, groupErr, dialed, turnedAway, refused, services>>

AcquireFails(k) ==
  /\ GroupDone /\ Becomes(k, "queued", "gone")
  /\ Keep /\ UNCHANGED <<scan, groupErr, dialed, turnedAway, refused, services>>

(* The limiter refuses: the goroutine ends and gives its slot back.        *)
LimiterFails(k) ==
  /\ GroupDone \/ LimiterRefuses
  /\ Becomes(k, "slot", "gone")
  /\ turnedAway' = IF GroupDone THEN turnedAway ELSE turnedAway \cup {k}
  /\ Keep /\ UNCHANGED <<scan, groupErr, dialed, refused, services>>

(* The scope once more, then the dial.  With a done context either fails,  *)
(* and the port counts as closed.                                          *)
Dial(k) ==
  LET h == k[1] IN
  /\ \/ /\ ~GroupDone /\ DialAllowed(h.host, h.ip)
        /\ dialed' = dialed \cup {k}
        /\ \/ <<h.ip, k[2]>> \in Listening /\ Becomes(k, "slot", "open")
           \/ Becomes(k, "slot", "closed")
     \/ /\ GroupDone \/ ~DialAllowed(h.host, h.ip)
        /\ Becomes(k, "slot", "closed")
        /\ UNCHANGED dialed
  /\ Keep /\ UNCHANGED <<scan, groupErr, turnedAway, refused, services>>

(* The receiver takes the result; it stores an open port as a service, and *)
(* returns if it cannot, which cancels the group.                          *)
Send(k) ==
  /\ scan[k[1]] = "receiving"
  /\ \/ Becomes(k, "closed", "gone") /\ UNCHANGED <<scan, groupErr, services>>
     \/ /\ Becomes(k, "open", "gone")
        /\ \/ /\ ~GroupDone
              /\ services' = services \cup {k} /\ UNCHANGED <<scan, groupErr>>
           \/ /\ GroupDone \/ StoreFails
              /\ scan' = [scan EXCEPT ![k[1]] = "returned"]
              /\ groupErr' = TRUE
              /\ UNCHANGED services
  /\ Keep /\ UNCHANGED <<dialed, turnedAway, refused>>

NeverGivenUp == FALSE
NobodyWaits  == GroupDone

(* The other branch of the select: nobody needs the result any more.       *)
SendGivenUp(k) ==
  /\ NobodyWaits
  /\ \/ Becomes(k, "open", "gone") \/ Becomes(k, "closed", "gone")
  /\ Keep /\ UNCHANGED <<scan, groupErr, dialed, turnedAway, refused, services>>

(* The channel is closed when the last sender has gone, and the receiver   *)
(* returns.                                                                *)
HostDone(h) ==
  /\ h \in DOMAIN scan /\ scan[h] = "receiving"
  /\ \A p \in Ports : probe[<<h, p>>] = "gone"
  /\ scan' = [scan EXCEPT ![h] = "returned"]
  /\ Keep /\ UNCHANGED <<probe, groupErr, dialed, turnedAway, refused, services>>

(* g.Wait waits for the receivers only.                                    *)
EndPorts ==
  /\ stage = "ports" /\ \A h \in DOMAIN scan : scan[h] = "returned"
  /\ IF groupErr THEN Abort("store") ELSE Proceed("ports", "probe")
  /\ UNCHANGED pVars

NextPortGoroutine ==
  \E k \in DOMAIN probe :
    \/ Acquire(k) \/ AcquireFails(k) \/ LimiterFails(k)
    \/ Dial(k) \/ Send(k) \/ SendGivenUp(k)

NextPortScan ==
  \/ StartPorts
  \/ \E h \in DOMAIN scan : StartHost(h) \/ HostDone(h)
  \/ NextPortGoroutine
  \/ EndPorts

-----------------------------------------------------------------------------
PortTypeOK ==
  /\ \A h \in DOMAIN scan : scan[h] \in {"waiting", "receiving", "returned"}
  /\ \A k \in DOMAIN probe :
       probe[k] \in {"idle", "queued", "slot", "open", "closed", "gone"}
  /\ services \subseteq dialed /\ dialed \subseteq DOMAIN probe
  /\ groupErr \in BOOLEAN

(* What a completed port scan has done: every port of every host that was  *)
(* in scope was tried, unless the limiter saw no time left for it, and the *)
(* slots of the job are free again.                                        *)
PortsCovered ==
  /\ \A h \in DOMAIN scan : h \notin refused =>
       \A p \in Ports : <<h, p>> \in dialed \cup turnedAway
  /\ Holding = {}
=============================================================================
