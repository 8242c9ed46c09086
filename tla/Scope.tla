-------------------------------- MODULE Scope --------------------------------
(***************************************************************************)
(* internal/scope: the decision every lookup, dial and redirect asks for.  *)
(*                                                                         *)
(* A host is a name, an address or a range of addresses, already parsed    *)
(* and normalised.  A name is the sequence of its labels, an address a     *)
(* number of AddressBits bits, a range the addresses that share the first  *)
(* ones bits with base.                                                    *)
(***************************************************************************)
EXTENDS Integers, Sequences, SequencesExt, FiniteSets

CONSTANTS
  Rules,         \* the snapshot of scope rules a validator is built from
  Reserved,      \* addresses reservedReason knows
  AllowReserved, \* allow_reserved_ranges
  AddressBits    \* width of an address

Addresses == 0 .. 2^AddressBits - 1

Name(labels)     == [kind |-> "name", labels |-> labels]
Address(a)       == [kind |-> "ip", addr |-> a]
Network(a, ones) == [kind |-> "cidr", addr |-> a, ones |-> ones]

(* A host that can be dialled, in the form the checks compare it in.       *)
IsHost(h) ==
  \/ h.kind = "name" /\ h = Name(h.labels)
  \/ h.kind = "ip" /\ h = Address(h.addr) /\ h.addr \in Addresses

IsRule(r) ==
  /\ r.type \in {"exact_host", "domain_suffix", "cidr"}
  /\ r.action \in {"allow", "deny"}
  /\ r.type = "domain_suffix" => r.value.kind = "name"
  /\ r.type = "cidr" => r.value.kind = "cidr"

ASSUME ScopeAssumption ==
  /\ AddressBits \in Nat
  /\ Reserved \subseteq Addresses
  /\ AllowReserved \in BOOLEAN
  /\ \A r \in Rules : IsRule(r)

-----------------------------------------------------------------------------
(* net.IPNet.Contains: the addresses that agree on the first ones bits.    *)
Prefix(a, ones) == a \div 2^(AddressBits - ones)
InNetwork(a, n) == Prefix(a, n.ones) = Prefix(n.addr, n.ones)

(* A range is covered by a rule for it or for a range around it.           *)
Covers(outer, inner) == outer.ones <= inner.ones /\ InNetwork(inner.addr, outer)

(* What evaluate returns for the rules that match: a deny wins, then an    *)
(* allow, and no rule at all denies too, but not terminally.               *)
Evaluate(matching) ==
  IF \E r \in matching : r.action = "deny" THEN "deny"
  ELSE IF matching # {} THEN "allow" ELSE "unmatched"

(* CheckHost for a name.                                                   *)
CheckName(labels) ==
  Evaluate({r \in Rules :
    \/ r.type = "exact_host" /\ r.value = Name(labels)
    \/ r.type = "domain_suffix" /\ IsSuffix(r.value.labels, labels)})

(* CheckIP.  The reserved ranges come before any rule.                     *)
IsReserved(a) == ~AllowReserved /\ a \in Reserved

CheckIP(a) ==
  IF IsReserved(a) THEN "reserved"
  ELSE Evaluate({r \in Rules :
         \/ r.type = "exact_host" /\ r.value = Address(a)
         \/ r.type = "cidr" /\ InNetwork(a, r.value)})

(* CheckHost for a range: only a rule that covers all of it counts.        *)
CheckNetwork(n) ==
  Evaluate({r \in Rules : r.type = "cidr" /\ Covers(r.value, n)})

CheckHost(h) ==
  CASE h.kind = "name" -> IF h.labels = <<>> THEN "unmatched" ELSE CheckName(h.labels)
    [] h.kind = "ip"   -> CheckIP(h.addr)
    [] h.kind = "cidr" -> CheckNetwork(h)

(* CheckResolved: a reserved address is refused whatever its name; then    *)
(* the name decides if any rule knows it, and the address if none does.    *)
CheckResolved(h, a) ==
  IF IsReserved(a) THEN "reserved"
  ELSE IF CheckHost(h) # "unmatched" THEN CheckHost(h) ELSE CheckIP(a)

HostAllowed(h)   == CheckHost(h) = "allow"
DialAllowed(h, a) == CheckResolved(h, a) = "allow"
=============================================================================
