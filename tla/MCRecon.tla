------------------------------- MODULE MCRecon -------------------------------
(* A small instance of Recon: one domain with two subdomains, one of them  *)
(* denied, a range of two addresses, one of them denied, and a name the    *)
(* scope does not know.                                                    *)
EXTENDS Recon

ex  == <<"ex">>
www == <<"www", "ex">>
adm == <<"adm", "ex">>
off == <<"off">>

MCRules ==
  {[type |-> "domain_suffix", value |-> Name(ex), action |-> "allow"],
   [type |-> "exact_host", value |-> Name(adm), action |-> "deny"],
   [type |-> "cidr", value |-> Network(4, 1), action |-> "allow"],
   [type |-> "exact_host", value |-> Address(5), action |-> "deny"]}

MCReserved == {0}

MCAnswers == (ex :> {{1}}) @@ (www :> {{0}, {1}}) @@ (adm :> {{1}}) @@ (off :> {{4}})

Target(type, value) == [type |-> type, value |-> value]
Profile(type, redirects) ==
  [type |-> type, host |-> Name(ex), url |-> Name(ex), redirects |-> redirects]
Job(targetList, p) == [targets |-> targetList, profile |-> p]

(* A domain whose subdomain is a target too, a range of two addresses, one *)
(* of them denied, a range that is too large, a denied target.             *)
MCJobs ==
  {Job(<<Target("domain", Name(ex)), Target("host", Name(www))>>, Profile("static", 0)),
   Job(<<Target("host", Name(www)), Target("cidr", Network(4, 2))>>, Profile("none", 0)),
   Job(<<Target("host", Name(ex)), Target("ip", Address(4))>>, Profile("form", 1)),
   Job(<<Target("host", Name(www)), Target("cidr", Network(4, 1))>>, Profile("none", 0)),
   Job(<<Target("host", Name(adm))>>, Profile("auto", 1))}

MCSpells == [w1 |-> www, w2 |-> www]
MCCandidates == ex :> DOMAIN MCSpells
MCPorts == {80, 81}
MCListening == {<<1, 80>>, <<4, 81>>}

MCLocations == {Name(www), Name(off), Name(ex), Name(adm)}

(* The site: a start page that links to a second one twice, to itself and  *)
(* to another host; forms, a script and JSON.                              *)
Root == <<"">>
Item(n) == <<"item", n>>
To(h, path, query) == [host |-> h, path |-> path, query |-> query]
Page(to, forms, js, json, denied) ==
  [links |-> to, forms |-> forms, scripts |-> js, json |-> json, denied |-> denied]

MCSite ==
  (Root :> {Page(<<To(Name(ex), Item("1"), {1}), To(Name(ex), Item("1"), {}),
                   To(Name(off), Root, {}), To(Name(ex), Root, {}), To(Name(ex), Item("2"), {})>>,
                 <<[action |-> To(Name(ex), Root, {}), method |-> "POST", fields |-> <<2, 0, 1>>]>>,
                 <<To(Name(ex), <<"js">>, {}), To(Name(off), <<"js">>, {})>>, {}, FALSE)})
  @@ (Item("1") :> {Page(<<>>, <<>>, <<>>, {<<1>>, <<1, 2>>, <<2>>}, FALSE),
                    Page(<<>>, <<>>, <<>>, {}, TRUE)})
  @@ (Item("2") :> {Page(<<>>, <<>>, <<>>, {}, FALSE)})

(* The decision of the code, with its order of checks, is the one said     *)
(* without them.                                                           *)
ASSUME ScopeMeansWhatItSays ==
  \A h \in MCLocations, a \in Addresses :
    /\ DialAllowed(h, a) = MayReach(h, a)
    /\ DialAllowed(Address(a), a) = MayReach(Address(a), a)
==============================================================================
