---------------------------- MODULE MCScanCommand ----------------------------
(* A small instance of ScanCommand: a target with one service, a second    *)
(* host in scope and a third that is not, three accounts, and sites with   *)
(* forms that go to the one and to the other.                              *)
EXTENDS ScanCommand, TLC

app   == Name(<<"app">>)
other == Name(<<"other">>)
off   == Name(<<"off">>)

MCRules ==
  {[type |-> "exact_host", value |-> app, action |-> "allow"],
   [type |-> "exact_host", value |-> other, action |-> "allow"],
   [type |-> "exact_host", value |-> Address(3), action |-> "deny"]}

MCAnswers == (app :> {1}) @@ (other :> {2, 3}) @@ (off :> {3})

Origin(host, port) == [scheme |-> "http", host |-> host, port |-> port]
MCService == [origin |-> Origin(app, 80), ip |-> 1]
MCUnparsable == {Origin(other, 0)}

(* Profiles and identities.                                                *)
Env(pairs) == [c \in Credentials |-> IF c \in DOMAIN pairs THEN pairs[c] ELSE Unset]
Profile(name, type, url, host, env) ==
  [name |-> name, type |-> type, url |-> url, host |-> host, env |-> Env(env),
   header |-> Unset, redirects |-> 0]

MCAuthProfiles ==
  <<Profile("form", "form_login", [absolute |-> TRUE, host |-> app], Nowhere,
            [username |-> "USER", password |-> "PASS"]),
    Profile("key", "bearer_token", Unset, other, [token |-> "KEY"])>>

Identity(name, profile, disabled, env) ==
  [name |-> name, profile |-> profile, disabled |-> disabled, env |-> Env(env)]

MCIdentities ==
  <<Identity("alice", "form", FALSE, [token |-> "NONE"]),
    Identity("bob", "form", FALSE, [username |-> "BOB"]),
    Identity("carol", "key", TRUE, [cookie |-> "NONE"]),
    Identity("dave", "key", FALSE, [token |-> "GONE"])>>

MCEnvironment == [USER |-> "a", PASS |-> "p", KEY |-> "k", BOB |-> "b"]

(* Commands: with and without a profile, an identity, a second one that is *)
(* disabled, unknown, the same or without its credential, and addresses to *)
(* start from.                                                             *)
Start(host) == [kind |-> "url", host |-> host]
Command(profile, auth, identity, authz, start) ==
  [target |-> [host |-> app, parses |-> TRUE], start |-> start, profile |-> profile,
   auth |-> auth, identity |-> identity, authz |-> authz]

MCCommands ==
  {Command("web", Unset, Unset, Unset, Start(app)),
   Command("web", Unset, "alice", "bob", None),
   Command("web", "key", Unset, Unset, None),
   Command("", Unset, "bob", Unset, None),
   Command("recon", "none", Unset, Unset, None),
   Command("bogus", Unset, "alice", Unset, None),
   Command("web", Unset, "alice", "alice", None),
   Command("web", Unset, Unset, "bob", None),
   Command("web", Unset, "alice", "carol", None),
   Command("web", Unset, "alice", "eve", None),
   Command("web", Unset, "dave", Unset, None),
   Command("web", Unset, Unset, Unset, Start(other)),
   [Command("web", Unset, Unset, Unset, None) EXCEPT !.target.host = off],
   [Command("web", Unset, Unset, Unset, None) EXCEPT !.target.parses = FALSE]}

MCConfigStart == [kind |-> "path", host |-> Nowhere]

(* Sites.  The names of inputs are numbers: 1 a command, 2 an object, 3 a  *)
(* token, 4 the key of a value in a response.                              *)
To(origin, path, query) == [origin |-> origin, path |-> path, query |-> query]
Here(path, query) == To(Origin(app, 80), path, query)
There(path, query) == To(Origin(other, 81), path, query)
Form(action, method, fields) == [action |-> action, method |-> method, fields |-> fields]
Page(path, links, forms, json) ==
  [url |-> Here(path, {}), links |-> links, forms |-> forms, scripts |-> <<>>, json |-> json]
Root == <<"">>

MCSites ==
  {<<Page(Root, <<Here(<<"q">>, {1, 2})>>, <<>>, {<<4>>})>>,
   <<Page(Root, <<Here(<<>>, {1, 2})>>, <<>>, {})>>,
   <<Page(Root, <<Here(<<"item", "1">>, {}), Here(<<"item", "2", "">>, {2})>>, <<>>, {})>>,
   <<Page(Root, <<Here(<<"item", "1">>, {}), Here(<<"item", "", "2">>, {})>>, <<>>, {})>>,
   <<Page(Root, <<Here(<<"", "item", "1">>, {1}), Here(<<"", "item", "2">>, {})>>, <<>>, {})>>,
   <<Page(Root, <<Here(<<"", "", "q">>, {1}), Here(<<"", "q">>, {1})>>,
                <<Form(Here(<<"", "f", "g">>, {}), "PUT", <<1, 3>>)>>, {})>>,
   <<Page(Root, <<>>, <<Form(Here(<<"f">>, {1}), "POST", <<2, 3>>),
                        Form(Here(<<"g">>, {1}), "GET", <<2, 3, 0>>)>>, {})>>,
   <<Page(Root, <<>>, <<Form(There(<<"f">>, {}), "POST", <<1, 3>>),
                        Form(To(Origin(other, 0), <<"h">>, {}), "POST", <<1>>),
                        Form(To(Origin(off, 80), <<"k">>, {}), "GET", <<1>>)>>, {})>>,
   <<Page(Root, <<>>, <<Form(To(NoOrigin, <<"n">>, {}), "POST", <<1>>),
                        Form(There(<<"n">>, {}), "POST", <<2>>)>>, {})>>}

(* Two forms with the same path and method on two origins.                 *)
MCMergedSites ==
  {<<Page(Root, <<>>, <<Form(Here(<<"f">>, {}), "POST", <<1>>),
                        Form(There(<<"f">>, {}), "POST", <<2>>)>>, {})>>}

ItemId == [after |-> "item", number |-> TRUE]
ByLocation(query, form, path) == [query |-> query, form |-> form, path |-> path, body |-> {}]
MCObjectNames  == ByLocation({2}, {2}, {ItemId})
MCCommandNames == ByLocation({1}, {1}, {})

(* applyJSON changes the key it is given and no other: every body over two *)
(* keys, nested at most twice, and every key path that can be written.     *)
Keys == {<<1>>, <<2>>, <<1, 1>>, <<1, 2>>}
Bodies ==
  UNION {[ks -> {Found, EmptyObject}] :
         ks \in {s \in SUBSET Keys : \A j, k \in s : ~IsStrictPrefix(j, k)}}

ASSUME OnlyTheKeyChanges ==
  \A body \in Bodies, keys \in Keys :
    Blocking(body, keys) = {} => OnlyThisKeyChanges(body, keys, Payload("new", "escaped"))
==============================================================================
