------------------------------ MODULE MCDetectors ------------------------------
(* The endpoints and targets DetectorRun is checked with.                  *)
EXTENDS DetectorRun, TLC

Quiet == [echo |-> "none", place |-> "text", type |-> "html", noise |-> "none",
          errors |-> "none", lookup |-> FALSE, soft |-> TRUE, reacts |-> "nothing",
          through |-> {}]

Reactions ==
  {<<"nothing", {}>>, <<"sql", {}>>, <<"sql", {"mysql"}>>, <<"sql", {"generic"}>>, <<"open", {}>>,
   <<"fetch", {"out"}>>, <<"fetch", {"shown"}>>, <<"fetch", {"out", "shown"}>>, <<"fetch", {"words"}>>}
  \cup {<<"shell", f>> : f \in {{"pipe"}, {"amp"}, {"and"}}}
  \cup {<<"files", f>> : f \in {{"raw", "marked"}, {"both", "marked"}, {"slashes"}}}
  \cup {<<"redirect", f>> : f \in {{"plain"}, {"percent-encoded"}}}
  \cup {<<"template", f>> : f \in {{"braces"}, {"erb"}}}

Echoes ==
  {<<e, "text">> : e \in {"none", "plain", "encoding", "escaping", "filtering", "dropping"}}
  \cup {<<"plain", pl>> : pl \in {"attribute", "script", "tag"}}

MCServers ==
  {[Quiet EXCEPT !.reacts = r[1], !.through = r[2], !.noise = n, !.lookup = l, !.soft = s,
                 !.type = IF n = "none" THEN "binary" ELSE "html"]
     : r \in Reactions, n \in NoiseKinds, l \in BOOLEAN, s \in BOOLEAN}
  \cup {[Quiet EXCEPT !.reacts = r[1], !.through = r[2], !.echo = e[1], !.place = e[2],
                      !.errors = x, !.lookup = l]
     : r \in Reactions, e \in Echoes, x \in {"none", "generic", "mysql"}, l \in BOOLEAN}
  \cup {[Quiet EXCEPT !.reacts = r[1], !.through = r[2], !.echo = e, !.lookup = l, !.type = "json"]
     : r \in Reactions, e \in {"none", "plain", "escaping"}, l \in BOOLEAN}

Sorts == {"url", "object", "path", "command"}
MCTargets ==
  {[kind |-> "endpoint", method |-> m, location |-> l, sorts |-> s]
     : m \in {"GET", "POST"}, l \in {"query", "path"}, s \in {{}, Sorts}}
  \cup {[kind |-> "host", method |-> "", location |-> "none", sorts |-> {}]}

MCDetectors_ == Passive \cup Active
MCCases == <<1, 2>>
MCContexts == <<"scan", "second", "third">>
=============================================================================
