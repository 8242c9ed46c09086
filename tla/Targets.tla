-------------------------------- MODULE Targets --------------------------------
(***************************************************************************)
(* internal/detection/targets.go and mutation_bridge.go: what is tested of *)
(* a service and of the pages crawled from it, and the request that each   *)
(* test starts from.                                                       *)
(*                                                                         *)
(* An origin is a scheme, a host and a port.  The rows a crawl stores are  *)
(* those of Inputs; a form's endpoint also keeps the origin of its action. *)
(***************************************************************************)
EXTENDS Inputs, Mutation

CONSTANTS
  Tokens,      \* names of fields that IsLikelySecurityToken knows
  Sensitive,   \* names of fields whose values are not stored
  NoOrigin,    \* an endpoint without an origin of its own
  Unparsable   \* origins url.Parse or Atoi refuse once originOf has written them

-----------------------------------------------------------------------------
(* endpoints.Normalize: an endpoint is its path, method and source.  A     *)
(* form is at a place, the number of its page and its own on that page; of *)
(* the forms that share an endpoint the first gives its origin.            *)
FormAt(pages, place) == pages[place[1]].forms[place[2]]

FormPlaces(pages, e) ==
  {place \in UNION {{i} \X DOMAIN pages[i].forms : i \in DOMAIN pages} :
     Endpoint(FormAt(pages, place).action, FormAt(pages, place).method, "form") = e}

FormsAt(pages, e) == {FormAt(pages, place) : place \in FormPlaces(pages, e)}

FirstPlace(places) ==
  CHOOSE p \in places :
    \A q \in places : p[1] < q[1] \/ (p[1] = q[1] /\ p[2] <= q[2])

ActionOrigin(pages, e) ==
  IF e.source = "form" THEN FormAt(pages, FirstPlace(FormPlaces(pages, e))).action.origin
  ELSE NoOrigin

Provenance(c) == IF LocationOf(c) = "json" THEN "RESPONSE_FIELD" ELSE "REQUEST_INPUT"

(* Only what is sent in a request is tested, never a field of a response.  *)
NamesAt(pages, e, location) ==
  {NameOf(c) : c \in {d \in Parameters(pages) :
     /\ d.endpoint = e /\ LocationOf(d) = location
     /\ location = "query" \/ Provenance(d) = "REQUEST_INPUT"}}

-----------------------------------------------------------------------------
(* BuildTargets: a service whose host has no address is left out.          *)
Dialable(service) == service.ip # NoAddress

ServiceTarget(service) ==
  [kind |-> "http_service", origin |-> service.origin, ip |-> service.ip, path |-> <<Blank>>,
   query |-> {}, method |-> "", input |-> <<"", Unnamed>>, index |-> 0,
   fields |-> {}, endpoint |-> None]

Elsewhere(service, pages, e) ==
  ActionOrigin(pages, e) \notin {NoOrigin, service.origin}

Routable(service, pages, e) ==
  Elsewhere(service, pages, e) => ActionOrigin(pages, e) \notin Unparsable

Rerouted(service, pages, e) ==
  Elsewhere(service, pages, e) /\ Routable(service, pages, e)

(* Fault: the address of the service is kept for the other origin.         *)
KeepsAddress(service, pages, e) ==
  [ServiceTarget(service) EXCEPT
     !.kind = "endpoint", !.endpoint = e, !.method = e.method,
     !.path = ReadBack(e.at.path), !.query = e.at.query,
     !.origin = IF Rerouted(service, pages, e) THEN ActionOrigin(pages, e) ELSE @]

(* endpointTargets.  The path is read back from the stored string, and may *)
(* be another than it was.  A form whose action is on another origin is    *)
(* tested there, at an address that is looked up when the request is made. *)
EndpointTarget(service, pages, e) ==
  [ServiceTarget(service) EXCEPT
     !.kind = "endpoint", !.endpoint = e, !.method = e.method,
     !.path = ReadBack(e.at.path), !.query = e.at.query,
     !.origin = IF Rerouted(service, pages, e) THEN ActionOrigin(pages, e) ELSE @,
     !.ip = IF Rerouted(service, pages, e) THEN NoAddress ELSE @]

Testing(target, location, name) == [target EXCEPT !.input = <<location, name>>]

IsForm(e) == e.source = "form"

(* A token is not tested, but sent along with the other fields.            *)
QueryTargets(service, pages, e) ==
  LET names == NamesAt(pages, e, "query") IN
  {[Testing(EndpointTarget(service, pages, e), "query", n)
      EXCEPT !.fields = IF IsForm(e) THEN names ELSE {}] :
     n \in IF IsForm(e) /\ ~Routable(service, pages, e) THEN {}
           ELSE IF IsForm(e) THEN names \ Tokens ELSE names}

FormTargets(service, pages, e) ==
  LET names == NamesAt(pages, e, "form") IN
  {[Testing(EndpointTarget(service, pages, e), "form", n) EXCEPT !.fields = names] :
     n \in IF Routable(service, pages, e) THEN names \ Tokens ELSE {}}

BodyTargets(service, pages, e) ==
  {Testing(EndpointTarget(service, pages, e), "body", n) : n \in NamesAt(pages, e, "json")}

(* The index of the segment that varies, as InferPathInputs counts it: the *)
(* empty segments are not counted.                                         *)
PathSegmentIndex(e) == Len(Segments(e)) - 1

PathTargets(service, pages, e) ==
  {[Testing(EndpointTarget(service, pages, e), "path", n) EXCEPT !.index = PathSegmentIndex(e)] :
     n \in NamesAt(pages, e, "path")}

EndpointTargets(service, pages, e) ==
  {EndpointTarget(service, pages, e)}
    \cup QueryTargets(service, pages, e) \cup BodyTargets(service, pages, e)
    \cup FormTargets(service, pages, e) \cup PathTargets(service, pages, e)

BuildTargets(service, pages) ==
  IF ~Dialable(service) THEN {}
  ELSE {ServiceTarget(service)}
         \cup UNION {EndpointTargets(service, pages, e) : e \in Endpoints(pages)}

-----------------------------------------------------------------------------
(* NewMutationRequest: the request of the page or of the form.  A field    *)
(* that the query of the address holds already keeps its value, which is   *)
(* not empty here: the code fills it in when it is.  The value of a        *)
(* sensitive field was replaced when it was stored (redactIfSensitive) and *)
(* that is what is sent.                                                   *)
Redacted == [text |-> "redacted", verbatim |-> FALSE]
FieldValues(names) == [n \in names |-> IF n \in Sensitive THEN Redacted ELSE Found]
Addressed(query) == [n \in query |-> Found]

WithoutSiblings(t) == None (* Fault: the form's other fields are not sent. *)
BodyOf(t) == IF LocationOf(t) = "form" /\ t.fields # {} THEN FormBody(FieldValues(t.fields)) ELSE None

QueryOf(t) ==
  LET fields == IF LocationOf(t) = "query" THEN t.fields ELSE {} IN
  [n \in t.query \cup fields |-> IF n \in t.query THEN Found ELSE FieldValues(fields)[n]]

NewMutationRequest(t) ==
  [method |-> IF t.method = "" THEN "GET" ELSE t.method,
   origin |-> t.origin, ip |-> t.ip, path |-> t.path, query |-> QueryOf(t), raw |-> None,
   body |-> BodyOf(t), type |-> IF BodyOf(t) = None THEN "" ELSE "form", made |-> "ORIGINAL"]

(* NewTargetMutation, with the location that every detector maps its       *)
(* target's to (locationFor).                                              *)
LocationFor(t) ==
  IF LocationOf(t) = "body" THEN "json"
  ELSE IF LocationOf(t) \in {"form", "path"} THEN LocationOf(t) ELSE "query"

NewTargetMutation(t, value, encoding) ==
  NewMutation(LocationFor(t), NameOf(t), value, encoding, t.index)
===============================================================================
