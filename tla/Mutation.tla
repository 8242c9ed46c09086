------------------------------- MODULE Mutation -------------------------------
(***************************************************************************)
(* internal/mutation: a request, and the request that differs from it in   *)
(* one input (Mutate).  A query and the body of a form are functions from  *)
(* names to values, a path is the sequence of what its slashes separate,   *)
(* the first slash aside, and a JSON body maps the key path of each value  *)
(* in it to that value.                                                    *)
(***************************************************************************)
EXTENDS Integers, Sequences, SequencesExt, FiniteSets, Functions

CONSTANTS
  NoAddress,   \* a request without an address
  EmptyObject, \* the JSON value {}
  NullValue    \* the JSON value null

None == [kind |-> "none"]
NoFields == [n \in {} |-> n]

(* A value as it is sent: its text, and whether it was encoded.            *)
Found == [text |-> "found", verbatim |-> FALSE]
Payload(text, encoding) == [text |-> text, verbatim |-> encoding = "verbatim"]

FormBody(fields) == [kind |-> "form", fields |-> fields]
JSONBody(leaves) == [kind |-> "json", leaves |-> leaves]

(* NewMutation, NewPathMutation.  Only a path mutation has an index.       *)
NewMutation(location, parameter, value, encoding, index) ==
  [location |-> location, parameter |-> parameter, value |-> Payload(value, encoding),
   encoding |-> encoding, index |-> IF location = "path" THEN index ELSE 0]

-----------------------------------------------------------------------------
(* Values.Set: the name has this value and no other.                       *)
Set(fields, name, value) ==
  [n \in DOMAIN fields \cup {name} |-> IF n = name THEN value ELSE fields[n]]
Without(fields, name) == Restrict(fields, DOMAIN fields \ {name})

(* applyQuery.  A verbatim value does not go through the query's encoder:  *)
(* the raw query starts with it, and the query keeps the other names.      *)
ApplyQuery(req, m) ==
  IF m.encoding = "verbatim"
  THEN [req EXCEPT !.query = Without(@, m.parameter),
                   !.raw = [kind |-> "raw", name |-> m.parameter, value |-> m.value]]
  ELSE [req EXCEPT !.query = Set(@, m.parameter, m.value), !.raw = None]

(* Request.URL: the raw query, when there is one, in place of the query.   *)
SentQuery(req) ==
  IF req.raw = None THEN req.query ELSE Set(req.query, req.raw.name, req.raw.value)

(* applyForm: the fields of the body, or none; either encoding leaves the  *)
(* other fields as they are.                                               *)
BodyFields(req) == IF req.body.kind = "form" THEN req.body.fields ELSE NoFields

ApplyForm(req, m) ==
  [req EXCEPT !.body = FormBody(Set(BodyFields(req), m.parameter, m.value)), !.type = "form"]

(* applyPath: the segment at the index, counted from zero.                 *)
PathInRange(req, m) == m.index >= 0 /\ m.index < Len(req.path)
ApplyPath(req, m) == [req EXCEPT !.path[m.index + 1] = m.value]

(* applyJSON: setJSONPathEscaped and setJSONPathVerbatim descend into the  *)
(* object along the keys and make the objects that are missing.  What is   *)
(* not an object cannot be descended into: null is taken for an object,    *)
(* and writing to it panics.                                               *)
Leaves(req) == IF req.body.kind = "json" THEN req.body.leaves ELSE NoFields

Blocking(leaves, keys) ==
  {k \in DOMAIN leaves : IsStrictPrefix(k, keys) /\ leaves[k] # EmptyObject}

Nulls(leaves, keys) == {k \in Blocking(leaves, keys) : leaves[k] = NullValue}

WithLeaf(leaves, keys, value) ==
  Set(Restrict(leaves, {k \in DOMAIN leaves : ~IsPrefix(keys, k) /\ ~IsStrictPrefix(k, keys)}),
      keys, value)

ApplyJSON(req, m) ==
  [req EXCEPT !.body = JSONBody(WithLeaf(Leaves(req), m.parameter, m.value)), !.type = "json"]

-----------------------------------------------------------------------------
(* Mutate.  Every detector passes the empty policy, which permits neither  *)
(* headers nor cookies.  The result is a copy, or an error, or a panic.    *)
Refused == [kind |-> "error"]
Panics  == [kind |-> "panic"]

Mutated(req, m) ==
  CASE m.location = "query" -> ApplyQuery(req, m)
    [] m.location = "form"  -> ApplyForm(req, m)
    [] m.location = "json"  ->
         IF Nulls(Leaves(req), m.parameter) # {} THEN Panics
         ELSE IF Blocking(Leaves(req), m.parameter) # {} THEN Refused ELSE ApplyJSON(req, m)
    [] m.location = "path"  -> IF PathInRange(req, m) THEN ApplyPath(req, m) ELSE Refused
    [] OTHER -> Refused

Mutate(req, m) ==
  IF Mutated(req, m) \in {Refused, Panics} THEN Mutated(req, m)
  ELSE [Mutated(req, m) EXCEPT !.made = "MUTATED"]

-----------------------------------------------------------------------------
(* The keys of a JSON object say what is at them and what is not: changing *)
(* one leaves every value that is neither above nor below it.              *)
OnlyThisKeyChanges(leaves, keys, value) ==
  LET after == WithLeaf(leaves, keys, value) IN
  /\ after[keys] = value
  /\ \A k \in DOMAIN leaves \ {keys} :
       ~IsPrefix(k, keys) /\ ~IsPrefix(keys, k) => k \in DOMAIN after /\ after[k] = leaves[k]
===============================================================================
