-------------------------------- MODULE Inputs --------------------------------
(***************************************************************************)
(* What crawled pages become: internal/endpoints.Normalize and the three   *)
(* passes of internal/parameters over the same pages, with their limits.   *)
(*                                                                         *)
(* The path of a URL is what its slashes separate, the first aside: <<>>   *)
(* when it is empty, <<Blank>> when it is the root.  A segment is a word   *)
(* of letters, digits, - and _: once decoded, others could be read as more *)
(* than a segment when the path is parsed again (ReadBack).  Names of      *)
(* inputs are numbers, ordered as the code orders strings.                 *)
(***************************************************************************)
EXTENDS Sequences, Ordering

CONSTANTS
  Blank,        \* the empty path segment
  DigitTokens,  \* path segments of digits only
  VersionTokens,\* path segments like v1
  IdTokens,     \* path segments with a digit, a hyphen or an underscore
  MaxPerEndpoint, MaxTotal, MaxFormFields, MaxJSONDepth, MaxJSONFields, MaxPathSegments

ASSUME InputsAssumption ==
  /\ DigitTokens \cup VersionTokens \subseteq IdTokens
  /\ {MaxPerEndpoint, MaxTotal, MaxFormFields, MaxJSONDepth, MaxJSONFields,
      MaxPathSegments} \subseteq Int

-----------------------------------------------------------------------------
(* Limits.normalized: a limit that is not positive is the default.         *)
OrDefault(limit, default) == IF limit <= 0 THEN default ELSE limit
PerEndpoint  == OrDefault(MaxPerEndpoint, 100)
Total        == OrDefault(MaxTotal, 2000)
FormFields   == OrDefault(MaxFormFields, 200)
JSONDepth    == OrDefault(MaxJSONDepth, 10)
JSONFields   == OrDefault(MaxJSONFields, 500)
PathSegments == OrDefault(MaxPathSegments, 20)

(* endpoints.PathOf: an empty path is the root, and loses its query.       *)
PathOf(url) == IF url.path = <<>> THEN [path |-> <<Blank>>, query |-> {}]
               ELSE [path |-> url.path, query |-> url.query]

(* An endpoint's path is stored as a string, and whoever needs it parses   *)
(* that string as a URL.  With two slashes in front, and no third, what is *)
(* between them and the next slash is then a host, and no longer a segment *)
(* of the path.                                                            *)
BehindTwoSlashes(path) ==
  /\ Len(path) > 1 /\ path[1] = Blank
  /\ Len(path) > 2 => path[2] # Blank

ReadBack(path) == IF BehindTwoSlashes(path) THEN SubSeq(path, 3, Len(path)) ELSE path

Endpoint(url, method, source) == [at |-> PathOf(url), method |-> method, source |-> source]

(* endpoints.Normalize: one endpoint for a page, each of its links, forms  *)
(* and scripts, each identity once.                                        *)
PageEndpoints(p) ==
  {Endpoint(p.url, "GET", "crawl")}
    \cup {Endpoint(l, "GET", "link") : l \in Range(p.links)}
    \cup {Endpoint(f.action, f.method, "form") : f \in Range(p.forms)}
    \cup {Endpoint(s, "GET", "javascript") : s \in Range(p.scripts)}

Endpoints(pages) == UNION {PageEndpoints(p) : p \in Range(pages)}

-----------------------------------------------------------------------------
(* An input is known by where it is and by its name there.                 *)
Candidate(endpoint, location, name) == [endpoint |-> endpoint, input |-> <<location, name>>]
LocationOf(c) == c.input[1]
NameOf(c)     == c.input[2]

(* The names of a query, in their order.                                   *)
Ascending(names) == Sorted(names, LAMBDA a, b : a < b)

QueryCandidates(url, source) ==
  [i \in DOMAIN Ascending(url.query) |->
     Candidate(Endpoint(url, "GET", source), "query", Ascending(url.query)[i])]

(* A form submitted with GET contributes query parameters.  A field that   *)
(* has no name (zero) is none, but counts for the limit.                   *)
Unnamed == 0
FieldsOf(f) ==
  Filtered(SubSeq(f.fields, 1, Min({FormFields, Len(f.fields)})), Range(f.fields) \ {Unnamed})

FormCandidates(f) ==
  [i \in DOMAIN FieldsOf(f) |->
     Candidate(Endpoint(f.action, f.method, "form"),
               IF f.method = "GET" THEN "query" ELSE "form", FieldsOf(f)[i])]

PageCandidates(p) ==
  QueryCandidates(p.url, "crawl")
    \o FlattenSeq([i \in DOMAIN p.links |-> QueryCandidates(p.links[i], "link")])
    \o FlattenSeq([i \in DOMAIN p.forms |-> FormCandidates(p.forms[i])])

RequestCandidates(pages) == FlattenSeq([i \in DOMAIN pages |-> PageCandidates(pages[i])])

RequestWarnings(pages) ==
  {"form" : f \in {g \in UNION {Range(p.forms) : p \in Range(pages)} :
                     Len(g.fields) > FormFields}}

(* ParseJSONBody.  A body is the set of the key paths that lead to its     *)
(* values; walk visits them in order, and not below the depth limit.       *)
KeyBefore(a, b) ==
  \/ IsStrictPrefix(a, b)
  \/ \E i \in 1 .. Len(a) \cap 1 .. Len(b) :
       a[i] < b[i] /\ \A j \in 1 .. i - 1 : a[j] = b[j]

Shallow(body) == {k \in body : Len(k) - 1 <= JSONDepth}
JSONNames(body) ==
  {k \in Shallow(body) : Cardinality({j \in Shallow(body) : KeyBefore(j, k)}) < JSONFields}

BodyCandidates(p) ==
  LET keys == Sorted(JSONNames(p.json), KeyBefore) IN
  [i \in DOMAIN keys |-> Candidate(Endpoint(p.url, "GET", "crawl"), "json", keys[i])]

ResponseCandidates(pages) == FlattenSeq([i \in DOMAIN pages |-> BodyCandidates(pages[i])])

PastFieldLimit(n) == n > JSONFields
AtFieldLimit(n)   == n >= JSONFields

ResponseWarnings(pages) ==
  {"fields" : p \in {q \in Range(pages) : AtFieldLimit(Cardinality(JSONNames(q.json)))}}
    \cup {"depth" : p \in {q \in Range(pages) : \E k \in q.json \ Shallow(q.json) :
         Cardinality({j \in Shallow(q.json) : KeyBefore(j, k)}) < JSONFields}}

(* InferPathInputs.  Among the endpoints of a method that differ in their  *)
(* last segment only, that segment is an input when there are two values   *)
(* of it, all like identifiers and not all of them versions.               *)
NotBlank(path) == Filtered(path, Range(path) \ {Blank})
Segments(e) == NotBlank(ReadBack(e.at.path))
Considered(e) == Len(Segments(e)) \in 1 .. PathSegments

Siblings(es, e) ==
  {f \in es : /\ Considered(f)
              /\ f.method = e.method
              /\ Front(Segments(f)) = Front(Segments(e))}

Values(es, e) == {Last(Segments(f)) : f \in Siblings(es, e)}

IsPathInput(es, e) ==
  /\ Considered(e)
  /\ Cardinality(Values(es, e)) > 1
  /\ ~ (Values(es, e) \subseteq VersionTokens)
  /\ Values(es, e) \subseteq IdTokens

PathInputName(es, e) ==
  [after  |-> IF Len(Segments(e)) > 1 THEN Last(Front(Segments(e))) ELSE Blank,
   number |-> Values(es, e) \subseteq DigitTokens]

PathCandidates(es) ==
  {Candidate(e, "path", PathInputName(es, e)) : e \in {f \in es : IsPathInput(es, f)}}

-----------------------------------------------------------------------------
(* candidateAggregator: each candidate once; of an endpoint's, the first   *)
(* PerEndpoint in order; of those, endpoint after endpoint in the order in *)
(* which they were met, the first Total.                                   *)
LocationRank == [form |-> 1, json |-> 2, path |-> 3, query |-> 4]

(* Within one endpoint and location every pass orders by name.             *)
NameBefore(loc, a, b) == IF loc = "json" THEN KeyBefore(a, b) ELSE loc # "path" /\ a < b
Before(a, b) ==
  \/ LocationRank[LocationOf(a)] < LocationRank[LocationOf(b)]
  \/ LocationOf(a) = LocationOf(b) /\ NameBefore(LocationOf(a), NameOf(a), NameOf(b))

FirstsOf(cs) ==
  {c \in Range(cs) :
     Cardinality({d \in Range(cs) : d.endpoint = c.endpoint /\ Before(d, c)}) < PerEndpoint}

MetAt(cs, e) == Min({i \in DOMAIN cs : cs[i].endpoint = e})

Precedes(cs, d, c) ==
  \/ MetAt(cs, d.endpoint) < MetAt(cs, c.endpoint)
  \/ d.endpoint = c.endpoint /\ Before(d, c)

Kept(cs) ==
  {c \in FirstsOf(cs) : Cardinality({d \in FirstsOf(cs) : Precedes(cs, d, c)}) < Total}

LimitWarnings(cs) ==
  (IF FirstsOf(cs) = Range(cs) THEN {} ELSE {"endpoint"})
    \cup (IF Kept(cs) = FirstsOf(cs) THEN {} ELSE {"total"})

-----------------------------------------------------------------------------
(* The rows a crawl stores.  A candidate whose endpoint has no row is left *)
(* out without a word.                                                     *)
Passes(pages) ==
  {RequestCandidates(pages), ResponseCandidates(pages)}
    \cup {SetToSeq(cs) : cs \in {PathCandidates(Endpoints(pages))}}

Discovered(pages) == UNION {Kept(cs) : cs \in Passes(pages)}

InputWarnings(pages) ==
  RequestWarnings(pages) \cup ResponseWarnings(pages)
    \cup UNION {LimitWarnings(cs) : cs \in Passes(pages)}

Parameters(pages) == {c \in Discovered(pages) : c.endpoint \in Endpoints(pages)}
=============================================================================
