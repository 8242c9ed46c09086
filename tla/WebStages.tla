------------------------------- MODULE WebStages -------------------------------
(***************************************************************************)
(* probeAndFingerprint and crawlAndDiscoverEndpoints                       *)
(* (orchestration/pipeline.go) over internal/http and internal/crawler:    *)
(* which open ports speak HTTP, which pages a crawl visits, and what is    *)
(* stored of them.                                                         *)
(*                                                                         *)
(* The goroutines of these stages share nothing but what they append to    *)
(* under a lock and the context the first error cancels; one of them runs  *)
(* at a time here (HTTPWorkers = 1).                                       *)
(***************************************************************************)
EXTENDS PortScan, Login, Inputs

CONSTANTS
  MaxRedirects, \* HTTPConfig.MaxRedirects
  CrawlEnabled, \* Pipeline.CrawlEnabled
  MaxDepth,     \* Pipeline.CrawlMaxDepth
  MaxPages,     \* Pipeline.CrawlMaxPages
  StartPath,    \* Pipeline.CrawlStartPath
  Site,         \* what a server may answer for a path: links, forms, scripts, json, status
  Routes        \* hosts named by the routes in a script

(* What is read of an answer; a link leads somewhere that answers.         *)
IsAnswer(p) ==
  /\ p.links \in Seq(Range(p.links)) /\ p.forms \in Seq(Range(p.forms))
  /\ p.scripts \in Seq(Range(p.scripts))
  /\ \A l \in Range(p.links) :
       l.path \in DOMAIN Site /\ l.query \subseteq Nat \ {Unnamed} /\ IsFiniteSet(l.query)
  /\ \A f \in Range(p.forms) : f.fields \in Seq(Nat)
  /\ p.json \subseteq Seq(Nat) /\ IsFiniteSet(p.json)

ASSUME SiteAssumption ==
  /\ {MaxDepth, MaxPages} \subseteq Int
  /\ StartPath \in DOMAIN Site
  /\ \A path \in DOMAIN Site : \A answer \in Site[path] : IsAnswer(answer)

VARIABLES
  work,      \* what the stage's goroutine does
  todo,      \* services to probe, then services to crawl
  at,        \* the service at hand
  crawlTargets, \* services that speak HTTP
  skipped,   \* services given up while the run was live: no HTTP, or no token
  crawled,   \* services whose crawl has ended, and was stored
  item,      \* the queue item that is fetched
  queue,     \* the crawler's queue
  visited,   \* the crawler's visited paths
  pages,     \* the pages of this crawl
  scripts,   \* scripts of this crawl left to fetch
  rows,      \* endpoints and parameters stored of this crawl
  routeRows, \* hosts of the routes stored as endpoints
  expired    \* a crawl with the session met a 401 or 403

wVars == <<work, todo, at, crawlTargets, skipped, crawled, item, queue, visited,
           pages, scripts, rows, routeRows, expired>>

-----------------------------------------------------------------------------
NoService == <<>>
NoItem    == [path |-> <<>>, depth |-> 0]
NoRows    == [endpoints |-> {}, parameters |-> {}, warnings |-> {}]

InitWeb ==
  /\ work = "none" /\ todo = {} /\ at = NoService
  /\ crawlTargets = {} /\ skipped = {} /\ crawled = {}
  /\ item = NoItem /\ queue = <<>> /\ visited = {} /\ pages = <<>>
  /\ scripts = {} /\ rows = NoRows /\ routeRows = {} /\ expired = FALSE

CrawlUnchanged == UNCHANGED <<item, queue, visited, pages, scripts, rows, routeRows, expired>>

Working(on, what) == stage = on /\ work = what

(* What is given up because the context is done is not in skipped.         *)
Skip(k) == skipped' = IF ctx = "live" THEN skipped \cup {k} ELSE skipped

HostOf(k) == k[1].host
Fetch(k, max, pinned) == Request(HostOf(k), HostOf(k), k[1].ip, max, pinned, FALSE)

(* The first error of the group ends the stage.                            *)
WebAborts ==
  /\ Abort("store")
  /\ work' = "none" /\ at' = NoService /\ req' = Idle

-----------------------------------------------------------------------------
(* probeAndFingerprint                                                     *)
StartProbes ==
  /\ stage = "probe" /\ work = "none"
  /\ work' = "next" /\ todo' = services
  /\ Keep /\ CrawlUnchanged /\ UNCHANGED <<req, at, crawlTargets, skipped, crawled>>

StartProbe(k) ==
  /\ Working("probe", "next") /\ k \in todo
  /\ todo' = todo \ {k}
  /\ \/ LimiterRefuses /\ Skip(k) /\ UNCHANGED <<work, at, req>>
     \/ /\ work' = "https" /\ at' = k
        /\ req' = Fetch(k, MaxRedirects, Nobody)
        /\ UNCHANGED skipped
  /\ Keep /\ CrawlUnchanged /\ UNCHANGED <<crawlTargets, crawled>>

(* Probe tries https, then http; a port that answers neither is no error.  *)
TryHTTP ==
  /\ Working("probe", "https") /\ req.state = "failed"
  /\ work' = "http" /\ req' = Fetch(at, MaxRedirects, Nobody)
  /\ Keep /\ CrawlUnchanged /\ UNCHANGED <<todo, at, crawlTargets, skipped, crawled>>

NotHTTP ==
  /\ Working("probe", "http") /\ req.state = "failed"
  /\ Skip(at)
  /\ work' = "next" /\ at' = NoService /\ req' = Idle
  /\ Keep /\ CrawlUnchanged /\ UNCHANGED <<todo, crawlTargets, crawled>>

(* The service is stored and becomes a crawl target; then its technologies *)
(* are stored.                                                             *)
StoreProbe ==
  /\ stage = "probe" /\ work \in {"https", "http"} /\ req.state = "answered"
  /\ \/ /\ StoreWorks
        /\ crawlTargets' = crawlTargets \cup {at}
        /\ work' = "next" /\ at' = NoService /\ req' = Idle /\ Keep
     \/ /\ StoreFails /\ WebAborts
        /\ crawlTargets' \in {crawlTargets} \cup IF StoreWorks THEN {crawlTargets \cup {at}} ELSE {}
  /\ CrawlUnchanged /\ UNCHANGED <<todo, skipped, crawled>>

EndProbes ==
  /\ Working("probe", "next") /\ todo = {}
  /\ Proceed("probe", IF CrawlEnabled THEN "crawl" ELSE "finish")
  /\ todo' = IF CrawlEnabled THEN crawlTargets ELSE {}
  /\ work' = IF CrawlEnabled THEN "next" ELSE "none"
  /\ CrawlUnchanged /\ UNCHANGED <<req, at, crawlTargets, skipped, crawled>>

-----------------------------------------------------------------------------
(* nativeCrawler.Crawl: breadth first, from the start path.                *)
PageLimit == IF MaxPages <= 0 THEN 1 ELSE MaxPages

StartCrawl(k) ==
  /\ Working("crawl", "next") /\ k \in todo
  /\ todo' = todo \ {k} /\ at' = k /\ work' = "loop"
  /\ queue' = <<[path |-> StartPath, depth |-> 0]>>
  /\ item' = NoItem /\ visited' = {} /\ pages' = <<>> /\ scripts' = {} /\ rows' = NoRows
  /\ Keep /\ UNCHANGED <<req, crawlTargets, skipped, crawled, routeRows, expired>>

AnyPath(path) == TRUE
Fresh(path) == path \notin visited

Crawling == Working("crawl", "loop")
More == queue # <<>> /\ Len(pages) < PageLimit

(* The context is looked at before each item; the crawl's error is logged, *)
(* and the target skipped.                                                 *)
CrawlCancelled ==
  /\ Crawling /\ More /\ ctx = "done"
  /\ work' = "next" /\ at' = NoService
  /\ Keep /\ CrawlUnchanged /\ UNCHANGED <<req, todo, crawlTargets, skipped, crawled>>

PassVisited ==
  /\ Crawling /\ More /\ ctx = "live" /\ ~Fresh(Head(queue).path)
  /\ queue' = Tail(queue)
  /\ Keep /\ UNCHANGED <<req, work, todo, at, crawlTargets, skipped, crawled, item, visited, pages,
                         scripts, rows, routeRows, expired>>

Visit ==
  /\ Crawling /\ More /\ ctx = "live" /\ Fresh(Head(queue).path)
  /\ item' = Head(queue) /\ queue' = Tail(queue)
  /\ visited' = visited \cup {Head(queue).path}
  /\ work' = "page" /\ req' = Fetch(at, 3, PinnedFor(HostOf(at)))
  /\ Keep /\ UNCHANGED <<todo, at, crawlTargets, skipped, crawled, pages, scripts, rows, routeRows,
                         expired>>

PageFailed ==
  /\ Working("crawl", "page") /\ req.state = "failed"
  /\ work' = "loop" /\ req' = Idle
  /\ Keep /\ CrawlUnchanged /\ UNCHANGED <<todo, at, crawlTargets, skipped, crawled>>

(* Links to the host that answered are kept, and queued by their path; the *)
(* limit counts what is queued and what was fetched.                       *)
Queued(q, done, found, depth) ==
  FoldLeft(LAMBDA r, l :
             IF ~Fresh(l.path) \/ Len(r) + done >= PageLimit THEN r
             ELSE Append(r, [path |-> l.path, depth |-> depth]),
           q, found)

PageFetched(answer) ==
  LET own   == Filtered(answer.links, {l \in Range(answer.links) : l.host = req.host})
      page  == [url |-> [host |-> HostOf(at), path |-> item.path, query |-> {}],
                depth |-> item.depth, links |-> own, forms |-> answer.forms,
                scripts |-> answer.scripts, json |-> answer.json, denied |-> answer.denied]
  IN /\ Working("crawl", "page") /\ req.state = "answered"
     /\ pages' = Append(pages, page)
     /\ queue' = IF item.depth >= MaxDepth THEN queue
                 ELSE Queued(queue, Len(pages) + 1, own, item.depth + 1)
     /\ work' = "loop" /\ req' = Idle
     /\ Keep /\ UNCHANGED <<todo, at, crawlTargets, skipped, crawled, item, visited, scripts, rows,
                            routeRows, expired>>

-----------------------------------------------------------------------------
(* The crawl is over: endpoints first, then the inputs of the three passes *)
(* that have an endpoint; an error of the store is one of the stage.       *)
Authenticated(k) == HasJar(HostOf(k)) \/ HasHeaders(HostOf(k))

AllRows ==
  [endpoints |-> Endpoints(pages), parameters |-> Parameters(pages),
   warnings |-> InputWarnings(pages)]

StoreCrawl ==
  /\ Crawling /\ ~More
  /\ expired' = (expired \/ (Authenticated(at) /\ \E p \in Range(pages) : p.denied))
  /\ \/ /\ StoreFails /\ WebAborts
        /\ \/ UNCHANGED rows
           \/ StoreWorks /\ rows' = [NoRows EXCEPT !.endpoints = Endpoints(pages)]
        /\ UNCHANGED scripts
     \/ /\ StoreWorks
        /\ rows' = AllRows
        /\ scripts' = UNION {{s \in Range(p.scripts) : s.host = HostOf(at)} : p \in Range(pages)}
        /\ work' = "scripts"
        /\ Keep /\ UNCHANGED <<req, at>>
  /\ UNCHANGED <<todo, crawlTargets, skipped, crawled, item, queue, visited, pages, routeRows>>

(* discoverJavaScriptTechnologies: each script of the same origin once.    *)
FetchScript(s) ==
  /\ Working("crawl", "scripts") /\ s \in scripts
  /\ scripts' = scripts \ {s}
  /\ work' = "script" /\ req' = Fetch(at, 3, Nobody)
  /\ Keep /\ UNCHANGED <<todo, at, crawlTargets, skipped, crawled, item, queue, visited, pages, rows,
                         routeRows, expired>>

ScriptSkipped ==
  /\ Working("crawl", "script") /\ req.state = "failed"
  /\ work' = "scripts" /\ req' = Idle
  /\ Keep /\ CrawlUnchanged /\ UNCHANGED <<todo, at, crawlTargets, skipped, crawled>>

(* Its routes, those to hosts the scope does not allow dropped.            *)
ScriptFetched ==
  /\ Working("crawl", "script") /\ req.state = "answered"
  /\ \/ /\ StoreWorks
        /\ routeRows' = routeRows \cup {h \in Routes : HostAllowed(h)}
        /\ work' = "scripts" /\ req' = Idle
        /\ Keep /\ UNCHANGED at
     \/ StoreFails /\ WebAborts /\ UNCHANGED routeRows
  /\ UNCHANGED <<todo, crawlTargets, skipped, crawled, item, queue, visited, pages, scripts, rows,
                 expired>>

EndCrawl ==
  /\ Working("crawl", "scripts") /\ scripts = {}
  /\ crawled' = crawled \cup {at}
  /\ work' = "next" /\ at' = NoService
  /\ Keep /\ CrawlUnchanged /\ UNCHANGED <<req, todo, crawlTargets, skipped>>

EndCrawls ==
  /\ Working("crawl", "next") /\ todo = {}
  /\ Proceed("crawl", "finish")
  /\ work' = "none"
  /\ CrawlUnchanged /\ UNCHANGED <<req, todo, at, crawlTargets, skipped, crawled>>

Answered == IF work = "page" THEN Site[item.path] ELSE {}

NextWeb ==
  \/ StartProbes \/ TryHTTP \/ NotHTTP \/ StoreProbe \/ EndProbes
  \/ \E k \in todo : StartProbe(k) \/ StartCrawl(k)
  \/ CrawlCancelled \/ PassVisited \/ Visit \/ PageFailed
  \/ \E answer \in Answered : PageFetched(answer)
  \/ StoreCrawl
  \/ \E s \in scripts : FetchScript(s)
  \/ ScriptSkipped \/ ScriptFetched \/ EndCrawl \/ EndCrawls

-----------------------------------------------------------------------------
WebTypeOK ==
  /\ work \in {"none", "next", "https", "http", "loop", "page", "scripts", "script"}
  /\ todo \cup crawlTargets \cup skipped \cup crawled \subseteq services
  /\ at \in services \cup {NoService}
  /\ \A i \in DOMAIN queue : queue[i].path \in DOMAIN Site /\ queue[i].depth \in 0 .. MaxDepth
  /\ visited \subseteq DOMAIN Site

(* A crawl fetches no path twice and no more pages than its limit, none    *)
(* deeper than its depth; every page but the start page was linked, on the *)
(* level above it, by a page fetched before.                               *)
CrawlIsTraversal ==
  /\ Len(pages) <= PageLimit
  /\ \A i, j \in DOMAIN pages : pages[i].url.path = pages[j].url.path => i = j
  /\ \A i \in DOMAIN pages :
       \/ pages[i].url.path = StartPath /\ pages[i].depth = 0
       \/ /\ pages[i].depth \in 1 .. MaxDepth
          /\ \E j \in 1 .. i - 1 :
               /\ pages[j].depth = pages[i].depth - 1
               /\ \E l \in Range(pages[j].links) : l.path = pages[i].url.path

(* Every input on the pages, read off them without any limit.              *)
AllInputs(p) ==
  {Candidate(Endpoint(p.url, "GET", "crawl"), "json", k) : k \in p.json}
    \cup (UNION {{Candidate(Endpoint(l, "GET", "link"), "query", n)
                    : n \in PathOf(l).query} : l \in Range(p.links)})
    \cup UNION {{Candidate(Endpoint(f.action, f.method, "form"),
                           IF f.method = "GET" THEN "query" ELSE "form", n)
                   : n \in Range(f.fields) \ {Unnamed}} : f \in Range(p.forms)}

(* The inputs stored for a crawl belong to endpoints stored for it, none   *)
(* found is dropped for want of its endpoint, and when a limit leaves one  *)
(* out there is a warning.                                                 *)
InputsAccountedFor ==
  /\ \A c \in rows.parameters : c.endpoint \in rows.endpoints
  /\ work = "scripts" =>
       /\ rows.parameters = Discovered(pages)
       /\ \/ UNION {AllInputs(p) : p \in Range(pages)} \subseteq rows.parameters
          \/ rows.warnings # {}
=============================================================================
