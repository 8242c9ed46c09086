-------------------------------- MODULE Policy --------------------------------
(***************************************************************************)
(* internal/policy: what a scan profile allows a scan to do.  Times are in *)
(* minutes.  Detection, verification and evidence go together in every     *)
(* profile: detect stands for the three.                                   *)
(***************************************************************************)
EXTENDS Integers

CONSTANTS
  CrawlerEnabled,  \* crawler.enabled of the configuration
  CrawlerMaxDepth, \* crawler.max_depth
  CrawlerMaxPages  \* crawler.max_pages

ASSUME PolicyAssumption ==
  /\ CrawlerEnabled \in BOOLEAN
  /\ CrawlerMaxDepth \in Nat /\ CrawlerMaxPages \in Int
  /\ CrawlerEnabled => CrawlerMaxPages > 0

(* builtinProfiles.  Only recon neither crawls nor detects.                *)
Builtin(crawl, depth, pages, detect, workers, scan, stage, perEndpoint, total) ==
  [crawl |-> crawl, depth |-> depth, pages |-> pages, detect |-> detect, workers |-> workers,
   scanTimeout |-> scan, stageTimeout |-> stage, perEndpoint |-> perEndpoint, total |-> total]

BuiltinProfiles ==
  [recon |-> Builtin(FALSE, 0, 0, FALSE, 1, 5, 2, 0, 0),
   web   |-> Builtin(TRUE, 2, 20, TRUE, 5, 10, 5, 100, 2000),
   deep  |-> Builtin(TRUE, 4, 75, TRUE, 10, 20, 10, 200, 5000)]

DefaultProfileName == "recon"
NoProfile == "" \* the flag is not given

Registered(name) == name \in DOMAIN BuiltinProfiles

(* legacyConfigPolicy: without a profile, a configuration that enables the *)
(* crawler gets the web profile with its own depth and number of pages.    *)
LegacyConfigPolicy ==
  [BuiltinProfiles["web"] EXCEPT !.depth = CrawlerMaxDepth, !.pages = CrawlerMaxPages]

(* Resolve.  The name is given, or there is a default.                     *)
Resolvable(name) == name = NoProfile \/ Registered(name)

Resolve(name) ==
  IF name # NoProfile THEN BuiltinProfiles[name]
  ELSE IF CrawlerEnabled THEN LegacyConfigPolicy
  ELSE BuiltinProfiles[DefaultProfileName]
===============================================================================
