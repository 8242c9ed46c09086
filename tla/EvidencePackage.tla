-------------------------- MODULE EvidencePackage --------------------------
(* Evidence packages (src/internal/evidence): what is shown of a canonical *)
(* finding. Its items of evidence are read, cut to size and redacted, one  *)
(* more item tells how to reproduce it, and the package says what it       *)
(* lacks. Requests, observations and bodies are opaque: Reading(text) is   *)
(* what the text of an item says, and which of its parts are too long.     *)
EXTENDS Risk

CONSTANTS MaxPackaged,        \* items of a package (20)
          Reading(_),         \* what a text says; [json |-> FALSE, ...] if it is no JSON
          EvidenceDigest(_),  \* order of the digests of items
          Wordy               \* observations too long once what was expected is put before them

TypeRank == [BASELINE |-> 0, PROBE |-> 1, VERIFICATION |-> 3, REPRODUCTION |-> 4]

TypeForKind(kind) ==
  CASE kind = "baseline" -> "BASELINE" [] kind = "probe" -> "PROBE" [] OTHER -> "VERIFICATION"

NoRequest == [method |-> "", url |-> 0, value |-> 0, longURL |-> FALSE, longValue |-> FALSE,
              secret |-> FALSE]

(* An item, with what its digest, which is its id, covers. A content that  *)
(* is not JSON, as one that was cut short is, is only an observation.      *)
FromRaw(cf, item) ==
  LET raw == Reading(item.text)
      type == TypeForKind(item.kind)
  IN  IF ~raw.json
      THEN [type |-> type, request |-> NoRequest, body |-> 0, observation |-> item.text,
            verification |-> 0, cut |-> raw.longText]
      ELSE [type |-> type, body |-> raw.body, observation |-> raw.observation,
            verification |-> raw.reason,
            request |-> [raw.request EXCEPT !.method = IF @ = "" THEN cf.id.method ELSE @],
            cut |-> (raw.longBody /\ ~raw.binary) \/ raw.longObservation]

------------------------------------------------------------------------------
Verifications(items) == {i \in DOMAIN items : items[i].type = "VERIFICATION"}

(* How complete a reproduction is: FULL only if it names the request and   *)
(* the value, and nothing of it was cut or redacted.                       *)
Level(item, param) ==
  LET r == item.request
  IN  IF r.method = "" \/ r.url = 0 THEN "LIMITED"
      ELSE IF param = 0 \/ r.value = 0 THEN "PARTIAL"
      ELSE IF r.longValue \/ r.longURL \/ item.cut THEN "PARTIAL"
      ELSE IF r.secret THEN "PARTIAL"
      ELSE "FULL"

(* Reproduction data come from the first verification item of a sequence.  *)
ReproductionInfo(cf, items) ==
  IF Verifications(items) = {}
  THEN [request |-> NoRequest, observed |-> 0, level |-> "LIMITED"]
  ELSE LET v == items[Min(Verifications(items))]
       IN  [request |-> v.request, level |-> Level(v, cf.id.param),
            observed |-> IF v.verification # 0 THEN v.verification ELSE v.observation]

(* The same data as one more item, unless there is no request at all.  Its *)
(* observation is what was expected and what was observed, cut to size.    *)
ReproductionItems(cf, items) ==
  LET info == ReproductionInfo(cf, items)
  IN  IF info.request.method = "" /\ info.request.url = 0 THEN {}
      ELSE {[type |-> "REPRODUCTION", request |-> [info.request EXCEPT !.longURL = FALSE],
             body |-> 0, observation |-> info.observed, verification |-> 0,
             cut |-> info.observed \in Wordy]}

ItemOrder(a, b) ==
  \/ TypeRank[a.type] < TypeRank[b.type]
  \/ a.type = b.type /\ EvidenceDigest(a) < EvidenceDigest(b)

(* The reproduction is taken from the items as they come; then all are     *)
(* freed of duplicates, sorted by type and digest, and cut.                *)
BuildEvidence(cf) ==
  LET raw == [i \in DOMAIN cf.evidence |-> FromRaw(cf, cf.evidence[i])]
      sorted == Sorted(Range(raw) \cup ReproductionItems(cf, raw), ItemOrder)
  IN  SubSeq(sorted, 1, Min({Len(sorted), MaxPackaged}))

------------------------------------------------------------------------------
IsCut(item) == item.cut \/ item.request.longURL

(* The loop stops at the first item that was cut; what it says of the      *)
(* baseline is right because baselines come first.                         *)
Looked(items) ==
  LET cuts == {i \in DOMAIN items : IsCut(items[i])}
  IN  IF cuts = {} THEN DOMAIN items ELSE 1..Min(cuts)

LimitationsFor(items, info) ==
  {l \in {"truncated", "no baseline", "no differential", "incomplete reproduction"} :
     CASE l = "truncated" -> \E i \in DOMAIN items : IsCut(items[i])
     []   l = "no baseline" -> \A i \in Looked(items) : items[i].type # "BASELINE"
     []   l = "no differential" -> TRUE
     []   l = "incomplete reproduction" -> info.level # "FULL"}

BuildPackage(cf, assessment) ==
  LET items == BuildEvidence(cf)
      info == ReproductionInfo(cf, items)
  IN  [finding |-> cf, risk |-> assessment, evidence |-> items, reproduction |-> info,
       limitations |-> LimitationsFor(items, info)]
=============================================================================
