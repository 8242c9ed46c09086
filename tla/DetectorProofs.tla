----------------------------- MODULE DetectorProofs -----------------------------
(***************************************************************************)
(* Proofs about DetectorRun, for any endpoints, cases and identities.      *)
(*                                                                         *)
(*   DetectorInvAlways      requests come from the detector's list in its  *)
(*                          order, and a call returned its verdict         *)
(*   HighConfidenceIsProof  []HighConfidenceShowsProof                     *)
(*   InertIsNotReported     []InertNeverReported                           *)
(*   ReactionsAreFound      []ReactionIsReported                           *)
(*                                                                         *)
(* A detector has up to five lemmas: XProbed what it has asked when it     *)
(* goes on to its end, XVerdictIs what its verdict amounts to, and XProof, *)
(* XQuiet and XReacts, its case of the three theorems.                     *)
(***************************************************************************)
EXTENDS DetectorRun, TLAPS, NaturalsInduction, WellFoundedInduction

-----------------------------------------------------------------------------
(* What a response can be: that of the endpoint, with the numbers or words *)
(* of its noise, or a failure that shows nothing.                          *)
Silent == [form |-> "none", of |-> "nothing"]

Fields == {"status", "type", "page", "echo", "place", "words", "digits", "marks"}

Failure(s, r) ==
  s.noise = "flaky" /\ r.status = "broken" /\ r.page = "failure" /\ r.marks = {} /\ r.echo = Silent
  /\ r.digits = 0

Answer(s, p, r) ==
  /\ r.status = Status(s, p) /\ r.page = Page(s, p)
  /\ r.echo = Echo(s, p) /\ r.marks = Marks(s, p)
  /\ s.noise # "words" => r.words = 0
  /\ s.noise # "digits" => r.digits = 0

LEMMA RegularFields ==
  ASSUME NEW s, NEW p
  PROVE  LET r == Regular(s, p) IN
         /\ r.status = Status(s, p) /\ r.page = Page(s, p)
         /\ r.echo = Echo(s, p) /\ r.marks = Marks(s, p)
         /\ r.words = 0 /\ r.digits = 0 /\ r.type = s.type /\ r.place = s.place
         /\ DOMAIN r = Fields
BY DEF Regular, Fields

LEMMA ResponseIs ==
  ASSUME NEW s \in Servers, NEW p, NEW r \in Responses(s, p)
  PROVE  /\ r.type = s.type /\ r.place = s.place /\ DOMAIN r = Fields
         /\ Failure(s, r) \/ Answer(s, p, r)
<1> DEFINE g == Regular(s, p)
<1>1. /\ g.status = Status(s, p) /\ g.page = Page(s, p)
      /\ g.echo = Echo(s, p) /\ g.marks = Marks(s, p)
      /\ g.words = 0 /\ g.digits = 0 /\ g.type = s.type /\ g.place = s.place
      /\ DOMAIN g = Fields
  BY RegularFields
<1>2. s.noise \in NoiseKinds
  BY DetectorAssumption
<1>3. CASE s.noise = "none"
  <2>1. r = g
    BY <1>3 DEF Responses
  <2> QED  BY <1>1, <1>3, <2>1 DEF Answer, Fields
<1>4. CASE s.noise = "digits"
  <2>1. PICK n \in 0 .. 1 : r = [g EXCEPT !.digits = n]
    BY <1>4 DEF Responses
  <2> HIDE DEF g
  <2> QED  BY <1>1, <1>4, <2>1 DEF Answer, Fields
<1>5. CASE s.noise = "words"
  <2>1. PICK n \in 0 .. 1 : r = [g EXCEPT !.words = n]
    BY <1>5 DEF Responses
  <2> HIDE DEF g
  <2> QED  BY <1>1, <1>5, <2>1 DEF Answer, Fields
<1>6. CASE s.noise = "flaky"
  <2>1. r = g \/ r = [g EXCEPT !.status = "broken", !.page = "failure", !.marks = {},
                               !.echo = [form |-> "none", of |-> "nothing"]]
    BY <1>6 DEF Responses
  <2> HIDE DEF g
  <2>2. CASE r = g
    BY <1>1, <1>6, <2>2 DEF Answer, Fields
  <2>3. CASE r = [g EXCEPT !.status = "broken", !.page = "failure", !.marks = {},
                           !.echo = [form |-> "none", of |-> "nothing"]]
    BY <1>1, <1>6, <2>3 DEF Failure, Silent, Fields
  <2> QED  BY <2>1, <2>2, <2>3
<1> QED  BY <1>2, <1>3, <1>4, <1>5, <1>6 DEF NoiseKinds

-----------------------------------------------------------------------------
(* The probes of a detector are a sequence, and the next one is the first  *)
(* of those that are still wanted.                                         *)
LEMMA ListIsSequence ==
  ASSUME NEW A, NEW n \in Nat, NEW t \in [1 .. n -> A]
  PROVE  t \in Seq(A) /\ Len(t) = n
OBVIOUS

LEMMA Joined ==
  ASSUME NEW A, NEW s \in Seq(A), NEW t \in Seq(A)
  PROVE  /\ s \o t \in Seq(A) /\ Len(s \o t) = Len(s) + Len(t)
         /\ \A i \in 1 .. Len(s) : (s \o t)[i] = s[i]
         /\ \A i \in 1 .. Len(t) : (s \o t)[Len(s) + i] = t[i]
         /\ \A i \in 1 .. Len(s \o t) :
              i \in 1 .. Len(s) \/ (\E j \in 1 .. Len(t) : i = Len(s) + j)
<1>1. s \o t \in Seq(A) /\ Len(s \o t) = Len(s) + Len(t)
  OBVIOUS
<1>2. \A i \in 1 .. Len(s) : (s \o t)[i] = s[i]
  OBVIOUS
<1>3. \A i \in 1 .. Len(t) : (s \o t)[Len(s) + i] = t[i]
  OBVIOUS
<1>4. ASSUME NEW i \in 1 .. Len(s \o t), i \notin 1 .. Len(s)
      PROVE  i - Len(s) \in 1 .. Len(t) /\ i = Len(s) + (i - Len(s))
  <2>1. Len(s) \in Nat /\ Len(t) \in Nat
    OBVIOUS
  <2> QED  BY <1>1, <1>4, <2>1
<1> QED  BY <1>1, <1>2, <1>3, <1>4

LEMMA FirstThen ==
  ASSUME NEW p, NEW m \in Nat, NEW A, NEW f \in [1 .. m -> A]
  PROVE  LET s == <<p>> \o f IN
         /\ Len(s) = m + 1 /\ DOMAIN s = 1 .. m + 1
         /\ s[1] = p /\ \A i \in 1 .. m : s[i + 1] = f[i]
<1> DEFINE B == A \cup {p}
<1>1. f \in Seq(B) /\ Len(f) = m
  <2>1. f \in [1 .. m -> B]
    OBVIOUS
  <2> QED  BY <2>1, ListIsSequence
<1>2. <<p>> \in Seq(B) /\ Len(<<p>>) = 1 /\ <<p>>[1] = p
  OBVIOUS
<1>3. /\ <<p>> \o f \in Seq(B) /\ Len(<<p>> \o f) = 1 + m
      /\ (<<p>> \o f)[1] = p
      /\ \A i \in 1 .. m : (<<p>> \o f)[1 + i] = f[i]
  BY <1>1, <1>2, Joined
<1>4. DOMAIN (<<p>> \o f) = 1 .. m + 1
  BY <1>3
<1> QED  BY <1>3, <1>4

(* CaseProbes, for the forms the two detectors have.                       *)
LEMMA CaseProbesAre ==
  ASSUME NEW forms \in {Forms, <<"raw">>}
  PROVE  \E m \in Nat : /\ DOMAIN CaseProbes(forms) = 1 .. m
                        /\ CaseProbes(forms) \in [1 .. m -> Range(CaseProbes(forms))]
                        /\ \A i \in 1 .. m : CaseProbes(forms)[i].what = "file"
<1> DEFINE m == Len(forms) * Len(Cases)
<1>1. Len(Cases) \in Nat
  BY DetectorAssumption
<1>2. Len(forms) \in {1, 4}
  BY DEF Forms
<1>3. m \in Nat
  BY <1>1, <1>2
<1>4. CaseProbes(forms) = [i \in 1 .. m |-> CaseProbe(Cases[((i - 1) \div Len(forms)) + 1],
                                                    forms[((i - 1) % Len(forms)) + 1])]
  BY DEF CaseProbes
<1>5. \A c, form : CaseProbe(c, form).what = "file"
  BY DEF CaseProbe, Request
<1> HIDE DEF m
<1>6. DOMAIN CaseProbes(forms) = 1 .. m
  BY <1>4
<1>7. \A i \in 1 .. m : CaseProbes(forms)[i].what = "file"
  BY <1>4, <1>5
<1>8. CaseProbes(forms) \in [1 .. m -> Range(CaseProbes(forms))]
  BY <1>4, <1>6 DEF Range
<1> QED  BY <1>3, <1>6, <1>7, <1>8

(* What each detector sends, in its order.                                 *)
IsList(s, n) == n \in Nat /\ DOMAIN s = 1 .. n /\ Len(s) = n

LEMMA IDORProbesAre ==
  /\ IsList(IDORProbes, Len(Contexts)) /\ Len(Contexts) >= 2
  /\ IDORProbes[1] = Owner
  /\ \A i \in 2 .. Len(Contexts) : IDORProbes[i] = AsIdentity(Contexts[i], "legit")
<1> DEFINE m == Len(Contexts) - 1
           A == {AsIdentity(Contexts[i], "legit") : i \in 2 .. Len(Contexts)}
<1>1. m \in Nat /\ m + 1 = Len(Contexts) /\ Len(Contexts) >= 2
  BY DetectorAssumption
<1>2. Others \in [1 .. m -> A] /\ \A i \in 1 .. m : Others[i] = AsIdentity(Contexts[i + 1], "legit")
  BY <1>1 DEF Others
<1> HIDE DEF m, A
<1>3. /\ Len(IDORProbes) = m + 1 /\ DOMAIN IDORProbes = 1 .. m + 1
      /\ IDORProbes[1] = Owner /\ \A i \in 1 .. m : IDORProbes[i + 1] = Others[i]
  BY <1>1, <1>2, FirstThen DEF IDORProbes
<1>4. ASSUME NEW i \in 2 .. Len(Contexts)
      PROVE  IDORProbes[i] = AsIdentity(Contexts[i], "legit")
  <2>1. i - 1 \in 1 .. m /\ (i - 1) + 1 = i
    BY <1>1
  <2> QED  BY <1>2, <1>3, <2>1
<1> QED  BY <1>1, <1>3, <1>4 DEF IsList

LEMMA CommandProbesAre ==
  ASSUME NEW variants \in {CommandVariants, ActiveVariants}
  PROVE  /\ IsList(CommandProbes(variants), Len(variants) + 1)
         /\ CommandProbes(variants)[1] = Value("legit")
         /\ \A i \in 1 .. Len(variants) :
              CommandProbes(variants)[i + 1] = Variant("shell", variants[i])
<1> DEFINE f == [i \in 1 .. Len(variants) |-> Variant("shell", variants[i])]
           A == {Variant("shell", variants[i]) : i \in 1 .. Len(variants)}
<1>1. Len(variants) \in Nat
  BY DEF CommandVariants, ActiveVariants
<1>2. f \in [1 .. Len(variants) -> A]
  OBVIOUS
<1>3. CommandProbes(variants) = <<Value("legit")>> \o f
  BY DEF CommandProbes
<1>4. \A i \in 1 .. Len(variants) : f[i] = Variant("shell", variants[i])
  OBVIOUS
<1> HIDE DEF f, A
<1> QED  BY <1>1, <1>2, <1>3, <1>4, FirstThen DEF IsList

LEMMA RedirectProbesAre ==
  ASSUME NEW location
  PROVE  LET forms == RedirectForms(location) IN
         /\ IsList(RedirectProbes(location), Len(forms) + 1)
         /\ RedirectProbes(location)[1] = Value("legit")
         /\ \A i \in 1 .. Len(forms) :
              RedirectProbes(location)[i + 1] = Variant("redirect", forms[i])
<1> DEFINE forms == RedirectForms(location)
           f == [i \in 1 .. Len(forms) |-> Variant("redirect", forms[i])]
           A == {Variant("redirect", forms[i]) : i \in 1 .. Len(forms)}
<1>1. Len(forms) \in Nat
  BY DEF RedirectForms
<1>2. f \in [1 .. Len(forms) -> A]
  OBVIOUS
<1>3. RedirectProbes(location) = <<Value("legit")>> \o f
  BY DEF RedirectProbes
<1>4. \A i \in 1 .. Len(forms) : f[i] = Variant("redirect", forms[i])
  OBVIOUS
<1> HIDE DEF f, A, forms
<1>5. /\ IsList(RedirectProbes(location), Len(forms) + 1)
      /\ RedirectProbes(location)[1] = Value("legit")
      /\ \A i \in 1 .. Len(forms) : RedirectProbes(location)[i + 1] = Variant("redirect", forms[i])
  BY <1>1, <1>2, <1>3, <1>4, FirstThen DEF IsList
<1> QED  BY <1>5 DEF forms

LEMMA SSTIProbesAre ==
  /\ IsList(SSTIProbes, Len(Syntaxes) + 1)
  /\ SSTIProbes[1] = Value("legit")
  /\ \A i \in 1 .. Len(Syntaxes) : SSTIProbes[i + 1] = Variant("template", Syntaxes[i])
<1> DEFINE f == [i \in 1 .. Len(Syntaxes) |-> Variant("template", Syntaxes[i])]
           A == {Variant("template", Syntaxes[i]) : i \in 1 .. Len(Syntaxes)}
<1>1. Len(Syntaxes) \in Nat
  BY DEF Syntaxes
<1>2. f \in [1 .. Len(Syntaxes) -> A]
  OBVIOUS
<1>3. SSTIProbes = <<Value("legit")>> \o f
  BY DEF SSTIProbes
<1>4. \A i \in 1 .. Len(Syntaxes) : f[i] = Variant("template", Syntaxes[i])
  OBVIOUS
<1> HIDE DEF f, A
<1> QED  BY <1>1, <1>2, <1>3, <1>4, FirstThen DEF IsList

LEMMA TraversalActiveProbesAre ==
  ASSUME NEW location
  PROVE  \E n \in Nat :
           /\ IsList(TraversalActiveProbes(location), n + 1)
           /\ TraversalActiveProbes(location)[1] = Value("legit")
           /\ \A i \in 1 .. n : TraversalActiveProbes(location)[i + 1].what = "file"
<1> DEFINE f == CaseProbes(ActiveForms(location))
<1>1. ActiveForms(location) \in {Forms, <<"raw">>}
  BY DEF ActiveForms
<1>2. PICK n \in Nat : f \in [1 .. n -> Range(f)] /\ \A i \in 1 .. n : f[i].what = "file"
  BY <1>1, CaseProbesAre
<1> HIDE DEF f
<1>3. TraversalActiveProbes(location) = <<Value("legit")>> \o f
  BY DEF TraversalActiveProbes, f
<1> QED  BY <1>2, <1>3, FirstThen DEF IsList

LEMMA TwoThen ==
  ASSUME NEW p, NEW q, NEW m \in Nat, NEW A, NEW f \in [1 .. m -> A]
  PROVE  LET s == <<p, q>> \o f IN
         /\ Len(s) = m + 2 /\ DOMAIN s = 1 .. m + 2
         /\ s[1] = p /\ s[2] = q /\ \A i \in 1 .. m : s[i + 2] = f[i]
<1> DEFINE B == A \cup {p, q}
<1>1. f \in Seq(B) /\ Len(f) = m
  <2>1. f \in [1 .. m -> B]
    OBVIOUS
  <2> QED  BY <2>1, ListIsSequence
<1>2. <<p, q>> \in Seq(B) /\ Len(<<p, q>>) = 2 /\ <<p, q>>[1] = p /\ <<p, q>>[2] = q
  OBVIOUS
<1>3. /\ <<p, q>> \o f \in Seq(B) /\ Len(<<p, q>> \o f) = 2 + m
      /\ (<<p, q>> \o f)[1] = p /\ (<<p, q>> \o f)[2] = q
      /\ \A i \in 1 .. m : (<<p, q>> \o f)[2 + i] = f[i]
  BY <1>1, <1>2, Joined
<1>4. DOMAIN (<<p, q>> \o f) = 1 .. m + 2
  BY <1>3
<1> QED  BY <1>3, <1>4

LEMMA TraversalProbesAre ==
  \E n \in Nat :
    /\ IsList(TraversalProbes, n + 2)
    /\ TraversalProbes[1] = Value("legit") /\ TraversalProbes[2] = Value("missing")
    /\ \A i \in 1 .. n : TraversalProbes[i + 2].what = "file"
<1> DEFINE f == CaseProbes(Forms)
<1>1. PICK n \in Nat : f \in [1 .. n -> Range(f)] /\ \A i \in 1 .. n : f[i].what = "file"
  BY CaseProbesAre
<1> HIDE DEF f
<1>2. TraversalProbes = <<Value("legit"), Value("missing")>> \o f
  BY DEF TraversalProbes, f
<1> QED  BY <1>1, <1>2, TwoThen DEF IsList

-----------------------------------------------------------------------------
Kinds == Passive \cup Active

LEMMA ProbesAreList ==
  ASSUME detector \in Kinds
  PROVE  \E n \in Nat \ {0} : IsList(Probes, n)
<1>1. /\ IsList(XSSProbes, 3) /\ IsList(SqliProbes, 4) /\ IsList(SSRFProbes, 2)
      /\ IsList(XSSActiveProbes, 2) /\ IsList(IDORActiveProbes, 3)
  BY DEF IsList, XSSProbes, SqliProbes, SSRFProbes, XSSActiveProbes, IDORActiveProbes
<1>2. /\ IsList(CommandProbes(CommandVariants), 4)
      /\ IsList(CommandProbes(ActiveVariants), 5)
  <2>1. Len(CommandVariants) = 3 /\ Len(ActiveVariants) = 4
    BY DEF CommandVariants, ActiveVariants
  <2>2. /\ IsList(CommandProbes(CommandVariants), Len(CommandVariants) + 1)
        /\ IsList(CommandProbes(ActiveVariants), Len(ActiveVariants) + 1)
    BY CommandProbesAre
  <2>3. 3 + 1 = 4 /\ 4 + 1 = 5
    OBVIOUS
  <2> HIDE DEF IsList
  <2> QED  BY <2>1, <2>2, <2>3
<1>3. IsList(SSTIProbes, 5)
  <2>1. Len(Syntaxes) = 4
    BY DEF Syntaxes
  <2> QED  BY <2>1, SSTIProbesAre
<1>4. \E n \in Nat \ {0} : IsList(RedirectProbes(target.location), n)
  <2>1. Len(RedirectForms(target.location)) \in Nat
    BY DEF RedirectForms
  <2>2. Len(RedirectForms(target.location)) + 1 \in Nat \ {0}
    BY <2>1
  <2> QED  BY <2>2, RedirectProbesAre
<1>5. \E n \in Nat \ {0} : IsList(TraversalActiveProbes(target.location), n)
  <2>1. PICK n \in Nat : IsList(TraversalActiveProbes(target.location), n + 1)
    BY TraversalActiveProbesAre
  <2>2. n + 1 \in Nat \ {0}
    OBVIOUS
  <2> QED  BY <2>1, <2>2
<1>6. \E n \in Nat \ {0} : IsList(TraversalProbes, n)
  <2>1. PICK n \in Nat : IsList(TraversalProbes, n + 2)
    BY TraversalProbesAre
  <2>2. n + 2 \in Nat \ {0}
    OBVIOUS
  <2> QED  BY <2>1, <2>2
<1>7. \E n \in Nat \ {0} : IsList(IDORProbes, n)
  <2>1. Len(Contexts) \in Nat /\ Len(Contexts) >= 2
    BY DetectorAssumption
  <2>2. Len(Contexts) \in Nat \ {0}
    BY <2>1
  <2> QED  BY <2>2, IDORProbesAre
<1>8. \E n \in Nat \ {0} : IsList(SSRFActiveProbes, n)
  <2>1. IsList(SSRFActiveProbes, 3) \/ IsList(SSRFActiveProbes, 2)
    BY DEF IsList, SSRFActiveProbes
  <2> QED  BY <2>1
<1> HIDE DEF IsList
<1>9. detector \in {"xssreflected", "sqli", "ssrf", "idor", "traversal", "cmdinjection",
                    "xssactive", "sqliactive", "cmdinjectionactive", "idoractive",
                    "openredirectactive", "ssrfactive", "sstiactive", "traversalactive"}
  BY DEF Kinds, Passive, Active
<1> QED  BY <1>1, <1>2, <1>3, <1>4, <1>5, <1>6, <1>7, <1>8, <1>9 DEF Probes

LEMMA LeastOf ==
  ASSUME NEW T, T \subseteq Nat, T # {}
  PROVE  \E x \in T : \A y \in T : x <= y
<1>1. PICK x \in T : \A y \in T : ~ (<<y, x>> \in OpToRel(<,Nat))
  BY NatLessThanWellFounded, WFMin
<1>2. \A y \in T : ~ (y < x)
  BY <1>1 DEF OpToRel
<1> QED  BY <1>2

(* The probes that are asked when their turn comes: all before it have     *)
(* their answers, or belong to a case that is proven.                      *)
Settled(i) ==
  Got(answers, Probes[i]) \/ (detector = "traversal" /\ Proven(answers, Probes[i]))

LEMMA NextIs ==
  ASSUME detector \in Kinds, Todo # {}
  PROVE  /\ GoesOn
         /\ \E i \in DOMAIN Probes :
              /\ NextProbe = Probes[i] /\ ~Got(answers, Probes[i])
              /\ \A j \in DOMAIN Probes : j < i => Settled(j)
<1> DEFINE todo == Todo
<1>1. PICK n \in Nat \ {0} : DOMAIN Probes = 1 .. n
  BY ProbesAreList DEF IsList
<1>2. /\ GoesOn
      /\ todo = {i \in DOMAIN Probes : ~Settled(i)}
  BY DEF Todo, Settled
<1>3. todo \subseteq Nat /\ todo # {}
  BY <1>1, <1>2
<1>4. NextProbe = Probes[CHOOSE i \in todo : \A j \in todo : i <= j]
  BY DEF NextProbe
<1> HIDE DEF todo
<1>5. \E i \in todo : \A j \in todo : i <= j
  BY <1>3, LeastOf
<1>6. PICK i \in todo : NextProbe = Probes[i] /\ \A j \in todo : i <= j
  BY <1>4, <1>5
<1>7. i \in DOMAIN Probes /\ ~Got(answers, Probes[i])
  BY <1>2, <1>6 DEF Settled
<1>8. \A j \in DOMAIN Probes : j < i => Settled(j)
  <2> TAKE j \in DOMAIN Probes
  <2> HAVE j < i
  <2>1. j \in Nat /\ i \in Nat
    BY <1>1, <1>3
  <2>2. j \notin todo
    BY <1>6, <2>1
  <2> QED  BY <1>2, <2>2
<1> QED  BY <1>2, <1>6, <1>7, <1>8

LEMMA AllSettled ==
  ASSUME Todo = {}, GoesOn
  PROVE  \A i \in DOMAIN Probes : Settled(i)
BY DEF Todo, Settled

-----------------------------------------------------------------------------
(* The requests of a call come from its list, in its order, and what it    *)
(* returned is what it would return now.                                   *)
AskedProbes ==
  \A p \in DOMAIN answers : p \in Range(Probes) /\ answers[p] \in Responses(server, p)

FirstAsked == DOMAIN answers # {} => Got(answers, Probes[1])

(* What has been decided before a request was made.                        *)
XSSInOrder ==
  Got(answers, Value("script")) =>
    /\ Got(answers, Value("markup")) /\ Intact(answers[Value("markup")])
    /\ ClassifyContext(answers[Value("marker")]) # "unknown"

IDORInOrder == \A p \in DOMAIN answers \ {Owner} : Got(answers, Owner) /\ IDORGoesOn(answers)

IDORActiveInOrder ==
  /\ Got(answers, Cross) => SuccessfulObject(answers[Value("legit")])
  /\ Got(answers, KnownBad) => Got(answers, Cross) /\ SuccessfulObject(answers[Cross])

TraversalInOrder == Asked(answers, "file") # {} => Got(answers, Value("missing"))

InOrder ==
  /\ detector = "xssreflected" => XSSInOrder
  /\ detector = "idor" => IDORInOrder
  /\ detector = "idoractive" => IDORActiveInOrder
  /\ detector = "traversal" => TraversalInOrder

Callbacks ==
  /\ observed => called
  /\ called => server.reacts = "fetch"
  /\ waiting => result = Result("running")

Returned ==
  \/ result \in {Result("running"), Result("error")}
  \/ ~configured /\ result = Skipped
  \/ configured /\ Todo = {} /\ result = Verdict

DetectorInv ==
  /\ detector \in Kinds /\ server \in Servers
  /\ observed \in BOOLEAN /\ called \in BOOLEAN
  /\ AskedProbes /\ FirstAsked /\ InOrder /\ Callbacks /\ Returned

(* What a step that answers nothing leaves as it is.                       *)
LEMMA SameAnswers ==
  ASSUME UNCHANGED <<detector, target, answers>>
  PROVE  /\ Probes' = Probes /\ GoesOn' = GoesOn /\ Todo' = Todo
         /\ observed' = observed => Verdict' = Verdict
<1>1. Probes' = Probes
  BY DEF Probes
<1>2. GoesOn' = GoesOn
  BY DEF GoesOn
<1>3. Todo' = Todo
  BY <1>1, <1>2 DEF Todo
<1>4. observed' = observed => Verdict' = Verdict
  BY DEF Verdict
<1> QED  BY <1>1, <1>2, <1>3, <1>4

LEMMA OrderKept ==
  ASSUME UNCHANGED <<detector, server, target, answers>>, AskedProbes, FirstAsked, InOrder
  PROVE  AskedProbes' /\ FirstAsked' /\ InOrder'
<1>1. Probes' = Probes
  BY SameAnswers
<1>2. AskedProbes' /\ FirstAsked'
  BY <1>1 DEF AskedProbes, FirstAsked
<1>3. InOrder'
  BY DEF InOrder, XSSInOrder, IDORInOrder, IDORActiveInOrder, TraversalInOrder
<1> QED  BY <1>2, <1>3

(* A request is the first that is wanted, and changes no earlier answer.   *)
LEMMA NextAnswer ==
  ASSUME DetectorInv, Probe
  PROVE  /\ Probes' = Probes /\ GoesOn
         /\ UNCHANGED <<detector, server, target, called, observed>>
         /\ \E i \in DOMAIN Probes : \E r \in Responses(server, Probes[i]) :
              /\ Probes[i] \notin DOMAIN answers
              /\ DOMAIN answers' = DOMAIN answers \cup {Probes[i]}
              /\ answers'[Probes[i]] = r
              /\ \A p \in DOMAIN answers : answers'[p] = answers[p]
              /\ \A j \in DOMAIN Probes : j < i => Settled(j)
<1>1. detector \in Kinds /\ Todo # {}
  BY DEF DetectorInv, Probe
<1>2. /\ GoesOn
      /\ \E i \in DOMAIN Probes :
           /\ NextProbe = Probes[i] /\ ~Got(answers, Probes[i])
           /\ \A j \in DOMAIN Probes : j < i => Settled(j)
  BY <1>1, NextIs
<1>3. PICK i \in DOMAIN Probes :
           /\ NextProbe = Probes[i] /\ ~Got(answers, Probes[i])
           /\ \A j \in DOMAIN Probes : j < i => Settled(j)
  BY <1>2
<1>4. PICK r \in Responses(server, NextProbe) :
           answers' = [p \in DOMAIN answers \cup {NextProbe} |->
                         IF p = NextProbe THEN r ELSE answers[p]]
  BY DEF Probe
<1>5. UNCHANGED <<detector, server, target, called, observed>>
  BY DEF Probe
<1>6. Probes' = Probes
  BY <1>5 DEF Probes
<1>7. r \in Responses(server, Probes[i]) /\ Probes[i] \notin DOMAIN answers
  BY <1>3, <1>4 DEF Got
<1>8. /\ DOMAIN answers' = DOMAIN answers \cup {Probes[i]}
      /\ answers'[Probes[i]] = r
      /\ \A p \in DOMAIN answers : answers'[p] = answers[p]
  BY <1>3, <1>4, <1>7
<1> QED  BY <1>2, <1>3, <1>5, <1>6, <1>7, <1>8

LEMMA AskedKept ==
  ASSUME DetectorInv, Probe
  PROVE  AskedProbes' /\ FirstAsked'
<1>1. /\ Probes' = Probes /\ server' = server
      /\ \E i \in DOMAIN Probes : \E r \in Responses(server, Probes[i]) :
           /\ DOMAIN answers' = DOMAIN answers \cup {Probes[i]}
           /\ answers'[Probes[i]] = r
           /\ \A p \in DOMAIN answers : answers'[p] = answers[p]
           /\ \A j \in DOMAIN Probes : j < i => Settled(j)
  BY NextAnswer
<1>2. PICK i \in DOMAIN Probes : \E r \in Responses(server, Probes[i]) :
           /\ DOMAIN answers' = DOMAIN answers \cup {Probes[i]}
           /\ answers'[Probes[i]] = r
           /\ \A p \in DOMAIN answers : answers'[p] = answers[p]
           /\ \A j \in DOMAIN Probes : j < i => Settled(j)
  BY <1>1
<1>3. AskedProbes'
  BY <1>1, <1>2 DEF DetectorInv, AskedProbes, Range
<1>4. FirstAsked'
  <2>1. CASE DOMAIN answers # {}
    BY <1>1, <1>2, <2>1 DEF DetectorInv, FirstAsked, Got
  <2>2. CASE DOMAIN answers = {}
    <3>1. \A j \in DOMAIN Probes : ~Settled(j)
      BY <2>2 DEF Settled, Got, Proven, Confirmed, Asked
    <3>2. PICK n \in Nat \ {0} : DOMAIN Probes = 1 .. n
      BY ProbesAreList DEF DetectorInv, IsList
    <3>3. i = 1
      BY <1>2, <3>1, <3>2
    <3> QED  BY <1>1, <1>2, <3>3 DEF FirstAsked, Got
  <2> QED  BY <2>1, <2>2
<1> QED  BY <1>3, <1>4

LEMMA OrderOfProbe ==
  ASSUME DetectorInv, Probe
  PROVE  InOrder'
<1>1. /\ GoesOn /\ detector' = detector
      /\ \E i \in DOMAIN Probes : \E r \in Responses(server, Probes[i]) :
           /\ Probes[i] \notin DOMAIN answers
           /\ DOMAIN answers' = DOMAIN answers \cup {Probes[i]}
           /\ answers'[Probes[i]] = r
           /\ \A p \in DOMAIN answers : answers'[p] = answers[p]
           /\ \A j \in DOMAIN Probes : j < i => Settled(j)
  BY NextAnswer
<1>2. PICK i \in DOMAIN Probes :
           /\ Probes[i] \notin DOMAIN answers
           /\ DOMAIN answers' = DOMAIN answers \cup {Probes[i]}
           /\ \A p \in DOMAIN answers : answers'[p] = answers[p]
           /\ \A j \in DOMAIN Probes : j < i => Settled(j)
  BY <1>1
<1>3. FirstAsked /\ InOrder
  BY DEF DetectorInv
<1>4. ASSUME detector = "xssreflected"
      PROVE  XSSInOrder'
  <2>1. Probes = <<Value("marker"), Value("markup"), Value("script")>>
    BY <1>4 DEF Probes, XSSProbes
  <2>2. /\ Value("marker") # Value("markup") /\ Value("marker") # Value("script")
        /\ Value("markup") # Value("script")
    BY DEF Value, Request
  <2>3. XSSInOrder /\ XSSGoesOn(answers)
    BY <1>1, <1>3, <1>4 DEF InOrder, GoesOn
  <2>4. DOMAIN answers # {} => Got(answers, Value("marker"))
    BY <1>3, <2>1 DEF FirstAsked
  <2>5. ASSUME Probes[i] = Value("script")
        PROVE  Got(answers, Value("markup")) /\ Got(answers, Value("marker"))
    <3>1. i = 3 /\ 1 \in DOMAIN Probes /\ 2 \in DOMAIN Probes
      BY <2>1, <2>2, <2>5
    <3>2. Settled(1) /\ Settled(2)
      BY <1>2, <3>1
    <3> QED  BY <1>4, <2>1, <3>2 DEF Settled
  <2> HIDE DEF Got
  <2>6. CASE Probes[i] = Value("script")
    BY <1>2, <2>2, <2>3, <2>5, <2>6 DEF XSSInOrder, XSSGoesOn, Got
  <2>7. CASE Probes[i] # Value("script")
    BY <1>2, <2>3, <2>4, <2>7 DEF XSSInOrder, Got
  <2> QED  BY <2>6, <2>7
<1>5. ASSUME detector = "idor"
      PROVE  IDORInOrder'
  <2>1. Probes = IDORProbes /\ Probes[1] = Owner /\ 1 \in DOMAIN Probes
    BY <1>5, IDORProbesAre, ProbesAreList DEF Probes, IsList, DetectorInv
  <2>2. IDORInOrder /\ IDORGoesOn(answers)
    BY <1>1, <1>3, <1>5 DEF InOrder, GoesOn
  <2>3. CASE Probes[i] = Owner
    BY <1>2, <1>3, <2>1, <2>3 DEF IDORInOrder, FirstAsked, Got
  <2>4. CASE Probes[i] # Owner
    <3>1. 1 < i
      BY <2>1, <2>4, ProbesAreList DEF IsList, DetectorInv
    <3>2. Got(answers, Owner)
      BY <1>2, <1>5, <2>1, <3>1 DEF Settled
    <3> QED  BY <1>2, <2>2, <3>2 DEF IDORInOrder, IDORGoesOn, Got
  <2> QED  BY <2>3, <2>4
<1>6. ASSUME detector = "idoractive"
      PROVE  IDORActiveInOrder'
  <2>1. Probes = <<Value("legit"), Cross, KnownBad>>
    BY <1>6 DEF Probes, IDORActiveProbes
  <2>2. Value("legit") # Cross /\ Value("legit") # KnownBad /\ Cross # KnownBad
    <3>1. /\ Value("legit").what = "legit" /\ Value("legit").as = "scan"
          /\ Cross.what = "legit" /\ Cross.as = CompareIdentity
          /\ KnownBad.what = "missing"
      BY DEF Value, Request, Cross, KnownBad, AsIdentity
    <3> QED  BY <3>1, DetectorAssumption
  <2>3. IDORActiveInOrder /\ IDORActiveGoesOn(answers)
    BY <1>1, <1>3, <1>6 DEF InOrder, GoesOn
  <2>4. DOMAIN answers # {} => Got(answers, Value("legit"))
    BY <1>3, <2>1 DEF FirstAsked
  <2>5. CASE i = 1
    <3>1. Probes[i] = Value("legit") /\ DOMAIN answers = {}
      BY <1>2, <2>1, <2>4, <2>5 DEF Got
    <3> QED  BY <1>2, <2>2, <3>1 DEF IDORActiveInOrder, Got
  <2>6. CASE i = 2
    <3>1. Probes[i] = Cross /\ Settled(1)
      BY <1>2, <2>1, <2>6
    <3>2. Got(answers, Value("legit"))
      BY <1>6, <2>1, <3>1 DEF Settled
    <3> QED  BY <1>2, <2>2, <2>3, <3>1, <3>2 DEF IDORActiveInOrder, IDORActiveGoesOn, Got
  <2>7. CASE i = 3
    <3>1. Probes[i] = KnownBad /\ Settled(1) /\ Settled(2)
      BY <1>2, <2>1, <2>7
    <3>2. Got(answers, Value("legit")) /\ Got(answers, Cross)
      BY <1>6, <2>1, <3>1 DEF Settled
    <3> QED  BY <1>2, <2>2, <2>3, <3>1, <3>2 DEF IDORActiveInOrder, IDORActiveGoesOn, Got
  <2> QED  BY <2>1, <2>5, <2>6, <2>7
<1>7. ASSUME detector = "traversal"
      PROVE  TraversalInOrder'
  <2>1. Probes = TraversalProbes
    BY <1>7 DEF Probes
  <2>2. PICK n \in Nat :
          /\ DOMAIN Probes = 1 .. n + 2
          /\ Probes[1] = Value("legit") /\ Probes[2] = Value("missing")
    BY <2>1, TraversalProbesAre DEF IsList
  <2>3. TraversalInOrder
    BY <1>3, <1>7 DEF InOrder
  <2>4. CASE Got(answers, Value("missing"))
    BY <1>2, <2>4 DEF TraversalInOrder, Got
  <2>5. CASE ~Got(answers, Value("missing"))
    <3>1. Asked(answers, "file") = {}
      BY <2>3, <2>5 DEF TraversalInOrder
    <3>2. ~Settled(2)
      BY <2>2, <2>5, <3>1 DEF Settled, Proven, Confirmed
    <3>3. i \in {1, 2}
      BY <1>2, <2>2, <3>2
    <3>4. Probes[i] \in {Value("legit"), Value("missing")}
      BY <2>2, <3>3
    <3>5. Probes[i].what # "file"
      BY <3>4 DEF Value, Request
    <3> QED  BY <1>2, <3>1, <3>5 DEF TraversalInOrder, Asked
  <2> QED  BY <2>4, <2>5
<1> QED  BY <1>1, <1>4, <1>5, <1>6, <1>7 DEF InOrder

LEMMA DetectorInvInit == Init => DetectorInv
<1> SUFFICES ASSUME Init PROVE DetectorInv
  OBVIOUS
<1>1. detector \in Kinds /\ server \in Servers
  BY DetectorAssumption DEF Init, Kinds
<1>2. DOMAIN answers = {}
  BY DEF Init
<1>3. AskedProbes /\ FirstAsked /\ InOrder
  BY <1>2 DEF AskedProbes, FirstAsked, InOrder, XSSInOrder, IDORInOrder, IDORActiveInOrder,
     TraversalInOrder, Asked, Got
<1>4. Callbacks /\ Returned /\ observed \in BOOLEAN /\ called \in BOOLEAN
  BY DEF Init, Callbacks, Returned
<1> QED  BY <1>1, <1>3, <1>4 DEF DetectorInv

LEMMA DetectorInvStep ==
  ASSUME DetectorInv, [Next]_vars
  PROVE  DetectorInv'
<1>1. /\ detector \in Kinds /\ server \in Servers
      /\ observed \in BOOLEAN /\ called \in BOOLEAN
      /\ AskedProbes /\ FirstAsked /\ InOrder /\ Callbacks /\ Returned
  BY DEF DetectorInv
<1>3. CASE Probe
  <2>1. AskedProbes' /\ FirstAsked' /\ InOrder'
    BY <1>3, AskedKept, OrderOfProbe
  <2>2. UNCHANGED <<detector, server, called, observed, result>> /\ result = Result("running")
    BY <1>3 DEF Probe, Running
  <2>3. Callbacks' /\ Returned'
    BY <1>1, <2>2 DEF Callbacks, Returned
  <2> QED  BY <1>1, <2>1, <2>2, <2>3 DEF DetectorInv
<1>4. CASE Fail
  <2>1. UNCHANGED <<detector, server, target, answers, called, observed>>
    BY <1>4 DEF Fail
  <2>2. AskedProbes' /\ FirstAsked' /\ InOrder'
    BY <1>1, <2>1, OrderKept
  <2>3. Callbacks' /\ Returned'
    BY <1>1, <1>4 DEF Fail, Callbacks, Returned
  <2> QED  BY <1>1, <2>1, <2>2, <2>3 DEF DetectorInv
<1>5. CASE Call
  <2>1. UNCHANGED <<detector, server, target, configured, answers, waiting, observed, result>>
        /\ called' = TRUE /\ server.reacts = "fetch"
    BY <1>5 DEF Call
  <2>2. AskedProbes' /\ FirstAsked' /\ InOrder'
    BY <1>1, <2>1, OrderKept
  <2>3. Todo' = Todo /\ Verdict' = Verdict
    BY <2>1, SameAnswers
  <2>4. Callbacks' /\ Returned'
    BY <1>1, <2>1, <2>3 DEF Callbacks, Returned
  <2> QED  BY <1>1, <2>1, <2>2, <2>4 DEF DetectorInv
<1>6. CASE Poll
  <2>1. UNCHANGED <<detector, server, target, answers, called, result>> /\ waiting
        /\ waiting' = FALSE /\ observed' = called
    BY <1>6 DEF Poll
  <2>2. AskedProbes' /\ FirstAsked' /\ InOrder'
    BY <1>1, <2>1, OrderKept
  <2>3. Callbacks' /\ Returned'
    BY <1>1, <2>1 DEF Callbacks, Returned
  <2> QED  BY <1>1, <2>1, <2>2, <2>3 DEF DetectorInv
<1>7. CASE Conclude
  <2>1. UNCHANGED <<detector, server, target, configured, answers, waiting, called, observed>>
        /\ ~waiting
    BY <1>7 DEF Conclude, Running
  <2>2. AskedProbes' /\ FirstAsked' /\ InOrder'
    BY <1>1, <2>1, OrderKept
  <2>3. Todo' = Todo /\ Verdict' = Verdict
    BY <2>1, SameAnswers
  <2>4. Returned'
    <3>1. CASE configured
      BY <1>7, <2>1, <2>3, <3>1 DEF Conclude, Returned
    <3>2. CASE ~configured
      BY <1>7, <2>1, <3>2 DEF Conclude, Returned
    <3> QED  BY <3>1, <3>2
  <2>5. Callbacks'
    BY <1>1, <2>1 DEF Callbacks
  <2> QED  BY <1>1, <2>1, <2>2, <2>4, <2>5 DEF DetectorInv
<1>8. CASE UNCHANGED vars
  <2>1. UNCHANGED <<detector, server, target, configured, answers, waiting, called, observed,
                    result>>
    BY <1>8 DEF vars
  <2>2. AskedProbes' /\ FirstAsked' /\ InOrder'
    BY <1>1, <2>1, OrderKept
  <2>3. Todo' = Todo /\ Verdict' = Verdict
    BY <2>1, SameAnswers
  <2>4. Callbacks' /\ Returned'
    BY <1>1, <2>1, <2>3 DEF Callbacks, Returned
  <2> QED  BY <1>1, <2>1, <2>2, <2>4 DEF DetectorInv
<1> QED  BY <1>3, <1>4, <1>5, <1>6, <1>7, <1>8 DEF Next

(* Every answer is one the server can give to a request on the list, and   *)
(* what was returned follows from the answers.                             *)
THEOREM DetectorInvAlways == Spec => []DetectorInv
BY DetectorInvInit, DetectorInvStep, PTL DEF Spec

-----------------------------------------------------------------------------
(* The answers of an endpoint.                                             *)
LEMMA EchoIs ==
  ASSUME NEW s \in Servers, NEW p
  PROVE  /\ Echo(s, p).form = EchoForm(s.echo, p.what)
         /\ EchoForm(s.echo, p.what) \in {"none", "raw", "encoded", "altered"}
         /\ EchoForm(s.echo, p.what) = "none" => Echo(s, p) = Silent
         /\ EchoForm(s.echo, p.what) = "none" <=>
              s.echo = "none" \/ (s.echo = "dropping" /\ p.what = "script")
         /\ EchoForm(s.echo, p.what) = "altered" <=>
              \/ s.echo = "escaping" /\ p.what \in Meta
              \/ s.echo = "filtering" /\ p.what = "script"
         /\ EchoForm(s.echo, p.what) = "encoded" <=> s.echo = "encoding" /\ p.what \in Meta
<1>1. s.echo \in EchoKinds
  BY DetectorAssumption
<1>2. Echo(s, p).form = EchoForm(s.echo, p.what)
  BY DEF Echo
<1>3. EchoForm(s.echo, p.what) = "none" => Echo(s, p) = Silent
  BY DEF Echo, Silent
<1> QED  BY <1>1, <1>2, <1>3 DEF EchoForm, EchoKinds, Meta

LEMMA PageIs ==
  ASSUME NEW s, NEW p
  PROVE  /\ p.what = "legit" /\ Refuses(s, p) => Page(s, p) = "denied"
         /\ p.what = "legit" /\ ~Refuses(s, p) =>
              Page(s, p) = IF s.lookup THEN "data" ELSE "static"
         /\ s.reacts = "sql" /\ p.what = "quote" => Page(s, p) = "error"
         /\ s.reacts = "sql" /\ p.what = "true" => Page(s, p) = "all"
         /\ s.reacts = "sql" /\ p.what = "false" => Page(s, p) = "nothing"
         /\ p.what = "file" /\ Takes(s, "files", p) => Page(s, p) = "file"
         /\ /\ p.what # "legit" /\ ~(p.what = "file" /\ Takes(s, "files", p))
            /\ s.reacts # "sql" \/ p.what \notin {"quote", "true", "false"}
            => Page(s, p) = IF s.lookup THEN "missing" ELSE "static"
BY DEF Page, Refuses

LEMMA StatusIs ==
  ASSUME NEW s, NEW p
  PROVE  /\ Status(s, p) = "redirect" <=> p.what = "redirect" /\ Takes(s, "redirect", p)
         /\ p.what # "redirect" /\ Page(s, p) = "error" => Status(s, p) = "broken"
         /\ p.what # "redirect" /\ Page(s, p) = "denied" => Status(s, p) = "denied"
         /\ p.what # "redirect" /\ Page(s, p) = "missing" =>
              Status(s, p) = IF s.soft THEN "ok" ELSE "denied"
         /\ p.what # "redirect" /\ Page(s, p) \notin {"error", "denied", "missing"} =>
              Status(s, p) = "ok"
<1>1. p.what = "redirect" => Page(s, p) \in {"missing", "static"}
  BY PageIs
<1>2. CASE p.what = "redirect" /\ Takes(s, "redirect", p)
  BY <1>1, <1>2 DEF Status
<1>3. CASE p.what # "redirect"
  BY <1>3 DEF Status
<1>4. CASE p.what = "redirect" /\ ~Takes(s, "redirect", p)
  BY <1>1, <1>4 DEF Status
<1> QED  BY <1>2, <1>3, <1>4

LEMMA MarksAre ==
  ASSUME NEW s, NEW p
  PROVE  /\ \A m \in {"mysql", "generic"} :
              m \in Marks(s, p) <=> s.errors = m \/ (Page(s, p) = "error" /\ m \in s.through)
         /\ "token" \in Marks(s, p) <=> p.what = "shell" /\ Takes(s, "shell", p)
         /\ "product" \in Marks(s, p) <=> p.what = "template" /\ Takes(s, "template", p)
         /\ "proof" \in Marks(s, p) <=> Page(s, p) = "file" /\ "marked" \in s.through
         /\ "internal" \in Marks(s, p) <=>
              p.what = "internal" /\ s.reacts = "fetch" /\ "shown" \in s.through
         /\ "id" \in Marks(s, p) <=> Page(s, p) = "data"
         /\ "destination" \in Marks(s, p) <=> Status(s, p) = "redirect"
BY DEF Marks

LEMMA PlainMarks ==
  ASSUME NEW s, NEW p,
         p.what \notin {"shell", "template", "internal", "redirect"},
         p.what = "callback" => s.reacts # "fetch",
         Page(s, p) \notin {"error", "file"}
  PROVE  Marks(s, p) = {m \in {"mysql", "generic"} : s.errors = m}
                         \cup {m \in {"id"} : Page(s, p) = "data"}
<1>1. Status(s, p) # "redirect"
  BY StatusIs
<1> QED  BY <1>1 DEF Marks

LEMMA AnswerIs ==
  ASSUME DetectorInv, NEW p, Got(answers, p)
  PROVE  /\ answers[p].type = server.type /\ answers[p].place = server.place
         /\ DOMAIN answers[p] = Fields
         /\ Failure(server, answers[p]) \/ Answer(server, p, answers[p])
<1>1. server \in Servers /\ answers[p] \in Responses(server, p)
  BY DEF DetectorInv, AskedProbes, Got
<1> QED  BY <1>1, ResponseIs

(* A finding is the verdict on the answers.                                *)
LEMMA ReportIs ==
  ASSUME DetectorInv, Reported
  PROVE  configured /\ Todo = {} /\ result = Verdict
<1>1. \A o : Result(o).outcome = o
  BY DEF Result
<1> QED  BY <1>1 DEF DetectorInv, Returned, Reported, Skipped

LEMMA AllGot ==
  ASSUME Todo = {}, GoesOn, detector # "traversal"
  PROVE  \A i \in DOMAIN Probes : Got(answers, Probes[i])
BY AllSettled DEF Settled

(* The answer to a value that the endpoint does nothing with.              *)
PlainPage == IF server.lookup THEN "missing" ELSE "static"
PlainStatus == IF server.lookup THEN IF server.soft THEN "ok" ELSE "denied" ELSE "ok"

LEMMA PlainAnswer ==
  ASSUME DetectorInv, NEW p, Got(answers, p), server.noise \notin {"words", "flaky"},
         p.what \notin {"legit", "shell", "template", "internal", "redirect"},
         p.what = "callback" => server.reacts # "fetch",
         p.what \in {"quote", "true", "false"} => server.reacts # "sql",
         p.what = "file" => server.reacts # "files"
  PROVE  LET r == answers[p] IN
         /\ r.page = PlainPage /\ r.status = PlainStatus /\ r.type = server.type
         /\ r.echo = Echo(server, p) /\ r.words = 0 /\ DOMAIN r = Fields
         /\ r.marks = {m \in {"mysql", "generic"} : server.errors = m}
<1>1. /\ DOMAIN answers[p] = Fields /\ answers[p].type = server.type
      /\ Answer(server, p, answers[p])
  BY AnswerIs DEF Failure
<1>2. Page(server, p) = PlainPage
  BY PageIs DEF PlainPage, Takes
<1>3. Page(server, p) \in {"missing", "static"}
  BY <1>2 DEF PlainPage
<1>4. Status(server, p) = PlainStatus
  BY <1>2, StatusIs DEF PlainPage, PlainStatus
<1>5. Marks(server, p) = {m \in {"mysql", "generic"} : server.errors = m}
                           \cup {m \in {"id"} : Page(server, p) = "data"}
  BY <1>3, PlainMarks
<1> QED  BY <1>1, <1>2, <1>3, <1>4, <1>5 DEF Answer

(* An answer without the value.                                            *)
LEMMA StripIs ==
  ASSUME NEW r, DOMAIN r = Fields
  PROVE  LET s == StripPayload(r) IN
         /\ s.page = r.page /\ s.words = r.words /\ s.marks = r.marks
         /\ s.status = r.status /\ s.type = r.type
         /\ s.echo = IF r.echo.form \in {"raw", "encoded"} THEN Silent ELSE r.echo
BY DEF StripPayload, Fields, Silent

Erasable(r) == r.echo.form \in {"raw", "encoded"} \/ r.echo = Silent

LEMMA SameWithout ==
  ASSUME NEW r, NEW q, DOMAIN r = Fields, DOMAIN q = Fields, Erasable(r), Erasable(q),
         r.page = q.page, r.words = q.words, r.marks = q.marks
  PROVE  SameStripped(r, q)
<1>1. Silent.form = "none"
  BY DEF Silent
<1>2. StripPayload(r).echo = Silent /\ StripPayload(q).echo = Silent
  BY <1>1, StripIs DEF Erasable
<1> QED  BY <1>2, StripIs DEF SameStripped, NormalizeBody

LEMMA DifferentPages ==
  ASSUME NEW r, NEW q, r.page # q.page
  PROVE  NormalizeBody(r) # NormalizeBody(q)
BY DEF NormalizeBody

LEMMA ErasableIs ==
  ASSUME NEW s \in Servers, NEW p, NEW r, r.echo = Echo(s, p),
         s.echo = "escaping" => p.what \notin Meta, p.what # "script"
  PROVE  Erasable(r)
BY EchoIs DEF Erasable

-----------------------------------------------------------------------------
(* sqli and sqliactive.                                                    *)
LEMMA SqliProbed ==
  ASSUME detector \in {"sqli", "sqliactive"}, Todo = {}, GoesOn
  PROVE  /\ Got(answers, Value("inert")) /\ Got(answers, Value("quote"))
         /\ Got(answers, Value("true")) /\ Got(answers, Value("false"))
<1>1. Probes = <<Value("inert"), Value("quote"), Value("true"), Value("false")>>
  BY DEF Probes, SqliProbes
<1> QED  BY <1>1, AllGot

LEMMA ClassifyIs ==
  ASSUME NEW baseline, NEW probe, NEW differ \in BOOLEAN
  PROVE  LET tier == Classify(ErrorFamily(baseline, probe), differ) IN
         /\ differ => tier # NoTier
         /\ ~differ /\ MatchDBError(baseline) = MatchDBError(probe) => tier = NoTier
         /\ tier[2] >= 90 => "mysql" \in probe.marks
<1>1. MatchDBError(probe) \in {"mysql", "generic", "none"}
      /\ (MatchDBError(probe) = "mysql" => "mysql" \in probe.marks)
  BY DEF MatchDBError
<1> DEFINE f == ErrorFamily(baseline, probe)
<1>2. /\ f \in {"mysql", "generic", "none"}
      /\ f = "mysql" => "mysql" \in probe.marks
      /\ MatchDBError(baseline) = MatchDBError(probe) => f = "none"
  BY <1>1 DEF ErrorFamily
<1> HIDE DEF f
<1>4. CASE differ
  <2>1. Classify(f, differ) = <<"critical", IF f = "mysql" THEN 95 ELSE 75>>
    BY <1>4 DEF Classify
  <2>2. Classify(f, differ)[2] = IF f = "mysql" THEN 95 ELSE 75
    BY <2>1
  <2>3. NoTier[2] = 0
    BY DEF NoTier
  <2>4. Classify(f, differ) # NoTier
    BY <2>2, <2>3
  <2>5. Classify(f, differ)[2] >= 90 => f = "mysql"
    <3>1. CASE f = "mysql"
      BY <3>1
    <3>2. CASE f # "mysql"
      <4>1. Classify(f, differ)[2] = 75 /\ ~(75 >= 90)
        BY <2>2, <3>2
      <4> QED  BY <4>1
    <3> QED  BY <3>1, <3>2
  <2> QED  BY <1>2, <1>4, <2>4, <2>5 DEF f
<1>5. CASE ~differ
  <2>1. Classify(f, differ) = CASE f = "mysql" -> <<"high", 55>>
                                [] f = "generic" -> <<"medium", 30>>
                                [] OTHER -> NoTier
    BY <1>2, <1>5 DEF Classify
  <2>2. Classify(f, differ) \in {<<"high", 55>>, <<"medium", 30>>, <<"none", 0>>}
        /\ (f = "none" => Classify(f, differ) = NoTier)
    BY <2>1 DEF NoTier
  <2>3. Classify(f, differ)[2] \in {55, 30, 0}
    BY <2>2
  <2> QED  BY <1>2, <1>5, <2>2, <2>3 DEF f
<1> QED  BY <1>4, <1>5

LEMMA SqliFindingIs ==
  ASSUME NEW tier, NEW a
  PROVE  /\ SqliFinding(tier, a).outcome = IF tier = NoTier THEN "no_finding" ELSE "finding"
         /\ tier # NoTier => /\ SqliFinding(tier, a).confidence = tier[2]
                             /\ SqliFinding(tier, a).evidence = DOMAIN a
BY DEF SqliFinding, NoFinding, Result, Finding

LEMMA SqliActiveFindingIs ==
  ASSUME NEW tier
  PROVE  /\ SqliActiveFinding(tier).outcome = IF tier = NoTier THEN "no_finding" ELSE "finding"
         /\ tier # NoTier => /\ SqliActiveFinding(tier).confidence = tier[2]
                             /\ Value("quote") \in SqliActiveFinding(tier).evidence
BY DEF SqliActiveFinding, NoFinding, Result, Finding

SqliDiffers ==
  IF detector = "sqli" THEN ~SameStripped(answers[Value("true")], answers[Value("false")])
  ELSE StructurallyDifferent(StripPayload(answers[Value("true")]),
                             StripPayload(answers[Value("false")]))

SqliTier == Classify(ErrorFamily(answers[Value("inert")], answers[Value("quote")]), SqliDiffers)

LEMMA SqliReports ==
  ASSUME DetectorInv, detector \in {"sqli", "sqliactive"}, Todo = {}
  PROVE  /\ SqliDiffers \in BOOLEAN
         /\ Verdict.outcome = "finding" =>
              /\ GoesOn /\ SqliTier # NoTier
              /\ Verdict.confidence = SqliTier[2] /\ Value("quote") \in Verdict.evidence
         /\ server.type # "binary" /\ SqliTier # NoTier => Verdict.outcome = "finding"
<1>1. SqliDiffers \in BOOLEAN
  BY DEF SqliDiffers, SameStripped, StructurallyDifferent, NormalizedDiffers
<1>2. CASE detector = "sqliactive"
  <2>1. GoesOn /\ Verdict = SqliActiveFinding(SqliTier)
    BY <1>2 DEF GoesOn, Verdict, SqliActiveVerdict, SqliTier, SqliDiffers
  <2> QED  BY <1>1, <2>1, SqliActiveFindingIs
<1>3. CASE detector = "sqli"
  <2>1. GoesOn <=> (Got(answers, Value("inert")) => Analyzable(answers[Value("inert")]))
    BY <1>3 DEF GoesOn, SqliGoesOn
  <2>2. Verdict = IF ~Analyzable(answers[Value("inert")]) THEN Skipped
                  ELSE SqliFinding(SqliTier, answers)
    BY <1>3 DEF Verdict, SqliVerdict, SqliTier, SqliDiffers
  <2>3. Skipped.outcome = "skipped"
    BY DEF Skipped, Result
  <2>4. ASSUME server.type # "binary"
        PROVE  Analyzable(answers[Value("inert")])
    <3>1. CASE Got(answers, Value("inert"))
      BY <2>4, <3>1, AnswerIs DEF Analyzable
    <3>2. CASE ~Got(answers, Value("inert"))
      BY <1>3, <2>1, <3>2, SqliProbed
    <3> QED  BY <3>1, <3>2
  <2>5. CASE ~Analyzable(answers[Value("inert")])
    BY <1>1, <2>2, <2>3, <2>4, <2>5
  <2>6. CASE Analyzable(answers[Value("inert")])
    <3>1. GoesOn /\ Verdict = SqliFinding(SqliTier, answers)
      BY <2>1, <2>2, <2>6
    <3>2. Value("quote") \in DOMAIN answers
      BY <1>3, <3>1, SqliProbed DEF Got
    <3> QED  BY <1>1, <3>1, <3>2, SqliFindingIs
  <2> QED  BY <2>5, <2>6
<1> QED  BY <1>2, <1>3

LEMMA SqliProof ==
  ASSUME DetectorInv, detector \in {"sqli", "sqliactive"}, Reported, result.confidence >= 90
  PROVE  \E p \in result.evidence : Got(answers, p) /\ Proves(p)
<1>1. Todo = {} /\ result = Verdict
  BY ReportIs
<1>2. GoesOn /\ SqliDiffers \in BOOLEAN /\ result.confidence = SqliTier[2]
      /\ Value("quote") \in result.evidence
  BY <1>1, SqliReports DEF Reported
<1>3. Got(answers, Value("quote"))
  BY <1>1, <1>2, SqliProbed
<1>4. "mysql" \in answers[Value("quote")].marks
  BY <1>2, ClassifyIs DEF SqliTier
<1> QED  BY <1>2, <1>3, <1>4 DEF Proves

LEMMA SqliQuiet ==
  ASSUME DetectorInv, detector \in {"sqli", "sqliactive"}, Reported, ~Misled
  PROVE  Reacts(server, detector)
<1> SUFFICES ASSUME server.reacts # "sql" PROVE FALSE
  BY DEF Reacts
<1>1. Todo = {} /\ result = Verdict
  BY ReportIs
<1>2. GoesOn /\ SqliDiffers \in BOOLEAN /\ SqliTier # NoTier
  BY <1>1, SqliReports DEF Reported
<1>3. /\ server \in Servers /\ server.noise \notin {"words", "flaky"}
      /\ server.echo # "escaping"
  BY DEF DetectorInv, Misled, Comparing
<1>4. /\ Value("inert").what = "inert" /\ Value("quote").what = "quote"
      /\ Value("true").what = "true" /\ Value("false").what = "false"
  BY DEF Value, Request
<1>5. /\ Got(answers, Value("inert")) /\ Got(answers, Value("quote"))
      /\ Got(answers, Value("true")) /\ Got(answers, Value("false"))
  BY <1>1, <1>2, SqliProbed
<1>6. \A p \in {Value("inert"), Value("quote"), Value("true"), Value("false")} :
        LET r == answers[p] IN
         /\ r.page = PlainPage /\ r.status = PlainStatus /\ r.type = server.type
         /\ r.echo = Echo(server, p) /\ r.words = 0 /\ DOMAIN r = Fields
         /\ r.marks = {m \in {"mysql", "generic"} : server.errors = m}
  BY <1>3, <1>4, <1>5, PlainAnswer
<1>7. MatchDBError(answers[Value("inert")]) = MatchDBError(answers[Value("quote")])
  BY <1>6 DEF MatchDBError
<1> DEFINE r == answers[Value("true")]
           q == answers[Value("false")]
<1>8. /\ DOMAIN r = Fields /\ DOMAIN q = Fields /\ r.page = q.page /\ r.words = q.words
      /\ r.marks = q.marks /\ r.status = q.status /\ r.type = q.type
  BY <1>6
<1>9. Erasable(r) /\ Erasable(q)
  BY <1>3, <1>4, <1>6, ErasableIs
<1> HIDE DEF r, q
<1>10. SameStripped(r, q)
  BY <1>8, <1>9, SameWithout
<1>11. ~StructurallyDifferent(StripPayload(r), StripPayload(q))
  BY <1>8, <1>10, StripIs DEF StructurallyDifferent, NormalizedDiffers, SameStripped
<1>12. ~SqliDiffers
  BY <1>10, <1>11 DEF SqliDiffers, r, q
<1> QED  BY <1>2, <1>7, <1>12, ClassifyIs DEF SqliTier

LEMMA SqliReacts ==
  ASSUME DetectorInv, detector \in {"sqli", "sqliactive"}, configured, Todo = {}, result = Verdict,
         Reacts(server, detector), Readable, server.noise # "flaky"
  PROVE  result.outcome = "finding"
<1>1. server.reacts = "sql"
  BY DEF Reacts
<1>2. CASE GoesOn
  <2>1. Got(answers, Value("true")) /\ Got(answers, Value("false"))
    BY <1>2, SqliProbed
  <2>2. Value("true").what = "true" /\ Value("false").what = "false"
    BY DEF Value, Request
  <2> DEFINE r == answers[Value("true")]
             q == answers[Value("false")]
  <2>3. r.page = "all" /\ q.page = "nothing" /\ DOMAIN r = Fields /\ DOMAIN q = Fields
    BY <1>1, <2>1, <2>2, AnswerIs, PageIs DEF Answer, Failure
  <2> HIDE DEF r, q
  <2>4. NormalizeBody(StripPayload(r)) # NormalizeBody(StripPayload(q))
    BY <2>3, StripIs, DifferentPages
  <2>5. SqliDiffers
    BY <2>4 DEF SqliDiffers, SameStripped, StructurallyDifferent, NormalizedDiffers, r, q
  <2>6. SqliDiffers \in BOOLEAN
    BY SqliReports
  <2>7. SqliTier # NoTier
    BY <2>5, <2>6, ClassifyIs DEF SqliTier
  <2>8. CASE server.type # "binary"
    BY <2>7, <2>8, SqliReports
  <2>9. CASE detector = "sqliactive"
    BY <2>7, <2>9, SqliActiveFindingIs
       DEF Verdict, SqliActiveVerdict, SqliTier, SqliDiffers
  <2>10. server.type # "binary" \/ detector = "sqliactive"
    BY DEF Readable, Passive
  <2> QED  BY <2>8, <2>9, <2>10
<1>3. CASE ~GoesOn
  <2>1. /\ detector = "sqli" /\ Got(answers, Value("inert"))
        /\ ~Analyzable(answers[Value("inert")])
    BY <1>3 DEF GoesOn, SqliGoesOn
  <2>2. server.type # "binary"
    BY <2>1 DEF Readable, Passive
  <2> QED  BY <2>1, <2>2, AnswerIs DEF Analyzable
<1> QED  BY <1>2, <1>3

-----------------------------------------------------------------------------
(* ssrf and ssrfactive.                                                    *)
LEMMA SSRFProbed ==
  ASSUME detector = "ssrf", Todo = {}, GoesOn
  PROVE  Got(answers, Value("inert")) /\ Got(answers, Value("callback"))
<1>1. Probes = <<Value("inert"), Value("callback")>>
  BY DEF Probes, SSRFProbes
<1> QED  BY <1>1, AllGot

LEMMA SSRFVerdictIs ==
  ASSUME DetectorInv, detector = "ssrf"
  PROVE  LET base == answers[Value("inert")]
             probe == answers[Value("callback")]
             v == Verdict
         IN /\ Analyzable(base) /\ observed =>
                 /\ v.outcome = "finding" /\ v.confidence = 90 /\ v.evidence = DOMAIN answers
            /\ Analyzable(base) /\ ~observed =>
                 /\ SameStripped(base, probe) => v.outcome = "no_finding"
                 /\ v.confidence \in {50, 25, 0}
            /\ ~Analyzable(base) => v.outcome = "skipped"
<1> DEFINE base == answers[Value("inert")]
           probe == answers[Value("callback")]
<1>1. Verdict = SSRFVerdict(answers, observed) /\ observed \in BOOLEAN
  BY DEF Verdict, DetectorInv
<1>2. \A s, c, e : /\ Finding(s, c, e).outcome = "finding" /\ Finding(s, c, e).confidence = c
                   /\ Finding(s, c, e).evidence = e
  BY DEF Finding
<1>3. \A o : Result(o).outcome = o /\ Result(o).confidence = 0
  BY DEF Result
<1>4. CASE ~Analyzable(base)
  <2>1. Verdict = Skipped
    BY <1>1, <1>4 DEF SSRFVerdict
  <2> QED  BY <1>3, <1>4, <2>1 DEF Skipped
<1>5. CASE Analyzable(base) /\ observed
  <2>1. Verdict = Finding("critical", 90, DOMAIN answers)
    BY <1>1, <1>5 DEF SSRFVerdict, SSRFFinding
  <2> QED  BY <1>2, <1>5, <2>1
<1>6. CASE Analyzable(base) /\ ~observed /\ SameStripped(base, probe)
  <2>1. Verdict = NoFinding
    BY <1>1, <1>6 DEF SSRFVerdict
  <2> QED  BY <1>3, <1>6, <2>1 DEF NoFinding
<1>7. CASE Analyzable(base) /\ ~observed /\ ~SameStripped(base, probe)
  <2>1. \/ Verdict = Finding("high", 50, DOMAIN answers)
        \/ Verdict = Finding("medium", 25, DOMAIN answers)
    BY <1>1, <1>7 DEF SSRFVerdict, SSRFFinding
  <2>2. Verdict.confidence \in {50, 25}
    BY <1>2, <2>1
  <2> QED  BY <1>7, <2>2
<1> QED  BY <1>4, <1>5, <1>6, <1>7

LEMMA SSRFProof ==
  ASSUME DetectorInv, detector = "ssrf", Reported, result.confidence >= 90
  PROVE  \E p \in result.evidence : Got(answers, p) /\ Proves(p)
<1>1. Todo = {} /\ result = Verdict /\ observed \in BOOLEAN
  BY ReportIs DEF DetectorInv
<1>2. Analyzable(answers[Value("inert")]) /\ observed
  <2>1. CASE ~Analyzable(answers[Value("inert")])
    BY <1>1, <2>1, SSRFVerdictIs DEF Reported
  <2>2. CASE Analyzable(answers[Value("inert")]) /\ ~observed
    <3>1. Verdict.confidence \in {50, 25, 0}
      BY <2>2, SSRFVerdictIs
    <3> QED  BY <1>1, <3>1
  <2> QED  BY <1>1, <2>1, <2>2
<1>3. GoesOn /\ called
  BY <1>2 DEF GoesOn, SSRFGoesOn, DetectorInv, Callbacks
<1>4. Got(answers, Value("inert"))
  BY <1>1, <1>3, SSRFProbed
<1>5. result.evidence = DOMAIN answers
  BY <1>1, <1>2, SSRFVerdictIs
<1> QED  BY <1>3, <1>4, <1>5 DEF Proves, Got

LEMMA SSRFQuiet ==
  ASSUME DetectorInv, detector = "ssrf", Reported, ~Misled
  PROVE  Reacts(server, detector)
<1> SUFFICES ASSUME server.reacts # "fetch" PROVE FALSE
  BY DEF Reacts
<1>1. Todo = {} /\ result = Verdict
  BY ReportIs
<1>2. ~observed /\ server \in Servers /\ server.noise \notin {"words", "flaky"}
  BY DEF DetectorInv, Callbacks, Misled, Comparing
<1>3. Analyzable(answers[Value("inert")])
  BY <1>1, SSRFVerdictIs DEF Reported
<1>4. Got(answers, Value("inert")) /\ Got(answers, Value("callback"))
  BY <1>1, <1>3, SSRFProbed DEF GoesOn, SSRFGoesOn
<1>5. Value("inert").what = "inert" /\ Value("callback").what = "callback"
  BY DEF Value, Request
<1> DEFINE r == answers[Value("inert")]
           q == answers[Value("callback")]
<1>6. /\ DOMAIN r = Fields /\ DOMAIN q = Fields /\ r.page = q.page /\ r.words = q.words
      /\ r.marks = q.marks
      /\ r.echo = Echo(server, Value("inert")) /\ q.echo = Echo(server, Value("callback"))
  BY <1>2, <1>4, <1>5, PlainAnswer
<1>7. Erasable(r) /\ Erasable(q)
  BY <1>2, <1>5, <1>6, ErasableIs DEF Meta
<1> HIDE DEF r, q
<1>8. SameStripped(r, q)
  BY <1>6, <1>7, SameWithout
<1> QED  BY <1>1, <1>2, <1>3, <1>8, SSRFVerdictIs DEF Reported, r, q

LEMMA SSRFReacts ==
  ASSUME DetectorInv, detector = "ssrf", Todo = {}, result = Verdict,
         Visible, Readable
  PROVE  result.outcome = "finding"
<1>1. observed /\ server.type # "binary"
  BY DEF Visible, Readable, Passive
<1>2. GoesOn
  BY <1>1, AnswerIs DEF GoesOn, SSRFGoesOn, Analyzable
<1>3. Analyzable(answers[Value("inert")])
  BY <1>1, <1>2, SSRFProbed, AnswerIs DEF Analyzable
<1> QED  BY <1>1, <1>3, SSRFVerdictIs

LEMMA SSRFActiveProbed ==
  ASSUME detector = "ssrfactive", Todo = {}
  PROVE  Got(answers, Value("inert")) /\ (Internal => Got(answers, Value("internal")))
<1>1. GoesOn
  BY DEF GoesOn
<1>2. CASE Internal
  <2>1. Probes = <<Value("inert"), Value("internal"), Value("callback")>>
    BY <1>2 DEF Probes, SSRFActiveProbes
  <2> QED  BY <1>1, <2>1, AllGot
<1>3. CASE ~Internal
  <2>1. Probes = <<Value("inert"), Value("callback")>>
    BY <1>3 DEF Probes, SSRFActiveProbes
  <2> QED  BY <1>1, <1>3, <2>1, AllGot
<1> QED  BY <1>2, <1>3

LEMMA SSRFActiveVerdictIs ==
  ASSUME DetectorInv, detector = "ssrfactive"
  PROVE  /\ Verdict.outcome = "finding" <=> MarkerFound(answers) \/ observed
         /\ Verdict.outcome = "finding" =>
              /\ Verdict.evidence = DOMAIN answers
              /\ Verdict.confidence >= 90 => observed
<1>1. /\ Verdict = SSRFActiveVerdict(answers, observed) /\ observed \in BOOLEAN
      /\ MarkerFound(answers) \in BOOLEAN
  BY DetectorAssumption DEF Verdict, DetectorInv, MarkerFound
<1>2. \A s, c, e : /\ Finding(s, c, e).outcome = "finding" /\ Finding(s, c, e).confidence = c
                   /\ Finding(s, c, e).evidence = e
  BY DEF Finding
<1>3. CASE ~MarkerFound(answers) /\ ~observed
  <2>1. Verdict = NoFinding
    BY <1>1, <1>3 DEF SSRFActiveVerdict
  <2> QED  BY <1>3, <2>1 DEF NoFinding, Result
<1>4. CASE observed
  <2>1. \/ Verdict = Finding("critical", 95, DOMAIN answers)
        \/ Verdict = Finding("critical", 90, DOMAIN answers)
    BY <1>1, <1>4 DEF SSRFActiveVerdict, SSRFActiveFinding
  <2> QED  BY <1>2, <1>4, <2>1
<1>5. CASE MarkerFound(answers) /\ ~observed
  <2>1. Verdict = Finding("critical", 85, DOMAIN answers)
    BY <1>1, <1>5 DEF SSRFActiveVerdict, SSRFActiveFinding
  <2>2. ~(85 >= 90)
    OBVIOUS
  <2> QED  BY <1>2, <1>5, <2>1, <2>2
<1> QED  BY <1>1, <1>3, <1>4, <1>5

LEMMA SSRFActiveProof ==
  ASSUME DetectorInv, detector = "ssrfactive", Reported, result.confidence >= 90
  PROVE  \E p \in result.evidence : Got(answers, p) /\ Proves(p)
<1>1. Todo = {} /\ result = Verdict
  BY ReportIs
<1>2. result.evidence = DOMAIN answers /\ called
  BY <1>1, SSRFActiveVerdictIs DEF Reported, DetectorInv, Callbacks
<1>3. Got(answers, Value("inert"))
  BY <1>1, SSRFActiveProbed
<1> QED  BY <1>2, <1>3 DEF Proves, Got

LEMMA SSRFActiveQuiet ==
  ASSUME DetectorInv, detector = "ssrfactive", Reported
  PROVE  Reacts(server, detector)
<1>1. Todo = {} /\ result = Verdict
  BY ReportIs
<1>2. CASE observed
  BY <1>2 DEF DetectorInv, Callbacks, Reacts
<1>3. CASE MarkerFound(answers)
  <2>1. Got(answers, Value("internal")) /\ "internal" \in answers[Value("internal")].marks
    BY <1>1, <1>3, SSRFActiveProbed DEF MarkerFound
  <2> QED  BY <2>1, AnswerIs, MarksAre DEF Answer, Failure, Reacts
<1> QED  BY <1>1, <1>2, <1>3, SSRFActiveVerdictIs DEF Reported

LEMMA SSRFActiveReacts ==
  ASSUME DetectorInv, detector = "ssrfactive", Todo = {}, result = Verdict,
         Reacts(server, detector), Visible, server.noise # "flaky"
  PROVE  result.outcome = "finding"
<1>1. CASE observed
  BY <1>1, SSRFActiveVerdictIs
<1>2. CASE Internal /\ "shown" \in server.through
  <2>1. Got(answers, Value("internal")) /\ Value("internal").what = "internal"
    BY <1>2, SSRFActiveProbed DEF Value, Request
  <2>2. MarkerFound(answers)
    BY <1>2, <2>1, AnswerIs, MarksAre DEF Answer, Failure, Reacts, MarkerFound
  <2> QED  BY <2>2, SSRFActiveVerdictIs
<1> QED  BY <1>1, <1>2 DEF Visible

-----------------------------------------------------------------------------
(* xssreflected and xssactive.                                             *)
LEMMA FindingIs ==
  ASSUME NEW s, NEW c, NEW e
  PROVE  /\ Finding(s, c, e).outcome = "finding" /\ Finding(s, c, e).confidence = c
         /\ Finding(s, c, e).evidence = e
BY DEF Finding

LEMMA NoFindingIs == NoFinding.outcome = "no_finding" /\ Skipped.outcome = "skipped"
BY DEF NoFinding, Skipped, Result

LEMMA XSSProbed ==
  ASSUME detector = "xssreflected", Todo = {}, GoesOn
  PROVE  /\ Got(answers, Value("marker")) /\ Got(answers, Value("markup"))
         /\ Got(answers, Value("script"))
<1>1. Probes = <<Value("marker"), Value("markup"), Value("script")>>
  BY DEF Probes, XSSProbes
<1> QED  BY <1>1, AllGot

LEMMA XSSReports ==
  ASSUME NEW a, XSSVerdict(a).outcome = "finding"
  PROVE  \/ /\ Got(a, Value("script")) /\ HasMarker(a[Value("script")])
            /\ XSSVerdict(a).confidence >= 90 =>
                 /\ Intact(a[Value("script")]) /\ XSSVerdict(a).evidence = {Value("script")}
         \/ /\ Got(a, Value("markup")) /\ Intact(a[Value("markup")])
            /\ XSSVerdict(a).confidence = 35
<1> DEFINE script == a[Value("script")]
           markup == a[Value("markup")]
<1>1. HTMLLike(a[Value("marker")])
  BY NoFindingIs DEF XSSVerdict
<1>2. CASE Got(a, Value("script")) /\ Intact(script)
  <2>1. XSSVerdict(a) = Finding("high", 95, {Value("script")})
    BY <1>1, <1>2 DEF XSSVerdict, XSSFinding, Intact, HasMarker
  <2> QED  BY <1>2, <2>1, FindingIs DEF Intact, HasMarker
<1>3. CASE Got(a, Value("script")) /\ ~Intact(script)
  <2>1. HasMarker(script)
    BY <1>1, <1>3, NoFindingIs DEF XSSVerdict
  <2>2. XSSVerdict(a) = Finding("high", 60, {Value("script")})
    BY <1>1, <1>3, <2>1 DEF XSSVerdict, XSSFinding
  <2>3. XSSVerdict(a).confidence = 60 /\ ~(60 >= 90)
    BY <2>2, FindingIs
  <2> QED  BY <1>3, <2>1, <2>3
<1>4. CASE ~Got(a, Value("script"))
  <2>1. Got(a, Value("markup")) /\ Intact(markup)
    BY <1>1, <1>4, NoFindingIs DEF XSSVerdict
  <2>2. XSSVerdict(a) = Finding("medium", 35, {Value("markup")})
    BY <1>1, <1>4, <2>1 DEF XSSVerdict, XSSFinding
  <2> QED  BY <2>1, <2>2, FindingIs
<1> QED  BY <1>2, <1>3, <1>4

LEMMA XSSProof ==
  ASSUME DetectorInv, detector = "xssreflected", Reported, result.confidence >= 90
  PROVE  \E p \in result.evidence : Got(answers, p) /\ Proves(p)
<1>1. result = XSSVerdict(answers)
  BY ReportIs DEF Verdict
<1>2. ~(35 >= 90)
  OBVIOUS
<1>3. /\ Got(answers, Value("script")) /\ Intact(answers[Value("script")])
      /\ result.evidence = {Value("script")}
  BY <1>1, <1>2, XSSReports DEF Reported
<1> QED  BY <1>3 DEF Proves

LEMMA XSSQuiet ==
  ASSUME DetectorInv, detector = "xssreflected", Reported
  PROVE  Reacts(server, detector)
<1>1. result = XSSVerdict(answers)
  BY ReportIs DEF Verdict
<1>2. Got(answers, Value("markup")) /\ Intact(answers[Value("markup")])
  BY <1>1, XSSReports DEF Reported, DetectorInv, InOrder, XSSInOrder
<1>3. Value("markup").what = "markup" /\ server \in Servers
  BY DEF Value, Request, DetectorInv
<1>4. EchoForm(server.echo, "markup") = "raw"
  BY <1>2, <1>3, AnswerIs, EchoIs DEF Answer, Failure, Silent, Intact
<1>5. server.echo \in EchoKinds
  BY <1>3, DetectorAssumption
<1> QED  BY <1>4, <1>5 DEF EchoForm, EchoKinds, Meta, Reacts

LEMMA XSSReacts ==
  ASSUME DetectorInv, detector = "xssreflected", Todo = {}, result = Verdict,
         Visible, Readable, server.noise # "flaky"
  PROVE  result.outcome = "finding"
<1> DEFINE marker == answers[Value("marker")]
           markup == answers[Value("markup")]
           script == answers[Value("script")]
<1>1. /\ server.echo \in {"plain", "filtering"} /\ server.type = "html" /\ server \in Servers
      /\ result = XSSVerdict(answers)
  BY DEF Visible, Readable, DetectorInv, Verdict
<1>2. /\ Value("marker").what = "marker" /\ Value("markup").what = "markup"
      /\ Value("script").what = "script"
  BY DEF Value, Request
<1>3. Got(answers, Value("marker")) => HTMLLike(marker) /\ HasMarker(marker)
  BY <1>1, <1>2, AnswerIs, EchoIs DEF Answer, Failure, HTMLLike, HasMarker
<1>4. Got(answers, Value("markup")) => Intact(markup)
  <2>1. EchoForm(server.echo, "markup") = "raw"
    BY <1>1 DEF EchoForm
  <2> QED  BY <1>1, <1>2, <2>1, AnswerIs, EchoIs DEF Answer, Failure, Intact
<1>5. Got(answers, Value("script")) => HasMarker(script)
  BY <1>1, <1>2, AnswerIs, EchoIs DEF Answer, Failure, HasMarker
<1>6. CASE GoesOn
  <2>1. Got(answers, Value("marker")) /\ Got(answers, Value("script"))
    BY <1>6, XSSProbed
  <2>2. \/ XSSVerdict(answers) = Finding("high", 95, {Value("script")})
        \/ XSSVerdict(answers) = Finding("high", 60, {Value("script")})
    BY <1>3, <1>5, <2>1 DEF XSSVerdict, XSSFinding
  <2> QED  BY <1>1, <2>2, FindingIs
<1>7. CASE ~GoesOn
  <2>1. Got(answers, Value("markup")) /\ ClassifyContext(marker) = "unknown"
    BY <1>3, <1>4, <1>7 DEF GoesOn, XSSGoesOn
  <2>2. ~Got(answers, Value("script"))
    BY <2>1 DEF DetectorInv, InOrder, XSSInOrder
  <2>3. Got(answers, Value("marker"))
    <3>1. Probes = <<Value("marker"), Value("markup"), Value("script")>>
      BY DEF Probes, XSSProbes
    <3> QED  BY <2>1, <3>1 DEF DetectorInv, FirstAsked, Got
  <2>4. XSSVerdict(answers) = Finding("medium", 35, {Value("markup")})
    BY <1>3, <1>4, <2>1, <2>2, <2>3 DEF XSSVerdict, XSSFinding
  <2> QED  BY <1>1, <2>4, FindingIs
<1> QED  BY <1>6, <1>7

LEMMA XSSActiveProbed ==
  ASSUME detector = "xssactive", Todo = {}
  PROVE  /\ Got(answers, Value("marker"))
         /\ GoesOn => Got(answers, Value("script"))
<1>1. Probes = <<Value("marker"), Value("script")>>
  BY DEF Probes, XSSActiveProbes
<1>2. CASE GoesOn
  BY <1>1, <1>2, AllGot
<1>3. CASE ~GoesOn
  BY <1>3 DEF GoesOn, XSSActiveGoesOn
<1> QED  BY <1>2, <1>3

LEMMA XSSActiveVerdictIs ==
  ASSUME NEW a
  PROVE  LET v == XSSActiveVerdict(a)
             marker == a[Value("marker")]
             kind == ClassifyReflection(a[Value("script")])
         IN /\ ~HasMarker(marker) => v.outcome = "no_finding"
            /\ HasMarker(marker) /\ marker.type = "json" =>
                 v.outcome = "finding" /\ v.confidence = 50
            /\ HasMarker(marker) /\ marker.type # "json" =>
                 /\ v.outcome = "finding" <=> kind \notin {"none", "html_encoded"}
                 /\ v.outcome = "finding" => v.evidence = {Value("marker"), Value("script")}
<1> DEFINE marker == a[Value("marker")]
           kind == ClassifyReflection(a[Value("script")])
<1>1. CASE ~HasMarker(marker)
  BY <1>1, NoFindingIs DEF XSSActiveVerdict
<1>2. CASE HasMarker(marker) /\ marker.type = "json"
  <2>1. XSSActiveVerdict(a) = Finding("medium", 50, {Value("marker")})
    BY <1>2 DEF XSSActiveVerdict, XSSActiveJSON
  <2> QED  BY <1>2, <2>1, FindingIs
<1>3. CASE HasMarker(marker) /\ marker.type # "json"
  <2>1. XSSActiveVerdict(a) = IF kind \in {"none", "html_encoded"} THEN NoFinding
          ELSE Finding("critical", Tier(kind), {Value("marker"), Value("script")})
    BY <1>3 DEF XSSActiveVerdict, XSSActiveFinding
  <2> HIDE DEF kind
  <2>2. CASE kind \in {"none", "html_encoded"}
    BY <1>3, <2>1, <2>2, NoFindingIs DEF kind
  <2>3. CASE kind \notin {"none", "html_encoded"}
    BY <1>3, <2>1, <2>3, FindingIs DEF kind
  <2> QED  BY <2>2, <2>3
<1> QED  BY <1>1, <1>2, <1>3

(* What the answer to the metacharacters is classified as.                 *)
LEMMA ReflectionIs ==
  ASSUME NEW r, r.echo.form \in {"none", "raw", "encoded", "altered"}
  PROVE  ClassifyReflection(r) \notin {"none", "html_encoded"} <=> Intact(r)
BY DEF ClassifyReflection, Intact

LEMMA FormIs ==
  ASSUME DetectorInv, NEW p, Got(answers, p)
  PROVE  /\ answers[p].echo.form \in {"none", "raw", "encoded", "altered"}
         /\ answers[p].echo.form \in {"none", EchoForm(server.echo, p.what)}
         /\ server.noise # "flaky" => answers[p].echo.form = EchoForm(server.echo, p.what)
         /\ server.echo = "none" => answers[p].echo = Silent
<1>1. server \in Servers
  BY DEF DetectorInv
<1> QED  BY <1>1, AnswerIs, EchoIs DEF Answer, Failure, Silent

LEMMA XSSActiveProof ==
  ASSUME DetectorInv, detector = "xssactive", Reported, result.confidence >= 90
  PROVE  \E p \in result.evidence : Got(answers, p) /\ Proves(p)
<1>1. Todo = {} /\ result = XSSActiveVerdict(answers)
  BY ReportIs DEF Verdict
<1>2. ~(50 >= 90)
  OBVIOUS
<1>3. HasMarker(answers[Value("marker")]) /\ answers[Value("marker")].type # "json"
  BY <1>1, <1>2, XSSActiveVerdictIs DEF Reported
<1>4. /\ ClassifyReflection(answers[Value("script")]) \notin {"none", "html_encoded"}
      /\ result.evidence = {Value("marker"), Value("script")}
  BY <1>1, <1>3, XSSActiveVerdictIs DEF Reported
<1>5. Got(answers, Value("script"))
  BY <1>1, <1>3, XSSActiveProbed DEF GoesOn, XSSActiveGoesOn
<1>6. Intact(answers[Value("script")])
  BY <1>4, <1>5, FormIs, ReflectionIs
<1> QED  BY <1>4, <1>5, <1>6 DEF Proves

LEMMA XSSActiveQuiet ==
  ASSUME DetectorInv, detector = "xssactive", Reported, ~Misled
  PROVE  Reacts(server, detector)
<1>1. Todo = {} /\ result = XSSActiveVerdict(answers)
  BY ReportIs DEF Verdict
<1>2. HasMarker(answers[Value("marker")]) /\ Got(answers, Value("marker"))
  BY <1>1, XSSActiveVerdictIs, XSSActiveProbed DEF Reported
<1>3. server.echo # "none" /\ server \in Servers
  BY <1>2, FormIs DEF HasMarker, Silent, DetectorInv
<1>4. answers[Value("marker")].type # "json"
  BY <1>2, <1>3, AnswerIs DEF Misled
<1>5. ClassifyReflection(answers[Value("script")]) \notin {"none", "html_encoded"}
  BY <1>1, <1>2, <1>4, XSSActiveVerdictIs DEF Reported
<1>6. Got(answers, Value("script"))
  BY <1>1, <1>2, <1>4, XSSActiveProbed DEF GoesOn, XSSActiveGoesOn
<1>7. Intact(answers[Value("script")])
  BY <1>5, <1>6, FormIs, ReflectionIs
<1>8. Value("script").what = "script"
  BY DEF Value, Request
<1>9. EchoForm(server.echo, "script") = "raw"
  BY <1>6, <1>7, <1>8, FormIs DEF Intact
<1>10. server.echo \in EchoKinds
  BY <1>3, DetectorAssumption
<1> QED  BY <1>9, <1>10 DEF EchoForm, EchoKinds, Meta, Reacts

LEMMA XSSActiveReacts ==
  ASSUME DetectorInv, detector = "xssactive", Todo = {}, result = Verdict,
         Reacts(server, detector), Visible, server.noise # "flaky"
  PROVE  result.outcome = "finding"
<1>1. /\ server.echo \in {"plain", "filtering", "dropping"} /\ server \in Servers
      /\ server.echo = "plain" \/ server.type = "json"
      /\ result = XSSActiveVerdict(answers)
  BY DEF Reacts, Visible, Verdict, DetectorInv
<1>2. Value("marker").what = "marker" /\ Value("script").what = "script"
  BY DEF Value, Request
<1>3. /\ EchoForm(server.echo, "marker") = "raw"
      /\ server.echo = "plain" => EchoForm(server.echo, "script") = "raw"
  BY <1>1 DEF EchoForm
<1>4. Got(answers, Value("marker")) /\ HasMarker(answers[Value("marker")])
  BY <1>2, <1>3, XSSActiveProbed, FormIs DEF HasMarker
<1>5. CASE answers[Value("marker")].type = "json"
  BY <1>1, <1>4, <1>5, XSSActiveVerdictIs
<1>6. CASE answers[Value("marker")].type # "json"
  <2>1. Got(answers, Value("script"))
    BY <1>4, <1>6, XSSActiveProbed DEF GoesOn, XSSActiveGoesOn
  <2>2. server.echo = "plain"
    BY <1>1, <1>4, <1>6, AnswerIs
  <2>3. ClassifyReflection(answers[Value("script")]) \notin {"none", "html_encoded"}
    BY <1>2, <1>3, <2>1, <2>2, FormIs, ReflectionIs DEF Intact
  <2> QED  BY <1>1, <1>4, <1>6, <2>3, XSSActiveVerdictIs
<1> QED  BY <1>5, <1>6

-----------------------------------------------------------------------------
(* idor and idoractive.                                                    *)
LEMMA LegitIs ==
  /\ Owner.what = "legit" /\ Owner.as = "scan" /\ Owner = Value("legit")
  /\ Cross.what = "legit" /\ Cross.as # "scan"
  /\ KnownBad.what = "missing" /\ KnownBad.as # "scan"
  /\ Value("missing").what = "missing"
BY DetectorAssumption DEF Owner, Cross, KnownBad, AsIdentity, Value, Request

LEMMA IDORAsked ==
  ASSUME DetectorInv, detector = "idor", NEW p \in DOMAIN answers, p # Owner
  PROVE  p.what = "legit" /\ p.as # "scan" /\ Got(answers, Owner) /\ IDORGoesOn(answers)
<1>1. Probes = IDORProbes
  BY DEF Probes
<1>2. PICK i \in DOMAIN IDORProbes : p = IDORProbes[i]
  BY <1>1 DEF DetectorInv, AskedProbes, Range
<1>3. i \in 2 .. Len(Contexts) /\ p = AsIdentity(Contexts[i], "legit")
  BY <1>2, IDORProbesAre DEF IsList
<1>4. p.what = "legit" /\ p.as = Contexts[i]
  BY <1>3 DEF AsIdentity, Request
<1>5. Got(answers, Owner) /\ IDORGoesOn(answers)
  BY DEF DetectorInv, InOrder, IDORInOrder
<1> QED  BY <1>3, <1>4, <1>5, DetectorAssumption

LEMMA IDORVerdictIs ==
  ASSUME NEW a
  PROVE  LET v == IDORVerdict(a) IN
         /\ v.outcome = "finding" => Analyzable(a[Owner]) /\ Crosses(a) # {}
         /\ Analyzable(a[Owner]) /\ Crosses(a) # {} =>
              v.outcome = "finding" /\ v.evidence = {Owner} \cup Crosses(a)
<1>1. CASE Analyzable(a[Owner]) /\ Crosses(a) # {}
  <2>1. IDORVerdict(a) = IDORFinding(a)
    BY <1>1 DEF IDORVerdict
  <2>2. IDORFinding(a).outcome = "finding" /\ IDORFinding(a).evidence = {Owner} \cup Crosses(a)
    BY FindingIs DEF IDORFinding, IDOREvidence
  <2> QED  BY <1>1, <2>1, <2>2
<1>2. CASE ~Analyzable(a[Owner])
  <2>1. IDORVerdict(a) = Skipped
    BY <1>2 DEF IDORVerdict
  <2> QED  BY <1>2, <2>1, NoFindingIs
<1>3. CASE Analyzable(a[Owner]) /\ Crosses(a) = {}
  <2>1. IDORVerdict(a) = NoFinding
    BY <1>3 DEF IDORVerdict
  <2> QED  BY <1>3, <2>1, NoFindingIs
<1> QED  BY <1>1, <1>2, <1>3

LEMMA IDORProof ==
  ASSUME DetectorInv, detector = "idor", Reported
  PROVE  \E p \in result.evidence : Got(answers, p) /\ Proves(p)
<1>1. result = IDORVerdict(answers)
  BY ReportIs DEF Verdict
<1>2. Crosses(answers) # {} /\ result.evidence = {Owner} \cup Crosses(answers)
  BY <1>1, IDORVerdictIs DEF Reported
<1>3. PICK p \in DOMAIN answers \ {Owner} : LooksAllowed(answers[p]) /\ p \in result.evidence
  BY <1>2 DEF Crosses
<1>4. p.what = "legit" /\ p.as # "scan"
  BY <1>3, IDORAsked
<1> QED  BY <1>3, <1>4 DEF Proves, Got

(* Who is refused, and what the owner sees.                                *)
LEMMA ObjectAnswers ==
  ASSUME DetectorInv, NEW p, Got(answers, p), p.what = "legit"
  PROVE  LET r == answers[p] IN
         /\ "id" \in r.marks => server.lookup
         /\ p.as # "scan" /\ server.lookup /\ server.reacts # "open" =>
              r.page \in {"denied", "failure"} /\ ~LooksAllowed(r)
         /\ /\ server.noise # "flaky" /\ server.lookup
            /\ p.as = "scan" \/ server.reacts = "open"
            => /\ LooksAllowed(r) /\ ResourceSpecific(r) /\ r.page = "data"
               /\ r.marks = {m \in {"mysql", "generic"} : server.errors = m} \cup {"id"}
<1>1. /\ Failure(server, answers[p]) \/ Answer(server, p, answers[p])
      /\ Refuses(server, p) <=> server.reacts # "open" /\ server.lookup /\ p.as # "scan"
  BY AnswerIs DEF Refuses
<1>2. CASE Failure(server, answers[p])
  BY <1>2 DEF Failure, LooksAllowed
<1>3. CASE Answer(server, p, answers[p])
  <2>1. CASE Refuses(server, p)
    <3>1. Page(server, p) = "denied" /\ Status(server, p) = "denied"
      BY <2>1, PageIs, StatusIs
    <3>2. "id" \notin Marks(server, p)
      BY <3>1, MarksAre
    <3> QED  BY <1>1, <1>3, <2>1, <3>1, <3>2 DEF Answer, LooksAllowed
  <2>2. CASE ~Refuses(server, p) /\ server.lookup
    <3>1. Page(server, p) = "data" /\ Status(server, p) = "ok"
      BY <2>2, PageIs, StatusIs
    <3>2. Marks(server, p) = {m \in {"mysql", "generic"} : server.errors = m} \cup {"id"}
      BY <3>1, PlainMarks
    <3> QED  BY <1>1, <1>3, <2>2, <3>1, <3>2 DEF Answer, LooksAllowed, ResourceSpecific
  <2>3. CASE ~server.lookup
    <3>1. Page(server, p) = "static"
      BY <1>1, <2>3, PageIs
    <3>2. "id" \notin Marks(server, p)
      BY <3>1, MarksAre
    <3> QED  BY <1>3, <2>3, <3>2 DEF Answer
  <2> QED  BY <1>1, <2>1, <2>2, <2>3
<1> QED  BY <1>1, <1>2, <1>3

LEMMA IDORQuiet ==
  ASSUME DetectorInv, detector = "idor", Reported, ~Misled
  PROVE  Reacts(server, detector)
<1>1. result = IDORVerdict(answers) /\ server.echo = "none"
  BY ReportIs DEF Verdict, Misled
<1>2. PICK p \in DOMAIN answers \ {Owner} : LooksAllowed(answers[p])
  BY <1>1, IDORVerdictIs DEF Reported, Crosses
<1>3. p.what = "legit" /\ p.as # "scan" /\ Got(answers, Owner) /\ IDORGoesOn(answers)
  BY <1>2, IDORAsked
<1>4. "id" \in answers[Owner].marks
  BY <1>1, <1>3, FormIs DEF IDORGoesOn, ResourceSpecific, Silent
<1>5. server.lookup
  BY <1>3, <1>4, LegitIs, ObjectAnswers
<1>6. server.reacts = "open"
  BY <1>2, <1>3, <1>5, ObjectAnswers DEF Got
<1> QED  BY <1>5, <1>6 DEF Reacts

LEMMA IDORReacts ==
  ASSUME DetectorInv, detector = "idor", Todo = {}, result = Verdict,
         Reacts(server, detector), Readable, server.noise # "flaky"
  PROVE  result.outcome = "finding"
<1>1. server.reacts = "open" /\ server.lookup /\ server.type # "binary"
      /\ result = IDORVerdict(answers) /\ Probes = IDORProbes
  BY DEF Reacts, Readable, Passive, Verdict, Probes
<1>2. GoesOn
  BY <1>1, LegitIs, ObjectAnswers, AnswerIs DEF GoesOn, IDORGoesOn, Analyzable
<1>3. 1 \in DOMAIN IDORProbes /\ 2 \in DOMAIN IDORProbes /\ 2 \in 2 .. Len(Contexts)
  BY IDORProbesAre DEF IsList
<1> DEFINE p == AsIdentity(Contexts[2], "legit")
<1>4. Got(answers, Owner) /\ Got(answers, p)
  BY <1>1, <1>2, <1>3, IDORProbesAre, AllGot
<1>5. p.what = "legit" /\ p.as # "scan"
  BY <1>3, DetectorAssumption DEF AsIdentity, Request
<1> HIDE DEF p
<1>6. p \in Crosses(answers)
  BY <1>1, <1>4, <1>5, LegitIs, ObjectAnswers DEF Crosses, Got
<1>7. Analyzable(answers[Owner])
  BY <1>1, <1>4, AnswerIs DEF Analyzable
<1> QED  BY <1>1, <1>6, <1>7, IDORVerdictIs

LEMMA IDORActiveProbed ==
  ASSUME detector = "idoractive", Todo = {}, GoesOn
  PROVE  Got(answers, Value("legit")) /\ Got(answers, Cross) /\ Got(answers, KnownBad)
<1>1. Probes = <<Value("legit"), Cross, KnownBad>>
  BY DEF Probes, IDORActiveProbes
<1> QED  BY <1>1, AllGot

LEMMA IDORActiveVerdictIs ==
  ASSUME NEW a
  PROVE  LET v == IDORActiveVerdict(a)
             found == /\ Got(a, KnownBad)
                      /\ ~StructurallyDifferent(a[Value("legit")], a[Cross])
                      /\ StructurallyDifferent(a[KnownBad], a[Cross])
         IN /\ v.outcome = "finding" <=> found
            /\ found => v.evidence = DOMAIN a
<1> DEFINE found == /\ Got(a, KnownBad)
                    /\ ~StructurallyDifferent(a[Value("legit")], a[Cross])
                    /\ StructurallyDifferent(a[KnownBad], a[Cross])
<1>1. CASE found
  <2>1. IDORActiveVerdict(a) = IDORActiveFinding(a)
    BY <1>1 DEF IDORActiveVerdict
  <2> QED  BY <1>1, <2>1, FindingIs DEF IDORActiveFinding
<1>2. CASE ~found
  <2>1. IDORActiveVerdict(a) = NoFinding
    BY <1>2 DEF IDORActiveVerdict
  <2> QED  BY <1>2, <2>1, NoFindingIs
<1> QED  BY <1>1, <1>2

LEMMA IDORActiveFound ==
  ASSUME DetectorInv, detector = "idoractive", Reported
  PROVE  /\ Got(answers, Value("legit")) /\ Got(answers, Cross) /\ Got(answers, KnownBad)
         /\ SuccessfulObject(answers[Cross]) /\ result.evidence = DOMAIN answers
         /\ ~StructurallyDifferent(answers[Value("legit")], answers[Cross])
         /\ StructurallyDifferent(answers[KnownBad], answers[Cross])
<1>1. result = IDORActiveVerdict(answers)
  BY ReportIs DEF Verdict
<1>2. /\ Got(answers, KnownBad) /\ result.evidence = DOMAIN answers
      /\ ~StructurallyDifferent(answers[Value("legit")], answers[Cross])
      /\ StructurallyDifferent(answers[KnownBad], answers[Cross])
  BY <1>1, IDORActiveVerdictIs DEF Reported
<1>3. Got(answers, Cross) /\ SuccessfulObject(answers[Cross])
  BY <1>2 DEF DetectorInv, InOrder, IDORActiveInOrder
<1>4. Probes[1] = Value("legit")
  BY DEF Probes, IDORActiveProbes
<1>5. Got(answers, Value("legit"))
  BY <1>3, <1>4 DEF DetectorInv, FirstAsked, Got
<1> QED  BY <1>2, <1>3, <1>5

LEMMA IDORActiveProof ==
  ASSUME DetectorInv, detector = "idoractive", Reported
  PROVE  \E p \in result.evidence : Got(answers, p) /\ Proves(p)
<1>1. Got(answers, Cross) /\ SuccessfulObject(answers[Cross]) /\ result.evidence = DOMAIN answers
  BY IDORActiveFound
<1>2. Cross \in result.evidence /\ Proves(Cross)
  BY <1>1, LegitIs DEF Proves, SuccessfulObject, Got
<1> QED  BY <1>1, <1>2

LEMMA IDORActiveQuiet ==
  ASSUME DetectorInv, detector = "idoractive", Reported, ~Misled
  PROVE  Reacts(server, detector)
<1> DEFINE cross == answers[Cross]
           bad == answers[KnownBad]
<1>1. /\ Got(answers, Cross) /\ Got(answers, KnownBad) /\ SuccessfulObject(cross)
      /\ StructurallyDifferent(bad, cross)
  BY IDORActiveFound
<1>2. /\ server.noise \notin {"words", "flaky"} /\ server.echo = "none" /\ server \in Servers
  BY DEF Misled, Comparing, DetectorInv
<1>3. ASSUME ~server.lookup
      PROVE  FALSE
  <2>1. /\ bad.page = "static" /\ bad.status = "ok" /\ bad.type = server.type
        /\ bad.words = 0
        /\ bad.marks = {m \in {"mysql", "generic"} : server.errors = m}
    BY <1>1, <1>2, <1>3, LegitIs, PlainAnswer DEF PlainPage, PlainStatus
  <2>2. /\ Answer(server, Cross, cross) /\ cross.type = server.type
    BY <1>1, <1>2, AnswerIs DEF Failure
  <2>3. Page(server, Cross) = "static"
    BY <1>3, LegitIs, PageIs DEF Refuses
  <2>4. Status(server, Cross) = "ok"
    BY <2>3, LegitIs, StatusIs
  <2>5. Marks(server, Cross) = {m \in {"mysql", "generic"} : server.errors = m}
                                 \cup {m \in {"id"} : Page(server, Cross) = "data"}
    BY <2>3, LegitIs, PlainMarks
  <2>6. /\ cross.page = "static" /\ cross.status = "ok" /\ cross.words = 0
        /\ cross.marks = {m \in {"mysql", "generic"} : server.errors = m}
    BY <1>2, <2>2, <2>3, <2>4, <2>5 DEF Answer
  <2>7. cross.echo = Silent /\ bad.echo = Silent
    BY <1>1, <1>2, FormIs
  <2> QED  BY <1>1, <2>1, <2>2, <2>6, <2>7
              DEF StructurallyDifferent, NormalizedDiffers, NormalizeBody
<1>4. server.reacts = "open"
  BY <1>1, <1>3, LegitIs, ObjectAnswers DEF SuccessfulObject
<1> QED  BY <1>3, <1>4 DEF Reacts

LEMMA IDORActiveReacts ==
  ASSUME DetectorInv, detector = "idoractive", Todo = {}, result = Verdict,
         Reacts(server, detector), Visible, server.noise # "flaky"
  PROVE  result.outcome = "finding"
<1> DEFINE legit == answers[Value("legit")]
           cross == answers[Cross]
           bad == answers[KnownBad]
<1>1. /\ server.reacts = "open" /\ server.lookup /\ server.noise # "words"
      /\ result = IDORActiveVerdict(answers)
  BY DEF Reacts, Visible, Verdict
<1>2. Value("legit").what = "legit" /\ Value("legit").as = "scan"
  BY LegitIs
<1>3. GoesOn
  BY <1>1, <1>2, LegitIs, ObjectAnswers DEF GoesOn, IDORActiveGoesOn, SuccessfulObject
<1>4. Got(answers, Value("legit")) /\ Got(answers, Cross) /\ Got(answers, KnownBad)
  BY <1>3, IDORActiveProbed
<1>5. /\ legit.page = "data" /\ cross.page = "data" /\ legit.status = "ok" /\ cross.status = "ok"
      /\ legit.marks = cross.marks
  BY <1>1, <1>2, <1>4, LegitIs, ObjectAnswers DEF LooksAllowed
<1>6. /\ Answer(server, Value("legit"), legit) /\ Answer(server, Cross, cross)
      /\ Answer(server, KnownBad, bad) /\ legit.type = cross.type
  BY <1>4, AnswerIs DEF Failure
<1>7. legit.words = 0 /\ cross.words = 0 /\ legit.echo = cross.echo
  BY <1>1, <1>2, <1>6, LegitIs DEF Answer, Echo
<1>8. bad.page = "missing"
  BY <1>1, <1>6, LegitIs, PageIs DEF Answer
<1> HIDE DEF legit, cross, bad
<1>9. ~StructurallyDifferent(legit, cross)
  BY <1>5, <1>6, <1>7 DEF StructurallyDifferent, NormalizedDiffers, NormalizeBody
<1>10. StructurallyDifferent(bad, cross)
  BY <1>5, <1>8, DifferentPages DEF StructurallyDifferent, NormalizedDiffers
<1> QED  BY <1>1, <1>4, <1>9, <1>10, IDORActiveVerdictIs DEF legit, cross, bad

-----------------------------------------------------------------------------
(* traversal and traversalactive.                                          *)
LEMMA FileAnswers ==
  ASSUME DetectorInv, NEW p, Got(answers, p), p.what = "file"
  PROVE  LET r == answers[p] IN
         /\ "proof" \in r.marks => server.reacts = "files"
         /\ /\ server.noise # "flaky" /\ server.reacts = "files"
            /\ p.form \in server.through /\ "marked" \in server.through
            => LooksAllowed(r) /\ "proof" \in r.marks
<1>1. Failure(server, answers[p]) \/ Answer(server, p, answers[p])
  BY AnswerIs
<1>2. Page(server, p) = "file" <=> server.reacts = "files" /\ p.form \in server.through
  BY PageIs DEF Takes
<1>3. Page(server, p) = "file" => Status(server, p) = "ok"
  BY StatusIs
<1>4. "proof" \in Marks(server, p) <=> Page(server, p) = "file" /\ "marked" \in server.through
  BY MarksAre
<1> QED  BY <1>1, <1>2, <1>3, <1>4 DEF Failure, Answer, LooksAllowed

LEMMA TriedFile ==
  ASSUME DetectorInv, detector \in {"traversal", "traversalactive"}, Tried
  PROVE  \E i \in DOMAIN Probes : Probes[i].what = "file" /\ Probes[i].form \in server.through
<1>1. PICK i \in 1 .. Len(Probes) :
        /\ Probes[i].what \in {"shell", "file", "redirect", "template"}
        /\ Probes[i].form \in server.through
  BY DEF Tried
<1>2. Value("legit").what = "legit" /\ Value("missing").what = "missing"
  BY DEF Value, Request
<1>3. PICK n \in Nat \ {0} : IsList(Probes, n)
  BY ProbesAreList DEF DetectorInv
<1>4. i \in DOMAIN Probes /\ i \in 1 .. n
  BY <1>3 DEF IsList
<1>5. CASE detector = "traversal"
  <2>1. Probes = TraversalProbes
    BY <1>5 DEF Probes
  <2>2. PICK m \in Nat :
          /\ DOMAIN Probes = 1 .. m + 2
          /\ Probes[1] = Value("legit") /\ Probes[2] = Value("missing")
          /\ \A j \in 1 .. m : Probes[j + 2].what = "file"
    BY <2>1, TraversalProbesAre DEF IsList
  <2>3. i # 1 /\ i # 2
    BY <1>1, <1>2, <2>2
  <2>4. i - 2 \in 1 .. m /\ (i - 2) + 2 = i
    BY <1>4, <2>2, <2>3
  <2> QED  BY <1>1, <1>4, <2>2, <2>4
<1>6. CASE detector = "traversalactive"
  <2>1. Probes = TraversalActiveProbes(target.location)
    BY <1>6 DEF Probes
  <2>2. PICK m \in Nat :
          /\ DOMAIN Probes = 1 .. m + 1
          /\ Probes[1] = Value("legit") /\ \A j \in 1 .. m : Probes[j + 1].what = "file"
    BY <2>1, TraversalActiveProbesAre DEF IsList
  <2>3. i # 1
    BY <1>1, <1>2, <2>2
  <2>4. i - 1 \in 1 .. m /\ (i - 1) + 1 = i
    BY <1>4, <2>2, <2>3
  <2> QED  BY <1>1, <1>4, <2>2, <2>4
<1> QED  BY <1>5, <1>6

LEMMA TraversalVerdictIs ==
  ASSUME NEW a
  PROVE  LET v == TraversalVerdict(a) IN
         /\ v.outcome = "finding" => Confirmed(a) \cup Suspicious(a) # {}
         /\ v.outcome = "finding" /\ v.confidence >= 90 =>
              Confirmed(a) # {} /\ v.evidence = {Value("legit"), Value("missing")} \cup Confirmed(a)
         /\ Analyzable(a[Value("legit")]) /\ Confirmed(a) # {} => v.outcome = "finding"
<1>1. ~(55 >= 90)
  OBVIOUS
<1>2. /\ TraversalFinding(a).outcome = "finding"
      /\ Confirmed(a) = {} => TraversalFinding(a).confidence = 55
      /\ Confirmed(a) # {} =>
           TraversalFinding(a).evidence = {Value("legit"), Value("missing")} \cup Confirmed(a)
  BY FindingIs DEF TraversalFinding, TraversalEvidence
<1>3. CASE Confirmed(a) \cup Suspicious(a) = {}
  <2>1. TraversalVerdict(a) \in {Skipped, NoFinding}
    BY <1>3 DEF TraversalVerdict
  <2> QED  BY <1>3, <2>1, NoFindingIs
<1>4. CASE Confirmed(a) \cup Suspicious(a) # {}
  <2>1. TraversalVerdict(a) \in {Skipped, TraversalFinding(a)}
    BY <1>4 DEF TraversalVerdict
  <2>2. Analyzable(a[Value("legit")]) => TraversalVerdict(a) = TraversalFinding(a)
    BY <1>4 DEF TraversalVerdict
  <2> QED  BY <1>1, <1>2, <1>4, <2>1, <2>2, NoFindingIs
<1> QED  BY <1>3, <1>4

LEMMA TraversalProof ==
  ASSUME DetectorInv, detector = "traversal", Reported, result.confidence >= 90
  PROVE  \E p \in result.evidence : Got(answers, p) /\ Proves(p)
<1>1. result = TraversalVerdict(answers)
  BY ReportIs DEF Verdict
<1>2. PICK p \in Confirmed(answers) : p \in result.evidence
  BY <1>1, TraversalVerdictIs DEF Reported
<1> QED  BY <1>2 DEF Confirmed, Asked, Got, Proves

LEMMA TraversalQuiet ==
  ASSUME DetectorInv, detector = "traversal", Reported, ~Misled
  PROVE  Reacts(server, detector)
<1> SUFFICES ASSUME server.reacts # "files" PROVE FALSE
  BY DEF Reacts
<1>1. result = TraversalVerdict(answers) /\ server.noise \notin {"words", "flaky"}
      /\ server \in Servers
  BY ReportIs DEF Verdict, Misled, Comparing, DetectorInv
<1>2. Confirmed(answers) = {}
  BY FileAnswers DEF Confirmed, Asked, Got
<1>3. PICK p \in Suspicious(answers) : TRUE
  BY <1>1, <1>2, TraversalVerdictIs DEF Reported
<1>4. p.what = "file" /\ Got(answers, p) /\ ~SameStripped(answers[p], answers[Value("missing")])
  BY <1>3 DEF Suspicious, Asked, Got
<1>5. Got(answers, Value("missing")) /\ Value("missing").what = "missing"
  BY <1>4, LegitIs DEF DetectorInv, InOrder, TraversalInOrder, Asked, Got
<1> DEFINE r == answers[p]
           q == answers[Value("missing")]
<1>6. /\ DOMAIN r = Fields /\ DOMAIN q = Fields /\ r.page = q.page /\ r.words = q.words
      /\ r.marks = q.marks
      /\ r.echo = Echo(server, p) /\ q.echo = Echo(server, Value("missing"))
  BY <1>1, <1>4, <1>5, PlainAnswer
<1>7. Erasable(r) /\ Erasable(q)
  BY <1>1, <1>4, <1>5, <1>6, ErasableIs DEF Meta
<1> HIDE DEF r, q
<1>8. SameStripped(r, q)
  BY <1>6, <1>7, SameWithout
<1> QED  BY <1>4, <1>8 DEF r, q

(* The value found, of an endpoint that does not look at it.               *)
LEMMA LegitAnswer ==
  ASSUME DetectorInv, Got(answers, Value("legit")), server.noise # "flaky"
  PROVE  LET r == answers[Value("legit")] IN
         /\ LooksAllowed(r) /\ r.type = server.type
         /\ "product" \notin r.marks
         /\ server.noise # "digits" => r.digits = 0
<1>1. Value("legit").what = "legit" /\ Value("legit").as = "scan"
  BY LegitIs
<1>2. ~Refuses(server, Value("legit"))
  BY <1>1 DEF Refuses
<1>3. Page(server, Value("legit")) \in {"data", "static"}
  BY <1>1, <1>2, PageIs
<1>4. Status(server, Value("legit")) = "ok"
  BY <1>1, <1>3, StatusIs
<1>5. "product" \notin Marks(server, Value("legit"))
  BY <1>1, MarksAre
<1> QED  BY <1>4, <1>5, AnswerIs DEF Answer, Failure, LooksAllowed

LEMMA TraversalReacts ==
  ASSUME DetectorInv, detector = "traversal", Todo = {}, result = Verdict,
         Reacts(server, detector), Visible, Readable, server.noise # "flaky"
  PROVE  result.outcome = "finding"
<1>1. /\ server.reacts = "files" /\ Tried /\ "marked" \in server.through
      /\ server.type # "binary" /\ result = TraversalVerdict(answers)
  BY DEF Reacts, Visible, Readable, Passive, Verdict
<1>2. GoesOn
  BY <1>1, LegitAnswer DEF GoesOn, TraversalGoesOn, Analyzable
<1>3. PICK i \in DOMAIN Probes : Probes[i].what = "file" /\ Probes[i].form \in server.through
  BY <1>1, TriedFile
<1>4. Settled(i)
  BY <1>2, AllSettled
<1>5. Confirmed(answers) # {}
  <2>1. CASE Got(answers, Probes[i])
    BY <1>1, <1>3, <2>1, FileAnswers DEF Confirmed, Asked, Got
  <2>2. CASE Proven(answers, Probes[i])
    BY <2>2 DEF Proven
  <2> QED  BY <1>4, <2>1, <2>2 DEF Settled
<1>6. Got(answers, Value("legit"))
  <2>1. DOMAIN answers # {}
    BY <1>5 DEF Confirmed, Asked
  <2>2. Probes[1] = Value("legit")
    BY TraversalProbesAre DEF Probes
  <2> QED  BY <2>1, <2>2 DEF DetectorInv, FirstAsked
<1>7. Analyzable(answers[Value("legit")])
  BY <1>1, <1>6, LegitAnswer DEF Analyzable
<1> QED  BY <1>1, <1>5, <1>7, TraversalVerdictIs

(* A verdict that rests on the answers that show a proof.                  *)
ProofVerdict(allowed, shown, severity, confidence) ==
  CASE ~allowed -> Skipped
    [] shown # {} -> Finding(severity, confidence, {Value("legit")} \cup shown)
    [] OTHER -> NoFinding

LEMMA ProofVerdictIs ==
  ASSUME NEW allowed \in BOOLEAN, NEW shown, NEW severity, NEW confidence
  PROVE  LET verdict == ProofVerdict(allowed, shown, severity, confidence) IN
         /\ verdict.outcome = "finding" =>
              shown # {} /\ verdict.evidence = {Value("legit")} \cup shown
         /\ allowed /\ shown # {} => verdict.outcome = "finding"
<1> DEFINE verdict == ProofVerdict(allowed, shown, severity, confidence)
<1>1. CASE shown = {}
  <2>1. verdict \in {Skipped, NoFinding}
    BY <1>1 DEF ProofVerdict
  <2> QED  BY <1>1, <2>1, NoFindingIs
<1>2. CASE shown # {}
  <2>1. verdict \in {Skipped, Finding(severity, confidence, {Value("legit")} \cup shown)}
    BY <1>2 DEF ProofVerdict
  <2>2. allowed => verdict = Finding(severity, confidence, {Value("legit")} \cup shown)
    BY <1>2 DEF ProofVerdict
  <2> QED  BY <1>2, <2>1, <2>2, NoFindingIs, FindingIs
<1> QED  BY <1>1, <1>2

LEMMA TraversalActiveVerdictIs ==
  ASSUME detector = "traversalactive"
  PROVE  /\ Verdict.outcome = "finding" =>
              /\ ShowsProof(answers) # {}
              /\ Verdict.evidence = {Value("legit")} \cup ShowsProof(answers)
         /\ LooksAllowed(answers[Value("legit")]) /\ ShowsProof(answers) # {} =>
              Verdict.outcome = "finding"
<1>1. LooksAllowed(answers[Value("legit")]) \in BOOLEAN
  BY DEF LooksAllowed
<1>2. Verdict = ProofVerdict(LooksAllowed(answers[Value("legit")]), ShowsProof(answers),
                             "critical", 90)
  BY DEF Verdict, TraversalActiveVerdict, TraversalActiveFinding, ProofVerdict
<1> QED  BY <1>1, <1>2, ProofVerdictIs

LEMMA TraversalActiveProof ==
  ASSUME DetectorInv, detector = "traversalactive", Reported
  PROVE  \E p \in result.evidence : Got(answers, p) /\ Proves(p)
<1>1. PICK p \in ShowsProof(answers) : p \in result.evidence
  BY ReportIs, TraversalActiveVerdictIs DEF Reported
<1> QED  BY <1>1 DEF ShowsProof, Asked, Got, Proves

LEMMA TraversalActiveQuiet ==
  ASSUME DetectorInv, detector = "traversalactive", Reported
  PROVE  Reacts(server, detector)
<1>1. PICK p \in ShowsProof(answers) : TRUE
  BY ReportIs, TraversalActiveVerdictIs DEF Reported
<1> QED  BY <1>1, FileAnswers DEF ShowsProof, Asked, Got, Reacts

LEMMA TraversalActiveReacts ==
  ASSUME DetectorInv, detector = "traversalactive", Todo = {}, result = Verdict,
         Reacts(server, detector), Visible, server.noise # "flaky"
  PROVE  result.outcome = "finding"
<1>1. server.reacts = "files" /\ Tried /\ "marked" \in server.through
  BY DEF Reacts, Visible
<1>2. PICK i \in DOMAIN Probes : Probes[i].what = "file" /\ Probes[i].form \in server.through
  BY <1>1, TriedFile
<1>3. ShowsProof(answers) # {}
  <2>1. CASE GoesOn
    BY <1>1, <1>2, <2>1, AllGot, FileAnswers DEF ShowsProof, Asked, Got
  <2>2. CASE ~GoesOn
    BY <2>2, LegitAnswer DEF GoesOn, TraversalActiveGoesOn
  <2> QED  BY <2>1, <2>2
<1>4. Got(answers, Value("legit"))
  <2>1. DOMAIN answers # {}
    BY <1>3 DEF ShowsProof, Asked
  <2>2. Probes[1] = Value("legit")
    BY TraversalActiveProbesAre DEF Probes
  <2> QED  BY <2>1, <2>2 DEF DetectorInv, FirstAsked
<1> QED  BY <1>3, <1>4, LegitAnswer, TraversalActiveVerdictIs

-----------------------------------------------------------------------------
(* cmdinjection, cmdinjectionactive, openredirectactive and sstiactive: a  *)
(* first request with the value found, then variants of one sort.          *)
VariantSort ==
  CASE detector \in {"cmdinjection", "cmdinjectionactive"} -> "shell"
    [] detector = "openredirectactive" -> "redirect"
    [] detector = "sstiactive" -> "template"

Varying == {"cmdinjection", "cmdinjectionactive", "openredirectactive", "sstiactive"}

LEMMA VariantsAre ==
  ASSUME detector \in Varying
  PROVE  /\ Probes[1] = Value("legit")
         /\ \E n \in Nat : /\ IsList(Probes, n + 1)
                           /\ \A i \in 1 .. n : Probes[i + 1].what = VariantSort
<1>1. \A what, form : Variant(what, form).what = what
  BY DEF Variant, Request
<1>2. CASE detector \in {"cmdinjection", "cmdinjectionactive"}
  <2>1. PICK variants \in {CommandVariants, ActiveVariants} : Probes = CommandProbes(variants)
    BY <1>2 DEF Probes
  <2>2. Len(variants) \in Nat
    BY DEF CommandVariants, ActiveVariants
  <2> QED  BY <1>1, <1>2, <2>1, <2>2, CommandProbesAre DEF VariantSort
<1>3. CASE detector = "openredirectactive"
  <2>1. Probes = RedirectProbes(target.location)
    BY <1>3 DEF Probes
  <2>2. Len(RedirectForms(target.location)) \in Nat
    BY DEF RedirectForms
  <2> QED  BY <1>1, <1>3, <2>1, <2>2, RedirectProbesAre DEF VariantSort
<1>4. CASE detector = "sstiactive"
  <2>1. Probes = SSTIProbes
    BY <1>4 DEF Probes
  <2>2. Len(Syntaxes) \in Nat
    BY DEF Syntaxes
  <2> QED  BY <1>1, <1>4, <2>1, <2>2, SSTIProbesAre DEF VariantSort
<1> QED  BY <1>2, <1>3, <1>4 DEF Varying

LEMMA TriedVariant ==
  ASSUME detector \in Varying, Tried
  PROVE  \E i \in DOMAIN Probes : Probes[i].what = VariantSort /\ Probes[i].form \in server.through
<1>1. PICK i \in 1 .. Len(Probes) :
        /\ Probes[i].what \in {"shell", "file", "redirect", "template"}
        /\ Probes[i].form \in server.through
  BY DEF Tried
<1>2. Value("legit").what = "legit"
  BY DEF Value, Request
<1>3. PICK n \in Nat : /\ IsList(Probes, n + 1)
                       /\ \A j \in 1 .. n : Probes[j + 1].what = VariantSort
  BY VariantsAre
<1>4. i # 1
  BY <1>1, <1>2, VariantsAre
<1>5. i \in DOMAIN Probes /\ i - 1 \in 1 .. n /\ (i - 1) + 1 = i
  BY <1>3, <1>4 DEF IsList
<1> QED  BY <1>1, <1>3, <1>5

(* The answer that shows the proof.                                        *)
Shown ==
  CASE detector \in {"cmdinjection", "cmdinjectionactive"} -> ShowsToken(answers)
    [] detector = "openredirectactive" -> Redirected(answers)
    [] detector = "sstiactive" -> Evaluated(answers)

LEMMA VariantAnswers ==
  ASSUME DetectorInv, detector \in Varying
  PROVE  /\ \A p \in Shown : Got(answers, p) /\ Proves(p)
         /\ ~Misled /\ Shown # {} => Reacts(server, detector)
         /\ Reacts(server, detector) /\ server.noise # "flaky" =>
              \A p \in DOMAIN answers :
                p.what = VariantSort /\ p.form \in server.through => p \in Shown
<1>1. \A p \in DOMAIN answers : Failure(server, answers[p]) \/ Answer(server, p, answers[p])
  BY AnswerIs DEF Got
<1>2. CASE detector \in {"cmdinjection", "cmdinjectionactive"}
  <2>1. Shown = {p \in DOMAIN answers : p.what = "shell" /\ "token" \in answers[p].marks}
    BY <1>2 DEF Shown, ShowsToken, Asked
  <2>2. Reacts(server, detector) <=> server.reacts = "shell"
    BY <1>2 DEF Reacts
  <2>3. \A p : "token" \in Marks(server, p) <=>
                 p.what = "shell" /\ server.reacts = "shell" /\ p.form \in server.through
    BY MarksAre DEF Takes
  <2>4. VariantSort = "shell" /\ \A p : Proves(p) <=> "token" \in answers[p].marks
    BY <1>2 DEF VariantSort, Proves
  <2> QED  BY <1>1, <2>1, <2>2, <2>3, <2>4 DEF Failure, Answer, Got
<1>3. CASE detector = "openredirectactive"
  <2>1. Shown = {p \in DOMAIN answers : /\ p.what = "redirect" /\ answers[p].status = "redirect"
                                        /\ "destination" \in answers[p].marks}
    BY <1>3 DEF Shown, Redirected, Asked
  <2>2. Reacts(server, detector) <=> server.reacts = "redirect"
    BY <1>3 DEF Reacts
  <2>3. \A p : /\ "destination" \in Marks(server, p) <=> Status(server, p) = "redirect"
               /\ Status(server, p) = "redirect" <=>
                    p.what = "redirect" /\ server.reacts = "redirect" /\ p.form \in server.through
    BY MarksAre, StatusIs DEF Takes
  <2>4. VariantSort = "redirect" /\ \A p : Proves(p) <=> "destination" \in answers[p].marks
    BY <1>3 DEF VariantSort, Proves
  <2> QED  BY <1>1, <2>1, <2>2, <2>3, <2>4 DEF Failure, Answer, Got
<1>4. CASE detector = "sstiactive"
  <2>1. Shown = {p \in DOMAIN answers : p.what = "template" /\ ContainsIsolatedNumber(answers[p])}
    BY <1>4 DEF Shown, Evaluated, Asked
  <2>2. Reacts(server, detector) <=> server.reacts = "template"
    BY <1>4 DEF Reacts
  <2>3. \A p : "product" \in Marks(server, p) <=>
                 p.what = "template" /\ server.reacts = "template" /\ p.form \in server.through
    BY MarksAre DEF Takes
  <2>4. VariantSort = "template" /\ \A p : Proves(p) <=> ContainsIsolatedNumber(answers[p])
    BY <1>4 DEF VariantSort, Proves
  <2>5. ~Misled => server.noise # "digits"
    BY <1>4 DEF Misled
  <2> QED  BY <1>1, <2>1, <2>2, <2>3, <2>4, <2>5 DEF Failure, Answer, Got, ContainsIsolatedNumber
<1> QED  BY <1>2, <1>3, <1>4 DEF Varying

(* What these four detectors want of the first answer.                     *)
Accepted ==
  CASE detector = "cmdinjection" -> Analyzable(answers[Value("legit")])
    [] detector \in {"cmdinjectionactive", "sstiactive"} -> LooksAllowed(answers[Value("legit")])
    [] detector = "openredirectactive" -> TRUE

LEMMA VariantVerdict ==
  ASSUME detector \in Varying
  PROVE  /\ Verdict.outcome = "finding" =>
              Shown # {} /\ Verdict.evidence = {Value("legit")} \cup Shown
         /\ Accepted /\ Shown # {} => Verdict.outcome = "finding"
<1>1. CASE detector = "cmdinjection"
  <2>1. Verdict = ProofVerdict(Accepted, Shown, "critical", 95) /\ Accepted \in BOOLEAN
    BY <1>1 DEF Verdict, CommandVerdict, CommandFinding, ProofVerdict, Accepted, Analyzable, Shown
  <2> QED  BY <2>1, ProofVerdictIs
<1>2. CASE detector = "cmdinjectionactive"
  <2>1. Verdict = ProofVerdict(Accepted, Shown, "critical", 95) /\ Accepted \in BOOLEAN
    BY <1>2 DEF Verdict, CommandActiveVerdict, CommandActiveFinding, ProofVerdict, Accepted,
       LooksAllowed, Shown
  <2> QED  BY <2>1, ProofVerdictIs
<1>3. CASE detector = "sstiactive"
  <2>1. Verdict = ProofVerdict(Accepted, Shown, "high", 90) /\ Accepted \in BOOLEAN
    BY <1>3 DEF Verdict, SSTIVerdict, SSTIFinding, ProofVerdict, Accepted, LooksAllowed, Shown
  <2> QED  BY <2>1, ProofVerdictIs
<1>4. CASE detector = "openredirectactive"
  <2>1. Verdict = ProofVerdict(Accepted, Shown, "medium", 90) /\ Accepted \in BOOLEAN
    BY <1>4 DEF Accepted, Verdict, RedirectVerdict, RedirectFinding, ProofVerdict, Shown
  <2> QED  BY <2>1, ProofVerdictIs
<1> QED  BY <1>1, <1>2, <1>3, <1>4 DEF Varying

LEMMA VariantProof ==
  ASSUME DetectorInv, detector \in Varying, Reported
  PROVE  \E p \in result.evidence : Got(answers, p) /\ Proves(p)
<1>1. PICK p \in Shown : p \in result.evidence
  BY ReportIs, VariantVerdict DEF Reported
<1> QED  BY <1>1, VariantAnswers

LEMMA VariantQuiet ==
  ASSUME DetectorInv, detector \in Varying, Reported, ~Misled
  PROVE  Reacts(server, detector)
<1>1. Shown # {}
  BY ReportIs, VariantVerdict DEF Reported
<1> QED  BY <1>1, VariantAnswers

LEMMA VariantReacts ==
  ASSUME DetectorInv, detector \in Varying, Todo = {}, result = Verdict,
         Reacts(server, detector), Visible, Readable, server.noise # "flaky"
  PROVE  result.outcome = "finding"
<1>1. Tried /\ (detector = "sstiactive" => server.noise # "digits")
  BY DEF Visible, Varying
<1>2. detector = "cmdinjection" => server.type # "binary"
  BY DEF Readable, Passive
<1>3. Got(answers, Value("legit")) => Accepted
  BY <1>2, LegitAnswer DEF Accepted, Varying, Analyzable
<1>4. PICK i \in DOMAIN Probes : Probes[i].what = VariantSort /\ Probes[i].form \in server.through
  BY <1>1, TriedVariant
<1>5. Shown # {}
  <2>1. CASE GoesOn
    <3>1. Got(answers, Probes[i])
      BY <2>1, AllGot DEF Varying
    <3> QED  BY <1>4, <3>1, VariantAnswers DEF Got
  <2>2. CASE ~GoesOn
    <3>1. Got(answers, Value("legit")) =>
            /\ LooksAllowed(answers[Value("legit")])
            /\ detector = "cmdinjection" => Analyzable(answers[Value("legit")])
            /\ detector = "sstiactive" => ~ContainsIsolatedNumber(answers[Value("legit")])
      BY <1>1, <1>2, LegitAnswer DEF Analyzable, ContainsIsolatedNumber
    <3> QED  BY <2>2, <3>1 DEF GoesOn, CommandGoesOn, CommandActiveGoesOn, RedirectGoesOn,
                SSTIGoesOn, Shown, Varying
  <2> QED  BY <2>1, <2>2
<1>6. Got(answers, Value("legit"))
  <2>1. DOMAIN answers # {}
    BY <1>5, VariantAnswers DEF Got
  <2> QED  BY <2>1, VariantsAre DEF DetectorInv, FirstAsked
<1> QED  BY <1>3, <1>5, <1>6, VariantVerdict

-----------------------------------------------------------------------------
(* The detectors one by one.                                               *)
LEMMA KindsAre ==
  ASSUME DetectorInv
  PROVE  \/ detector \in {"sqli", "sqliactive"} \/ detector = "ssrf" \/ detector = "ssrfactive"
         \/ detector = "xssreflected" \/ detector = "xssactive" \/ detector = "idor"
         \/ detector = "idoractive" \/ detector = "traversal" \/ detector = "traversalactive"
         \/ detector \in Varying
BY DEF DetectorInv, Kinds, Passive, Active, Varying

(* Whatever the endpoint, a confidence of 90 percent or more rests on an   *)
(* answer in the evidence that shows what the detector asked for.          *)
THEOREM HighConfidenceIsProof == Spec => []HighConfidenceShowsProof
<1>1. DetectorInv => HighConfidenceShowsProof
  <2> SUFFICES ASSUME DetectorInv, Reported, result.confidence >= 90
               PROVE  \E p \in result.evidence : Got(answers, p) /\ Proves(p)
    BY DEF HighConfidenceShowsProof
  <2> QED  BY KindsAre, SqliProof, SSRFProof, SSRFActiveProof, XSSProof, XSSActiveProof, IDORProof,
              IDORActiveProof, TraversalProof, TraversalActiveProof, VariantProof
<1> QED  BY <1>1, DetectorInvAlways, PTL

(* An endpoint that does nothing with the value is never reported, but for *)
(* the cases that Misled names.                                            *)
THEOREM InertIsNotReported == Spec => []InertNeverReported
<1>1. DetectorInv => InertNeverReported
  <2> SUFFICES ASSUME DetectorInv, Reported, ~Misled
               PROVE  Reacts(server, detector)
    BY DEF InertNeverReported
  <2> QED  BY KindsAre, SqliQuiet, SSRFQuiet, SSRFActiveQuiet, XSSQuiet, XSSActiveQuiet, IDORQuiet,
              IDORActiveQuiet, TraversalQuiet, TraversalActiveQuiet, VariantQuiet
<1> QED  BY <1>1, DetectorInvAlways, PTL

(* An endpoint that does what the detector looks for, in a form it tries   *)
(* and where the detector can see it (Visible), and answers steadily is    *)
(* reported by every call that ends without an error.                      *)
THEOREM ReactionsAreFound == Spec => []ReactionIsReported
<1>1. DetectorInv => ReactionIsReported
  <2> SUFFICES ASSUME DetectorInv, Reacts(server, detector), Visible, Readable,
                      server.noise # "flaky", configured
               PROVE  result.outcome \notin {"skipped", "no_finding"}
    BY DEF ReactionIsReported
  <2>1. \A o : Result(o).outcome = o
    BY DEF Result
  <2>2. CASE result \in {Result("running"), Result("error")}
    BY <2>1, <2>2
  <2>3. CASE Todo = {} /\ result = Verdict
    BY <2>3, KindsAre, SqliReacts, SSRFReacts, SSRFActiveReacts, XSSReacts, XSSActiveReacts,
       IDORReacts, IDORActiveReacts, TraversalReacts, TraversalActiveReacts, VariantReacts
  <2> QED  BY <2>2, <2>3 DEF DetectorInv, Returned
<1> QED  BY <1>1, DetectorInvAlways, PTL
=============================================================================
