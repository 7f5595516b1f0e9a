---------------------------- MODULE GatesProofs ----------------------------
(***************************************************************************)
(* What the admission gates and the drain's choice promise, for every      *)
(* delivery, every set of listed issues and every configuration.           *)
(***************************************************************************)
EXTENDS Gates, DispatchPolicy, WellFoundedInduction, TLAPS

(* Every set of numbers has a least one. *)
LEMMA LeastExists ==
  ASSUME NEW S, S \subseteq Nat, S # {}
  PROVE  \E x \in S : \A y \in S : x <= y
<1>1. \E x \in S : \A y \in S : ~ (<<y, x>> \in OpToRel(<, Nat))
  BY WFMin, NatLessThanWellFounded, Zenon
<1>2. PICK x \in S : \A y \in S : ~ (<<y, x>> \in OpToRel(<, Nat))  BY <1>1
<1>3. \A y \in S : ~ (y < x)  BY <1>2, Zenon DEF OpToRel
<1>4. \A y \in S : x <= y  BY <1>3
<1> QED  BY <1>4

(* What a tracker lists: numbers are unique in a repository. *)
Listed(issues) ==
  /\ \A i \in issues : i.number \in Nat /\ i.prios \subseteq Nat
  /\ \A i, k \in issues : i.repo = k.repo /\ i.number = k.number => i = k

LEMMA PriorityIsNat ==
  ASSUME NEW issue, issue.prios \subseteq Nat
  PROVE  Priority(issue) \in Nat
<1>1. CASE issue.prios = {}  BY <1>1 DEF Priority
<1>2. CASE issue.prios # {}
  <2>1. \E p \in issue.prios : \A q \in issue.prios : p <= q  BY <1>2, LeastExists
  <2>2. Priority(issue) \in issue.prios  BY <2>1, <1>2 DEF Priority
  <2> QED  BY <2>2
<1> QED  BY <1>1, <1>2

(***************************************************************************)
(* The two spellings of trust agree: the webhook, which has the set of     *)
(* accounts, and the drain, which has associations, trust the same people  *)
(* on every repository (profiles.py:150-153).                              *)
(***************************************************************************)
THEOREM TrustAgrees ==
  ASSUME NEW actor, NEW repo
  PROVE  actor \in ProfileFor(repo).trusted <=> Association(actor) \in TrustedAssociations(repo)
<1>1. CASE repo = "tv"
  BY <1>1 DEF ProfileFor, Association, TrustedAssociations
<1>2. CASE repo # "tv"
  BY <1>2 DEF ProfileFor, Association, TrustedAssociations
<1> QED  BY <1>1, <1>2

(***************************************************************************)
(* A delivery that is admitted has passed every gate, whichever of the two *)
(* chains judged it, and only a comment continues a run, which then is not *)
(* under way (gates.py:106-186).                                           *)
(***************************************************************************)
THEOREM AdmittedPassedEveryGate ==
  ASSUME NEW d, Admitted(d)
  PROVE  /\ ~KillSwitch /\ d.repo \in Allowlist
         /\ d.open /\ ProfileFor(d.repo).trigger \in d.labels /\ PausedLabel \notin d.labels
         /\ d.actor \in ProfileFor(d.repo).trusted \ ProfileFor(d.repo).ignored
         /\ Decide(d) = "continue" => d.event = "issue_comment" /\ InProgressLabel \notin d.labels
<1>1. IsTrigger(d)  BY DEF Admitted, Decide
<1>2. d.actor \notin ProfileFor(d.repo).ignored /\ d.actor \in ProfileFor(d.repo).trusted
  BY DEF Admitted, Decide
<1>3. PausedLabel \notin d.labels /\ ~KillSwitch /\ d.repo \in Allowlist
  BY DEF Admitted, Decide
<1>4. Decide(d) = "continue" => ByComment(d) /\ InProgressLabel \notin d.labels
  BY DEF Decide
<1>5. d.open /\ ProfileFor(d.repo).trigger \in d.labels  BY <1>1 DEF IsTrigger
<1>6. Decide(d) = "continue" => d.event = "issue_comment"  BY <1>4 DEF ByComment
<1> QED  BY <1>2, <1>3, <1>4, <1>5, <1>6

(***************************************************************************)
(* The bots' own labels and comments are never admitted, so the fixer does *)
(* not call itself.                                                        *)
(***************************************************************************)
THEOREM BotsAreIgnored ==
  ASSUME NEW d, d.actor = Bot
  PROVE  ~Admitted(d)
BY DEF Admitted, Decide, ProfileFor

(***************************************************************************)
(* At most one issue of a repository is started in one drain, it is        *)
(* eligible, and no eligible issue of the repository goes before it.       *)
(***************************************************************************)
THEOREM OneIssuePerRepo ==
  ASSUME NEW issues, NEW inFlight, Listed(issues),
         NEW a \in SelectDispatchable(issues, inFlight), NEW b \in SelectDispatchable(issues, inFlight),
         a.repo = b.repo
  PROVE  a = b
<1>1. a \in issues /\ b \in issues /\ (a = b \/ (Before(a, b) /\ Before(b, a)))
  BY DEF SelectDispatchable
<1>2. Priority(a) \in Nat /\ Priority(b) \in Nat /\ a.number \in Nat /\ b.number \in Nat
  BY <1>1, PriorityIsNat DEF Listed
<1> QED  BY <1>1, <1>2 DEF Before

(***************************************************************************)
(* No repository with work waits: if it has an eligible issue and the loop *)
(* is on, one of its issues is chosen.                                     *)
(***************************************************************************)
THEOREM WorkIsChosen ==
  ASSUME NEW issues, NEW inFlight, Listed(issues), ~KillSwitch,
         NEW i \in issues, IsEligible(i, inFlight)
  PROVE  \E s \in SelectDispatchable(issues, inFlight) : s.repo = i.repo
<1> DEFINE Mine == {k \in issues : IsEligible(k, inFlight) /\ k.repo = i.repo}
           Urgencies == {Priority(k) : k \in Mine}
<1>1. \A k \in Mine : Priority(k) \in Nat /\ k.number \in Nat  BY PriorityIsNat DEF Listed
<1>2. i \in Mine  OBVIOUS
<1>3. PICK p \in Urgencies : \A q \in Urgencies : p <= q
  <2>1. Urgencies \subseteq Nat /\ Urgencies # {}  BY <1>1, <1>2
  <2> HIDE DEF Urgencies
  <2> QED  BY <2>1, LeastExists
<1> DEFINE Numbers == {k.number : k \in {m \in Mine : Priority(m) = p}}
<1>4. PICK n \in Numbers : \A o \in Numbers : n <= o
  <2>1. Numbers \subseteq Nat /\ Numbers # {}  BY <1>1, <1>3
  <2> HIDE DEF Numbers
  <2> QED  BY <2>1, LeastExists
<1>5. PICK s \in Mine : Priority(s) = p /\ s.number = n  BY <1>4
<1>6. ASSUME NEW k \in Mine  PROVE k = s \/ Before(s, k)
  <2>1. p <= Priority(k) /\ p \in Nat /\ Priority(k) \in Nat  BY <1>1, <1>3, <1>5
  <2>2. CASE p < Priority(k)  BY <2>2, <1>5 DEF Before
  <2>3. CASE p = Priority(k)
    <3>1. n <= k.number /\ n \in Nat /\ k.number \in Nat  BY <1>1, <1>4, <1>5, <2>3
    <3>2. CASE n = k.number  BY <3>2, <1>5 DEF Listed
    <3>3. CASE n < k.number  BY <3>3, <2>3, <1>5 DEF Before
    <3> QED  BY <3>1, <3>2, <3>3
  <2> QED  BY <2>1, <2>2, <2>3
<1>7. s \in SelectDispatchable(issues, inFlight)  BY <1>5, <1>6 DEF SelectDispatchable
<1> QED  BY <1>5, <1>7

(***************************************************************************)
(* What the drain starts, its webhook would have admitted: the issue it    *)
(* chooses was labelled, last, by somebody the webhook trusts.             *)
(***************************************************************************)
THEOREM ChosenIsTrusted ==
  ASSUME NEW issues, NEW inFlight, NEW s \in SelectDispatchable(issues, inFlight)
  PROVE  /\ s.repo \in Allowlist \ inFlight /\ HumanLabel \notin s.labels
         /\ \E n \in DOMAIN s.timeline :
              /\ s.timeline[n].label = ProfileFor(s.repo).trigger
              /\ s.timeline[n].actor \in ProfileFor(s.repo).trusted
<1>1. IsEligible(s, inFlight)  BY DEF SelectDispatchable
<1>2. s.repo \in Allowlist \ inFlight /\ HumanLabel \notin s.labels  BY <1>1 DEF IsEligible
<1>3. PICK n \in DOMAIN s.timeline :
        /\ s.timeline[n].label = ProfileFor(s.repo).trigger
        /\ Association(s.timeline[n].actor) \in TrustedAssociations(s.repo)
  BY <1>1 DEF IsEligible, LabeledByTrusted
<1>4. s.timeline[n].actor \in ProfileFor(s.repo).trusted  BY <1>3, TrustAgrees
<1> QED  BY <1>2, <1>3, <1>4
=============================================================================
