----------------------------- MODULE Generation -----------------------------
(***************************************************************************)
(* generation.rs: which of several pull requests that carry the same work  *)
(* of the same agent may be admitted.  The facts are in the bodies of the  *)
(* pull requests, links are in their comments, and what contains what is   *)
(* asked for pair by pair; a pass reads the three one after the other, for *)
(* a status and once more before a membership is written, while authors    *)
(* push and people comment, edit and merge.                                *)
(*                                                                         *)
(* A source head is the set of commits that it has.  The head that the     *)
(* provider shows is a number, since the facts never look into it.  A pull *)
(* request that was opened later has the greater number.                   *)
(***************************************************************************)
EXTENDS Naturals, FiniteSets, FiniteSetsExt

CONSTANTS Rows,            \* pull requests are 1 .. Rows
          Slots,           \* of each: [agent, beads, parent] that its body may declare; parent 0 is a root
          Sources,         \* source heads, as sets of commits
          MaxComparisons,  \* MAX_STREAM_COMPARISONS
          MaxInspected,    \* pull requests whose comments a pass reads
          MaxEdits       \* bound: what other people do

ASSUME GenerationBounds ==
  /\ {Rows, MaxComparisons, MaxInspected, MaxEdits} \subseteq Nat
  /\ \A p \in 1 .. Rows : \A slot \in Slots[p] : slot.parent \in 0 .. Rows

Row == 1 .. Rows
NoSlot == [agent |-> "none", beads |-> {}, parent |-> 0]

VARIABLES
  row,       \* the pull requests
  comment,   \* of each: the last declaration and the last priority comment
  pass,      \* the pass in progress, and what it found
  edits

generationVars == <<row, comment, pass, edits>>

(* parse_generation_fact: a body without any marker, one that is wrong, or *)
(* the declared slot.                                                      *)
Body(meta, slot, source) ==
  [state |-> "open", meta |-> meta, slot |-> slot, source |-> source, head |-> 1]
Bodies(p) ==
  {Body("none", NoSlot, {}), Body("invalid", NoSlot, {})}
  \cup {Body("valid", slot, source) : slot \in Slots[p], source \in Sources}

Uncommented == [head |-> 0, declared |-> {}, priority |-> {}]

-----------------------------------------------------------------------------
(* The facts of a pass f: the pull requests it looked at.                  *)

Valid(f) == {p \in DOMAIN f : f[p].meta = "valid"}

SameStreamSlot(f, p, q) ==
  LET a == f[p].slot
      b == f[q].slot
  IN  /\ a.agent = b.agent /\ a.beads \cap b.beads # {}
      /\ a.parent # q /\ b.parent # p /\ a.parent = b.parent

DuplicateStreamPrs(f) ==
  {p \in Valid(f) : \E q \in Valid(f) \ {p} : SameStreamSlot(f, p, q)}

(* The components: whoever is reached through any number of shared slots.  *)
Peers(f, p) == {p} \cup {q \in Valid(f) : SameStreamSlot(f, p, q)}
ReachedIn(f, p, n, reached) == IF n = 0 THEN {p} ELSE UNION {Peers(f, q) : q \in reached[n - 1]}
Component(f, p) == LET reached[n \in 0 .. Rows] == ReachedIn(f, p, n, reached) IN reached[Rows]
Streams(f) == {Component(f, p) : p \in Valid(f)}
StreamOf(streams, p) == CHOOSE S \in streams : p \in S

(* A declaration counts for the head that it was written for; without one  *)
(* the last priority comment does.                                         *)
DeclaredSupersessions(f, words, p) ==
  IF words[p].head = f[p].head THEN words[p].declared \ {p} ELSE {}
ReviewedLinks(f, words) ==
  [p \in DOMAIN f |->
     IF DeclaredSupersessions(f, words, p) # {} THEN DeclaredSupersessions(f, words, p)
     ELSE words[p].priority \ {p}]

LinkedCanonicals(links, component) == {p \in component : component \ {p} \subseteq links[p]}

(* Pairs are compared in the order of their components and numbers, while  *)
(* the bound lasts.  A comparison that fails is as one that is not made.   *)
PairsToCompare(streams, links) ==
  UNION {{pair \in S \X S : pair[1] < pair[2]} : S \in {T \in streams : LinkedCanonicals(links, T) = {}}}
Before(streams, x, y) ==
  LET first(pair) == Min(StreamOf(streams, pair[1])) IN
  \/ first(x) < first(y)
  \/ first(x) = first(y) /\ (x[1] < y[1] \/ (x[1] = y[1] /\ x[2] < y[2]))
Compared(streams, links) ==
  LET pairs == PairsToCompare(streams, links)
  IN  {x \in pairs : Cardinality({y \in pairs : Before(streams, y, x)}) < MaxComparisons}

Contained(f, known, p, q) ==
  p = q \/ (<<Min({p, q}), Max({p, q})>> \in known /\ f[q].source \subseteq f[p].source)

Maxima(f, known, component) ==
  {p \in component : \A q \in component : Contained(f, known, p, q)}

-----------------------------------------------------------------------------
(* analyze.                                                                *)

Finding(disposition, canonical, authority, related) ==
  [disposition |-> disposition, canonical |-> canonical, authority |-> authority, related |-> related]

(* record_canonical_component.                                             *)
CanonicalFinding(p, canonical, authority, component) ==
  Finding(IF p = canonical THEN "current" ELSE "superseded", canonical, authority, component)
Ambiguous(component) == Finding("ambiguous", 0, "none", component)

(* The canonical of a component and by what authority, or none.            *)
StreamFinding(f, component, links, known, p) ==
  LET linked == LinkedCanonicals(links, component)
      maxima == Maxima(f, known, component)
  IN  CASE component = {p} -> CanonicalFinding(p, p, "alone", component)
        [] component # {p} /\ Cardinality(linked) = 1 ->
             CanonicalFinding(p, CHOOSE c \in linked : TRUE, "link", component)
        [] component # {p} /\ Cardinality(linked) > 1 -> Ambiguous(component)
        [] component # {p} /\ linked = {} /\ maxima # {} ->
             CanonicalFinding(p, Max(maxima), "containment", component)
        [] OTHER -> Ambiguous(component)

Analyze(f, streams, links, known) ==
  [p \in {q \in DOMAIN f : f[q].meta # "none"} |->
     IF f[p].meta = "invalid" THEN Finding("invalid", 0, "none", {p})
     ELSE StreamFinding(f, StreamOf(streams, p), links, known, p)]

(* apply_lifecycle_policy: whom the configured action is proposed for.     *)
Actionable(findings) == {p \in DOMAIN findings : findings[p].disposition = "superseded"}

(* require_admissible.                                                     *)
RequireAdmissible(findings, p) == p \in DOMAIN findings => findings[p].disposition = "current"

-----------------------------------------------------------------------------
(* A pass, and the admission it is for.                                    *)

NoPass == [pc |-> "idle", candidate |-> 0, facts |-> <<>>, words |-> <<>>, findings |-> <<>>]

GenerationInit ==
  /\ row \in {r \in [Row -> UNION {Bodies(p) : p \in Row}] : \A p \in Row : r[p] \in Bodies(p)}
  /\ \E stale \in {{}, Row \ {1}} : comment = [[p \in Row |-> Uncommented] EXCEPT ![1].declared = stale]
  /\ pass = NoPass /\ edits = 0

(* lifecycle_generation_facts: a status looks at merged successors too,    *)
(* revalidate_generation_before_membership at open pull requests only.     *)
ReadFacts ==
  /\ pass.pc \in {"idle", "selected"}
  /\ LET states == IF pass.pc = "idle" THEN {"open", "merged"} ELSE {"open"}
         seen == {p \in Row : row[p].state \in states}
     IN  pass' = [pass EXCEPT !.facts = [p \in seen |-> row[p]],
                              !.pc = IF pass.candidate # 0 /\ pass.candidate \notin seen
                                     THEN "refused" ELSE "links"]
  /\ UNCHANGED <<row, comment, edits>>

(* The comments of the first duplicates; one that cannot be read is as one *)
(* that is not there.                                                      *)
ReadLinks ==
  /\ pass.pc = "links"
  /\ LET f == pass.facts
         inspected == {p \in DuplicateStreamPrs(f) :
                         Cardinality({q \in DuplicateStreamPrs(f) : q < p}) < MaxInspected}
     IN  \E unread \in {{}} \cup {{p} : p \in inspected} :
           pass' = [pass EXCEPT !.pc = "compare",
                      !.words = [p \in DOMAIN f |->
                                   IF p \in inspected \ unread THEN comment[p] ELSE Uncommented]]
  /\ UNCHANGED <<row, comment, edits>>

Judge ==
  /\ pass.pc = "compare"
  /\ \E streams \in {Streams(pass.facts)}, links \in {ReviewedLinks(pass.facts, pass.words)} :
     \E compared \in {Compared(streams, links)} : \E failed \in {{}} \cup {{x} : x \in compared} :
       \E findings \in {Analyze(pass.facts, streams, links, compared \ failed)} :
         LET p == pass.candidate IN
         pass' = [pass EXCEPT !.findings = findings,
                    !.pc = IF p = 0 THEN "judged"
                           ELSE IF p \in DOMAIN findings /\ RequireAdmissible(findings, p)
                           THEN "admitted" ELSE "refused"]
  /\ UNCHANGED <<row, comment, edits>>

(* A pull request without any finding is no matter of this module.         *)
Select(p) ==
  /\ pass.pc = "judged" /\ p \in DOMAIN pass.findings
  /\ row[p].state = "open" /\ RequireAdmissible(pass.findings, p)
  /\ pass' = [NoPass EXCEPT !.pc = "selected", !.candidate = p]
  /\ UNCHANGED <<row, comment, edits>>

(* Authors, owners and the controller.                                     *)
Changed == edits < MaxEdits /\ pass.pc \notin {"admitted", "refused"} /\ edits' = edits + 1
AuthorPushes(p) ==
  /\ Changed /\ row[p].state = "open" /\ row' = [row EXCEPT ![p].head = @ + 1]
  /\ UNCHANGED <<comment, pass>>
BodyEdited(p, body) ==
  /\ Changed /\ row[p].state = "open" /\ body.meta # row[p].meta
  /\ row' = [row EXCEPT ![p] = [body EXCEPT !.head = row[p].head]]
  /\ UNCHANGED <<comment, pass>>
Ended(p, state) ==
  /\ Changed /\ row[p].state = "open" /\ row' = [row EXCEPT ![p].state = state]
  /\ UNCHANGED <<comment, pass>>
(* supersession_body, written by an owner for the head that they see.      *)
OwnerDeclares(p, others) ==
  /\ Changed /\ comment' = [comment EXCEPT ![p].head = row[p].head, ![p].declared = others]
  /\ UNCHANGED <<row, pass>>
ControllerPrioritises(p, others) ==
  /\ Changed /\ comment' = [comment EXCEPT ![p].priority = others]
  /\ UNCHANGED <<row, pass>>

Outside ==
  \E p \in Row :
    \/ AuthorPushes(p)
    \/ BodyEdited(p, Body("invalid", NoSlot, {}))
    \/ \E state \in {"merged", "closed"} : Ended(p, state)
    \/ \E others \in (SUBSET (Row \ {p})) \ {{}} : OwnerDeclares(p, others)
    \/ ControllerPrioritises(p, Row \ {p})

GenerationNext == ReadFacts \/ ReadLinks \/ Judge \/ (\E p \in Row : Select(p)) \/ Outside

GenerationSpec == GenerationInit /\ [][GenerationNext]_generationVars

-----------------------------------------------------------------------------
Judged == pass.pc \in {"judged", "admitted", "refused"}
Current(p) == pass.findings[p].disposition = "current"

(* Somebody said, of the head that the pass looked at or in a priority      *)
(* comment, that c takes the place of all these.                            *)
SaidOf(c, others) ==
  LET word == pass.words[c] IN
  (word.head = pass.facts[c].head /\ others \subseteq word.declared) \/ others \subseteq word.priority

(* Two pull requests of one slot are never both current.                   *)
OneCurrent ==
  Judged => \A p, q \in DOMAIN pass.findings :
    p # q /\ Current(p) /\ Current(q) => ~SameStreamSlot(pass.facts, p, q)

(* Whoever is superseded has a current successor, which has its commits    *)
(* and those of all the others, or which somebody named in their stead;    *)
(* these are the only ones that a policy may close.                        *)
SupersededByEvidence ==
  Judged => \A p \in Actionable(pass.findings) :
    LET c == pass.findings[p].canonical
        others == pass.findings[p].related \ {c}
    IN  /\ p \in others /\ c \in DOMAIN pass.findings /\ Current(c)
        /\ (\A q \in others : pass.facts[q].source \subseteq pass.facts[c].source) \/ SaidOf(c, others)

(* Of what is admitted no open pull request of its slot had, at the last   *)
(* look, all the commits and more, unless somebody named the admitted one. *)
AdmittedIsNewest ==
  pass.pc = "admitted" =>
    LET p == pass.candidate IN
    \A q \in Valid(pass.facts) \ {p} :
      SameStreamSlot(pass.facts, p, q) /\ pass.facts[q].source # pass.facts[p].source
      /\ pass.facts[p].source \subseteq pass.facts[q].source => SaidOf(p, {q})

(* What the facts of a pass mean for who may be admitted and closed.       *)
GenerationSound == OneCurrent /\ SupersededByEvidence /\ AdmittedIsNewest

=============================================================================
