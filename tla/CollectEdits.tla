---------------------------- MODULE CollectEdits ----------------------------
(***************************************************************************)
(* From the findings of one file to its patched text: fix.collect_edits,   *)
(* what _run_fix makes of its result, and fix.apply_edits.                 *)
(*                                                                         *)
(* The file is Size characters; a service's block is a stretch of it. A    *)
(* fixer is a black box: asked about its finding it fails, refuses, or     *)
(* answers with any edits of Answers, sound or not. Two of the rules       *)
(* (CL-0003 and CL-0009) may be answered for jointly.                      *)
(***************************************************************************)
EXTENDS EditSweep, SequencesExt

CONSTANTS
  Findings,     \* the findings of the file, in the order of the report
  Rule,         \* finding -> rule id
  Service,      \* the services of the file
  Block,        \* service -> the stretch [lo, hi] of its block
  Homes,        \* the ways the findings may lie in services
  Size,         \* how many characters the file has
  Answers,      \* the edits a fixer may come up with
  JointAnswers  \* the edits the coordinator may come up with

ASSUME SizeAssumption == Size \in Nat

NoColumn == Size + 1      \* a position whose column is below 1
Offset == 0 .. Size

Edit == [start : Offset \cup {NoColumn}, end : Offset \cup {NoColumn}, text : Nat]

ASSUME AnswersAssumption ==
  /\ Block \in [Service -> [lo : Offset, hi : Offset]]
  /\ Answers \cup JointAnswers \subseteq Seq(Edit)
  /\ \A answer \in Answers \cup JointAnswers :
       \A i \in DOMAIN answer : answer[i].start <= answer[i].end

Finding == ToSet(Findings)

(* Findings are told apart by identity, so that none is reported twice.    *)
ASSUME FindingsAssumption ==
  /\ Findings \in Seq(Finding) /\ IsInjective(Findings)
  /\ Homes \subseteq [Finding -> Service]

(* Those of a list that are in a set, in their order.                      *)
Among(list, set) ==
  LET upTo[i \in 0 .. Len(list)] ==
        IF i = 0 THEN << >>
        ELSE IF list[i] \in set THEN Append(upTo[i - 1], list[i]) ELSE upTo[i - 1]
  IN  upTo[Len(list)]

(* The text is its pieces: each character of the file, which keeps the     *)
(* place it had there, and each insertion that is not empty, known by its  *)
(* edit. Of an edit's text only the string order is kept; 0 is empty.      *)
Char(p) == [start |-> p - 1, end |-> p, text |-> p, unit |-> 0, nth |-> 0]
Original == [p \in 1 .. Size |-> Char(p)]
Replacement(s) == IF s.text = 0 THEN << >> ELSE <<s>>

VARIABLES
  lot,        \* finding -> "ignored", "by hand" or "open"
  home,       \* finding -> the service it is on
  phase,
  pools,      \* services the coordination pass has still to look at
  todo,       \* open findings still to be asked about
  units,      \* the units so far: findings and edits together
  live,       \* which of them still stand
  fixed,      \* result.fixed
  manual,     \* result.manual
  crashed,    \* result.crashes is not empty
  spans,      \* the spans of every placed unit
  refused,    \* the units the sweep refused
  queue,      \* apply_edits: the spans still to splice
  text        \* the file's text, piece by piece

vars == <<lot, home, phase, pools, todo, units, live, fixed, manual, crashed,
          spans, refused, queue, text>>

Init ==
  /\ lot \in [Finding -> {"ignored", "by hand", "open"}]
  /\ home \in Homes
  /\ phase = "screen"
  /\ pools = {}
  /\ todo = << >>
  /\ units = << >>
  /\ live = {}
  /\ fixed = << >>
  /\ manual = << >>
  /\ crashed = FALSE
  /\ spans = {}
  /\ refused = {}
  /\ queue = {}
  /\ text = Original

(* The findings one security_opt rewrite would answer for together.        *)
Pooled(list, s) ==
  Among(list, {f \in Finding : home[f] = s /\ Rule[f] \in {"CL-0003", "CL-0009"}})

(* Suppressed findings, and those --only leaves out, are not looked at; a  *)
(* finding on a hook or a job, and one whose key a !reset deletes, is left *)
(* to the user.                                                            *)
Screen ==
  /\ phase = "screen"
  /\ todo' = Among(Findings, {f \in Finding : lot[f] = "open"})
  /\ manual' = Among(Findings, {f \in Finding : lot[f] = "by hand"})
  /\ pools' = {s \in Service :
                 {Rule[f] : f \in ToSet(Pooled(todo', s))} = {"CL-0003", "CL-0009"}}
  /\ phase' = "collect"
  /\ UNCHANGED <<lot, home, units, live, fixed, crashed, spans, refused, queue, text>>

AddUnit(findings, edits) ==
  /\ units' = Append(units, [findings |-> findings, edits |-> edits])
  /\ live' = live \cup {Len(units) + 1}

(* Mutant: what the pass has answered for is asked about again.            *)
UnconsumedAll(s) == todo

Unconsumed(s) == Among(todo, Finding \ ToSet(Pooled(todo, s)))

(* The coordination pass: a service's list is rewritten, or it is not.     *)
Coordinate ==
  /\ phase = "collect"
  /\ \E s \in pools :
       /\ pools' = pools \ {s}
       /\ \/ /\ \E answer \in JointAnswers : AddUnit(Pooled(todo, s), answer)
             /\ todo' = Unconsumed(s)
          \/ UNCHANGED <<units, live, todo>>
  /\ UNCHANGED <<lot, home, phase, fixed, manual, crashed, spans, refused, queue, text>>

(* One finding's own fixer: it answers, refuses or fails.                  *)
Ask ==
  /\ phase = "collect"
  /\ pools = {}
  /\ todo # << >>
  /\ todo' = Tail(todo)
  /\ \/ /\ \E answer \in Answers : AddUnit(<<Head(todo)>>, answer)
        /\ UNCHANGED <<manual, crashed>>
     \/ /\ manual' = Append(manual, Head(todo))
        /\ crashed' \in {crashed, TRUE}
        /\ UNCHANGED <<units, live>>
  /\ UNCHANGED <<lot, home, phase, pools, fixed, spans, refused, queue, text>>

FindingsOf(ids) ==
  FlattenSeq([i \in DOMAIN units |-> IF i \in ids THEN units[i].findings ELSE << >>])

Placeable(unit) ==
  \A i \in DOMAIN unit.edits : unit.edits[i].start # NoColumn /\ unit.edits[i].end # NoColumn

(* Every edit that has a place lies in the block of every service of the   *)
(* unit's findings.                                                        *)
Within(unit) ==
  \A i \in DOMAIN unit.findings, j \in DOMAIN unit.edits :
    LET block == Block[home[unit.findings[i]]]
    IN  \/ NoColumn \in {unit.edits[j].start, unit.edits[j].end}
        \/ block.lo <= unit.edits[j].start /\ unit.edits[j].end <= block.hi

(* _within_own_service. It goes by lines: an edit with a bad column may    *)
(* have its lines in the block or not.                                     *)
Confine ==
  /\ phase = "collect"
  /\ pools = {}
  /\ todo = << >>
  /\ \E astray \in SUBSET {i \in live : ~Placeable(units[i])} :
       live' = {i \in live : Within(units[i])} \ astray
  /\ manual' = manual \o FindingsOf(live \ live')
  /\ phase' = "place"
  /\ UNCHANGED <<lot, home, pools, todo, units, fixed, crashed, spans, refused, queue, text>>

SpansOf(ids) ==
  UNION {{[start |-> units[i].edits[j].start, end |-> units[i].edits[j].end,
           text |-> units[i].edits[j].text, unit |-> i, nth |-> j]
            : j \in DOMAIN units[i].edits} : i \in ids}

(* spans_of: a unit with a position the text does not have is a crash.     *)
Place ==
  /\ phase = "place"
  /\ live' = {i \in live : Placeable(units[i])}
  /\ manual' = manual \o FindingsOf(live \ live')
  /\ crashed' = (crashed \/ live' # live)
  /\ spans' = SpansOf(live')
  /\ phase' = "sweep"
  /\ UNCHANGED <<lot, home, pools, todo, units, fixed, refused, queue, text>>

Accepted == {s \in spans : s.unit \notin refused}

(* The sweep and the result. _run_fix goes no further with a file one of   *)
(* whose fixers crashed, nor with one that has nothing to edit.            *)
Sweep ==
  /\ phase = "sweep"
  /\ refused' = Swept(spans)
  /\ live' = live \ refused'
  /\ fixed' = FindingsOf(live')
  /\ manual' = FindingsOf(refused') \o manual
  /\ phase' = IF crashed \/ live' = {} THEN "left" ELSE "sort"
  /\ UNCHANGED <<lot, home, pools, todo, units, crashed, spans, queue, text>>

-----------------------------------------------------------------------------
(* apply_edits.                                                            *)

(* The splice order: start, end, then what is inserted. The sort is        *)
(* stable, so equal ones stay as collect_edits listed them.                *)
SpliceBefore(a, b) ==
  \/ a.start < b.start
  \/ a.start = b.start /\ a.end < b.end
  \/ a.start = b.start /\ a.end = b.end /\ a.text < b.text
  \/ a.start = b.start /\ a.end = b.end /\ a.text = b.text /\ a.unit < b.unit
  \/ a.start = b.start /\ a.end = b.end /\ a.text = b.text /\ a.unit = b.unit /\ a.nth < b.nth

(* An edit and the one that follows it in the list.                        *)
Adjacent(list, a, b) ==
  /\ SpliceBefore(a, b)
  /\ \A c \in list : ~(SpliceBefore(a, c) /\ SpliceBefore(c, b))

Overlap(list) == \E a, b \in list : Adjacent(list, a, b) /\ b.start < a.end

Sort ==
  /\ phase = "sort"
  /\ queue' = Accepted
  /\ phase' = IF Overlap(queue') THEN "overlap" ELSE "splice"
  /\ UNCHANGED <<lot, home, pools, todo, units, live, fixed, manual, crashed, spans, refused, text>>

Spliced(s) ==
  SubSeq(text, 1, s.start) \o Replacement(s) \o SubSeq(text, s.end + 1, Len(text))

(* Mutant: the edits are spliced from the first to the last.               *)
SpliceForwards ==
  /\ phase = "splice"
  /\ \E s \in queue :
       /\ \A other \in queue \ {s} : SpliceBefore(s, other)
       /\ text' = Spliced(s)
       /\ queue' = queue \ {s}
  /\ UNCHANGED <<lot, home, phase, pools, todo, units, live, fixed, manual, crashed, spans, refused>>

(* From the last edit to the first, so that no offset moves before it is   *)
(* used.                                                                   *)
Splice ==
  /\ phase = "splice"
  /\ \E s \in queue :
       /\ \A other \in queue \ {s} : SpliceBefore(other, s)
       /\ text' = Spliced(s)
       /\ queue' = queue \ {s}
  /\ UNCHANGED <<lot, home, phase, pools, todo, units, live, fixed, manual, crashed, spans, refused>>

Patched ==
  /\ phase = "splice"
  /\ queue = {}
  /\ phase' = "patched"
  /\ UNCHANGED <<lot, home, pools, todo, units, live, fixed, manual, crashed, spans, refused, queue, text>>

Next ==
  \/ Screen \/ Coordinate \/ Ask \/ Confine \/ Place \/ Sweep
  \/ Sort \/ Splice \/ Patched

Spec == Init /\ [][Next]_vars
-----------------------------------------------------------------------------
(* Properties.                                                             *)

Phases == {"screen", "collect", "place", "sweep", "left",
           "sort", "overlap", "splice", "patched"}

TypeOK ==
  /\ lot \in [Finding -> {"ignored", "by hand", "open"}]
  /\ home \in [Finding -> Service]
  /\ phase \in Phases
  /\ pools \subseteq Service
  /\ {todo, fixed, manual} \subseteq Seq(Finding)
  /\ crashed \in BOOLEAN
  /\ units \in Seq([findings : Seq(Finding), edits : Seq(Edit)])
  /\ live \subseteq DOMAIN units
  /\ spans \subseteq Span
  /\ \A s \in spans : s.start \in Offset /\ s.end \in Offset /\ s.unit \in DOMAIN units
  /\ refused \subseteq DOMAIN units
  /\ queue \subseteq spans
  /\ text \in Seq(Span)

Decided == phase \in {"left", "sort", "overlap", "splice", "patched"}

(* The sweep, which stops scanning early, refuses exactly the units that   *)
(* comparing every pair of edits would refuse.                             *)
SweepExact == Decided => refused = Clashing(spans)

(* A finding that is neither suppressed nor left out by --only is answered *)
(* once: fix says that it fixed it, or leaves it to the user, whatever its *)
(* fixer does and whichever step its edits are lost at.                    *)
EachAnsweredOnce ==
  Decided =>
    /\ ToSet(fixed) \cup ToSet(manual) = {f \in Finding : lot[f] # "ignored"}
    /\ IsInjective(fixed \o manual)

(* What should stand in the text once some edits are made: the characters  *)
(* none of them deletes, and what they insert.                             *)
Pieces(made) ==
  {Char(p) : p \in {q \in 1 .. Size : \A s \in made : ~(s.start < q /\ q <= s.end)}}
    \cup {s \in made : s.text # 0}

(* ADR-014: comments, key order and formatting outside the touched spans   *)
(* survive byte for byte, and every accepted edit lands where it was       *)
(* aimed, however many edits the file has and in whatever order their      *)
(* findings came (apply_edits).                                            *)
SpliceExact ==
  phase = "patched" =>
    /\ ToSet(text) = Pieces(Accepted)
    /\ \A i, j \in DOMAIN text : i < j => SpliceBefore(text[i], text[j])
=============================================================================
