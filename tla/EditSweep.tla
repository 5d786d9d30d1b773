----------------------------- MODULE EditSweep -----------------------------
(***************************************************************************)
(* Which edits of one file get in each other's way: fix._spans_conflict    *)
(* and the sweep of fix.collect_edits, beside the comparison of every pair *)
(* that the sweep replaced.                                                *)
(*                                                                         *)
(* A span is one edit of one unit, placed in the text: it deletes the      *)
(* characters from offset `start` up to `end` and puts `text` there. A     *)
(* unit is the group of findings its edits resolve together; it is         *)
(* accepted or refused as a whole. `nth` numbers the edits of a unit.      *)
(***************************************************************************)
EXTENDS Naturals

Span == [start : Nat, end : Nat, text : Nat, unit : Nat, nth : Nat]

Insertion(s) == s.start = s.end

(* _spans_conflict: an insertion strictly inside a region or at its end;   *)
(* two regions that share a character.                                     *)
SpansConflict(a, b) ==
  \/ Insertion(a) /\ ~Insertion(b) /\ b.start < a.start /\ a.start <= b.end
  \/ Insertion(b) /\ ~Insertion(a) /\ a.start < b.start /\ b.start <= a.end
  \/ ~Insertion(a) /\ ~Insertion(b) /\ a.start < b.end /\ b.start < a.end

(* Two findings that resolve to one physical line would splice it twice.   *)
SameLine(a, b) ==
  /\ a.start = a.end /\ b.start = b.end /\ a.start = b.start
  /\ a.text = b.text

Clash(a, b) == a.unit # b.unit /\ (SpansConflict(a, b) \/ SameLine(a, b))

(* The order of the sorted list: start, end, unit; a unit's own edits are  *)
(* never compared, so how they are ordered among themselves is no matter.  *)
Before(a, b) ==
  \/ a.start < b.start
  \/ a.start = b.start /\ a.end < b.end
  \/ a.start = b.start /\ a.end = b.end /\ a.unit < b.unit
  \/ a.start = b.start /\ a.end = b.end /\ a.unit = b.unit /\ a.nth < b.nth

(* What the scan from `a` gets to: the later spans, up to the first one    *)
(* that begins past the end of `a`.                                        *)
Later(spans, a) == {b \in spans : Before(a, b)}

(* Mutant: the scan stops at the first span that begins where `a` ends.    *)
ReachedShort(spans, a) ==
  {b \in Later(spans, a) :
     \A c \in Later(spans, a) : c = b \/ Before(c, b) => c.start < a.end}

Reached(spans, a) ==
  {b \in Later(spans, a) :
     \A c \in Later(spans, a) : c = b \/ Before(c, b) => c.start <= a.end}

(* The sweep: the units it refuses.                                        *)
Swept(spans) ==
  {u \in {s.unit : s \in spans} :
     \E a \in spans : \E b \in Reached(spans, a) : Clash(a, b) /\ u \in {a.unit, b.unit}}

(* What it is meant to compute: the units that clash with another one.     *)
Clashing(spans) == {a.unit : a \in {s \in spans : \E b \in spans : Clash(s, b)}}
=============================================================================
