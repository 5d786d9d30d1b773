------------------------- MODULE CollectEditsProofs -------------------------
(***************************************************************************)
(* The sweep of collect_edits refuses exactly what comparing every pair of *)
(* edits would refuse: as a fact about sets of edits, and of every run.    *)
(* What is spliced stands where it was aimed, and nothing else is touched. *)
(* Every finding that is to be answered is answered once: FateInv follows  *)
(* it from the list of those to be asked about, through the unit that      *)
(* answers it, to the result, whichever step the unit falls at.            *)
(***************************************************************************)
EXTENDS CollectEdits, WellFoundedInduction, TLAPS

LEMMA SpanFields ==
  ASSUME NEW s \in Span
  PROVE  s.start \in Nat /\ s.end \in Nat /\ s.text \in Nat /\ s.unit \in Nat /\ s.nth \in Nat
BY DEF Span

(* Clashing is mutual.                                                     *)
LEMMA ClashSymmetric ==
  ASSUME NEW a \in Span, NEW b \in Span, Clash(a, b)
  PROVE  Clash(b, a)
BY DEF Clash, SpansConflict, SameLine, Insertion

(* Spans of different units come one before the other.                     *)
LEMMA BeforeTotal ==
  ASSUME NEW a \in Span, NEW b \in Span, a.unit # b.unit
  PROVE  Before(a, b) \/ Before(b, a)
BY SpanFields DEF Before

(* Every shape of clash needs the later span to begin no later than where  *)
(* the earlier one ends: stopping the scan there loses nothing.            *)
LEMMA ClashBeginsInReach ==
  ASSUME NEW a \in Span, NEW b \in Span, Before(a, b), Clash(a, b)
  PROVE  b.start <= a.end
BY SpanFields DEF Before, Clash, SpansConflict, SameLine, Insertion

(* Nor does anything between the two stop it.                              *)
LEMMA ClashIsReached ==
  ASSUME NEW all \in SUBSET Span, NEW a \in all, NEW b \in all,
         Before(a, b), Clash(a, b)
  PROVE  b \in Reached(all, a)
<1>1. a \in Span /\ b \in Span
  OBVIOUS
<1>2. b.start <= a.end
  BY <1>1, ClashBeginsInReach
<1>3. ASSUME NEW c \in Later(all, a), c = b \/ Before(c, b)
      PROVE  c.start <= a.end
  <2>1. c \in Span
    BY DEF Later
  <2>2. c.start <= b.start
    BY <1>1, <1>3, <2>1, SpanFields DEF Before
  <2> QED
    BY <1>1, <1>2, <2>1, <2>2, SpanFields
<1> QED
  BY <1>3 DEF Reached, Later

(* The sweep refuses exactly the units that clash with another one, for    *)
(* any set of edits, however many: collect_edits' sorted scan with its     *)
(* early break decides what the pairwise comparison it replaced decided.   *)
THEOREM SweepIsPairwise ==
  ASSUME NEW all \in SUBSET Span
  PROVE  Swept(all) = Clashing(all)
<1>1. ASSUME NEW u \in Swept(all)
      PROVE  u \in Clashing(all)
  <2>1. PICK a \in all, b \in all : Clash(a, b) /\ u \in {a.unit, b.unit}
    BY <1>1 DEF Swept, Reached, Later
  <2>2. Clash(b, a)
    BY <2>1, ClashSymmetric
  <2> QED
    BY <2>1, <2>2 DEF Clashing
<1>2. ASSUME NEW u \in Clashing(all)
      PROVE  u \in Swept(all)
  <2>1. PICK a \in all, b \in all : Clash(a, b) /\ u = a.unit
    BY <1>2 DEF Clashing
  <2>2. Clash(b, a) /\ a.unit # b.unit
    BY <2>1, ClashSymmetric DEF Clash
  <2>3. CASE Before(a, b)
    BY <2>1, <2>3, ClashIsReached DEF Swept
  <2>4. CASE Before(b, a)
    BY <2>1, <2>2, <2>4, ClashIsReached DEF Swept
  <2> QED
    BY <2>2, <2>3, <2>4, BeforeTotal
<1> QED
  BY <1>1, <1>2

-----------------------------------------------------------------------------
(* What the sweep is given, and what it leaves.                            *)
SweepInv ==
  /\ \E S : units \in Seq(S)
  /\ \A i \in DOMAIN units : units[i].edits \in Seq(Edit)
  /\ live \subseteq DOMAIN units
  /\ spans \subseteq Span
  /\ Decided => refused = Swept(spans)

(* One more unit is one more sequence of edits.                            *)
LEMMA AddUnitStep ==
  ASSUME SweepInv, NEW findings, NEW edits \in Seq(Edit), AddUnit(findings, edits)
  PROVE  /\ \E S : units' \in Seq(S)
         /\ \A i \in DOMAIN units' : units'[i].edits \in Seq(Edit)
         /\ live' \subseteq DOMAIN units'
<1> DEFINE u == [findings |-> findings, edits |-> edits]
<1>1. PICK S : units \in Seq(S)
  BY DEF SweepInv
<1>2. units' \in Seq(S \cup {u})
  BY <1>1 DEF AddUnit
<1>3. /\ DOMAIN units = 1 .. Len(units) /\ DOMAIN units' = 1 .. Len(units) + 1
      /\ Len(units) \in Nat
      /\ \A i \in DOMAIN units : units'[i] = units[i]
      /\ units'[Len(units) + 1] = u
  BY <1>1 DEF AddUnit
<1>4. u.edits \in Seq(Edit)
  OBVIOUS
<1>5. \A i \in DOMAIN units' : units'[i].edits \in Seq(Edit)
  BY <1>3, <1>4 DEF SweepInv
<1>6. live' \subseteq DOMAIN units'
  BY <1>3 DEF AddUnit, SweepInv
<1> QED
  BY <1>2, <1>5, <1>6

(* The edits that can be placed become spans.                              *)
LEMMA PlaceStep ==
  ASSUME SweepInv, Place
  PROVE  spans' \subseteq Span
<1>1. spans' = SpansOf(live') /\ live' \subseteq live
  BY DEF Place
<1>2. ASSUME NEW i \in live', NEW j \in DOMAIN units[i].edits
      PROVE  [start |-> units[i].edits[j].start, end |-> units[i].edits[j].end,
              text |-> units[i].edits[j].text, unit |-> i, nth |-> j] \in Span
  <2>1. i \in DOMAIN units /\ units[i].edits \in Seq(Edit)
    BY <1>1 DEF SweepInv
  <2>2. i \in Nat /\ j \in Nat
    BY <2>1 DEF SweepInv
  <2>3. units[i].edits[j] \in Edit
    BY <2>1
  <2> QED
    BY <2>2, <2>3, SizeAssumption DEF Edit, Offset, NoColumn, Span
<1> QED
  BY <1>1, <1>2 DEF SpansOf

LEMMA InitSweepInv == Init => SweepInv
<1> SUFFICES ASSUME Init PROVE SweepInv
  OBVIOUS
<1>1. /\ units = << >> /\ live = {} /\ spans = {} /\ phase = "screen"
  BY DEF Init
<1>2. \E S : units \in Seq(S)
  <2>1. units \in Seq(Nat)
    BY <1>1
  <2> QED
    BY <2>1
<1>3. \A i \in DOMAIN units : units[i].edits \in Seq(Edit)
  BY <1>1
<1> QED
  BY <1>1, <1>2, <1>3 DEF SweepInv, Decided

LEMMA NextSweepInv == SweepInv /\ [Next]_vars => SweepInv'
<1> SUFFICES ASSUME SweepInv, [Next]_vars PROVE SweepInv'
  OBVIOUS
<1>1. CASE Screen
  BY <1>1 DEF Screen, SweepInv, Decided
<1>2. CASE Coordinate
  <2>1. CASE UNCHANGED <<units, live>>
    BY <1>2, <2>1 DEF Coordinate, SweepInv, Decided
  <2>2. ASSUME NEW s \in pools, NEW answer \in JointAnswers, AddUnit(Pooled(todo, s), answer)
        PROVE  SweepInv'
    BY <1>2, <2>2, AddUnitStep, AnswersAssumption DEF Coordinate, SweepInv, Decided
  <2> QED
    BY <1>2, <2>1, <2>2 DEF Coordinate
<1>3. CASE Ask
  <2>1. CASE UNCHANGED <<units, live>>
    BY <1>3, <2>1 DEF Ask, SweepInv, Decided
  <2>2. ASSUME NEW answer \in Answers, AddUnit(<<Head(todo)>>, answer)
        PROVE  SweepInv'
    BY <1>3, <2>2, AddUnitStep, AnswersAssumption DEF Ask, SweepInv, Decided
  <2> QED
    BY <1>3, <2>1, <2>2 DEF Ask
<1>4. CASE Confine
  BY <1>4 DEF Confine, SweepInv, Decided
<1>5. CASE Place
  BY <1>5, PlaceStep DEF Place, SweepInv, Decided
<1>6. CASE Sweep
  BY <1>6 DEF Sweep, SweepInv, Decided
<1>7. CASE Sort
  BY <1>7 DEF Sort, SweepInv, Decided
<1>8. CASE Splice \/ Patched
  BY <1>8 DEF Splice, Patched, SweepInv, Decided
<1>9. CASE UNCHANGED vars
  BY <1>9 DEF vars, SweepInv, Decided
<1> QED
  BY <1>1, <1>2, <1>3, <1>4, <1>5, <1>6, <1>7, <1>8, <1>9 DEF Next

(* In every run over every file, whatever its fixers answer, the units the *)
(* sweep refused are those that clash with another one (collect_edits).    *)
THEOREM SweepAlwaysExact == Spec => []SweepExact
<1>1. SweepInv => SweepExact
  BY SweepIsPairwise DEF SweepInv, SweepExact
<1> QED
  BY <1>1, InitSweepInv, NextSweepInv, PTL DEF Spec

-----------------------------------------------------------------------------
(* The splice order.                                                       *)

(* A number given to every member of a set is least for some member.       *)
LEMMA LeastBy ==
  ASSUME NEW T, T # {}, NEW f \in [T -> Nat]
  PROVE  \E x \in T : \A y \in T : f[x] <= f[y]
<1> DEFINE R == OpToRel(<, Nat)
           N == {f[x] : x \in T}
<1>1. IsWellFoundedOn(R, Nat)
  BY NatLessThanWellFounded
<1>2. \A m, n \in Nat : m < n => <<m, n>> \in R
  BY DEF OpToRel
<1> HIDE DEF R
<1>3. N \subseteq Nat /\ N # {}
  OBVIOUS
<1>4. PICK n \in N : \A m \in N : ~(<<m, n>> \in R)
  BY <1>1, <1>3, WFMin
<1>5. PICK x \in T : n = f[x]
  BY <1>4
<1>6. ASSUME NEW y \in T
      PROVE  f[x] <= f[y]
  <2>1. f[y] \in N /\ f[y] \in Nat /\ f[x] \in Nat
    OBVIOUS
  <2>2. ~(f[y] < f[x])
    BY <1>2, <1>4, <1>5, <2>1
  <2> QED
    BY <2>1, <2>2
<1> QED
  BY <1>6

LEMMA SameSpan ==
  ASSUME NEW a \in Span, NEW b \in Span,
         a.start = b.start, a.end = b.end, a.text = b.text, a.unit = b.unit, a.nth = b.nth
  PROVE  a = b
BY DEF Span

(* It is a strict order.                                                   *)
LEMMA SpliceBeforeStrict ==
  ASSUME NEW a \in Span, NEW b \in Span, SpliceBefore(a, b)
  PROVE  ~SpliceBefore(b, a) /\ a # b /\ a.start <= b.start
BY SpanFields DEF SpliceBefore

LEMMA SpliceBeforeTransitive ==
  ASSUME NEW a \in Span, NEW b \in Span, NEW c \in Span,
         SpliceBefore(a, b), SpliceBefore(b, c)
  PROVE  SpliceBefore(a, c)
BY SpanFields DEF SpliceBefore

(* Any spans have a first.                                                 *)
LEMMA FirstSpan ==
  ASSUME NEW T \in SUBSET Span, T # {}
  PROVE  \E s \in T : \A other \in T \ {s} : SpliceBefore(s, other)
<1> DEFINE A == {s \in T : \A o \in T : s.start <= o.start}
           B == {s \in A : \A o \in A : s.end <= o.end}
           C == {s \in B : \A o \in B : s.text <= o.text}
           D == {s \in C : \A o \in C : s.unit <= o.unit}
           E == {s \in D : \A o \in D : s.nth <= o.nth}
<1>1. A # {}
  <2> DEFINE f == [s \in T |-> s.start]
  <2>1. f \in [T -> Nat]
    BY SpanFields
  <2>2. \A s \in T : f[s] = s.start
    OBVIOUS
  <2> HIDE DEF f
  <2>3. PICK x \in T : \A y \in T : f[x] <= f[y]
    BY <2>1, LeastBy
  <2>4. x \in A
    BY <2>2, <2>3
  <2> QED
    BY <2>4
<1>2. B # {}
  <2> DEFINE f == [s \in A |-> s.end]
  <2>1. f \in [A -> Nat]
    BY SpanFields
  <2>2. \A s \in A : f[s] = s.end
    OBVIOUS
  <2> HIDE DEF f
  <2>3. PICK x \in A : \A y \in A : f[x] <= f[y]
    BY <1>1, <2>1, LeastBy
  <2>4. x \in B
    BY <2>2, <2>3
  <2> QED
    BY <2>4
<1>3. C # {}
  <2> DEFINE f == [s \in B |-> s.text]
  <2>1. f \in [B -> Nat]
    BY SpanFields
  <2>2. \A s \in B : f[s] = s.text
    OBVIOUS
  <2> HIDE DEF f
  <2>3. PICK x \in B : \A y \in B : f[x] <= f[y]
    BY <1>2, <2>1, LeastBy
  <2>4. x \in C
    BY <2>2, <2>3
  <2> QED
    BY <2>4
<1>4. D # {}
  <2> DEFINE f == [s \in C |-> s.unit]
  <2>1. f \in [C -> Nat]
    BY SpanFields
  <2>2. \A s \in C : f[s] = s.unit
    OBVIOUS
  <2> HIDE DEF f
  <2>3. PICK x \in C : \A y \in C : f[x] <= f[y]
    BY <1>3, <2>1, LeastBy
  <2>4. x \in D
    BY <2>2, <2>3
  <2> QED
    BY <2>4
<1>5. E # {}
  <2> DEFINE f == [s \in D |-> s.nth]
  <2>1. f \in [D -> Nat]
    BY SpanFields
  <2>2. \A s \in D : f[s] = s.nth
    OBVIOUS
  <2> HIDE DEF f
  <2>3. PICK x \in D : \A y \in D : f[x] <= f[y]
    BY <1>4, <2>1, LeastBy
  <2>4. x \in E
    BY <2>2, <2>3
  <2> QED
    BY <2>4
<1>6. PICK s \in E : TRUE
  BY <1>5
<1>7. s \in T /\ s \in Span
  BY <1>6
<1>8. ASSUME NEW o \in T \ {s}
      PROVE  SpliceBefore(s, o)
  <2>1. o \in Span
    OBVIOUS
  <2>2. s.start <= o.start
    BY <1>6
  <2>3. o.start = s.start => o \in A /\ s.end <= o.end
    BY <1>6
  <2>4. o \in A /\ o.end = s.end => o \in B /\ s.text <= o.text
    BY <1>6
  <2>5. o \in B /\ o.text = s.text => o \in C /\ s.unit <= o.unit
    BY <1>6
  <2>6. o \in C /\ o.unit = s.unit => o \in D /\ s.nth <= o.nth
    BY <1>6
  <2>7. ~(/\ o.start = s.start /\ o.end = s.end /\ o.text = s.text
          /\ o.unit = s.unit /\ o.nth = s.nth)
    BY <1>7, <1>8, <2>1, SameSpan
  <2> HIDE DEF A, B, C, D, E
  <2> QED
    BY <1>7, <2>1, <2>2, <2>3, <2>4, <2>5, <2>6, <2>7, SpanFields DEF SpliceBefore
<1> QED
  BY <1>7, <1>8

(* The test of each edit against the one before it suffices: of edits      *)
(* that pass it, none begins before an earlier one has ended.              *)
LEMMA Apart ==
  ASSUME NEW list \in SUBSET Span, ~Overlap(list),
         NEW a \in list, NEW b \in list, SpliceBefore(a, b)
  PROVE  a.end <= b.start
<1> DEFINE T == {c \in list : SpliceBefore(a, c)}
<1>1. PICK c \in T : \A other \in T \ {c} : SpliceBefore(c, other)
  BY FirstSpan
<1>2. a \in Span /\ b \in Span /\ c \in Span /\ SpliceBefore(a, c)
  OBVIOUS
<1>3. Adjacent(list, a, c)
  BY <1>1, <1>2, SpliceBeforeStrict DEF Adjacent
<1>4. a.end <= c.start
  BY <1>2, <1>3, SpanFields DEF Overlap
<1>5. c.start <= b.start
  <2>1. b = c \/ SpliceBefore(c, b)
    BY <1>1
  <2> QED
    BY <1>2, <2>1, SpanFields, SpliceBeforeStrict
<1> QED
  BY <1>2, <1>4, <1>5, SpanFields

-----------------------------------------------------------------------------
(* One splice.                                                             *)

LEMMA Joined ==
  ASSUME NEW S, NEW u \in Seq(S), NEW v \in Seq(S)
  PROVE  /\ u \o v \in Seq(S) /\ Len(u \o v) = Len(u) + Len(v)
         /\ Len(u) \in Nat /\ Len(v) \in Nat
         /\ \A i \in 1 .. Len(u) : (u \o v)[i] = u[i]
         /\ \A i \in 1 .. Len(v) : (u \o v)[Len(u) + i] = v[i]
OBVIOUS

(* t is u, r in place of what stood from b to e.                           *)
Splices(t, u, b, r, e) == t = SubSeq(u, 1, b) \o r \o SubSeq(u, e + 1, Len(u))

(* What a sequence reads after a stretch of it is replaced.                *)
LEMMA SplicedSeq ==
  ASSUME NEW S, NEW u \in Seq(S), NEW r \in Seq(S),
         NEW b \in Nat, NEW e \in Nat, b <= e, e <= Len(u),
         NEW t, Splices(t, u, b, r, e)
  PROVE  /\ t \in Seq(S)
         /\ Len(t) = b + Len(r) + (Len(u) - e)
         /\ \A i \in 1 .. b : t[i] = u[i]
         /\ \A i \in 1 .. Len(r) : t[b + i] = r[i]
         /\ \A i \in 1 .. Len(u) - e : t[b + Len(r) + i] = u[e + i]
<1> DEFINE head == SubSeq(u, 1, b)
           tail == SubSeq(u, e + 1, Len(u))
           front == head \o r
<1>1. head \in Seq(S) /\ Len(head) = b /\ \A i \in 1 .. b : head[i] = u[i]
  OBVIOUS
<1>2. /\ tail \in Seq(S) /\ Len(tail) = Len(u) - e
      /\ \A i \in 1 .. Len(u) - e : tail[i] = u[e + i]
  OBVIOUS
<1>3. t = front \o tail
  BY DEF Splices
<1> HIDE DEF head, tail
<1>4. /\ front \in Seq(S) /\ Len(front) = b + Len(r) /\ Len(r) \in Nat
      /\ \A i \in 1 .. b : front[i] = head[i]
      /\ \A i \in 1 .. Len(r) : front[b + i] = r[i]
  <2>1. /\ head \o r \in Seq(S) /\ Len(head \o r) = Len(head) + Len(r) /\ Len(r) \in Nat
        /\ \A i \in 1 .. Len(head) : (head \o r)[i] = head[i]
        /\ \A i \in 1 .. Len(r) : (head \o r)[Len(head) + i] = r[i]
    <3>1. head \in Seq(S) /\ r \in Seq(S)
      BY <1>1
    <3> QED
      BY ONLY <3>1, Joined
  <2> QED
    BY <1>1, <2>1, Zenon
<1> HIDE DEF front
<1>5. /\ t \in Seq(S) /\ Len(t) = b + Len(r) + Len(tail)
      /\ \A i \in 1 .. b + Len(r) : t[i] = front[i]
      /\ \A i \in 1 .. Len(tail) : t[b + Len(r) + i] = tail[i]
  <2>1. /\ front \o tail \in Seq(S) /\ Len(front \o tail) = Len(front) + Len(tail)
        /\ \A i \in 1 .. Len(front) : (front \o tail)[i] = front[i]
        /\ \A i \in 1 .. Len(tail) : (front \o tail)[Len(front) + i] = tail[i]
    <3>1. front \in Seq(S) /\ tail \in Seq(S)
      BY <1>2, <1>4
    <3> QED
      BY ONLY <3>1, Joined
  <2> QED
    BY <1>3, <1>4, <2>1, Zenon
<1>6. /\ 1 .. b \subseteq 1 .. b + Len(r)
      /\ \A i \in 1 .. Len(r) : b + i \in 1 .. b + Len(r)
  BY <1>4
<1>7. /\ \A i \in 1 .. b : t[i] = u[i]
      /\ \A i \in 1 .. Len(r) : t[b + i] = r[i]
  BY <1>1, <1>4, <1>5, <1>6, Zenon
<1>8. b + Len(r) + Len(tail) = b + Len(r) + (Len(u) - e)
  BY <1>2
<1> QED
  BY <1>2, <1>5, <1>7, <1>8, Zenon

(* Where its indexes come from and where the old ones go.                  *)
Rewritten(S, t, u, b, r, e) ==
  /\ t \in Seq(S) /\ DOMAIN t = 1 .. Len(t) /\ Len(t) \in Nat
  /\ \A j \in DOMAIN t :
       \/ j \in 1 .. b /\ t[j] = u[j]
       \/ \E i \in 1 .. Len(r) : j = b + i /\ t[j] = r[i]
       \/ \E k \in 1 .. Len(u) : k > e /\ j = b + Len(r) + (k - e) /\ t[j] = u[k]
  /\ \A i \in 1 .. b : i \in DOMAIN t /\ t[i] = u[i]
  /\ \A i \in 1 .. Len(r) : b + i \in DOMAIN t /\ t[b + i] = r[i]
  /\ \A k \in 1 .. Len(u) : k > e => \E j \in DOMAIN t : t[j] = u[k]

LEMMA SplicedIndex ==
  ASSUME NEW S, NEW u \in Seq(S), NEW r \in Seq(S),
         NEW b \in Nat, NEW e \in Nat, b <= e, e <= Len(u),
         NEW t, Splices(t, u, b, r, e)
  PROVE  Rewritten(S, t, u, b, r, e)
<1>1. /\ t \in Seq(S)
      /\ Len(t) = b + Len(r) + (Len(u) - e)
      /\ \A i \in 1 .. b : t[i] = u[i]
      /\ \A i \in 1 .. Len(r) : t[b + i] = r[i]
      /\ \A i \in 1 .. Len(u) - e : t[b + Len(r) + i] = u[e + i]
  BY SplicedSeq
<1>2. /\ Len(u) \in Nat /\ Len(r) \in Nat /\ Len(t) \in Nat /\ DOMAIN t = 1 .. Len(t)
  BY <1>1
<1>3. ASSUME NEW j \in DOMAIN t
      PROVE  \/ j \in 1 .. b /\ t[j] = u[j]
             \/ \E i \in 1 .. Len(r) : j = b + i /\ t[j] = r[i]
             \/ \E k \in 1 .. Len(u) : k > e /\ j = b + Len(r) + (k - e) /\ t[j] = u[k]
  <2>1. j \in Nat /\ j >= 1 /\ j <= Len(t)
    BY <1>2
  <2>2. CASE j <= b
    BY <1>1, <2>1, <2>2
  <2>3. CASE j > b /\ j <= b + Len(r)
    <3>1. j - b \in 1 .. Len(r) /\ b + (j - b) = j
      BY <1>2, <2>1, <2>3
    <3>2. t[b + (j - b)] = r[j - b]
      BY <1>1, <3>1, Zenon
    <3> QED
      BY <3>1, <3>2
  <2>4. CASE j > b + Len(r)
    <3> DEFINE i == j - b - Len(r)
               k == e + i
    <3>1. i \in 1 .. Len(u) - e /\ b + Len(r) + i = j
      BY <1>1, <1>2, <2>1, <2>4
    <3>2. k \in 1 .. Len(u) /\ k > e /\ k - e = i
      BY <1>2, <3>1
    <3>3. t[b + Len(r) + i] = u[k]
      BY <1>1, <3>1, Zenon
    <3> HIDE DEF i, k
    <3> QED
      BY <3>1, <3>2, <3>3
  <2> QED
    BY <1>2, <2>1, <2>2, <2>3, <2>4
<1>4. \A i \in 1 .. b : i \in DOMAIN t
  BY <1>1, <1>2
<1>5. \A i \in 1 .. Len(r) : b + i \in DOMAIN t
  BY <1>1, <1>2
<1>6. ASSUME NEW k \in 1 .. Len(u), k > e
      PROVE  \E j \in DOMAIN t : t[j] = u[k]
  <2> DEFINE i == k - e
             j == b + Len(r) + i
  <2>1. i \in 1 .. Len(u) - e /\ e + i = k
    BY <1>2, <1>6
  <2>2. j \in DOMAIN t
    BY <1>1, <1>2, <2>1
  <2>3. t[j] = u[e + i]
    BY <1>1, <2>1, Zenon
  <2> HIDE DEF i, j
  <2> QED
    BY <2>1, <2>2, <2>3
<1> QED
  BY <1>1, <1>2, <1>3, <1>4, <1>5, <1>6, Zenon DEF Rewritten

LEMMA Chars ==
  ASSUME NEW p \in 1 .. Size
  PROVE  /\ Char(p) \in Span /\ Char(p).start = p - 1 /\ Char(p).end = p
         /\ Char(p).unit = 0
BY SizeAssumption DEF Char, Span

(* Where an edit may stand.                                                *)
Fits(s) == s \in Span /\ s.start <= s.end /\ s.end <= Size /\ s.unit # 0

(* What t is once the edits of `made` are in it: their pieces in order,    *)
(* and ahead of all of them the file as it was.                            *)
Reads(t, made) ==
  /\ t \in Seq(Span)
  /\ ToSet(t) = Pieces(made)
  /\ \A i, j \in DOMAIN t : i < j => SpliceBefore(t[i], t[j])
  /\ \A p \in 1 .. Size :
       (\A d \in made : p <= d.start) => p <= Len(t) /\ t[p] = Char(p)

LEMMA OriginalReads == Reads(Original, {})
<1>1. /\ Size \in Nat /\ DOMAIN Original = 1 .. Size
      /\ \A p \in 1 .. Size : Original[p] = Char(p) /\ Char(p) \in Span
  BY SizeAssumption, Chars DEF Original
<1>2. Original \in Seq(Span) /\ Len(Original) = Size
  BY <1>1, Chars, SizeAssumption DEF Original
<1>3. ToSet(Original) = Pieces({})
  BY <1>1 DEF ToSet, Pieces
<1>4. ASSUME NEW i \in DOMAIN Original, NEW j \in DOMAIN Original, i < j
      PROVE  SpliceBefore(Original[i], Original[j])
  <2>1. Char(i).start = i - 1 /\ Char(j).start = j - 1 /\ i \in Nat /\ j \in Nat
    BY <1>1, Chars
  <2> QED
    BY <1>1, <1>4, <2>1 DEF SpliceBefore
<1> QED
  BY <1>1, <1>2, <1>3, <1>4 DEF Reads

(* What one more edit, ahead of all made so far, leaves of their pieces.   *)
LEMMA PiecesWith ==
  ASSUME NEW made, NEW s, Fits(s),
         \A d \in made : Fits(d) /\ s.end <= d.start
  PROVE  Pieces(made \cup {s}) =
           {Char(p) : p \in 1 .. s.start}
             \cup {x \in {s} : x.text # 0}
             \cup (Pieces(made) \ {Char(p) : p \in 1 .. s.end})
<1> DEFINE Left(m) == {q \in 1 .. Size : \A d \in m : ~(d.start < q /\ q <= d.end)}
<1>1. /\ s.start \in Nat /\ s.end \in Nat /\ s.start <= s.end /\ s.end <= Size /\ s.unit # 0
      /\ Size \in Nat
  BY SpanFields, SizeAssumption DEF Fits
<1>2. \A d \in made : d.start \in Nat /\ d.end \in Nat /\ d.unit # 0 /\ s.end <= d.start
  BY SpanFields DEF Fits
<1>3. 1 .. s.end \subseteq Left(made)
  BY <1>1, <1>2
<1>4. Left(made \cup {s}) = (1 .. s.start) \cup (Left(made) \ (1 .. s.end))
  <2>1. ASSUME NEW q \in Left(made \cup {s})
        PROVE  q \in (1 .. s.start) \cup (Left(made) \ (1 .. s.end))
    BY <1>1
  <2>2. ASSUME NEW q \in 1 .. s.start
        PROVE  q \in Left(made \cup {s})
    BY <1>1, <1>2
  <2>3. ASSUME NEW q \in Left(made) \ (1 .. s.end)
        PROVE  q \in Left(made \cup {s})
    BY <1>1
  <2> QED
    BY <2>1, <2>2, <2>3
<1>5. \A p, q \in 1 .. Size : Char(p) = Char(q) => p = q
  BY Chars
<1>6. \A p \in 1 .. Size, d \in made \cup {s} : Char(p) # d
  BY <1>1, <1>2, Chars
<1>7. /\ Pieces(made) = {Char(p) : p \in Left(made)} \cup {d \in made : d.text # 0}
      /\ Pieces(made \cup {s}) = {Char(p) : p \in Left(made \cup {s})}
                                   \cup {d \in made \cup {s} : d.text # 0}
  BY DEF Pieces
<1>8. Left(made) \subseteq 1 .. Size /\ 1 .. s.end \subseteq 1 .. Size
  BY <1>1
<1> HIDE DEF Left
<1>9. {Char(p) : p \in Left(made)} \ {Char(p) : p \in 1 .. s.end}
        = {Char(p) : p \in Left(made) \ (1 .. s.end)}
  BY <1>5, <1>8
<1>10. {d \in made : d.text # 0} \ {Char(p) : p \in 1 .. s.end} = {d \in made : d.text # 0}
  BY <1>6, <1>8
<1>11. {Char(p) : p \in Left(made \cup {s})}
         = {Char(p) : p \in 1 .. s.start} \cup {Char(p) : p \in Left(made) \ (1 .. s.end)}
  BY <1>4
<1>12. {d \in made \cup {s} : d.text # 0} = {d \in made : d.text # 0} \cup {x \in {s} : x.text # 0}
  OBVIOUS
<1> QED
  BY <1>7, <1>9, <1>10, <1>11, <1>12

(* Splicing an edit ahead of all made so far, clear of them, puts it in    *)
(* its place and takes away what it replaces: no offset it uses has moved. *)
LEMMA SplicedReads ==
  ASSUME NEW made, NEW s, Fits(s),
         \A d \in made : Fits(d) /\ SpliceBefore(s, d) /\ s.end <= d.start,
         NEW u, Reads(u, made),
         NEW t, Splices(t, u, s.start, Replacement(s), s.end)
  PROVE  Reads(t, made \cup {s})
<1> DEFINE b == s.start
           e == s.end
           r == Replacement(s)
<1>1. /\ b \in Nat /\ e \in Nat /\ b <= e /\ e <= Size /\ s \in Span
      /\ Size \in Nat
  BY SpanFields, SizeAssumption DEF Fits
<1>2. u \in Seq(Span) /\ Len(u) \in Nat /\ DOMAIN u = 1 .. Len(u)
  BY DEF Reads
<1>3. \A p \in 1 .. e : p \in 1 .. Size /\ p <= Len(u) /\ u[p] = Char(p)
  <2>1. ASSUME NEW p \in 1 .. e
        PROVE  p \in 1 .. Size /\ \A d \in made : p <= d.start
    <3>1. \A d \in made : d.start \in Nat
      BY SpanFields DEF Fits
    <3> QED
      BY <1>1, <3>1
  <2> QED
    BY <2>1 DEF Reads
<1>4. e <= Len(u)
  BY <1>1, <1>2, <1>3
<1>5. r \in Seq(Span) /\ Len(r) \in Nat
  BY <1>1 DEF Replacement
<1>6. \/ s.text = 0 /\ Len(r) = 0
      \/ s.text # 0 /\ Len(r) = 1 /\ r[1] = s
  BY DEF Replacement
<1>0. Splices(t, u, b, r, e)
  OBVIOUS
<1> HIDE DEF b, e, r
<1>7. /\ t \in Seq(Span) /\ DOMAIN t = 1 .. Len(t) /\ Len(t) \in Nat
      /\ \A j \in DOMAIN t :
           \/ j \in 1 .. b /\ t[j] = u[j]
           \/ \E i \in 1 .. Len(r) : j = b + i /\ t[j] = r[i]
           \/ \E k \in 1 .. Len(u) : k > e /\ j = b + Len(r) + (k - e) /\ t[j] = u[k]
      /\ \A i \in 1 .. b : i \in DOMAIN t /\ t[i] = u[i]
      /\ \A i \in 1 .. Len(r) : b + i \in DOMAIN t /\ t[b + i] = r[i]
      /\ \A k \in 1 .. Len(u) : k > e => \E j \in DOMAIN t : t[j] = u[k]
  <2>1. u \in Seq(Span) /\ r \in Seq(Span) /\ b \in Nat /\ e \in Nat /\ b <= e /\ e <= Len(u)
    BY <1>1, <1>2, <1>4, <1>5
  <2> QED
    <3>1. Rewritten(Span, t, u, b, r, e)
      BY <1>0, <2>1, SplicedIndex, Zenon
    <3> QED
      BY <3>1, Zenon DEF Rewritten
<1>8. 1 .. b \subseteq 1 .. e /\ 1 .. b \subseteq DOMAIN t /\ 1 .. e \subseteq DOMAIN u
  BY <1>1, <1>2, <1>4, <1>7
  \* where an index of t leads: before, in, or after the replacement
<1>9. ASSUME NEW i \in DOMAIN t
      PROVE  \/ i \in 1 .. b /\ t[i] = Char(i) /\ i \in 1 .. e
             \/ i = b + 1 /\ Len(r) = 1 /\ s.text # 0 /\ t[i] = s
             \/ \E k \in DOMAIN u : k > e /\ i = b + Len(r) + (k - e) /\ t[i] = u[k]
  <2>1. CASE i \in 1 .. b /\ t[i] = u[i]
    BY <1>3, <1>8, <2>1
  <2>2. ASSUME NEW k \in 1 .. Len(r), i = b + k, t[i] = r[k]
        PROVE  i = b + 1 /\ Len(r) = 1 /\ s.text # 0 /\ t[i] = s
    BY <1>5, <1>6, <2>2
  <2> QED
    BY <1>2, <1>7, <2>1, <2>2
  \* what stood after the replaced stretch comes after the replacement
<1>10. ASSUME NEW k \in DOMAIN u, k > e
       PROVE  /\ \A p \in 1 .. e : u[k] # Char(p)
              /\ SpliceBefore(s, u[k])
              /\ u[k] \in Pieces(made)
  <2>1. u[k] \in Span /\ u[k] \in Pieces(made)
    BY <1>2 DEF Reads, ToSet
  <2>2. ASSUME NEW p \in 1 .. e
        PROVE  u[k] # Char(p)
    <3>1. p \in DOMAIN u /\ u[p] = Char(p) /\ p < k /\ u[p] \in Span
      BY <1>1, <1>2, <1>3, <1>10
    <3>2. SpliceBefore(u[p], u[k])
      BY <3>1 DEF Reads
    <3> QED
      BY <2>1, <3>1, <3>2, SpliceBeforeStrict
  <2>3. CASE u[k] \in made
    BY <2>1, <2>2, <2>3
  <2>4. CASE u[k] \notin made
    <3>1. PICK q \in 1 .. Size : u[k] = Char(q)
      BY <2>1, <2>4 DEF Pieces
    <3>2. q > e
      BY <1>1, <2>2, <3>1
    <3>3. Char(q).start = q - 1 /\ Char(q).end = q /\ s.start = b /\ s.end = e
      BY <3>1, Chars DEF b, e
    <3>4. SpliceBefore(s, Char(q))
      BY <1>1, <3>1, <3>2, <3>3 DEF SpliceBefore
    <3> QED
      BY <2>1, <2>2, <3>1, <3>4
  <2> QED
    BY <2>3, <2>4
<1>11. ASSUME NEW p \in 1 .. b
       PROVE  Char(p) \in Span /\ SpliceBefore(Char(p), s)
  <2>1. p \in 1 .. Size /\ s.start = b
    BY <1>1 DEF b
  <2>2. Char(p) \in Span /\ Char(p).start = p - 1
    BY <2>1, Chars
  <2> QED
    BY <1>1, <2>1, <2>2 DEF SpliceBefore
<1>12. ToSet(t) = Pieces(made \cup {s})
  <2>1. Pieces(made \cup {s}) =
           {Char(p) : p \in 1 .. b}
             \cup {x \in {s} : x.text # 0}
             \cup (Pieces(made) \ {Char(p) : p \in 1 .. e})
    BY PiecesWith DEF b, e
  <2>2. ASSUME NEW i \in DOMAIN t
        PROVE  t[i] \in Pieces(made \cup {s})
    <3>1. CASE i \in 1 .. b /\ t[i] = Char(i)
      BY <2>1, <3>1
    <3>2. CASE s.text # 0 /\ t[i] = s
      BY <2>1, <3>2
    <3>3. CASE \E k \in DOMAIN u : k > e /\ t[i] = u[k]
      BY <1>10, <2>1, <3>3
    <3> QED
      BY <1>9, <3>1, <3>2, <3>3
  <2>3. ASSUME NEW p \in 1 .. b
        PROVE  Char(p) \in ToSet(t)
    <3>1. p \in DOMAIN t /\ p \in 1 .. e
      BY <1>8
    <3>2. t[p] = Char(p)
      BY <1>3, <1>7, <3>1
    <3> QED
      BY <3>1, <3>2 DEF ToSet
  <2>4. ASSUME s.text # 0
        PROVE  s \in ToSet(t)
    <3>1. b + 1 \in DOMAIN t /\ t[b + 1] = s
      <4>1. Len(r) = 1 /\ r[1] = s /\ 1 \in 1 .. Len(r)
        BY <1>6, <2>4
      <4> QED
        BY <1>7, <4>1, Zenon
    <3> QED
      BY <3>1 DEF ToSet
  <2>5. ASSUME NEW x \in Pieces(made) \ {Char(p) : p \in 1 .. e}
        PROVE  x \in ToSet(t)
    <3>1. PICK k \in DOMAIN u : x = u[k]
      BY <2>5 DEF Reads, ToSet
    <3>2. k \notin 1 .. e
      BY <1>3, <2>5, <3>1
    <3>3. k \in 1 .. Len(u) /\ k > e
      BY <1>1, <1>2, <3>2
    <3> QED
      BY <1>7, <3>1, <3>3 DEF ToSet
  <2>6. ToSet(t) \subseteq Pieces(made \cup {s})
    BY <2>2 DEF ToSet
  <2> QED
    BY <2>1, <2>3, <2>4, <2>5, <2>6
<1>13. ASSUME NEW i \in DOMAIN t, NEW j \in DOMAIN t, i < j
       PROVE  SpliceBefore(t[i], t[j])
  <2>1. \A k, l \in DOMAIN u : k < l => SpliceBefore(u[k], u[l])
    BY DEF Reads
  <2>2. \A k \in DOMAIN u : u[k] \in Span
    BY <1>2
  <2>3. i \in Nat /\ j \in Nat
    BY <1>7
  <2>4. CASE i \in 1 .. b /\ t[i] = Char(i) /\ i \in 1 .. e
    <3>1. i \in DOMAIN u /\ u[i] = Char(i)
      BY <1>2, <1>3, <2>4
    <3>2. CASE j \in 1 .. b /\ t[j] = Char(j) /\ j \in 1 .. e
      <4>1. j \in DOMAIN u /\ u[j] = Char(j)
        BY <1>2, <1>3, <3>2
      <4> QED
        BY <1>13, <2>1, <2>4, <3>1, <3>2, <4>1
    <3>3. CASE t[j] = s
      BY <1>11, <2>4, <3>3
    <3>4. CASE \E k \in DOMAIN u : k > e /\ t[j] = u[k]
      <4>1. PICK k \in DOMAIN u : k > e /\ t[j] = u[k]
        BY <3>4
      <4>2. i < k
        BY <1>1, <1>2, <2>4, <4>1
      <4> QED
        BY <2>1, <2>4, <3>1, <4>1, <4>2
    <3> QED
      BY <1>9, <3>2, <3>3, <3>4
  <2>5. CASE i = b + 1 /\ Len(r) = 1 /\ s.text # 0 /\ t[i] = s
    <3>1. j \notin 1 .. b /\ j # b + 1
      BY <1>1, <1>13, <2>3, <2>5
    <3> QED
      BY <1>9, <1>10, <2>5, <3>1
  <2>6. CASE \E k \in DOMAIN u : k > e /\ i = b + Len(r) + (k - e) /\ t[i] = u[k]
    <3>1. PICK k \in DOMAIN u : k > e /\ i = b + Len(r) + (k - e) /\ t[i] = u[k]
      BY <2>6
    <3>2. j \notin 1 .. b /\ (Len(r) = 1 => j # b + 1)
      BY <1>1, <1>2, <1>5, <1>13, <2>3, <3>1
    <3>3. PICK l \in DOMAIN u : j = b + Len(r) + (l - e) /\ t[j] = u[l]
      BY <1>9, <3>2
    <3>4. k < l
      BY <1>1, <1>2, <1>5, <1>13, <3>1, <3>3
    <3> QED
      BY <2>1, <3>1, <3>3, <3>4
  <2> QED
    BY <1>9, <2>4, <2>5, <2>6
<1>14. ASSUME NEW p \in 1 .. Size, \A d \in made \cup {s} : p <= d.start
       PROVE  p <= Len(t) /\ t[p] = Char(p)
  <2>1. p \in 1 .. b /\ p \in 1 .. e
    BY <1>1, <1>14 DEF b
  <2> QED
    BY <1>3, <1>7, <1>8, <2>1
<1> QED
  BY <1>7, <1>12, <1>13, <1>14 DEF Reads

-----------------------------------------------------------------------------
(* Every splice of every run.                                              *)

(* The order of the list, and the text between two splices.                *)
Splicing ==
  /\ queue \subseteq Accepted
  /\ ~Overlap(Accepted)
  /\ \A q \in queue, d \in Accepted \ queue : SpliceBefore(q, d)
  /\ Reads(text, Accepted \ queue)

SpliceInv ==
  /\ \A i \in DOMAIN units : \A j \in DOMAIN units[i].edits :
       units[i].edits[j].start <= units[i].edits[j].end
  /\ \A s \in spans : Fits(s)
  /\ phase \notin {"splice", "patched"} => text = Original
  /\ phase \in {"splice", "patched"} => Splicing
  /\ phase = "patched" => queue = {}

LEMMA InitSpliceInv == Init => SpliceInv
<1> SUFFICES ASSUME Init PROVE SpliceInv
  OBVIOUS
<1>1. units = << >> /\ spans = {} /\ phase = "screen" /\ text = Original
  BY DEF Init
<1> QED
  BY <1>1 DEF SpliceInv

(* A fixer's edits each begin before they end.                             *)
LEMMA AddUnitForward ==
  ASSUME SweepInv, SpliceInv, NEW findings, NEW answer \in Answers \cup JointAnswers,
         AddUnit(findings, answer)
  PROVE  \A i \in DOMAIN units' : \A j \in DOMAIN units'[i].edits :
           units'[i].edits[j].start <= units'[i].edits[j].end
<1> DEFINE u == [findings |-> findings, edits |-> answer]
<1>1. PICK S : units \in Seq(S)
  BY DEF SweepInv
<1>2. /\ DOMAIN units = 1 .. Len(units) /\ DOMAIN units' = 1 .. Len(units) + 1
      /\ Len(units) \in Nat
      /\ \A i \in DOMAIN units : units'[i] = units[i]
      /\ units'[Len(units) + 1] = u
  BY <1>1 DEF AddUnit
<1>3. \A j \in DOMAIN answer : answer[j].start <= answer[j].end
  BY AnswersAssumption
<1>4. u.edits = answer
  OBVIOUS
<1> HIDE DEF u
<1>5. ASSUME NEW i \in DOMAIN units'
      PROVE  \A j \in DOMAIN units'[i].edits :
               units'[i].edits[j].start <= units'[i].edits[j].end
  <2>1. CASE i \in DOMAIN units
    BY <1>2, <2>1 DEF SpliceInv
  <2>2. CASE i = Len(units) + 1
    BY <1>2, <1>3, <1>4, <2>2
  <2> QED
    BY <1>2, <2>1, <2>2
<1> QED
  BY <1>5

(* Whatever is placed stands in the file.                                  *)
LEMMA PlacedFit ==
  ASSUME SweepInv, SpliceInv, Place
  PROVE  \A s \in spans' : Fits(s)
<1>1. spans' = SpansOf(live') /\ live' = {i \in live : Placeable(units[i])}
  BY DEF Place
<1>2. ASSUME NEW s \in spans'
      PROVE  Fits(s)
  <2>0. PICK i \in live' : \E j \in DOMAIN units[i].edits :
          s = [start |-> units[i].edits[j].start, end |-> units[i].edits[j].end,
               text |-> units[i].edits[j].text, unit |-> i, nth |-> j]
    BY <1>1 DEF SpansOf
  <2>1. PICK j \in DOMAIN units[i].edits :
          s = [start |-> units[i].edits[j].start, end |-> units[i].edits[j].end,
               text |-> units[i].edits[j].text, unit |-> i, nth |-> j]
    BY <2>0
  <2>2. /\ s.start = units[i].edits[j].start /\ s.end = units[i].edits[j].end
        /\ s.unit = i
    BY <2>1
  <2>3. i \in DOMAIN units /\ units[i].edits \in Seq(Edit) /\ Placeable(units[i])
    BY <1>1 DEF SweepInv
  <2>4. units[i].edits[j] \in Edit /\ units[i].edits[j].end # NoColumn
    BY <2>3 DEF Placeable
  <2>5. s.start <= s.end
    BY <2>2, <2>3 DEF SpliceInv
  <2>6. s.end <= Size
    BY <2>2, <2>4, SizeAssumption DEF Edit, Offset
  <2>7. s \in Span
    BY PlaceStep
  <2>8. s.unit # 0
    BY <2>2, <2>3 DEF SweepInv
  <2> QED
    BY <2>5, <2>6, <2>7, <2>8 DEF Fits
<1> QED
  BY <1>2

(* The sorted list has nothing spliced yet.                                *)
LEMMA SortStep ==
  ASSUME SpliceInv, Sort, phase' = "splice"
  PROVE  Splicing'
<1>1. /\ queue' = Accepted /\ ~Overlap(Accepted) /\ Accepted' = Accepted
      /\ text' = Original
  BY DEF Sort, Accepted, SpliceInv
<1>2. Accepted' \ queue' = {}
  BY <1>1
<1> QED
  BY <1>1, <1>2, OriginalReads DEF Splicing

LEMMA SpliceStep ==
  ASSUME SpliceInv, Splice
  PROVE  Splicing'
<1>1. PICK s \in queue :
        /\ \A other \in queue \ {s} : SpliceBefore(other, s)
        /\ text' = SubSeq(text, 1, s.start) \o Replacement(s)
                      \o SubSeq(text, s.end + 1, Len(text))
        /\ queue' = queue \ {s}
  BY DEF Splice, Spliced
<1> DEFINE made == Accepted \ queue
<1>2. Splicing /\ s \in Accepted /\ Accepted \subseteq spans /\ \A d \in spans : Fits(d)
  BY <1>1 DEF Splice, SpliceInv, Splicing, Accepted
<1>3. Accepted' = Accepted /\ Accepted' \ queue' = made \cup {s}
  BY <1>1, <1>2 DEF Splice, Accepted
<1>4. Accepted \in SUBSET Span
  BY <1>2 DEF Fits
<1>5. \A d \in made : Fits(d) /\ SpliceBefore(s, d) /\ s.end <= d.start
  BY <1>1, <1>2, <1>4, Apart DEF Splicing
<1>6. Splices(text', text, s.start, Replacement(s), s.end)
  BY <1>1 DEF Splices
<1>7. Reads(text', made \cup {s})
  <2>1. Fits(s) /\ Reads(text, made)
    BY <1>2 DEF Splicing
  <2> HIDE DEF made
  <2> QED
    BY <1>5, <1>6, <2>1, SplicedReads
<1>8. \A q \in queue', d \in made \cup {s} : SpliceBefore(q, d)
  BY <1>1, <1>2 DEF Splicing
<1>9. queue' \subseteq Accepted' /\ ~Overlap(Accepted')
  BY <1>1, <1>2, <1>3 DEF Splicing
<1> QED
  BY <1>3, <1>7, <1>8, <1>9 DEF Splicing

LEMMA NextSpliceInv == SweepInv /\ SpliceInv /\ [Next]_vars => SpliceInv'
<1> SUFFICES ASSUME SweepInv, SpliceInv, [Next]_vars PROVE SpliceInv'
  OBVIOUS
<1>1. CASE Screen
  BY <1>1 DEF Screen, SpliceInv
<1>2. CASE Coordinate
  <2>1. CASE UNCHANGED <<units, live>>
    BY <1>2, <2>1 DEF Coordinate, SpliceInv
  <2>2. ASSUME NEW s \in pools, NEW answer \in JointAnswers, AddUnit(Pooled(todo, s), answer)
        PROVE  SpliceInv'
    BY <1>2, <2>2, AddUnitForward DEF Coordinate, SpliceInv
  <2> QED
    BY <1>2, <2>1, <2>2 DEF Coordinate
<1>3. CASE Ask
  <2>1. CASE UNCHANGED <<units, live>>
    BY <1>3, <2>1 DEF Ask, SpliceInv
  <2>2. ASSUME NEW answer \in Answers, AddUnit(<<Head(todo)>>, answer)
        PROVE  SpliceInv'
    BY <1>3, <2>2, AddUnitForward DEF Ask, SpliceInv
  <2> QED
    BY <1>3, <2>1, <2>2 DEF Ask
<1>4. CASE Confine
  BY <1>4 DEF Confine, SpliceInv
<1>5. CASE Place
  BY <1>5, PlacedFit DEF Place, SpliceInv
<1>6. CASE Sweep
  BY <1>6 DEF Sweep, SpliceInv
<1>7. CASE Sort
  BY <1>7, SortStep DEF Sort, SpliceInv
<1>8. CASE Splice
  BY <1>8, SpliceStep DEF Splice, SpliceInv
<1>9. CASE Patched
  <2>1. Splicing'
    BY <1>9 DEF Patched, SpliceInv, Splicing, Accepted
  <2> QED
    BY <1>9, <2>1 DEF Patched, SpliceInv
<1>10. CASE UNCHANGED vars
  BY <1>10 DEF vars, SpliceInv, Splicing, Accepted
<1> QED
  BY <1>1, <1>2, <1>3, <1>4, <1>5, <1>6, <1>7, <1>8, <1>9, <1>10 DEF Next

(* Whatever the fixers of a file answer, the text they leave holds every   *)
(* character no accepted edit deletes and every accepted insertion, each   *)
(* once and in the place it was aimed at (apply_edits, ADR-014).           *)
THEOREM SplicesLandWhereAimed == Spec => []SpliceExact
<1>1. SpliceInv => SpliceExact
  <2> SUFFICES ASSUME SpliceInv, phase = "patched"
               PROVE  /\ ToSet(text) = Pieces(Accepted)
                      /\ \A i, j \in DOMAIN text : i < j => SpliceBefore(text[i], text[j])
    BY DEF SpliceExact
  <2>1. Accepted \ queue = Accepted /\ Splicing
    BY DEF SpliceInv
  <2> QED
    BY <2>1 DEF Splicing, Reads
<1> QED
  BY <1>1, InitSweepInv, NextSweepInv, InitSpliceInv, NextSpliceInv, PTL DEF Spec

-----------------------------------------------------------------------------
(* Induction and recursion on the naturals, with sets and functions in     *)
(* place of the library's operator parameters.                             *)
LEMMA InductionOnNat ==
  ASSUME NEW T, 0 \in T, \A n \in Nat : n \in T => n + 1 \in T
  PROVE  Nat \subseteq T
<1> SUFFICES ASSUME Nat \ T # {}
             PROVE  FALSE
  OBVIOUS
<1> DEFINE f == [n \in Nat \ T |-> n]
<1>1. f \in [Nat \ T -> Nat] /\ \A n \in Nat \ T : f[n] = n
  OBVIOUS
<1> HIDE DEF f
<1>2. PICK x \in Nat \ T : \A y \in Nat \ T : f[x] <= f[y]
  BY <1>1, LeastBy
<1>3. \A y \in Nat \ T : x <= y
  BY <1>1, <1>2
<1>4. x # 0 /\ x - 1 \in Nat /\ (x - 1) + 1 = x
  BY <1>2
<1>5. x - 1 \in T
  BY <1>3, <1>4
<1> QED
  BY <1>2, <1>4, <1>5

(* What starts from c and goes on by steps stays in S.                     *)
Steps(step, S) == step \in [Nat \X S -> S]

Unfolds(f, S, c, step) ==
  /\ f \in [Nat -> S]
  /\ f[0] = c
  /\ \A n \in Nat : f[n + 1] = step[<<n, f[n]>>]

LEMMA RecursionOnNat ==
  ASSUME NEW S, NEW c \in S, NEW step, Steps(step, S)
  PROVE  \E f : Unfolds(f, S, c, step)
<1>0. step \in [Nat \X S -> S]
  BY DEF Steps
<1> DEFINE Upto(f, n) == /\ f \in [0 .. n -> S] /\ f[0] = c
                         /\ \A i \in 0 .. n : i + 1 <= n => f[i + 1] = step[<<i, f[i]>>]
<1>1. \A n \in Nat : \E f : Upto(f, n)
  <2> DEFINE T == {n \in Nat : \E f : Upto(f, n)}
  <2>1. 0 \in T
    <3>1. Upto([i \in 0 .. 0 |-> c], 0)
      OBVIOUS
    <3> QED
      BY <3>1
  <2>2. ASSUME NEW n \in Nat, n \in T
        PROVE  n + 1 \in T
    <3>1. PICK f : Upto(f, n)
      BY <2>2
    <3> DEFINE g == [i \in 0 .. n + 1 |-> IF i <= n THEN f[i] ELSE step[<<n, f[n]>>]]
    <3>2. f[n] \in S /\ step[<<n, f[n]>>] \in S
      BY <1>0, <3>1
    <3>3. g \in [0 .. n + 1 -> S] /\ g[0] = c
      BY <3>1, <3>2
    <3>4. ASSUME NEW i \in 0 .. n + 1, i + 1 <= n + 1
          PROVE  g[i + 1] = step[<<i, g[i]>>]
      <4>1. CASE i + 1 <= n
        BY <3>1, <4>1
      <4>2. CASE i = n
        BY <4>2
      <4> QED
        BY <3>4, <4>1, <4>2
    <3>5. Upto(g, n + 1)
      BY <3>3, <3>4
    <3> HIDE DEF Upto, g
    <3>6. \E u : Upto(u, n + 1)
      BY <3>5
    <3> QED
      BY <3>6
  <2> HIDE DEF T
  <2>3. Nat \subseteq T
    BY <2>1, <2>2, InductionOnNat
  <2> QED
    BY <2>3 DEF T
<1>2. ASSUME NEW n \in Nat, NEW f, NEW g, Upto(f, n), Upto(g, n + 1)
      PROVE  f[n] = g[n]
  <2> DEFINE T == {i \in Nat : i <= n => f[i] = g[i]}
  <2>1. 0 \in T
    BY <1>2
  <2>2. ASSUME NEW i \in Nat, i \in T
        PROVE  i + 1 \in T
    <3> SUFFICES ASSUME i + 1 <= n
                 PROVE  f[i + 1] = g[i + 1]
      OBVIOUS
    <3>1. f[i] = g[i] /\ i \in 0 .. n /\ i \in 0 .. n + 1 /\ i + 1 <= n + 1
      BY <2>2
    <3>2. f[i + 1] = step[<<i, f[i]>>] /\ g[i + 1] = step[<<i, g[i]>>]
      BY <1>2, <3>1
    <3> QED
      BY <3>1, <3>2
  <2> HIDE DEF T
  <2>3. Nat \subseteq T
    BY <2>1, <2>2, InductionOnNat
  <2> QED
    BY <2>3 DEF T
<1> DEFINE a == [n \in Nat |-> CHOOSE f : Upto(f, n)]
           h == [n \in Nat |-> a[n][n]]
<1>3. \A n \in Nat : Upto(a[n], n)
  BY <1>1, Zenon
<1> HIDE DEF a
<1>4. h \in [Nat -> S] /\ h[0] = c
  BY <1>3
<1>5. ASSUME NEW n \in Nat
      PROVE  h[n + 1] = step[<<n, h[n]>>]
  <2>1. Upto(a[n], n) /\ Upto(a[n + 1], n + 1)
    BY <1>3
  <2>2. n \in 0 .. n + 1 /\ n + 1 <= n + 1 /\ n + 1 \in Nat
    OBVIOUS
  <2>3. a[n + 1][n + 1] = step[<<n, a[n + 1][n]>>]
    BY <2>1, <2>2
  <2> HIDE DEF Upto
  <2>4. a[n][n] = a[n + 1][n]
    BY <1>2, <2>1
  <2> QED
    BY <2>2, <2>3, <2>4
<1> QED
  BY <1>4, <1>5 DEF Unfolds

-----------------------------------------------------------------------------
(* Lists without repetition.                                               *)

(* q is a list over S that says each member of T once.                     *)
Lists(q, S, T) == q \in Seq(S) /\ ToSet(q) = T /\ IsInjective(q)

LEMMA NothingListed ==
  ASSUME NEW S
  PROVE  Lists(<< >>, S, {})
BY DEF Lists, ToSet, IsInjective

LEMMA OneListed ==
  ASSUME NEW S, NEW e \in S
  PROVE  Lists(<<e>>, S, {e})
BY DEF Lists, ToSet, IsInjective

LEMMA JoinListed ==
  ASSUME NEW S, NEW T, NEW U, NEW q, NEW r,
         Lists(q, S, T), Lists(r, S, U), T \cap U = {}
  PROVE  Lists(q \o r, S, T \cup U)
<1>1. q \in Seq(S) /\ r \in Seq(S)
  BY DEF Lists
<1>2. /\ q \o r \in Seq(S) /\ Len(q \o r) = Len(q) + Len(r)
      /\ Len(q) \in Nat /\ Len(r) \in Nat
      /\ \A i \in 1 .. Len(q) : (q \o r)[i] = q[i]
      /\ \A i \in 1 .. Len(r) : (q \o r)[Len(q) + i] = r[i]
  BY ONLY <1>1, Joined
<1>3. /\ DOMAIN q = 1 .. Len(q) /\ DOMAIN r = 1 .. Len(r)
      /\ DOMAIN (q \o r) = 1 .. Len(q) + Len(r)
  BY <1>1, <1>2
<1> DEFINE t == q \o r
<1> HIDE DEF t
<1>4. \A i \in DOMAIN q : i \in DOMAIN t /\ t[i] = q[i]
  BY <1>2, <1>3 DEF t
<1>5. \A i \in DOMAIN r : Len(q) + i \in DOMAIN t /\ t[Len(q) + i] = r[i]
  <2>1. \A i \in 1 .. Len(r) : Len(q) + i \in 1 .. Len(q) + Len(r)
    BY <1>2
  <2> QED
    BY <1>2, <1>3, <2>1, Zenon DEF t
<1>6. \A k \in DOMAIN t : \/ k \in DOMAIN q
                          \/ \E i \in DOMAIN r : k = Len(q) + i
  <2> SUFFICES ASSUME NEW k \in DOMAIN t, k \notin DOMAIN q
               PROVE  \E i \in DOMAIN r : k = Len(q) + i
    OBVIOUS
  <2>1. k - Len(q) \in DOMAIN r /\ k = Len(q) + (k - Len(q))
    BY <1>2, <1>3 DEF t
  <2> QED
    BY <2>1
<1>7. ToSet(t) = T \cup U
  <2>1. ToSet(t) \subseteq ToSet(q) \cup ToSet(r)
    BY <1>4, <1>5, <1>6 DEF ToSet
  <2>2. ToSet(q) \cup ToSet(r) \subseteq ToSet(t)
    BY <1>4, <1>5 DEF ToSet
  <2> QED
    BY <2>1, <2>2 DEF Lists
<1>8. \A i \in DOMAIN q, j \in DOMAIN r : q[i] # r[j]
  BY DEF Lists, ToSet
<1>9. ASSUME NEW k \in DOMAIN t, NEW l \in DOMAIN t, t[k] = t[l]
      PROVE  k = l
  <2>1. CASE k \in DOMAIN q /\ l \in DOMAIN q
    BY <1>4, <1>9, <2>1 DEF Lists, IsInjective
  <2>2. CASE k \in DOMAIN q /\ l \notin DOMAIN q
    BY <1>4, <1>5, <1>6, <1>8, <1>9, <2>2
  <2>3. CASE k \notin DOMAIN q /\ l \in DOMAIN q
    BY <1>4, <1>5, <1>6, <1>8, <1>9, <2>3
  <2>4. CASE k \notin DOMAIN q /\ l \notin DOMAIN q
    <3>1. PICK i \in DOMAIN r : k = Len(q) + i
      BY <1>6, <2>4
    <3>2. PICK j \in DOMAIN r : l = Len(q) + j
      BY <1>6, <2>4
    <3>3. r[i] = r[j]
      BY <1>5, <1>9, <3>1, <3>2
    <3> QED
      BY <3>1, <3>2, <3>3 DEF Lists, IsInjective
  <2> QED
    BY <2>1, <2>2, <2>3, <2>4
<1> QED
  BY <1>2, <1>7, <1>9 DEF Lists, IsInjective, t

(* The first of a list, and the others.                                    *)
LEMMA HeadListed ==
  ASSUME NEW S, NEW T, NEW q, Lists(q, S, T), q # << >>
  PROVE  Head(q) \in T /\ Head(q) \in S /\ Lists(Tail(q), S, T \ {Head(q)})
<1> DEFINE t == Tail(q)
<1>1. q \in Seq(S)
  BY DEF Lists
<1>2. /\ DOMAIN q = 1 .. Len(q) /\ Len(q) \in Nat \ {0} /\ Head(q) = q[1]
      /\ t \in Seq(S) /\ DOMAIN t = 1 .. Len(q) - 1
      /\ \A i \in 1 .. Len(q) - 1 : t[i] = q[i + 1]
  BY <1>1
<1> HIDE DEF t
<1>3. \A i \in DOMAIN t : i + 1 \in DOMAIN q /\ i + 1 # 1 /\ t[i] = q[i + 1]
  BY <1>2
<1>4. \A i \in DOMAIN q : i = 1 \/ (i - 1 \in DOMAIN t /\ t[i - 1] = q[i])
  BY <1>2
<1>5. 1 \in DOMAIN q
  BY <1>2
<1>6. \A i, j \in DOMAIN q : q[i] = q[j] => i = j
  BY DEF Lists, IsInjective
<1>7. ToSet(t) = T \ {Head(q)}
  <2>1. ToSet(t) \subseteq ToSet(q) \ {q[1]}
    BY <1>3, <1>5, <1>6 DEF ToSet
  <2>2. ToSet(q) \ {q[1]} \subseteq ToSet(t)
    BY <1>4 DEF ToSet
  <2> QED
    BY <1>2, <2>1, <2>2 DEF Lists
<1>8. ASSUME NEW i \in DOMAIN t, NEW j \in DOMAIN t, t[i] = t[j]
      PROVE  i = j
  <2>1. i + 1 = j + 1
    BY <1>3, <1>6, <1>8
  <2> QED
    BY <1>2, <2>1
<1>9. q[1] \in T /\ q[1] \in S
  BY <1>1, <1>5 DEF Lists, ToSet
<1> QED
  BY <1>2, <1>7, <1>8, <1>9 DEF Lists, IsInjective, t

(* One more at the end.                                                    *)
LEMMA AppendListed ==
  ASSUME NEW S, NEW T, NEW q, Lists(q, S, T), NEW e \in S, e \notin T
  PROVE  Lists(Append(q, e), S, T \cup {e})
<1>1. Append(q, e) = q \o <<e>>
  BY DEF Lists
<1>2. Lists(q \o <<e>>, S, T \cup {e})
  BY OneListed, JoinListed
<1> QED
  BY <1>1, <1>2

LEMMA OneMore ==
  ASSUME NEW i \in Nat, NEW n \in Nat, i + 1 <= n
  PROVE  /\ 1 .. i + 1 = (1 .. i) \cup {i + 1}
         /\ \A k \in 1 .. i : k \in 1 .. n /\ k # i + 1
         /\ i + 1 \in 1 .. n /\ i + 1 \in 0 .. n /\ i + 1 # 0 /\ (i + 1) - 1 = i /\ i <= n
OBVIOUS

(* Filtering a list leaves a list of those in the set.                     *)
LEMMA AmongListed ==
  ASSUME NEW S, NEW T, NEW q, Lists(q, S, T), NEW set
  PROVE  Lists(Among(q, set), S, T \cap set)
<1> DEFINE n == Len(q)
           body(f, i) == IF i = 0 THEN << >>
                         ELSE IF q[i] \in set THEN Append(f[i - 1], q[i]) ELSE f[i - 1]
           step == [p \in Nat \X Seq(S) |->
                      IF p[1] + 1 <= n /\ q[p[1] + 1] \in set
                      THEN Append(p[2], q[p[1] + 1]) ELSE p[2]]
           upTo == CHOOSE f : f = [i \in 0 .. n |-> body(f, i)]
<1>1. /\ q \in Seq(S) /\ n \in Nat /\ DOMAIN q = 1 .. n
      /\ \A i \in 1 .. n : q[i] \in S
      /\ \A i, j \in 1 .. n : q[i] = q[j] => i = j
  BY DEF Lists, IsInjective
<1>2. \A t \in Seq(S), i \in 1 .. n : Append(t, q[i]) \in Seq(S)
  BY <1>1
<1>3. << >> \in Seq(S)
  OBVIOUS
<1>4. step \in [Nat \X Seq(S) -> Seq(S)]
  BY <1>1, <1>2
<1>5. PICK g : Unfolds(g, Seq(S), << >>, step)
  BY <1>3, <1>4, RecursionOnNat, Zenon DEF Steps
<1>6. \E f : f = [i \in 0 .. n |-> body(f, i)]
  <2> DEFINE f == [i \in 0 .. n |-> g[i]]
  <2>1. ASSUME NEW i \in 0 .. n
        PROVE  g[i] = body(f, i)
    <3>1. CASE i = 0
      BY <1>5, <3>1 DEF Unfolds
    <3>2. CASE i # 0
      <4>1. i - 1 \in Nat /\ i - 1 \in 0 .. n /\ (i - 1) + 1 = i /\ i \in Nat /\ i <= n
        BY <1>1, <3>2
      <4>2. g[(i - 1) + 1] = step[<<i - 1, g[i - 1]>>] /\ g[i - 1] \in Seq(S)
        BY <1>5, <4>1 DEF Unfolds
      <4>3. step[<<i - 1, g[i - 1]>>] = IF q[i] \in set THEN Append(g[i - 1], q[i]) ELSE g[i - 1]
        BY <4>1, <4>2
      <4> QED
        BY <3>2, <4>1, <4>2, <4>3
    <3> QED
      BY <3>1, <3>2
  <2>2. f = [i \in 0 .. n |-> body(f, i)]
    BY <2>1
  <2> QED
    BY <2>2
<1>7. upTo = [i \in 0 .. n |-> body(upTo, i)]
  <2> HIDE DEF body
  <2> QED
    BY <1>6, Zenon
<1>8. Among(q, set) = upTo[n]
  BY Zenon DEF Among
<1> HIDE DEF upTo
<1> DEFINE before(i) == {q[k] : k \in 1 .. i} \cap set
           U == {i \in Nat : i <= n => Lists(upTo[i], S, before(i))}
<1>9. 0 \in U
  <2>1. upTo[0] = << >>
    BY <1>1, <1>7
  <2>2. before(0) = {}
    OBVIOUS
  <2> QED
    BY <2>1, <2>2, NothingListed
<1>10. ASSUME NEW i \in Nat, i \in U
       PROVE  i + 1 \in U
  <2> SUFFICES ASSUME i + 1 <= n
               PROVE  Lists(upTo[i + 1], S, before(i + 1))
    OBVIOUS
  <2>1. i + 1 \in 0 .. n /\ i + 1 \in 1 .. n /\ i + 1 # 0 /\ (i + 1) - 1 = i /\ i <= n
    BY <1>1, OneMore
  <2>2. upTo[i + 1] = IF q[i + 1] \in set THEN Append(upTo[i], q[i + 1]) ELSE upTo[i]
    BY <1>7, <2>1
  <2>3. Lists(upTo[i], S, before(i))
    BY <1>10, <2>1
  <2>4. before(i + 1) = IF q[i + 1] \in set THEN before(i) \cup {q[i + 1]} ELSE before(i)
    <3>1. 1 .. i + 1 = (1 .. i) \cup {i + 1}
      BY <1>1, OneMore
    <3> QED
      BY <3>1
  <2>5. q[i + 1] \notin before(i)
    <3>1. \A k \in 1 .. i : k \in 1 .. n /\ k # i + 1
      BY <1>1, OneMore
    <3> QED
      BY <1>1, <2>1, <3>1
  <2>6. q[i + 1] \in S
    BY <1>1, <2>1
  <2> HIDE DEF before
  <2>7. CASE q[i + 1] \in set
    BY <2>2, <2>3, <2>4, <2>5, <2>6, <2>7, AppendListed
  <2>8. CASE q[i + 1] \notin set
    BY <2>2, <2>3, <2>4, <2>8
  <2> QED
    BY <2>7, <2>8
<1> HIDE DEF U
<1>11. Nat \subseteq U
  BY <1>9, <1>10, InductionOnNat
<1>12. Lists(upTo[n], S, before(n))
  <2> HIDE DEF before
  <2>1. n \in U /\ n <= n
    BY <1>1, <1>11
  <2> HIDE DEF n
  <2> QED
    BY <2>1 DEF U
<1>13. before(n) = T \cap set
  BY <1>1 DEF Lists, ToSet
<1> QED
  BY <1>8, <1>12, <1>13

(* Lists no two of which have a member in common.                          *)
Disjoint(lists, S, T, n) ==
  /\ n \in Nat /\ lists = [i \in 1 .. n |-> lists[i]]
  /\ \A i \in 1 .. n : Lists(lists[i], S, T[i])
  /\ \A i, j \in 1 .. n : i # j => T[i] \cap T[j] = {}

(* One after the other they are one list.                                  *)
LEMMA FlatListed ==
  ASSUME NEW S, NEW T, NEW n, NEW lists, Disjoint(lists, S, T, n)
  PROVE  Lists(FlattenSeq(lists), S, UNION {T[i] : i \in 1 .. n})
<1>0. /\ n \in Nat /\ lists = [i \in 1 .. n |-> lists[i]]
      /\ \A i \in 1 .. n : Lists(lists[i], S, T[i])
      /\ \A i, j \in 1 .. n : i # j => T[i] \cap T[j] = {}
  BY DEF Disjoint
<1>1. lists \in Seq(Seq(S)) /\ Len(lists) = n
  BY <1>0 DEF Lists
<1>2. CASE n = 0
  <2>1. lists = << >>
    BY <1>1, <1>2
  <2>2. FlattenSeq(lists) = << >>
    BY <1>1, <1>2, <2>1 DEF FlattenSeq
  <2>3. UNION {T[i] : i \in 1 .. n} = {}
    BY <1>2
  <2> QED
    BY <2>2, <2>3, NothingListed
<1>3. CASE n # 0
  <2> DEFINE body(f, i) == IF i = 1 THEN lists[i] ELSE f[i - 1] \o lists[i]
             step == [p \in Nat \X Seq(S) |->
                        IF p[1] + 1 <= n THEN p[2] \o lists[p[1] + 1] ELSE p[2]]
             flat == CHOOSE f : f = [i \in 1 .. n |-> body(f, i)]
  <2>1. \A i \in 1 .. n : lists[i] \in Seq(S)
    BY <1>0 DEF Lists
  <2>2. step \in [Nat \X Seq(S) -> Seq(S)]
    BY <1>0, <2>1
  <2>3. << >> \in Seq(S)
    OBVIOUS
  <2>4. PICK g : Unfolds(g, Seq(S), << >>, step)
    BY <2>2, <2>3, RecursionOnNat, Zenon DEF Steps
  <2>5. \E f : f = [i \in 1 .. n |-> body(f, i)]
    <3> DEFINE f == [i \in 1 .. n |-> g[i]]
    <3>1. ASSUME NEW i \in 1 .. n
          PROVE  g[i] = g[i - 1] \o lists[i] /\ g[i - 1] \in Seq(S)
      <4>1. i - 1 \in Nat /\ (i - 1) + 1 = i /\ i <= n
        BY <1>0
      <4>2. g[(i - 1) + 1] = step[<<i - 1, g[i - 1]>>] /\ g[i - 1] \in Seq(S)
        BY <2>4, <4>1 DEF Unfolds
      <4>3. step[<<i - 1, g[i - 1]>>] = g[i - 1] \o lists[i]
        BY <4>1, <4>2
      <4> QED
        BY <4>1, <4>2, <4>3
    <3>2. ASSUME NEW i \in 1 .. n
          PROVE  g[i] = body(f, i)
      <4>1. CASE i = 1
        <5>1. g[1] = g[0] \o lists[1] /\ g[0] = << >>
          <6>1. 1 \in 1 .. n /\ 1 - 1 = 0
            BY <4>1
          <6>2. g[1] = g[1 - 1] \o lists[1]
            BY <3>1, <6>1
          <6> QED
            BY <2>4, <6>1, <6>2 DEF Unfolds
        <5>2. lists[1] \in Seq(S)
          BY <2>1, <4>1
        <5> QED
          BY <4>1, <5>1, <5>2
      <4>2. CASE i # 1
        <5>1. i - 1 \in 1 .. n
          BY <1>0, <4>2
        <5> QED
          BY <3>1, <4>2, <5>1
      <4> QED
        BY <4>1, <4>2
    <3>3. f = [i \in 1 .. n |-> body(f, i)]
      BY <3>2
    <3> QED
      BY <3>3
  <2>6. flat = [i \in 1 .. n |-> body(flat, i)]
    <3> HIDE DEF body
    <3> QED
      BY <2>5, Zenon
  <2>7. FlattenSeq(lists) = flat[n]
    BY <1>1, <1>3, Zenon DEF FlattenSeq
  <2> HIDE DEF flat
  <2> DEFINE before(i) == UNION {T[k] : k \in 1 .. i}
             U == {i \in Nat : 1 <= i /\ i <= n => Lists(flat[i], S, before(i))}
  <2>8. 0 \in U
    OBVIOUS
  <2>9. ASSUME NEW i \in Nat, i \in U
        PROVE  i + 1 \in U
    <3> SUFFICES ASSUME i + 1 <= n
                 PROVE  Lists(flat[i + 1], S, before(i + 1))
      OBVIOUS
    <3>1. i + 1 \in 1 .. n /\ (i + 1) - 1 = i /\ i <= n
      BY <1>0, OneMore
    <3>2. flat[i + 1] = IF i + 1 = 1 THEN lists[i + 1] ELSE flat[i] \o lists[i + 1]
      BY <2>6, <3>1
    <3>3. Lists(lists[i + 1], S, T[i + 1])
      BY <1>0, <3>1
    <3>4. CASE i = 0
      <4>1. before(i + 1) = T[i + 1] /\ i + 1 = 1
        BY <3>4
      <4>2. flat[i + 1] = lists[i + 1]
        BY <3>2, <4>1
      <4> HIDE DEF before
      <4> QED
        BY <3>3, <4>1, <4>2
    <3>5. CASE i # 0
      <4>1. Lists(flat[i], S, before(i)) /\ i + 1 # 1
        <5>1. 1 <= i /\ i <= n
          BY <1>0, <3>1, <3>5
        <5> QED
          BY <2>9, <3>5, <5>1
      <4>2. before(i + 1) = before(i) \cup T[i + 1]
        <5>1. 1 .. i + 1 = (1 .. i) \cup {i + 1}
          BY <1>0, OneMore
        <5> QED
          BY <5>1
      <4>3. before(i) \cap T[i + 1] = {}
        <5>1. \A k \in 1 .. i : k \in 1 .. n /\ k # i + 1
          BY <1>0, OneMore
        <5> QED
          BY <1>0, <3>1, <5>1
      <4> HIDE DEF before
      <4> QED
        BY <3>2, <3>3, <4>1, <4>2, <4>3, JoinListed
    <3> QED
      BY <3>4, <3>5
  <2> HIDE DEF U
  <2>10. Nat \subseteq U
    BY <2>8, <2>9, InductionOnNat
  <2>11. Lists(flat[n], S, before(n))
    <3> HIDE DEF before
    <3>1. n \in U /\ 1 <= n /\ n <= n
      BY <1>0, <1>3, <2>10
    <3> QED
      BY <3>1 DEF U
  <2> QED
    BY <2>7, <2>11
<1> QED
  BY <1>2, <1>3

-----------------------------------------------------------------------------
(* What becomes of each finding.                                           *)

Unit == [findings : Seq(Finding), edits : Seq(Edit)]

(* The findings of some of the units.                                      *)
HeldBy(us, ids) == UNION {ToSet(us[i].findings) : i \in ids}

(* No finding is in two units, or twice in one.                            *)
Separate(us) ==
  /\ us \in Seq(Unit)
  /\ \A i \in DOMAIN us : IsInjective(us[i].findings)
  /\ \A i, j \in DOMAIN us : i # j => ToSet(us[i].findings) \cap ToSet(us[j].findings) = {}

LEMMA UnitListed ==
  ASSUME NEW us, Separate(us), NEW i \in DOMAIN us
  PROVE  Lists(us[i].findings, Finding, ToSet(us[i].findings))
<1>1. us[i] \in Unit
  BY DEF Separate
<1>2. us[i].findings \in Seq(Finding)
  BY <1>1 DEF Unit
<1> QED
  BY <1>2 DEF Separate, Lists

LEMMA FindingsListed ==
  ASSUME Separate(units), NEW ids \in SUBSET DOMAIN units
  PROVE  Lists(FindingsOf(ids), Finding, HeldBy(units, ids))
<1> DEFINE n == Len(units)
           lists == [i \in 1 .. n |-> IF i \in ids THEN units[i].findings ELSE << >>]
           T == [i \in 1 .. n |-> IF i \in ids THEN ToSet(units[i].findings) ELSE {}]
<1>1. n \in Nat /\ DOMAIN units = 1 .. n
  BY DEF Separate
<1>2. \A i \in 1 .. n : Lists(lists[i], Finding, T[i])
  BY <1>1, UnitListed, NothingListed
<1>3. \A i, j \in 1 .. n : i # j => T[i] \cap T[j] = {}
  BY <1>1 DEF Separate
<1>4. lists = [i \in 1 .. n |-> lists[i]]
  OBVIOUS
<1>5. FindingsOf(ids) = FlattenSeq(lists)
  BY <1>1 DEF FindingsOf
<1>6. UNION {T[i] : i \in 1 .. n} = HeldBy(units, ids)
  BY <1>1 DEF HeldBy
<1> HIDE DEF n, lists, T
<1>7. Disjoint(lists, Finding, T, n)
  BY <1>1, <1>2, <1>3, <1>4 DEF Disjoint
<1>8. Lists(FlattenSeq(lists), Finding, UNION {T[i] : i \in 1 .. n})
  BY <1>7, FlatListed
<1> QED
  BY <1>5, <1>6, <1>8

(* One more unit, of findings no other has.                                *)
LEMMA AddUnitSeparate ==
  ASSUME Separate(units), live = DOMAIN units,
         NEW findings, NEW T, Lists(findings, Finding, T), T \cap HeldBy(units, live) = {},
         NEW edits \in Seq(Edit), AddUnit(findings, edits)
  PROVE  /\ Separate(units') /\ live' = DOMAIN units' /\ DOMAIN units \subseteq DOMAIN units'
         /\ HeldBy(units', live') = HeldBy(units, live) \cup T
<1> DEFINE u == [findings |-> findings, edits |-> edits]
           n == Len(units) + 1
<1>1. units \in Seq(Unit)
  BY DEF Separate
<1>2. u \in Unit /\ u.findings = findings
  BY DEF Lists, Unit
<1>3. units' = Append(units, u) /\ live' = live \cup {n}
  BY DEF AddUnit
<1> HIDE DEF u
<1>4. /\ units' \in Seq(Unit)
      /\ DOMAIN units' = DOMAIN units \cup {n} /\ n \notin DOMAIN units
      /\ \A i \in DOMAIN units : units'[i] = units[i]
      /\ units'[n] = u
  BY <1>1, <1>2, <1>3
<1> HIDE DEF n
<1>5. \A i \in DOMAIN units : ToSet(units[i].findings) \subseteq HeldBy(units, live)
  BY DEF HeldBy
<1>6. ToSet(u.findings) = T /\ IsInjective(u.findings)
  BY <1>2 DEF Lists
<1>7. \A i \in DOMAIN units' : IsInjective(units'[i].findings)
  BY <1>4, <1>6 DEF Separate
<1>8. ASSUME NEW i \in DOMAIN units', NEW j \in DOMAIN units', i # j
      PROVE  ToSet(units'[i].findings) \cap ToSet(units'[j].findings) = {}
  <2>1. CASE i \in DOMAIN units /\ j \in DOMAIN units
    BY <1>4, <1>8, <2>1 DEF Separate
  <2>2. CASE i = n /\ j \in DOMAIN units
    BY <1>4, <1>5, <1>6, <2>2
  <2>3. CASE j = n /\ i \in DOMAIN units
    BY <1>4, <1>5, <1>6, <2>3
  <2> QED
    BY <1>4, <1>8, <2>1, <2>2, <2>3
<1>9. HeldBy(units', live') = HeldBy(units, live) \cup T
  <2>1. HeldBy(units', live') = (UNION {ToSet(units'[i].findings) : i \in DOMAIN units})
                                  \cup ToSet(units'[n].findings)
    BY <1>3 DEF HeldBy
  <2>2. {ToSet(units'[i].findings) : i \in DOMAIN units}
          = {ToSet(units[i].findings) : i \in DOMAIN units}
    BY <1>4
  <2> QED
    BY <1>4, <1>6, <2>1, <2>2 DEF HeldBy
<1> QED
  BY <1>3, <1>4, <1>7, <1>8, <1>9 DEF Separate

Asked == {f \in Finding : lot[f] # "ignored"}

(* Three sets that share another out among them.                           *)
SharedOut(all, A, B, C) ==
  /\ all = A \cup B \cup C
  /\ A \cap B = {} /\ A \cap C = {} /\ B \cap C = {}

(* Until the result is made, a finding that is to be answered is still to  *)
(* be asked about, in a unit that stands, or left to the user.             *)
FateInv ==
  /\ lot \in [Finding -> {"ignored", "by hand", "open"}]
  /\ home \in [Finding -> Service]
  /\ Separate(units) /\ live \subseteq DOMAIN units
  /\ Lists(todo, Finding, ToSet(todo))
  /\ Lists(fixed, Finding, ToSet(fixed))
  /\ Lists(manual, Finding, ToSet(manual))
  /\ phase = "screen" => units = << >> /\ live = {}
  /\ phase = "collect" => live = DOMAIN units
  /\ phase \in {"place", "sweep"} => todo = << >>
  /\ phase \in {"collect", "place", "sweep"} =>
       SharedOut(Asked, ToSet(todo), HeldBy(units, live), ToSet(manual))
  /\ phase = "sweep" => \A s \in spans : s.unit \in live
  /\ phase \in Phases
  /\ Decided => SharedOut(Asked, {}, ToSet(fixed), ToSet(manual))

LEMMA InitFate == Init => FateInv
<1> SUFFICES ASSUME Init PROVE FateInv
  OBVIOUS
<1>1. /\ lot \in [Finding -> {"ignored", "by hand", "open"}] /\ home \in Homes
      /\ phase = "screen" /\ todo = << >> /\ units = << >> /\ live = {}
      /\ fixed = << >> /\ manual = << >>
  BY DEF Init
<1>2. home \in [Finding -> Service]
  BY <1>1, FindingsAssumption
<1>3. Lists(<< >>, Finding, {}) /\ ToSet(<< >>) = {}
  BY NothingListed DEF Lists
<1>4. Separate(<< >>)
  BY DEF Separate
<1>5. ~Decided
  BY <1>1 DEF Decided
<1> QED
  BY <1>1, <1>2, <1>3, <1>4, <1>5 DEF FateInv, Phases

(* The findings are sorted into those to be asked about, those left to the *)
(* user and those that are not looked at.                                  *)
LEMMA ScreenFate ==
  ASSUME FateInv, Screen
  PROVE  FateInv'
<1>1. Lists(Findings, Finding, Finding)
  BY FindingsAssumption DEF Lists, Finding
<1> DEFINE open == {f \in Finding : lot[f] = "open"}
           byHand == {f \in Finding : lot[f] = "by hand"}
<1>2. /\ phase = "screen" /\ phase' = "collect"
      /\ todo' = Among(Findings, open) /\ manual' = Among(Findings, byHand)
      /\ UNCHANGED <<lot, home, units, live, fixed, spans>>
  BY DEF Screen
<1>3. Lists(todo', Finding, open) /\ Lists(manual', Finding, byHand)
  <2>1. Lists(todo', Finding, Finding \cap open)
    BY <1>1, <1>2, AmongListed
  <2>2. Lists(manual', Finding, Finding \cap byHand)
    BY <1>1, <1>2, AmongListed
  <2>3. Finding \cap open = open /\ Finding \cap byHand = byHand
    OBVIOUS
  <2> QED
    BY <2>1, <2>2, <2>3, Zenon
<1>4. ToSet(todo') = open /\ ToSet(manual') = byHand
  BY <1>3 DEF Lists
<1>5. units = << >> /\ live = {} /\ DOMAIN units = {}
  <2>1. units = << >> /\ live = {}
    BY <1>2 DEF FateInv
  <2>2. DOMAIN << >> = {}
    OBVIOUS
  <2> QED
    BY <2>1, <2>2
<1>6. HeldBy(units, live) = {}
  BY <1>5 DEF HeldBy
<1>7. Asked' = open \cup byHand /\ open \cap byHand = {}
  BY <1>2 DEF FateInv, Asked
<1>8. SharedOut(Asked', open, {}, byHand)
  BY <1>7 DEF SharedOut
<1> QED
  BY <1>2, <1>3, <1>4, <1>5, <1>6, <1>8 DEF FateInv, Phases, Decided

(* A unit made of findings still to be asked about: they go with it.       *)
LEMMA UnitFate ==
  ASSUME FateInv, phase = "collect", NEW findings, NEW T, Lists(findings, Finding, T),
         T \subseteq ToSet(todo), NEW edits \in Seq(Edit), AddUnit(findings, edits),
         Lists(todo', Finding, ToSet(todo) \ T),
         UNCHANGED <<lot, home, phase, fixed, manual, spans>>
  PROVE  FateInv'
<1>1. /\ Separate(units) /\ live = DOMAIN units
      /\ SharedOut(Asked, ToSet(todo), HeldBy(units, live), ToSet(manual))
  BY DEF FateInv
<1>2. T \cap HeldBy(units, live) = {}
  BY <1>1 DEF SharedOut
<1>3. /\ Separate(units') /\ live' = DOMAIN units'
      /\ HeldBy(units', live') = HeldBy(units, live) \cup T
  BY <1>1, <1>2, AddUnitSeparate
<1>4. ToSet(todo') = ToSet(todo) \ T
  BY DEF Lists
<1>5. Asked' = Asked
  BY DEF Asked
<1>6. SharedOut(Asked', ToSet(todo'), HeldBy(units', live'), ToSet(manual))
  BY <1>1, <1>3, <1>4, <1>5 DEF SharedOut
<1>7. phase' = "collect" /\ Lists(todo', Finding, ToSet(todo'))
  BY <1>4
<1> QED
  BY <1>3, <1>6, <1>7 DEF FateInv, Decided, Phases

(* What the coordination pass takes from the list, and what it leaves.     *)
LEMMA PooledListed ==
  ASSUME FateInv, NEW s
  PROVE  LET T == ToSet(Pooled(todo, s))
         IN  /\ Lists(Pooled(todo, s), Finding, T) /\ T \subseteq ToSet(todo)
             /\ Lists(Unconsumed(s), Finding, ToSet(todo) \ T)
<1> DEFINE own == {f \in Finding : home[f] = s /\ Rule[f] \in {"CL-0003", "CL-0009"}}
           T == ToSet(Pooled(todo, s))
<1>1. Lists(todo, Finding, ToSet(todo))
  BY DEF FateInv
<1>2. Pooled(todo, s) = Among(todo, own)
  BY DEF Pooled
<1> HIDE DEF own
<1>3. Lists(Pooled(todo, s), Finding, ToSet(todo) \cap own)
  BY <1>1, <1>2, AmongListed
<1>4. T = ToSet(todo) \cap own
  BY <1>3 DEF Lists
<1>5. Unconsumed(s) = Among(todo, Finding \ T)
  BY DEF Unconsumed
<1> HIDE DEF T
<1>6. Lists(Unconsumed(s), Finding, ToSet(todo) \cap (Finding \ T))
  BY <1>1, <1>5, AmongListed
<1>7. ToSet(todo) \cap (Finding \ T) = ToSet(todo) \ T
  BY <1>1 DEF Lists, ToSet
<1>8. Lists(Pooled(todo, s), Finding, T) /\ T \subseteq ToSet(todo)
  BY <1>3, <1>4
<1>9. Lists(Unconsumed(s), Finding, ToSet(todo) \ T)
  BY <1>6, <1>7, Zenon
<1> QED
  BY <1>8, <1>9 DEF T

LEMMA CollectFate ==
  ASSUME FateInv, Coordinate \/ Ask
  PROVE  FateInv'
<1>0. phase = "collect"
  BY DEF Coordinate, Ask
<1>1. CASE Coordinate
  <2>1. UNCHANGED <<lot, home, phase, fixed, manual, spans>>
    BY <1>1 DEF Coordinate
  <2>2. CASE UNCHANGED <<units, live, todo>>
    BY <1>0, <2>1, <2>2 DEF FateInv, Asked, Decided
  <2>3. ASSUME NEW s \in pools, NEW answer \in JointAnswers,
               AddUnit(Pooled(todo, s), answer), todo' = Unconsumed(s)
        PROVE  FateInv'
    <3> DEFINE T == ToSet(Pooled(todo, s))
    <3>1. /\ Lists(Pooled(todo, s), Finding, T) /\ T \subseteq ToSet(todo)
          /\ Lists(todo', Finding, ToSet(todo) \ T)
      BY <2>3, PooledListed
    <3>2. answer \in Seq(Edit)
      BY AnswersAssumption
    <3> HIDE DEF T
    <3> QED
      BY <1>0, <2>1, <2>3, <3>1, <3>2, UnitFate
  <2> QED
    BY <1>1, <2>2, <2>3 DEF Coordinate
<1>2. CASE Ask
  <2> DEFINE f == Head(todo)
  <2>1. /\ todo # << >> /\ todo' = Tail(todo)
        /\ UNCHANGED <<lot, home, phase, fixed, spans>>
    BY <1>2 DEF Ask
  <2>2. Lists(todo, Finding, ToSet(todo))
    BY DEF FateInv
  <2>3. f \in ToSet(todo) /\ f \in Finding /\ Lists(todo', Finding, ToSet(todo) \ {f})
    BY <2>1, <2>2, HeadListed
  <2> HIDE DEF f
  <2>4. ASSUME NEW answer \in Answers, AddUnit(<<f>>, answer), UNCHANGED manual
        PROVE  FateInv'
    <3>1. Lists(<<f>>, Finding, {f}) /\ {f} \subseteq ToSet(todo)
      BY <2>3, OneListed
    <3>2. answer \in Seq(Edit)
      BY AnswersAssumption
    <3> QED
      BY <1>0, <2>1, <2>3, <2>4, <3>1, <3>2, UnitFate
  <2>5. ASSUME manual' = Append(manual, f), UNCHANGED <<units, live>>
        PROVE  FateInv'
    <3>1. /\ SharedOut(Asked, ToSet(todo), HeldBy(units, live), ToSet(manual))
          /\ Lists(manual, Finding, ToSet(manual)) /\ live = DOMAIN units
      BY <1>0 DEF FateInv
    <3>2. f \notin ToSet(manual)
      BY <2>3, <3>1 DEF SharedOut
    <3>3. Lists(manual', Finding, ToSet(manual) \cup {f})
      BY <2>3, <2>5, <3>1, <3>2, AppendListed
    <3>4. ToSet(manual') = ToSet(manual) \cup {f} /\ ToSet(todo') = ToSet(todo) \ {f}
      BY <2>3, <3>3 DEF Lists
    <3>5. Asked' = Asked /\ phase' = "collect"
      BY <1>0, <2>1 DEF Asked
    <3>6. SharedOut(Asked', ToSet(todo'), HeldBy(units, live), ToSet(manual'))
      BY <2>3, <3>1, <3>4, <3>5 DEF SharedOut
    <3>7. Lists(manual', Finding, ToSet(manual')) /\ Lists(todo', Finding, ToSet(todo'))
      BY <2>3, <3>3, <3>4
    <3> QED
      BY <2>1, <2>5, <3>1, <3>5, <3>6, <3>7 DEF FateInv, Decided, Phases
  <2> QED
    BY <1>2, <2>4, <2>5 DEF Ask, f
<1> QED
  BY <1>1, <1>2

(* Units that fall away, before the sweep: their findings go to the user.  *)
LEMMA GiveUpFate ==
  ASSUME FateInv, phase \in {"collect", "place"}, todo = << >>,
         live' \subseteq live, manual' = manual \o FindingsOf(live \ live'),
         phase' \in {"place", "sweep"}, phase' = "sweep" => \A s \in spans' : s.unit \in live',
         UNCHANGED <<lot, home, todo, units, fixed>>
  PROVE  FateInv'
<1> DEFINE gone == live \ live'
<1>1. /\ Separate(units) /\ live \subseteq DOMAIN units
      /\ Lists(manual, Finding, ToSet(manual))
      /\ SharedOut(Asked, ToSet(todo), HeldBy(units, live), ToSet(manual))
  BY DEF FateInv
<1>2. Lists(FindingsOf(gone), Finding, HeldBy(units, gone))
  <2>1. gone \in SUBSET DOMAIN units
    BY <1>1
  <2> HIDE DEF gone
  <2> QED
    BY <1>1, <2>1, FindingsListed
<1>3. HeldBy(units, live) = HeldBy(units, live') \cup HeldBy(units, gone)
  BY DEF HeldBy
<1>4. HeldBy(units, live') \cap HeldBy(units, gone) = {}
  <2> SUFFICES ASSUME NEW i \in live', NEW j \in gone
               PROVE  ToSet(units[i].findings) \cap ToSet(units[j].findings) = {}
    BY DEF HeldBy
  <2> QED
    BY <1>1 DEF Separate
<1> HIDE DEF gone
<1>5. Lists(manual', Finding, ToSet(manual) \cup HeldBy(units, gone))
  <2>1. ToSet(manual) \cap HeldBy(units, gone) = {}
    BY <1>1, <1>3 DEF SharedOut
  <2>2. manual' = manual \o FindingsOf(gone)
    BY DEF gone
  <2>3. Lists(manual \o FindingsOf(gone), Finding, ToSet(manual) \cup HeldBy(units, gone))
    BY <1>1, <1>2, <2>1, JoinListed
  <2> QED
    BY <2>2, <2>3
<1>6. ToSet(manual') = ToSet(manual) \cup HeldBy(units, gone)
  BY <1>5 DEF Lists
<1>7. Asked' = Asked
  BY DEF Asked
<1>8. SharedOut(Asked', ToSet(todo), HeldBy(units, live'), ToSet(manual'))
  BY <1>1, <1>3, <1>4, <1>6, <1>7 DEF SharedOut
<1>9. Lists(manual', Finding, ToSet(manual')) /\ live' \subseteq DOMAIN units
  BY <1>1, <1>5, <1>6
<1> QED
  BY <1>8, <1>9 DEF FateInv, Decided, Phases

LEMMA SweepFate ==
  ASSUME FateInv, Sweep
  PROVE  FateInv'
<1>1. /\ phase = "sweep" /\ phase' \in {"left", "sort"}
      /\ refused' = Swept(spans) /\ live' = live \ refused'
      /\ fixed' = FindingsOf(live') /\ manual' = FindingsOf(refused') \o manual
      /\ UNCHANGED <<lot, home, todo, units, spans>>
  BY DEF Sweep
<1>2. /\ Separate(units) /\ live \subseteq DOMAIN units /\ todo = << >>
      /\ Lists(manual, Finding, ToSet(manual))
      /\ SharedOut(Asked, ToSet(todo), HeldBy(units, live), ToSet(manual))
      /\ \A s \in spans : s.unit \in live
  BY <1>1 DEF FateInv
<1>3. refused' \subseteq live
  BY <1>1, <1>2 DEF Swept
<1> DEFINE gone == refused'
           kept == live'
<1>4. /\ gone \in SUBSET DOMAIN units /\ kept \in SUBSET DOMAIN units
      /\ live = kept \cup gone /\ kept \cap gone = {}
      /\ fixed' = FindingsOf(kept) /\ manual' = FindingsOf(gone) \o manual
  BY <1>1, <1>2, <1>3
<1> HIDE DEF gone, kept
<1>5. /\ Lists(fixed', Finding, HeldBy(units, kept))
      /\ Lists(FindingsOf(gone), Finding, HeldBy(units, gone))
  BY <1>2, <1>4, FindingsListed
<1>6. HeldBy(units, live) = HeldBy(units, kept) \cup HeldBy(units, gone)
  BY <1>4 DEF HeldBy
<1>7. HeldBy(units, kept) \cap HeldBy(units, gone) = {}
  <2> SUFFICES ASSUME NEW i \in kept, NEW j \in gone
               PROVE  ToSet(units[i].findings) \cap ToSet(units[j].findings) = {}
    BY DEF HeldBy
  <2> QED
    BY <1>2, <1>4 DEF Separate
<1>8. Lists(manual', Finding, HeldBy(units, gone) \cup ToSet(manual))
  <2>1. HeldBy(units, gone) \cap ToSet(manual) = {}
    BY <1>2, <1>6 DEF SharedOut
  <2> QED
    BY <1>2, <1>4, <1>5, <2>1, JoinListed
<1>9. ToSet(fixed') = HeldBy(units, kept) /\ ToSet(manual') = HeldBy(units, gone) \cup ToSet(manual)
  BY <1>5, <1>8 DEF Lists
<1>10. Asked' = Asked /\ ToSet(todo) = {}
  BY <1>1, <1>2, NothingListed DEF Asked, Lists
<1>11. SharedOut(Asked', {}, ToSet(fixed'), ToSet(manual'))
  BY <1>2, <1>6, <1>7, <1>9, <1>10 DEF SharedOut
<1>12. /\ Lists(fixed', Finding, ToSet(fixed')) /\ Lists(manual', Finding, ToSet(manual'))
       /\ live' \subseteq DOMAIN units
  BY <1>4, <1>5, <1>8, <1>9 DEF kept
<1> QED
  BY <1>1, <1>11, <1>12 DEF FateInv, Phases

LEMMA NextFate == FateInv /\ [Next]_vars => FateInv'
<1> SUFFICES ASSUME FateInv, [Next]_vars PROVE FateInv'
  OBVIOUS
<1>1. CASE Screen
  BY <1>1, ScreenFate
<1>2. CASE Coordinate \/ Ask
  BY <1>2, CollectFate
<1>3. CASE Confine
  BY <1>3, GiveUpFate DEF Confine
<1>4. CASE Place
  <2>1. \A s \in spans' : s.unit \in live'
    BY <1>4 DEF Place, SpansOf
  <2>2. todo = << >>
    BY <1>4 DEF Place, FateInv
  <2> QED
    BY <1>4, <2>1, <2>2, GiveUpFate DEF Place
<1>5. CASE Sweep
  BY <1>5, SweepFate
<1>6. CASE Sort \/ Splice \/ Patched \/ UNCHANGED vars
  <2>1. /\ UNCHANGED <<lot, home, todo, units, live, fixed, manual, spans>>
        /\ phase' = phase \/ (Decided /\ phase' \in {"overlap", "splice", "patched"})
    BY <1>6 DEF Sort, Splice, Patched, vars, Decided
  <2>2. Asked' = Asked /\ (phase' = phase => Decided' = Decided)
    BY <2>1 DEF Asked, Decided
  <2> QED
    BY <2>1, <2>2 DEF FateInv, Decided, Phases
<1> QED
  BY <1>1, <1>2, <1>3, <1>4, <1>5, <1>6 DEF Next

(* Whatever the fixers of a file answer and wherever their edits land,     *)
(* every finding that is to be answered ends in one of the two lists of    *)
(* the result, once (collect_edits).                                       *)
THEOREM EveryFindingAnswered == Spec => []EachAnsweredOnce
<1>1. FateInv => EachAnsweredOnce
  <2> SUFFICES ASSUME FateInv, Decided
               PROVE  /\ ToSet(fixed) \cup ToSet(manual) = Asked
                      /\ IsInjective(fixed \o manual)
    BY DEF EachAnsweredOnce, Asked
  <2>1. /\ SharedOut(Asked, {}, ToSet(fixed), ToSet(manual))
        /\ Lists(fixed, Finding, ToSet(fixed)) /\ Lists(manual, Finding, ToSet(manual))
    BY DEF FateInv
  <2>2. Lists(fixed \o manual, Finding, ToSet(fixed) \cup ToSet(manual))
    BY <2>1, JoinListed DEF SharedOut
  <2> QED
    BY <2>1, <2>2 DEF SharedOut, Lists
<1> QED
  BY <1>1, InitFate, NextFate, PTL DEF Spec

-----------------------------------------------------------------------------
(* Types.                                                                  *)

(* What TypeOK asks besides what the invariants above say.                 *)
TypeInv ==
  /\ pools \subseteq Service /\ crashed \in BOOLEAN
  /\ \A s \in spans : s.unit \in DOMAIN units
  /\ refused \subseteq DOMAIN units
  /\ queue \subseteq spans
  /\ phase \notin {"sort", "overlap", "splice", "patched"} => queue = {}

LEMMA AddUnitGrows ==
  ASSUME FateInv, NEW findings, NEW edits, AddUnit(findings, edits)
  PROVE  DOMAIN units \subseteq DOMAIN units'
<1>1. units \in Seq(Unit)
  BY DEF FateInv, Separate
<1> QED
  BY <1>1 DEF AddUnit

LEMMA NextType == SweepInv /\ FateInv /\ TypeInv /\ [Next]_vars => TypeInv'
<1> SUFFICES ASSUME SweepInv, FateInv, TypeInv, [Next]_vars PROVE TypeInv'
  OBVIOUS
<1>1. CASE Screen
  BY <1>1 DEF Screen, TypeInv
<1>2. CASE Coordinate
  <2>1. DOMAIN units \subseteq DOMAIN units'
    BY <1>2, AddUnitGrows DEF Coordinate
  <2>2. /\ pools' \subseteq pools /\ phase = "collect"
        /\ UNCHANGED <<phase, crashed, spans, refused, queue>>
    BY <1>2 DEF Coordinate
  <2> QED
    BY <2>1, <2>2 DEF TypeInv
<1>3. CASE Ask
  <2>1. DOMAIN units \subseteq DOMAIN units'
    BY <1>3, AddUnitGrows DEF Ask
  <2>2. /\ crashed' \in BOOLEAN
        /\ UNCHANGED <<phase, pools, spans, refused, queue>>
    BY <1>3 DEF Ask, TypeInv
  <2> QED
    BY <2>1, <2>2 DEF TypeInv
<1>4. CASE Confine
  BY <1>4 DEF Confine, TypeInv
<1>5. CASE Place
  <2>1. \A s \in spans' : s.unit \in live'
    BY <1>5 DEF Place, SpansOf
  <2>2. live' \subseteq DOMAIN units /\ queue = {}
    BY <1>5 DEF Place, FateInv, TypeInv
  <2>3. crashed' \in BOOLEAN
    BY <1>5 DEF Place, TypeInv
  <2>4. phase' = "sweep" /\ UNCHANGED <<pools, units, refused, queue>>
    BY <1>5 DEF Place
  <2> QED
    BY <2>1, <2>2, <2>3, <2>4 DEF TypeInv
<1>6. CASE Sweep
  <2>1. refused' \subseteq {s.unit : s \in spans}
    BY <1>6 DEF Sweep, Swept
  <2>2. /\ phase' \in {"left", "sort"} /\ phase = "sweep"
        /\ UNCHANGED <<pools, units, crashed, spans, queue>>
    BY <1>6 DEF Sweep
  <2> QED
    BY <2>1, <2>2 DEF TypeInv
<1>7. CASE Sort
  <2>1. queue' \subseteq spans /\ phase' \in {"overlap", "splice"}
    BY <1>7 DEF Sort, Accepted
  <2> QED
    BY <1>7, <2>1 DEF Sort, TypeInv
<1>8. CASE Splice
  BY <1>8 DEF Splice, TypeInv
<1>9. CASE Patched
  BY <1>9 DEF Patched, TypeInv
<1>10. CASE UNCHANGED vars
  BY <1>10 DEF vars, TypeInv
<1> QED
  BY <1>1, <1>2, <1>3, <1>4, <1>5, <1>6, <1>7, <1>8, <1>9, <1>10 DEF Next

(* The state of an edit collection has its types: spans of the file, of    *)
(* units there are, and a text made of pieces.                             *)
THEOREM CollectionTyped == Spec => []TypeOK
<1>1. Init => TypeInv
  BY DEF Init, TypeInv
<1>2. SweepInv /\ SpliceInv /\ FateInv /\ TypeInv => TypeOK
  <2> SUFFICES ASSUME SweepInv, SpliceInv, FateInv, TypeInv
               PROVE  TypeOK
    OBVIOUS
  <2>1. ASSUME NEW s \in spans
        PROVE  s \in Span /\ s.start \in Offset /\ s.end \in Offset
    <3>1. s \in Span /\ s.start <= s.end /\ s.end <= Size
      BY DEF SpliceInv, Fits
    <3>2. s.start \in Nat /\ s.end \in Nat /\ Size \in Nat
      BY <3>1, SpanFields, SizeAssumption
    <3> QED
      BY <3>1, <3>2 DEF Offset
  <2>2. text \in Seq(Span)
    <3>1. CASE phase \in {"splice", "patched"}
      BY <3>1 DEF SpliceInv, Splicing, Reads
    <3>2. CASE phase \notin {"splice", "patched"}
      BY <3>2, OriginalReads DEF SpliceInv, Reads
    <3> QED
      BY <3>1, <3>2
  <2>3. units \in Seq([findings : Seq(Finding), edits : Seq(Edit)])
    BY DEF FateInv, Separate, Unit
  <2>4. {todo, fixed, manual} \subseteq Seq(Finding)
    BY DEF FateInv, Lists
  <2> QED
    BY <2>1, <2>2, <2>3, <2>4 DEF TypeOK, TypeInv, FateInv
<1> QED
  BY <1>1, <1>2, InitSweepInv, NextSweepInv, InitSpliceInv, NextSpliceInv,
     InitFate, NextFate, NextType, PTL DEF Spec
=============================================================================
