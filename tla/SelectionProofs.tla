-------------------------- MODULE SelectionProofs ---------------------------
(***************************************************************************)
(* What the plan owes the command line, for every project and every list   *)
(* of paths: proved with TLAPS.                                            *)
(***************************************************************************)
EXTENDS Selection, SequenceTheorems, WellFoundedInduction, TLAPS

(* Induction and recursion on the naturals, with sets and functions in     *)
(* place of the library's operator parameters.                             *)
LEMMA InductionOnNat ==
  ASSUME NEW T, 0 \in T, \A n \in Nat : n \in T => n + 1 \in T
  PROVE  Nat \subseteq T
<1> SUFFICES ASSUME Nat \ T # {}
             PROVE  FALSE
  OBVIOUS
<1> DEFINE R == OpToRel(<, Nat)
<1>1. IsWellFoundedOn(R, Nat)
  BY NatLessThanWellFounded
<1>2. \A x, y \in Nat : x < y => <<x, y>> \in R
  BY DEF OpToRel
<1> HIDE DEF R
<1>3. PICK x \in Nat \ T : \A y \in Nat \ T : ~(<<y, x>> \in R)
  BY <1>1, WFMin
<1>4. x # 0 /\ x - 1 \in Nat
  BY <1>3
<1>5. x - 1 < x /\ (x - 1) + 1 = x
  BY <1>3
<1>6. <<x - 1, x>> \in R
  BY <1>2, <1>3, <1>4, <1>5
<1>7. x - 1 \in T
  BY <1>3, <1>4, <1>6
<1> QED
  BY <1>3, <1>4, <1>5, <1>7

(* What starts from c and goes on by steps stays in S.                     *)
Steps(step, S) == step \in [Nat \X S -> S]

Unfolds(f, S, c, step) ==
  /\ f \in [Nat -> S]
  /\ f[0] = c
  /\ \A n \in Nat : f[n + 1] = step[<<n, f[n]>>]

LEMMA RecursionOnNat ==
  ASSUME NEW S, NEW c \in S, NEW step, Steps(step, S)
  PROVE  \E f : Unfolds(f, S, c, step)
<1>0. step \in [Nat \X S -> S]
  BY DEF Steps
<1> DEFINE Upto(f, n) == /\ f \in [0 .. n -> S] /\ f[0] = c
                         /\ \A i \in 0 .. n : i + 1 <= n => f[i + 1] = step[<<i, f[i]>>]
<1>1. \A n \in Nat : \E f : Upto(f, n)
  <2> DEFINE T == {n \in Nat : \E f : Upto(f, n)}
  <2>1. 0 \in T
    <3>1. Upto([i \in 0 .. 0 |-> c], 0)
      OBVIOUS
    <3> QED
      BY <3>1
  <2>2. ASSUME NEW n \in Nat, n \in T
        PROVE  n + 1 \in T
    <3>1. PICK f : Upto(f, n)
      BY <2>2
    <3> DEFINE g == [i \in 0 .. n + 1 |-> IF i <= n THEN f[i] ELSE step[<<n, f[n]>>]]
    <3>2. f[n] \in S /\ step[<<n, f[n]>>] \in S
      BY <1>0, <3>1
    <3>3. g \in [0 .. n + 1 -> S]
      BY <3>1, <3>2
    <3>4. g[0] = c
      BY <3>1
    <3>5. ASSUME NEW i \in 0 .. n + 1, i + 1 <= n + 1
          PROVE  g[i + 1] = step[<<i, g[i]>>]
      <4>1. CASE i + 1 <= n
        BY <3>1, <4>1
      <4>2. CASE i = n
        BY <4>2
      <4> QED
        BY <3>5, <4>1, <4>2
    <3>6. Upto(g, n + 1)
      BY <3>3, <3>4, <3>5
    <3> HIDE DEF Upto, g
    <3>7. \E u : Upto(u, n + 1)
      BY <3>6
    <3> QED
      BY <3>7
  <2> HIDE DEF T
  <2>3. Nat \subseteq T
    BY <2>1, <2>2, InductionOnNat
  <2> QED
    BY <2>3 DEF T
<1>2. ASSUME NEW n \in Nat, NEW m \in Nat, NEW f, NEW g, Upto(f, n), Upto(g, m)
      PROVE  \A i \in Nat : i <= n /\ i <= m => f[i] = g[i]
  <2> DEFINE T == {i \in Nat : i <= n /\ i <= m => f[i] = g[i]}
  <2>1. 0 \in T
    BY <1>2
  <2>2. ASSUME NEW i \in Nat, i \in T
        PROVE  i + 1 \in T
    <3> SUFFICES ASSUME i + 1 <= n, i + 1 <= m
                 PROVE  f[i + 1] = g[i + 1]
      OBVIOUS
    <3>1. f[i] = g[i] /\ i \in 0 .. n /\ i \in 0 .. m
      BY <2>2
    <3>2. f[i + 1] = step[<<i, f[i]>>] /\ g[i + 1] = step[<<i, g[i]>>]
      BY <1>2, <3>1
    <3> QED
      BY <3>1, <3>2
  <2> HIDE DEF T
  <2>3. Nat \subseteq T
    BY <2>1, <2>2, InductionOnNat
  <2> QED
    BY <2>3 DEF T
<1> DEFINE a == [n \in Nat |-> CHOOSE f : Upto(f, n)]
           h == [n \in Nat |-> a[n][n]]
<1>3. \A n \in Nat : Upto(a[n], n)
  BY <1>1, Zenon
<1> HIDE DEF a
<1>4. h \in [Nat -> S] /\ h[0] = c
  BY <1>3
<1>5. ASSUME NEW n \in Nat
      PROVE  h[n + 1] = step[<<n, h[n]>>]
  <2>1. Upto(a[n], n) /\ Upto(a[n + 1], n + 1)
    BY <1>3
  <2>2. a[n + 1][n + 1] = step[<<n, a[n + 1][n]>>]
    BY <2>1
  <2>3. n <= n /\ n <= n + 1 /\ n + 1 \in Nat
    OBVIOUS
  <2> HIDE DEF Upto
  <2>4. a[n + 1][n] = a[n][n]
    BY <1>2, <2>1, <2>3
  <2> QED
    BY <2>2, <2>4
<1> QED
  BY <1>4, <1>5 DEF Unfolds

-----------------------------------------------------------------------------

PathPlanned(i) ==
  \/ named[i] \in planned
  \/ LinksOutside(named[i]) /\ <<"file", named[i]>> \in gaps

Group == [primary : Path, overlays : Seq(Path) \cup {Overlay(p) : p \in Path},
          by_env : BOOLEAN]

PlanInv ==
  /\ project \in Projects
  /\ named \in Seq(Path)
  /\ at \in Nat \ {0}
  /\ phase = "planning" => groups \in Seq(Group)
  /\ named # << >> =>
       /\ planned \subseteq UNION {Covers(groups[j]) : j \in DOMAIN groups}
       /\ \A i \in DOMAIN named : i < at => PathPlanned(i)
       /\ phase # "planning" => at \notin DOMAIN named

-----------------------------------------------------------------------------
(* The whole of a list is a first document and those merged over it.       *)
LEMMA ListIsGroup ==
  ASSUME NEW list \in Seq(Path), list # << >>
  PROVE  /\ EnvGroup(list) \in Group
         /\ <<EnvGroup(list).primary>> \o EnvGroup(list).overlays = list
         /\ Covers(EnvGroup(list)) = ToSet(list)
<1>1. list[1] \in Path /\ Tail(list) \in Seq(Path)
  BY HeadTailProperties
<1>2. <<list[1]>> \o Tail(list) = list
  BY HeadTailAppend, SMT
<1>3. ToSet(list) = {list[1]} \cup ToSet(Tail(list))
  <2>1. /\ Len(Tail(list)) = Len(list) - 1 /\ Len(list) \in Nat \ {0}
        /\ \A i \in 1 .. Len(Tail(list)) : Tail(list)[i] = list[i + 1]
    BY SMT
  <2>2. DOMAIN list = 1 .. Len(list) /\ DOMAIN Tail(list) = 1 .. Len(Tail(list))
    BY <1>1
  <2>3. \A i \in DOMAIN list : i = 1 \/ (i - 1 \in DOMAIN Tail(list) /\ list[i] = Tail(list)[i - 1])
    BY <2>1, <2>2
  <2>4. \A i \in DOMAIN Tail(list) : i + 1 \in DOMAIN list /\ list[i + 1] = Tail(list)[i]
    BY <2>1, <2>2
  <2>5. 1 \in DOMAIN list
    BY <2>1, <2>2
  <2>6. ToSet(list) \subseteq {list[1]} \cup ToSet(Tail(list))
    <3> SUFFICES ASSUME NEW i \in DOMAIN list
                 PROVE  list[i] \in {list[1]} \cup ToSet(Tail(list))
      BY DEF ToSet
    <3> QED
      BY <2>3 DEF ToSet
  <2>7. {list[1]} \cup ToSet(Tail(list)) \subseteq ToSet(list)
    BY <2>4, <2>5 DEF ToSet
  <2> QED
    BY <2>6, <2>7
<1> QED
  BY <1>1, <1>2, <1>3 DEF EnvGroup, Group, Covers

(* What a directory selects is a list of files that are all there.         *)
LEMMA SelectedIsListed ==
  ASSUME project \in Projects, NEW d \in Dir, Selected(d) # << >>
  PROVE  /\ Selected(d) = project.env[d].list
         /\ project.env[d].kind = "list"
         /\ Selected(d) \in Seq(Path)
         /\ ToSet(Selected(d)) \subseteq project.present
         /\ \A p \in ToSet(Selected(d)) : ~LinksOutside(p)
<1>1. /\ Lists(d) /\ Selected(d) = Env(d).list
      /\ \A i \in DOMAIN Env(d).list : ~Refused(Env(d).list[i])
  BY DEF Selected
<1>2. Env(d) = project.env[d]
  BY <1>1 DEF Lists, Env
<1>3. \A i \in DOMAIN Selected(d) :
        /\ Selected(d)[i] \in project.present
        /\ ~LinksOutside(Selected(d)[i])
  BY <1>1 DEF Refused
<1>4. Selected(d) \in Seq(Path \cup {Escape})
  BY <1>1, <1>2, SelectionAssumption
<1>5. \A i \in DOMAIN Selected(d) : Selected(d)[i] \in Path
  BY <1>3, SelectionAssumption
<1>6. Selected(d) \in Seq(Path)
  BY <1>4, <1>5, SMT
<1>7. ToSet(Selected(d)) \subseteq project.present
  BY <1>3 DEF ToSet
<1>8. \A p \in ToSet(Selected(d)) : ~LinksOutside(p)
  BY <1>3 DEF ToSet
<1> QED
  BY <1>1, <1>2, <1>6, <1>7, <1>8 DEF Lists

(* A path is in the group planned for it.                                  *)
LEMMA GroupCovers ==
  ASSUME project \in Projects, NEW p \in Path
  PROVE  GroupFor(p) \in Group /\ p \in Covers(GroupFor(p))
<1>1. DirOf[p] \in Dir
  BY SelectionAssumption
<1>2. CASE p \in ToSet(Selected(DirOf[p]))
  <2>1. Selected(DirOf[p]) # << >>
    BY <1>2 DEF ToSet
  <2> QED
    BY <1>1, <1>2, <2>1, SelectedIsListed, ListIsGroup DEF GroupFor
<1>3. CASE p \notin ToSet(Selected(DirOf[p]))
  BY <1>3 DEF GroupFor, AloneGroup, Group, Covers
<1> QED
  BY <1>2, <1>3

LEMMA InitPlan == Init => PlanInv
<1> SUFFICES ASSUME Init
             PROVE  PlanInv
  OBVIOUS
<1>1. named \in Seq(Path)
  BY SelectionAssumption DEF Init
<1>2. DOMAIN named \subseteq Nat \ {0}
  BY <1>1
<1>3. \A i \in DOMAIN named : ~(i < at)
  BY <1>2 DEF Init
<1> QED
  BY <1>1, <1>3 DEF Init, PlanInv

(* A path once planned stays planned, as the plan only grows.              *)
LEMMA PathStays ==
  ASSUME NEW i, PathPlanned(i), UNCHANGED given,
         planned \subseteq planned', gaps \subseteq gaps'
  PROVE  PathPlanned(i)'
BY DEF PathPlanned, LinksOutside, given

LEMMA GroupKept ==
  ASSUME UNCHANGED <<project, flags>>
  PROVE  Group' = Group
<1>1. \A p : Beside(p)' = Beside(p)
  BY DEF Beside
<1>2. \A p : Overlay(p)' = Overlay(p)
  BY <1>1 DEF Overlay, LinksOutside
<1> QED
  BY <1>2 DEF Group

LEMMA PlanStep == PlanInv /\ [Next]_vars => PlanInv'
<1> SUFFICES ASSUME PlanInv, [Next]_vars
             PROVE  PlanInv'
  OBVIOUS
<1>0. DOMAIN named \subseteq Nat \ {0} /\ at \in Nat \ {0}
  BY DEF PlanInv
<1>1. ASSUME Planning, Advance, UNCHANGED <<given, phase>>, groups' \in Seq(Group),
             planned \subseteq planned', gaps \subseteq gaps',
             planned' \subseteq UNION {Covers(groups'[j]) : j \in DOMAIN groups'},
             \/ named[at] \in planned'
             \/ LinksOutside(named[at]) /\ <<"file", named[at]>> \in gaps'
      PROVE  PlanInv'
  <2>1. UNCHANGED <<project, flags, named, phase>> /\ named # << >>
    BY <1>1 DEF given, Planning
  <2>2. Group' = Group
    BY <2>1, GroupKept
  <2>3. \A i \in DOMAIN named : i < at => PathPlanned(i)'
    BY <1>1, <2>1, PathStays DEF PlanInv
  <2>4. \A i \in DOMAIN named : i = at => PathPlanned(i)'
    BY <1>1, <2>1 DEF PathPlanned, LinksOutside
  <2>5. \A i \in DOMAIN named' : i < at' => PathPlanned(i)'
    <3>1. \A i \in DOMAIN named : i < at' => i < at \/ i = at
      BY <1>0, <1>1 DEF Advance
    <3> QED
      BY <2>1, <2>3, <2>4, <3>1
  <2>6. (UNION {Covers(groups[j]) : j \in DOMAIN groups})'
          = UNION {Covers(groups'[j]) : j \in DOMAIN groups'}
    BY DEF Covers
  <2>7. at' \in Nat \ {0}
    BY <1>0, <1>1 DEF Advance
  <2> QED
    BY <1>1, <2>1, <2>2, <2>5, <2>6, <2>7 DEF PlanInv, Planning
<1>2. CASE Repeat
  BY <1>1, <1>2 DEF Repeat, PlanInv, Planning, Covers
<1>3. CASE Refuse
  BY <1>1, <1>3 DEF Refuse, PlanInv, Planning, Covers
<1>4. CASE PlanNamed
  <2> DEFINE p == named[at]
             g == GroupFor(p)
  <2>1. /\ Planning /\ Advance /\ UNCHANGED <<given, phase>>
        /\ groups' = Append(groups, g)
        /\ planned' = planned \cup Covers(g)
        /\ gaps \subseteq gaps'
    BY <1>4 DEF PlanNamed
  <2>2. p \in Path
    BY <2>1 DEF PlanInv, Planning
  <2>3. g \in Group /\ p \in Covers(g)
    BY <2>2, GroupCovers DEF PlanInv
  <2>4. groups \in Seq(Group) /\ planned \subseteq UNION {Covers(groups[j]) : j \in DOMAIN groups}
    BY <2>1 DEF PlanInv, Planning
  <2> HIDE DEF g
  <2>5. /\ groups' \in Seq(Group)
        /\ \A j \in DOMAIN groups : j \in DOMAIN groups' /\ groups'[j] = groups[j]
        /\ Len(groups) + 1 \in DOMAIN groups' /\ groups'[Len(groups) + 1] = g
    BY <2>1, <2>3, <2>4
  <2>6. planned' \subseteq UNION {Covers(groups'[j]) : j \in DOMAIN groups'}
    BY <2>1, <2>4, <2>5
  <2> QED
    BY <1>1, <2>1, <2>3, <2>5, <2>6
<1>5. CASE Discover
  BY <1>0, <1>5 DEF Discover, given, PlanInv
<1>6. CASE Planned
  <2>1. \A i \in DOMAIN named : PathPlanned(i) => PathPlanned(i)'
    BY <1>6, PathStays DEF Planned
  <2> QED
    BY <1>0, <1>6, <2>1 DEF Planned, given, PlanInv, Covers
<1>7. CASE Grade
  <2>1. \A i \in DOMAIN named : PathPlanned(i) => PathPlanned(i)'
    BY <1>7, PathStays DEF Grade
  <2> QED
    BY <1>0, <1>7, <2>1 DEF Grade, given, PlanInv, Covers
<1>8. CASE UNCHANGED vars
  <2>1. \A i \in DOMAIN named : PathPlanned(i) => PathPlanned(i)'
    BY <1>8 DEF vars, PathPlanned, LinksOutside
  <2>2. Group' = Group
    BY <1>8, GroupKept DEF vars
  <2> QED
    BY <1>8, <2>1, <2>2 DEF vars, PlanInv, Covers
<1> QED
  BY <1>2, <1>3, <1>4, <1>5, <1>6, <1>7, <1>8 DEF Next

(* Whatever the `.env` files list, and in whatever order paths are named,  *)
(* the plan has a group with every one of them, or a gap that says it was  *)
(* refused.                                                                *)
THEOREM NamedAlwaysPlanned == Spec => []NamedPlanned
<1>1. PlanInv => NamedPlanned
  <2> SUFFICES ASSUME PlanInv, phase # "planning", NEW i \in DOMAIN named
               PROVE  \/ \E j \in DOMAIN groups : named[i] \in Covers(groups[j])
                      \/ LinksOutside(named[i]) /\ <<"file", named[i]>> \in gaps
    BY DEF NamedPlanned
  <2>1. named # << >> /\ at \in Nat \ {0} /\ named \in Seq(Path)
    BY DEF PlanInv
  <2>2. at \notin DOMAIN named
    BY <2>1 DEF PlanInv
  <2> QED
    BY <2>1, <2>2 DEF PlanInv, PathPlanned
<1> QED
  BY <1>1, InitPlan, PlanStep, PTL DEF Spec

-----------------------------------------------------------------------------
(* A group the `.env` chose is the whole of a list.                        *)
Whole(g) ==
  g.by_env => \E d \in Dir : /\ project.env[d].kind = "list"
                            /\ project.env[d].list = <<g.primary>> \o g.overlays
                            /\ Covers(g) \subseteq project.present

AllWhole == \A i \in DOMAIN groups : Whole(groups[i])

LEMMA ListIsWhole ==
  ASSUME project \in Projects, NEW d \in Dir, Selected(d) # << >>
  PROVE  Whole(EnvGroup(Selected(d)))
  BY SelectedIsListed, ListIsGroup DEF Whole

LEMMA GroupIsWhole ==
  ASSUME project \in Projects, NEW p \in Path
  PROVE  Whole(GroupFor(p))
<1>1. DirOf[p] \in Dir
  BY SelectionAssumption
<1>2. CASE p \in ToSet(Selected(DirOf[p]))
  <2>1. Selected(DirOf[p]) # << >>
    BY <1>2 DEF ToSet
  <2> QED
    BY <1>1, <1>2, <2>1, ListIsWhole DEF GroupFor
<1>3. CASE p \notin ToSet(Selected(DirOf[p]))
  BY <1>3 DEF GroupFor, AloneGroup, Whole
<1> QED
  BY <1>2, <1>3

(* No step of the planning puts a part of a list into a group, or keeps a  *)
(* list an entry of which was refused.                                     *)
THEOREM ListsAlwaysWhole == Spec => []ListsWhole
<1>1. Init => AllWhole
  BY DEF Init, AllWhole
<1>2. PlanInv /\ AllWhole /\ [Next]_vars => AllWhole'
  <2> SUFFICES ASSUME PlanInv, AllWhole, [Next]_vars
               PROVE  AllWhole'
    OBVIOUS
  <2>1. ASSUME UNCHANGED <<project, groups>>
        PROVE  AllWhole'
    BY <2>1 DEF AllWhole, Whole, Covers
  <2>2. CASE PlanNamed
    <3> DEFINE g == GroupFor(named[at])
    <3>1. named[at] \in Path /\ groups \in Seq(Group) /\ project \in Projects
      BY <2>2 DEF PlanNamed, PlanInv, Planning
    <3>2. groups' = Append(groups, g) /\ project' = project
      BY <2>2 DEF PlanNamed, given
    <3>3. g \in Group /\ Whole(g)
      BY <3>1, GroupCovers, GroupIsWhole
    <3> HIDE DEF g
    <3>4. \A i \in DOMAIN groups' : groups'[i] = g \/ (i \in DOMAIN groups /\ groups'[i] = groups[i])
      BY <3>1, <3>2, <3>3
    <3>5. \A i \in DOMAIN groups' : Whole(groups'[i])
      BY <3>3, <3>4 DEF AllWhole
    <3> QED
      BY <3>2, <3>5 DEF AllWhole, Whole, Covers
  <2>3. CASE Discover
    <3>1. project' = project /\ project \in Projects /\ Root \in Dir
      BY <2>3, SelectionAssumption DEF Discover, given, PlanInv
    <3>2. CASE Selected(Root) # << >>
      <4>1. groups' = <<EnvGroup(Selected(Root))>>
        BY <2>3, <3>2 DEF Discover
      <4>2. Whole(EnvGroup(Selected(Root)))
        BY <3>1, <3>2, ListIsWhole
      <4>3. \A i \in DOMAIN groups' : Whole(groups'[i])
        BY <4>1, <4>2
      <4> QED
        BY <3>1, <4>3 DEF AllWhole, Whole, Covers
    <3>3. CASE Selected(Root) = << >>
      <4>0. PICK found : groups' = [i \in DOMAIN found |-> AloneGroup(found[i])]
        BY <2>3, <3>3, Zenon DEF Discover
      <4>1. \A i \in DOMAIN groups' : ~groups'[i].by_env
        BY <4>0 DEF AloneGroup
      <4> QED
        BY <4>1 DEF AllWhole, Whole
    <3> QED
      BY <3>2, <3>3
  <2>4. CASE Repeat \/ Refuse \/ Planned \/ Grade \/ UNCHANGED vars
    BY <2>1, <2>4 DEF Repeat, Refuse, Planned, Grade, vars, given
  <2> QED
    BY <2>2, <2>3, <2>4 DEF Next
<1>3. AllWhole => ListsWhole
  BY DEF AllWhole, Whole, ListsWhole
<1> QED
  BY <1>1, <1>2, <1>3, InitPlan, PlanStep, PTL DEF Spec

-----------------------------------------------------------------------------
(* Filtering a sequence leaves some of it.                                 *)
LEMMA AmongThem ==
  ASSUME NEW S, NEW paths \in Seq(S), NEW set
  PROVE  Among(paths, set) \in Seq(ToSet(paths) \cap set)
<1> DEFINE n == Len(paths)
           T == ToSet(paths) \cap set
           body(f, i) == IF i = 0 THEN << >>
                         ELSE IF paths[i] \in set THEN Append(f[i - 1], paths[i]) ELSE f[i - 1]
           step == [q \in Nat \X Seq(T) |->
                      IF q[1] + 1 <= n /\ paths[q[1] + 1] \in set
                      THEN Append(q[2], paths[q[1] + 1]) ELSE q[2]]
           upTo == CHOOSE f : f = [i \in 0 .. n |-> body(f, i)]
<1>1. n \in Nat /\ (\A i \in 1 .. n : paths[i] \in ToSet(paths))
  BY DEF ToSet
<1>2. \A t \in Seq(T), i \in 1 .. n : paths[i] \in set => Append(t, paths[i]) \in Seq(T)
  BY <1>1
<1>3. << >> \in Seq(T)
  OBVIOUS
<1> HIDE DEF T
<1>4. step \in [Nat \X Seq(T) -> Seq(T)]
  BY <1>1, <1>2
<1>5. PICK g : Unfolds(g, Seq(T), << >>, step)
  BY <1>3, <1>4, RecursionOnNat, Zenon DEF Steps
<1>6. \E f : f = [i \in 0 .. n |-> body(f, i)]
  <2> DEFINE f == [i \in 0 .. n |-> g[i]]
  <2>1. ASSUME NEW i \in 0 .. n
        PROVE  g[i] = body(f, i)
    <3>1. CASE i = 0
      BY <1>5, <3>1 DEF Unfolds
    <3>2. CASE i # 0
      <4>1. i - 1 \in Nat /\ i - 1 \in 0 .. n /\ (i - 1) + 1 = i /\ i \in Nat /\ i <= n
        BY <1>1, <3>2
      <4>2. g[(i - 1) + 1] = step[<<i - 1, g[i - 1]>>] /\ g[i - 1] \in Seq(T)
        BY <1>5, <4>1 DEF Unfolds
      <4>3. step[<<i - 1, g[i - 1]>>] = IF paths[i] \in set THEN Append(g[i - 1], paths[i]) ELSE g[i - 1]
        BY <4>1, <4>2
      <4> QED
        BY <3>2, <4>1, <4>2, <4>3
    <3> QED
      BY <3>1, <3>2
  <2>2. f = [i \in 0 .. n |-> body(f, i)]
    BY <2>1
  <2> QED
    BY <2>2
<1>7. upTo = [i \in 0 .. n |-> body(upTo, i)]
  <2> HIDE DEF body
  <2> QED
    BY <1>6, Zenon
<1>8. Among(paths, set) = upTo[n]
  BY Zenon DEF Among
<1> HIDE DEF upTo
<1>9. upTo[n] \in Seq(T)
  <2> DEFINE U == {i \in Nat : i <= n => upTo[i] \in Seq(T)}
  <2>1. 0 \in U
    BY <1>1, <1>3, <1>7
  <2>2. ASSUME NEW i \in Nat, i \in U
        PROVE  i + 1 \in U
    <3> SUFFICES ASSUME i + 1 <= n
                 PROVE  upTo[i + 1] \in Seq(T)
      OBVIOUS
    <3>1. i + 1 \in 0 .. n /\ i + 1 \in 1 .. n /\ i + 1 # 0 /\ (i + 1) - 1 = i /\ i <= n
      BY <1>1
    <3>2. upTo[i + 1] = IF paths[i + 1] \in set THEN Append(upTo[i], paths[i + 1]) ELSE upTo[i]
      BY <1>7, <3>1
    <3>3. upTo[i] \in Seq(T)
      BY <2>2, <3>1
    <3> QED
      BY <1>2, <3>1, <3>2, <3>3
  <2> HIDE DEF U
  <2>3. Nat \subseteq U
    BY <2>1, <2>2, InductionOnNat
  <2> QED
    BY <1>1, <2>3 DEF U
<1> QED
  BY <1>8, <1>9 DEF T

(* What is found in a directory is among the names looked for there.       *)
LEMMA FoundIsNamed ==
  ASSUME NEW d \in Dir, NEW here, NEW set, NEW found,
         found = Among(Among(Canonical[d], here), set)
  PROVE  \A i \in DOMAIN found : found[i] \in ToSet(found) /\ DirOf[found[i]] = d
<1> DEFINE there == Among(Canonical[d], here)
<1>1. there \in Seq(ToSet(Canonical[d]) \cap here)
  BY AmongThem, SelectionAssumption
<1>2. found \in Seq(ToSet(there) \cap set)
  BY <1>1, AmongThem
<1> HIDE DEF there
<1>3. ToSet(there) \subseteq ToSet(Canonical[d])
  BY <1>1 DEF ToSet
<1>4. \A i \in DOMAIN found : found[i] \in ToSet(there)
  BY <1>2
<1>5. \A p \in ToSet(Canonical[d]) : DirOf[p] = d
  BY SelectionAssumption DEF ToSet
<1>6. \A i \in DOMAIN found : found[i] \in ToSet(found)
  BY DEF ToSet
<1> QED
  BY <1>3, <1>4, <1>5, <1>6

(* What is owed for a group on its own: a gap for all that was forgone.    *)
Owed(g, reported) ==
  LET p == g.primary
      d == DirOf[p]
  IN  /\ flags.read_env /\ (\/ project.env[d].kind = "unreadable"
                            \/ project.env[d].kind = "list"
                                 /\ \E k \in DOMAIN project.env[d].list :
                                      Refused(project.env[d].list[k]))
           => <<"env", d>> \in reported
      /\ g.overlays = << >> /\ Beside(p) # << >>
           => <<"override", Beside(p)[1]>> \in reported

AllOwed == \A i \in DOMAIN groups : ~groups[i].by_env => Owed(groups[i], gaps)

LEMMA AloneOwes ==
  ASSUME NEW p, NEW reported,
         EnvGaps(DirOf[p]) \subseteq reported, OverrideGaps(p) \subseteq reported
  PROVE  Owed(AloneGroup(p), reported)
<1> DEFINE d == DirOf[p]
<1>1. ASSUME flags.read_env, project.env[d].kind = "unreadable"
      PROVE  <<"env", d>> \in reported
  BY <1>1 DEF EnvGaps, Env
<1>2. ASSUME flags.read_env, project.env[d].kind = "list",
             NEW k \in DOMAIN project.env[d].list, Refused(project.env[d].list[k])
      PROVE  <<"env", d>> \in reported
  <2>1. Env(d) = project.env[d] /\ project.env[d].list # << >>
    BY <1>2 DEF Env
  <2>2. Lists(d) /\ Selected(d) = << >>
    BY <1>2, <2>1 DEF Lists, Selected
  <2> QED
    BY <2>2 DEF EnvGaps
<1>3. ASSUME Overlay(p) = << >>, Beside(p) # << >>
      PROVE  <<"override", Beside(p)[1]>> \in reported
  <2>1. LinksOutside(Beside(p)[1])
    BY <1>3 DEF Overlay
  <2> QED
    BY <1>3, <2>1 DEF OverrideGaps
<1>4. AloneGroup(p).primary = p /\ AloneGroup(p).overlays = Overlay(p)
  BY DEF AloneGroup
<1> QED
  BY <1>1, <1>2, <1>3, <1>4 DEF Owed

(* A gap once reported stays reported.                                     *)
LEMMA OwedStays ==
  ASSUME NEW g, NEW before, NEW after, Owed(g, before), before \subseteq after
  PROVE  Owed(g, after)
BY DEF Owed

(* Whatever is named or found, and whatever each `.env` holds, the plan    *)
(* has a gap for each list and each override that it goes without.         *)
THEOREM ForgoneAlwaysGap == Spec => []ForgoneIsGap
<1>1. Init => AllOwed
  BY DEF Init, AllOwed
<1>2. PlanInv /\ AllOwed /\ [Next]_vars => AllOwed'
  <2> SUFFICES ASSUME PlanInv, AllOwed, [Next]_vars
               PROVE  AllOwed'
    OBVIOUS
  <2>1. ASSUME UNCHANGED <<project, flags>>,
               \A i \in DOMAIN groups' : ~groups'[i].by_env => Owed(groups'[i], gaps')
        PROVE  AllOwed'
    BY <2>1 DEF AllOwed, Owed, Refused, LinksOutside, Beside
  <2>2. CASE PlanNamed
    <3> DEFINE p == named[at]
               g == GroupFor(p)
    <3>1. /\ groups \in Seq(Group) /\ UNCHANGED <<project, flags>>
          /\ groups' = Append(groups, g)
          /\ p \in Path /\ project \in Projects
          /\ gaps \subseteq gaps' /\ EnvGaps(DirOf[p]) \subseteq gaps'
          /\ ~g.by_env => OverrideGaps(p) \subseteq gaps'
      BY <2>2 DEF PlanNamed, PlanInv, Planning, given
    <3>2. g \in Group
      BY <3>1, GroupCovers
    <3>3. ASSUME ~g.by_env
          PROVE  Owed(g, gaps')
      <4>1. g = AloneGroup(p)
        BY <3>3 DEF GroupFor, EnvGroup
      <4> QED
        BY <3>1, <3>3, <4>1, AloneOwes
    <3> HIDE DEF g
    <3>4. \A i \in DOMAIN groups' : groups'[i] = g \/ (i \in DOMAIN groups /\ groups'[i] = groups[i])
      BY <3>1, <3>2
    <3>5. \A i \in DOMAIN groups : ~groups[i].by_env => Owed(groups[i], gaps')
      BY <3>1, OwedStays DEF AllOwed
    <3> QED
      BY <2>1, <3>1, <3>3, <3>4, <3>5
  <2>3. CASE Discover
    <3>0. UNCHANGED <<project, flags>>
      BY <2>3 DEF Discover, given
    <3>1. CASE Selected(Root) # << >>
      <4>1. groups' = <<EnvGroup(Selected(Root))>>
        BY <2>3, <3>1 DEF Discover
      <4> QED
        BY <2>1, <3>0, <4>1 DEF EnvGroup
    <3>2. CASE Selected(Root) = << >>
      <4> DEFINE within == {p \in Path : ~LinksOutside(p)}
                 found == Among(Among(Canonical[Root], project.present), within)
      <4>1. /\ groups' = [i \in DOMAIN found |-> AloneGroup(found[i])]
            /\ EnvGaps(Root) \subseteq gaps'
            /\ \A p \in ToSet(found) : OverrideGaps(p) \subseteq gaps'
        BY <2>3, <3>2, Zenon DEF Discover
      <4>2. Root \in Dir /\ found = Among(Among(Canonical[Root], project.present), within)
        BY SelectionAssumption
      <4> HIDE DEF found, within
      <4>3. \A i \in DOMAIN found : found[i] \in ToSet(found) /\ DirOf[found[i]] = Root
        BY <4>2, FoundIsNamed
      <4>4. ASSUME NEW i \in DOMAIN groups'
            PROVE  Owed(groups'[i], gaps')
        <5>1. /\ groups'[i] = AloneGroup(found[i])
              /\ EnvGaps(DirOf[found[i]]) \subseteq gaps'
              /\ OverrideGaps(found[i]) \subseteq gaps'
          BY <4>1, <4>3, <4>4
        <5> QED
          BY <5>1, AloneOwes
      <4> QED
        BY <2>1, <3>0, <4>4
    <3> QED
      BY <3>1, <3>2
  <2>4. CASE Repeat \/ Refuse \/ Planned \/ Grade \/ UNCHANGED vars
    <3>1. UNCHANGED <<project, flags, groups>> /\ gaps \subseteq gaps'
      BY <2>4 DEF Repeat, Refuse, Planned, Grade, vars, given
    <3>2. \A i \in DOMAIN groups : ~groups[i].by_env => Owed(groups[i], gaps')
      BY <3>1, OwedStays DEF AllOwed
    <3> QED
      BY <2>1, <3>1, <3>2
  <2> QED
    BY <2>2, <2>3, <2>4 DEF Next
<1>3. AllOwed => ForgoneIsGap
  BY DEF AllOwed, Owed, ForgoneIsGap
<1> QED
  BY <1>1, <1>2, <1>3, InitPlan, PlanStep, PTL DEF Spec

-----------------------------------------------------------------------------
(* The files a group is made of are files of the project.                  *)
Made(g) == g.primary \in Path /\ ToSet(g.overlays) \subseteq Path

LEMMA BesideIs ==
  ASSUME NEW p \in Path
  PROVE  Beside(p) \in Seq(Path)
<1>1. DirOf[p] \in Dir
  BY SelectionAssumption
<1>2. Overrides[DirOf[p]] \in Seq(Path)
  BY <1>1, SelectionAssumption
<1> DEFINE q == Overrides[DirOf[p]]
           S == ToSet(q) \cap project.present
<1>3. Among(q, project.present) \in Seq(S)
  BY <1>2, AmongThem
<1>4. S \subseteq Path
  BY <1>2 DEF ToSet
<1> HIDE DEF S
<1>5. Among(q, project.present) \in Seq(Path)
  BY <1>3, <1>4, SeqMonotonic
<1> QED
  BY <1>5 DEF Beside

LEMMA AloneIsMade ==
  ASSUME NEW p \in Path
  PROVE  /\ Made(AloneGroup(p))
         /\ \A g \in OverrideGaps(p) : g[1] = "override" /\ g[2] \in Path
<1>1. Beside(p) # << >> => Beside(p)[1] \in Path
  BY BesideIs
<1>2. \/ Overlay(p) = << >>
      \/ Overlay(p) = <<Beside(p)[1]>> /\ Beside(p) # << >>
  BY DEF Overlay
<1>3. ToSet(Overlay(p)) \subseteq Path
  BY <1>1, <1>2 DEF ToSet
<1> QED
  BY <1>1, <1>3 DEF Made, AloneGroup, OverrideGaps

LEMMA ListIsMade ==
  ASSUME project \in Projects, NEW d \in Dir, Selected(d) # << >>
  PROVE  Made(EnvGroup(Selected(d)))
<1>1. Selected(d) \in Seq(Path)
  BY SelectedIsListed
<1>2. Covers(EnvGroup(Selected(d))) = ToSet(Selected(d))
  BY <1>1, ListIsGroup
<1>3. ToSet(Selected(d)) \subseteq Path
  BY <1>1 DEF ToSet
<1> QED
  BY <1>2, <1>3 DEF Covers, Made

LEMMA GroupIsMade ==
  ASSUME project \in Projects, NEW p \in Path
  PROVE  Made(GroupFor(p))
<1>1. DirOf[p] \in Dir
  BY SelectionAssumption
<1>2. CASE p \in ToSet(Selected(DirOf[p]))
  <2>1. Selected(DirOf[p]) # << >>
    BY <1>2 DEF ToSet
  <2> QED
    BY <1>1, <1>2, <2>1, ListIsMade DEF GroupFor
<1>3. CASE p \notin ToSet(Selected(DirOf[p]))
  BY <1>3, AloneIsMade DEF GroupFor
<1> QED
  BY <1>2, <1>3

IsGap(g) == \/ g[1] = "env" /\ g[2] \in Dir
            \/ g[1] \in {"file", "override"} /\ g[2] \in Path

LEMMA EnvGapsAre ==
  ASSUME NEW d \in Dir
  PROVE  \A g \in EnvGaps(d) : IsGap(g)
BY DEF EnvGaps, IsGap

(* What the plan holds has its type: groups of files of the project, the   *)
(* files they cover, and gaps about files and directories.                 *)
THEOREM PlanAlwaysTyped == Spec => []TypeOK
<1>1. Init => TypeOK
  <2> SUFFICES ASSUME Init
               PROVE  TypeOK
    OBVIOUS
  <2>1. named \in Seq(Path)
    BY SelectionAssumption DEF Init
  <2>2. 1 \in 1 .. Len(named) + 1
    BY <2>1
  <2> QED
    BY <2>2 DEF Init, TypeOK
<1>2. PlanInv /\ TypeOK /\ [Next]_vars => TypeOK'
  <2> SUFFICES ASSUME PlanInv, TypeOK, [Next]_vars
               PROVE  TypeOK'
    OBVIOUS
  <2>0. project \in Projects /\ named \in Seq(Path) /\ at \in 1 .. Len(named) + 1
    BY DEF PlanInv, TypeOK
  <2>1. ASSUME Planning, Advance, UNCHANGED <<given, phase>>,
               \A i \in DOMAIN groups' : Made(groups'[i]),
               planned' \subseteq Path, \A g \in gaps' : IsGap(g)
        PROVE  TypeOK'
    <3>1. at' \in 1 .. Len(named) + 1
      BY <2>0, <2>1 DEF Advance, Planning
    <3> QED
      BY <2>1, <3>1 DEF TypeOK, Made, IsGap, given
  <2>2. \A i \in DOMAIN groups : Made(groups[i])
    BY DEF TypeOK, Made
  <2>3. planned \subseteq Path /\ \A g \in gaps : IsGap(g)
    BY DEF TypeOK, IsGap
  <2>4. CASE Repeat
    BY <2>1, <2>2, <2>3, <2>4 DEF Repeat
  <2>5. CASE Refuse
    <3>1. Planning /\ Advance /\ UNCHANGED <<given, phase, groups, planned>>
      BY <2>5 DEF Refuse
    <3>2. named[at] \in Path /\ gaps' = gaps \cup {<<"file", named[at]>>}
      BY <2>0, <2>5 DEF Refuse, Planning
    <3>3. \A g \in gaps' : IsGap(g)
      BY <2>3, <3>2 DEF IsGap
    <3> QED
      BY <2>1, <2>2, <2>3, <3>1, <3>3
  <2>6. CASE PlanNamed
    <3> DEFINE p == named[at]
               g == GroupFor(p)
    <3>1. /\ Planning /\ Advance /\ UNCHANGED <<given, phase>>
          /\ groups' = Append(groups, g)
          /\ planned' = planned \cup Covers(g)
          /\ gaps' \subseteq gaps \cup EnvGaps(DirOf[p]) \cup OverrideGaps(p)
      BY <2>6 DEF PlanNamed
    <3>2. p \in Path /\ groups \in Seq(Group)
      BY <2>0, <3>1 DEF PlanInv, Planning
    <3>3. g \in Group /\ Made(g)
      BY <2>0, <3>2, GroupCovers, GroupIsMade
    <3>4. Covers(g) \subseteq Path
      BY <3>3 DEF Made, Covers
    <3>5. DirOf[p] \in Dir
      BY <3>2, SelectionAssumption
    <3>6. \A u \in gaps' : IsGap(u)
      <4>1. \A u \in OverrideGaps(p) : IsGap(u)
        BY <3>2, AloneIsMade DEF IsGap
      <4> QED
        BY <2>3, <3>1, <3>5, <4>1, EnvGapsAre
    <3> HIDE DEF g
    <3>7. \A i \in DOMAIN groups' : groups'[i] = g \/ (i \in DOMAIN groups /\ groups'[i] = groups[i])
      BY <3>1, <3>2, <3>3
    <3>8. \A i \in DOMAIN groups' : Made(groups'[i])
      BY <2>2, <3>3, <3>7
    <3> QED
      BY <2>1, <2>3, <3>1, <3>4, <3>6, <3>8
  <2>7. CASE Discover
    <3> DEFINE here == project.present
               inside == {p \in Path : ~LinksOutside(p)}
               there == Among(Canonical[Root], here)
               found == Among(there, inside)
               NewGroups == [i \in DOMAIN found |-> AloneGroup(found[i])]
               NewGaps == EnvGaps(Root)
                            \cup {<<"file", p>> : p \in ToSet(there) \ ToSet(found)}
                            \cup UNION {OverrideGaps(p) : p \in ToSet(found)}
    <3>0. /\ UNCHANGED <<project, flags, named, at>> /\ phase' = "planned"
          /\ planned' = UNION {Covers(g) : g \in ToSet(groups')}
      BY <2>7 DEF Discover, given
    <3>1. Root \in Dir /\ Canonical[Root] \in Seq(Path)
      BY SelectionAssumption
    <3>2. \A u \in EnvGaps(Root) : IsGap(u)
      BY <3>1, EnvGapsAre
    <3>3. ASSUME \A i \in DOMAIN groups' : Made(groups'[i]), \A u \in gaps' : IsGap(u)
          PROVE  TypeOK'
      <4>1. \A g \in ToSet(groups') : Covers(g) \subseteq Path
        BY <3>3 DEF ToSet, Covers, Made
      <4> QED
        BY <2>0, <3>0, <3>3, <4>1 DEF TypeOK, Made, IsGap
    <3>4. CASE Selected(Root) # << >>
      <4>1. groups' = <<EnvGroup(Selected(Root))>> /\ gaps' = EnvGaps(Root)
        BY <2>7, <3>4 DEF Discover
      <4>2. Made(EnvGroup(Selected(Root)))
        BY <2>0, <3>1, <3>4, ListIsMade
      <4>3. \A i \in DOMAIN groups' : Made(groups'[i])
        BY <4>1, <4>2
      <4> QED
        BY <3>2, <3>3, <4>1, <4>3
    <3>5. CASE Selected(Root) = << >>
      <4>1. there \in Seq(ToSet(Canonical[Root]) \cap here)
        BY <3>1, AmongThem
      <4>2. found \in Seq(ToSet(there) \cap inside)
        BY <4>1, AmongThem
      <4>3. groups' = NewGroups /\ gaps' = NewGaps
        BY <2>7, <3>5, Zenon DEF Discover
      <4> HIDE DEF there, found
      <4>4. ToSet(there) \subseteq Path
        BY <3>1, <4>1 DEF ToSet
      <4>5. /\ \A i \in DOMAIN found : found[i] \in Path
            /\ ToSet(found) \subseteq Path
        BY <4>2, <4>4 DEF ToSet
      <4>6. \A i \in DOMAIN groups' : Made(groups'[i])
        BY <4>3, <4>5, AloneIsMade
      <4>7. \A p \in ToSet(found) : \A u \in OverrideGaps(p) : IsGap(u)
        BY <4>5, AloneIsMade DEF IsGap
      <4>8. \A p \in ToSet(there) : IsGap(<<"file", p>>)
        BY <4>4 DEF IsGap
      <4>9. \A u \in gaps' : IsGap(u)
        BY <3>2, <4>3, <4>7, <4>8
      <4> QED
        BY <3>3, <4>6, <4>9
    <3> QED
      BY <3>4, <3>5
  <2>8. CASE Planned \/ Grade \/ UNCHANGED vars
    <3>1. UNCHANGED <<named, at, groups, planned, gaps>> /\ phase' \in {phase, "planned", "graded"}
      BY <2>8 DEF Planned, Grade, vars, given
    <3> QED
      BY <3>1 DEF TypeOK
  <2> QED
    BY <2>4, <2>5, <2>6, <2>7, <2>8 DEF Next
<1> QED
  BY <1>1, <1>2, InitPlan, PlanStep, PTL DEF Spec
=============================================================================
