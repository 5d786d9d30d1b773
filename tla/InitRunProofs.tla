--------------------------- MODULE InitRunProofs ----------------------------
(* What `init` keeps, for any project, disk, output and editor.            *)
EXTENDS InitRun, FiniteSetTheorems, TLAPS

Solid == Place \ Slot

Named(place) == \E i \in Inputs : first[place].node = first[i].node

(* The strengthening of InputsKept: until the write, no place but a config *)
(* slot has changed since the first look; a name of an input is something  *)
(* that exists, so the guard sees it; and past the guard the output is no  *)
(* such name.                                                              *)
InputsInv ==
  /\ flags.output \in Outputs
  /\ DOMAIN disk = Place /\ DOMAIN first = Place
  /\ \A p \in Solid : Named(p) => first[p].kind \in {"file", "link"}
  /\ InputsKept
  /\ pc \in {"plan", "load", "choose", "guard", "note", "write"} =>
       \A p \in Solid : disk[p] = first[p]
  /\ pc \in {"guard", "note", "write"} => out \in Place \cup {Respelled}
  /\ pc \in {"note", "write"} => At(out) \in Slot \/ ~Named(At(out))

LEMMA PlacesDiffer ==
  /\ Inputs \subseteq Solid
  /\ Slot \subseteq Place
  /\ Doc \in Solid
  /\ Default \notin Place /\ Unset \notin Place /\ Respelled \notin Place
BY DEF Solid, Inputs, Place, Slot, Doc, Part, Elsewhere, Default, Unset, Respelled

LEMMA InputsInvInit == Init => InputsInv
<1> SUFFICES ASSUME Init PROVE InputsInv
  OBVIOUS
<1>1. DOMAIN disk = Place /\ first = disk
  BY InitAssumption DEF Init
<1>2. \A p \in Solid : Named(p) => first[p].kind \in {"file", "link"}
  BY <1>1, InitAssumption DEF Init, Named, Solid, Inputs
<1> QED
  BY <1>1, <1>2 DEF Init, InputsInv, InputsKept, Solid

LEMMA DefaultIsPlace == DefaultOutput \in Place
<1> DEFINE there == PresentIn(Present, "project")
<1>1. CASE there = {}
  BY <1>1 DEF DefaultOutput, Place, Slot
<1>2. CASE there # {}
  <2>1. \A slot \in there : slot \in Slot /\ slot[2] \in {1, 2}
    BY DEF PresentIn, Present, Slot
  <2>2. \E slot \in there : \A other \in there : slot[2] <= other[2]
    BY <1>2, <2>1
  <2>3. FirstIn(there) \in there
    BY <2>2 DEF FirstIn
  <2> QED
    BY <1>2, <2>1, <2>3 DEF DefaultOutput, Place
<1> QED
  BY <1>1, <1>2

LEMMA InputsInvStep == InputsInv /\ [Next]_vars => InputsInv'
<1> SUFFICES ASSUME InputsInv, [Next]_vars PROVE InputsInv'
  OBVIOUS
<1> USE DEF InputsInv, InputsKept, Named
<1>1. CASE Choose
  <2>1. /\ disk' = disk /\ first' = disk /\ flags' = flags
        /\ out' = OutPath /\ pc = "choose" /\ pc' \in {"left", "guard"}
    BY <1>1 DEF Choose, Leave, given
  <2>2. OutPath \in Place \cup {Respelled}
    BY DefaultIsPlace, InitAssumption DEF OutPath
  <2>3. \A p \in Solid : disk[p] = first[p]
    BY <2>1
  <2> QED
    BY <2>1, <2>2, <2>3, PlacesDiffer DEF Solid
<1>2. CASE Guard
  <2>1. /\ disk' = disk /\ first' = first /\ flags' = flags /\ out' = out
        /\ pc = "guard"
    BY <1>2 DEF Guard, Unwritten, given, shared
  <2>2. CASE RefusedOutput
    <3>1. pc' = "left"
      BY <1>2, <2>2 DEF Guard, Leave
    <3> QED
      BY <2>1, <3>1
  <2>3. CASE ~RefusedOutput
    <3>1. pc' = "note" /\ ~IsAnInput(out)
      BY <1>2, <2>3 DEF Guard, RefusedOutput
    <3>2. ASSUME At(out) \in Solid, Named(At(out)) PROVE FALSE
      <4>1. \A i \in Inputs : disk[i] = first[i]
        BY <2>1, PlacesDiffer
      <4>2. disk[At(out)] = first[At(out)]
        BY <2>1, <3>2
      <4>3. Exists(At(out))
        BY <3>2, <4>2 DEF Exists
      <4> QED
        BY <3>1, <3>2, <4>1, <4>2, <4>3 DEF IsAnInput
    <3>3. At(out) \in Place
      BY <2>1, PlacesDiffer DEF At, Solid
    <3> QED
      BY <2>1, <3>1, <3>2, <3>3 DEF Solid
  <2> QED
    BY <2>2, <2>3
<1>3. CASE Write
  <2>1. /\ first' = first /\ flags' = flags /\ out' = out /\ pc = "write"
        /\ pc' = "left" /\ DOMAIN disk' = Place
        /\ \A p \in Place : p # At(out) => disk'[p] = disk[p]
    BY <1>3 DEF Write, Leave, given
  <2> QED
    BY <2>1, PlacesDiffer DEF Solid
<1>4. CASE Save
  <2>1. /\ first' = first /\ flags' = flags /\ out' = out /\ pc' = pc
        /\ DOMAIN disk' = Place
        /\ \A p \in Solid : disk'[p] = disk[p]
    BY <1>4, PlacesDiffer DEF Save, given, Solid
  <2> QED
    BY <2>1 DEF Solid, At
<1>5. CASE Refused \/ Plan \/ Unloaded \/ Grade \/ Note \/ WriteFails
  <2>1. disk' = disk /\ first' = first /\ flags' = flags /\ out' = out
    BY <1>5 DEF Refused, Plan, Unloaded, Grade, Note, WriteFails, Unwritten, given, shared
  <2>2. \/ pc' = "left"
        \/ pc = "note" /\ pc' = "write"
        \/ pc = "plan" /\ pc' = "load"
        \/ pc = "load" /\ pc' = "choose"
    <3>1. CASE Refused \/ Unloaded \/ WriteFails
      BY <3>1 DEF Refused, Unloaded, WriteFails, Leave
    <3>2. CASE Plan
      BY <3>2 DEF Plan
    <3>3. CASE Grade
      BY <3>3 DEF Grade, Leave
    <3>4. CASE Note
      BY <3>4 DEF Note
    <3> QED
      BY <1>5, <3>1, <3>2, <3>3, <3>4
  <2>3. InputsKept' /\ At(out)' = At(out)
    BY <2>1 DEF At
  <2>4. CASE pc' = "left"
    BY <2>1, <2>3, <2>4 DEF Solid
  <2>5. CASE pc = "note" /\ pc' = "write"
    BY <2>1, <2>3, <2>5 DEF Solid
  <2>6. CASE pc \in {"plan", "load"} /\ pc' \in {"load", "choose"}
    BY <2>1, <2>3, <2>6 DEF Solid
  <2> QED
    BY <2>2, <2>4, <2>5, <2>6
<1>6. CASE ReadConfig \/ Scan
  <2>1. /\ disk' = disk /\ first' = first /\ flags' = flags /\ out' = out
        /\ pc' \in {"scan", "done"}
    BY <1>6 DEF ReadConfig, Scan, Checked, given, shared
  <2> QED
    BY <2>1
<1>7. CASE Done \/ UNCHANGED vars
  BY <1>7 DEF Done, vars
<1> QED
  BY <1>1, <1>2, <1>3, <1>4, <1>5, <1>6, <1>7 DEF Next

(* init replaces no document it graded, under any name and with --force    *)
(* (_is_an_input and the link checks of _atomic_write), whatever anybody   *)
(* saves beside it.                                                        *)
THEOREM InputsAlwaysKept == Spec => []InputsKept
<1>1. InputsInv => InputsKept
  BY DEF InputsInv
<1> QED
  BY <1>1, InputsInvInit, InputsInvStep, PTL DEF Spec

-----------------------------------------------------------------------------
(* A policy goes out of force only by --force or with a note.              *)

(* Until the write nobody's file is the baseline; while nobody has touched *)
(* a config since the first look, the disk is as it was then, so what the  *)
(* guard, the note and the write each ask is asked of the same disk.       *)
PolicyInv ==
  /\ project \in Projects /\ noted \in BOOLEAN
  /\ flags.output \in Outputs
  /\ DOMAIN disk = Place /\ DOMAIN first = Place
  /\ pc \in {"plan", "load", "choose"} => out = Unset
  /\ pc \in {"guard", "note", "write"} => out \in Place \cup {Respelled}
  /\ out \in Place \cup {Unset, Respelled}
  /\ pc \in {"plan", "load", "choose", "guard", "note", "write"} =>
       \A p \in Place : disk[p].node # Baseline
  /\ pc \in {"guard", "note", "write"} /\ unattended =>
       /\ disk = first
       /\ flags.output = Default => out = DefaultOutput
  /\ pc \in {"note", "write"} /\ unattended /\ ~flags.force => ~Exists(At(out))
  /\ pc = "write" /\ unattended => (noted <=> Shadows)
  /\ PolicyKeptOrSaid

LEMMA FirstInIsIn ==
  ASSUME NEW slots, slots \subseteq Slot, slots # {}
  PROVE  FirstIn(slots) \in slots
<1>1. \A slot \in slots : slot[2] \in {1, 2}
  BY DEF Slot
<1>2. \E slot \in slots : \A other \in slots : slot[2] <= other[2]
  BY <1>1
<1> QED
  BY <1>2 DEF FirstIn

(* The run directory's config is found only where the project's has none.  *)
LEMMA DiscoverNearest ==
  ASSUME NEW present, present \subseteq Slot, NEW together \in BOOLEAN
  PROVE  /\ PresentIn(present, "project") # {} =>
              Discover(present, together) = FirstIn(PresentIn(present, "project"))
         /\ PresentIn(present, "project") = {} =>
              IF together \/ PresentIn(present, "run") = {}
              THEN Discover(present, together) = NoSlot
              ELSE Discover(present, together) \in PresentIn(present, "run")
<1> DEFINE holding == {dir \in Searched(together) : PresentIn(present, dir) # {}}
<1>1. Discover(present, together) =
        IF holding = {} THEN NoSlot ELSE FirstIn(PresentIn(present, Nearest(holding)))
  BY DEF Discover
<1>2. CASE PresentIn(present, "project") # {}
  <2>1. "project" \in holding
    BY <1>2 DEF Searched
  <2> QED
    BY <1>1, <1>2, <2>1 DEF Nearest
<1>3. CASE PresentIn(present, "project") = {}
  <2>1. CASE together \/ PresentIn(present, "run") = {}
    <3>1. holding = {}
      BY <1>3, <2>1 DEF Searched
    <3> QED
      BY <1>1, <1>3, <2>1, <3>1
  <2>2. CASE ~(together \/ PresentIn(present, "run") = {})
    <3>1. holding = {"run"}
      BY <1>3, <2>2 DEF Searched
    <3>2. Nearest(holding) = "run"
      BY <3>1 DEF Nearest
    <3>3. FirstIn(PresentIn(present, "run")) \in PresentIn(present, "run")
      BY <2>2, FirstInIsIn DEF PresentIn
    <3> QED
      BY <1>1, <1>3, <2>2, <3>1, <3>2, <3>3
  <2> QED
    BY <2>1, <2>2
<1> QED
  BY <1>2, <1>3

(* The question the note asks is whether writing here silences a config.   *)
LEMMA ShadowsIsSilencing ==
  ASSUME disk = first, out = DefaultOutput, flags.output = Default,
         project.together \in BOOLEAN
  PROVE  Shadows <=> FirstInForce # NoSlot /\ FirstInForce # out
<1> DEFINE mine == PresentIn(Present, "project")
<1>1. FirstInForce = Discover(Present, project.together) /\ Present \subseteq Slot
  BY DEF FirstInForce, Present, Exists
<1>2. CASE mine # {}
  <2>1. out = FirstIn(mine) /\ FirstIn(mine) \in mine
    BY <1>1, <1>2, FirstInIsIn DEF DefaultOutput, PresentIn
  <2>2. Exists(out) /\ FirstInForce = out
    BY <1>1, <1>2, <2>1, DiscoverNearest DEF PresentIn, Present
  <2> QED
    BY <2>2 DEF Shadows
<1>3. CASE mine = {}
  <2>1. out = <<"project", 1>>
    BY <1>3 DEF DefaultOutput
  <2>2. ~Exists(out)
    BY <1>3, <2>1 DEF PresentIn, Present, Slot
  <2>3. CASE project.together \/ PresentIn(Present, "run") = {}
    <3>1. FirstInForce = NoSlot
      BY <1>1, <1>3, <2>3, DiscoverNearest
    <3> QED
      BY <2>3, <3>1 DEF Shadows
  <2>4. CASE ~(project.together \/ PresentIn(Present, "run") = {})
    <3>1. FirstInForce \in PresentIn(Present, "run")
      BY <1>1, <1>3, <2>4, DiscoverNearest
    <3>2. FirstInForce[1] = "run" /\ FirstInForce \in Slot
      BY <1>1, <3>1 DEF PresentIn
    <3> QED
      BY <2>1, <2>2, <2>4, <3>2 DEF Shadows, NoSlot, Slot
  <2> QED
    BY <2>3, <2>4
<1> QED
  BY <1>2, <1>3

LEMMA PolicyInvInit == Init => PolicyInv
<1> SUFFICES ASSUME Init PROVE PolicyInv
  OBVIOUS
<1>1. DOMAIN disk = Place /\ (\A p \in Place : disk[p].node # Baseline)
  BY InitAssumption DEF Init
<1> QED
  BY <1>1 DEF Init, PolicyInv, PolicyKeptOrSaid, Written

LEMMA PolicyInvStep == PolicyInv /\ [Next]_vars => PolicyInv'
<1> SUFFICES ASSUME PolicyInv, [Next]_vars PROVE PolicyInv'
  OBVIOUS
<1>a. /\ project' = project /\ flags' = flags
  BY DEF Next, vars, given, Refused, Plan, Unloaded, Grade, Choose, Guard, Note, Write,
         WriteFails, ReadConfig, Scan, Save, Done, Unwritten, Checked
<1>b. Default \notin Place /\ Unset \notin Place /\ Respelled \notin Place
      /\ Unset # Respelled /\ Doc \in Place
  BY PlacesDiffer DEF Unset, Respelled, Solid
<1>c. At(out) \in Place \/ out = Unset
  BY <1>b DEF PolicyInv, At
<1>1. CASE Choose
  <2>1. /\ disk' = disk /\ first' = disk /\ noted' = noted
        /\ out' = OutPath /\ pc = "choose" /\ pc' \in {"left", "guard"}
    BY <1>1 DEF Choose, Leave, given
  <2>2. OutPath \in Place \cup {Respelled}
    BY DefaultIsPlace, InitAssumption DEF OutPath, PolicyInv
  <2>3. ~Written'
    BY <1>b, <2>1, <2>2 DEF PolicyInv, Written, At
  <2>4. flags.output = Default => out' = DefaultOutput'
    BY <1>a, <2>1 DEF OutPath, DefaultOutput, Present, Exists
  <2> QED
    BY <1>a, <2>1, <2>2, <2>3, <2>4 DEF PolicyInv, PolicyKeptOrSaid
<1>2. CASE Guard
  <2>1. /\ disk' = disk /\ first' = first /\ out' = out /\ noted' = noted
        /\ unattended' = unattended /\ pc = "guard" /\ pc' \in {"left", "note"}
        /\ pc' = "note" => ~RefusedOutput
    BY <1>2 DEF Guard, Unwritten, shared, Leave
  <2>2. ~Written'
    BY <1>b, <1>c, <2>1 DEF PolicyInv, Written, At
  <2> QED
    BY <1>a, <2>1, <2>2 DEF PolicyInv, PolicyKeptOrSaid, RefusedOutput, DefaultOutput,
                            Present, Exists
<1>3. CASE Note
  <2>1. /\ disk' = disk /\ first' = first /\ out' = out /\ unattended' = unattended
        /\ pc = "note" /\ pc' = "write" /\ noted' = Shadows
    BY <1>3 DEF Note, shared
  <2>2. ~Written'
    BY <1>b, <1>c, <2>1 DEF PolicyInv, Written, At
  <2>3. Shadows' = Shadows
    BY <1>a, <2>1 DEF Shadows, Present, Exists
  <2>4. noted' \in BOOLEAN
    BY <2>1 DEF Shadows
  <2> QED
    BY <1>a, <2>1, <2>2, <2>3, <2>4 DEF PolicyInv, PolicyKeptOrSaid, DefaultOutput, Present, Exists
<1>4. CASE Write
  <2>1. /\ first' = first /\ out' = out /\ unattended' = unattended /\ noted' = noted
        /\ pc = "write" /\ pc' = "left" /\ DOMAIN disk' = Place
        /\ \A p \in Place : p # At(out) => disk'[p] = disk[p]
        /\ Replaceable(At(out))
    BY <1>4 DEF Write, Leave, PolicyInv
  <2>2. ASSUME unattended, ~flags.force PROVE first[At(out)].kind = "none"
    BY <2>1, <2>2 DEF PolicyInv, Exists, Replaceable
  <2>3. ASSUME unattended, flags.output = Default
        PROVE  noted <=> FirstInForce # NoSlot /\ FirstInForce # out
    <3>1. disk = first /\ out = DefaultOutput /\ project.together \in BOOLEAN
      BY <2>1, <2>3, InitAssumption DEF PolicyInv
    <3>2. Shadows <=> FirstInForce # NoSlot /\ FirstInForce # out
      BY <2>3, <3>1, ShadowsIsSilencing
    <3>3. noted <=> Shadows
      BY <2>1, <2>3 DEF PolicyInv
    <3> QED
      BY <3>2, <3>3
  <2>4. ASSUME unattended PROVE \A p \in Place \ {At(out)} : disk'[p] = first[p]
    BY <2>1, <2>4 DEF PolicyInv
  <2>5. At(out)' = At(out) /\ FirstInForce' = FirstInForce
    BY <1>a, <2>1 DEF At, FirstInForce
  <2>6. PolicyKeptOrSaid'
    BY <1>a, <2>1, <2>2, <2>3, <2>4, <2>5 DEF PolicyKeptOrSaid
  <2> QED
    BY <1>a, <2>1, <2>6 DEF PolicyInv
<1>5. CASE Save
  <2>1. /\ first' = first /\ out' = out /\ pc' = pc /\ noted' = noted
        /\ unattended' = FALSE /\ DOMAIN disk' = Place
        /\ \A p \in Place : disk[p].node # Baseline => disk'[p].node # Baseline
    BY <1>5 DEF Save, PolicyInv, Entry, Nothing, Unset, Baseline
  <2> QED
    BY <1>a, <2>1 DEF PolicyInv, PolicyKeptOrSaid
<1>6. CASE Refused \/ Plan \/ Unloaded \/ Grade \/ WriteFails
  <2>1. /\ disk' = disk /\ first' = first /\ out' = out /\ noted' = noted
        /\ unattended' = unattended
    BY <1>6 DEF Refused, Plan, Unloaded, Grade, WriteFails, Unwritten, shared
  <2>2. \/ pc' = "left"
        \/ pc = "plan" /\ pc' = "load"
        \/ pc = "load" /\ pc' = "choose"
    BY <1>6 DEF Refused, Plan, Unloaded, Grade, WriteFails, Leave
  <2>3. PolicyKeptOrSaid'
    BY <1>a, <2>1 DEF PolicyInv, PolicyKeptOrSaid, Written, FirstInForce, At
  <2> QED
    BY <1>a, <2>1, <2>2, <2>3 DEF PolicyInv
<1>7. CASE ReadConfig \/ Scan
  <2>1. /\ disk' = disk /\ first' = first /\ out' = out /\ noted' = noted
        /\ unattended' = unattended /\ pc' \in {"scan", "done"}
    BY <1>7 DEF ReadConfig, Scan, Checked, shared
  <2>2. PolicyKeptOrSaid'
    BY <1>a, <2>1 DEF PolicyInv, PolicyKeptOrSaid, Written, FirstInForce, At
  <2> QED
    BY <1>a, <2>1, <2>2 DEF PolicyInv
<1>8. CASE Done \/ UNCHANGED vars
  <2>1. /\ disk' = disk /\ first' = first /\ out' = out /\ noted' = noted
        /\ unattended' = unattended /\ pc' = pc
    BY <1>8 DEF Done, vars
  <2>2. PolicyKeptOrSaid'
    BY <1>a, <2>1 DEF PolicyInv, PolicyKeptOrSaid, Written, FirstInForce, At
  <2>3. DefaultOutput' = DefaultOutput /\ Shadows' = Shadows
    BY <1>a, <2>1 DEF DefaultOutput, Shadows, Present, Exists
  <2>4. Exists(At(out))' <=> Exists(At(out))
    BY <2>1 DEF Exists, At
  <2> QED
    BY <1>a, <2>1, <2>2, <2>3, <2>4 DEF PolicyInv
<1> QED
  BY <1>1, <1>2, <1>3, <1>4, <1>5, <1>6, <1>7, <1>8 DEF Next

(* Where nobody touches a config meanwhile, init replaces nothing without  *)
(* --force, touches no other file, and without -o says that a config goes  *)
(* out of force exactly when one does.                                     *)
THEOREM PolicyAlwaysKeptOrSaid == Spec => []PolicyKeptOrSaid
<1>1. PolicyInv => PolicyKeptOrSaid
  BY DEF PolicyInv
<1> QED
  BY <1>1, PolicyInvInit, PolicyInvStep, PTL DEF Spec

-----------------------------------------------------------------------------
(* What a config disables is a rule some block of its text is about.       *)
LEMMA DisabledIsNamed ==
  ASSUME NEW policy, NEW both, NEW strict
  PROVE  LoadConfig(policy, both, strict).disabled
           \subseteq {policy.blocks[i].rule : i \in DOMAIN policy.blocks}
<1>1. Tables(policy, both).disabled \subseteq {policy.blocks[i].rule : i \in DOMAIN policy.blocks}
  BY DEF Tables
<1>2. [NoConfig EXCEPT !.error = TRUE].disabled = {}
  BY DEF NoConfig
<1> QED
  BY <1>1, <1>2 DEF LoadConfig

(* Every variable of the run keeps its type, and the output, once chosen,  *)
(* is a place.                                                             *)
THEOREM InitTyped == Spec => []TypeOK
<1>1. Init => TypeOK
  <2> SUFFICES ASSUME Init
               PROVE  TypeOK
    OBVIOUS
  <2>1. /\ project \in Projects /\ crashing \in Crashing
        /\ flags \in [output : Outputs, force : BOOLEAN, no_env : BOOLEAN]
        /\ asked \in [strict : BOOLEAN, no_env : BOOLEAN]
        /\ disk \in Disks /\ first = disk
    BY DEF Init
  <2>2. /\ pc = "plan" /\ findings = {} /\ out = Unset /\ noted = FALSE /\ code = 0
        /\ verdict.code = 0 /\ config.disabled = {} /\ unattended = TRUE /\ saves = 0
    BY DEF Init, Unjudged, NoConfig
  <2>3. saves \in 0 .. MaxSaves /\ verdict.code \in 0 .. 2
    BY <2>2, InitAssumption
  <2>4. /\ DOMAIN disk = Place
        /\ \A p \in Place : disk[p].kind \in {"none", "file", "link", "dangling"}
    BY <2>1, InitAssumption
  <2> QED
    BY <2>1, <2>2, <2>3, <2>4, Zenon DEF TypeOK
<1>2. TypeOK /\ [Next]_vars => TypeOK'
  <2> SUFFICES ASSUME TypeOK, [Next]_vars
               PROVE  TypeOK'
    OBVIOUS
  <2>0. /\ UNCHANGED given
        /\ project \in Projects /\ flags.output \in Outputs /\ flags.no_env \in BOOLEAN
    BY DEF TypeOK, Next, vars, given, Refused, Plan, Unloaded, Grade, Choose, Guard, Note, Write,
           WriteFails, ReadConfig, Scan, Save, Done, Unwritten, Checked
  <2>1. CASE Refused \/ Plan \/ Unloaded \/ Guard \/ WriteFails
    BY <2>1 DEF Refused, Plan, Unloaded, Guard, WriteFails, Leave, Unwritten, given, shared,
                checking, TypeOK
  <2>2. CASE Grade
    <3>1. findings' \subseteq UNION {project.raises[env] : env \in BOOLEAN}
      BY <2>0, <2>2 DEF Grade, Raised
    <3>2. pc' \in {"choose", "left"} /\ code' \in {0, 2}
      BY <2>2 DEF Grade, Leave, TypeOK
    <3> QED
      BY <2>0, <2>2, <3>1, <3>2 DEF Grade, Unwritten, given, shared, checking, TypeOK
  <2>3. CASE Choose
    <3>1. out' \in Place \cup {Respelled}
      BY <2>0, <2>3, DefaultIsPlace, InitAssumption DEF Choose, OutPath
    <3> QED
      BY <2>3, <3>1 DEF Choose, Leave, given, checking, TypeOK
  <2>4. CASE Note
    <3>1. noted' \in BOOLEAN
      BY <2>4 DEF Note, Shadows
    <3> QED
      BY <2>4, <3>1 DEF Note, given, shared, checking, TypeOK
  <2>5. CASE Write
    <3>1. DOMAIN disk' = Place /\ \A p \in Place : disk'[p].kind \in {"none", "file", "link", "dangling"}
      BY <2>5 DEF Write, Entry, TypeOK
    <3>2. /\ pc' = "left" /\ code' = 0
          /\ UNCHANGED <<given, checking, saves, first, unattended, noted, findings, out>>
      BY <2>5 DEF Write, Leave
    <3> QED
      BY <3>1, <3>2 DEF given, checking, TypeOK
  <2>6. CASE ReadConfig
    <3>1. config'.disabled \subseteq {in_force'.blocks[i].rule : i \in DOMAIN in_force'.blocks}
      <4>1. CASE Discover(Present, project.together) = NoSlot
        BY <2>6, <4>1 DEF ReadConfig, NoConfig
      <4>2. CASE Discover(Present, project.together) # NoSlot
        BY <2>6, <4>2, DisabledIsNamed DEF ReadConfig
      <4> QED
        BY <4>1, <4>2
    <3>2. verdict'.code \in 0 .. 2 /\ pc' \in {"scan", "done"}
      BY <2>6 DEF ReadConfig, Checked, Unjudged
    <3> QED
      BY <2>6, <3>1, <3>2 DEF ReadConfig, Checked, given, shared, TypeOK
  <2>7. CASE Scan
    <3>1. verdict'.code \in 0 .. 2 /\ UNCHANGED <<in_force, config>> /\ pc' = "done"
      BY <2>7 DEF Scan, Checked
    <3> QED
      BY <2>7, <3>1 DEF Scan, Checked, given, shared, TypeOK
  <2>8. CASE Save
    <3>1. DOMAIN disk' = Place /\ \A p \in Place : disk'[p].kind \in {"none", "file", "link", "dangling"}
      BY <2>8 DEF Save, Entry, Nothing, TypeOK
    <3>2. saves' \in 0 .. MaxSaves
      BY <2>8, InitAssumption DEF Save, TypeOK
    <3>3. /\ unattended' = FALSE
          /\ UNCHANGED <<given, pc, checking, first, findings, out, noted, code>>
      BY <2>8 DEF Save
    <3> QED
      BY <3>1, <3>2, <3>3 DEF given, checking, TypeOK
  <2>9. CASE Done \/ UNCHANGED vars
    BY <2>9 DEF Done, vars, TypeOK
  <2> QED
    BY <2>1, <2>2, <2>3, <2>4, <2>5, <2>6, <2>7, <2>8, <2>9 DEF Next
<1> QED
  BY <1>1, <1>2, PTL DEF Spec

-----------------------------------------------------------------------------
(* What a config asks for is in force or complained of.                    *)

(* The blocks of a text are numbered in the order they are written.        *)
Numbered(text) == DOMAIN text.blocks \subseteq Nat

LEMMA SequencesAreNumbered ==
  ASSUME NEW text, text.blocks \in Seq(ToSet(text.blocks))
  PROVE  Numbered(text)
BY DEF Numbered

(* Where no rule has two blocks, the last one for a rule is its only one.  *)
LEMMA LastIsOnly ==
  ASSUME NEW text, Numbered(text), ~Repeats(text.blocks), NEW i \in DOMAIN text.blocks
  PROVE  LastFor(text.blocks, text.blocks[i].rule) = text.blocks[i].fields
<1> DEFINE blocks == text.blocks
<1>1. \A j \in DOMAIN blocks : blocks[j].rule = blocks[i].rule => j = i
  <2>1. \A j \in DOMAIN blocks : j \in Nat
    BY DEF Numbered
  <2>2. \A j, k \in DOMAIN blocks : j < k => blocks[j].rule # blocks[k].rule
    BY DEF Repeats
  <2> QED
    BY <2>1, <2>2
<1>2. i <= i
  BY DEF Numbered
<1> DEFINE k == CHOOSE n \in DOMAIN blocks :
                  /\ blocks[n].rule = blocks[i].rule
                  /\ \A j \in DOMAIN blocks : blocks[j].rule = blocks[i].rule => j <= n
<1>3. k \in DOMAIN blocks /\ blocks[k].rule = blocks[i].rule
  BY <1>1, <1>2
<1>4. k = i
  BY <1>1, <1>3
<1> HIDE DEF k
<1> QED
  BY <1>4 DEF LastFor, k

(* What the tables say of a rule is what its block says.                   *)
LEMMA TablesSay ==
  ASSUME NEW text, Numbered(text), ~Repeats(text.blocks), NEW both,
         NEW i \in DOMAIN text.blocks
  PROVE  LET table == Tables(text, both)
             block == text.blocks[i]
         IN  /\ block.rule \in table.disabled <=> Off(block.fields)
             /\ block.rule \in DOMAIN table.overrides <=> block.fields.severity # "absent"
             /\ block.fields.severity # "absent" =>
                  table.overrides[block.rule] = block.fields.severity
             /\ block.rule \in DOMAIN table.excluded <=> block.fields.exclude # NoNames
             /\ block.fields.exclude # NoNames =>
                  table.excluded[block.rule] = block.fields.exclude.names
<1> DEFINE blocks == text.blocks
           named == {blocks[j].rule : j \in DOMAIN blocks}
           block == blocks[i]
<1>1. block.rule \in named
  OBVIOUS
<1>2. LastFor(blocks, block.rule) = block.fields
  BY LastIsOnly
<1>3. /\ Tables(text, both).disabled = {r \in named : Off(LastFor(blocks, r))}
      /\ Tables(text, both).overrides =
           [r \in {q \in named : LastFor(blocks, q)["severity"] # "absent"} |-> LastFor(blocks, r).severity]
      /\ Tables(text, both).excluded =
           [r \in {q \in named : LastFor(blocks, q)["exclude"] # NoNames} |-> LastFor(blocks, r).exclude.names]
  BY DEF Tables
<1> HIDE DEF named, block, blocks
<1>4. block.rule \in Tables(text, both).disabled <=> Off(block.fields)
  BY <1>1, <1>2, <1>3
<1>5. /\ block.rule \in DOMAIN Tables(text, both).overrides <=> block.fields.severity # "absent"
      /\ block.fields.severity # "absent" =>
           Tables(text, both).overrides[block.rule] = block.fields.severity
  BY <1>1, <1>2, <1>3
<1>6. /\ block.rule \in DOMAIN Tables(text, both).excluded <=> block.fields.exclude # NoNames
      /\ block.fields.exclude # NoNames =>
           Tables(text, both).excluded[block.rule] = block.fields.exclude.names
  BY <1>1, <1>2, <1>3
<1> QED
  BY <1>4, <1>5, <1>6 DEF block, blocks

(* ... and they say nothing of a rule that has none.                       *)
LEMMA TablesSayNoMore ==
  ASSUME NEW text, NEW both, NEW r,
         r \in Tables(text, both).disabled \cup DOMAIN Tables(text, both).overrides
                 \cup DOMAIN Tables(text, both).excluded
  PROVE  \E i \in DOMAIN text.blocks : text.blocks[i].rule = r
BY DEF Tables

(* What a check that is about to judge has read: no config, or the tables  *)
(* of a text that has one block for a rule and was accepted.               *)
NothingRead == in_force = NoText /\ config = NoConfig /\ warned = {}

TablesRead ==
  \E both \in BOOLEAN :
    /\ Numbered(in_force) /\ ~Repeats(in_force.blocks)
    /\ config = Tables(in_force, both) /\ warned = Warnings(in_force, both)
    /\ asked.strict => warned = {}

ReadInv ==
  /\ project \in Projects /\ DOMAIN disk = Place
  /\ asked.strict \in BOOLEAN
  /\ \A f \in findings : f.rule \in Rule
  /\ \A p \in Place : Numbered(disk[p].text)
  /\ pc = "scan" => NothingRead \/ TablesRead
  /\ RequestsKept

(* The one-block-per-rule file init writes is numbered, and repeats no     *)
(* rule.                                                                   *)
LEMMA OneBlockPerRule ==
  ASSUME NEW found, \A f \in found : f.rule \in Rule
  PROVE  LET rules == {f.rule : f \in found}
             blocks == RenderConfig(found).blocks
         IN  /\ DOMAIN blocks \subseteq Nat
             /\ {blocks[i].rule : i \in DOMAIN blocks} = rules
             /\ \A i \in DOMAIN blocks :
                  blocks[i] = Block(blocks[i].rule, [NoFields EXCEPT
                     !.exclude = Reloaded({Scalar(n) : n \in {f.service : f \in
                                    {g \in found : g.rule = blocks[i].rule}}})])
             /\ ~Repeats(blocks)
<1> DEFINE rules == {f.rule : f \in found}
           q == SetToSeq(rules)
           fields(r) == [NoFields EXCEPT
                     !.exclude = Reloaded({Scalar(n) : n \in {f.service : f \in
                                    {g \in found : g.rule = r}}})]
<1>1. IsFiniteSet(rules)
  BY ConfigAssumption, FS_Subset
<1>2. Cardinality(rules) \in Nat /\ ExistsBijection(1 .. Cardinality(rules), rules)
  BY <1>1, FS_CardinalityType
<1>3. \E f \in [1 .. Cardinality(rules) -> rules] : IsInjective(f)
  BY <1>2 DEF ExistsBijection, Bijection, Injection, Surjection
<1>4. q \in [1 .. Cardinality(rules) -> rules] /\ IsInjective(q)
  BY <1>3 DEF SetToSeq
<1>5. {q[i] : i \in 1 .. Cardinality(rules)} = rules
  <2>1. q \in Injection(1 .. Cardinality(rules), rules)
    BY <1>4 DEF Injection
  <2>2. Cardinality(1 .. Cardinality(rules)) = Cardinality(rules)
    BY <1>2, FS_Interval
  <2>3. q \in Surjection(1 .. Cardinality(rules), rules)
    BY <1>1, <2>1, <2>2, FS_Injection
  <2>4. \A r \in rules : \E i \in 1 .. Cardinality(rules) : q[i] = r
    BY <2>3, Zenon DEF Surjection
  <2> QED
    BY <1>4, <2>4
<1> HIDE DEF q
<1>6. RenderConfig(found).blocks = [i \in DOMAIN q |-> Block(q[i], fields(q[i]))]
  BY DEF RenderConfig, Policy, q
<1> HIDE DEF fields, rules
<1>7. DOMAIN q = 1 .. Cardinality(rules) /\ DOMAIN q \subseteq Nat
  BY <1>2, <1>4
<1>8. \A i \in DOMAIN q : /\ RenderConfig(found).blocks[i] = Block(q[i], fields(q[i]))
                          /\ RenderConfig(found).blocks[i].rule = q[i]
  BY <1>6 DEF Block
<1>9. DOMAIN RenderConfig(found).blocks = DOMAIN q
  BY <1>6
<1>10. {RenderConfig(found).blocks[i].rule : i \in DOMAIN RenderConfig(found).blocks} = rules
  BY <1>5, <1>7, <1>8, <1>9
<1>11. ~Repeats(RenderConfig(found).blocks)
  <2> SUFFICES ASSUME NEW i \in DOMAIN q, NEW j \in DOMAIN q, i < j, q[i] = q[j]
               PROVE  FALSE
    BY <1>8, <1>9 DEF Repeats
  <2>1. i = j
    BY <1>4 DEF IsInjective
  <2> QED
    BY <1>7, <2>1
<1> QED
  BY <1>7, <1>8, <1>9, <1>10, <1>11 DEF fields, rules

LEMMA ReadInvInit == Init => ReadInv
<1> SUFFICES ASSUME Init PROVE ReadInv
  OBVIOUS
<1>1. /\ DOMAIN disk = Place
      /\ \A p \in Place : disk[p].text.blocks \in Seq(ToSet(disk[p].text.blocks))
  BY InitAssumption DEF Init
<1>2. \A p \in Place : Numbered(disk[p].text)
  BY <1>1, SequencesAreNumbered
<1> QED
  BY <1>1, <1>2 DEF Init, ReadInv, RequestsKept

(* Reading a config: an error, nothing at all, or the tables of its text.  *)
LEMMA ReadIsTables ==
  ASSUME ReadInv, ReadConfig
  PROVE  \/ pc' = "done" /\ verdict'.code = 2
         \/ pc' = "scan" /\ (NothingRead' \/ TablesRead')
<1> DEFINE slot == Discover(Present, project.together)
           both == BothSpellings(Present, project.together)
           policy == disk[slot].text
<1>1. CASE slot = NoSlot
  <2>1. in_force' = NoText /\ config' = NoConfig /\ warned' = NoConfig.warnings /\ pc' = "scan"
    BY <1>1 DEF ReadConfig, Checked, NoConfig
  <2> QED
    BY <2>1 DEF NothingRead, NoConfig
<1>2. CASE slot # NoSlot
  <2> DEFINE failed == \/ policy.read \notin {"empty", "mapping"}
                       \/ Repeats(policy.blocks)
                       \/ \E i \in DOMAIN policy.blocks : Malformed(policy.blocks[i].fields)
                       \/ asked.strict /\ Warnings(policy, both) # {}
             read == LoadConfig(policy, both, asked.strict)
  <2>1. /\ in_force' = policy /\ config' = read /\ warned' = read.warnings
        /\ verdict' = [Unjudged EXCEPT !.code = IF read.error THEN 2 ELSE 0]
        /\ pc' = IF read.error THEN "done" ELSE "scan"
        /\ asked' = asked
    BY <1>2 DEF ReadConfig, Checked, given
  <2>2. read = IF failed THEN [NoConfig EXCEPT !.error = TRUE] ELSE Tables(policy, both)
    BY DEF LoadConfig
  <2> HIDE DEF failed, read
  <2>3. CASE failed
    <3>1. read.error = TRUE
      BY <2>2, <2>3 DEF NoConfig
    <3> QED
      BY <2>1, <3>1 DEF Unjudged
  <2>4. CASE ~failed
    <3>1. read = Tables(policy, both) /\ read.error = FALSE /\ read.warnings = Warnings(policy, both)
      BY <2>2, <2>4 DEF Tables
    <3>2. slot \in Slot
      <4>1. project.together \in BOOLEAN /\ Present \subseteq Slot
        BY InitAssumption DEF ReadInv, Present
      <4>2. \A dir : PresentIn(Present, dir) \subseteq Slot
        BY <4>1 DEF PresentIn
      <4> QED
        BY <1>2, <4>1, <4>2, DiscoverNearest, FirstInIsIn
    <3>3. Numbered(policy)
      BY <3>2, PlacesDiffer DEF ReadInv
    <3>4. ~Repeats(policy.blocks) /\ (asked.strict => Warnings(policy, both) = {})
      BY <2>4 DEF failed
    <3>5. both \in BOOLEAN
      BY DEF BothSpellings
    <3>6. TablesRead'
      BY <2>1, <3>1, <3>3, <3>4, <3>5 DEF TablesRead, Numbered
    <3> QED
      BY <2>1, <3>1, <3>6
  <2> QED
    BY <2>3, <2>4
<1> QED
  BY <1>1, <1>2

(* What a block asks of the findings of its rule, once the check judged.   *)
Answered(i) ==
  LET block == in_force.blocks[i]
  IN  /\ block.fields.severity # "absent" =>
           \/ \A f \in verdict.active :
                f.rule = block.rule => f.severity = block.fields.severity /\ ~Off(block.fields)
           \/ <<"severity-on-disabled-rule", block.rule>> \in warned
      /\ block.rule \in Rule \/ <<"unknown-rule-id", block.rule>> \in warned
      /\ \/ block.fields.exclude.names \subseteq project.seen
         \/ <<"unknown-excluded-service", block.rule>> \in warned

(* The sweep under tables that were read answers every block of the text.  *)
LEMMA ScanAnswers ==
  ASSUME ReadInv, Scan, TablesRead, verdict'.code # 2
  PROVE  RequestsKept'
<1> DEFINE raised == Raised(asked.no_env)
           quiet == {f \in raised : f.rule \in config.disabled \/ Excludes(f)}
           stale == UnknownExcluded(config, project.seen)
           blocks == in_force.blocks
           failed == \/ project.gap \/ Over(asked.no_env) \/ crashing # {}
                     \/ asked.strict /\ stale # {}
<1>1. /\ warned' = warned \cup stale
      /\ verdict' = [suppressed |-> quiet,
                     active |-> {Regraded(f) : f \in raised \ quiet},
                     code |-> IF failed THEN 2 ELSE IF raised \ quiet # {} THEN 1 ELSE 0]
      /\ UNCHANGED <<in_force, config, project, crashing, asked>>
  BY DEF Scan, Checked, given
<1>2. verdict'.code = IF failed THEN 2 ELSE IF raised \ quiet # {} THEN 1 ELSE 0
  BY <1>1
<1>3. ~failed
  BY <1>2
<1>4. raised = Findings
  BY <1>3 DEF Raised, Findings
<1>5. PICK both \in BOOLEAN :
        /\ Numbered(in_force) /\ ~Repeats(blocks)
        /\ config = Tables(in_force, both) /\ warned = Warnings(in_force, both)
        /\ asked.strict => warned = {}
  BY DEF TablesRead
<1>6. \A i \in DOMAIN blocks :
        /\ blocks[i].rule \in config.disabled <=> Off(blocks[i].fields)
        /\ blocks[i].rule \in DOMAIN config.overrides <=> blocks[i].fields.severity # "absent"
        /\ blocks[i].fields.severity # "absent" =>
             config.overrides[blocks[i].rule] = blocks[i].fields.severity
        /\ blocks[i].rule \in DOMAIN config.excluded <=> blocks[i].fields.exclude # NoNames
        /\ blocks[i].fields.exclude # NoNames =>
             config.excluded[blocks[i].rule] = blocks[i].fields.exclude.names
  BY <1>5, TablesSay
<1>7. \A r \in config.disabled \cup DOMAIN config.overrides \cup DOMAIN config.excluded :
        \E i \in DOMAIN blocks : blocks[i].rule = r
  BY <1>5, TablesSayNoMore
<1>8. \A i \in DOMAIN blocks : Warned(blocks[i]) \subseteq warned
  BY <1>5 DEF Warnings
<1>f. \A f \in raised : /\ f \in [rule : Rule, service : project.seen, severity : Level]
  BY InitAssumption DEF Raised, ReadInv
<1> HIDE DEF failed, stale, raised
<1>9. quiet = {f \in Findings : \E i \in DOMAIN blocks :
                 /\ blocks[i].rule = f.rule
                 /\ Off(blocks[i].fields) \/ f.service \in blocks[i].fields.exclude.names}
  <2>1. ASSUME NEW f \in raised, f.rule \in config.disabled \/ Excludes(f)
        PROVE  \E i \in DOMAIN blocks :
                 /\ blocks[i].rule = f.rule
                 /\ Off(blocks[i].fields) \/ f.service \in blocks[i].fields.exclude.names
    <3>1. CASE f.rule \in config.disabled
      BY <1>6, <1>7, <3>1
    <3>2. CASE Excludes(f)
      BY <1>6, <1>7, <3>2 DEF Excludes
    <3> QED
      BY <2>1, <3>1, <3>2
  <2>2. ASSUME NEW f \in raised, NEW i \in DOMAIN blocks, blocks[i].rule = f.rule,
               Off(blocks[i].fields) \/ f.service \in blocks[i].fields.exclude.names
        PROVE  f.rule \in config.disabled \/ Excludes(f)
    <3>1. CASE Off(blocks[i].fields)
      BY <1>6, <2>2, <3>1
    <3>2. CASE f.service \in blocks[i].fields.exclude.names
      <4>1. blocks[i].fields.exclude # NoNames
        BY <3>2 DEF NoNames
      <4> QED
        BY <1>6, <2>2, <3>2, <4>1 DEF Excludes
    <3> QED
      BY <2>2, <3>1, <3>2
  <2> QED
    BY <1>4, <2>1, <2>2
<1>10. ASSUME NEW i \in DOMAIN blocks
       PROVE  Answered(i)'
  <2> DEFINE block == blocks[i]
  <2>1. block.rule \in Rule \/ <<"unknown-rule-id", block.rule>> \in warned'
    BY <1>1, <1>8 DEF Warned
  <2>2. \/ block.fields.exclude.names \subseteq project.seen
        \/ <<"unknown-excluded-service", block.rule>> \in warned'
    <3>1. CASE block.fields.exclude = NoNames
      BY <3>1 DEF NoNames
    <3>2. CASE block.fields.exclude # NoNames
      BY <1>1, <1>6, <3>2 DEF UnknownExcluded, stale
    <3> QED
      BY <3>1, <3>2
  <2>3. ASSUME block.fields.severity # "absent", ~ Off(block.fields),
               NEW f \in raised \ quiet, Regraded(f).rule = block.rule
        PROVE  Regraded(f).severity = block.fields.severity
    <3>1. Regraded(f).rule = f.rule
      BY <1>f DEF Regraded
    <3>2. f.rule \in DOMAIN config.overrides \ config.disabled
      BY <1>6, <2>3, <3>1
    <3>3. Regraded(f).severity = config.overrides[f.rule]
      BY <1>f, <3>2 DEF Regraded
    <3> QED
      BY <1>6, <2>3, <3>1, <3>3
  <2>4. block.fields.severity # "absent" /\ Off(block.fields) =>
          <<"severity-on-disabled-rule", block.rule>> \in warned'
    BY <1>1, <1>8 DEF Warned
  <2>5. \A g \in verdict'.active : \E f \in raised \ quiet : g = Regraded(f)
    BY <1>1
  <2> HIDE DEF quiet
  <2>6. block.fields.severity # "absent" =>
          \/ \A g \in verdict'.active :
               g.rule = block.rule => g.severity = block.fields.severity /\ ~Off(block.fields)
          \/ <<"severity-on-disabled-rule", block.rule>> \in warned'
    BY <2>3, <2>4, <2>5
  <2> QED
    BY <1>1, <2>1, <2>2, <2>6 DEF Answered
<1>11. asked'.strict => warned' = {}
  BY <1>1, <1>3, <1>5 DEF failed
<1>12. verdict'.suppressed =
         {f \in Findings' : \E i \in DOMAIN in_force'.blocks :
            LET block == in_force'.blocks[i]
            IN  /\ block.rule = f.rule
                /\ Off(block.fields) \/ f.service \in block.fields.exclude.names}
  BY <1>1, <1>9 DEF Findings
<1>13. \A i \in DOMAIN in_force'.blocks : Answered(i)'
  BY <1>1, <1>10
<1> HIDE DEF blocks, quiet
<1> QED
  BY <1>11, <1>12, <1>13 DEF RequestsKept, Answered

(* Without a config nothing is suppressed, and nothing was asked for.      *)
LEMMA ScanWithout ==
  ASSUME Scan, NothingRead, verdict'.code # 2
  PROVE  RequestsKept'
<1>1. /\ in_force' = NoText /\ DOMAIN in_force'.blocks = {}
      /\ config.disabled = {} /\ DOMAIN config.excluded = {}
  BY DEF Scan, NothingRead, NoText, NoConfig
<1>2. UnknownExcluded(config, project.seen) = {}
  BY <1>1 DEF UnknownExcluded
<1>3. warned' = {}
  BY <1>2 DEF Scan, NothingRead
<1>4. verdict'.suppressed = {}
  BY <1>1 DEF Scan, Excludes
<1> QED
  BY <1>1, <1>3, <1>4 DEF RequestsKept

LEMMA ReadInvStep == ReadInv /\ [Next]_vars => ReadInv'
<1> SUFFICES ASSUME ReadInv, [Next]_vars PROVE ReadInv'
  OBVIOUS
<1>a. UNCHANGED given
  BY DEF Next, vars, given, Refused, Plan, Unloaded, Grade, Choose, Guard, Note, Write,
         WriteFails, ReadConfig, Scan, Save, Done, Unwritten, Checked
<1>1. CASE Refused \/ Plan \/ Unloaded \/ Choose \/ Guard \/ Note \/ WriteFails
  <2>1. /\ pc' \notin {"scan", "done"} /\ disk' = disk /\ findings' = findings
    BY <1>1 DEF Refused, Plan, Unloaded, Choose, Guard, Note, WriteFails, Leave, Unwritten,
                shared
  <2> QED
    BY <1>a, <2>1 DEF ReadInv, RequestsKept, Numbered, given
<1>2. CASE Grade
  <2>1. pc' \notin {"scan", "done"} /\ disk' = disk /\ findings' \subseteq Raised(flags.no_env)
    BY <1>2 DEF Grade, Leave, Unwritten, shared
  <2>2. \A f \in findings' : f.rule \in Rule
    BY <2>1, InitAssumption DEF Raised, ReadInv
  <2> QED
    BY <1>a, <2>1, <2>2 DEF ReadInv, RequestsKept, Numbered, given
<1>3. CASE Write
  <2>1. /\ pc' = "left" /\ findings' = findings /\ DOMAIN disk' = Place
        /\ \A p \in Place : \/ disk'[p] = disk[p]
                            \/ disk'[p].text = RenderConfig(findings)
    BY <1>3 DEF Write, Leave, Entry, ReadInv
  <2>2. Numbered(RenderConfig(findings))
    BY OneBlockPerRule DEF ReadInv, Numbered
  <2> QED
    BY <1>a, <2>1, <2>2 DEF ReadInv, RequestsKept, Numbered, given
<1>4. CASE ReadConfig
  <2>1. disk' = disk /\ findings' = findings
    BY <1>4 DEF ReadConfig, Checked, shared
  <2> QED
    BY <1>a, <1>4, <2>1, ReadIsTables DEF ReadInv, RequestsKept, Numbered, given
<1>5. CASE Scan
  <2>1. disk' = disk /\ findings' = findings /\ pc = "scan" /\ pc' = "done"
    BY <1>5 DEF Scan, Checked, shared
  <2>2. RequestsKept'
    <3>1. CASE verdict'.code = 2
      BY <3>1 DEF RequestsKept
    <3>2. CASE verdict'.code # 2
      BY <1>5, <2>1, <3>2, ScanAnswers, ScanWithout DEF ReadInv
    <3> QED
      BY <3>1, <3>2
  <2> QED
    BY <1>a, <2>1, <2>2 DEF ReadInv, Numbered, given
<1>6. CASE Save
  <2>1. /\ pc' = pc /\ pc # "done" /\ findings' = findings /\ DOMAIN disk' = Place
        /\ UNCHANGED checking
        /\ \A p \in Place : \/ disk'[p] = disk[p]
                            \/ disk'[p].text \in Policies \cup {NoText}
    BY <1>6 DEF Save, Entry, Nothing, ReadInv
  <2>2. \A text \in Policies \cup {NoText} : Numbered(text)
    BY InitAssumption, SequencesAreNumbered DEF NoText, Numbered
  <2>3. \A p \in Place : Numbered(disk[p].text)'
    BY <2>1, <2>2 DEF ReadInv, Numbered
  <2>4. pc' = "scan" => NothingRead' \/ TablesRead'
    BY <1>a, <2>1 DEF ReadInv, NothingRead, TablesRead, Numbered, checking, given
  <2> QED
    BY <1>a, <2>1, <2>3, <2>4 DEF ReadInv, RequestsKept, given
<1>7. CASE Done \/ UNCHANGED vars
  <2>1. UNCHANGED vars
    BY <1>7 DEF Done
  <2>2. RequestsKept' /\ (pc' = "scan" => NothingRead' \/ TablesRead')
    BY <2>1 DEF vars, ReadInv, RequestsKept, Findings, NothingRead, TablesRead, Numbered
  <2> QED
    BY <2>1, <2>2 DEF vars, ReadInv, Numbered
<1> QED
  BY <1>1, <1>2, <1>3, <1>4, <1>5, <1>6, <1>7 DEF Next

(* When a check of any project reaches a verdict under any config, exactly *)
(* what the config turns off or excludes is suppressed, each severity it   *)
(* asks for is in force, and what it asks for in vain was complained of    *)
(* (load_config, run_rules and warn_unknown_excluded_services together).   *)
THEOREM RequestsAlwaysKept == Spec => []RequestsKept
<1>1. ReadInv => RequestsKept
  BY DEF ReadInv
<1> QED
  BY <1>1, ReadInvInit, ReadInvStep, PTL DEF Spec

-----------------------------------------------------------------------------
(* A baseline is good for the check it was written for.                    *)

Raises(no_env) == project.raises[~no_env]

FirstPresent == {slot \in Slot : first[slot].kind \in {"file", "link"}}

(* init wrote its baseline to the default place, and nobody has touched a  *)
(* config since it looked.                                                 *)
Standing == Written /\ unattended /\ flags.output = Default

(* While the run is past the sweep, the findings are all there were; where *)
(* the baseline stands it is the text of them, in the place the first look *)
(* led to, and a check about to judge has read it.                         *)
BaselineInv ==
  /\ PolicyInv
  /\ flags.no_env \in BOOLEAN /\ asked.no_env \in BOOLEAN
  /\ pc \in {"choose", "guard", "note", "write"} =>
       Swept /\ findings = Raises(flags.no_env)
  /\ Written => Swept
  /\ Standing =>
       /\ disk[out] = Entry("file", Baseline, RenderConfig(Raises(flags.no_env)), TRUE)
       /\ out = IF PresentIn(FirstPresent, "project") = {} THEN <<"project", 1>>
                ELSE FirstIn(PresentIn(FirstPresent, "project"))
       /\ pc = "scan" => \E both \in BOOLEAN :
            config = Tables(RenderConfig(Raises(flags.no_env)), both)
  /\ BaselineSuffices

(* The names of the units a rule was found in.                             *)
ServicesOf(found, rule) == {f.service : f \in {g \in found : g.rule = rule}}

(* The baseline is a mapping of well-formed blocks that nothing warns of.  *)
LEMMA BaselineReads ==
  ASSUME NEW found, NEW seen, found \subseteq [rule : Rule, service : seen, severity : Level]
  PROVE  LET text == RenderConfig(found)
             blocks == text.blocks
         IN  /\ text.read = "mapping" /\ text.extra = FALSE /\ Numbered(text)
             /\ ~Repeats(blocks)
             /\ \A i \in DOMAIN blocks :
                  /\ ~Malformed(blocks[i].fields) /\ Warned(blocks[i]) = {}
                  /\ blocks[i].fields.exclude = Names(ServicesOf(found, blocks[i].rule))
             /\ {blocks[i].rule : i \in DOMAIN blocks} = {f.rule : f \in found}
<1> DEFINE text == RenderConfig(found)
           blocks == text.blocks
           services(r) == ServicesOf(found, r)
<1>1. text.read = "mapping" /\ text.extra = FALSE
  BY DEF RenderConfig, Policy
<1>2. \A f \in found : f.rule \in Rule
  OBVIOUS
<1>3. /\ DOMAIN blocks \subseteq Nat /\ ~Repeats(blocks)
      /\ {blocks[i].rule : i \in DOMAIN blocks} = {f.rule : f \in found}
      /\ \A i \in DOMAIN blocks :
           blocks[i] = Block(blocks[i].rule, [NoFields EXCEPT
              !.exclude = Reloaded({Scalar(n) : n \in services(blocks[i].rule)})])
  BY <1>2, OneBlockPerRule DEF ServicesOf
<1>4. \A r : Reloaded({Scalar(n) : n \in services(r)}) = Names(services(r))
  <2> SUFFICES ASSUME NEW S
               PROVE  Reloaded({Scalar(n) : n \in S}) = Names(S)
    OBVIOUS
  <2> DEFINE scalars == {Scalar(n) : n \in S}
  <2>1. \A n : Scalar(n).text = n /\ (Scalar(n).quoted <=> n \in Odd)
    BY DEF Scalar
  <2>2. \A s \in scalars : s.quoted \/ s.text \notin Odd
    BY <2>1
  <2>3. {s.text : s \in scalars} = S
    BY <2>1
  <2> HIDE DEF scalars
  <2>4. Reloaded(scalars) = Names({s.text : s \in scalars})
    BY <2>2 DEF Reloaded
  <2> QED
    BY <2>3, <2>4 DEF scalars
<1> HIDE DEF text, services
<1>5. ASSUME NEW i \in DOMAIN blocks
      PROVE  /\ ~Malformed(blocks[i].fields) /\ Warned(blocks[i]) = {}
             /\ blocks[i].fields.exclude = Names(services(blocks[i].rule))
  <2> DEFINE r == blocks[i].rule
             fields == [NoFields EXCEPT !.exclude = Names(services(r))]
  <2>1. blocks[i] = Block(r, fields)
    BY <1>3, <1>4
  <2>2. r \in Rule
    BY <1>2, <1>3
  <2>3. blocks[i].fields = fields
    BY <2>1 DEF Block
  <2>4. /\ fields.shape = "mapping" /\ fields.enabled = "absent" /\ fields.reason = "absent"
        /\ fields.severity = "absent" /\ fields.extra = FALSE
        /\ fields.exclude = Names(services(r))
    BY DEF NoFields
  <2> HIDE DEF fields
  <2>5. ~Malformed(fields)
    BY <2>4 DEF Malformed, Off, Names
  <2>6. Warned(blocks[i]) = {}
    BY <2>2, <2>3, <2>4 DEF Warned, Off
  <2> QED
    BY <2>3, <2>4, <2>5, <2>6
<1> QED
  BY <1>1, <1>3, <1>5 DEF text, services, Numbered

(* Two spellings of two are both.                                          *)
LEMMA TwoAreBoth ==
  ASSUME NEW slots, slots \subseteq {<<"project", 1>>, <<"project", 2>>},
         Cardinality(slots) = 2
  PROVE  slots = {<<"project", 1>>, <<"project", 2>>}
<1>1. Cardinality({}) = 0
  BY FS_EmptySet
<1>2. \A x : Cardinality({x}) = 1
  BY FS_Singleton
<1>3. \/ slots = {} \/ slots = {<<"project", 1>>} \/ slots = {<<"project", 2>>}
      \/ slots = {<<"project", 1>>, <<"project", 2>>}
  OBVIOUS
<1>4. CASE slots = {}
  BY <1>1, <1>4
<1>5. ASSUME NEW x, slots = {x}
      PROVE  FALSE
  <2>1. Cardinality(slots) = 1
    BY <1>2, <1>5
  <2> QED
    BY <2>1
<1> QED
  BY <1>3, <1>4, <1>5

(* A check of the same file finds the standing baseline before any other   *)
(* config, and both spellings only where the directory had both before.    *)
LEMMA StandingFound ==
  ASSUME BaselineInv, Standing
  PROVE  /\ out \in Slot /\ Discover(Present, project.together) = out
         /\ BothSpellings(Present, project.together) => DirectoryHadBoth
<1> DEFINE before == PresentIn(FirstPresent, "project")
           now == PresentIn(Present, "project")
<1>1. /\ disk[out].kind = "file" /\ project.together \in BOOLEAN
      /\ out = IF before = {} THEN <<"project", 1>> ELSE FirstIn(before)
  BY InitAssumption DEF BaselineInv, PolicyInv, Entry
<1>2. before # {} => FirstIn(before) \in before
  BY FirstInIsIn DEF FirstPresent, PresentIn
<1>3. out \in Slot /\ out[1] = "project" /\ (before # {} => out \in before)
  BY <1>1, <1>2 DEF FirstPresent, PresentIn, Slot
<1>4. At(out) = out /\ (\A p \in Place \ {out} : disk[p] = first[p])
  BY <1>3, PlacesDiffer DEF At, BaselineInv, PolicyInv, PolicyKeptOrSaid, Standing
<1>5. Present = FirstPresent \cup {out}
  BY <1>1, <1>3, <1>4, PlacesDiffer DEF Present, Exists, FirstPresent
<1>6. now = before \cup {out}
  BY <1>3, <1>5 DEF PresentIn
<1>7. now = IF before = {} THEN {out} ELSE before
  BY <1>3, <1>6
<1>8. FirstIn(now) = out
  <2>1. CASE before = {}
    BY <1>7, <2>1, FirstInIsIn, <1>3
  <2>2. CASE before # {}
    BY <1>1, <1>7, <2>2
  <2> QED
    BY <2>1, <2>2
<1>9. Discover(Present, project.together) = out
  BY <1>1, <1>6, <1>8, DiscoverNearest DEF Present
<1>10. ASSUME BothSpellings(Present, project.together)
       PROVE  DirectoryHadBoth
  <2>1. Cardinality(now) = 2
    BY <1>3, <1>9, <1>10 DEF BothSpellings
  <2>2. now \subseteq {<<"project", 1>>, <<"project", 2>>}
    BY DEF PresentIn, Present, Slot
  <2>3. now = {<<"project", 1>>, <<"project", 2>>}
    BY <2>1, <2>2, TwoAreBoth
  <2>4. before # {}
    <3> SUFFICES ASSUME before = {}
                 PROVE  FALSE
      OBVIOUS
    <3>1. now = {<<"project", 1>>}
      BY <1>1, <1>7
    <3>2. <<"project", 2>> \in now
      BY <2>3
    <3>3. <<"project", 2>> = <<"project", 1>>
      BY <3>1, <3>2
    <3> QED
      BY <3>3
  <2>5. <<"project", 1>> \in FirstPresent /\ <<"project", 2>> \in FirstPresent
    BY <1>7, <2>3, <2>4 DEF PresentIn
  <2> QED
    BY <2>5 DEF DirectoryHadBoth, FirstPresent
<1> QED
  BY <1>3, <1>9, <1>10

LEMMA RaisesTyped ==
  ASSUME project \in Projects, NEW no_env \in BOOLEAN
  PROVE  Raises(no_env) \subseteq [rule : Rule, service : project.seen, severity : Level]
BY InitAssumption DEF Raises

(* The check accepts the standing baseline, unless it is strict and the    *)
(* directory had both spellings.                                           *)
LEMMA StandingAccepted ==
  ASSUME BaselineInv, Standing, ReadConfig
  PROVE  \/ /\ pc' = "scan"
            /\ \E both \in BOOLEAN :
                 config' = Tables(RenderConfig(Raises(flags.no_env)), both)
         \/ pc' = "done" /\ asked.strict /\ DirectoryHadBoth
<1> DEFINE slot == Discover(Present, project.together)
           both == BothSpellings(Present, project.together)
           policy == RenderConfig(Raises(flags.no_env))
           failed == \/ policy.read \notin {"empty", "mapping"}
                     \/ Repeats(policy.blocks)
                     \/ \E i \in DOMAIN policy.blocks : Malformed(policy.blocks[i].fields)
                     \/ asked.strict /\ Warnings(policy, both) # {}
           read == LoadConfig(policy, both, asked.strict)
<1>1. slot = out /\ out \in Slot /\ (both => DirectoryHadBoth)
  BY StandingFound
<1>2. slot # NoSlot
  BY <1>1 DEF Slot, NoSlot
<1>3. disk[slot].text = policy
  BY <1>1 DEF BaselineInv, Entry
<1>4. /\ config' = read /\ pc' = IF read.error THEN "done" ELSE "scan"
  BY <1>2, <1>3 DEF ReadConfig, Checked
<1>5. /\ policy.read = "mapping" /\ policy.extra = FALSE /\ ~Repeats(policy.blocks)
      /\ \A i \in DOMAIN policy.blocks :
           ~Malformed(policy.blocks[i].fields) /\ Warned(policy.blocks[i]) = {}
  BY BaselineReads, RaisesTyped DEF BaselineInv, PolicyInv
<1>6. read = IF failed THEN [NoConfig EXCEPT !.error = TRUE] ELSE Tables(policy, both)
  BY DEF LoadConfig
<1>7. both \in BOOLEAN
  BY DEF BothSpellings
<1> HIDE DEF policy
<1>8. ~both => Warnings(policy, both) = {}
  BY <1>5 DEF Warnings
<1>9. failed => asked.strict /\ both
  BY <1>5, <1>8
<1> HIDE DEF failed, both, read
<1>10. CASE failed
  <2>1. read.error = TRUE
    BY <1>6, <1>10 DEF NoConfig
  <2> QED
    BY <1>1, <1>4, <1>9, <1>10, <2>1
<1>11. CASE ~failed
  <2>1. read = Tables(policy, both) /\ read.error = FALSE
    BY <1>6, <1>11 DEF Tables
  <2> QED
    BY <1>4, <1>7, <2>1 DEF policy
<1> QED
  BY <1>10, <1>11

(* Under the standing baseline every finding is suppressed, and nothing it *)
(* names is unknown.                                                       *)
LEMMA StandingSuffices ==
  ASSUME BaselineInv, Scan, pc = "scan"
  PROVE  BaselineSuffices'
<1>1. /\ UNCHANGED <<project, crashing, flags, asked, disk, first, unattended, out>>
  BY DEF Scan, Checked, given, shared
<1>2. SUFFICES ASSUME Standing, asked.no_env = flags.no_env
               PROVE  /\ verdict'.code = IF project.gap THEN 2 ELSE 0
                      /\ verdict'.active = {}
                      /\ verdict'.suppressed = Raises(asked.no_env)
  <2>1. Standing' => Standing
    BY <1>1 DEF Standing, Written, At
  <2> QED
    BY <1>1, <1>2, <2>1 DEF BaselineSuffices, Standing, Raises
<1> DEFINE raised == Raised(asked.no_env)
           quiet == {f \in raised : f.rule \in config.disabled \/ Excludes(f)}
           stale == UnknownExcluded(config, project.seen)
           text == RenderConfig(Raises(flags.no_env))
           blocks == text.blocks
<1>3. PICK both \in BOOLEAN : config = Tables(text, both)
  BY <1>2 DEF BaselineInv
<1>4. Raises(flags.no_env) \subseteq [rule : Rule, service : project.seen, severity : Level]
  BY RaisesTyped DEF BaselineInv, PolicyInv
<1>5. /\ Numbered(text) /\ ~Repeats(blocks)
      /\ \A i \in DOMAIN blocks :
           blocks[i].fields.exclude = Names(ServicesOf(Raises(flags.no_env), blocks[i].rule))
      /\ {blocks[i].rule : i \in DOMAIN blocks} = {f.rule : f \in Raises(flags.no_env)}
  BY <1>4, BaselineReads
<1>6. crashing = {} /\ ~Over(asked.no_env) /\ raised = Raises(flags.no_env)
  BY <1>2 DEF BaselineInv, Standing, Swept, Raised, Raises
<1>7. \A i \in DOMAIN blocks :
        /\ blocks[i].rule \in DOMAIN config.excluded
        /\ config.excluded[blocks[i].rule] = ServicesOf(Raises(flags.no_env), blocks[i].rule)
  <2>1. \A names : Names(names) # NoNames /\ Names(names).names = names
    BY DEF Names, NoNames
  <2> QED
    BY <1>3, <1>5, <2>1, TablesSay
<1>8. \A r \in DOMAIN config.excluded : \E i \in DOMAIN blocks : blocks[i].rule = r
  BY <1>3, <1>5, TablesSayNoMore
<1>9. quiet = raised
  BY <1>5, <1>6, <1>7 DEF Excludes, ServicesOf
<1>10. stale = {}
  BY <1>4, <1>7, <1>8 DEF UnknownExcluded, ServicesOf
<1>11. verdict' = [suppressed |-> quiet,
                   active |-> {Regraded(f) : f \in raised \ quiet},
                   code |-> IF \/ project.gap \/ Over(asked.no_env) \/ crashing # {}
                               \/ asked.strict /\ stale # {}
                            THEN 2 ELSE IF raised \ quiet # {} THEN 1 ELSE 0]
  BY DEF Scan
<1> HIDE DEF raised, quiet, stale
<1> QED
  BY <1>2, <1>6, <1>9, <1>10, <1>11

LEMMA BaselineInvInit == Init => BaselineInv
<1> SUFFICES ASSUME Init PROVE BaselineInv
  OBVIOUS
<1>1. ~Written /\ pc = "plan"
  BY DEF Init, Written
<1> QED
  BY <1>1, PolicyInvInit DEF Init, BaselineInv, Standing, BaselineSuffices

LEMMA BaselineInvStep == BaselineInv /\ [Next]_vars => BaselineInv'
<1> SUFFICES ASSUME BaselineInv, [Next]_vars PROVE BaselineInv'
  OBVIOUS
<1>a. UNCHANGED <<project, crashing, flags, asked>>
  BY DEF Next, vars, given, Refused, Plan, Unloaded, Grade, Choose, Guard, Note, Write,
         WriteFails, ReadConfig, Scan, Save, Done, Unwritten, Checked
<1>b. PolicyInv'
  BY PolicyInvStep DEF BaselineInv
<1>c. (Swept <=> Swept') /\ Raises(flags.no_env)' = Raises(flags.no_env)
  BY <1>a DEF Swept, Over, Raised, Raises
<1>d. FirstPresent' = FirstPresent \/ first' # first
  BY DEF FirstPresent
<1>1. CASE Refused \/ Plan \/ Unloaded \/ Guard \/ Note \/ WriteFails
  <2>1. UNCHANGED <<disk, first, unattended, findings, out>>
    BY <1>1 DEF Refused, Plan, Unloaded, Guard, Note, WriteFails, Unwritten, shared
  <2>2. \/ pc' \in {"left", "load"}
        \/ pc \in {"guard", "note"} /\ pc' \in {"left", "note", "write"}
    BY <1>1 DEF Refused, Plan, Unloaded, Guard, Note, WriteFails, Leave
  <2>3. pc' # "scan" /\ pc' # "done"
    BY <2>2
  <2>4. (Written' => Written) /\ (Standing' => Standing)
    BY <1>a, <2>1 DEF Written, Standing, At
  <2>5. BaselineSuffices'
    BY <2>3 DEF BaselineSuffices
  <2> QED
    BY <1>a, <1>b, <1>c, <1>d, <2>1, <2>2, <2>3, <2>4, <2>5 DEF BaselineInv
<1>2. CASE Grade
  <2>1. /\ UNCHANGED <<disk, first, unattended, out>>
        /\ pc = "load" /\ pc' \in {"choose", "left"}
        /\ pc' = "choose" => Swept
        /\ findings' = IF Over(flags.no_env) THEN {} ELSE Raised(flags.no_env)
    BY <1>2 DEF Grade, Unwritten, shared, Leave
  <2>2. pc' = "choose" => findings' = Raises(flags.no_env)
    BY <2>1 DEF Swept, Raised, Raises
  <2>3. ~Written'
    BY <1>b, <2>1 DEF PolicyInv, BaselineInv, Written
  <2>4. BaselineSuffices' /\ ~Standing'
    BY <2>3 DEF BaselineSuffices, Standing
  <2> QED
    BY <1>a, <1>b, <1>c, <2>1, <2>2, <2>3, <2>4 DEF BaselineInv
<1>3. CASE Choose
  <2>1. /\ disk' = disk /\ findings' = findings
        /\ pc = "choose" /\ pc' \in {"guard", "left"} /\ out' = OutPath
    BY <1>3 DEF Choose, Leave, given
  <2>2. OutPath \in Place \cup {Respelled}
    BY DefaultIsPlace, InitAssumption DEF OutPath, BaselineInv, PolicyInv
  <2>3. At(out') \in Place
    BY <2>1, <2>2, PlacesDiffer DEF At, Solid
  <2>4. ~Written'
    BY <2>1, <2>3 DEF BaselineInv, PolicyInv, Written, At
  <2>5. BaselineSuffices' /\ ~Standing'
    BY <2>4 DEF BaselineSuffices, Standing
  <2> QED
    BY <1>a, <1>b, <1>c, <2>1, <2>4, <2>5 DEF BaselineInv
<1>4. CASE Write
  <2>1. /\ UNCHANGED <<first, unattended, out, findings>>
        /\ pc = "write" /\ pc' = "left"
        /\ disk' = [disk EXCEPT ![At(out)] =
                      Entry("file", Baseline, RenderConfig(findings), TRUE)]
    BY <1>4 DEF Write, Leave
  <2>2. Swept /\ findings = Raises(flags.no_env)
    BY <2>1 DEF BaselineInv
  <2>3. ASSUME Standing'
        PROVE  /\ disk'[out] = Entry("file", Baseline, RenderConfig(Raises(flags.no_env)), TRUE)
               /\ out = IF PresentIn(FirstPresent, "project") = {} THEN <<"project", 1>>
                        ELSE FirstIn(PresentIn(FirstPresent, "project"))
    <3>1. disk = first /\ out = DefaultOutput /\ DOMAIN disk = Place
      BY <1>a, <2>1, <2>3 DEF Standing, BaselineInv, PolicyInv
    <3>2. Present = FirstPresent
      BY <3>1 DEF Present, Exists, FirstPresent
    <3>3. out \in Place /\ At(out) = out
      BY <3>1, DefaultIsPlace, PlacesDiffer DEF At
    <3> QED
      BY <2>1, <2>2, <3>1, <3>2, <3>3 DEF DefaultOutput
  <2>4. BaselineSuffices'
    BY <2>1 DEF BaselineSuffices
  <2> QED
    BY <1>a, <1>b, <1>c, <1>d, <2>1, <2>2, <2>3, <2>4 DEF BaselineInv
<1>5. CASE ReadConfig
  <2>1. UNCHANGED <<disk, first, unattended, out, findings>> /\ pc' \in {"scan", "done"}
    BY <1>5 DEF ReadConfig, Checked, shared
  <2>2. (Written' => Written) /\ (Standing' <=> Standing) /\ DirectoryHadBoth' = DirectoryHadBoth
    BY <1>a, <2>1 DEF Written, Standing, At, DirectoryHadBoth
  <2>3. ASSUME Standing, pc' = "scan"
        PROVE  \E both \in BOOLEAN :
                 config' = Tables(RenderConfig(Raises(flags.no_env)), both)
    BY <1>5, <2>3, StandingAccepted
  <2>4. BaselineSuffices'
    <3>1. ASSUME Standing, pc' = "done" PROVE asked.strict /\ DirectoryHadBoth
      BY <1>5, <3>1, StandingAccepted
    <3> QED
      BY <1>a, <2>2, <3>1 DEF BaselineSuffices, Standing
  <2> QED
    BY <1>a, <1>b, <1>c, <1>d, <2>1, <2>2, <2>3, <2>4 DEF BaselineInv
<1>6. CASE Scan
  <2>1. UNCHANGED <<disk, first, unattended, out, findings>> /\ pc = "scan" /\ pc' = "done"
    BY <1>6 DEF Scan, Checked, shared
  <2>2. (Written' => Written) /\ (Standing' => Standing)
    BY <1>a, <2>1 DEF Written, Standing, At
  <2>3. BaselineSuffices'
    BY <1>6, <2>1, StandingSuffices
  <2> QED
    BY <1>a, <1>b, <1>c, <1>d, <2>1, <2>2, <2>3 DEF BaselineInv
<1>7. CASE Save
  <2>1. /\ UNCHANGED <<out, findings, pc>> /\ unattended' = FALSE
        /\ \A p \in Place : disk[p].node # Baseline => disk'[p].node # Baseline
    BY <1>7 DEF Save, BaselineInv, PolicyInv, Entry, Nothing, Unset, Baseline
  <2>2. Written' => Written
    BY <2>1, PlacesDiffer DEF Written, At, BaselineInv, PolicyInv, Solid
  <2>3. BaselineSuffices' /\ ~Standing'
    BY <2>1 DEF BaselineSuffices, Standing
  <2> QED
    BY <1>a, <1>b, <1>c, <2>1, <2>2, <2>3 DEF BaselineInv
<1>8. CASE Done \/ UNCHANGED vars
  <2>1. UNCHANGED vars
    BY <1>8 DEF Done
  <2>2. (Written' => Written) /\ (Standing' => Standing)
    BY <2>1 DEF vars, Written, Standing, At
  <2>3. BaselineSuffices'
    BY <2>1 DEF vars, BaselineInv, BaselineSuffices, Written, At, DirectoryHadBoth
  <2> QED
    BY <1>a, <1>b, <1>c, <1>d, <2>1, <2>2, <2>3 DEF BaselineInv, vars
<1> QED
  BY <1>1, <1>2, <1>3, <1>4, <1>5, <1>6, <1>7, <1>8 DEF Next

(* A baseline written where init puts it by default is good for the check  *)
(* it was written for, whatever the documents raise and whatever else is   *)
(* on the disk: every finding is suppressed, and only a gap is left to     *)
(* fail on (_run_init, load_config and run_rules together).                *)
THEOREM BaselineAlwaysSuffices == Spec => []BaselineSuffices
<1>1. BaselineInv => BaselineSuffices
  BY DEF BaselineInv
<1> QED
  BY <1>1, BaselineInvInit, BaselineInvStep, PTL DEF Spec
=============================================================================
