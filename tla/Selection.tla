----------------------------- MODULE Selection ------------------------------
(***************************************************************************)
(* Which documents a run grades: _selection.plan_documents over the paths  *)
(* named on the command line, or over what discovery finds, and the table  *)
(* by primary that check and fix make of the plan (ADR-025, ADR-026).      *)
(*                                                                         *)
(* A path is its normalised form (_key), and the spelling of a path in a   *)
(* report is not told apart from it. An entry of COMPOSE_FILE that is      *)
(* absolute or climbs out of the project is the entry Escape.              *)
(***************************************************************************)
EXTENDS Naturals, Sequences, SequencesExt

CONSTANTS
  Path,         \* the paths of the project
  Dir, Root,    \* its directories, and the one the run is in
  DirOf,        \* path -> its directory
  Canonical,    \* dir -> the compose file names Compose looks for, in order
  Overrides,    \* dir -> the override names it looks for, in order
  Escape,       \* a COMPOSE_FILE entry that leaves the project
  Named,        \* the command lines: sequences of paths, << >> for discovery
  Projects      \* the projects: [present, outside, env]

(* What a directory's `.env` comes to.                                     *)
EnvKind == {"absent", "unreadable", "silent", "list"}

ASSUME SelectionAssumption ==
  /\ Root \in Dir
  /\ DirOf \in [Path -> Dir]
  /\ Escape \notin Path
  /\ Named \subseteq Seq(Path)
  /\ \A d \in Dir : Canonical[d] \in Seq(Path) /\ Overrides[d] \in Seq(Path)
  /\ \A d \in Dir : \A i \in DOMAIN Canonical[d] : DirOf[Canonical[d][i]] = d
  /\ \A p \in Projects : p.present \subseteq Path
  /\ \A p \in Projects : \A d \in Dir :
       p.env[d].kind \in EnvKind /\ p.env[d].list \in Seq(Path \cup {Escape})

VARIABLES
  project,       \* what is on disk
  flags,         \* read_env_files, merge_overrides
  named,         \* the paths given
  at,            \* the one being planned
  groups,        \* the groups planned so far: [primary, overlays, by_env]
  planned,       \* the paths they cover
  gaps,          \* what was refused: <<what, path or directory>>
  phase,         \* "planning", "planned" or "graded"
  graded         \* what the run loads: [primary, overlays] for each file

vars == <<project, flags, named, at, groups, planned, gaps, phase, graded>>
given == <<project, flags, named>>

Init ==
  /\ project \in Projects
  /\ flags \in [read_env : BOOLEAN, merge : BOOLEAN]
  /\ named \in Named
  /\ at = 1
  /\ groups = << >>
  /\ planned = {}
  /\ gaps = {}
  /\ phase = "planning"
  /\ graded = << >>

(* Those of a sequence of paths that are in a set, in their order.         *)
Among(paths, set) ==
  LET upTo[i \in 0 .. Len(paths)] ==
        IF i = 0 THEN << >>
        ELSE IF paths[i] \in set THEN Append(upTo[i - 1], paths[i]) ELSE upTo[i - 1]
  IN  upTo[Len(paths)]

Covers(g) == {g.primary} \cup ToSet(g.overlays)

-----------------------------------------------------------------------------
(* One directory's COMPOSE_FILE, and one file's override.                  *)

(* _links_outside: a file that is there, and is a link out of the          *)
(* repository.                                                             *)
LinksOutside(p) == p \in project.present /\ p \in project.outside

(* _resolve_entry: None.                                                   *)
Refused(entry) == entry \notin project.present \/ LinksOutside(entry)

Env(d) == IF flags.read_env THEN project.env[d] ELSE [kind |-> "absent", list |-> << >>]

Lists(d) == Env(d).kind = "list" /\ Env(d).list # << >>

(* Mutant: a list is honoured as far as it can be.                         *)
SelectedInPart(d) ==
  IF Lists(d) THEN SelectSeq(Env(d).list, LAMBDA e : ~Refused(e)) ELSE << >>

(* _compose_file_entries: a refused entry refuses the whole list, and no   *)
(* list is the empty one here.                                             *)
Selected(d) ==
  IF Lists(d) /\ \A i \in DOMAIN Env(d).list : ~Refused(Env(d).list[i])
  THEN Env(d).list ELSE << >>

(* Mutant: a `.env` that cannot be read is one that is not there.          *)
EnvGapsIfRead(d) ==
  IF Lists(d) /\ Selected(d) = << >> THEN {<<"env", d>>} ELSE {}

EnvGaps(d) ==
  IF Env(d).kind = "unreadable" \/ (Lists(d) /\ Selected(d) = << >>)
  THEN {<<"env", d>>} ELSE {}

(* The override Compose would merge into a base: the first there is.       *)
Beside(p) ==
  IF flags.merge /\ p \in ToSet(Canonical[DirOf[p]])
  THEN Among(Overrides[DirOf[p]], project.present) ELSE << >>

(* _with_override: one that links outside is not merged, and is a gap.     *)
Overlay(p) ==
  IF Beside(p) = << >> \/ LinksOutside(Beside(p)[1]) THEN << >> ELSE <<Beside(p)[1]>>

OverrideGaps(p) ==
  IF Beside(p) # << >> /\ LinksOutside(Beside(p)[1])
  THEN {<<"override", Beside(p)[1]>>} ELSE {}

AloneGroup(p) == [primary |-> p, overlays |-> Overlay(p), by_env |-> FALSE]

EnvGroup(list) == [primary |-> list[1], overlays |-> Tail(list), by_env |-> TRUE]

-----------------------------------------------------------------------------
Advance == at' = at + 1

Planning == phase = "planning" /\ at \in DOMAIN named

(* A path some group already covers.                                       *)
Repeat ==
  /\ Planning
  /\ named[at] \in planned
  /\ Advance
  /\ UNCHANGED <<given, groups, planned, gaps, phase, graded>>

Refuse ==
  /\ Planning
  /\ named[at] \notin planned
  /\ LinksOutside(named[at])
  /\ gaps' = gaps \cup {<<"file", named[at]>>}
  /\ Advance
  /\ UNCHANGED <<given, groups, planned, phase, graded>>

(* Mutant: the directory's list replaces whatever was named.               *)
GroupForByList(p) ==
  IF Selected(DirOf[p]) # << >> THEN EnvGroup(Selected(DirOf[p])) ELSE AloneGroup(p)

(* The project the `.env` describes if it contains the path, and otherwise *)
(* the path on its own, whatever the list says (ADR-026 section 4).        *)
GroupFor(p) ==
  IF p \in ToSet(Selected(DirOf[p])) THEN EnvGroup(Selected(DirOf[p])) ELSE AloneGroup(p)

PlanNamed ==
  /\ Planning
  /\ named[at] \notin planned
  /\ ~LinksOutside(named[at])
  /\ LET p == named[at]
         g == GroupFor(p)
     IN  /\ groups' = Append(groups, g)
         /\ planned' = planned \cup Covers(g)
         /\ gaps' = gaps \cup EnvGaps(DirOf[p])
                      \cup (IF g.by_env THEN {} ELSE OverrideGaps(p))
  /\ Advance
  /\ UNCHANGED <<given, phase, graded>>

(* _plan_discovered: the list of the working directory, or every compose   *)
(* file name that is there.                                                *)
Discover ==
  /\ phase = "planning" /\ named = << >>
  /\ LET there == Among(Canonical[Root], project.present)
         found == Among(there, {p \in Path : ~LinksOutside(p)})
     IN  IF Selected(Root) # << >>
         THEN /\ groups' = <<EnvGroup(Selected(Root))>>
              /\ gaps' = EnvGaps(Root)
         ELSE /\ groups' = [i \in DOMAIN found |-> AloneGroup(found[i])]
              /\ gaps' = EnvGaps(Root)
                           \cup {<<"file", p>> : p \in ToSet(there) \ ToSet(found)}
                           \cup UNION {OverrideGaps(p) : p \in ToSet(found)}
  /\ planned' = UNION {Covers(g) : g \in ToSet(groups')}
  /\ phase' = "planned"
  /\ UNCHANGED <<given, at, graded>>

Planned ==
  /\ phase = "planning" /\ named # << >> /\ at \notin DOMAIN named
  /\ phase' = "planned"
  /\ UNCHANGED <<given, at, groups, planned, gaps, graded>>

(* overlay_of: primary -> overlays, for the groups that have any. A later  *)
(* group takes the place of an earlier one with the same primary.          *)
OverlayOf(primary) ==
  LET with == {i \in DOMAIN groups : groups[i].primary = primary /\ groups[i].overlays # << >>}
      last == CHOOSE i \in with : \A j \in with : j <= i
  IN  IF with = {} THEN << >> ELSE groups[last].overlays

(* args.files and what each is merged with, in _run_check and _run_fix.    *)
Grade ==
  /\ phase = "planned"
  /\ graded' = [i \in DOMAIN groups |->
                  [primary |-> groups[i].primary,
                   overlays |-> OverlayOf(groups[i].primary)]]
  /\ phase' = "graded"
  /\ UNCHANGED <<given, at, groups, planned, gaps>>

Next == Repeat \/ Refuse \/ PlanNamed \/ Discover \/ Planned \/ Grade

Spec == Init /\ [][Next]_vars
-----------------------------------------------------------------------------
(* Properties.                                                             *)

TypeOK ==
  /\ at \in 1 .. Len(named) + 1
  /\ \A i \in DOMAIN groups :
       groups[i].primary \in Path /\ ToSet(groups[i].overlays) \subseteq Path
  /\ planned \subseteq Path
  /\ \A g \in gaps : \/ g[1] = "env" /\ g[2] \in Dir
                     \/ g[1] \in {"file", "override"} /\ g[2] \in Path
  /\ phase \in {"planning", "planned", "graded"}

(* ADR-026 section 4: whatever the project's own `.env` lists, every file  *)
(* named on the command line is in some group of the plan, or was refused  *)
(* as a link out of the repository and reported as a gap.                  *)
NamedPlanned ==
  phase # "planning" =>
    \A i \in DOMAIN named :
      \/ \E j \in DOMAIN groups : named[i] \in Covers(groups[j])
      \/ LinksOutside(named[i]) /\ <<"file", named[i]>> \in gaps

(* A partly honoured COMPOSE_FILE is a set Compose never loads: a group    *)
(* the `.env` chose is the whole list of one directory, and every entry of *)
(* it is there (_compose_file_entries).                                    *)
ListsWhole ==
  \A i \in DOMAIN groups : groups[i].by_env =>
    \E d \in Dir : /\ project.env[d].kind = "list"
                   /\ project.env[d].list = <<groups[i].primary>> \o groups[i].overlays
                   /\ Covers(groups[i]) \subseteq project.present

(* Fails closed: a run that went without something Compose would have used *)
(* for a group it grades, a list or an override, has that as a gap.        *)
ForgoneIsGap ==
  phase # "planning" =>
    \A i \in DOMAIN groups : ~groups[i].by_env =>
      LET p == groups[i].primary
          d == DirOf[p]
      IN  /\ flags.read_env /\ (\/ project.env[d].kind = "unreadable"
                                \/ project.env[d].kind = "list"
                                     /\ \E k \in DOMAIN project.env[d].list :
                                          Refused(project.env[d].list[k]))
               => <<"env", d>> \in gaps
          /\ groups[i].overlays = << >> /\ Beside(p) # << >>
               => <<"override", Beside(p)[1]>> \in gaps

(* "A named file is never dropped": every file the plan covers is in what  *)
(* the run loads.                                                          *)
NamedGraded ==
  phase = "graded" =>
    \A i \in DOMAIN named :
      \/ \E j \in DOMAIN graded : named[i] \in Covers(graded[j])
      \/ LinksOutside(named[i])
=============================================================================
