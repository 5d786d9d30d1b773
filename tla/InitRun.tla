------------------------------ MODULE InitRun -------------------------------
(***************************************************************************)
(* `compose-lint init FILE` and the `check FILE` its baseline is for:      *)
(* cli._run_init from the plan to the write (ADR-011), what may be in the  *)
(* place it writes to, and the configuration the check then runs under     *)
(* (ADR-039), with somebody saving or deleting a config at any step.       *)
(*                                                                         *)
(* A project is what planning, loading and grading FILE come to; how they  *)
(* come to it is in Selection, Load and RuleEngine, and what a crash of    *)
(* this process leaves on disk is in FixRun, whose _atomic_write this is.  *)
(***************************************************************************)
EXTENDS ConfigFile

CONSTANTS
  Projects,     \* what FILE may lead to
  Disks,        \* what may be at each place before the run
  Policies,     \* what somebody may save as a config
  Outputs,      \* where -o may point, or Default
  Crashing,     \* the sets of rules that may crash on the documents
  MaxFindings,  \* the findings a sweep may raise (max_findings)
  MaxSaves      \* bound: how often somebody saves or deletes a config

(* Places a path can lead to that hold no config: the primary document, an *)
(* overlay or an included document, and a place of no meaning.             *)
Doc == <<"doc", 0>>
Part == <<"part", 0>>
Elsewhere == <<"elsewhere", 0>>
Place == Slot \cup {Doc, Part, Elsewhere}

(* A second spelling of the path of the primary document.                  *)
Respelled == <<"respelled", 0>>
At(path) == IF path = Respelled THEN Doc ELSE path

Default == <<"default", 0>>
Unset == <<"none", 0>>

(* What is at a place: nothing, a file by one of its names, a symbolic     *)
(* link to a file, or a link to nothing. `node` tells files apart.         *)
Entry(kind, node, text, writable) ==
  [kind |-> kind, node |-> node, text |-> text, writable |-> writable]
NoText == [read |-> "gone", extra |-> FALSE, blocks |-> << >>]
Nothing == Entry("none", Unset, NoText, TRUE)
Baseline == <<"baseline", 0>>

ASSUME InitAssumption ==
  /\ MaxFindings \in Nat /\ MaxSaves \in Nat
  /\ Outputs \subseteq Place \cup {Default, Respelled}
  /\ \A c \in Crashing : c \subseteq Rule
  /\ \A p \in Projects :
       /\ p.together \in BOOLEAN
       /\ p.plan \in {"group", "refused"}
       /\ p.load \in {"ok", "inapplicable", "broken"} /\ p.gap \in BOOLEAN
       /\ p.seen \subseteq Name
       /\ \A env \in BOOLEAN :
            p.raises[env] \subseteq [rule : Rule, service : p.seen, severity : Level]
  /\ \A d \in Disks :
       /\ DOMAIN d = Place
       /\ \A i \in {Doc, Part}, p \in Place :
            d[p].node = d[i].node => d[p].kind \in {"file", "link"}
       /\ \A p \in Place : d[p].node # Baseline
       /\ \A p \in Place : d[p].kind \in {"none", "file", "link", "dangling"}
       /\ \A p \in Place : d[p].text.blocks \in Seq(ToSet(d[p].text.blocks))
  /\ \A text \in Policies : text.blocks \in Seq(ToSet(text.blocks))

VARIABLES
  project, crashing,
  flags,       \* init's: [output, force, no_env]
  disk,        \* place -> what is there
  pc,
  findings,    \* what the sweep raised
  out,         \* out_path
  noted,       \* _note_config_shadowed spoke
  code,        \* the exit code of init
  asked,       \* the check's flags: [strict, no_env]
  in_force,    \* the text the check read
  config,      \* what load_config made of it
  warned,      \* every config diagnostic of the check
  verdict,     \* the check's findings left to act on, and its exit code
  saves,       \* how often somebody saved or deleted a config
  first,       \* what was on the disk when init began to look at it
  unattended   \* nobody has touched a config since then

vars == <<project, crashing, flags, disk, pc, findings, out, noted, code, asked,
          in_force, config, warned, verdict, saves, first, unattended>>
given == <<project, crashing, flags, asked>>
checking == <<in_force, config, warned, verdict>>
shared == <<disk, saves, first, unattended>>

Unjudged == [suppressed |-> {}, active |-> {}, code |-> 0]

Init ==
  /\ project \in Projects
  /\ crashing \in Crashing
  /\ flags \in [output : Outputs, force : BOOLEAN, no_env : BOOLEAN]
  /\ asked \in [strict : BOOLEAN, no_env : BOOLEAN]
  /\ disk \in Disks
  /\ project.together => PresentIn({s \in Slot : disk[s] # Nothing}, "run") = {}
  /\ pc = "plan"
  /\ findings = {}
  /\ out = Unset
  /\ noted = FALSE
  /\ code = 0
  /\ in_force = NoText
  /\ config = NoConfig
  /\ warned = {}
  /\ verdict = Unjudged
  /\ saves = 0
  /\ first = disk
  /\ unattended = TRUE

-----------------------------------------------------------------------------
(* Questions the code asks the file system.                                *)

(* Path.exists follows links, and a link to nothing is not there.          *)
Exists(place) == disk[place].kind \in {"file", "link"}

Present == {slot \in Slot : Exists(slot)}

(* _refuses_write.                                                         *)
RefusesWrite(place) == Exists(place) /\ ~disk[place].writable

(* The names a file has; one that is reached through a link has them too.  *)
Links(place) ==
  Cardinality({p \in Place : disk[p].kind = "file" /\ disk[p].node = disk[place].node})

(* lstat in _atomic_write: a link, or a file of several names, is refused. *)
Replaceable(place) ==
  \/ disk[place].kind = "none"
  \/ disk[place].kind = "file" /\ Links(place) = 1

(* The documents whose lines the load recorded.                            *)
Inputs == {Doc, Part}

(* Mutant: compares the paths as they are written.                         *)
IsAnInputByPath(path) == Exists(At(path)) /\ path \in Inputs

(* _is_an_input: samefile, so a link or another spelling counts.           *)
IsAnInput(path) ==
  Exists(At(path)) /\ \E i \in Inputs : disk[i].node = disk[At(path)].node

-----------------------------------------------------------------------------
(* init.                                                                   *)

Leave(n) == pc' = "left" /\ code' = n

Unwritten == UNCHANGED <<given, shared, checking, noted>>

(* A file that was refused has no group.                                   *)
Refused ==
  /\ pc = "plan" /\ project.plan = "refused"
  /\ Leave(2)
  /\ Unwritten /\ UNCHANGED <<findings, out>>

Plan ==
  /\ pc = "plan" /\ project.plan = "group"
  /\ pc' = "load"
  /\ Unwritten /\ UNCHANGED <<findings, out, code>>

(* A v1 or fragment file is skipped (ADR-013), any other failure is not.   *)
Unloaded ==
  /\ pc = "load" /\ project.load # "ok"
  /\ Leave(IF project.load = "inapplicable" THEN 0 ELSE 2)
  /\ Unwritten /\ UNCHANGED <<findings, out>>

(* The raw sweep: no config. A crash loses the findings of its rule; a     *)
(* gap in the documents is reported and does not stop init.                *)
Raised(no_env) == {f \in project.raises[~no_env] : f.rule \notin crashing}

Over(no_env) == Cardinality(Raised(no_env)) > MaxFindings

(* Mutant: a crash is a note.                                              *)
SweptIfBounded == ~Over(flags.no_env)

Swept == ~Over(flags.no_env) /\ crashing = {}

Grade ==
  /\ pc = "load" /\ project.load = "ok"
  /\ findings' = IF Over(flags.no_env) THEN {} ELSE Raised(flags.no_env)
  /\ IF Swept THEN pc' = "choose" /\ UNCHANGED code
              ELSE Leave(2)
  /\ Unwritten /\ UNCHANGED out

(* _init_default_output: an existing config beside the primary document,   *)
(* else the first spelling.                                                *)
DefaultOutput ==
  LET there == PresentIn(Present, "project")
  IN  IF there = {} THEN <<"project", 1>> ELSE FirstIn(there)

OutPath == IF flags.output = Default THEN DefaultOutput ELSE flags.output

(* The first look at the disk: where the baseline goes, if there is one.   *)
Choose ==
  /\ pc = "choose"
  /\ out' = OutPath
  /\ IF findings = {} THEN Leave(0)
                      ELSE pc' = "guard" /\ UNCHANGED code
  /\ first' = disk /\ unattended' = TRUE
  /\ UNCHANGED <<given, disk, saves, checking, noted, findings>>

(* The three refusals; the first stands against --force.                   *)
RefusedOutput ==
  \/ IsAnInput(out)
  \/ Exists(At(out)) /\ ~flags.force
  \/ RefusesWrite(At(out))

Guard ==
  /\ pc = "guard"
  /\ IF RefusedOutput THEN Leave(2)
                      ELSE pc' = "note" /\ UNCHANGED code
  /\ Unwritten /\ UNCHANGED <<findings, out>>

(* Mutant: nobody is told.                                                 *)
ShadowsNone == FALSE

(* _note_config_shadowed, for a default output beside a file of another    *)
(* directory that has no config: what the run directory's own config is.   *)
Shadows ==
  /\ flags.output = Default
  /\ ~project.together
  /\ ~Exists(out)
  /\ PresentIn(Present, "run") # {}

Note ==
  /\ pc = "note"
  /\ noted' = Shadows
  /\ pc' = "write"
  /\ UNCHANGED <<given, shared, checking, findings, out, code>>

(* _atomic_write: the new file is a file of its own.                       *)
Write ==
  /\ pc = "write" /\ Replaceable(At(out))
  /\ disk' = [disk EXCEPT ![At(out)] =
                Entry("file", Baseline, RenderConfig(findings), TRUE)]
  /\ Leave(0)
  /\ UNCHANGED <<given, checking, saves, first, unattended, noted, findings, out>>

(* A link or a file of several names, or the disk: an OSError.             *)
WriteFails ==
  /\ pc = "write"
  /\ Leave(2)
  /\ Unwritten /\ UNCHANGED <<findings, out>>

-----------------------------------------------------------------------------
(* check, of the same file, later. It may run where init never has.        *)

Checked(next) ==
  /\ pc' = next
  /\ UNCHANGED <<given, shared, findings, out, noted, code>>

(* load_config: a file found is contained, so a link out of the repository *)
(* is a text that reads "outside".                                         *)
ReadConfig ==
  /\ pc \in {"plan", "left"}
  /\ project.plan = "group" /\ project.load = "ok"
  /\ LET slot == Discover(Present, project.together)
         read == IF slot = NoSlot THEN NoConfig
                 ELSE LoadConfig(disk[slot].text,
                                 BothSpellings(Present, project.together), asked.strict)
     IN  /\ in_force' = IF slot = NoSlot THEN NoText ELSE disk[slot].text
         /\ config' = read
         /\ warned' = read.warnings
         /\ verdict' = [Unjudged EXCEPT !.code = IF read.error THEN 2 ELSE 0]
         /\ Checked(IF read.error THEN "done" ELSE "scan")

(* run_rules: disabled, or excluded by the name the finding carries.       *)
Excludes(f) ==
  f.rule \in DOMAIN config.excluded /\ f.service \in config.excluded[f.rule]

Regraded(f) == IF f.rule \in DOMAIN config.overrides \ config.disabled
               THEN [f EXCEPT !.severity = config.overrides[f.rule]]
               ELSE f

(* The sweep under that config, the diagnostic that had to wait for it,    *)
(* and the exit code, with the threshold at the lowest severity.           *)
Scan ==
  /\ pc = "scan"
  /\ LET raised == Raised(asked.no_env)
         quiet == {f \in raised : f.rule \in config.disabled \/ Excludes(f)}
         stale == UnknownExcluded(config, project.seen)
         failed == \/ project.gap \/ Over(asked.no_env) \/ crashing # {}
                   \/ asked.strict /\ stale # {}
     IN  /\ warned' = warned \cup stale
         /\ verdict' = [suppressed |-> quiet,
                        active |-> {Regraded(f) : f \in raised \ quiet},
                        code |-> IF failed THEN 2
                                 ELSE IF raised \ quiet # {} THEN 1 ELSE 0]
  /\ UNCHANGED <<in_force, config>>
  /\ Checked("done")

-----------------------------------------------------------------------------
(* Somebody at an editor.                                                  *)

Save ==
  /\ pc # "done" /\ saves < MaxSaves
  /\ saves' = saves + 1
  /\ unattended' = FALSE
  /\ \E slot \in {s \in Slot : s[1] \in Searched(project.together)} :
       \/ \E text \in Policies :
            disk' = [disk EXCEPT ![slot] = Entry("file", <<"saved", saves>>, text, TRUE)]
       \/ /\ disk[slot].kind # "none"
          /\ disk' = [disk EXCEPT ![slot] = Nothing]
  /\ UNCHANGED <<given, pc, checking, first, findings, out, noted, code>>

(* The check is over, or there is none to be had of this file.             *)
Done ==
  /\ \/ pc = "done"
     \/ pc = "left" /\ (project.plan # "group" \/ project.load # "ok")
  /\ UNCHANGED vars

Next ==
  \/ Refused \/ Plan \/ Unloaded \/ Grade \/ Choose \/ Guard \/ Note
  \/ Write \/ WriteFails
  \/ ReadConfig \/ Scan
  \/ Save \/ Done

Spec == Init /\ [][Next]_vars

-----------------------------------------------------------------------------
(* Properties.                                                             *)

(* The type invariant: every variable of the run keeps its type, and the   *)
(* output, once chosen, is a place.                                        *)
TypeOK ==
  /\ project \in Projects /\ crashing \in Crashing
  /\ flags \in [output : Outputs, force : BOOLEAN, no_env : BOOLEAN]
  /\ asked \in [strict : BOOLEAN, no_env : BOOLEAN]
  /\ DOMAIN disk = Place /\ DOMAIN first = Place
  /\ \A p \in Place : disk[p].kind \in {"none", "file", "link", "dangling"}
  /\ pc \in {"plan", "load", "choose", "guard", "note", "write", "left", "scan", "done"}
  /\ findings \subseteq UNION {project.raises[env] : env \in BOOLEAN}
  /\ out \in Place \cup {Unset, Respelled}
  /\ noted \in BOOLEAN /\ unattended \in BOOLEAN
  /\ code \in {0, 2} /\ verdict.code \in 0 .. 2
  /\ config.disabled \subseteq {in_force.blocks[i].rule : i \in DOMAIN in_force.blocks}
  /\ saves \in 0 .. MaxSaves

Written == out # Unset /\ disk[At(out)].node = Baseline

DirectoryHadBoth == \A spelling \in {1, 2} :
                      first[<<"project", spelling>>].kind \in {"file", "link"}

(* A baseline is good for the check it was written for (_run_init, and     *)
(* docs/configuration.md, "It grades what check grades"): where init       *)
(* without -o wrote one, check of the same file with the same flags finds  *)
(* that file before any other config, accepts it, strict or not, and has   *)
(* every finding of every rule suppressed by it and nothing to fail on.    *)
(* Nobody may have touched a config meanwhile; a directory that had both   *)
(* spellings before still has, which the strict run refuses; and a gap is  *)
(* no finding, so no baseline covers it.                                   *)
BaselineSuffices ==
  /\ pc = "done" /\ Written /\ unattended
  /\ flags.output = Default /\ asked.no_env = flags.no_env
  /\ ~ (asked.strict /\ DirectoryHadBoth)
  => /\ verdict.code = IF project.gap THEN 2 ELSE 0
     /\ verdict.active = {}
     /\ verdict.suppressed = project.raises[~asked.no_env]

(* init never replaces a document it graded, under any of its names, nor   *)
(* parts one name of it from the others, with --force or without, however  *)
(* -o spells it (_is_an_input).                                            *)
InputsKept ==
  \A p \in Place \ Slot :
    (\E i \in Inputs : first[p].node = first[i].node) => disk[p] = first[p]

FirstInForce ==
  Discover({slot \in Slot : first[slot].kind \in {"file", "link"}}, project.together)

(* A policy does not go out of force unsaid: after init without -o, the    *)
(* config that was in force for the project is in force with the text it   *)
(* had, or --force let the baseline replace it, or it was the run          *)
(* directory's, is untouched, and init said that it no longer applies; and *)
(* init says so of no other. With -o and without --force, nothing that was *)
(* there has been replaced. Somebody else's save meanwhile is their own.   *)
PolicyKeptOrSaid ==
  Written /\ unattended =>
    /\ ~flags.force => first[At(out)].kind = "none"
    /\ flags.output = Default =>
         (noted <=> FirstInForce # NoSlot /\ FirstInForce # out)
    /\ \A p \in Place \ {At(out)} : disk[p] = first[p]

Findings == project.raises[~asked.no_env]

(* What a config asks for is in force or is complained of, and nothing is  *)
(* in force that it does not ask for (load_config, run_rules and           *)
(* warn_unknown_excluded_services together): when a check reaches a        *)
(* verdict, exactly the findings some block of the file turns off or       *)
(* excludes are suppressed, each severity asked for is the one its rule's  *)
(* findings fail with, and a request for a rule or a name there is none of *)
(* was diagnosed, by failing if the run is strict.                         *)
RequestsKept ==
  pc = "done" /\ verdict.code # 2 =>
    /\ verdict.suppressed =
         {f \in Findings : \E i \in DOMAIN in_force.blocks :
            LET block == in_force.blocks[i]
            IN  /\ block.rule = f.rule
                /\ Off(block.fields) \/ f.service \in block.fields.exclude.names}
    /\ \A i \in DOMAIN in_force.blocks :
         LET block == in_force.blocks[i]
             active == {f \in verdict.active : f.rule = block.rule}
         IN  /\ block.fields.severity # "absent" =>
                  \/ \A f \in active : f.severity = block.fields.severity /\ ~Off(block.fields)
                  \/ <<"severity-on-disabled-rule", block.rule>> \in warned
             /\ block.rule \in Rule \/ <<"unknown-rule-id", block.rule>> \in warned
             /\ \/ block.fields.exclude.names \subseteq project.seen
                \/ <<"unknown-excluded-service", block.rule>> \in warned
    /\ asked.strict => warned = {}
=============================================================================
