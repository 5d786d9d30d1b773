----------------------------- MODULE ConfigFile -----------------------------
(***************************************************************************)
(* The policy file, .compose-lint.yml: where an implicit run finds it,     *)
(* what reading one gives (config.py), and the one `init` writes           *)
(* (config_emit.py). Pure: the runs that use it are in InitRun.            *)
(*                                                                         *)
(* A file is [read, extra, blocks]: how reading it goes, whether it has an *)
(* unknown top-level key, and its `rules:` in the order they are written,  *)
(* each block with the presence and the kind of its four keys.             *)
(***************************************************************************)
EXTENDS Naturals, Sequences, FiniteSets, SequencesExt

CONSTANTS
  Rule,       \* the registered rule ids
  Level,      \* the severities
  Name,       \* what a unit may be called: a service, a hook, a job
  Odd         \* the names that mean something else, or nothing, unquoted

ASSUME ConfigAssumption == Odd \subseteq Name /\ IsFiniteSet(Rule)

-----------------------------------------------------------------------------
(* Discovery (ADR-039).                                                    *)

(* A directory and a spelling: 1 is .compose-lint.yml, 2 .compose-lint.yaml.*)
Slot == {"project", "run"} \X {1, 2}
NoSlot == <<"none", 0>>

(* config_search_dirs: the first document's directory, nearest, then the   *)
(* run's; they are one when the document is in the run directory.          *)
Searched(together) == IF together THEN {"project"} ELSE {"project", "run"}
Nearest(dirs) == IF "project" \in dirs THEN "project" ELSE "run"

PresentIn(present, dir) == {slot \in present : slot[1] = dir}

FirstIn(slots) == CHOOSE slot \in slots : \A other \in slots : slot[2] <= other[2]

(* discover_config_path: the first directory that holds either spelling.   *)
Discover(present, together) ==
  LET holding == {dir \in Searched(together) : PresentIn(present, dir) # {}}
  IN  IF holding = {} THEN NoSlot ELSE FirstIn(PresentIn(present, Nearest(holding)))

BothSpellings(present, together) ==
  LET slot == Discover(present, together)
  IN  slot # NoSlot /\ Cardinality(PresentIn(present, slot[1])) = 2

-----------------------------------------------------------------------------
(* Reading (config.load_config).                                           *)

NoNames == [form |-> "absent", names |-> {}]
Names(names) == [form |-> "names", names |-> names]

Block(rule, fields) == [rule |-> rule, fields |-> fields]

(* A `rules:` entry with nothing in it; `null` reads as this.              *)
NoFields == [shape |-> "mapping", enabled |-> "absent", reason |-> "absent",
             severity |-> "absent", exclude |-> NoNames, extra |-> FALSE]

Policy(blocks) == [read |-> "mapping", extra |-> FALSE, blocks |-> blocks]

(* Mutant: plain YAML, where the last of two keys wins.                    *)
RepeatsNever(blocks) == FALSE

(* _reject_duplicate_config_keys.                                          *)
Repeats(blocks) ==
  \E i, j \in DOMAIN blocks : i < j /\ blocks[i].rule = blocks[j].rule

Off(fields) == fields.enabled = "false"

(* What _parse_rules raises ConfigError for, strict or not: a value of the *)
(* wrong kind would be taken for something its author did not mean.        *)
Malformed(fields) ==
  \/ fields.shape # "mapping"
  \/ fields.enabled \notin {"absent", "true", "false"}
  \/ Off(fields) /\ fields.reason = "container"
  \/ fields.severity \notin {"absent"} \cup Level
  \/ fields.exclude.form \notin {"absent", "names"}

(* The diagnostics of one block, each one raised by the strict run.        *)
Warned(block) ==
  LET fields == block.fields
      If(slug, cond) == IF cond THEN {<<slug, block.rule>>} ELSE {}
  IN  If("unknown-rule-id", block.rule \notin Rule)
        \cup If("unknown-per-rule-key", fields.extra)
        \cup If("reason-without-enabled-false", fields.reason # "absent" /\ ~Off(fields))
        \cup If("severity-on-disabled-rule", fields.severity # "absent" /\ Off(fields))

Warnings(policy, both) ==
  UNION {Warned(policy.blocks[i]) : i \in DOMAIN policy.blocks}
    \cup (IF policy.extra THEN {<<"unknown-top-level-key", "file">>} ELSE {})
    \cup (IF both THEN {<<"both-config-spellings", "file">>} ELSE {})

(* The block that stands for a rule once the mapping is built.             *)
LastFor(blocks, rule) ==
  blocks[CHOOSE i \in DOMAIN blocks :
           /\ blocks[i].rule = rule
           /\ \A j \in DOMAIN blocks : blocks[j].rule = rule => j <= i].fields

NoConfig == [error |-> FALSE, warnings |-> {}, disabled |-> {}, overrides |-> << >>,
             excluded |-> << >>]

Tables(policy, both) ==
  LET blocks == policy.blocks
      named == {blocks[i].rule : i \in DOMAIN blocks}
      With(key, absent) == {r \in named : LastFor(blocks, r)[key] # absent}
  IN  [error     |-> FALSE,
       warnings  |-> Warnings(policy, both),
       disabled  |-> {r \in named : Off(LastFor(blocks, r))},
       overrides |-> [r \in With("severity", "absent") |-> LastFor(blocks, r).severity],
       excluded  |-> [r \in With("exclude", NoNames) |-> LastFor(blocks, r).exclude.names]]

(* load_config of a file that was found. `read` is "empty" for a file with *)
(* nothing in it, and otherwise names what _read_raw_config raises for: a  *)
(* file that is gone, unreadable, outside, not YAML, not a mapping.        *)
LoadConfig(policy, both, strict) ==
  LET failed == \/ policy.read \notin {"empty", "mapping"}
                \/ Repeats(policy.blocks)
                \/ \E i \in DOMAIN policy.blocks : Malformed(policy.blocks[i].fields)
                \/ strict /\ Warnings(policy, both) # {}
  IN  IF failed THEN [NoConfig EXCEPT !.error = TRUE]
      ELSE Tables(policy, both)

(* warn_unknown_excluded_services, once every document has been read.      *)
UnknownExcluded(config, seen) ==
  {<<"unknown-excluded-service", r>> :
     r \in {q \in DOMAIN config.excluded : ~ (config.excluded[q] \subseteq seen)}}

-----------------------------------------------------------------------------
(* Writing (config_emit.render_config).                                    *)

(* _scalar: quoted unless the bare token reloads as the same string.       *)
Scalar(name) == [text |-> name, quoted |-> name \in Odd]

(* What the loader makes of the entries of one `exclude_services:`: a bare *)
(* name that needed its quotes does not come back as itself.               *)
Reloaded(scalars) ==
  IF \A s \in scalars : s.quoted \/ s.text \notin Odd
  THEN Names({s.text : s \in scalars})
  ELSE [form |-> "other", names |-> {}]

(* One block per rule, in an order no reader depends on, with the name of  *)
(* every unit it was found in; never `enabled: false`.                     *)
RenderConfig(findings) ==
  LET rules == SetToSeq({f.rule : f \in findings})
      Services(rule) == {f.service : f \in {g \in findings : g.rule = rule}}
  IN  Policy([i \in DOMAIN rules |->
                Block(rules[i], [NoFields EXCEPT
                        !.exclude = Reloaded({Scalar(n) : n \in Services(rules[i])})])])
=============================================================================
