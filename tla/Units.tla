------------------------------- MODULE Units --------------------------------
(***************************************************************************)
(* What a document deploys, and what reaches each container: _units.py     *)
(* (services, hooks and jobs as the units rules are asked about, ADR-040)  *)
(* and _service_env.py with the reader of _env_file.py (the `env_file:`    *)
(* targets, ADR-027).                                                      *)
(*                                                                         *)
(* A document is a record of                                               *)
(*   services, jobs  sequences of containers                               *)
(*   files           path -> what is there                                 *)
(*   dotenv          name -> value, of the `.env` beside it                *)
(* and a container one of                                                  *)
(*   name            the segments of its path below `services` or `jobs`   *)
(*   mapping, provider, extends                                            *)
(*   hooks           kind -> what each of its hooks `uses`, in order       *)
(*   targets         the `env_file:` targets: [path, required, raw]        *)
(*   sets            the keys of its own `environment:`                    *)
(*   uses            what the `.env` supplied to its fields, in the order  *)
(*                   they are walked: [name, value, moved]; moved is a     *)
(*                   field rewritten after the substitution was recorded   *)
(* The lines of an env file are [key, form, text]: a literal, a reference  *)
(* to a name, a key without a value, or no entry at all.                   *)
(***************************************************************************)
EXTENDS Naturals, Sequences, FiniteSets, SequencesExt, Functions

CONSTANTS
  None,         \* no name, no value
  MaxServices   \* the units a document may have and have them all graded

ASSUME UnitsAssumption == MaxServices \in Nat

(* The kinds of hook, in the order they are graded in.                     *)
PreStart == "pre_start"
HookKinds == <<PreStart, "post_start", "pre_stop">>

Concatenated(seqs) ==
  LET joined[i \in 0 .. Len(seqs)] == IF i = 0 THEN << >> ELSE joined[i - 1] \o seqs[i]
  IN  joined[Len(seqs)]

IsSeq(s) == s \in Seq(ToSet(s))

(* What top says, and base of the rest: `@@`, in a form that is expanded.  *)
Over(top, base) ==
  [k \in DOMAIN top \cup DOMAIN base |-> IF k \in DOMAIN top THEN top[k] ELSE base[k]]

With(values, key, value) == Over([k \in {key} |-> value], values)

(* `jobs.<x>` of the job x is the name of a service literally called that. *)
JobName(job) == <<"jobs">> \o job.name

(* _classify, and the read: what there is under a path, or why it is not   *)
(* opened: unresolved, outside, absent, unreadable.                        *)
Read(document, target) == document.files[target.path].state = "text"
Lines(document, target) == document.files[target.path].lines

(* What the YAML reader and the loader leave: names are keys of a mapping, *)
(* only a mapping names env files, and no text is None.                    *)
WellFormed(document) ==
  LET services == ToSet(document.services)
      jobs == ToSet(document.jobs)
  IN  /\ IsSeq(document.services) /\ IsSeq(document.jobs)
      /\ \A c, d \in services : c.name = d.name => c = d
      /\ \A c, d \in jobs : JobName(c) = JobName(d) => c = d
      /\ \A n \in DOMAIN document.dotenv : document.dotenv[n] # None
      /\ \A c \in services \cup jobs :
           /\ c.name # None /\ JobName(c) # None
           /\ \A kind \in ToSet(HookKinds) : IsSeq(c.hooks[kind])
           /\ IsSeq(c.targets) /\ (~c.mapping => c.targets = << >>)
           /\ \A t \in ToSet(c.targets) :
                /\ t.path # None
                /\ Read(document, t) =>
                     /\ IsSeq(Lines(document, t))
                     /\ \A line \in ToSet(Lines(document, t)) :
                          line.form \notin {"bare", "none"} => line.text # None

-----------------------------------------------------------------------------
(* Units.                                                                  *)

Unit(name, kind, hook, env, uses) ==
  [name |-> name, kind |-> kind, hook |-> hook, env |-> env, uses |-> uses]

CountUnits(document) ==
  LET hooks(c) == IF c.mapping
                  THEN FoldLeft(LAMBDA n, k : n + Len(c.hooks[k]), 0, HookKinds) ELSE 0
  IN  FoldLeft(LAMBDA n, c : n + 1 + hooks(c), 0, document.services)
        + Len(document.jobs)

Bounded(document) == CountUnits(document) <= MaxServices

HooksOf(c, kind) ==
  [i \in DOMAIN c.hooks[kind] |->
     Unit(c.name \o <<kind, i>>, c.name \o <<kind>>, TRUE, None, c.hooks[kind][i])]

(* A provider's service has no container. Hooks follow their service, and  *)
(* are left out with the jobs where there are too many of them.            *)
ServiceUnits(document, c) ==
  IF c.provider THEN << >>
  ELSE <<Unit(c.name, None, FALSE, c.name, c.uses)>>
         \o (IF Bounded(document) /\ c.mapping
             THEN Concatenated([k \in DOMAIN HookKinds |-> HooksOf(c, HookKinds[k])])
             ELSE << >>)

JobUnits(document, c) ==
  IF ~Bounded(document) \/ ~c.mapping \/ c.extends THEN << >>
  ELSE <<Unit(JobName(c), None, FALSE, JobName(c), c.uses)>>

UnitsOf(document) ==
  Concatenated([i \in DOMAIN document.services |->
                  ServiceUnits(document, document.services[i])])
    \o Concatenated([i \in DOMAIN document.jobs |->
                       JobUnits(document, document.jobs[i])])

(* unit_notes: what is not graded, and said not to be.                     *)
UnitNotes(document) ==
  IF ~Bounded(document) THEN {<<"too many units", None>>}
  ELSE {<<"job not resolved", JobName(document.jobs[j])>> :
          j \in {i \in DOMAIN document.jobs :
                   document.jobs[i].mapping /\ document.jobs[i].extends}}

-----------------------------------------------------------------------------
(* One env file.                                                           *)

(* _scan: `format: raw` knows no references, and no keys without a value.  *)
Skipped(line, raw) == line.form = "none" \/ (raw /\ line.form = "bare")

Expands(line, raw) == line.form = "reference" /\ ~raw

OwnKeys(lines, raw) == {lines[i].key : i \in {j \in DOMAIN lines : ~Skipped(lines[j], raw)}}

References(lines, raw) == {lines[i].text : i \in {j \in DOMAIN lines : Expands(lines[j], raw)}}

(* Mutant: such a key keeps the value it had.                              *)
ResolveOrKeep(line, raw, values) ==
  LET said == ~ (line.form = "bare")
              /\ (Expands(line, raw) => line.text \in DOMAIN values)
  IN  IF Skipped(line, raw) \/ ~said THEN values
      ELSE With(values, line.key, IF Expands(line, raw) THEN values[line.text] ELSE line.text)

(* _resolve, of one entry: a key whose value the files do not say loses    *)
(* the value it had.                                                       *)
Resolve(line, raw, values) ==
  LET said == ~ (line.form = "bare")
              /\ (Expands(line, raw) => line.text \in DOMAIN values)
  IN  IF Skipped(line, raw) THEN values
      ELSE IF ~said THEN Restrict(values, DOMAIN values \ {line.key})
      ELSE With(values, line.key, IF Expands(line, raw) THEN values[line.text] ELSE line.text)

(* parse_env_file: what the file's own keys come to, in the scope of what  *)
(* was read before it.                                                     *)
ParseEnvFile(lines, raw, scope) ==
  LET values[i \in 0 .. Len(lines)] ==
        IF i = 0 THEN scope ELSE Resolve(lines[i], raw, values[i - 1])
      all == values[Len(lines)]
  IN  Restrict(all, OwnKeys(lines, raw) \cap DOMAIN all)

-----------------------------------------------------------------------------
(* The targets of one container.                                           *)

(* Every container spec with a mapping, by the name of its unit; a job     *)
(* stands in front of a service of its name.                               *)
Specs(document) ==
  LET mapped(containers) == {c \in ToSet(containers) : c.mapping}
      job == [n \in {JobName(c) : c \in mapped(document.jobs)} |->
                CHOOSE c \in mapped(document.jobs) : JobName(c) = n]
      service == [n \in {c.name : c \in mapped(document.services)} |->
                    CHOOSE c \in mapped(document.services) : c.name = n]
  IN  Over(job, service)

(* _dotenv_scope: of the `.env`, the names that env files refer to.        *)
DotenvScope(document, specs) ==
  LET wanted == UNION {References(Lines(document, t), t.raw) :
                         t \in {u \in UNION {ToSet(specs[n].targets) : n \in DOMAIN specs} :
                                  Read(document, u)}}
  IN  Restrict(document.dotenv, wanted \cap DOMAIN document.dotenv)

(* _resolve_one: the targets in the order they are written, a later one    *)
(* winning, and each in the scope of those before it.                      *)
Apply(document, t, r) ==
  IF ~Read(document, t)
  THEN [r EXCEPT !.unread = @ \cup {<<t, document.files[t.path].state>>}]
  ELSE LET parsed == ParseEnvFile(Lines(document, t), t.raw, r.scope)
       IN  [r EXCEPT !.scope = Over(parsed, @),
                     !.keys = Over([k \in DOMAIN parsed |->
                                      [value |-> parsed[k], file |-> t.path]], @)]

ResolveOne(document, targets, supplied) ==
  LET after[i \in 0 .. Len(targets)] ==
        IF i = 0 THEN [scope |-> supplied, keys |-> << >>, unread |-> {}]
        ELSE Apply(document, targets[i], after[i - 1])
  IN  after[Len(targets)]

(* resolve_env_files: unit name -> the keys its files contribute, before   *)
(* its own environment shadows some of them.                               *)
ResolveEnvFiles(document) ==
  LET specs == Specs(document)
      naming == {n \in DOMAIN specs : specs[n].targets # << >>}
      supplied == DotenvScope(document, specs)
      Entry(spec) ==
        LET r == ResolveOne(document, spec.targets, supplied)
        IN  [available |-> {[key |-> k, value |-> r.keys[k].value, file |-> r.keys[k].file]
                              : k \in DOMAIN r.keys},
             shadowed |-> spec.sets \cap DOMAIN r.keys,
             unread |-> r.unread]
  IN  [n \in naming |-> Entry(specs[n])]
=============================================================================
