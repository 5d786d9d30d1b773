----------------------------- MODULE RuleEngine -----------------------------
(***************************************************************************)
(* engine.run_rules: every rule over every unit of one document, with the  *)
(* config's disables, exclusions and severity overrides, crashing rules    *)
(* isolated, the `env_file:` keys graded once per shared file, the limit   *)
(* on findings, and `.env` values quoted by name in what is reported.      *)
(*                                                                         *)
(* What a rule has to say of a unit's own keys is given: `says` is the     *)
(* truth a sweep that never fails would find. A report is a record of what *)
(* is reported, the line it is on (0 for none) and its severity; what is   *)
(* reported is a [key, value, file], without a file for a unit's own keys. *)
(***************************************************************************)
EXTENDS Units

CONSTANTS
  Rules,        \* the registered rules, in order
  Inputs,       \* the documents, and the ways the rules may find them
  Watches(_, _),  \* rule, env key -> the rule reports that key
  EnvSeverity,  \* the severity it reports it with
  Disabled,     \* the sets of rules a config may disable
  Excluded,     \* the sets of <<rule, name>> it may exclude
  Overrides,    \* rule -> severity, or 0 for none: the ones it may set
  MaxFindings,
  Parts(_),     \* a value -> what _SEPARATORS cuts it into
  Length(_),    \* a text -> its characters
  QuotedFrom    \* the shortest text that gives way to its reference

ASSUME EngineAssumption ==
  /\ Len(Rules) \in Nat /\ DOMAIN Rules = 1 .. Len(Rules)
  /\ \A in \in Inputs :
       /\ WellFormed(in.document)
       /\ \A unit \in ToSet(UnitsOf(in.document)) : IsSeq(unit.uses)
       /\ DOMAIN in.says = (DOMAIN Rules) \X (DOMAIN UnitsOf(in.document))
       /\ \A p \in DOMAIN in.says : \A report \in in.says[p] : report.what.file = None
  /\ Disabled \subseteq SUBSET {Rules[r] : r \in DOMAIN Rules}
  /\ {MaxFindings, QuotedFrom} \subseteq Nat

VARIABLES
  document,
  units,      \* the document's units
  env_files,  \* unit name -> what its `env_file:` targets contribute
  says,       \* rule, unit -> the reports the rule has of the unit
  disabled,   \* config: rules switched off
  excluded,   \* config: <<rule, name>> pairs excluded
  overrides,  \* config: rule -> severity or 0
  ri, ui,     \* the rule and the unit the loops are at
  graded,     \* this rule's findings on each set of env keys graded so far
  findings,   \* the findings so far
  crashed,    \* the <<rule, unit>> pairs reported to on_error
  status      \* "grading", "complete", or "stopped" at the limit

vars == <<document, units, env_files, says, disabled, excluded, overrides,
          ri, ui, graded, findings, crashed, status>>
config == <<document, units, env_files, says, disabled, excluded, overrides>>

Pairs == (DOMAIN Rules) \X (DOMAIN units)
NoFile == [e \in {} |-> {}]

Init ==
  /\ \E in \in Inputs : document = in.document /\ says = in.says
  /\ units = UnitsOf(document)
  /\ env_files = ResolveEnvFiles(document)
  /\ disabled \in Disabled
  /\ excluded \in Excluded
  /\ overrides \in Overrides
  /\ ri = 1
  /\ ui = 1
  /\ graded = NoFile
  /\ findings = {}
  /\ crashed = {}
  /\ status = "grading"

-----------------------------------------------------------------------------
(* One finding, as it is recorded.                                         *)

(* _excluded_as: the full unit name, or for a hook the name of its kind.   *)
ExcludedAs(r, u) ==
  \E n \in {units[u].name, units[u].kind} \ {None} : <<Rules[r], n>> \in excluded

Severity(r, report) ==
  IF overrides[Rules[r]] # 0 /\ Rules[r] \notin disabled
  THEN overrides[Rules[r]] ELSE report.sev

(* A global disable owns the reason, whatever else is excluded.            *)
Reason(r, u) ==
  CASE Rules[r] \in disabled                        -> "disabled"
    [] Rules[r] \notin disabled /\ ExcludedAs(r, u)  -> "excluded"
    [] OTHER                                         -> "none"

(* A value, and the parts of it a rule may quote alone.                    *)
Cut(value) == {value} \cup Parts(value)
Supplied(u) == {units[u].uses[i] : i \in DOMAIN units[u].uses}

(* A rule may quote all that the `.env` supplied to the unit it grades.    *)
Finding(r, u, report) ==
  [rule |-> Rules[r], unit |-> u, what |-> report.what, line |-> report.line,
   sev |-> Severity(r, report), suppressed |-> Reason(r, u),
   quotes |-> UNION {Cut(use.value) : use \in Supplied(u)}]

(* What a hook did not write itself is left to its parent.                 *)
Attributed(u, reports) == {p \in reports : units[u].hook => p.line # 0}

-----------------------------------------------------------------------------
(* _env_file_findings. The first unit that gets anything from a set of     *)
(* files pays for grading its keys; the template is then every unit's that *)
(* names the same files, less the keys that unit shadows.                  *)

Available(u) ==
  IF units[u].env \in DOMAIN env_files THEN env_files[units[u].env].available ELSE {}

Shadowed(u) ==
  IF units[u].env \in DOMAIN env_files THEN env_files[units[u].env].shadowed ELSE {}

Contributed(u) == {k \in Available(u) : k.key \notin Shadowed(u)}

KeyReport(k) == [what |-> k, line |-> 1, sev |-> EnvSeverity]

(* Mutant: what is kept is what the first unit was given.                  *)
TemplateOfFirst(r, u) ==
  IF Available(u) \in DOMAIN graded THEN graded[Available(u)]
  ELSE {k \in Contributed(u) : Watches(Rules[r], k)}

Template(r, u) ==
  IF Available(u) \in DOMAIN graded THEN graded[Available(u)]
  ELSE {k \in Available(u) : Watches(Rules[r], k)}

KeyReports(r, u) ==
  IF Contributed(u) = {} THEN {}
  ELSE {KeyReport(k) : k \in {t \in Template(r, u) : t.key \notin Shadowed(u)}}

Remember(r, u) ==
  graded' = IF Contributed(u) = {} THEN graded
            ELSE [e \in DOMAIN graded \cup {Available(u)} |->
                    IF e = Available(u) THEN Template(r, u) ELSE graded[e]]

-----------------------------------------------------------------------------
(* _quote_references: in a finding, `${NAME}` stands for what the `.env`   *)
(* supplied to the units of its name.                                      *)

UseAt(w) == units[w[1]].uses[w[2]]

(* Mutant: of two units of one name, the later one stands for both.        *)
SeenInLast(name) ==
  LET last == {u \in DOMAIN units :
                 /\ units[u].name = name
                 /\ \A v \in DOMAIN units : units[v].name = name => v <= u}
  IN  {w \in UNION {{u} \X DOMAIN units[u].uses : u \in last} : ~UseAt(w).moved}

(* Where the walk comes upon a substituted text: any field of a unit of    *)
(* the name, unless it is no longer the text that was recorded.            *)
Seen(name) ==
  LET named == {u \in DOMAIN units : units[u].name = name}
  IN  {w \in UNION {{u} \X DOMAIN units[u].uses : u \in named} : ~UseAt(w).moved}

(* The units are walked from the last to the first; of two values of one   *)
(* reference the one seen last is kept.                                    *)
SeenBefore(v, w) == v[1] > w[1] \/ (v[1] = w[1] /\ v[2] < w[2])

Kept(name) ==
  {UseAt(w).value : w \in {v \in Seen(name) :
     \A x \in Seen(name) : SeenBefore(v, x) => UseAt(x).name # UseAt(v).name}}

Replaced(name) == {p \in UNION {Cut(value) : value \in Kept(name)} : Length(p) >= QuotedFrom}

Quote(f) == [f EXCEPT !.quotes = @ \ Replaced(units[f.unit].name)]

Quoted(fs) == {Quote(f) : f \in fs}

-----------------------------------------------------------------------------
Advance ==
  IF ui = Len(units)
  THEN /\ ui' = 1 /\ ri' = ri + 1
  ELSE /\ ui' = ui + 1 /\ ri' = ri

(* The cache lives for one rule.                                           *)
Forget == graded' = NoFile

(* Mutant: a crash is passed over without a word.                          *)
CrashUnreported ==
  /\ status = "grading" /\ ri \in DOMAIN Rules /\ ui \in DOMAIN units
  /\ Advance
  /\ IF ri' # ri THEN Forget ELSE UNCHANGED graded
  /\ UNCHANGED <<config, findings, crashed, status>>

(* The rule raises, over the unit's own keys or over its env keys.         *)
Crash ==
  /\ status = "grading" /\ ri \in DOMAIN Rules /\ ui \in DOMAIN units
  /\ crashed' = crashed \cup {<<ri, ui>>}
  /\ Advance
  /\ IF ri' # ri THEN Forget ELSE UNCHANGED graded
  /\ UNCHANGED <<config, findings, status>>

Found(r, u) ==
  {Finding(r, u, p) : p \in Attributed(u, says[<<r, u>>] \cup KeyReports(r, u))}

Grade ==
  /\ status = "grading" /\ ri \in DOMAIN Rules /\ ui \in DOMAIN units
  /\ Cardinality(findings \cup Found(ri, ui)) <= MaxFindings
  /\ findings' = findings \cup Found(ri, ui)
  /\ Advance
  /\ IF ri' # ri THEN Forget ELSE Remember(ri, ui)
  /\ UNCHANGED <<config, crashed, status>>

(* FindingLimitError, carrying what was graded so far.                     *)
Stop ==
  /\ status = "grading" /\ ri \in DOMAIN Rules /\ ui \in DOMAIN units
  /\ Cardinality(findings \cup Found(ri, ui)) > MaxFindings
  /\ findings' = Quoted(findings \cup Found(ri, ui))
  /\ Advance
  /\ Forget
  /\ status' = "stopped"
  /\ UNCHANGED <<config, crashed>>

Complete ==
  /\ status = "grading"
  /\ ri \notin DOMAIN Rules \/ ui \notin DOMAIN units
  /\ findings' = Quoted(findings)
  /\ status' = "complete"
  /\ UNCHANGED <<config, ri, ui, graded, crashed>>

Next == Crash \/ Grade \/ Stop \/ Complete

Spec == Init /\ [][Next]_vars
-----------------------------------------------------------------------------
(* Properties.                                                             *)

(* The type invariant, and that the loops of run_rules never leave the     *)
(* rules and the units.                                                    *)
TypeOK ==
  /\ disabled \subseteq {Rules[r] : r \in DOMAIN Rules}
  /\ ri \in 1 .. Len(Rules) + 1
  /\ ui \in 1 .. Len(units) + 1
  /\ \A e \in DOMAIN graded : graded[e] \subseteq e
  /\ \A f \in findings : /\ f.unit \in DOMAIN units
                         /\ f.quotes \subseteq UNION {Cut(use.value) : use \in Supplied(f.unit)}
  /\ crashed \subseteq Pairs
  /\ status \in {"grading", "complete", "stopped"}

(* The pairs the loops have been through.                                  *)
Past == {p \in Pairs : p[1] < ri \/ (p[1] = ri /\ p[2] < ui)}

(* What a sweep that keeps nothing from one unit to the next has to say of *)
(* a pair: the unit's own keys, and the env keys that reach its container. *)
Deserved(r, u) ==
  {Finding(r, u, p) : p \in Attributed(u, says[<<r, u>>] \cup
              {KeyReport(k) : k \in {c \in Contributed(u) : Watches(Rules[r], c)}})}

(* A crash costs the findings of its own rule on its own unit and no       *)
(* others, whichever units share an env file with it and whichever of them *)
(* shadow some of its keys; nothing is reported that was not found.        *)
(* (run_rules, _env_file_findings)                                         *)
GradedInFull ==
  {[f EXCEPT !.quotes = {}] : f \in findings}
    = {[f EXCEPT !.quotes = {}] :
         f \in UNION {Deserved(p[1], p[2]) : p \in Past \ crashed}}

(* A finding goes missing from a sweep only with a crash reported or with  *)
(* the sweep declared cut short: a complete sweep without a crash has      *)
(* every finding, so it cannot pass for a clean one (ADR-006).             *)
NothingLostQuietly ==
  status = "complete" /\ crashed = {} =>
    \A p \in Pairs : \A f \in Deserved(p[1], p[2]) :
      \E g \in findings : [g EXCEPT !.quotes = f.quotes] = f

(* The name has another value in another unit of the name, or field of it. *)
Contested(u, use) ==
  \E v \in {x \in DOMAIN units : units[x].name = units[u].name} : \E other \in Supplied(v) :
    other.name = use.name /\ other.value # use.value /\ ~other.moved

(* No finding leaves the engine, in full or cut short, quoting a value the *)
(* `.env` supplied, nor a part of one, that is long enough to be a secret  *)
(* and not a setting (_QUOTED_FROM), even where two units share a name.    *)
(* Two cases are not covered, in which the code has lost sight of it: the  *)
(* field was rewritten after the substitution, or its `${NAME}` has two    *)
(* values. (_quote_references, _service_pattern)                           *)
NoSecretQuoted ==
  status # "grading" =>
    \A f \in findings : \A use \in Supplied(f.unit) :
      \/ use.moved \/ Contested(f.unit, use)
      \/ \A p \in Cut(use.value) : Length(p) >= QuotedFrom => p \notin f.quotes

-----------------------------------------------------------------------------
(* What reaches a container, by the order Compose reads its files in: the  *)
(* lines of every file it can read, one after the other.                   *)

Entries(c, t) ==
  LET target == c.targets[t]
      lines == IF Read(document, target) THEN Lines(document, target) ELSE << >>
  IN  [i \in DOMAIN lines |->
         [line |-> lines[i], raw |-> target.raw, file |-> target.path, at |-> t]]

Written(c) == Concatenated([t \in DOMAIN c.targets |-> Entries(c, t)])

(* The indices of the lines that set the key before the line i.            *)
Setting(written, key, i) ==
  {j \in 1 .. i - 1 : /\ ~Skipped(written[j].line, written[j].raw)
                      /\ written[j].line.key = key}

ValueFrom(written, value, i) ==
  LET line == written[i].line
      earlier == Setting(written, line.text, i)
  IN  IF line.form = "bare" THEN None
      ELSE IF ~Expands(line, written[i].raw) THEN line.text
      ELSE IF earlier # {} THEN value[Max(earlier)]
      ELSE IF line.text \in DOMAIN document.dotenv THEN document.dotenv[line.text]
      ELSE None

ValueAt(written) ==
  LET value[i \in DOMAIN written] == ValueFrom(written, value, i) IN value

Reaching(c) ==
  LET written == Written(c)
      value == ValueAt(written)
      last == {i \in DOMAIN written :
                 Setting(written, written[i].line.key, Len(written) + 1) # {} /\
                 i = Max(Setting(written, written[i].line.key, Len(written) + 1))}
  IN  {[key |-> written[i].line.key, value |-> value[i], file |-> written[i].file] :
         i \in {j \in last : value[j] # None /\ written[j].line.key \notin c.sets}}

(* Each container the document deploys: the name of its unit, and whether  *)
(* it is a job.                                                            *)
Deployed ==
  {<<c, c.name, FALSE>> : c \in {d \in ToSet(document.services) : ~d.provider}}
    \cup {<<c, JobName(c), TRUE>> : c \in {d \in ToSet(document.jobs) : d.mapping}}

Announced(d) ==
  \E n \in UnitNotes(document) : n[2] = d[2] \/ (n[2] = None /\ d[3])

(* Two containers may come under one name, `jobs.x`; of a key that a later *)
(* file sets to something unknown the earlier value is kept, and of a name *)
(* that an earlier file leaves unknown the value of the `.env`.            *)
Unambiguous(d) ==
  LET written == Written(d[1])
      value == ValueAt(written)
  IN  /\ \A e \in Deployed : e[2] = d[2] => e = d
      /\ \A i \in DOMAIN written : \A j \in Setting(written, written[i].line.key, i) :
           value[i] = None /\ ~Skipped(written[i].line, written[i].raw) =>
             written[j].at = written[i].at
      /\ \A i \in DOMAIN written :
           LET name == written[i].line.text
               earlier == Setting(written, name, i)
           IN  /\ Expands(written[i].line, written[i].raw) /\ name \in DOMAIN document.dotenv
               /\ earlier # {} /\ value[Max(earlier)] = None
               => written[Max(earlier)].at = written[i].at

(* A key that reaches a service or a job from its env files is in front of *)
(* every rule that looks for it, with the value the container will see and *)
(* under that container's name; a job left out is said to be. This is the  *)
(* whole path: the units, the files read once for all of them, the `.env`  *)
(* read only for the names they use, the shared template, the shadowing.   *)
(* (ADR-027, ADR-040 section 5)                                            *)
DeploymentGraded ==
  status = "complete" /\ crashed = {} =>
    \A d \in Deployed :
      \/ Announced(d) \/ ~Unambiguous(d)
      \/ \A r \in DOMAIN Rules :
           {f.what : f \in {g \in findings : /\ g.rule = Rules[r]
                                            /\ units[g.unit].name = d[2]
                                            /\ g.what.file # None}}
             = {k \in Reaching(d[1]) : Watches(Rules[r], k)}
=============================================================================
