------------------------------ MODULE CheckRun ------------------------------
(***************************************************************************)
(* One run of `compose-lint check`, from the plan to the exit code:        *)
(* cli.main and cli._run_check, with every way a run can fail on the way,  *)
(* and the document it leaves on stdout (ADR-006, ADR-015, ADR-036).       *)
(*                                                                         *)
(* A file is what loading it comes to, and the findings a sweep of it that *)
(* never failed would report (`truth`). What the sweep itself promises, a  *)
(* loss only with a crash reported or the sweep declared cut short, is     *)
(* NothingLostQuietly of RuleEngine.                                       *)
(***************************************************************************)
EXTENDS Naturals, Sequences, FiniteSets

CONSTANTS
  N,            \* how many files the run grades
  Contents,     \* what a file may be: [load, gap, note, truth, services]
  Finding,      \* what a rule may report of a file
  AtThreshold,  \* the findings at or above --fail-on
  Suppressed,   \* the findings the config suppresses
  Rank,         \* finding -> rank of its severity, the most severe first
  Emitted,      \* findings of a file -> the order a report lists them in
  Excluding,    \* the sets of names a config may exclude
  Options,      \* the flags a run may be given: [format, partial, strict, skip]
  MaxResults    \* the SARIF results a log may hold

Service == UNION {c.services : c \in Contents}

ASSUME CheckAssumption ==
  /\ N \in Nat
  /\ MaxResults \in Nat \ {0}
  /\ \A c \in Contents :
       /\ c.load \in {"ok", "inapplicable", "broken"}
       /\ c.gap \in BOOLEAN /\ c.note \in BOOLEAN
       /\ c.truth \subseteq Finding
  /\ Options \subseteq [format : {"text", "json", "sarif"}, partial : BOOLEAN,
                        strict : BOOLEAN, skip : BOOLEAN]
  /\ Rank \in [Finding -> Nat]
  /\ \A f \in Finding \cap AtThreshold, g \in Finding \ AtThreshold : Rank[f] < Rank[g]
  /\ Emitted \in [SUBSET Finding -> Seq(Finding)]
  /\ \A found \in SUBSET Finding :
       {Emitted[found][i] : i \in DOMAIN Emitted[found]} = found

VARIABLES
  opts,        \* output_format, allow_partial_coverage, strict_config, skip_suppressed
  selection,   \* what the plan and the config came to, and the names excluded
  contents,    \* file -> what it holds
  pc, at,      \* where the run is, and the file it is at
  swept,       \* file -> what run_rules did with it, and the second read of it
  errors,      \* parse_errors + coverage_errors + rule_errors + config_errors
  warnings,    \* coverage_warnings
  results,     \* all_sarif, all_json or all_file_findings
  has_errors,
  seen,        \* seen_services
  stdout,      \* what has been printed
  delivered,   \* whether stdout took it
  code         \* the exit code, once pc is "exiting" and then "done"

vars == <<opts, selection, contents, pc, at, swept, errors, warnings, results,
          has_errors, seen, stdout, delivered, code>>
inputs == <<opts, selection, contents>>
grading == <<swept, errors, warnings, results, has_errors, seen>>

File == 1 .. N
Unswept == [found |-> {}, crashed |-> FALSE, stopped |-> FALSE, reread |-> TRUE]
Diagnostic(kind, file, cause) == [kind |-> kind, file |-> file, cause |-> cause]
RunLevel == 0

Blank == [doc |-> "nothing", verdict |-> "none", results |-> << >>,
          errors |-> {}, warnings |-> {}]

Selections == [empty : BOOLEAN, gap : BOOLEAN, config_ok : BOOLEAN, excludes : Excluding]

Init ==
  /\ opts \in Options
  /\ selection \in Selections
  /\ contents \in [File -> Contents]
  /\ pc = "start"
  /\ at = 1
  /\ swept = [i \in File |-> Unswept]
  /\ errors = {}
  /\ warnings = {}
  /\ results = << >>
  /\ has_errors = FALSE
  /\ seen = {}
  /\ stdout = Blank
  /\ delivered = FALSE
  /\ code = 0

-----------------------------------------------------------------------------
(* Ways out.                                                               *)

GoTo(next) == pc' = next /\ UNCHANGED <<delivered, code>>

(* sys.exit is in flight until main has flushed stdout.                    *)
Leave(n) == pc' = "exiting" /\ code' = n /\ UNCHANGED delivered

(* _abort_on_write_failure: what was printed is lost with the stream.      *)
WriteFails ==
  /\ pc' = "done" /\ code' = 2
  /\ UNCHANGED <<stdout, delivered>>

(* _exit_2_with_envelope: a machine format gets a document with nothing in *)
(* it but the failure; text gets nothing on stdout.                        *)
Envelope(failures) ==
  /\ stdout' = IF opts.format = "text" THEN stdout
               ELSE [Blank EXCEPT !.doc = "envelope", !.errors = failures]
  /\ Leave(2)

(* `>&-`: there is no stdout at all.                                       *)
StdoutClosed ==
  /\ pc = "start"
  /\ WriteFails
  /\ UNCHANGED <<inputs, at, grading>>

(* _exit_on_internal_error: whatever nothing else handled. Its sys.exit is *)
(* raised inside a handler of main, where the SystemExit clause that       *)
(* flushes does not see it; text may have part of a report in the buffer.  *)
InternalError ==
  /\ pc \in {"plan", "load", "sweep", "emit", "exclusions", "report"}
  /\ \/ /\ stdout' = CASE opts.format # "text" ->
                           [Blank EXCEPT !.doc = "envelope",
                                         !.errors = {Diagnostic("run", RunLevel, "internal")}]
                      [] opts.format = "text" /\ pc = "report" -> [stdout EXCEPT !.doc = "part"]
                      [] OTHER -> stdout
        /\ pc' = "crashed" /\ code' = 2
        /\ UNCHANGED delivered
     \/ /\ opts.format # "text"
        /\ WriteFails
  /\ UNCHANGED <<inputs, at, grading>>

(* The interpreter's own last flush: if it fails, CPython exits 120.       *)
Finalize ==
  /\ pc = "crashed"
  /\ pc' = "done"
  /\ \/ /\ delivered' = TRUE
        /\ UNCHANGED code
     \/ /\ stdout.doc \in {"envelope", "part"}
        /\ code' = 120
        /\ UNCHANGED delivered
  /\ UNCHANGED <<inputs, at, grading, stdout>>

(* main: buffered output is flushed while the exit is in flight.           *)
Flush ==
  /\ pc = "exiting"
  /\ \/ /\ pc' = "done"
        /\ delivered' = TRUE
        /\ UNCHANGED <<stdout, code>>
     \/ WriteFails
  /\ UNCHANGED <<inputs, at, grading>>

-----------------------------------------------------------------------------
(* Before the first file.                                                  *)

Start ==
  /\ pc = "start"
  /\ GoTo("plan")
  /\ UNCHANGED <<inputs, at, grading, stdout>>

SelectionGap == Diagnostic("coverage_gap", RunLevel, "selection")

NothingToLint ==
  /\ pc = "plan" /\ selection.empty
  /\ Envelope({Diagnostic("run", RunLevel, "nothing to lint")}
                \cup (IF selection.gap THEN {SelectionGap} ELSE {}))
  /\ UNCHANGED <<inputs, at, grading>>

ConfigError ==
  /\ pc = "plan" /\ ~selection.empty /\ ~selection.config_ok
  /\ Envelope({Diagnostic("run", RunLevel, "config")})
  /\ UNCHANGED <<inputs, at, grading>>

(* gap_channel: errors, unless --allow-partial-coverage accepts the gap.   *)
ReportGaps(gaps, failures, notes) ==
  /\ errors' = errors \cup failures \cup (IF opts.partial THEN {} ELSE gaps)
  /\ warnings' = warnings \cup notes \cup (IF opts.partial THEN gaps ELSE {})

(* The header, in text, and the gaps the plan itself left.                 *)
Open ==
  /\ pc = "plan" /\ ~selection.empty /\ selection.config_ok
  /\ \/ /\ ReportGaps(IF selection.gap THEN {SelectionGap} ELSE {}, {}, {})
        /\ stdout' = IF opts.format = "text" THEN [stdout EXCEPT !.doc = "begun"] ELSE stdout
        /\ GoTo("load")
     \/ /\ opts.format = "text"
        /\ WriteFails
        /\ UNCHANGED <<errors, warnings>>
  /\ UNCHANGED <<inputs, at, swept, results, has_errors, seen>>

-----------------------------------------------------------------------------
(* One file.                                                               *)

NextFile == at' = at + 1 /\ GoTo("load")

Loading(outcome) == pc = "load" /\ at \in File /\ contents[at].load = outcome

(* ComposeNotApplicableError (ADR-013): passed over.                       *)
Skip ==
  /\ Loading("inapplicable")
  /\ NextFile
  /\ UNCHANGED <<inputs, grading, stdout>>

Refuse ==
  /\ Loading("broken")
  /\ errors' = errors \cup {Diagnostic("parse", at, "load")}
  /\ NextFile
  /\ UNCHANGED <<inputs, swept, warnings, results, has_errors, seen, stdout>>

(* Loaded: its gaps, the notes on what was not read, and its services.     *)
Load ==
  /\ Loading("ok")
  /\ ReportGaps(IF contents[at].gap THEN {Diagnostic("coverage_gap", at, "document")} ELSE {},
                {},
                IF contents[at].note THEN {Diagnostic("unread_input", at, "note")} ELSE {})
  /\ seen' = seen \cup contents[at].services
  /\ GoTo("sweep")
  /\ UNCHANGED <<inputs, at, swept, results, has_errors, stdout>>

(* run_rules: a crash is recorded against the file, a stop at the limit is *)
(* a gap, and nothing is lost without one of the two.                      *)
Sweep ==
  /\ pc = "sweep"
  /\ \E found \in SUBSET contents[at].truth, crashed \in BOOLEAN, stopped \in BOOLEAN :
       /\ found # contents[at].truth => crashed \/ stopped
       /\ swept' = [swept EXCEPT ![at] = [found |-> found, crashed |-> crashed,
                                          stopped |-> stopped, reread |-> TRUE]]
       /\ ReportGaps(IF stopped THEN {Diagnostic("coverage_gap", at, "limit")} ELSE {},
                     IF crashed THEN {Diagnostic("rule_crash", at, "rule")} ELSE {},
                     {})
  /\ GoTo("emit")
  /\ UNCHANGED <<inputs, at, results, has_errors, seen, stdout>>

(* filter_findings.                                                        *)
Failing(found) == (found \cap AtThreshold) \ Suppressed

Shown(found) == IF opts.skip THEN found \ Suppressed ELSE found

(* The results of one file, in the order a report lists them.              *)
Listed(file) ==
  LET order == Emitted[Shown(swept[file].found)]
  IN  [i \in DOMAIN order |-> [file |-> file, finding |-> order[i]]]

(* Mutant: the verdict is only what the last file came to.                 *)
JudgeLast == has_errors' = (Failing(Shown(swept[at].found)) # {})

Judge == has_errors' = (has_errors \/ Failing(Shown(swept[at].found)) # {})

Collect ==
  /\ results' = results \o Listed(at)
  /\ Judge

EmitText ==
  /\ pc = "emit" /\ opts.format = "text"
  /\ \/ /\ Collect
        /\ NextFile
        /\ UNCHANGED stdout
     \/ /\ WriteFails
        /\ UNCHANGED <<at, results, has_errors>>
  /\ UNCHANGED <<inputs, swept, errors, warnings, seen>>

EmitJson ==
  /\ pc = "emit" /\ opts.format = "json"
  /\ Collect
  /\ NextFile
  /\ UNCHANGED <<inputs, swept, errors, warnings, seen, stdout>>

(* Mutant: a failed fixer is an error of the run.                          *)
EmitSarifStrictly ==
  /\ pc = "emit" /\ opts.format = "sarif"
  /\ \E crashed \in BOOLEAN :
       errors' = errors \cup
         (IF crashed THEN {Diagnostic("rule_crash", at, "fixer")} ELSE {})
  /\ Collect
  /\ NextFile
  /\ UNCHANGED <<inputs, swept, warnings, seen, stdout>>

(* SARIF reads the file a second time for its suggested changes. A fixer   *)
(* that fails costs the suggestion and is a warning (bytes that are no     *)
(* longer UTF-8 are an InternalError).                                     *)
EmitSarif ==
  /\ pc = "emit" /\ opts.format = "sarif"
  /\ \E crashed \in BOOLEAN :
       warnings' = warnings \cup
         (IF crashed THEN {Diagnostic("rule_crash", at, "fixer")} ELSE {})
  /\ Collect
  /\ NextFile
  /\ UNCHANGED <<inputs, swept, errors, seen, stdout>>

(* The second read fails: the file's findings are not reported.            *)
Vanish ==
  /\ pc = "emit" /\ opts.format = "sarif"
  /\ errors' = errors \cup {Diagnostic("parse", at, "reread")}
  /\ swept' = [swept EXCEPT ![at].reread = FALSE]
  /\ NextFile
  /\ UNCHANGED <<inputs, warnings, results, has_errors, seen, stdout>>

-----------------------------------------------------------------------------
(* After the last file.                                                    *)

AllGraded ==
  /\ pc = "load" /\ at \notin File
  /\ GoTo("exclusions")
  /\ UNCHANGED <<inputs, at, grading, stdout>>

(* warn_unknown_excluded_services: an error only under --strict-config.    *)
CheckExclusions ==
  /\ pc = "exclusions"
  /\ errors' = IF opts.strict /\ ~(selection.excludes \subseteq seen)
               THEN errors \cup {Diagnostic("run", RunLevel, "unknown service")}
               ELSE errors
  /\ GoTo("report")
  /\ UNCHANGED <<inputs, at, swept, warnings, results, has_errors, seen, stdout>>

(* Mutant: in file and line order.                                         *)
KeepFirst(rs) == {i \in DOMAIN rs : i <= MaxResults}

(* _most_severe: the log keeps the most severe results, those suppressed   *)
(* last and ties in the order they were emitted.                           *)
KeepMost(rs) ==
  LET key(i) == <<IF rs[i].finding \in Suppressed THEN 1 ELSE 0, Rank[rs[i].finding], i>>
      ahead(j, i) == \E k \in 1 .. 3 : /\ key(j)[k] < key(i)[k]
                                       /\ \A m \in 1 .. k - 1 : key(j)[m] = key(i)[m]
  IN  {i \in DOMAIN rs : Cardinality({j \in DOMAIN rs : ahead(j, i)}) < MaxResults}

Kept(rs) ==
  IF opts.format = "sarif" THEN {rs[i] : i \in KeepMost(rs)} ELSE {rs[i] : i \in DOMAIN rs}

Truncation ==
  IF opts.format = "sarif" /\ Len(results) > MaxResults
  THEN {Diagnostic("truncated", RunLevel, "results")} ELSE {}

(* Mutant: a crashed rule and a strict config error are not counted.       *)
VerdictOfInputs ==
  CASE \E d \in errors : d.kind \in {"parse", "coverage_gap"} -> "ERROR"
    [] \E i \in DOMAIN results : Failing({results[i].finding}) # {} -> "FAIL"
    [] OTHER -> "PASS"

(* format_verdict: the same counts as the exit code, and the findings the  *)
(* report itself lists.                                                    *)
Verdict ==
  CASE errors # {} -> "ERROR"
    [] errors = {} /\ (\E i \in DOMAIN results : Failing({results[i].finding}) # {}) -> "FAIL"
    [] OTHER -> "PASS"

(* Mutant: a failing finding outweighs a run that did not complete.        *)
CodeFindingsFirst == IF has_errors THEN 1 ELSE IF errors # {} THEN 2 ELSE 0

Code == IF errors # {} THEN 2 ELSE IF has_errors THEN 1 ELSE 0

Report ==
  /\ pc = "report"
  /\ \/ /\ stdout' = [doc |-> "report",
                      verdict |-> IF opts.format = "text" THEN Verdict ELSE "none",
                      results |-> Kept(results),
                      errors |-> IF opts.format = "text" THEN {} ELSE errors,
                      warnings |-> IF opts.format = "text" THEN {} ELSE warnings \cup Truncation]
        /\ Leave(Code)
     \/ WriteFails
  /\ UNCHANGED <<inputs, at, grading>>

Next ==
  \/ StdoutClosed \/ Start \/ NothingToLint \/ ConfigError \/ Open
  \/ Skip \/ Refuse \/ Load \/ Sweep
  \/ EmitText \/ EmitJson \/ EmitSarif \/ Vanish
  \/ AllGraded \/ CheckExclusions \/ Report
  \/ InternalError \/ Finalize \/ Flush

Spec == Init /\ [][Next]_vars
-----------------------------------------------------------------------------
(* Properties.                                                             *)

Kind == {"parse", "coverage_gap", "rule_crash", "run", "unread_input", "truncated"}
Cause == {"selection", "nothing to lint", "config", "internal", "load", "document",
          "note", "limit", "rule", "fixer", "reread", "unknown service", "results"}
Diagnostics == [kind : Kind, file : 0 .. N, cause : Cause]

TypeOK ==
  /\ pc \in {"start", "plan", "load", "sweep", "emit", "exclusions", "report",
             "exiting", "crashed", "done"}
  /\ at \in 1 .. N + 1
  /\ errors \subseteq Diagnostics /\ warnings \subseteq Diagnostics
  /\ has_errors \in BOOLEAN
  /\ seen \subseteq Service
  /\ code \in {0, 1, 2, 120}

Done(n) == pc = "done" /\ code = n

(* A file whose whole truth the run has, and none of it fails the build.   *)
Clean(file) ==
  \/ contents[file].load = "inapplicable"
  \/ /\ contents[file].load = "ok"
     /\ ~contents[file].gap
     /\ Failing(contents[file].truth) = {}

(* ADR-006: exit 0 without --allow-partial-coverage is said of nothing but *)
(* a project in which every file Compose would load was seen in full, has  *)
(* no finding at the threshold, and was told so on a stdout that took it.  *)
NoSilentPass ==
  Done(0) /\ ~opts.partial =>
    /\ \A i \in File : Clean(i)
    /\ ~selection.gap
    /\ delivered

(* ADR-006: exit 1 is a verdict and never a failure: every file was read   *)
(* and graded by every rule, some file really has a finding at the         *)
(* threshold, and the report that lists it was delivered.                  *)
FailMeansFindings ==
  Done(1) =>
    /\ \A i \in File : contents[i].load # "broken" /\ ~swept[i].crashed /\ swept[i].reread
    /\ \E i \in File : contents[i].load = "ok" /\ Failing(contents[i].truth) # {}
    /\ stdout.doc = "report" /\ delivered

(* The gaps of a run: what the plan, the parser and the limit left out.    *)
Gaps ==
  (IF selection.gap THEN {SelectionGap} ELSE {})
    \cup {Diagnostic("coverage_gap", i, "document") :
            i \in {j \in File : contents[j].load = "ok" /\ contents[j].gap}}
    \cup {Diagnostic("coverage_gap", i, "limit") : i \in {j \in File : swept[j].stopped}}

(* ADR-015: a delivered report says what the exit code says. Its text      *)
(* verdict names the code, its errors are empty exactly when the run       *)
(* completed, an envelope stands only beside exit 2, and every gap the run *)
(* was made with is in a machine report, fatal or accepted: a waived gap   *)
(* that leaves no trace cannot be told from full coverage.                 *)
ArtifactAgrees ==
  pc = "done" /\ delivered =>
    /\ stdout.doc = "report" /\ opts.format = "text" =>
         stdout.verdict = CASE code = 0 -> "PASS" [] code = 1 -> "FAIL" [] code = 2 -> "ERROR"
    /\ stdout.doc = "report" /\ opts.format # "text" =>
         /\ stdout.errors = {} <=> code # 2
         /\ Gaps \subseteq stdout.errors \cup stdout.warnings
    /\ stdout.doc = "envelope" => code = 2 /\ stdout.errors # {}

(* A run that fails the build for a finding shows one: truncation does not *)
(* drop every result that fails in favour of those that do not.            *)
FailureShown ==
  Done(1) => \E r \in stdout.results : Failing({r.finding}) # {}

(* What the run owes its caller, from what the files are and what the      *)
(* sweeps made of them: nothing of the format, the order or the fixers.    *)
Owed ==
  CASE \/ \E i \in File : \/ contents[i].load = "broken"
                          \/ swept[i].crashed
       \/ Gaps # {} /\ ~opts.partial
       \/ opts.strict /\ \E s \in selection.excludes :
            ~ \E i \in File : contents[i].load = "ok" /\ s \in contents[i].services
         -> 2
    [] OTHER -> IF \E i \in File : Failing(swept[i].found) # {} THEN 1 ELSE 0

(* #888: the verdict is the one every format gives for the same files, as  *)
(* long as no file was lost to SARIF's second read.                        *)
VerdictByContent ==
  pc = "done" /\ stdout.doc = "report" /\ delivered
    /\ (\A i \in File : swept[i].reread) => code = Owed
=============================================================================
