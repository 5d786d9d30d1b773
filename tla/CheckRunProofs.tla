--------------------------- MODULE CheckRunProofs ---------------------------
(***************************************************************************)
(* The exit codes of check, for every batch of files, every set of flags   *)
(* and every way the run can fail: proved with TLAPS.                      *)
(***************************************************************************)
EXTENDS CheckRun, FiniteSetTheorems, WellFoundedInduction, TLAPS

(* What an empty error list says of a file the loop is done with.          *)
Seen(i) ==
  /\ contents[i].load # "broken"
  /\ ~swept[i].crashed /\ swept[i].reread
  /\ contents[i].load = "ok" =>
       /\ contents[i].gap => opts.partial
       /\ swept[i].stopped => opts.partial
       /\ swept[i].found # contents[i].truth => swept[i].stopped
       /\ Failing(swept[i].found) # {} => has_errors

(* And of the file it is at, before it is listed.                          *)
SoFar ==
  /\ contents[at].load = "ok"
  /\ errors = {} => (contents[at].gap => opts.partial)
  /\ pc = "emit" /\ errors = {} =>
       /\ ~swept[at].crashed /\ swept[at].reread
       /\ swept[at].stopped => opts.partial
       /\ swept[at].found # contents[at].truth => swept[at].stopped

Books ==
  /\ errors = {} => (selection.gap => opts.partial)
  /\ errors = {} => \A i \in File : i < at => Seen(i)
  /\ has_errors => \E i \in File : contents[i].load = "ok" /\ Failing(contents[i].truth) # {}

Verdicted(n) ==
  /\ at = N + 1
  /\ errors = {}
  /\ has_errors <=> n = 1
  /\ Books
  /\ stdout.doc = "report"

RunInv ==
  /\ opts \in Options
  /\ contents \in [File -> Contents]
  /\ DOMAIN swept = File
  /\ at \in 1 .. N + 1
  /\ has_errors \in BOOLEAN
  /\ \A i \in File : swept[i].found \subseteq contents[i].truth
  /\ pc \in {"start", "plan"} => at = 1 /\ errors = {} /\ ~has_errors
  /\ pc \in {"start", "plan", "load", "sweep"} =>
       \A i \in File : i >= at => swept[i] = Unswept
  /\ pc = "emit" => \A i \in File : i > at => swept[i] = Unswept
  /\ pc \in {"load", "sweep", "emit", "exclusions", "report"} => Books
  /\ pc \in {"sweep", "emit"} => at \in File /\ SoFar
  /\ pc \in {"exclusions", "report"} => at = N + 1
  /\ code \in {0, 1, 2, 120}
  /\ pc = "crashed" => code = 2
  /\ pc \in {"exiting", "done"} /\ code \in {0, 1} => Verdicted(code)
  /\ pc = "done" /\ code \in {0, 1} => delivered

-----------------------------------------------------------------------------
(* Leaving suppressed findings out of a report changes no verdict.         *)
LEMMA SuppressedNeverFail ==
  ASSUME NEW found
  PROVE  Failing(Shown(found)) = Failing(found)
BY DEF Failing, Shown

LEMMA FailingGrows ==
  ASSUME NEW s, NEW t, s \subseteq t, Failing(s) # {}
  PROVE  Failing(t) # {}
BY DEF Failing

(* What is known of a file stays known while the loop is elsewhere.        *)
LEMMA SeenKept ==
  ASSUME NEW i, Seen(i), UNCHANGED inputs, swept'[i] = swept[i],
         has_errors => has_errors'
  PROVE  Seen(i)'
BY DEF Seen, inputs, Failing

LEMMA InitRun == Init => RunInv
<1> SUFFICES ASSUME Init
             PROVE  RunInv
  OBVIOUS
<1>1. \A i \in File : swept[i] = Unswept /\ swept[i].found = {}
  BY DEF Init, Unswept
<1>2. at \in 1 .. N + 1
  BY CheckAssumption DEF Init
<1> QED
  BY <1>1, <1>2 DEF Init, RunInv

(* Every way out that is no verdict asks for nothing.                      *)
LEMMA NoVerdict ==
  ASSUME RunInv, UNCHANGED <<inputs, at, grading>>,
         \/ code' = 2 /\ pc' \in {"exiting", "crashed", "done"}
         \/ code' = 120 /\ pc' = "done"
  PROVE  RunInv'
<1>1. UNCHANGED <<opts, selection, contents, swept, errors, has_errors>>
  BY DEF inputs, grading
<1> QED
  BY <1>1 DEF RunInv

LEMMA RunStep == RunInv /\ [Next]_vars => RunInv'
<1> SUFFICES ASSUME RunInv, [Next]_vars
             PROVE  RunInv'
  OBVIOUS
<1>0. N \in Nat /\ File = 1 .. N
  BY CheckAssumption DEF File
<1>t. /\ opts \in Options /\ contents \in [File -> Contents] /\ DOMAIN swept = File
      /\ at \in 1 .. N + 1 /\ has_errors \in BOOLEAN
      /\ \A i \in File : swept[i].found \subseteq contents[i].truth
  BY DEF RunInv
<1>1. CASE StdoutClosed
  BY <1>1, <1>t, NoVerdict DEF StdoutClosed, WriteFails
<1>2. CASE Start
  BY <1>2, <1>t DEF Start, GoTo, inputs, grading, RunInv
<1>3. CASE NothingToLint
  BY <1>3, NoVerdict DEF NothingToLint, Envelope, Leave
<1>4. CASE ConfigError
  BY <1>4, NoVerdict DEF ConfigError, Envelope, Leave
<1>5. CASE InternalError
  BY <1>5, NoVerdict DEF InternalError, WriteFails
<1>5a. CASE Finalize
  <2>1. code = 2
    BY <1>5a DEF Finalize, RunInv
  <2> QED
    BY <1>5a, <2>1, NoVerdict DEF Finalize
<1>6. CASE Open
  <2>1. CASE WriteFails
    BY <1>6, <2>1, <1>t DEF Open, WriteFails, inputs, RunInv
  <2>2. CASE ~WriteFails
    <3>2. errors' = {} => (selection.gap => opts.partial)
      BY <1>6, <2>2 DEF Open, ReportGaps, SelectionGap
    <3>3. /\ pc = "plan" /\ pc' = "load" /\ at' = 1 /\ ~has_errors'
          /\ UNCHANGED <<opts, selection, contents, swept, has_errors, code>>
      BY <1>6, <2>2 DEF Open, GoTo, inputs, RunInv
    <3>4. Books'
      BY <1>0, <3>2, <3>3 DEF Books
    <3> QED
      BY <1>0, <1>6, <1>t, <3>3, <3>4 DEF Open, RunInv
  <2> QED
    BY <2>1, <2>2
<1>7. CASE Skip
  <2>1. /\ pc = "load" /\ pc' = "load" /\ at \in File /\ at' = at + 1
        /\ contents[at].load = "inapplicable"
        /\ UNCHANGED <<opts, selection, contents, swept, errors, has_errors, stdout, code>>
    BY <1>7 DEF Skip, Loading, NextFile, GoTo, inputs, grading
  <2>2. Seen(at)
    BY <2>1, <1>0 DEF RunInv, Seen, Unswept
  <2>3. \A i \in File : Seen(i) => Seen(i)'
    BY <2>1, SeenKept DEF inputs
  <2>4. errors' = {} => \A i \in File : i < at' => Seen(i)'
    <3>1. \A i \in File : i < at' => i < at \/ i = at
      BY <1>0, <2>1
    <3> QED
      BY <2>1, <2>2, <2>3, <3>1 DEF RunInv, Books
  <2>5. Books'
    BY <2>1, <2>4 DEF RunInv, Books, Failing
  <2> QED
    BY <1>0, <1>t, <2>1, <2>5 DEF RunInv
<1>8. CASE Refuse
  <2>1. /\ pc = "load" /\ pc' = "load" /\ at \in File /\ at' = at + 1 /\ errors' # {}
        /\ UNCHANGED <<opts, selection, contents, swept, has_errors, stdout, code>>
    BY <1>8 DEF Refuse, Loading, NextFile, GoTo, inputs
  <2>2. Books'
    BY <1>0, <2>1 DEF RunInv, Books
  <2> QED
    BY <1>0, <1>t, <2>1, <2>2 DEF RunInv
<1>9. CASE Load
  <2>1. /\ pc = "load" /\ pc' = "sweep" /\ at \in File /\ at' = at
        /\ contents[at].load = "ok"
        /\ errors \subseteq errors'
        /\ errors' = {} => (contents[at].gap => opts.partial)
        /\ UNCHANGED <<opts, selection, contents, swept, has_errors, stdout, code>>
    BY <1>9 DEF Load, Loading, ReportGaps, GoTo, inputs
  <2>2. \A i \in File : Seen(i) => Seen(i)'
    BY <2>1, SeenKept DEF inputs
  <2>3. Books' /\ SoFar'
    BY <1>0, <2>1, <2>2 DEF RunInv, Books, SoFar
  <2> QED
    BY <1>0, <1>t, <2>1, <2>3 DEF RunInv
<1>10. CASE Sweep
  <2>1. PICK found \in SUBSET contents[at].truth, crashed \in BOOLEAN, stopped \in BOOLEAN :
          /\ found # contents[at].truth => crashed \/ stopped
          /\ swept' = [swept EXCEPT ![at] = [found |-> found, crashed |-> crashed,
                                             stopped |-> stopped, reread |-> TRUE]]
          /\ ReportGaps(IF stopped THEN {Diagnostic("coverage_gap", at, "limit")} ELSE {},
                        IF crashed THEN {Diagnostic("rule_crash", at, "rule")} ELSE {},
                        {})
    BY <1>10 DEF Sweep
  <2>2. /\ pc = "sweep" /\ pc' = "emit" /\ at' = at /\ at \in File
        /\ UNCHANGED <<opts, selection, contents, has_errors, stdout, code>>
    BY <1>10 DEF Sweep, GoTo, inputs, RunInv
  <2>3. /\ errors \subseteq errors'
        /\ errors' = {} => ~crashed /\ (stopped => opts.partial)
    BY <2>1 DEF ReportGaps
  <2>4. /\ swept'[at].found = found /\ swept'[at].crashed = crashed
        /\ swept'[at].stopped = stopped /\ swept'[at].reread = TRUE
        /\ DOMAIN swept' = File
        /\ \A i \in File : i # at => swept'[i] = swept[i]
    BY <1>t, <2>1, <2>2
  <2>5. \A i \in File : i # at /\ Seen(i) => Seen(i)'
    BY <2>2, <2>4, SeenKept DEF inputs
  <2>6. Books'
    <3>1. errors' = {} => \A i \in File : i < at' => Seen(i)'
      <4>1. \A i \in File : i < at' => i < at /\ i # at
        BY <1>0, <1>t, <2>2
      <4> QED
        BY <2>2, <2>3, <2>5, <4>1 DEF RunInv, Books
    <3> QED
      BY <2>2, <2>3, <3>1 DEF RunInv, Books, Failing
  <2>7. SoFar'
    BY <2>1, <2>2, <2>3, <2>4 DEF RunInv, SoFar
  <2> QED
    BY <1>0, <1>t, <2>1, <2>2, <2>4, <2>6, <2>7 DEF RunInv
<1>11. ASSUME pc = "emit", Collect, NextFile, UNCHANGED <<inputs, swept, errors, stdout>>
       PROVE  RunInv'
  <2>1. /\ pc' = "load" /\ at' = at + 1 /\ at \in File
        /\ has_errors' = (has_errors \/ Failing(swept[at].found) # {})
        /\ UNCHANGED <<opts, selection, contents, swept, errors, stdout, code>>
    BY <1>11, SuppressedNeverFail DEF Collect, Judge, NextFile, GoTo, inputs, RunInv
  <2>2. /\ has_errors => has_errors'
        /\ Failing(swept[at].found) # {} => has_errors'
        /\ has_errors' => has_errors \/ Failing(swept[at].found) # {}
    BY <2>1
  <2>3. \A i \in File : Seen(i) => Seen(i)'
    BY <2>1, <2>2, SeenKept DEF inputs
  <2>4. ASSUME errors = {}, NEW i \in File, i = at
        PROVE  Seen(i)'
    <3>1. SoFar /\ pc = "emit"
      BY <1>11 DEF RunInv
    <3> QED
      BY <2>1, <2>2, <2>4, <3>1 DEF SoFar, Seen, Failing
  <2>5. errors' = {} => \A i \in File : i < at' => Seen(i)'
    <3>1. \A i \in File : i < at' => i < at \/ i = at
      BY <1>0, <2>1
    <3>2. errors' = errors /\ Books
      BY <1>11, <2>1 DEF RunInv
    <3> QED
      BY <2>3, <2>4, <3>1, <3>2 DEF Books
  <2>6. has_errors' => \E i \in File : contents[i].load = "ok" /\ Failing(contents[i].truth) # {}
    BY <1>11, <1>t, <2>1, <2>2, FailingGrows DEF RunInv, Books, SoFar
  <2>7. Books'
    <3>1. errors = {} => (selection.gap => opts.partial)
      BY <1>11 DEF RunInv, Books
    <3> QED
      BY <2>1, <2>5, <2>6, <3>1 DEF Books, Failing
  <2> QED
    BY <1>0, <1>11, <1>t, <2>1, <2>7 DEF RunInv
<1>12. CASE EmitText
  <2>1. CASE Collect /\ NextFile /\ UNCHANGED stdout
    BY <1>11, <1>12, <2>1 DEF EmitText
  <2>2. CASE WriteFails /\ UNCHANGED <<at, results, has_errors>>
    BY <1>12, <2>2, NoVerdict DEF EmitText, WriteFails, grading
  <2> QED
    BY <1>12, <2>1, <2>2 DEF EmitText
<1>13. CASE EmitJson
  BY <1>11, <1>13 DEF EmitJson
<1>14. CASE EmitSarif
  BY <1>11, <1>14 DEF EmitSarif
<1>15. CASE Vanish
  <2>1. /\ pc = "emit" /\ pc' = "load" /\ at' = at + 1 /\ at \in File /\ errors' # {}
        /\ swept' = [swept EXCEPT ![at].reread = FALSE]
        /\ UNCHANGED <<opts, selection, contents, has_errors, stdout, code>>
    BY <1>15 DEF Vanish, NextFile, GoTo, inputs, RunInv
  <2>2. /\ DOMAIN swept' = File
        /\ \A i \in File : i # at => swept'[i] = swept[i]
        /\ swept'[at].found = swept[at].found
    BY <1>t, <2>1
  <2>3. Books'
    BY <1>0, <2>1 DEF RunInv, Books
  <2> QED
    BY <1>0, <1>t, <2>1, <2>2, <2>3 DEF RunInv
<1>16. CASE AllGraded
  <2>1. /\ pc = "load" /\ pc' = "exclusions" /\ at = N + 1 /\ at' = at
        /\ UNCHANGED <<opts, selection, contents, swept, errors, has_errors, stdout, code>>
    BY <1>0, <1>16, <1>t DEF AllGraded, GoTo, inputs, grading
  <2>2. \A i \in File : Seen(i) => Seen(i)'
    BY <2>1, SeenKept DEF inputs
  <2>3. Books'
    BY <2>1, <2>2 DEF RunInv, Books
  <2> QED
    BY <1>0, <1>t, <2>1, <2>3 DEF RunInv
<1>17. CASE CheckExclusions
  <2>1. /\ pc = "exclusions" /\ pc' = "report" /\ at = N + 1 /\ at' = at
        /\ errors \subseteq errors'
        /\ UNCHANGED <<opts, selection, contents, swept, has_errors, stdout, code>>
    BY <1>17 DEF CheckExclusions, GoTo, inputs, RunInv
  <2>2. \A i \in File : Seen(i) => Seen(i)'
    BY <2>1, SeenKept DEF inputs
  <2>3. Books'
    BY <2>1, <2>2 DEF RunInv, Books
  <2> QED
    BY <1>0, <1>t, <2>1, <2>3 DEF RunInv
<1>18. CASE Report
  <2>1. CASE WriteFails
    BY <1>18, <2>1, <1>t, NoVerdict DEF Report, WriteFails
  <2>2. CASE ~WriteFails
    <3>1. /\ pc = "report" /\ pc' = "exiting" /\ code' = Code
          /\ stdout'.doc = "report"
          /\ UNCHANGED <<opts, selection, contents, at, swept, errors, has_errors>>
      BY <1>18, <2>2 DEF Report, Leave, inputs, grading
    <3>2. code' \in {0, 1, 2} /\ (code' # 2 => errors = {} /\ (has_errors <=> code' = 1))
      BY <1>t, <3>1 DEF Code
    <3>3. Books /\ at = N + 1
      BY <3>1 DEF RunInv
    <3>4. \A i \in File : Seen(i) => Seen(i)'
      BY <3>1, SeenKept DEF inputs
    <3>5. Books'
      BY <3>1, <3>3, <3>4 DEF Books
    <3> QED
      BY <1>0, <1>t, <3>1, <3>2, <3>3, <3>5 DEF RunInv, Verdicted
  <2> QED
    BY <2>1, <2>2
<1>19. CASE Flush
  <2>1. CASE WriteFails
    BY <1>19, <2>1, <1>t, NoVerdict DEF Flush, WriteFails
  <2>2. CASE ~WriteFails
    <3>1. /\ pc = "exiting" /\ pc' = "done" /\ code' = code
          /\ delivered' = TRUE /\ stdout' = stdout
          /\ UNCHANGED <<opts, selection, contents, at, swept, errors, has_errors>>
      BY <1>19, <2>2 DEF Flush, inputs, grading
    <3>3. \A i \in File : Seen(i) => Seen(i)'
      BY <3>1, SeenKept DEF inputs
    <3>4. code \in {0, 1} => Books'
      BY <3>1, <3>3 DEF RunInv, Verdicted, Books
    <3> QED
      BY <1>0, <1>t, <3>1, <3>4 DEF RunInv, Verdicted
  <2> QED
    BY <2>1, <2>2
<1>20. CASE UNCHANGED vars
  <2>1. \A i : Seen(i) <=> Seen(i)'
    BY <1>20 DEF vars, Seen, Failing
  <2> QED
    BY <1>20, <2>1 DEF vars, RunInv, Books, SoFar, Verdicted
<1> QED
  BY <1>1, <1>2, <1>3, <1>4, <1>5, <1>5a, <1>6, <1>7, <1>8, <1>9, <1>10, <1>12, <1>13, <1>14,
     <1>15, <1>16, <1>17, <1>18, <1>19, <1>20 DEF Next

LEMMA RunInvariant == Spec => []RunInv
<1> QED
  BY InitRun, RunStep, PTL DEF Spec

-----------------------------------------------------------------------------
(* Exit 0 is never a silence: unless the caller accepted partial coverage, *)
(* every file was seen in full, none fails, and the report was delivered.  *)
THEOREM ExitZeroIsClean == Spec => []NoSilentPass
<1>1. RunInv => NoSilentPass
  <2> SUFFICES ASSUME RunInv, Done(0), ~opts.partial
               PROVE  (\A i \in File : Clean(i)) /\ ~selection.gap /\ delivered
    BY DEF NoSilentPass
  <2>0. N \in Nat /\ File = 1 .. N
    BY CheckAssumption DEF File
  <2>1. Verdicted(0) /\ delivered
    BY DEF RunInv, Done
  <2>2. \A i \in File : Seen(i)
    BY <2>0, <2>1 DEF Verdicted, Books
  <2>3. ~selection.gap /\ ~has_errors
    BY <2>1 DEF Verdicted, Books
  <2>4. ASSUME NEW i \in File
        PROVE  Clean(i)
    <3>1. contents[i] \in Contents
      BY DEF RunInv
    <3>2. contents[i].load \in {"ok", "inapplicable"} /\ contents[i].gap \in BOOLEAN
      BY <2>2, <3>1, CheckAssumption DEF Seen
    <3>3. CASE contents[i].load = "ok"
      <4>1. swept[i].found = contents[i].truth /\ Failing(swept[i].found) = {}
        BY <2>2, <2>3, <3>3 DEF Seen
      <4> QED
        BY <2>2, <3>2, <3>3, <4>1 DEF Seen, Clean
    <3> QED
      BY <3>2, <3>3 DEF Clean
  <2> QED
    BY <2>1, <2>3, <2>4
<1> QED
  BY <1>1, RunInvariant, PTL

(* Exit 1 is a verdict: nothing failed on the way to it, and some file     *)
(* really has a finding at the threshold.                                  *)
THEOREM ExitOneIsAVerdict == Spec => []FailMeansFindings
<1>1. RunInv => FailMeansFindings
  <2> SUFFICES ASSUME RunInv, Done(1)
               PROVE  /\ \A i \in File : contents[i].load # "broken" /\ ~swept[i].crashed
                                           /\ swept[i].reread
                      /\ \E i \in File : contents[i].load = "ok" /\ Failing(contents[i].truth) # {}
                      /\ stdout.doc = "report" /\ delivered
    BY DEF FailMeansFindings
  <2>0. N \in Nat /\ File = 1 .. N
    BY CheckAssumption DEF File
  <2>1. Verdicted(1) /\ delivered
    BY DEF RunInv, Done
  <2>2. \A i \in File : Seen(i)
    BY <2>0, <2>1 DEF Verdicted, Books
  <2> QED
    BY <2>1, <2>2 DEF Verdicted, Books, Seen
<1> QED
  BY <1>1, RunInvariant, PTL

-----------------------------------------------------------------------------
(* Every diagnostic is of a kind a report knows, of a file of the run.     *)
TypeInv ==
  /\ TypeOK
  /\ contents \in [File -> Contents]
  /\ pc \in {"sweep", "emit"} => at \in File

THEOREM CheckTyped == Spec => []TypeOK
<1>0. N \in Nat /\ File = 1 .. N
  BY CheckAssumption DEF File
<1>1. Init => TypeInv
  <2> SUFFICES ASSUME Init
               PROVE  TypeInv
    OBVIOUS
  <2>1. pc = "start" /\ at = 1 /\ errors = {} /\ warnings = {} /\ ~has_errors /\ seen = {}
    BY DEF Init
  <2>2. has_errors \in BOOLEAN /\ code = 0 /\ contents \in [File -> Contents]
    BY DEF Init
  <2> QED
    BY <1>0, <2>1, <2>2 DEF TypeInv, TypeOK
<1>2. TypeInv /\ [Next]_vars => TypeInv'
  <2> SUFFICES ASSUME TypeInv, [Next]_vars
               PROVE  TypeInv'
    OBVIOUS
  <2>0. /\ at \in 1 .. N + 1 /\ errors \subseteq Diagnostics /\ warnings \subseteq Diagnostics
        /\ has_errors \in BOOLEAN /\ seen \subseteq Service /\ code \in {0, 1, 2, 120}
        /\ contents \in [File -> Contents]
    BY DEF TypeInv, TypeOK
  <2>c. pc \in {"sweep", "emit"} => at \in File /\ at \in 0 .. N /\ at + 1 \in 1 .. N + 1
    BY <1>0 DEF TypeInv
  <2>a. ASSUME NEW kind \in Kind, NEW file \in 0 .. N, NEW cause \in Cause
        PROVE  Diagnostic(kind, file, cause) \in Diagnostics
    BY DEF Diagnostic, Diagnostics
  <2>b. at \in File => at \in 0 .. N /\ at + 1 \in 1 .. N + 1
    BY <1>0
  <2>d. RunLevel \in 0 .. N
    BY <1>0 DEF RunLevel
  <2>1. ASSUME /\ at' = at \/ (at \in File /\ at' = at + 1)
               /\ code' \in {0, 1, 2, 120}
               /\ pc' \in {"plan", "load", "exiting", "crashed", "done", "exclusions"}
               /\ UNCHANGED <<contents, errors, warnings, has_errors, seen>>
        PROVE  TypeInv'
    BY <2>0, <2>1, <2>b DEF TypeInv, TypeOK
  <2>2. CASE Open
    <3>1. SelectionGap \in Diagnostics
      BY <2>a, <2>d DEF SelectionGap, Kind, Cause
    <3>2. errors' \subseteq Diagnostics /\ warnings' \subseteq Diagnostics
      BY <2>0, <2>2, <3>1 DEF Open, ReportGaps
    <3> QED
      BY <2>0, <2>2, <3>2 DEF Open, GoTo, WriteFails, inputs, TypeInv, TypeOK
  <2>3. CASE Refuse
    <3>1. Diagnostic("parse", at, "load") \in Diagnostics
      BY <2>3, <2>a, <2>b DEF Refuse, Loading, Kind, Cause
    <3> QED
      BY <2>0, <2>3, <2>b, <3>1 DEF Refuse, Loading, NextFile, GoTo, inputs, TypeInv, TypeOK
  <2>4. CASE Load
    <3>1. /\ Diagnostic("coverage_gap", at, "document") \in Diagnostics
          /\ Diagnostic("unread_input", at, "note") \in Diagnostics
      BY <2>4, <2>a, <2>b DEF Load, Loading, Kind, Cause
    <3>2. errors' \subseteq Diagnostics /\ warnings' \subseteq Diagnostics
      BY <2>0, <2>4, <3>1 DEF Load, ReportGaps
    <3>3. contents[at] \in Contents
      BY <2>0, <2>4 DEF Load, Loading
    <3>4. seen' \subseteq Service
      BY <2>0, <2>4, <3>3 DEF Load, Service
    <3> QED
      BY <2>0, <2>4, <3>2, <3>4 DEF Load, Loading, GoTo, inputs, TypeInv, TypeOK
  <2>5. CASE Sweep
    <3>1. PICK crashed \in BOOLEAN, stopped \in BOOLEAN :
            ReportGaps(IF stopped THEN {Diagnostic("coverage_gap", at, "limit")} ELSE {},
                       IF crashed THEN {Diagnostic("rule_crash", at, "rule")} ELSE {}, {})
      BY <2>5 DEF Sweep
    <3>2. /\ Diagnostic("coverage_gap", at, "limit") \in Diagnostics
          /\ Diagnostic("rule_crash", at, "rule") \in Diagnostics
      BY <2>5, <2>a, <2>c DEF Sweep, Kind, Cause
    <3>3. errors' \subseteq Diagnostics /\ warnings' \subseteq Diagnostics
      BY <2>0, <3>1, <3>2 DEF ReportGaps
    <3>4. pc' = "emit" /\ UNCHANGED <<contents, at, has_errors, seen, code>>
      BY <2>5 DEF Sweep, GoTo, inputs
    <3> QED
      BY <2>0, <2>5, <2>c, <3>3, <3>4 DEF Sweep, TypeInv, TypeOK
  <2>6. ASSUME pc = "emit", Collect, NextFile, UNCHANGED <<inputs, errors, seen>>,
               warnings' \subseteq Diagnostics
        PROVE  TypeInv'
    <3>1. has_errors' \in BOOLEAN
      BY <2>0, <2>6 DEF Collect, Judge
    <3> QED
      BY <2>0, <2>6, <2>c, <3>1 DEF NextFile, GoTo, inputs, TypeInv, TypeOK
  <2>7. CASE EmitText \/ EmitJson \/ EmitSarif
    <3>1. CASE WriteFails /\ UNCHANGED <<contents, at, errors, warnings, has_errors, seen>>
      BY <2>0, <2>1, <3>1 DEF WriteFails
    <3>2. CASE EmitText /\ ~(WriteFails /\ UNCHANGED <<contents, at, errors, warnings, has_errors, seen>>)
      BY <2>0, <2>6, <3>2 DEF EmitText, inputs
    <3>3. CASE EmitJson
      BY <2>0, <2>6, <3>3 DEF EmitJson
    <3>4. CASE EmitSarif
      <4>1. Diagnostic("rule_crash", at, "fixer") \in Diagnostics
        BY <2>a, <2>c, <3>4 DEF EmitSarif, Kind, Cause
      <4>2. warnings' \subseteq Diagnostics
        BY <2>0, <3>4, <4>1 DEF EmitSarif
      <4> QED
        BY <2>6, <3>4, <4>2 DEF EmitSarif
    <3> QED
      BY <2>7, <3>1, <3>2, <3>3, <3>4
  <2>8. CASE Vanish
    <3>1. Diagnostic("parse", at, "reread") \in Diagnostics
      BY <2>8, <2>a, <2>c DEF Vanish, Kind, Cause
    <3> QED
      BY <2>0, <2>8, <2>c, <3>1 DEF Vanish, NextFile, GoTo, inputs, TypeInv, TypeOK
  <2>9. CASE CheckExclusions
    <3>1. Diagnostic("run", RunLevel, "unknown service") \in Diagnostics
      BY <2>a, <2>d DEF Kind, Cause
    <3>2. errors' \subseteq Diagnostics
      BY <2>0, <2>9, <3>1 DEF CheckExclusions
    <3> QED
      BY <2>0, <2>9, <3>2 DEF CheckExclusions, GoTo, inputs, TypeInv, TypeOK
  <2>10. CASE StdoutClosed
    BY <2>1, <2>10 DEF StdoutClosed, WriteFails, inputs, grading
  <2>11. CASE Start
    BY <2>0, <2>1, <2>11 DEF Start, GoTo, inputs, grading
  <2>12. CASE NothingToLint
    BY <2>1, <2>12 DEF NothingToLint, Envelope, Leave, inputs, grading
  <2>13. CASE ConfigError
    BY <2>1, <2>13 DEF ConfigError, Envelope, Leave, inputs, grading
  <2>14. CASE InternalError
    BY <2>1, <2>14 DEF InternalError, WriteFails, inputs, grading
  <2>15. CASE Finalize
    BY <2>0, <2>1, <2>15 DEF Finalize, inputs, grading
  <2>16. CASE Flush
    BY <2>0, <2>1, <2>16 DEF Flush, WriteFails, inputs, grading
  <2>17. CASE Skip
    BY <2>0, <2>1, <2>17 DEF Skip, Loading, NextFile, GoTo, inputs, grading
  <2>18. CASE AllGraded
    BY <2>0, <2>1, <2>18 DEF AllGraded, GoTo, inputs, grading
  <2>19. CASE Report
    BY <2>0, <2>1, <2>19 DEF Report, Leave, WriteFails, Code, inputs, grading
  <2>20. CASE UNCHANGED vars
    BY <2>20 DEF vars, TypeInv, TypeOK
  <2> QED
    BY <2>2, <2>3, <2>4, <2>5, <2>7, <2>8, <2>9, <2>10, <2>11, <2>12, <2>13, <2>14, <2>15,
       <2>16, <2>17, <2>18, <2>19, <2>20 DEF Next
<1> QED
  BY <1>1, <1>2, PTL DEF Spec, TypeInv

-----------------------------------------------------------------------------
(* The accounts of the loop, kept by content: an error has a cause in the  *)
(* files, the flags or the config, the names seen are those of the files   *)
(* loaded, and has_errors is what the sweeps found.                        *)
Blamed ==
  \/ \E i \in File : contents[i].load = "broken" \/ swept[i].crashed \/ ~swept[i].reread
  \/ Gaps # {} /\ ~opts.partial
  \/ opts.strict /\ \E s \in selection.excludes :
       ~ \E i \in File : contents[i].load = "ok" /\ s \in contents[i].services

SeenBefore(k) ==
  \A s : s \in seen <=>
    \E i \in File : i < k /\ contents[i].load = "ok" /\ s \in contents[i].services

Accounts ==
  /\ errors # {} => Blamed
  /\ \A i \in File : swept[i] # Unswept => contents[i].load = "ok"
  /\ \A i \in File : i < at /\ swept[i].reread /\ Failing(swept[i].found) # {} => has_errors
  /\ has_errors => \E i \in File : Failing(swept[i].found) # {}

NamesKnown == errors = {} /\ opts.strict => selection.excludes \subseteq seen

Told == stdout.doc = "report" /\ (pc = "exiting" \/ (pc = "done" /\ delivered))

ContentInv ==
  /\ pc \notin {"exiting", "crashed", "done"} => Accounts
  /\ pc \in {"start", "plan", "load", "exclusions", "report"} => SeenBefore(at)
  /\ pc \in {"sweep", "emit"} => SeenBefore(at + 1)
  /\ pc = "report" => NamesKnown
  /\ pc \in {"start", "plan"} => stdout = Blank
  /\ pc \notin {"exiting", "crashed", "done"} => stdout \in {Blank, [Blank EXCEPT !.doc = "begun"]}
  /\ stdout.doc = "report" => pc \in {"exiting", "done"}
  /\ pc # "done" => ~delivered
  /\ Told => /\ at = N + 1 /\ Accounts /\ SeenBefore(at) /\ NamesKnown
             /\ code = Code

LEMMA InitContent == Init => ContentInv
<1> SUFFICES ASSUME Init
             PROVE  ContentInv
  OBVIOUS
<1>0. N \in Nat /\ File = 1 .. N
  BY CheckAssumption DEF File
<1>1. \A i \in File : swept[i] = Unswept
  BY DEF Init
<1>2. Accounts
  BY <1>1 DEF Init, Accounts, Unswept, Failing
<1>3. SeenBefore(at)
  BY <1>0 DEF Init, SeenBefore
<1> QED
  BY <1>2, <1>3 DEF Init, ContentInv, Told, Blank

(* Leaving the run without a delivered report asks for nothing.            *)
LEMMA NothingTold ==
  ASSUME ContentInv, pc' \in {"exiting", "crashed", "done"}, stdout'.doc # "report",
         pc' # "done" => delivered' = delivered, pc # "done"
  PROVE  ContentInv'
BY DEF ContentInv, Told

(* A document that could not be written is never delivered.                *)
LEMMA NotWritten ==
  ASSUME ContentInv, WriteFails, pc # "done"
  PROVE  ContentInv'
BY DEF ContentInv, Told, WriteFails

(* What is blamed stays so, whatever is swept next.                        *)
LEMMA BlameStays ==
  ASSUME Blamed, UNCHANGED inputs,
         \A i \in File : swept'[i] = swept[i] \/ swept[i] = Unswept
  PROVE  Blamed'
<1>1. CASE \E i \in File : contents[i].load = "broken" \/ swept[i].crashed \/ ~swept[i].reread
  BY <1>1 DEF Blamed, inputs, Unswept
<1>2. CASE Gaps # {} /\ ~opts.partial
  <2>1. Gaps \subseteq Gaps'
    BY DEF Gaps, inputs, Unswept
  <2> QED
    BY <1>2, <2>1 DEF Blamed, inputs
<1>3. CASE opts.strict /\ \E s \in selection.excludes :
             ~ \E i \in File : contents[i].load = "ok" /\ s \in contents[i].services
  BY <1>3 DEF Blamed, inputs
<1> QED
  BY <1>1, <1>2, <1>3 DEF Blamed

(* A step that sweeps nothing and finds nothing keeps the accounts, if     *)
(* what it adds to the errors has a cause.                                 *)
LEMMA AccountsStay ==
  ASSUME Accounts, UNCHANGED <<inputs, at, swept, has_errors>>,
         errors' # errors => Blamed
  PROVE  Accounts'
<1>1. Blamed => Blamed'
  BY BlameStays
<1> QED
  BY <1>1 DEF Accounts, inputs, Failing

LEMMA ContentStep == RunInv /\ ContentInv /\ [Next]_vars => ContentInv'
<1> SUFFICES ASSUME RunInv, ContentInv, [Next]_vars
             PROVE  ContentInv'
  OBVIOUS
<1>0. N \in Nat /\ File = 1 .. N
  BY CheckAssumption DEF File
<1>t. /\ DOMAIN swept = File /\ at \in 1 .. N + 1 /\ has_errors \in BOOLEAN
      /\ pc \in {"start", "plan", "load", "sweep"} =>
           \A i \in File : i >= at => swept[i] = Unswept
      /\ pc \in {"sweep", "emit"} => at \in File /\ contents[at].load = "ok"
      /\ opts.format \in {"text", "json", "sarif"}
  BY CheckAssumption DEF RunInv, SoFar
<1>1. CASE StdoutClosed
  BY <1>1, NotWritten DEF StdoutClosed
<1>2. CASE Start
  BY <1>2 DEF Start, GoTo, inputs, grading, ContentInv, Told, Accounts, Blamed, Gaps,
              SeenBefore, Failing
<1>3. CASE NothingToLint \/ ConfigError
  <2>1. /\ pc = "plan" /\ pc' = "exiting" /\ delivered' = delivered
        /\ \/ stdout' = stdout
           \/ \E failures : stdout' = [Blank EXCEPT !.doc = "envelope", !.errors = failures]
    BY <1>3 DEF NothingToLint, ConfigError, Envelope, Leave
  <2>2. stdout.doc # "report"
    BY <2>1 DEF ContentInv, Blank
  <2>3. stdout'.doc # "report"
    BY <2>1, <2>2 DEF Blank
  <2> QED
    BY <2>1, <2>3, NothingTold
<1>4. CASE InternalError
  <2>1. pc \notin {"exiting", "done"} /\ stdout.doc # "report"
    BY <1>4 DEF InternalError, ContentInv
  <2>2. CASE WriteFails
    BY <2>1, <2>2, NotWritten
  <2>3. CASE ~WriteFails
    <3>1. pc' = "crashed" /\ delivered' = delivered
      BY <1>4, <2>3 DEF InternalError
    <3>2. stdout'.doc # "report"
      <4>1. CASE opts.format # "text"
        BY <1>4, <2>3, <4>1 DEF InternalError, Blank
      <4>2. CASE opts.format = "text" /\ pc = "report"
        <5>1. stdout' = [stdout EXCEPT !.doc = "part"]
          BY <1>4, <2>3, <4>2 DEF InternalError
        <5>2. stdout \in {Blank, [Blank EXCEPT !.doc = "begun"]}
          BY <4>2 DEF ContentInv
        <5> QED
          BY <5>1, <5>2 DEF Blank
      <4>3. CASE opts.format = "text" /\ pc # "report"
        <5>1. stdout' = stdout
          BY <1>4, <2>3, <4>3 DEF InternalError
        <5> QED
          BY <2>1, <5>1
      <4> QED
        BY <4>1, <4>2, <4>3
    <3> QED
      BY <2>1, <3>1, <3>2, NothingTold
  <2> QED
    BY <2>2, <2>3
<1>5. CASE Finalize
  BY <1>5, NothingTold DEF Finalize, ContentInv
<1>6. CASE Open
  <2>1. CASE WriteFails
    BY <1>6, <2>1, NotWritten DEF Open
  <2>2. CASE ~WriteFails
    <3>1. /\ pc = "plan" /\ pc' = "load" /\ UNCHANGED <<inputs, at, swept, has_errors, seen>>
          /\ delivered' = delivered
          /\ stdout' = stdout \/ stdout' = [stdout EXCEPT !.doc = "begun"]
      BY <1>6, <2>2 DEF Open, GoTo
    <3>p. /\ stdout'.doc # "report"
          /\ stdout' \in {Blank, [Blank EXCEPT !.doc = "begun"]}
      <4>1. stdout = Blank
        BY <3>1 DEF ContentInv
      <4> QED
        BY <3>1, <4>1 DEF Blank
    <3>2. errors' # errors => Blamed
      BY <1>6, <2>2 DEF Open, ReportGaps, Blamed, Gaps
    <3>3. Accounts' /\ SeenBefore(at)'
      BY <3>1, <3>2, AccountsStay DEF ContentInv, SeenBefore, inputs
    <3> QED
      BY <3>1, <3>p, <3>3 DEF ContentInv, Told
  <2> QED
    BY <2>1, <2>2
<1>7. CASE Skip \/ Refuse
  <2>1. /\ pc = "load" /\ pc' = "load" /\ at \in File /\ at' = at + 1
        /\ contents[at].load # "ok"
        /\ UNCHANGED <<inputs, swept, has_errors, seen, stdout, delivered>>
    BY <1>7 DEF Skip, Refuse, Loading, NextFile, GoTo, grading
  <2>2. errors' # errors => Blamed
    BY <1>7 DEF Skip, Refuse, Loading, grading, Blamed
  <2>3. Blamed => Blamed'
    BY <2>1, BlameStays
  <2>4. Accounts'
    <3>1. Accounts /\ swept[at] = Unswept
      BY <1>0, <1>t, <2>1 DEF ContentInv
    <3>2. \A i \in File : i < at + 1 => i < at \/ i = at
      BY <1>0, <2>1
    <3> QED
      BY <2>1, <2>2, <2>3, <3>1, <3>2 DEF Accounts, inputs, Failing, Unswept
  <2>5. SeenBefore(at)'
    <3>1. \A i \in File : i < at + 1 <=> i < at \/ i = at
      BY <1>0, <2>1
    <3> QED
      BY <2>1, <3>1 DEF ContentInv, SeenBefore, inputs
  <2> QED
    BY <2>1, <2>4, <2>5 DEF ContentInv, Told
<1>8. CASE Load
  <2>1. /\ pc = "load" /\ pc' = "sweep" /\ at \in File /\ at' = at
        /\ contents[at].load = "ok" /\ seen' = seen \cup contents[at].services
        /\ UNCHANGED <<inputs, at, swept, has_errors, stdout, delivered>>
    BY <1>8 DEF Load, Loading, GoTo
  <2>2. errors' # errors => Blamed
    BY <1>8, <2>1 DEF Load, ReportGaps, Blamed, Gaps
  <2>3. Accounts'
    BY <2>1, <2>2, AccountsStay DEF ContentInv
  <2>4. SeenBefore(at + 1)'
    <3>1. \A i \in File : i < at + 1 <=> i < at \/ i = at
      BY <1>0, <2>1
    <3> QED
      BY <2>1, <3>1 DEF ContentInv, SeenBefore, inputs
  <2> QED
    BY <2>1, <2>3, <2>4 DEF ContentInv, Told
<1>9. CASE Sweep
  <2>1. PICK found \in SUBSET contents[at].truth, crashed \in BOOLEAN, stopped \in BOOLEAN :
          /\ swept' = [swept EXCEPT ![at] = [found |-> found, crashed |-> crashed,
                                             stopped |-> stopped, reread |-> TRUE]]
          /\ ReportGaps(IF stopped THEN {Diagnostic("coverage_gap", at, "limit")} ELSE {},
                        IF crashed THEN {Diagnostic("rule_crash", at, "rule")} ELSE {},
                        {})
    BY <1>9 DEF Sweep
  <2>2. /\ pc = "sweep" /\ pc' = "emit" /\ at \in File /\ contents[at].load = "ok"
        /\ UNCHANGED <<inputs, at, has_errors, seen, stdout, delivered>>
    BY <1>9, <1>t DEF Sweep, GoTo
  <2>3. /\ swept[at] = Unswept
        /\ swept'[at] = [found |-> found, crashed |-> crashed,
                         stopped |-> stopped, reread |-> TRUE]
        /\ \A i \in File : i # at => swept'[i] = swept[i]
    BY <1>0, <1>t, <2>1, <2>2
  <2>4. Blamed => Blamed'
    BY <2>2, <2>3, BlameStays
  <2>5. errors' # errors => Blamed'
    <3>1. CASE crashed
      BY <2>2, <2>3, <3>1 DEF Blamed
    <3>2. CASE ~crashed /\ errors' # errors
      <4>1. stopped /\ ~opts.partial
        BY <2>1, <3>2 DEF ReportGaps
      <4>2. Diagnostic("coverage_gap", at, "limit") \in Gaps'
        BY <2>2, <2>3, <4>1 DEF Gaps, inputs
      <4> QED
        BY <2>2, <4>1, <4>2 DEF Blamed, inputs
    <3> QED
      BY <3>1, <3>2
  <2>6. Accounts'
    <3>1. Accounts /\ \A i \in File : i < at => i # at
      BY <1>0, <2>2 DEF ContentInv
    <3>2. errors' # {} => Blamed'
      BY <2>4, <2>5, <3>1 DEF Accounts
    <3>3. has_errors' => \E i \in File : Failing(swept'[i].found) # {}
      BY <2>2, <2>3, <3>1 DEF Accounts, Failing, Unswept
    <3> QED
      BY <2>2, <2>3, <3>1, <3>2, <3>3 DEF Accounts, inputs, Failing
  <2>7. SeenBefore(at + 1)'
    BY <2>2 DEF ContentInv, SeenBefore, inputs
  <2> QED
    BY <2>2, <2>6, <2>7 DEF ContentInv, Told
<1>10. ASSUME pc = "emit", Collect, NextFile, UNCHANGED <<inputs, swept, errors, seen, stdout>>
       PROVE  ContentInv'
  <2>1. /\ pc' = "load" /\ at' = at + 1 /\ at \in File /\ delivered' = delivered
        /\ has_errors' = (has_errors \/ Failing(swept[at].found) # {})
    BY <1>10, <1>t, SuppressedNeverFail DEF Collect, Judge, NextFile, GoTo
  <2>2. /\ has_errors \/ Failing(swept[at].found) # {} => has_errors'
        /\ has_errors' => has_errors \/ Failing(swept[at].found) # {}
    BY <2>1
  <2>3. Blamed => Blamed'
    BY <1>10, BlameStays
  <2>4. Accounts'
    <3>1. Accounts /\ \A i \in File : i < at + 1 => i < at \/ i = at
      BY <1>0, <1>10, <2>1 DEF ContentInv
    <3>2. has_errors' => \E i \in File : Failing(swept'[i].found) # {}
      BY <1>10, <2>1, <2>2, <3>1 DEF Accounts
    <3>3. \A i \in File : i < at' /\ swept'[i].reread /\ Failing(swept'[i].found) # {}
                            => has_errors'
      BY <1>10, <2>1, <2>2, <3>1 DEF Accounts
    <3> QED
      BY <1>10, <2>3, <3>1, <3>2, <3>3 DEF Accounts, inputs, Failing
  <2>5. SeenBefore(at)'
    BY <1>10, <2>1 DEF ContentInv, SeenBefore, inputs
  <2> QED
    BY <1>10, <2>1, <2>4, <2>5 DEF ContentInv, Told
<1>11. CASE EmitText
  <2>1. CASE WriteFails
    BY <1>11, <2>1, NotWritten DEF EmitText
  <2>2. CASE ~WriteFails
    BY <1>10, <1>11, <2>2 DEF EmitText
  <2> QED
    BY <2>1, <2>2
<1>12. CASE EmitJson
  BY <1>10, <1>12 DEF EmitJson
<1>13. CASE EmitSarif
  BY <1>10, <1>13 DEF EmitSarif
<1>14. CASE Vanish
  <2>1. /\ pc = "emit" /\ pc' = "load" /\ at' = at + 1 /\ at \in File
        /\ contents[at].load = "ok"
        /\ swept' = [swept EXCEPT ![at].reread = FALSE]
        /\ UNCHANGED <<inputs, has_errors, seen, stdout, delivered>>
    BY <1>14, <1>t DEF Vanish, NextFile, GoTo
  <2>2. /\ \A i \in File : i # at => swept'[i] = swept[i]
        /\ \A i \in File : swept'[i].found = swept[i].found
    BY <1>t, <2>1
  <2>3. Blamed' /\ ~swept'[at].reread
    BY <1>t, <2>1 DEF Blamed, inputs
  <2>4. Accounts'
    <3>1. Accounts /\ \A i \in File : i < at + 1 => i < at \/ i = at
      BY <1>0, <2>1 DEF ContentInv
    <3> QED
      BY <2>1, <2>2, <2>3, <3>1 DEF Accounts, inputs, Failing
  <2>5. SeenBefore(at)'
    BY <2>1 DEF ContentInv, SeenBefore, inputs
  <2> QED
    BY <2>1, <2>4, <2>5 DEF ContentInv, Told
<1>15. CASE AllGraded
  <2>1. /\ pc = "load" /\ pc' = "exclusions"
        /\ UNCHANGED <<inputs, at, swept, errors, has_errors, seen, stdout, delivered>>
    BY <1>15 DEF AllGraded, GoTo, grading
  <2>2. Accounts' /\ SeenBefore(at)'
    BY <2>1, AccountsStay DEF ContentInv, SeenBefore, inputs
  <2> QED
    BY <2>1, <2>2 DEF ContentInv, Told
<1>16. CASE CheckExclusions
  <2>1. /\ pc = "exclusions" /\ pc' = "report" /\ at = N + 1
        /\ UNCHANGED <<inputs, at, swept, has_errors, seen, stdout, delivered>>
    BY <1>16 DEF CheckExclusions, GoTo, RunInv
  <2>2. SeenBefore(at) /\ \A i \in File : i < at
    BY <1>0, <2>1 DEF ContentInv
  <2>3. errors' # errors => Blamed
    BY <1>16, <2>2 DEF CheckExclusions, Blamed, SeenBefore
  <2>4. Accounts' /\ SeenBefore(at)'
    BY <2>1, <2>2, <2>3, AccountsStay DEF ContentInv, SeenBefore, inputs
  <2>5. NamesKnown'
    BY <1>16, <2>1 DEF CheckExclusions, NamesKnown, inputs
  <2> QED
    BY <2>1, <2>4, <2>5 DEF ContentInv, Told
<1>17. CASE Report
  <2>1. CASE WriteFails
    BY <1>17, <2>1, NotWritten DEF Report
  <2>2. CASE ~WriteFails
    <3>1. /\ pc = "report" /\ pc' = "exiting" /\ code' = Code /\ at = N + 1
          /\ UNCHANGED <<inputs, at, swept, errors, has_errors, seen, delivered>>
      BY <1>17, <2>2 DEF Report, Leave, grading, RunInv
    <3>2. Accounts' /\ SeenBefore(at)' /\ NamesKnown' /\ code' = Code'
      BY <3>1, AccountsStay DEF ContentInv, SeenBefore, NamesKnown, Code, inputs
    <3> QED
      BY <3>1, <3>2 DEF ContentInv, Told
  <2> QED
    BY <2>1, <2>2
<1>18. CASE Flush
  <2>1. CASE WriteFails
    BY <1>18, <2>1, NotWritten DEF Flush
  <2>2. CASE ~WriteFails
    <3>1. /\ pc = "exiting" /\ pc' = "done"
          /\ UNCHANGED <<inputs, at, swept, errors, has_errors, seen, stdout, code>>
      BY <1>18, <2>2 DEF Flush, grading
    <3>2. Accounts => Accounts'
      BY <3>1, AccountsStay
    <3> QED
      BY <3>1, <3>2 DEF ContentInv, Told, SeenBefore, NamesKnown, Code, inputs
  <2> QED
    BY <2>1, <2>2
<1>19. CASE UNCHANGED vars
  <2>1. Accounts <=> Accounts'
    BY <1>19 DEF vars, Accounts, Blamed, Gaps, Failing
  <2> QED
    BY <1>19, <2>1 DEF vars, ContentInv, Told, SeenBefore, NamesKnown, Code
<1> QED
  BY <1>1, <1>2, <1>3, <1>4, <1>5, <1>6, <1>7, <1>8, <1>9, <1>11, <1>12, <1>13, <1>14,
     <1>15, <1>16, <1>17, <1>18, <1>19 DEF Next

-----------------------------------------------------------------------------
(* The verdict is what the content of the files comes to, in every format  *)
(* and whatever the fixers did, as long as no file was lost to the second  *)
(* read.                                                                   *)
THEOREM VerdictFromContent == Spec => []VerdictByContent
<1>1. RunInv /\ ContentInv => VerdictByContent
  <2> SUFFICES ASSUME RunInv, ContentInv, pc = "done", stdout.doc = "report", delivered,
                      \A i \in File : swept[i].reread
               PROVE  code = Owed
    BY DEF VerdictByContent
  <2>0. N \in Nat /\ File = 1 .. N
    BY CheckAssumption DEF File
  <2>1. at = N + 1 /\ Accounts /\ SeenBefore(at) /\ NamesKnown /\ code = Code
    BY DEF ContentInv, Told
  <2>2. \A i \in File : i < at
    BY <2>0, <2>1
  <2> DEFINE Failed ==
        \/ \E i \in File : \/ contents[i].load = "broken"
                           \/ swept[i].crashed
        \/ Gaps # {} /\ ~opts.partial
        \/ opts.strict /\ \E s \in selection.excludes :
             ~ \E i \in File : contents[i].load = "ok" /\ s \in contents[i].services
  <2>3. CASE errors # {}
    <3>1. Failed
      BY <2>1, <2>3 DEF Accounts, Blamed
    <3> QED
      BY <2>1, <2>3, <3>1 DEF Code, Owed
  <2>4. CASE errors = {}
    <3>1. code \in {0, 1} /\ (code = 1 <=> has_errors)
      BY <2>1, <2>4 DEF Code
    <3>2. Books
      BY <3>1 DEF RunInv, Verdicted
    <3>3. \A i \in File : Seen(i)
      BY <2>2, <2>4, <3>2 DEF Books
    <3>4. \A i \in File : contents[i].load # "broken" /\ ~swept[i].crashed
      BY <3>3 DEF Seen
    <3>5. ~opts.partial => Gaps = {}
      <4>1. ASSUME ~opts.partial
            PROVE  /\ ~selection.gap
                   /\ \A i \in File : ~swept[i].stopped
                   /\ \A i \in File : contents[i].load = "ok" => ~contents[i].gap
        <5>1. ~selection.gap
          BY <2>4, <3>2, <4>1 DEF Books
        <5>2. \A i \in File : contents[i].load # "ok" => ~swept[i].stopped
          BY <2>1 DEF Accounts, Unswept
        <5> QED
          BY <3>3, <4>1, <5>1, <5>2 DEF Seen
      <4> QED
        BY <4>1 DEF Gaps
    <3>6. opts.strict => \A s \in selection.excludes :
            \E i \in File : contents[i].load = "ok" /\ s \in contents[i].services
      BY <2>1, <2>4 DEF NamesKnown, SeenBefore
    <3>7. ~Failed
      BY <3>4, <3>5, <3>6
    <3>8. has_errors <=> \E i \in File : Failing(swept[i].found) # {}
      BY <2>1, <2>2 DEF Accounts
    <3> QED
      BY <3>1, <3>7, <3>8 DEF Owed
  <2> QED
    BY <2>3, <2>4
<1>2. Spec => []ContentInv
  BY InitContent, ContentStep, RunInvariant, PTL DEF Spec
<1> QED
  BY <1>1, <1>2, RunInvariant, PTL

-----------------------------------------------------------------------------
(* What a delivered report shows.                                          *)

Fails(f) == f \in AtThreshold /\ f \notin Suppressed

Said == errors \cup warnings

(* The results listed so far are those has_errors was judged by.           *)
Listing ==
  /\ results \in Seq([file : File, finding : Finding])
  /\ has_errors <=> \E i \in DOMAIN results : Fails(results[i].finding)

(* Every gap the run has come past is an error or a warning.               *)
GapsSaid ==
  /\ pc \notin {"start", "plan"} /\ selection.gap => SelectionGap \in Said
  /\ \A i \in File :
       (i < at \/ (i = at /\ pc \in {"sweep", "emit"}))
         /\ contents[i].load = "ok" /\ contents[i].gap =>
            Diagnostic("coverage_gap", i, "document") \in Said
  /\ \A i \in File : swept[i].stopped => Diagnostic("coverage_gap", i, "limit") \in Said

Reported ==
  /\ opts.format = "text" =>
       stdout.verdict = CASE code = 0 -> "PASS" [] code = 1 -> "FAIL" [] code = 2 -> "ERROR"
  /\ opts.format # "text" =>
       /\ stdout.errors = {} <=> code # 2
       /\ Gaps \subseteq stdout.errors \cup stdout.warnings
  /\ code = 1 => \E r \in stdout.results : Failing({r.finding}) # {}

ShownInv ==
  /\ pc \notin {"exiting", "crashed", "done"} => Listing /\ GapsSaid
  /\ Told => Reported
  /\ stdout.doc = "envelope" =>
       /\ stdout.errors # {}
       /\ pc \in {"exiting", "crashed"} \/ (pc = "done" /\ delivered) => code = 2

LEMMA FailingOne ==
  ASSUME NEW f
  PROVE  Failing({f}) # {} <=> Fails(f)
BY DEF Failing, Fails

LEMMA ElementOfSequence ==
  ASSUME NEW S, NEW s \in Seq(S)
  PROVE  \A i \in DOMAIN s : s[i] \in S
OBVIOUS

LEMMA LeastOf ==
  ASSUME NEW S, S \subseteq Nat, S # {}
  PROVE  \E x \in S : \A y \in S : x <= y
<1> DEFINE R == OpToRel(<, Nat)
<1>1. IsWellFoundedOn(R, Nat)
  BY NatLessThanWellFounded
<1>2. \A x, y \in Nat : x < y => <<x, y>> \in R
  BY DEF OpToRel
<1> HIDE DEF R
<1>3. PICK x \in S : \A y \in S : ~(<<y, x>> \in R)
  BY <1>1, WFMin
<1>4. \A y \in S : ~(y < x)
  BY <1>2, <1>3
<1> QED
  BY <1>4

(* Truncation keeps the first of the most severe that fail, if any does:   *)
(* nothing is ahead of it.                                                 *)
LEMMA KeptShowsFailing ==
  ASSUME NEW rs, rs \in Seq([file : File, finding : Finding]),
         \E i \in DOMAIN rs : Fails(rs[i].finding)
  PROVE  \E r \in Kept(rs) : Failing({r.finding}) # {}
<1> DEFINE failing == {i \in DOMAIN rs : Fails(rs[i].finding)}
           rank(i) == Rank[rs[i].finding]
           ranks == {rank(i) : i \in failing}
<1>0. DOMAIN rs \subseteq Nat /\ (\A i \in DOMAIN rs : rs[i].finding \in Finding)
  <2>1. DOMAIN rs = 1 .. Len(rs) /\ Len(rs) \in Nat
    OBVIOUS
  <2>2. \A i \in DOMAIN rs : rs[i] \in [file : File, finding : Finding]
    BY ElementOfSequence
  <2> QED
    BY <2>1, <2>2
<1>1. \A i \in DOMAIN rs : rank(i) \in Nat
  BY <1>0, CheckAssumption
<1>2. PICK low \in ranks : \A n \in ranks : low <= n
  <2>1. ranks \subseteq Nat /\ ranks # {}
    BY <1>1
  <2> QED
    BY <2>1, LeastOf
<1>3. PICK first \in {i \in failing : rank(i) = low} :
        \A j \in {i \in failing : rank(i) = low} : first <= j
  <2>1. {i \in failing : rank(i) = low} \subseteq Nat /\ {i \in failing : rank(i) = low} # {}
    BY <1>0, <1>2
  <2> QED
    BY <2>1, LeastOf
<1> DEFINE key(i) == <<IF rs[i].finding \in Suppressed THEN 1 ELSE 0, Rank[rs[i].finding], i>>
           ahead(j, i) == \E k \in 1 .. 3 : /\ key(j)[k] < key(i)[k]
                                            /\ \A m \in 1 .. k - 1 : key(j)[m] = key(i)[m]
<1>4. ASSUME NEW j \in DOMAIN rs, ahead(j, first)
      PROVE  FALSE
  <2>0. /\ first \in DOMAIN rs /\ Fails(rs[first].finding) /\ rank(first) = low
        /\ low \in Nat /\ rank(j) \in Nat /\ first \in Nat /\ j \in Nat
    BY <1>0, <1>1, <1>2, <1>3
  <2>1. /\ key(j)[1] = IF rs[j].finding \in Suppressed THEN 1 ELSE 0
        /\ key(j)[2] = rank(j) /\ key(j)[3] = j
        /\ key(first)[1] = 0 /\ key(first)[2] = low /\ key(first)[3] = first
    BY <2>0 DEF Fails
  <2> HIDE DEF key, rank
  <2>2. PICK k \in 1 .. 3 : /\ key(j)[k] < key(first)[k]
                            /\ \A m \in 1 .. k - 1 : key(j)[m] = key(first)[m]
    BY <1>4
  <2>3. k = 1 \/ k = 2 \/ k = 3
    BY <2>2
  <2>4. k # 1
    BY <2>1, <2>2
  <2>5. key(j)[1] = key(first)[1]
    <3>1. 1 \in 1 .. k - 1
      BY <2>2, <2>4
    <3> QED
      BY <2>2, <3>1
  <2>6. rs[j].finding \notin Suppressed
    BY <2>1, <2>5
  <2>7. rank(j) <= low
    <3>1. CASE k = 2
      BY <2>0, <2>1, <2>2, <3>1
    <3>2. CASE k = 3
      <4>1. 2 \in 1 .. k - 1
        BY <3>2
      <4> QED
        BY <2>0, <2>1, <2>2, <4>1
    <3> QED
      BY <2>3, <2>4, <3>1, <3>2
  <2>8. rs[j].finding \in AtThreshold
    <3>1. /\ rs[j].finding \in Finding /\ rs[first].finding \in Finding \cap AtThreshold
          /\ rank(j) = Rank[rs[j].finding] /\ low = Rank[rs[first].finding]
      BY <1>0, <2>0 DEF Fails, rank
    <3>2. \A f \in Finding \cap AtThreshold, g \in Finding \ AtThreshold : Rank[f] < Rank[g]
      BY CheckAssumption
    <3>3. rs[j].finding \notin AtThreshold => low < rank(j)
      BY <3>1, <3>2
    <3> QED
      BY <2>0, <2>7, <3>3
  <2>9. j \in failing
    BY <2>6, <2>8 DEF Fails
  <2>10. rank(j) = low
    <3>1. low <= rank(j)
      BY <1>2, <2>9
    <3> QED
      BY <2>0, <2>7, <3>1
  <2>11. first <= j
    BY <1>3, <2>9, <2>10
  <2>12. k = 3
    BY <2>0, <2>1, <2>2, <2>3, <2>4, <2>10
  <2> QED
    BY <2>0, <2>1, <2>2, <2>11, <2>12
<1>5. first \in DOMAIN rs /\ Failing({rs[first].finding}) # {}
  BY <1>3, FailingOne
<1>6. first \in KeepMost(rs)
  <2>1. {j \in DOMAIN rs : ahead(j, first)} = {}
    BY <1>4
  <2> HIDE DEF ahead
  <2>2. Cardinality({j \in DOMAIN rs : ahead(j, first)}) = 0
    BY <2>1, FS_EmptySet
  <2>3. Cardinality({j \in DOMAIN rs : ahead(j, first)}) < MaxResults
    BY <2>2, CheckAssumption
  <2> QED
    BY <1>5, <2>3 DEF KeepMost, ahead
<1> QED
  BY <1>5, <1>6 DEF Kept

(* One file more is listed and judged.                                     *)
LEMMA ListingGrows ==
  ASSUME RunInv, Listing, pc = "emit", Collect
  PROVE  Listing'
<1> DEFINE order == Emitted[Shown(swept[at].found)]
           listed == Listed(at)
<1>0. at \in File /\ contents[at] \in Contents /\ swept[at].found \subseteq contents[at].truth
  BY DEF RunInv
<1>1. Shown(swept[at].found) \in SUBSET Finding
  BY <1>0, CheckAssumption DEF Shown
<1>2. order \in Seq(Finding) /\ {order[i] : i \in DOMAIN order} = Shown(swept[at].found)
  BY <1>1, CheckAssumption
<1> HIDE DEF order
<1>3. listed = [i \in DOMAIN order |-> [file |-> at, finding |-> order[i]]]
  BY DEF Listed, order
<1>4. DOMAIN order = 1 .. Len(order) /\ Len(order) \in Nat
  BY <1>2
<1>5. /\ listed \in Seq([file : File, finding : Finding])
      /\ DOMAIN listed = DOMAIN order /\ (\A i \in DOMAIN order : listed[i].finding = order[i])
  BY <1>0, <1>2, <1>3, <1>4
<1>6. (\E i \in DOMAIN listed : Fails(listed[i].finding))
        <=> Failing(Shown(swept[at].found)) # {}
  BY <1>2, <1>5 DEF Fails, Failing
<1> HIDE DEF listed
<1>7. results' = results \o listed /\ has_errors' = (has_errors \/ Failing(Shown(swept[at].found)) # {})
  BY DEF Collect, Judge, listed
<1>8. results \in Seq([file : File, finding : Finding])
  BY DEF Listing
<1>9. results' \in Seq([file : File, finding : Finding])
  BY <1>5, <1>7, <1>8
<1>10. (\E i \in DOMAIN results' : Fails(results'[i].finding))
         <=> \/ \E i \in DOMAIN results : Fails(results[i].finding)
             \/ \E i \in DOMAIN listed : Fails(listed[i].finding)
  <2>1. /\ DOMAIN results = 1 .. Len(results) /\ Len(results) \in Nat
        /\ DOMAIN listed = 1 .. Len(listed) /\ Len(listed) \in Nat
        /\ DOMAIN results' = 1 .. Len(results) + Len(listed)
    BY <1>5, <1>7, <1>8
  <2>2. \A i \in DOMAIN results : i \in DOMAIN results' /\ results'[i] = results[i]
    BY <1>5, <1>7, <1>8, <2>1
  <2>3. \A i \in DOMAIN listed : /\ Len(results) + i \in DOMAIN results'
                                 /\ results'[Len(results) + i] = listed[i]
    BY <1>5, <1>7, <1>8, <2>1
  <2>4. \A i \in DOMAIN results' : \/ i \in DOMAIN results
                                  \/ /\ i - Len(results) \in DOMAIN listed
                                     /\ i = Len(results) + (i - Len(results))
    BY <2>1
  <2> QED
    BY <2>2, <2>3, <2>4
<1>11. has_errors' <=> has_errors \/ Failing(Shown(swept[at].found)) # {}
  BY <1>7
<1> QED
  BY <1>6, <1>9, <1>10, <1>11 DEF Listing, File, Fails

(* What has been said stays said.                                          *)
LEMMA GapsStaySaid ==
  ASSUME GapsSaid, UNCHANGED <<inputs, at>>, Said \subseteq Said',
         pc \notin {"start", "plan"}, pc' \in {"sweep", "emit"} => pc \in {"sweep", "emit"},
         \A i \in File : swept'[i].stopped => swept[i].stopped
  PROVE  GapsSaid'
BY DEF GapsSaid, inputs, SelectionGap

(* The file is done with: its gaps were said when it was loaded.           *)
LEMMA GapsOfFile ==
  ASSUME GapsSaid, at \in File, at' = at + 1, UNCHANGED inputs, Said \subseteq Said',
         pc \notin {"start", "plan"}, pc' = "load",
         contents[at].load = "ok" => pc \in {"sweep", "emit"},
         \A i \in File : swept'[i].stopped => swept[i].stopped
  PROVE  GapsSaid'
<1>0. N \in Nat /\ File = 1 .. N
  BY CheckAssumption DEF File
<1>1. \A i \in File : i < at + 1 => i < at \/ i = at
  BY <1>0
<1> QED
  BY <1>1 DEF GapsSaid, inputs, SelectionGap

LEMMA ShownInvInit == Init => ShownInv
<1> SUFFICES ASSUME Init PROVE ShownInv
  OBVIOUS
<1>0. N \in Nat /\ File = 1 .. N
  BY CheckAssumption DEF File
<1>1. pc = "start" /\ at = 1 /\ stdout = Blank /\ (\A i \in File : swept[i] = Unswept)
  BY DEF Init
<1>2. results = << >> /\ ~has_errors
  BY DEF Init
<1>3. Listing
  BY <1>2 DEF Listing
<1>4. GapsSaid
  BY <1>0, <1>1 DEF GapsSaid, Unswept
<1>5. stdout.doc = "nothing"
  BY <1>1 DEF Blank
<1> QED
  BY <1>1, <1>3, <1>4, <1>5 DEF ShownInv, Told

(* A document that could not be written shows nothing.                     *)
LEMMA NotShown ==
  ASSUME ContentInv, ShownInv, WriteFails, pc # "done"
  PROVE  ShownInv'
BY DEF ContentInv, ShownInv, Told, WriteFails

(* The report says what the run has come to.                               *)
LEMMA ReportSays ==
  ASSUME RunInv, ShownInv, Report, ~WriteFails
  PROVE  Reported'
<1>0. N \in Nat /\ File = 1 .. N
  BY CheckAssumption DEF File
<1>1. /\ pc = "report" /\ at = N + 1 /\ code' = Code
      /\ UNCHANGED <<opts, selection, contents, swept, errors, results, has_errors>>
      /\ stdout' = [doc |-> "report",
                     verdict |-> IF opts.format = "text" THEN Verdict ELSE "none",
                     results |-> Kept(results),
                     errors |-> IF opts.format = "text" THEN {} ELSE errors,
                     warnings |-> IF opts.format = "text" THEN {} ELSE warnings \cup Truncation]
  BY DEF Report, Leave, RunInv, inputs, grading
<1>2. Listing /\ GapsSaid /\ has_errors \in BOOLEAN
  BY <1>1 DEF ShownInv, RunInv
<1>3. (\E i \in DOMAIN results : Failing({results[i].finding}) # {}) <=> has_errors
  BY <1>2, FailingOne DEF Listing
<1>4. opts.format = "text" =>
        stdout'.verdict = CASE code' = 0 -> "PASS" [] code' = 1 -> "FAIL" [] code' = 2 -> "ERROR"
  <2> SUFFICES ASSUME opts.format = "text"
               PROVE  Verdict = CASE code' = 0 -> "PASS" [] code' = 1 -> "FAIL"
                                  [] code' = 2 -> "ERROR"
    BY <1>1
  <2>1. CASE errors # {}
    BY <1>1, <2>1 DEF Verdict, Code
  <2>2. CASE errors = {} /\ has_errors
    <3>1. Verdict = "FAIL"
      BY <1>3, <2>2 DEF Verdict
    <3>2. code' = 1
      BY <1>1, <2>2 DEF Code
    <3> QED
      BY <3>1, <3>2
  <2>3. CASE errors = {} /\ ~has_errors
    <3>1. Verdict = "PASS"
      BY <1>3, <2>3 DEF Verdict
    <3>2. code' = 0
      BY <1>1, <2>3 DEF Code
    <3> QED
      BY <3>1, <3>2
  <2> QED
    BY <1>2, <2>1, <2>2, <2>3
<1>5. opts.format # "text" => (stdout'.errors = {} <=> code' # 2)
  BY <1>1 DEF Code
<1>6. opts.format # "text" => Gaps \subseteq stdout'.errors \cup stdout'.warnings
  <2>1. \A i \in File : i < at
    BY <1>0, <1>1
  <2>2. Gaps \subseteq Said
    BY <1>1, <1>2, <2>1 DEF Gaps, GapsSaid
  <2> QED
    BY <1>1, <2>2 DEF Said
<1>7. code' = 1 => \E r \in stdout'.results : Failing({r.finding}) # {}
  <2> SUFFICES ASSUME code' = 1
               PROVE  \E r \in Kept(results) : Failing({r.finding}) # {}
    BY <1>1
  <2>1. has_errors
    BY <1>1 DEF Code
  <2> QED
    BY <1>2, <2>1, KeptShowsFailing DEF Listing
<1>8. Gaps' = Gaps
  BY <1>1 DEF Gaps, SelectionGap
<1> QED
  BY <1>1, <1>4, <1>5, <1>6, <1>7, <1>8 DEF Reported, Failing

LEMMA ShownInvStep == RunInv /\ ContentInv /\ ShownInv /\ [Next]_vars => ShownInv'
<1> SUFFICES ASSUME RunInv, ContentInv, ShownInv, [Next]_vars
             PROVE  ShownInv'
  OBVIOUS
<1>0. N \in Nat /\ File = 1 .. N
  BY CheckAssumption DEF File
<1>t. /\ DOMAIN swept = File /\ at \in 1 .. N + 1
      /\ pc \in {"start", "plan"} => at = 1
      /\ pc \in {"start", "plan", "load", "sweep"} =>
           \A i \in File : i >= at => swept[i] = Unswept
      /\ pc \in {"sweep", "emit"} => at \in File /\ contents[at].load = "ok"
  BY DEF RunInv, SoFar
<1>d. /\ pc \notin {"exiting", "crashed", "done"} =>
           stdout.doc \notin {"report", "envelope"} /\ Listing /\ GapsSaid
      /\ stdout.doc = "report" => pc \in {"exiting", "done"}
      /\ pc # "done" => ~delivered
  BY DEF ContentInv, ShownInv, Blank
<1>1. CASE StdoutClosed
  BY <1>1, NotShown DEF StdoutClosed
<1>2. CASE Start
  BY <1>2, <1>d, <1>t, GapsStaySaid DEF Start, GoTo, inputs, grading, ShownInv, Told, Listing,
              GapsSaid, Said, SelectionGap
<1>3. CASE NothingToLint \/ ConfigError
  <2>1. /\ pc = "plan" /\ pc' = "exiting" /\ code' = 2
        /\ \/ stdout' = stdout
           \/ \E failures : failures # {} /\ stdout' = [Blank EXCEPT !.doc = "envelope", !.errors = failures]
    BY <1>3 DEF NothingToLint, ConfigError, Envelope, Leave
  <2>2. stdout'.doc # "report" /\ (stdout'.doc = "envelope" => stdout'.errors # {})
    BY <1>d, <2>1 DEF Blank
  <2> QED
    BY <2>1, <2>2 DEF ShownInv, Told
<1>4. CASE InternalError
  <2>1. pc \notin {"exiting", "crashed", "done"}
    BY <1>4 DEF InternalError
  <2>2. CASE WriteFails
    BY <2>1, <2>2, NotShown
  <2>3. CASE ~WriteFails
    <3>1. /\ pc' = "crashed" /\ code' = 2
          /\ \/ stdout' = [Blank EXCEPT !.doc = "envelope",
                                        !.errors = {Diagnostic("run", RunLevel, "internal")}]
             \/ stdout' = [stdout EXCEPT !.doc = "part"]
             \/ stdout' = stdout
      <4>1. CASE opts.format # "text"
        BY <1>4, <2>3, <4>1 DEF InternalError
      <4>2. CASE opts.format = "text" /\ pc = "report"
        BY <1>4, <2>3, <4>2 DEF InternalError
      <4>3. CASE opts.format = "text" /\ pc # "report"
        BY <1>4, <2>3, <4>3 DEF InternalError
      <4> QED
        BY <4>1, <4>2, <4>3
    <3>2. stdout \in {Blank, [Blank EXCEPT !.doc = "begun"]}
      BY <2>1 DEF ContentInv
    <3>3. stdout'.doc # "report" /\ (stdout'.doc = "envelope" => stdout'.errors # {})
      BY <1>d, <2>1, <3>1, <3>2 DEF Blank
    <3> QED
      BY <3>1, <3>3 DEF ShownInv, Told
  <2> QED
    BY <2>2, <2>3
<1>5. CASE Finalize
  <2>1. /\ pc = "crashed" /\ pc' = "done" /\ stdout' = stdout
        /\ code' = code \/ ~delivered'
    BY <1>5, <1>d DEF Finalize
  <2> QED
    BY <1>d, <2>1 DEF ShownInv, Told
<1>6. CASE Open
  <2>1. CASE WriteFails
    BY <1>6, <2>1, NotShown DEF Open
  <2>2. CASE ~WriteFails
    <3>1. /\ pc = "plan" /\ pc' = "load" /\ at' = at /\ at = 1
          /\ UNCHANGED <<opts, selection, contents, swept, results, has_errors>>
          /\ stdout' = stdout \/ stdout' = [stdout EXCEPT !.doc = "begun"]
          /\ ReportGaps(IF selection.gap THEN {SelectionGap} ELSE {}, {}, {})
      BY <1>6, <2>2, <1>t DEF Open, GoTo, inputs
    <3>2. Said \subseteq Said' /\ (selection.gap => SelectionGap \in Said')
      BY <3>1 DEF ReportGaps, Said
    <3>3. GapsSaid'
      BY <1>0, <1>d, <3>1, <3>2 DEF GapsSaid, SelectionGap
    <3>4. stdout'.doc \notin {"report", "envelope"}
      <4>1. stdout = Blank
        BY <3>1 DEF ContentInv
      <4> QED
        BY <3>1, <4>1 DEF Blank
    <3> QED
      BY <1>d, <3>1, <3>3, <3>4 DEF ShownInv, Told, Listing
  <2> QED
    BY <2>1, <2>2
<1>7. CASE Skip \/ Refuse
  <2>1. /\ pc = "load" /\ pc' = "load" /\ at \in File /\ at' = at + 1
        /\ contents[at].load # "ok"
        /\ UNCHANGED <<inputs, swept, has_errors, results, stdout>> /\ Said \subseteq Said'
    BY <1>7 DEF Skip, Refuse, Loading, NextFile, GoTo, grading, Said
  <2>2. GapsSaid'
    BY <1>d, <2>1, GapsOfFile
  <2> QED
    BY <1>d, <2>1, <2>2 DEF ShownInv, Told, Listing
<1>8. CASE Load
  <2>1. /\ pc = "load" /\ pc' = "sweep" /\ at' = at
        /\ UNCHANGED <<inputs, swept, has_errors, results, stdout>>
    BY <1>8 DEF Load, Loading, GoTo
  <2>2. /\ Said \subseteq Said'
        /\ contents[at].gap => Diagnostic("coverage_gap", at, "document") \in Said'
    BY <1>8 DEF Load, ReportGaps, Said
  <2>3. GapsSaid'
    BY <1>d, <2>1, <2>2 DEF GapsSaid, inputs, SelectionGap
  <2> QED
    BY <1>d, <2>1, <2>3 DEF ShownInv, Told, Listing
<1>9. CASE Sweep
  <2>1. PICK found \in SUBSET contents[at].truth, crashed \in BOOLEAN, stopped \in BOOLEAN :
          /\ swept' = [swept EXCEPT ![at] = [found |-> found, crashed |-> crashed,
                                             stopped |-> stopped, reread |-> TRUE]]
          /\ ReportGaps(IF stopped THEN {Diagnostic("coverage_gap", at, "limit")} ELSE {},
                        IF crashed THEN {Diagnostic("rule_crash", at, "rule")} ELSE {},
                        {})
    BY <1>9 DEF Sweep
  <2>2. /\ pc = "sweep" /\ pc' = "emit" /\ at \in File /\ at' = at
        /\ UNCHANGED <<inputs, has_errors, results, stdout>>
    BY <1>9, <1>t DEF Sweep, GoTo
  <2>3. /\ swept'[at].stopped = stopped
        /\ \A i \in File : i # at => swept'[i] = swept[i]
    BY <1>t, <2>1, <2>2
  <2>4. /\ Said \subseteq Said'
        /\ stopped => Diagnostic("coverage_gap", at, "limit") \in Said'
    BY <2>1 DEF ReportGaps, Said
  <2>5. GapsSaid'
    BY <1>d, <2>2, <2>3, <2>4 DEF GapsSaid, inputs, SelectionGap
  <2> QED
    BY <1>d, <2>2, <2>5 DEF ShownInv, Told, Listing
<1>10. ASSUME pc = "emit", Collect, NextFile, UNCHANGED <<inputs, swept, stdout>>,
              Said \subseteq Said'
       PROVE  ShownInv'
  <2>1. pc' = "load" /\ at' = at + 1 /\ at \in File
    BY <1>10, <1>t DEF NextFile, GoTo
  <2>2. Listing'
    BY <1>10, <1>d, ListingGrows
  <2>3. GapsSaid'
    BY <1>10, <1>d, <2>1, GapsOfFile
  <2> QED
    BY <1>10, <1>d, <2>1, <2>2, <2>3 DEF ShownInv, Told
<1>11. CASE EmitText
  <2>1. CASE WriteFails
    BY <1>11, <2>1, NotShown DEF EmitText
  <2>2. CASE ~WriteFails
    BY <1>10, <1>11, <2>2 DEF EmitText, Said
  <2> QED
    BY <2>1, <2>2
<1>12. CASE EmitJson
  BY <1>10, <1>12 DEF EmitJson, Said
<1>13. CASE EmitSarif
  BY <1>10, <1>13 DEF EmitSarif, Said
<1>14. CASE Vanish
  <2>1. /\ pc = "emit" /\ pc' = "load" /\ at' = at + 1 /\ at \in File
        /\ swept' = [swept EXCEPT ![at].reread = FALSE]
        /\ UNCHANGED <<inputs, has_errors, results, stdout>> /\ Said \subseteq Said'
    BY <1>14, <1>t DEF Vanish, NextFile, GoTo, Said
  <2>2. \A i \in File : swept'[i].stopped => swept[i].stopped
    BY <1>t, <2>1
  <2>3. GapsSaid'
    BY <1>d, <2>1, <2>2, GapsOfFile
  <2> QED
    BY <1>d, <2>1, <2>3 DEF ShownInv, Told, Listing
<1>15. CASE AllGraded \/ CheckExclusions
  <2>1. /\ pc \in {"load", "exclusions"} /\ pc' \in {"exclusions", "report"}
        /\ UNCHANGED <<inputs, at, swept, has_errors, results, stdout>> /\ Said \subseteq Said'
    BY <1>15 DEF AllGraded, CheckExclusions, GoTo, grading, Said
  <2>2. GapsSaid'
    BY <1>d, <2>1, GapsStaySaid
  <2> QED
    BY <1>d, <2>1, <2>2 DEF ShownInv, Told, Listing
<1>16. CASE Report
  <2>1. CASE WriteFails
    BY <1>16, <2>1, NotShown DEF Report
  <2>2. CASE ~WriteFails
    <3>1. pc' = "exiting" /\ stdout'.doc = "report"
      BY <1>16, <2>2 DEF Report, Leave
    <3>2. Reported'
      BY <1>16, <2>2, ReportSays
    <3> QED
      BY <3>1, <3>2 DEF ShownInv
  <2> QED
    BY <2>1, <2>2
<1>17. CASE Flush
  <2>1. CASE WriteFails
    BY <1>17, <2>1, NotShown DEF Flush
  <2>2. CASE ~WriteFails
    <3>1. pc = "exiting" /\ pc' = "done" /\ UNCHANGED <<inputs, swept, stdout, code>>
      BY <1>17, <2>2 DEF Flush, grading
    <3>2. Gaps' = Gaps
      BY <3>1 DEF Gaps, inputs, SelectionGap
    <3>3. Reported => Reported'
      BY <3>1, <3>2 DEF Reported, inputs, Failing
    <3> QED
      BY <3>1, <3>3 DEF ShownInv, Told
  <2> QED
    BY <2>1, <2>2
<1>18. CASE UNCHANGED vars
  <2>1. (Listing => Listing') /\ (GapsSaid => GapsSaid') /\ (Told' => Told)
    BY <1>18 DEF vars, Listing, GapsSaid, Said, SelectionGap, Told
  <2>2. Reported => Reported'
    BY <1>18 DEF vars, Reported, Gaps, SelectionGap, Failing
  <2> QED
    BY <1>18, <2>1, <2>2 DEF vars, ShownInv
<1> QED
  BY <1>1, <1>2, <1>3, <1>4, <1>5, <1>6, <1>7, <1>8, <1>9, <1>11, <1>12, <1>13, <1>14,
     <1>15, <1>16, <1>17, <1>18 DEF Next

LEMMA ShownInvariant == Spec => [](RunInv /\ ContentInv /\ ShownInv)
<1>1. Init => RunInv /\ ContentInv /\ ShownInv
  BY InitRun, InitContent, ShownInvInit
<1>2. RunInv /\ ContentInv /\ ShownInv /\ [Next]_vars => (RunInv /\ ContentInv /\ ShownInv)'
  BY RunStep, ContentStep, ShownInvStep
<1> QED
  BY <1>1, <1>2, PTL DEF Spec

(* ADR-015: for any batch, flags, sweeps and failures, a delivered report  *)
(* says what the exit code says, and a machine report names every gap the  *)
(* run was made with, fatal or waived.                                     *)
THEOREM ArtifactAlwaysAgrees == Spec => []ArtifactAgrees
<1>1. ContentInv /\ ShownInv => ArtifactAgrees
  BY DEF ContentInv, ShownInv, Told, Reported, ArtifactAgrees
<1> QED
  BY <1>1, ShownInvariant, PTL

(* A run that exits 1 lists a finding that fails it, however few results a *)
(* log holds: _most_severe never drops all of those.                       *)
THEOREM FailureAlwaysShown == Spec => []FailureShown
<1>1. RunInv /\ ShownInv => FailureShown
  BY DEF RunInv, ShownInv, Told, Reported, Verdicted, FailureShown, Done
<1> QED
  BY <1>1, ShownInvariant, PTL
=============================================================================
