------------------------------- MODULE FixRun -------------------------------
(***************************************************************************)
(* One run of `compose-lint fix`: the loop of cli._run_fix over its batch, *)
(* with everything it calls that reads or writes a file, while somebody    *)
(* else may save the same files and the process may die at any point.      *)
(*                                                                         *)
(* A document is reduced to the keys its services may carry: each key of   *)
(* Key stands for one (service, key) pair. A key is unset, a literal, or   *)
(* the one value that a `.env` decides (`${NAME:-default}`). A rule fires  *)
(* on the value a key has in the configuration Compose would run, so a     *)
(* finding is a <<key, value>> pair; the value stands for the message.     *)
(*                                                                         *)
(* Nothing is assumed of the fixers: the candidate text apply_edits builds *)
(* is any text at all. What ends up on disk is decided by the four layers  *)
(* of ADR-014: parse net, structure check, converge and no-new-finding     *)
(* checks, atomic write.                                                   *)
(***************************************************************************)
EXTENDS Naturals, Sequences

CONSTANTS
  File,         \* the Compose files of the project
  Batch,        \* args.files: the primaries the run fixes, in order
  Overlay,      \* the override file merged over each primary, or NoFile
  NoFile,
  Key,          \* the (service, key) pairs a document may carry
  Literal,      \* the values a key may be given in the text
  Unset,        \* the key is not written
  Ref,          \* the key is written as a reference the `.env` decides
  EnvValue,     \* what the reference is with the `.env`
  DefValue,     \* and without it
  Flagged,      \* the <<key, value>> pairs some rule reports
  Fixable,      \* the findings an eligible fixer has an edit for
  MaxSaves      \* bound: how often somebody else saves a file

ASSUME FileAssumption ==
  /\ Batch \in Seq(File)
  /\ NoFile \notin File
  /\ Overlay \in [File -> File \cup {NoFile}]

ASSUME ValueAssumption ==
  /\ Unset \notin Literal
  /\ Ref \notin Literal \cup {Unset}
  /\ EnvValue \in Literal
  /\ DefValue \in Literal
  /\ Flagged \subseteq Key \X (Literal \cup {Unset})
  /\ Fixable \subseteq Flagged
  /\ MaxSaves \in Nat

-----------------------------------------------------------------------------
(* Texts. A text is a document, or one of the things a file can hold       *)
(* instead: text that is not Compose, bytes that are not UTF-8, a legacy   *)
(* v1 file, an empty one, no file, or a write that stopped half way.       *)

CONSTANTS Broken, Binary, Legacy, Empty, Gone, Torn

Document == [Key -> Literal \cup {Unset, Ref}]
Config == [Key -> Literal \cup {Unset}]
Unparsed == {Broken, Binary, Legacy, Empty}
Text == Document \cup Unparsed
Content == Text \cup {Gone, Torn}

ASSUME TextAssumption ==
  /\ Unparsed \cap Document = {}
  /\ Empty \notin {Broken, Binary, Legacy}
  /\ Gone \notin Text
  /\ Torn \notin Text \cup {Gone}

Blank == [k \in Key |-> Unset]

(* What a text contributes to a merge; an empty one, nothing.              *)
Given(c) == IF c = Empty THEN Blank ELSE c

(* Substitution: what the document says once the references are resolved.  *)
Resolve(d, useEnv) ==
  [k \in Key |-> IF d[k] # Ref THEN d[k]
                 ELSE IF useEnv THEN EnvValue ELSE DefValue]

(* merge_documents on two documents: what the override sets, wins.         *)
Merge(base, over) == [k \in Key |-> IF over[k] # Unset THEN over[k] ELSE base[k]]

(* run_rules over a configuration; `skip` are the keys whose rule crashed. *)
Findings(config, skip) == {f \in Flagged : config[f[1]] = f[2] /\ f[1] \notin skip}

(* _written_in: the finding's evidence is in the file being fixed.         *)
Local(over, f) == over[f[1]] = Unset

(* collect_edits: the keys whose findings get an edit.                     *)
Collect(found, over) == {f[1] : f \in {g \in found \cap Fixable : Local(over, g)}}

-----------------------------------------------------------------------------
VARIABLES
  apply,      \* fix --apply, or a dry run
  noEnv,      \* fix --no-env
  disk,       \* what each name in the directory holds
  unsynced,   \* the files whose visible bytes may not be on the medium
  scratch,    \* the temporary file beside the target
  phase,      \* where the loop body is
  at,         \* the file it is at
  loaded,     \* first read: the configuration that was graded
  over,       \* first read: the override it was merged with
  claims,     \* the keys the accepted edits claim
  patched,    \* the candidate text
  reread,     \* verification's own read of the override
  ungraded,   \* keys whose rule crashed while the candidate was graded
  outcome,    \* what the run said of each file of the batch
  exit,       \* "none", "0", "2" or "killed"
  saves       \* how often somebody else has saved a file

fsVars == <<disk, unsynced, scratch>>
gradeVars == <<loaded, over, claims, patched, reread, ungraded>>
loopVars == <<apply, noEnv, phase, at, outcome, exit>>
vars == <<fsVars, gradeVars, loopVars, saves>>

NoScratch == [text |-> Gone, synced |-> FALSE]
Targets == {Batch[i] : i \in DOMAIN Batch}
Target == Batch[at]
Over == IF Overlay[Target] = NoFile THEN Blank ELSE disk[Overlay[Target]]
Merged == Overlay[Target] # NoFile

Init ==
  /\ apply \in BOOLEAN
  /\ noEnv \in BOOLEAN
  /\ disk \in [File -> Content \ {Torn}]
  /\ unsynced = {}
  /\ scratch = NoScratch
  /\ phase = "load"
  /\ at = 1
  /\ loaded = Blank
  /\ over = Blank
  /\ claims = {}
  /\ patched = Blank
  /\ reread = Blank
  /\ ungraded = {}
  /\ outcome = [i \in DOMAIN Batch |-> "pending"]
  /\ exit = "none"
  /\ saves = 0

(* The loop body ends for this file, with what the run says of it. The     *)
(* body's locals are dead from here on.                                    *)
Settle(word) ==
  /\ outcome' = [outcome EXCEPT ![at] = word]
  /\ at' = at + 1
  /\ phase' = "load"
  /\ loaded' = Blank
  /\ over' = Blank
  /\ claims' = {}
  /\ patched' = Blank
  /\ reread' = Blank
  /\ ungraded' = {}
  /\ UNCHANGED <<apply, noEnv, exit>>

GoOn(next) ==
  /\ phase' = next
  /\ UNCHANGED <<apply, noEnv, at, outcome, exit>>

At(here) == exit = "none" /\ phase = here /\ at \in DOMAIN Batch

(* An exception nothing in the loop catches: main reports it, exit 2.      *)
Abort ==
  /\ exit' = "2"
  /\ UNCHANGED <<gradeVars, apply, noEnv, phase, at, outcome>>

-----------------------------------------------------------------------------
(* First read. load_compose_full for a file on its own, load_merged when   *)
(* an override is merged over it; the override may be empty, and so may    *)
(* the base beside one that is not.                                        *)

Loadable(c) ==
  IF Merged THEN /\ {c, Over} \subseteq Document \cup {Empty}
                 /\ {c, Over} # {Empty}
            ELSE c \in Document

LoadOK ==
  /\ At("load")
  /\ Loadable(disk[Target])
  /\ over' = Resolve(Given(Over), ~noEnv)
  /\ loaded' = Merge(Resolve(Given(disk[Target]), ~noEnv), over')
  /\ GoOn("read")
  /\ UNCHANGED <<fsVars, claims, patched, reread, ungraded, saves>>

(* ComposeNotApplicableError: a v1 file on its own is passed over, one in  *)
(* a merge set is an error. A merged set is passed over when no document   *)
(* of it has services; one without keys here may or may not have.          *)
Serviceless == Merged /\ Loadable(disk[Target]) /\ {Given(disk[Target]), Given(Over)} = {Blank}

LoadSkips ==
  /\ At("load")
  /\ (~Merged /\ disk[Target] = Legacy) \/ Serviceless
  /\ Settle("skipped")
  /\ UNCHANGED <<fsVars, saves>>

(* A file that cannot be read or is not Compose. Special files, links that *)
(* lead outside the project and permissions are the disk's to decide: a    *)
(* load may fail whatever the name holds.                                  *)
LoadFails ==
  /\ At("load")
  /\ Settle("failed")
  /\ UNCHANGED <<fsVars, saves>>

(* Second read: a plain open() of the same name, some time later. Only an  *)
(* OSError is expected of it, whatever the name holds by then; bytes that  *)
(* are no longer UTF-8 are not. The text itself is only spliced, and the   *)
(* splice is taken to be anything, so it is not kept.                      *)
ReadText ==
  /\ At("read")
  /\ \/ /\ disk[Target] \notin {Gone, Binary}
        /\ GoOn("grade")
        /\ UNCHANGED gradeVars
     \/ Settle("failed")
     \/ /\ disk[Target] = Binary
        /\ Abort
  /\ UNCHANGED <<fsVars, saves>>

(* run_rules on the loaded configuration. A crashed rule or a set cut      *)
(* short by the findings limit is no basis for an edit.                    *)
Grade ==
  /\ At("grade")
  /\ \/ /\ GoOn("collect")
        /\ UNCHANGED gradeVars
     \/ Settle("failed")
  /\ UNCHANGED <<fsVars, saves>>

(* collect_edits: a fixer that crashes refuses the file; no edit, no more  *)
(* to do.                                                                  *)
CollectEdits ==
  /\ At("collect")
  /\ LET keys == Collect(Findings(loaded, {}), over)
     IN  \/ /\ keys # {}
            /\ claims' = keys
            /\ GoOn("apply")
            /\ UNCHANGED <<loaded, over, patched, reread, ungraded>>
         \/ /\ keys # {}
            /\ Settle("failed")
         \/ /\ keys = {}
            /\ Settle("clean")
  /\ UNCHANGED <<fsVars, saves>>

(* apply_edits: any text can come out of it. LineOutOfRangeError is caught *)
(* here, OverlappingEditError is not.                                      *)
ApplyEdits ==
  /\ At("apply")
  /\ \/ /\ \E t \in Document \cup {Broken} : patched' = t
        /\ GoOn("reparse")
        /\ UNCHANGED <<loaded, over, claims, reread, ungraded>>
     \/ Settle("failed")
     \/ Abort
  /\ UNCHANGED <<fsVars, saves>>

(* reparse_or_error: the candidate on its own, always as a document that   *)
(* must stand alone.                                                       *)
Reparse ==
  /\ At("reparse")
  /\ \/ /\ patched \in Document
        /\ GoOn("verify")
        /\ UNCHANGED gradeVars
     \/ /\ patched \notin Document
        /\ Settle("failed")
  /\ UNCHANGED <<fsVars, saves>>

-----------------------------------------------------------------------------
(* verify_apply. The candidate is graded again: merged with the override   *)
(* as it is on disk by now (merge_patched, which takes no empty override), *)
(* or on its own with the `.env` read whatever --no-env said (loads).      *)

Reloadable == ~Merged \/ Over \in Document

ReloadedOver == IF Merged THEN Resolve(Over, ~noEnv) ELSE Blank

Reloaded ==
  IF Merged THEN Merge(Resolve(patched, ~noEnv), ReloadedOver)
            ELSE Resolve(patched, TRUE)

(* Mutant: a document that collected any fix is exempt from the comparison *)
(* (the per-service form the per-key one replaced).                        *)
DriftsUnlessFixed(config) == claims = {} /\ config # loaded

(* _structural_drift: a key no accepted edit claims has another value.     *)
Drifts(config) == \E k \in Key \ claims : config[k] # loaded[k]

(* Mutant: findings are compared by rule and service, not by what they say.*)
TradesNoRule(found) ==
  {f[1] : f \in found} \subseteq {f[1] : f \in Findings(loaded, {})}

(* Mutant: a candidate that still shows any finding is refused.            *)
SettlesClean(found) == found = {}

(* The converge and no-new-finding checks over what the rules reported.    *)
Settles(found) == Collect(found, ReloadedOver) = {}
TradesNothing(found) == found \subseteq Findings(loaded, {})

(* A rule that crashes over the candidate is only printed: run_rules gets  *)
(* no on_error here, and what the rule would have found is missing.        *)
VerifyOK(crashed) ==
  /\ Reloadable
  /\ ~Drifts(Reloaded)
  /\ Settles(Findings(Reloaded, crashed))
  /\ TradesNothing(Findings(Reloaded, crashed))

VerifyApply ==
  /\ At("verify")
  /\ \E crashed \in SUBSET Key :
       \/ /\ VerifyOK(crashed)
          /\ reread' = ReloadedOver
          /\ ungraded' = crashed
          /\ GoOn("persist")
          /\ UNCHANGED <<loaded, over, claims, patched>>
       \/ /\ ~VerifyOK(crashed)
          /\ Settle("failed")
  /\ UNCHANGED <<fsVars, saves>>

-----------------------------------------------------------------------------
(* Persisting. A dry run prints the diff; a stdout that cannot be written  *)
(* ends the run with exit 2.                                               *)

ShowDiff ==
  /\ At("persist")
  /\ ~apply
  /\ Settle("shown") \/ Abort
  /\ UNCHANGED <<fsVars, saves>>

(* _refuses_write: os.replace would swap a read-only file all the same, so *)
(* the mode of a file that is there is asked first.                        *)
CheckMode ==
  /\ At("persist")
  /\ apply
  /\ \/ /\ GoOn("stat")
        /\ UNCHANGED gradeVars
     \/ /\ disk[Target] # Gone
        /\ Settle("failed")
  /\ UNCHANGED <<fsVars, saves>>

(* _atomic_write, one system call at a time. lstat refuses a target with   *)
(* another name (a link: the disk's to decide); then the temporary file is *)
(* made, or cannot be.                                                     *)
MakeScratch ==
  /\ At("stat")
  /\ \/ /\ scratch' = [text |-> Torn, synced |-> FALSE]
        /\ GoOn("write")
        /\ UNCHANGED gradeVars
     \/ /\ Settle("failed")
        /\ UNCHANGED scratch
  /\ UNCHANGED <<disk, unsynced, saves>>

(* Mutant: the handler forgets the temporary file.                         *)
WriteFailsLeaking ==
  /\ \/ At("write") \/ At("sync") \/ At("replace")
  /\ Settle("failed")
  /\ UNCHANGED <<fsVars, saves>>

(* Any call below may raise OSError: the temporary file is unlinked and    *)
(* the file reported failed.                                               *)
WriteFails ==
  /\ \/ At("write") \/ At("sync") \/ At("replace")
  /\ scratch' = NoScratch
  /\ Settle("failed")
  /\ UNCHANGED <<disk, unsynced, saves>>

WriteScratch ==
  /\ At("write")
  /\ scratch' = [scratch EXCEPT !.text = patched]
  /\ GoOn("sync")
  /\ UNCHANGED <<disk, unsynced, gradeVars, saves>>

(* Mutant: the fsync is left out.                                          *)
SkipSync ==
  /\ At("sync")
  /\ GoOn("replace")
  /\ UNCHANGED <<fsVars, gradeVars, saves>>

(* flush and fsync; the chmod after it may fail and nobody minds.          *)
SyncScratch ==
  /\ At("sync")
  /\ scratch' = [scratch EXCEPT !.synced = TRUE]
  /\ GoOn("replace")
  /\ UNCHANGED <<disk, unsynced, gradeVars, saves>>

(* os.replace: the name now means the temporary file.                      *)
Replace ==
  /\ At("replace")
  /\ disk' = [disk EXCEPT ![Target] = scratch.text]
  /\ unsynced' = IF scratch.synced THEN unsynced \ {Target} ELSE unsynced \cup {Target}
  /\ scratch' = NoScratch
  /\ Settle("fixed")
  /\ UNCHANGED saves

(* The batch is done: sys.exit(2 if had_error else 0), unless the last     *)
(* flush of stdout fails.                                                  *)

(* Mutant: had_error is reset for every file.                              *)
HadErrorLast == outcome # << >> /\ outcome[Len(Batch)] = "failed"

HadError == \E i \in DOMAIN Batch : outcome[i] = "failed"

Finish ==
  /\ exit = "none"
  /\ at \notin DOMAIN Batch
  /\ exit' \in {IF HadError THEN "2" ELSE "0", "2"}
  /\ UNCHANGED <<fsVars, gradeVars, apply, noEnv, phase, at, outcome, saves>>

-----------------------------------------------------------------------------
(* The world around the run.                                               *)

(* An editor, a deploy, another tool: whole contents only.                 *)
Save ==
  /\ saves < MaxSaves
  /\ exit = "none"
  /\ saves' = saves + 1
  /\ \E f \in File, c \in Content \ {Torn} :
       /\ c # disk[f]
       /\ disk' = [disk EXCEPT ![f] = c]
  /\ UNCHANGED <<unsynced, scratch, gradeVars, loopVars>>

(* Ctrl-C: KeyboardInterrupt passes through _atomic_write, which unlinks.  *)
Interrupt ==
  /\ exit = "none"
  /\ exit' = "killed"
  /\ scratch' = NoScratch
  /\ UNCHANGED <<disk, unsynced, gradeVars, apply, noEnv, phase, at, outcome, saves>>

(* The machine stops, during the run or after it: what was never synced    *)
(* is lost.                                                                *)
PowerLoss ==
  /\ exit = "none" \/ unsynced # {}
  /\ exit' = IF exit = "none" THEN "killed" ELSE exit
  /\ disk' = [f \in File |-> IF f \in unsynced THEN Torn ELSE disk[f]]
  /\ unsynced' = {}
  /\ UNCHANGED <<scratch, gradeVars, apply, noEnv, phase, at, outcome, saves>>

Step ==
  \/ LoadOK \/ LoadSkips \/ LoadFails
  \/ ReadText \/ Grade \/ CollectEdits \/ ApplyEdits
  \/ Reparse \/ VerifyApply
  \/ ShowDiff \/ CheckMode
  \/ MakeScratch \/ WriteScratch \/ SyncScratch \/ Replace \/ WriteFails
  \/ Finish

Next == Step \/ Save \/ Interrupt \/ PowerLoss

Spec == Init /\ [][Next]_vars

-----------------------------------------------------------------------------
(* Properties.                                                             *)

TypeOK ==
  /\ apply \in BOOLEAN
  /\ noEnv \in BOOLEAN
  /\ disk \in [File -> Content]
  /\ unsynced \subseteq File
  /\ scratch \in [text : Content, synced : BOOLEAN]
  /\ phase \in {"load", "read", "grade", "collect", "apply", "reparse",
                "verify", "persist", "stat", "write", "sync", "replace"}
  /\ at \in 1 .. Len(Batch) + 1
  /\ loaded \in Config /\ over \in Config /\ reread \in Config
  /\ claims \subseteq Key /\ ungraded \subseteq Key
  /\ patched \in Document \cup {Broken}
  /\ outcome \in [DOMAIN Batch ->
                   {"pending", "skipped", "clean", "failed", "fixed", "shown"}]
  /\ exit \in {"none", "0", "2", "killed"}
  /\ saves \in 0 .. MaxSaves

(* docs/fix.md: an interrupted write never corrupts the Compose file. No   *)
(* name ever holds part of a document, whatever call failed and wherever   *)
(* the process or the machine stopped (_atomic_write).                     *)
NeverTorn == \A f \in File : disk[f] # Torn

(* No temporary file outlives a run that reached an exit code, however     *)
(* many of its writes failed half way (_atomic_write's handler).           *)
NoScratchLeft == exit \in {"0", "2"} => scratch = NoScratch

(* The step that puts a candidate in place of the user's file.             *)
Swap == outcome' # outcome /\ outcome'[at] = "fixed"

(* The configuration a text stands for in this run, beside the override    *)
(* verification read.                                                      *)
Effective(text) == Merge(Resolve(text, ~noEnv), reread)

(* Verification reads a candidate the way the file was first read.         *)
LikeForLike == Merged \/ ~noEnv

(* ADR-014 layer 2: whatever the fixers and the splice did, and whoever    *)
(* saved what in between, the text swapped in is a document in which every *)
(* key no fix claims has the value that was graded.                        *)
UnclaimedKept ==
  [][Swap /\ LikeForLike =>
       /\ disk'[Target] \in Document
       /\ \A k \in Key \ claims : Effective(disk'[Target])[k] = loaded[k]]_vars

(* ADR-014 layer 3: the text swapped in has nothing left that fix would    *)
(* edit, and no finding the original did not have, as far as the rules     *)
(* that ran can tell.                                                      *)
RoundTrips ==
  [][Swap /\ LikeForLike =>
       LET found == Findings(Effective(disk'[Target]), ungraded)
       IN  /\ Collect(found, reread) = {}
           /\ found \subseteq Findings(loaded, {})]_vars

(* A candidate that is a sound fix of the document as it was read and as   *)
(* it still is.                                                            *)
SoundCandidate ==
  LET config == Merge(Resolve(patched, ~noEnv), over)
  IN  /\ patched \in Document
      /\ Merged => Over \in Document \cup {Empty} /\ Resolve(Given(Over), ~noEnv) = over
      /\ ~Drifts(config)
      /\ Collect(Findings(config, {}), over) = {}
      /\ Findings(config, {}) \subseteq Findings(loaded, {})

RefusesSound == At("verify") /\ SoundCandidate /\ outcome' # outcome

(* Verification refuses only what is wrong: with the override neither      *)
(* empty nor changed since, and the `.env` read as it was the first time,  *)
(* a sound fix goes through.                                               *)
SoundFixPasses == [][~(RefusesSound /\ LikeForLike /\ (Merged => Over # Empty))]_vars

(* ADR-006: fix's writes are decided by a sweep, and a crash in it writes  *)
(* nothing for that file.                                                  *)
NothingWrittenHalfGraded == [][Swap => ungraded = {}]_vars

(* The run keeps fix's promises (FixContract): one swap of a complete      *)
(* document per fixed file, everything else untouched, exit 0 only for a   *)
(* batch with no failure.                                                  *)
Contract == INSTANCE FixContract WITH Other <- Unparsed \cup {Gone}
ContractKept == Contract!Spec
=============================================================================
