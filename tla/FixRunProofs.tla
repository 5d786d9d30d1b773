---------------------------- MODULE FixRunProofs ----------------------------
(***************************************************************************)
(* What FixRun guarantees for every project, batch, set of rules and       *)
(* number of concurrent saves, proved with TLAPS.                          *)
(***************************************************************************)
EXTENDS FixRun, TLAPS

-----------------------------------------------------------------------------
(* The inductive invariant.                                                *)

(* The files are settled in order: those before `at` have an outcome, the  *)
(* others none.                                                            *)
InOrder ==
  \A i \in DOMAIN Batch : outcome[i] = "pending" <=> i >= at

(* The temporary file exists only between its creation and the swap.       *)
ScratchInPlace ==
  /\ exit = "none" /\ phase \notin {"write", "sync", "replace"} => scratch = NoScratch
  /\ exit \in {"0", "2"} => scratch = NoScratch
  /\ exit = "none" /\ phase \in {"sync", "replace"} => scratch.text = patched
  /\ exit = "none" /\ phase = "replace" => scratch.synced

(* A candidate that left verification has passed it.                       *)
PassedVerify ==
  /\ patched \in Document
  /\ LikeForLike =>
       /\ \A k \in Key \ claims : Effective(patched)[k] = loaded[k]
       /\ Collect(Findings(Effective(patched), ungraded), reread) = {}
       /\ Findings(Effective(patched), ungraded) \subseteq Findings(loaded, {})

Verified ==
  /\ exit = "none" /\ phase = "verify" => patched \in Document
  /\ exit = "none" /\ phase \in {"persist", "stat", "write", "sync", "replace"}
       => PassedVerify
  /\ phase # "load" => at \in DOMAIN Batch

IInv ==
  /\ TypeOK
  /\ NeverTorn
  /\ unsynced = {}
  /\ InOrder
  /\ ScratchInPlace
  /\ Verified

-----------------------------------------------------------------------------
(* Lemmas about the operators of the model.                                *)

Words == {"pending", "skipped", "clean", "failed", "fixed", "shown"}

(* The batch is indexed by 1 .. Len(Batch), and its entries are files.     *)
LEMMA BatchIndex ==
  /\ Len(Batch) \in Nat
  /\ DOMAIN Batch = 1 .. Len(Batch)
  /\ \A i \in DOMAIN Batch : Batch[i] \in File /\ Batch[i] \in Targets
BY FileAssumption DEF Targets

(* An unset document is a document and a configuration.                    *)
LEMMA BlankType == Blank \in Document /\ Blank \in Config
BY DEF Blank, Document, Config

(* Substitution turns a document into a configuration.                     *)
LEMMA ResolveType ==
  ASSUME NEW d \in Document, NEW useEnv \in BOOLEAN
  PROVE  Resolve(d, useEnv) \in Config
BY ValueAssumption DEF Document, Config, Resolve

(* Merging two configurations yields one; merging nothing over one yields  *)
(* that one.                                                               *)
LEMMA MergeType ==
  ASSUME NEW base \in Config, NEW top \in Config
  PROVE  /\ Merge(base, top) \in Config
         /\ Merge(base, Blank) = base
<1>1. Merge(base, top) \in Config
  BY DEF Config, Merge
<1>2. Merge(base, Blank) = base
  BY DEF Config, Merge, Blank
<1> QED
  BY <1>1, <1>2

(* Rules report flagged pairs only, and fixers claim keys only.            *)
LEMMA FindingsType ==
  ASSUME NEW config, NEW skip, NEW o
  PROVE  /\ Findings(config, skip) \subseteq Flagged
         /\ Collect(Findings(config, skip), o) \subseteq Key
BY ValueAssumption DEF Findings, Collect

(* What Settle does to the loop, whatever it says of the file.             *)
LEMMA SettleStep ==
  ASSUME TypeOK, InOrder, at \in DOMAIN Batch,
         NEW word \in Words \ {"pending"}, Settle(word)
  PROVE  /\ at' \in 1 .. Len(Batch) + 1
         /\ outcome' \in [DOMAIN Batch -> Words]
         /\ phase' = "load"
         /\ exit' = exit /\ apply' = apply /\ noEnv' = noEnv
         /\ loaded' \in Config /\ over' \in Config /\ reread' \in Config
         /\ claims' \subseteq Key /\ ungraded' \subseteq Key
         /\ patched' \in Document \cup {Broken}
         /\ InOrder'
<1>1. at' \in 1 .. Len(Batch) + 1
  BY BatchIndex DEF Settle
<1>2. outcome' \in [DOMAIN Batch -> Words]
  BY DEF Settle, TypeOK, Words
<1>3. InOrder'
  BY BatchIndex DEF Settle, InOrder, TypeOK, Words
<1> QED
  BY <1>1, <1>2, <1>3, BlankType DEF Settle

-----------------------------------------------------------------------------
(* The steps. First the three ways a loop body can leave off, each of them *)
(* shared by several actions.                                              *)

(* A file settled without a swap keeps the invariant.                      *)
LEMMA SettleIInv ==
  ASSUME IInv, exit = "none", at \in DOMAIN Batch,
         NEW word \in Words \ {"pending"}, Settle(word),
         UNCHANGED <<disk, unsynced, saves>>,
         scratch' = NoScratch
  PROVE  IInv'
<1>1. TypeOK /\ InOrder
  BY DEF IInv
<1>2. NoScratch \in [text : Content, synced : BOOLEAN]
  BY DEF NoScratch, Content
<1>3. TypeOK'
  BY <1>1, <1>2, SettleStep DEF TypeOK, Words
<1>4. ScratchInPlace' /\ Verified'
  BY <1>1, SettleStep DEF ScratchInPlace, Verified
<1> QED
  BY <1>1, <1>3, <1>4, SettleStep DEF IInv, NeverTorn

(* So does an exception that ends the run before anything is written.      *)
LEMMA AbortIInv ==
  ASSUME IInv, exit = "none", phase \notin {"write", "sync", "replace"},
         Abort, UNCHANGED <<fsVars, saves>>
  PROVE  IInv'
BY DEF IInv, TypeOK, NeverTorn, InOrder, ScratchInPlace, Verified, Abort,
       fsVars, gradeVars, PassedVerify, Effective, LikeForLike, Target

(* The candidate passed verification: what VerifyOK compared is what       *)
(* Effective says of it.                                                   *)
LEMMA VerifyMeans ==
  ASSUME TypeOK, at \in DOMAIN Batch, patched \in Document,
         NEW crashed \in SUBSET Key, VerifyOK(crashed),
         reread' = ReloadedOver, ungraded' = crashed,
         UNCHANGED <<loaded, over, claims, patched, at, noEnv>>
  PROVE  reread' \in Config /\ PassedVerify'
<1>1. ReloadedOver \in Config
  BY ResolveType, BlankType, ValueAssumption DEF ReloadedOver, VerifyOK, Reloadable
<1>2. ASSUME LikeForLike
      PROVE  Effective(patched)' = Reloaded
  <2>1. CASE Merged
    BY <2>1 DEF Effective, Reloaded, ReloadedOver
  <2>2. CASE ~Merged
    <3>1. reread' = Blank /\ ~noEnv
      BY <1>2, <2>2 DEF ReloadedOver, LikeForLike
    <3>2. Resolve(patched, TRUE) \in Config
      BY ResolveType
    <3>3. Merge(Resolve(patched, TRUE), Blank) = Resolve(patched, TRUE)
      BY <3>2, MergeType, BlankType
    <3>4. (~noEnv) = TRUE
      BY <3>1, ValueAssumption
    <3>5. Effective(patched)' = Merge(Resolve(patched, ~noEnv), Blank)
      BY <3>1 DEF Effective
    <3> QED
      BY <2>2, <3>3, <3>4, <3>5 DEF Reloaded
  <2> QED
    BY <2>1, <2>2
<1>3. ASSUME LikeForLike'
      PROVE  /\ \A k \in Key \ claims' : Effective(patched)'[k] = loaded'[k]
             /\ Collect(Findings(Effective(patched)', ungraded'), reread') = {}
             /\ Findings(Effective(patched)', ungraded') \subseteq Findings(loaded', {})
  <2>1. LikeForLike
    BY <1>3 DEF LikeForLike, Merged, Target
  <2>2. Effective(patched)' = Reloaded
    BY <1>2, <2>1
  <2> QED
    BY <2>2 DEF VerifyOK, Drifts, Settles, TradesNothing
<1>4. PassedVerify'
  BY <1>3 DEF PassedVerify
<1> QED
  BY <1>1, <1>4

(* A step of the loop body that only moves on and leaves the files alone.  *)
LEMMA GoOnIInv ==
  ASSUME IInv, exit = "none", at \in DOMAIN Batch,
         phase \notin {"write", "sync", "replace"},
         NEW next \in {"read", "grade", "collect", "apply", "reparse", "verify",
                      "persist", "stat"},
         GoOn(next), UNCHANGED <<fsVars, saves>>,
         loaded' \in Config, over' \in Config, reread' \in Config,
         claims' \subseteq Key, ungraded' \subseteq Key,
         patched' \in Document \cup {Broken},
         next = "verify" => patched' \in Document,
         next \in {"persist", "stat"} => PassedVerify'
  PROVE  IInv'
<1>1. TypeOK'
  BY DEF IInv, TypeOK, GoOn, fsVars
<1>2. InOrder' /\ ScratchInPlace' /\ Verified'
  BY DEF IInv, InOrder, ScratchInPlace, Verified, GoOn, fsVars, NoScratch
<1> QED
  BY <1>1, <1>2 DEF IInv, NeverTorn, fsVars

(* Reading and grading: nothing is written.                                *)
LEMMA ReadStep ==
  ASSUME IInv, LoadOK \/ LoadSkips \/ LoadFails \/ ReadText \/ Grade
  PROVE  IInv'
<1> USE DEF At
<1>1. CASE LoadOK
  <2>1. Given(Over) \in Document /\ Given(disk[Target]) \in Document
    BY <1>1, BlankType DEF LoadOK, Loadable, Over, Merged, Given
  <2>2. over' \in Config
    BY <1>1, <2>1, ResolveType, ValueAssumption DEF LoadOK
  <2>3. loaded' \in Config
    BY <1>1, <2>1, <2>2, ResolveType, MergeType, ValueAssumption DEF LoadOK
  <2> QED
    BY <1>1, <2>2, <2>3, GoOnIInv DEF LoadOK, IInv, TypeOK
<1>2. CASE LoadSkips \/ LoadFails
  BY <1>2, SettleIInv DEF LoadSkips, LoadFails, fsVars, Words, IInv, ScratchInPlace
<1>3. CASE ReadText
  <2>1. CASE GoOn("grade") /\ UNCHANGED gradeVars
    BY <1>3, <2>1, GoOnIInv DEF ReadText, gradeVars, IInv, TypeOK
  <2>2. CASE Settle("failed")
    BY <1>3, <2>2, SettleIInv DEF ReadText, fsVars, Words, IInv, ScratchInPlace
  <2>3. CASE Abort
    BY <1>3, <2>3, AbortIInv DEF ReadText
  <2> QED
    BY <1>3, <2>1, <2>2, <2>3 DEF ReadText
<1>4. CASE Grade
  <2>1. CASE GoOn("collect") /\ UNCHANGED gradeVars
    BY <1>4, <2>1, GoOnIInv DEF Grade, gradeVars, IInv, TypeOK
  <2>2. CASE Settle("failed")
    BY <1>4, <2>2, SettleIInv DEF Grade, fsVars, Words, IInv, ScratchInPlace
  <2> QED
    BY <1>4, <2>1, <2>2 DEF Grade
<1> QED
  BY <1>1, <1>2, <1>3, <1>4

(* Building the candidate and putting it to the three checks.              *)
LEMMA CandidateStep ==
  ASSUME IInv, CollectEdits \/ ApplyEdits \/ Reparse \/ VerifyApply
  PROVE  IInv'
<1> USE DEF At
<1>1. CASE CollectEdits
  <2>1. CASE phase' = "apply"
    <3>1. claims' \subseteq Key
      BY <1>1, <2>1, FindingsType DEF CollectEdits, Settle
    <3> QED
      BY <1>1, <2>1, <3>1, GoOnIInv DEF CollectEdits, Settle, IInv, TypeOK
  <2>2. CASE Settle("clean") \/ Settle("failed")
    BY <1>1, <2>2, SettleIInv DEF CollectEdits, fsVars, Words, IInv, ScratchInPlace
  <2> QED
    BY <1>1, <2>1, <2>2 DEF CollectEdits, GoOn
<1>2. CASE ApplyEdits
  <2>1. CASE phase' = "reparse"
    BY <1>2, <2>1, GoOnIInv DEF ApplyEdits, Settle, Abort, IInv, TypeOK
  <2>2. CASE Settle("failed")
    BY <1>2, <2>2, SettleIInv DEF ApplyEdits, fsVars, Words, IInv, ScratchInPlace
  <2>3. CASE Abort
    BY <1>2, <2>3, AbortIInv DEF ApplyEdits
  <2> QED
    BY <1>2, <2>1, <2>2, <2>3 DEF ApplyEdits, GoOn
<1>3. CASE Reparse
  <2>1. CASE GoOn("verify") /\ UNCHANGED gradeVars /\ patched \in Document
    BY <1>3, <2>1, GoOnIInv DEF Reparse, gradeVars, IInv, TypeOK
  <2>2. CASE Settle("failed")
    BY <1>3, <2>2, SettleIInv DEF Reparse, fsVars, Words, IInv, ScratchInPlace
  <2> QED
    BY <1>3, <2>1, <2>2 DEF Reparse
<1>4. CASE VerifyApply
  <2> PICK crashed \in SUBSET Key :
       \/ /\ VerifyOK(crashed)
          /\ reread' = ReloadedOver
          /\ ungraded' = crashed
          /\ GoOn("persist")
          /\ UNCHANGED <<loaded, over, claims, patched>>
       \/ /\ ~VerifyOK(crashed)
          /\ Settle("failed")
    BY <1>4 DEF VerifyApply
  <2>1. CASE /\ VerifyOK(crashed)
             /\ reread' = ReloadedOver
             /\ ungraded' = crashed
             /\ GoOn("persist")
             /\ UNCHANGED <<loaded, over, claims, patched>>
    <3>1. reread' \in Config /\ PassedVerify'
      BY <1>4, <2>1, VerifyMeans DEF VerifyApply, IInv, Verified, GoOn
    <3> QED
      BY <1>4, <2>1, <3>1, GoOnIInv DEF VerifyApply, IInv, TypeOK
  <2>2. CASE Settle("failed")
    BY <1>4, <2>2, SettleIInv DEF VerifyApply, fsVars, Words, IInv, ScratchInPlace
  <2> QED
    BY <2>1, <2>2
<1> QED
  BY <1>1, <1>2, <1>3, <1>4

(* Passing on what verification established.                               *)
LEMMA PassedStays ==
  ASSUME PassedVerify, UNCHANGED <<gradeVars, at, noEnv>>
  PROVE  PassedVerify'
BY DEF PassedVerify, gradeVars, Effective, LikeForLike, Merged, Target

(* Showing the diff, and the write up to the swap.                         *)
LEMMA WriteStep ==
  ASSUME IInv,
         \/ ShowDiff \/ CheckMode \/ MakeScratch
         \/ WriteScratch \/ SyncScratch \/ WriteFails
  PROVE  IInv'
<1> USE DEF At
<1>1. CASE ShowDiff
  <2>1. CASE Settle("shown")
    BY <1>1, <2>1, SettleIInv DEF ShowDiff, fsVars, Words, IInv, ScratchInPlace
  <2>2. CASE Abort
    BY <1>1, <2>2, AbortIInv DEF ShowDiff
  <2> QED
    BY <1>1, <2>1, <2>2 DEF ShowDiff
<1>2. CASE CheckMode
  <2>1. CASE GoOn("stat") /\ UNCHANGED gradeVars
    <3>1. PassedVerify'
      BY <1>2, <2>1, PassedStays DEF CheckMode, IInv, Verified, GoOn
    <3> QED
      BY <1>2, <2>1, <3>1, GoOnIInv DEF CheckMode, gradeVars, IInv, TypeOK
  <2>2. CASE Settle("failed")
    BY <1>2, <2>2, SettleIInv DEF CheckMode, fsVars, Words, IInv, ScratchInPlace
  <2> QED
    BY <1>2, <2>1, <2>2 DEF CheckMode
<1>3. CASE MakeScratch /\ GoOn("write") /\ UNCHANGED gradeVars
           /\ scratch' = [text |-> Torn, synced |-> FALSE]
  <2>1. PassedVerify'
    BY <1>3, PassedStays DEF MakeScratch, IInv, Verified, GoOn
  <2>2. TypeOK'
    BY <1>3 DEF MakeScratch, GoOn, gradeVars, IInv, TypeOK, Content
  <2> QED
    BY <1>3, <2>1, <2>2 DEF MakeScratch, GoOn, IInv, NeverTorn, InOrder,
                            ScratchInPlace, Verified
<1>4. CASE MakeScratch /\ Settle("failed") /\ UNCHANGED scratch
  BY <1>4, SettleIInv DEF MakeScratch, Words, IInv, ScratchInPlace
<1>5. CASE WriteScratch
  <2>1. PassedVerify'
    BY <1>5, PassedStays DEF WriteScratch, IInv, Verified, GoOn
  <2>2. scratch'.text = patched /\ TypeOK'
    BY <1>5 DEF WriteScratch, GoOn, gradeVars, IInv, TypeOK, Content, Text, Unparsed
  <2> QED
    BY <1>5, <2>1, <2>2 DEF WriteScratch, GoOn, gradeVars, IInv, NeverTorn, InOrder,
                            ScratchInPlace, Verified
<1>6. CASE SyncScratch
  <2>1. PassedVerify'
    BY <1>6, PassedStays DEF SyncScratch, IInv, Verified, GoOn
  <2>2. scratch'.text = patched /\ scratch'.synced /\ TypeOK'
    BY <1>6 DEF SyncScratch, GoOn, gradeVars, IInv, TypeOK, ScratchInPlace
  <2> QED
    BY <1>6, <2>1, <2>2 DEF SyncScratch, GoOn, gradeVars, IInv, NeverTorn, InOrder,
                            ScratchInPlace, Verified
<1>7. CASE WriteFails
  BY <1>7, SettleIInv DEF WriteFails, Words
<1> QED
  BY <1>1, <1>2, <1>3, <1>4, <1>5, <1>6, <1>7 DEF MakeScratch

(* The swap: what takes the file's place is a candidate that passed, whole *)
(* and on the medium.                                                      *)
LEMMA ReplaceStep ==
  ASSUME IInv, Replace
  PROVE  /\ IInv'
         /\ disk' = [disk EXCEPT ![Target] = patched]
         /\ PassedVerify
         /\ at \in DOMAIN Batch /\ Target \in File
<1>1. /\ at \in DOMAIN Batch /\ Target \in File /\ Target \in Targets
      /\ scratch.text = patched /\ scratch.synced
      /\ PassedVerify
  BY BatchIndex DEF Replace, At, IInv, ScratchInPlace, Verified, Target
<1>2. disk' = [disk EXCEPT ![Target] = patched] /\ unsynced' = {}
  BY <1>1 DEF Replace, IInv
<1>3. patched \in Content /\ patched # Torn /\ NoScratch \in [text : Content, synced : BOOLEAN]
  BY <1>1, TextAssumption DEF PassedVerify, Content, Text, NoScratch
<1>4. TypeOK /\ InOrder /\ Settle("fixed")
  BY DEF IInv, Replace
<1>5. TypeOK'
  BY <1>1, <1>2, <1>3, <1>4, SettleStep DEF Replace, At, TypeOK, Words
<1>6. NeverTorn'
  BY <1>1, <1>2, <1>3, <1>4 DEF IInv, NeverTorn, TypeOK
<1>7. ScratchInPlace' /\ Verified' /\ InOrder'
  BY <1>1, <1>4, SettleStep DEF Replace, At, ScratchInPlace, Verified, Words
<1> QED
  BY <1>1, <1>2, <1>5, <1>6, <1>7 DEF IInv

(* The end of the batch, and the world around the run.                     *)
LEMMA WorldStep ==
  ASSUME IInv, Finish \/ Save \/ Interrupt \/ PowerLoss
  PROVE  IInv'
<1> USE DEF fsVars, gradeVars, loopVars
<1>1. CASE Finish
  BY <1>1 DEF Finish, IInv, TypeOK, NeverTorn, InOrder, ScratchInPlace, Verified
<1>2. CASE Save
  <2> PICK f \in File, c \in Content \ {Torn} : disk' = [disk EXCEPT ![f] = c]
    BY <1>2 DEF Save
  <2>1. saves' \in 0 .. MaxSaves
    BY <1>2, ValueAssumption DEF Save, IInv, TypeOK
  <2>2. TypeOK'
    BY <1>2, <2>1 DEF Save, IInv, TypeOK
  <2>3. NeverTorn'
    BY DEF IInv, TypeOK, NeverTorn
  <2>4. PassedVerify => PassedVerify'
    BY <1>2 DEF Save, PassedVerify, Effective, LikeForLike, Merged, Target
  <2> QED
    BY <1>2, <2>2, <2>3, <2>4 DEF Save, IInv, InOrder, ScratchInPlace, Verified
<1>3. CASE Interrupt
  <2>1. NoScratch \in [text : Content, synced : BOOLEAN]
    BY DEF NoScratch, Content
  <2> QED
    BY <1>3, <2>1 DEF Interrupt, IInv, TypeOK, NeverTorn, InOrder, ScratchInPlace, Verified
<1>4. CASE PowerLoss
  <2>1. disk' = disk /\ unsynced' = {} /\ exit' = "killed"
    BY <1>4 DEF PowerLoss, IInv, TypeOK
  <2> QED
    BY <1>4, <2>1 DEF PowerLoss, IInv, TypeOK, NeverTorn, InOrder, ScratchInPlace, Verified
<1> QED
  BY <1>1, <1>2, <1>3, <1>4

LEMMA StutterStep == ASSUME IInv, UNCHANGED vars PROVE IInv'
BY DEF IInv, TypeOK, NeverTorn, InOrder, ScratchInPlace, Verified, PassedVerify, Effective,
       LikeForLike, Merged, Target, vars, fsVars, gradeVars, loopVars

LEMMA InitIInv == Init => IInv
<1> SUFFICES ASSUME Init PROVE IInv
  OBVIOUS
<1>1. TypeOK
  BY BlankType, BatchIndex, ValueAssumption DEF Init, TypeOK, NoScratch, Content
<1>2. NeverTorn /\ InOrder /\ ScratchInPlace /\ Verified
  BY BatchIndex DEF Init, NeverTorn, InOrder, ScratchInPlace, Verified
<1> QED
  BY <1>1, <1>2 DEF IInv, Init

LEMMA NextIInv == IInv /\ [Next]_vars => IInv'
<1> SUFFICES ASSUME IInv, [Next]_vars PROVE IInv'
  OBVIOUS
<1>1. CASE Step
  BY <1>1, ReadStep, CandidateStep, WriteStep, ReplaceStep, WorldStep DEF Step
<1>2. CASE Save \/ Interrupt \/ PowerLoss
  BY <1>2, WorldStep
<1>3. CASE UNCHANGED vars
  BY <1>3, StutterStep
<1> QED
  BY <1>1, <1>2, <1>3 DEF Next

(* The invariant holds in every reachable state.                           *)
LEMMA Invariance == Spec => []IInv
BY InitIInv, NextIInv, PTL DEF Spec

-----------------------------------------------------------------------------
(* The results.                                                            *)

(* Every variable of the run keeps to its type, for every project.         *)
THEOREM TypeCorrect == Spec => []TypeOK
<1>1. IInv => TypeOK
  BY DEF IInv
<1> QED
  BY <1>1, Invariance, PTL

(* No name ever holds part of a document, whatever call failed and         *)
(* wherever the process or the machine stopped (_atomic_write).            *)
THEOREM NoFileTorn == Spec => []NeverTorn
<1>1. IInv => NeverTorn
  BY DEF IInv
<1> QED
  BY <1>1, Invariance, PTL

(* A run that reached an exit code left no temporary file behind.          *)
THEOREM ScratchRemoved == Spec => []NoScratchLeft
<1>1. IInv => NoScratchLeft
  BY DEF IInv, ScratchInPlace, NoScratchLeft
<1> QED
  BY <1>1, Invariance, PTL

(* A file settled with another word than "fixed" is not a swap.            *)
LEMMA SettleIsNoSwap ==
  ASSUME TypeOK, at \in DOMAIN Batch, NEW word \in Words \ {"fixed"}, Settle(word)
  PROVE  ~Swap
BY DEF Settle, TypeOK, Swap, Words

(* The swap is one action only, the last system call of _atomic_write.     *)
LEMMA OnlyReplaceSwaps ==
  ASSUME IInv, [Next]_vars, Swap
  PROVE  Replace
<1>1. TypeOK
  BY DEF IInv
<1>2. outcome' # outcome
  BY DEF Swap
<1>3. CASE LoadSkips
  BY <1>1, <1>3, SettleIsNoSwap DEF LoadSkips, At, Words
<1>4. CASE LoadFails \/ ReadText \/ Grade
  BY <1>1, <1>2, <1>4, SettleIsNoSwap
     DEF LoadFails, ReadText, Grade, At, GoOn, Abort, Words
<1>5. CASE CollectEdits \/ ApplyEdits \/ Reparse
  BY <1>1, <1>2, <1>5, SettleIsNoSwap
     DEF CollectEdits, ApplyEdits, Reparse, At, GoOn, Abort, Words
<1>6. CASE VerifyApply \/ ShowDiff \/ CheckMode
  BY <1>1, <1>2, <1>6, SettleIsNoSwap
     DEF VerifyApply, ShowDiff, CheckMode, At, GoOn, Abort, Words
<1>7. CASE MakeScratch \/ WriteFails
  BY <1>1, <1>2, <1>7, SettleIsNoSwap DEF MakeScratch, WriteFails, At, GoOn, Words
<1>8. CASE LoadOK \/ WriteScratch \/ SyncScratch \/ Finish
  BY <1>2, <1>8 DEF LoadOK, WriteScratch, SyncScratch, Finish, GoOn
<1>9. CASE Save \/ Interrupt \/ PowerLoss \/ UNCHANGED vars
  BY <1>2, <1>9 DEF Save, Interrupt, PowerLoss, vars, loopVars
<1> QED
  BY <1>3, <1>4, <1>5, <1>6, <1>7, <1>8, <1>9 DEF Next, Step

(* ADR-014 layer 2: the text swapped in is a document, and every key no    *)
(* accepted edit claims has the value that was graded (_structural_drift,  *)
(* verify_apply).                                                          *)
THEOREM FixTouchesWhatItClaims == Spec => UnclaimedKept
<1>1. ASSUME IInv, [Next]_vars, Swap, LikeForLike
      PROVE  /\ disk'[Target] \in Document
             /\ \A k \in Key \ claims : Effective(disk'[Target])[k] = loaded[k]
  <2>1. disk'[Target] = patched /\ PassedVerify
    BY <1>1, OnlyReplaceSwaps, ReplaceStep DEF IInv, TypeOK
  <2> QED
    BY <1>1, <2>1 DEF PassedVerify
<1> QED
  BY <1>1, Invariance, PTL DEF Spec, UnclaimedKept

(* ADR-014 layer 3: what is swapped in leaves fix nothing to do and shows  *)
(* no finding the original did not have (verify_apply).                    *)
THEOREM FixConverges == Spec => RoundTrips
<1>1. ASSUME IInv, [Next]_vars, Swap, LikeForLike
      PROVE  LET found == Findings(Effective(disk'[Target]), ungraded)
             IN  /\ Collect(found, reread) = {}
                 /\ found \subseteq Findings(loaded, {})
  <2>1. disk'[Target] = patched /\ PassedVerify
    BY <1>1, OnlyReplaceSwaps, ReplaceStep DEF IInv, TypeOK
  <2> QED
    BY <1>1, <2>1 DEF PassedVerify
<1> QED
  BY <1>1, Invariance, PTL DEF Spec, RoundTrips

-----------------------------------------------------------------------------
(* Verification refuses nothing that is sound.                             *)

(* A primary nothing is merged over was graded with nothing over it.       *)
AloneInv == phase # "load" /\ ~Merged => over = Blank

LEMMA BlankResolves ==
  ASSUME NEW useEnv
  PROVE  Resolve(Given(Blank), useEnv) = Blank
<1>1. Given(Blank) = Blank
  BY BlankType, TextAssumption DEF Given, Unparsed
<1>2. Resolve(Blank, useEnv) = Blank
  BY ValueAssumption DEF Resolve, Blank
<1> QED
  BY <1>1, <1>2

LEMMA AloneKept ==
  ASSUME TypeOK, AloneInv, [Next]_vars
  PROVE  AloneInv'
<1> USE DEF AloneInv, Merged, Target
<1>1. CASE LoadOK
  BY <1>1, BlankResolves DEF LoadOK, At, GoOn, Over, Merged, Target
<1>2. ASSUME NEW word, Settle(word)
      PROVE  AloneInv'
  BY <1>2 DEF Settle
<1>3. ASSUME NEW next, GoOn(next), over' = over, phase # "load"
      PROVE  AloneInv'
  BY <1>3 DEF GoOn
<1>4. ASSUME UNCHANGED <<phase, at, over>>
      PROVE  AloneInv'
  BY <1>4
<1>5. CASE LoadSkips \/ LoadFails \/ ReadText \/ Grade
  BY <1>2, <1>3, <1>4, <1>5 DEF LoadSkips, LoadFails, ReadText, Grade, At, Abort, gradeVars
<1>6. CASE CollectEdits \/ ApplyEdits \/ Reparse
  BY <1>2, <1>3, <1>4, <1>6 DEF CollectEdits, ApplyEdits, Reparse, At, Abort, gradeVars
<1>7. CASE VerifyApply
  BY <1>2, <1>3, <1>7 DEF VerifyApply, At
<1>8. CASE ShowDiff \/ CheckMode \/ MakeScratch
  BY <1>2, <1>3, <1>4, <1>8 DEF ShowDiff, CheckMode, MakeScratch, At, Abort, gradeVars
<1>9. CASE WriteScratch \/ SyncScratch \/ WriteFails \/ Replace
  BY <1>2, <1>3, <1>9 DEF WriteScratch, SyncScratch, WriteFails, Replace, At, gradeVars
<1>10. CASE Finish \/ Save \/ Interrupt \/ PowerLoss \/ UNCHANGED vars
  BY <1>4, <1>10 DEF Finish, Save, Interrupt, PowerLoss, vars, gradeVars, loopVars
<1> QED
  BY <1>1, <1>5, <1>6, <1>7, <1>8, <1>9, <1>10 DEF Next, Step

LEMMA AloneInvariance == Spec => []AloneInv
<1>1. Init => AloneInv
  BY DEF Init, AloneInv
<1>2. TypeOK /\ AloneInv /\ [Next]_vars => AloneInv'
  BY AloneKept
<1> QED
  BY <1>1, <1>2, TypeCorrect, PTL DEF Spec

(* At verification only verification settles a file.                       *)
LEMMA OnlyVerifyRefuses ==
  ASSUME At("verify"), [Next]_vars, outcome' # outcome
  PROVE  \E crashed \in SUBSET Key : ~VerifyOK(crashed)
<1>1. ~(Save \/ Interrupt \/ PowerLoss \/ UNCHANGED vars \/ Finish)
  BY DEF Save, Interrupt, PowerLoss, Finish, At, vars, loopVars
<1>2. VerifyApply
  BY <1>1 DEF Next, Step, At, LoadOK, LoadSkips, LoadFails, ReadText, Grade, CollectEdits,
              ApplyEdits, Reparse, ShowDiff, CheckMode, MakeScratch, WriteScratch,
              SyncScratch, Replace, WriteFails
<1> QED
  BY <1>2 DEF VerifyApply, GoOn

(* A sound candidate is read again as what it is: the configuration it     *)
(* stands for beside the override it was made for.                         *)
LEMMA SoundRereads ==
  ASSUME TypeOK, AloneInv, At("verify"), SoundCandidate, LikeForLike,
         Merged => Over # Empty
  PROVE  /\ Reloadable
         /\ ReloadedOver = over
         /\ Reloaded = Merge(Resolve(patched, ~noEnv), over)
<1>1. CASE Merged
  <2>1. Over \in Document /\ Given(Over) = Over
    BY <1>1 DEF SoundCandidate, Given
  <2> QED
    BY <1>1, <2>1 DEF SoundCandidate, Reloadable, ReloadedOver, Reloaded
<1>2. CASE ~Merged
  <2>1. over = Blank
    BY <1>2 DEF AloneInv, At
  <2>2. noEnv = FALSE
    BY <1>2 DEF LikeForLike, TypeOK
  <2>3. Merge(Resolve(patched, TRUE), Blank) = Resolve(patched, TRUE)
    BY ResolveType, MergeType, BlankType DEF SoundCandidate
  <2> QED
    BY <1>2, <2>1, <2>2, <2>3 DEF Reloadable, ReloadedOver, Reloaded
<1> QED
  BY <1>1, <1>2

(* Whichever rules crash over it, a sound candidate passes.                *)
LEMMA SoundVerifies ==
  ASSUME TypeOK, AloneInv, At("verify"), SoundCandidate, LikeForLike,
         Merged => Over # Empty, NEW crashed \in SUBSET Key
  PROVE  VerifyOK(crashed)
<1>1. Findings(Reloaded, crashed) \subseteq Findings(Reloaded, {})
  BY DEF Findings
<1>2. Collect(Findings(Reloaded, crashed), over) \subseteq Collect(Findings(Reloaded, {}), over)
  BY <1>1 DEF Collect
<1> QED
  BY <1>1, <1>2, SoundRereads DEF VerifyOK, Settles, TradesNothing, SoundCandidate

(* A sound fix goes through verification, whoever saves what else in       *)
(* between and whichever rules crash (verify_apply refuses nothing else).  *)
THEOREM SoundFixAlwaysPasses == Spec => SoundFixPasses
<1>1. TypeOK /\ AloneInv /\ [Next]_vars
        => ~(RefusesSound /\ LikeForLike /\ (Merged => Over # Empty))
  BY OnlyVerifyRefuses, SoundVerifies DEF RefusesSound
<1> QED
  BY <1>1, TypeCorrect, AloneInvariance, PTL DEF Spec, SoundFixPasses

-----------------------------------------------------------------------------
(* The run implements the contract: every step is a step of FixContract or *)
(* none at all.                                                            *)

(* A settled file was the one whose turn it was.                           *)
LEMMA TurnIsAt ==
  ASSUME IInv, exit = "none", at \in DOMAIN Batch
  PROVE  Contract!Turn(at)
BY BatchIndex DEF IInv, InOrder, TypeOK, Contract!Turn

(* Settling a file without a swap is the contract's Leave.                 *)
LEMMA SettleLeaves ==
  ASSUME IInv, exit = "none", at \in DOMAIN Batch,
         NEW word \in Contract!Untouched, Settle(word), disk' = disk
  PROVE  Contract!Next
BY TurnIsAt DEF Settle, Contract!Leave, Contract!Next

LEMMA InitContract == Init => Contract!Init
BY DEF Init, Contract!Init, Content, Text

LEMMA StepContract ==
  ASSUME IInv, [Next]_vars
  PROVE  [Contract!Next]_(Contract!vars)
<1> USE DEF fsVars, loopVars
<1>1. CASE LoadSkips \/ LoadFails \/ WriteFails
  BY <1>1, SettleLeaves
     DEF LoadSkips, LoadFails, WriteFails, At, Contract!Untouched
<1>2. ASSUME NEW word \in Contract!Untouched, Settle(word), disk' = disk,
             exit = "none", at \in DOMAIN Batch
      PROVE  Contract!Next
  BY <1>2, SettleLeaves
<1>3. CASE ReadText \/ Grade \/ CollectEdits
  BY <1>2, <1>3 DEF ReadText, Grade, CollectEdits, At, GoOn, Abort, Contract!Untouched,
                    Contract!vars, Contract!Next, Contract!Stop
<1>4. CASE ApplyEdits \/ Reparse \/ VerifyApply
  BY <1>2, <1>4 DEF ApplyEdits, Reparse, VerifyApply, At, GoOn, Abort, Contract!Untouched,
                    Contract!vars, Contract!Next, Contract!Stop
<1>5. CASE ShowDiff \/ CheckMode \/ MakeScratch
  BY <1>2, <1>5 DEF ShowDiff, CheckMode, MakeScratch, At, GoOn, Abort, Contract!Untouched,
                    Contract!vars, Contract!Next, Contract!Stop
<1>6. CASE LoadOK \/ WriteScratch \/ SyncScratch
  BY <1>6 DEF LoadOK, WriteScratch, SyncScratch, GoOn, Contract!vars
<1>7. CASE Replace
  <2>1. disk' = [disk EXCEPT ![Batch[at]] = patched] /\ patched \in Document
    BY <1>7, ReplaceStep DEF Target, PassedVerify
  <2>2. Contract!Turn(at) /\ at \in DOMAIN Batch
    BY <1>7, TurnIsAt DEF Replace, At
  <2>3. Contract!Swap(at)
    BY <1>7, <2>1, <2>2 DEF Replace, Settle, Contract!Swap
  <2> QED
    BY <2>2, <2>3 DEF Contract!Next
<1>8. CASE Finish
  <2>1. at = Len(Batch) + 1
    BY <1>8, BatchIndex DEF Finish, IInv, TypeOK
  <2>2. \A i \in DOMAIN Batch : outcome[i] # "pending"
    BY <2>1, BatchIndex DEF IInv, InOrder
  <2>3. Contract!Stop
    BY <1>8, <2>2 DEF Finish, HadError, Contract!Stop
  <2> QED
    BY <2>3 DEF Contract!Next
<1>9. CASE Interrupt
  BY <1>9 DEF Interrupt, Contract!Stop, Contract!Next
<1>10. CASE PowerLoss
  <2>1. disk' = disk /\ exit = "none"
    BY <1>10 DEF PowerLoss, IInv, TypeOK
  <2> QED
    BY <1>10, <2>1 DEF PowerLoss, Contract!Stop, Contract!Next
<1>11. CASE Save
  <2>1. Contract!Save
    BY <1>11 DEF Save, Content, Text, Contract!Save
  <2> QED
    BY <2>1 DEF Contract!Next
<1>12. CASE UNCHANGED vars
  BY <1>12 DEF vars, Contract!vars
<1> QED
  BY <1>1, <1>3, <1>4, <1>5, <1>6, <1>7, <1>8, <1>9, <1>10, <1>11, <1>12 DEF Next, Step

(* The run implements FixContract: a file changes by a save or by one swap *)
(* of a complete document, in its turn; a file not reported fixed is one   *)
(* the run never touched; exit 0 means that every file of the batch was    *)
(* settled and none failed (_run_fix).                                     *)
THEOREM RunKeepsContract == Spec => ContractKept
BY InitContract, StepContract, Invariance, PTL DEF Spec, ContractKept, Contract!Spec
=============================================================================
