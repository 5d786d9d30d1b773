-------------------------------- MODULE Load --------------------------------
(***************************************************************************)
(* Loading a set of Compose files: parser.load_compose_full for a single   *)
(* path, parser.load_merged for several, and parser._loads_full, which     *)
(* calls itself for every `include:` and every cross-file `extends:` a     *)
(* document makes. The Python call stack is the variable `stack`: a frame  *)
(* is one activation of _loads_full, and one step follows one reference,   *)
(* resolves one document's in-file `extends:`, or moves to the next path.  *)
(*                                                                         *)
(* What a value is stands for where it comes from: a literal is the file   *)
(* and service that wrote it, an interpolated image the directory whose    *)
(* `.env` decided it. So a result names the documents it was merged from.  *)
(*                                                                         *)
(* A reference names a file directly, or is Away: written out of the       *)
(* repository, interpolated or remote.                                     *)
(***************************************************************************)
EXTENDS DocumentMerge, FiniteSets

CONSTANTS
  File,
  Dir,
  DirOf,         \* the directory each file sits in
  Away,
  MaxDepth,      \* MAX_REFERENCE_DEPTH
  MaxFiles,      \* MAX_REFERENCE_FILES
  Common,        \* the capability every service with some asks for
  Sock,          \* the container path every service with mounts mounts over
  Default,       \* the value of an interpolated image no `.env` decides
  Full,          \* a document loaded for all its services
  Unreadable,    \* missing, too large, special, out of reach or not UTF-8
  NotCompose,    \* not YAML, a v1 file, a compose-lint config
  Blank,         \* an empty file
  Inputs         \* the files to load, the primary first, and what files hold

IsDocument(c) == c \notin {Unreadable, NotCompose, Blank}

(* A service is written "bare", with literals ("plain"), with an image     *)
(* that is interpolated ("ref"), with `image: !reset` or with capabilities *)
(* tagged `!override`.                                                     *)
Kinds == {"bare", "plain", "ref", "reset", "override"}

(* What may stand under `extends:`: a name, or a mapping with or without a *)
(* file.                                                                   *)
Exts ==
  {NoExt} \cup [form : {"short", "mapping"}, svc : Service]
    \cup [form : {"mapping"}, svc : Service, file : File \cup {Away}]

(* A document lists entries of files it includes, and its services.        *)
IsWritten(c) ==
  /\ c.include \in Seq(Seq(File \cup {Away}) \ {<< >>})
  /\ c.services \in [Service -> {NoService, NoBody} \cup [kind : Kinds, ext : Exts]]

ASSUME LoadAssumption ==
  /\ IsFiniteSet(File) /\ IsFiniteSet(Service)
  /\ \A in \in Inputs :
       /\ in.paths \in Seq(File) /\ in.paths # << >>
       /\ \A f \in File : IsDocument(in.docs[f]) => IsWritten(in.docs[f])
  /\ DirOf \in [File -> Dir]
  /\ Away \notin File
  /\ Blank \notin {Unreadable, NotCompose}
  /\ Full \notin Service
  /\ MaxDepth \in Nat /\ MaxFiles \in Nat

VARIABLES
  paths,      \* the files to load: the primary, then its overlays
  docs,       \* what each file holds
  supplied,   \* the directories whose `.env` defines the name
  path,       \* the path being loaded
  stack,      \* the activations of _loads_full
  spent,      \* files the two _ExtendsBudgets of this path were asked for
  loaded,     \* the documents of the paths loaded so far
  gaps,       \* the coverage gaps reported
  status,     \* "loading", "loaded", "refused" or "skipped"
  result      \* the merged services

vars == <<paths, docs, supplied, path, stack, spent, loaded, gaps, status, result>>

ProjectDir == DirOf[paths[1]]
Merging == Len(paths) > 1

-----------------------------------------------------------------------------
(* One document as parsed.                                                 *)

Tags(f) ==
  [s \in Service |->
     LET w == docs[f].services[s]
     IN  IF HasBody(w) THEN {w.kind} \cap {"reset", "override"} ELSE {}]

(* The layered `.env` files: inner ones first, the project's own last, and *)
(* each overrides those before it.                                         *)
EnvValue(env) ==
  IF \E i \in DOMAIN env : env[i] \in supplied
  THEN env[CHOOSE i \in DOMAIN env :
             env[i] \in supplied /\ \A j \in DOMAIN env : env[j] \in supplied => j <= i]
  ELSE Default

(* What a service written in f contributes under these `.env` files.       *)
Written(f, s, env) ==
  LET w == docs[f].services[s]
      me == <<f, s>>
  IN  IF ~HasBody(w) THEN w
      ELSE [image |-> CASE w.kind = "plain" -> me
                        [] w.kind = "ref" -> EnvValue(env)
                        [] OTHER -> Unset,
            caps  |-> CASE w.kind = "plain" -> <<Common, me>>
                        [] w.kind \in {"reset", "override"} -> <<me>>
                        [] OTHER -> << >>,
            vols  |-> IF w.kind = "plain"
                      THEN <<[key |-> Sock, src |-> me], [key |-> me, src |-> me]>>
                      ELSE << >>,
            ext   |-> w.ext]

Parsed(f, env) == [s \in Service |-> Written(f, s, env)]

InFileTarget(b) ==
  IF ~HasBody(b) \/ b.ext.form = "none" \/ "file" \in DOMAIN b.ext
  THEN {} ELSE {b.ext.svc}

CrossFile(b) == HasBody(b) /\ "file" \in DOMAIN b.ext

-----------------------------------------------------------------------------
(* Frames.                                                                 *)

Frame(f, want, env, depth, inc, ext, budget) ==
  [file |-> f, want |-> want, env |-> env, depth |-> depth,
   inc |-> inc, ext |-> ext,        \* the chains, as sets
   budget |-> budget,               \* the budget it was handed, 0 for none
   data |-> Parsed(f, env),
   phase |-> "include",
   entry |-> 1, ref |-> 1,          \* the reference it is at
   folded |-> {},                   \* <<file, directory>> pairs folded in
   part |-> << >>,                  \* the documents of this entry
   parts |-> << >>,                 \* the folded entries before it
   skip |-> {},                     \* services its `extends:` passes leave alone
   todo |-> {},                     \* services with a cross-file base to go
   at |-> {},                       \* the service whose base is being loaded
   gaps |-> {}]

Top == Last(stack)
Below == Front(stack)
Caller == Last(Below)

(* Carry on with `frame`; call a further activation from it; return to it. *)
Update(frame) == stack' = Append(Below, frame)
Call(frame, callee) == stack' = Append(Append(Below, frame), callee)
Return(frame) == stack' = Append(Front(Below), frame)
Missed(frame, why) == [frame EXCEPT !.gaps = @ \cup {<<frame.file, why>>}]

(* The budget a reference spends: the one handed down or, in the document  *)
(* of a path, a new one for its includes and another for its bases.        *)
BudgetFor(frame, new) == IF frame.budget = 0 THEN new ELSE frame.budget

Spend(budget) == spent' = [spent EXCEPT ![budget] = @ + 1]
Exhausted(budget) == spent[budget] >= MaxFiles

-----------------------------------------------------------------------------
(* paths.                                                                  *)

Init ==
  /\ \E in \in Inputs : paths = in.paths /\ docs = in.docs
  /\ supplied \in SUBSET Dir
  /\ path = 1
  /\ stack = << >>
  /\ spent = [b \in {1, 2} |-> 0]
  /\ loaded = << >>
  /\ gaps = {}
  /\ status = "loading"
  /\ result = Nothing

Declares(f) == \E s \in Service : docs[f].services[s] # NoService

(* _validate_compose: a document loaded on its own has a body under every  *)
(* service and services of its own or an `include:`.                       *)
Acceptable(f) ==
  /\ IsDocument(docs[f])
  /\ ~Merging =>
       /\ \A s \in Service : docs[f].services[s] # NoBody
       /\ Declares(f) \/ docs[f].include # << >>

OpenPath ==
  /\ status = "loading" /\ stack = << >> /\ path <= Len(paths)
  /\ Acceptable(paths[path])
  /\ stack' = <<Frame(paths[path], Full, <<ProjectDir>>, 0, {}, {}, 0)>>
  /\ spent' = [b \in {1, 2} |-> 0]
  /\ UNCHANGED <<paths, docs, supplied, path, loaded, gaps, status, result>>

(* An empty file in a set contributes nothing.                             *)
OpenBlank ==
  /\ status = "loading" /\ stack = << >> /\ path <= Len(paths)
  /\ Merging /\ docs[paths[path]] = Blank
  /\ loaded' = Append(loaded, [data |-> Nothing, tags |-> NoTags])
  /\ path' = path + 1
  /\ UNCHANGED <<paths, docs, supplied, stack, spent, gaps, status, result>>

(* Refusals: a file loaded on its own that is a fragment, a v1 file or a   *)
(* compose-lint config is passed over, anything else is an error.          *)
NotApplicable(f) ==
  /\ ~Merging
  /\ docs[f] = NotCompose \/ (IsDocument(docs[f]) /\ ~Declares(f))

OpenRefused ==
  /\ status = "loading" /\ stack = << >> /\ path <= Len(paths)
  /\ ~Acceptable(paths[path]) /\ ~(Merging /\ docs[paths[path]] = Blank)
  /\ \/ status' = "skipped" /\ NotApplicable(paths[path])
     \/ status' = "refused" /\ ~(IsDocument(docs[paths[path]]) /\ NotApplicable(paths[path]))
  /\ UNCHANGED <<paths, docs, supplied, path, stack, spent, loaded, gaps, result>>

(* Every path is loaded: fold the overlays over the primary. A service no  *)
(* document gave a body, or a set that is empty, is refused; a set with no *)
(* services is passed over.                                                *)
Conclude ==
  /\ status = "loading" /\ stack = << >> /\ path > Len(paths)
  /\ result' = MergeDocuments(loaded)
  /\ status' =
       IF \/ \E s \in Service : result'[s] = NoBody
          \/ \A i \in DOMAIN paths : docs[paths[i]] = Blank THEN "refused"
       ELSE IF result' = Nothing THEN "skipped"
       ELSE "loaded"
  /\ UNCHANGED <<paths, docs, supplied, path, stack, spent, loaded, gaps>>

-----------------------------------------------------------------------------
(* _resolve_includes: one reference at a time.                             *)

Including == status = "loading" /\ stack # << >> /\ Top.phase = "include"

Entries(f) == docs[f].include
Reference(frame) == Entries(frame.file)[frame.entry][frame.ref]

(* The project directory of an entry is its first path's; one that cannot  *)
(* be placed leaves each file its own.                                     *)
EntryDir(frame) ==
  LET first == Entries(frame.file)[frame.entry][1]
  IN  DirOf[IF first = Away THEN Reference(frame) ELSE first]

Identity(frame) == <<Reference(frame), EntryDir(frame)>>

(* _folded: the files of one entry are one document, later winning.        *)
Folded(part) ==
  IF Len(part) = 1 THEN part[1]
  ELSE [data |-> MergeDocuments(part), tags |-> NoTags]

(* On to the next reference of the entry, or the next entry.               *)
Advance(frame) ==
  IF frame.ref < Len(Entries(frame.file)[frame.entry])
  THEN [frame EXCEPT !.ref = @ + 1]
  ELSE [frame EXCEPT !.ref = 1, !.entry = @ + 1, !.part = << >>,
                     !.parts = IF frame.part = << >> THEN @
                               ELSE Append(@, Folded(frame.part))]

Receive(frame, document) ==
  Advance([frame EXCEPT !.part = Append(@, document)])

Deep(frame) == frame.depth >= MaxDepth

(* The references refused before a file is asked for. Depth is looked at   *)
(* first, then the place, then the chain.                                  *)
IncludeRefused ==
  /\ Including /\ Top.entry <= Len(Entries(Top.file))
  /\ LET why == IF Deep(Top) THEN "deep"
                ELSE IF Reference(Top) = Away THEN "away" ELSE "cycle"
     IN  /\ Deep(Top) \/ Reference(Top) = Away \/ Reference(Top) \in Top.inc
         /\ Update(Advance(Missed(Top, why)))
  /\ UNCHANGED <<paths, docs, supplied, path, spent, loaded, gaps, status, result>>

Followable(frame) ==
  /\ ~Deep(frame)
  /\ Reference(frame) \in File \ frame.inc

(* A file this document folded in before, under the same directory.        *)
IncludeAgain ==
  /\ Including /\ Top.entry <= Len(Entries(Top.file))
  /\ Followable(Top) /\ Identity(Top) \in Top.folded
  /\ Update(Advance(Top))
  /\ UNCHANGED <<paths, docs, supplied, path, spent, loaded, gaps, status, result>>

(* Mutant: an included document starts counting levels again.              *)
IncludeFrameShallow(frame, budget) ==
  Frame(Reference(frame), Full, <<EntryDir(frame)>> \o frame.env,
        frame.depth, frame.inc \cup {Reference(frame)}, {}, budget)

(* An included sub-project's own `.env` sits under the includer's. The     *)
(* chain of bases starts over.                                             *)
IncludeFrame(frame, budget) ==
  Frame(Reference(frame), Full, <<EntryDir(frame)>> \o frame.env,
        frame.depth + 1, frame.inc \cup {Reference(frame)}, {}, budget)

IncludeOpen ==
  /\ Including /\ Top.entry <= Len(Entries(Top.file))
  /\ Followable(Top) /\ Identity(Top) \notin Top.folded
  /\ LET budget == BudgetFor(Top, 1)
         content == docs[Reference(Top)]
         asked == [Top EXCEPT !.folded = @ \cup {Identity(Top)}]
     IN  /\ Spend(budget)
         /\ \/ /\ Exhausted(budget)
               /\ Update(Advance(Missed(asked, "files")))
            \/ /\ ~Exhausted(budget)
               /\ content \in {Unreadable, NotCompose}
               /\ Update(Advance(Missed(asked, "unread")))
            \/ /\ ~Exhausted(budget)
               /\ content = Blank
               /\ Update(Receive(asked, [data |-> Nothing, tags |-> NoTags]))
            \/ /\ ~Exhausted(budget)
               /\ IsDocument(content)
               /\ Call(asked, IncludeFrame(Top, budget))
  /\ UNCHANGED <<paths, docs, supplied, path, loaded, gaps, status, result>>

(* A base document is loaded for one service: this one and the in-file     *)
(* bases it inherits from are kept, the others left as written.            *)
Chain(data, from) ==
  LET declared == {s \in Service : data[s] # NoService}
      Closed(S) == \A s \in S : InFileTarget(data[s]) \cap declared \subseteq S
  IN  {t \in declared : \A S \in SUBSET declared :
                           {from} \cap declared \subseteq S /\ Closed(S) => t \in S}

(* Mutant: a base document is resolved for all its services.               *)
UnwantedNone(data, want) == {}

Unwanted(data, want) == IF want = Full THEN {} ELSE Service \ Chain(data, want)

(* Services that arrive with an `extends:` some included document already  *)
(* resolved, unless this document names its own.                           *)
AlreadyResolved(frame) ==
  {s \in Service :
     /\ \E i \in DOMAIN frame.parts :
          HasBody(frame.parts[i].data[s]) /\ frame.parts[i].data[s].ext # NoExt
     /\ ~(HasBody(frame.data[s]) /\ frame.data[s].ext # NoExt)}

(* Mutant: entries are folded like the files of a list, later winning.     *)
FoldForwards(frame) ==
  MergeDocuments(Append(frame.parts, [data |-> frame.data, tags |-> NoTags]))

(* The fold runs backwards: an earlier entry overrides a later one, and    *)
(* the document itself, without its directives, overrides them all.        *)
Fold(frame) ==
  MergeDocuments(Append(Reverse(frame.parts), [data |-> frame.data, tags |-> NoTags]))

IncludesDone ==
  /\ Including /\ Top.entry > Len(Entries(Top.file))
  /\ LET data == IF Top.parts = << >> THEN Top.data ELSE Fold(Top)
         skip == AlreadyResolved(Top) \cup Unwanted(data, Top.want)
     IN  Update([Top EXCEPT !.phase = "extends", !.data = data, !.skip = skip,
                            !.todo = {s \in Service \ skip : CrossFile(data[s])}])
  /\ UNCHANGED <<paths, docs, supplied, path, spent, loaded, gaps, status, result>>

-----------------------------------------------------------------------------
(* _resolve_cross_file_extends: one service at a time. The order is the    *)
(* document's, which the model leaves open.                                *)

Extending == status = "loading" /\ stack # << >> /\ Top.phase = "extends"

Base(frame, s) == <<frame.data[s].ext.file, frame.data[s].ext.svc>>

ExtendRefused ==
  /\ Extending
  /\ \E s \in Top.todo :
       LET why == IF Deep(Top) THEN "deep"
                  ELSE IF Base(Top, s)[1] = Away THEN "away" ELSE "cycle"
       IN  /\ Deep(Top) \/ Base(Top, s)[1] = Away \/ Base(Top, s) \in Top.ext
           /\ Update([Missed(Top, why) EXCEPT !.todo = @ \ {s}])
  /\ UNCHANGED <<paths, docs, supplied, path, spent, loaded, gaps, status, result>>

(* A base's references are resolved against its own directory, and it is   *)
(* interpolated like the document that extends it.                         *)
BaseFrame(frame, base, budget) ==
  Frame(base[1], base[2], frame.env, frame.depth + 1, {},
        frame.ext \cup {base}, budget)

ExtendOpen ==
  /\ Extending
  /\ \E s \in Top.todo :
       LET base == Base(Top, s)
           budget == BudgetFor(Top, 2)
           asked == [Top EXCEPT !.todo = @ \ {s}]
       IN  /\ ~Deep(Top) /\ base[1] # Away /\ base \notin Top.ext
           /\ Spend(budget)
           /\ \/ /\ Exhausted(budget)
                 /\ Update(Missed(asked, "files"))
              \/ /\ ~Exhausted(budget)
                 /\ ~IsDocument(docs[base[1]])
                 /\ Update(Missed(asked, "unread"))
              \/ /\ ~Exhausted(budget)
                 /\ IsDocument(docs[base[1]])
                 /\ Call([asked EXCEPT !.at = {s}], BaseFrame(Top, base, budget))
  /\ UNCHANGED <<paths, docs, supplied, path, loaded, gaps, status, result>>

(* Mutant: what was missed below the base is not passed on.                *)
InheritQuietly(frame, want, base) ==
  LET s == CHOOSE t \in frame.at : TRUE
      done == [frame EXCEPT !.at = {}]
  IN  IF base.data[want] = NoService THEN Missed(done, "nobase")
      ELSE [done EXCEPT !.data[s] = MergeService(base.data[want], @, Tags(frame.file)[s])]

(* The base is in: merge the service it was loaded for under the child,    *)
(* whose directives apply.                                                 *)
Inherit(frame, want, base) ==
  LET s == CHOOSE t \in frame.at : TRUE
      done == [frame EXCEPT !.at = {}]
  IN  IF base.data[want] = NoService THEN Missed(done, "nobase")
      ELSE [done EXCEPT !.gaps = @ \cup base.gaps,
                        !.data = MergeServiceFrom(base.data, want, @, s, Tags(frame.file))]

-----------------------------------------------------------------------------
(* _resolve_in_file_extends, and the return to the caller.                 *)

Target(frame, s) == IF s \in frame.skip THEN {} ELSE InFileTarget(frame.data[s])

(* The targets from one of a service's on lead back to it.                 *)
OnCycle(frame, s) ==
  LET Closed(S) == \A t \in S : Target(frame, t) \subseteq S
  IN  \A S \in SUBSET Service : Target(frame, s) \subseteq S /\ Closed(S) => s \in S

(* The recursion refuses, in each cycle, the one service whose target it   *)
(* is already resolving: which one depends on the order of the services.   *)
Cuts(frame) ==
  LET cyclic == {s \in Service : OnCycle(frame, s)}
      cycle(s) == {t \in cyclic : s \in Chain(frame.data, t) /\ t \in Chain(frame.data, s)}
  IN  {cut \in SUBSET cyclic : \A s \in cyclic : Cardinality(cut \cap cycle(s)) = 1}

Undeclared(frame, s) == \E t \in Target(frame, s) : frame.data[t] = NoService

(* Every service over its resolved base.                                   *)
Inherited(frame, cut) ==
  LET up[n \in 0 .. Cardinality(Service)] ==
        IF n = 0 THEN frame.data
        ELSE [s \in Service |->
                IF Target(frame, s) = {} \/ s \in cut \/ Undeclared(frame, s)
                THEN frame.data[s]
                ELSE LET t == CHOOSE u \in Target(frame, s) : TRUE
                     IN  MergeService(up[n - 1][t], frame.data[s], Tags(frame.file)[s])]
  IN  up[Cardinality(Service)]

(* What a finished activation hands back.                                  *)
Answer(frame, cut) ==
  [data |-> Inherited(frame, cut),
   tags |-> Tags(frame.file),
   gaps |-> frame.gaps
              \cup {<<frame.file, "cycle">> : s \in cut}
              \cup {<<frame.file, "noservice">> :
                      s \in {t \in Service : Undeclared(frame, t)}}]

(* An `include:`-only document that got no service out of its references   *)
(* is an error after all.                                                  *)
Vacuous(frame) == Entries(frame.file) # << >> /\ frame.data = Nothing

Finished == Extending /\ Top.todo = {}

(* To an `include:` in the caller.                                         *)
ReturnInclude ==
  /\ Finished /\ Len(stack) > 1 /\ Top.want = Full
  /\ \E cut \in Cuts(Top) :
       LET answer == Answer(Top, cut)
       IN  Return(IF Vacuous(Top) THEN Advance(Missed(Caller, "unread"))
                  ELSE Receive([Caller EXCEPT !.gaps = @ \cup answer.gaps],
                               [data |-> answer.data, tags |-> answer.tags]))
  /\ UNCHANGED <<paths, docs, supplied, path, spent, loaded, gaps, status, result>>

(* To a cross-file `extends:` in the caller.                               *)
ReturnBase ==
  /\ Finished /\ Len(stack) > 1 /\ Top.want # Full
  /\ \E cut \in Cuts(Top) :
       Return(IF Vacuous(Top) THEN [Missed(Caller, "unread") EXCEPT !.at = {}]
              ELSE Inherit(Caller, Top.want, Answer(Top, cut)))
  /\ UNCHANGED <<paths, docs, supplied, path, spent, loaded, gaps, status, result>>

(* To load_compose_full or load_document.                                  *)
ReturnPath ==
  /\ Finished /\ Len(stack) = 1
  /\ stack' = << >>
  /\ \/ /\ Vacuous(Top)
        /\ status' = "refused"
        /\ UNCHANGED <<path, loaded, gaps>>
     \/ /\ ~Vacuous(Top)
        /\ \E cut \in Cuts(Top) :
             LET answer == Answer(Top, cut)
             IN  /\ loaded' = Append(loaded, [data |-> answer.data, tags |-> answer.tags])
                 /\ gaps' = gaps \cup answer.gaps
        /\ path' = path + 1
        /\ UNCHANGED status
  /\ UNCHANGED <<paths, docs, supplied, spent, result>>

Next ==
  \/ OpenPath \/ OpenBlank \/ OpenRefused \/ Conclude
  \/ IncludeRefused \/ IncludeAgain \/ IncludeOpen \/ IncludesDone
  \/ ExtendRefused \/ ExtendOpen
  \/ ReturnInclude \/ ReturnBase \/ ReturnPath

Spec == Init /\ [][Next]_vars

(* The recursion is bounded whatever the files refer to: no more           *)
(* activations than the limit on depth (MAX_REFERENCE_DEPTH).              *)
DepthBounded == Len(stack) <= MaxDepth + 1
=============================================================================
