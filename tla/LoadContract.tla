---------------------------- MODULE LoadContract ----------------------------
(***************************************************************************)
(* Which documents loading a set of Compose files has to follow, stated    *)
(* over the files alone, and the properties that hold Load to it.          *)
(***************************************************************************)
EXTENDS Load

-----------------------------------------------------------------------------
(* Which documents the configuration needs.                                *)

(* A node is one document loaded in full, or one service of one.           *)
Node(f, s) == [file |-> f, svc |-> s]

OwnExt(f, s) ==
  LET w == docs[f].services[s] IN IF HasBody(w) THEN w.ext ELSE NoExt

Included(f) == UNION {ToSet(Entries(f)[i]) : i \in DOMAIN Entries(f)}

(* What a node's document asks for: everything it includes, and the base   *)
(* of each service that matters, here or in another file.                  *)
Needs(n) ==
  {Node(g, Full) : g \in Included(n.file)}
    \cup {IF "file" \in DOMAIN ext THEN Node(ext.file, ext.svc) ELSE Node(n.file, ext.svc) :
            ext \in {OwnExt(n.file, s) : s \in IF n.svc = Full THEN Service ELSE {n.svc}}
                      \ {NoExt}}

Usable(n) == n.file \in File /\ IsDocument(docs[n.file])

Roots == {Node(paths[i], Full) : i \in DOMAIN paths}

(* An included or overlay file may also be empty.                          *)
Readable(n) == Usable(n) \/ (n.file \in File /\ docs[n.file] = Blank /\ n.svc = Full)

NodeCount == (Cardinality(File) + 1) * (Cardinality(Service) + 1)

After(S) == UNION {Needs(n) : n \in {m \in S : Usable(m)}}

Reached ==
  LET reach[k \in Nat] ==
        IF k = 0 THEN Roots ELSE LET S == reach[k - 1] IN S \cup After(S)
  IN  reach[NodeCount]

Acyclic(S) ==
  LET peel[k \in Nat] ==
        IF k = 0 THEN S
        ELSE LET rest == peel[k - 1]
             IN  {n \in rest : Usable(n) /\ Needs(n) \cap rest # {}}
  IN  peel[NodeCount] = {}

(* A document and all it includes, directly or not.                        *)
ProjectOf(f) ==
  LET Closed(S) == \A g \in S : IsDocument(docs[g]) => Included(g) \cap File \subseteq S
  IN  {g \in File : \A S \in SUBSET File : f \in S /\ Closed(S) => g \in S}

(* Some document of f's own project says something under this name.        *)
Mentions(f, s) ==
  \E g \in ProjectOf(f) : IsDocument(docs[g]) /\ docs[g].services[s] # NoService

(* Some document of it has a mapping under the `extends:` of s.            *)
Maps(f, s) ==
  \E g \in ProjectOf(f) : IsDocument(docs[g]) /\ OwnExt(g, s).form = "mapping"

(* The mapping a document has there, without a file, meets one that it     *)
(* includes: they are merged, and may name a file neither named.           *)
Mixed ==
  \E f \in File, s \in Service :
    /\ IsDocument(docs[f]) /\ OwnExt(f, s).form = "mapping" /\ "file" \notin DOMAIN OwnExt(f, s)
    /\ \E g \in Included(f) \cap File : Maps(g, s)

(* Some document of f's project has s inherit, in its own file, from t.    *)
Lends(f, s, t) ==
  \E g \in ProjectOf(f) :
    /\ IsDocument(docs[g])
    /\ OwnExt(g, s) # NoExt /\ "file" \notin DOMAIN OwnExt(g, s) /\ OwnExt(g, s).svc = t

(* A service of f is the base of one in another file.                      *)
Extended(f) ==
  \E g \in File, s \in Service :
    /\ IsDocument(docs[g]) /\ "file" \in DOMAIN OwnExt(g, s) /\ OwnExt(g, s).file = f

(* A service that is resolved below such a document, over one that the     *)
(* document redefines: the chain of bases the code keeps is then read off  *)
(* the merged services, and goes on through the redefinition.              *)
Borrowed ==
  \E f \in File, t \in Service :
    /\ IsDocument(docs[f]) /\ Extended(f) /\ OwnExt(f, t) # NoExt
    /\ \E g \in Included(f) \cap File, s \in Service : Lends(g, s, t)

(* Every reference leads to a document, no chain returns, and a base is    *)
(* there to be inherited from.                                             *)
Complete ==
  /\ \A n \in Reached : Readable(n)
  /\ Acyclic(Reached)
  /\ \A n \in Reached : n.svc # Full => Mentions(n.file, n.svc)
  /\ \A n \in Reached : Usable(n) /\ Included(n.file) # {} =>
       \E s \in Service : Mentions(n.file, s)

-----------------------------------------------------------------------------
(* Properties.                                                             *)

Reasons == {"deep", "away", "cycle", "files", "unread", "nobase", "noservice"}

(* Types, and the shape of the stack: every caller is waiting for exactly  *)
(* one reference.                                                          *)
TypeOK ==
  /\ supplied \subseteq Dir /\ path \in 1 .. Len(paths) + 1
  /\ status \in {"loading", "loaded", "refused", "skipped"}
  /\ gaps \subseteq File \X Reasons
  /\ \A b \in {1, 2} : spent[b] \in Nat
  /\ \A i \in DOMAIN stack :
       /\ stack[i].file \in File /\ IsDocument(docs[stack[i].file])
       /\ stack[i].want \in Service \cup {Full}
       /\ stack[i].gaps \subseteq File \X Reasons
       /\ stack[i].budget = 0 <=> i = 1
       /\ stack[i].phase = "include" => stack[i].at = {} /\ stack[i].todo = {}
       /\ (stack[i].at # {}) <=> (i < Len(stack) /\ stack[i + 1].want # Full)

(* Nothing is left out in silence: a load with no gap followed every       *)
(* reference the configuration needs, and each led somewhere.              *)
NothingMissedQuietly == status = "loaded" /\ gaps = {} /\ ~Mixed => Complete

(* Neither limit has left a document out, of what is loaded or being so.   *)
WithinLimits ==
  \A g \in gaps \cup UNION {stack[i].gaps : i \in DOMAIN stack} : g[2] \notin {"deep", "files"}

(* No gap is invented: when every reference leads to a document and no     *)
(* chain returns, the only gaps are the two limits.                        *)
NoFalseGap == (\E g \in gaps : g[2] \notin {"deep", "files"}) => ~Complete
=============================================================================
