------------------------------ MODULE YamlLines ------------------------------
(***************************************************************************)
(* A Compose file as its lines, and the questions _yaml_edit.py asks of    *)
(* them: the fixers never re-emit YAML, they look at lines and edit them.  *)
(*                                                                         *)
(* A line has an indent, a dash if it is the item of a sequence, a key and *)
(* a value, "" where it has none, and a mark: "anchor" and "alias" on a    *)
(* value that is shared, "flow" on a sequence or mapping in brackets,      *)
(* "default" on a value that the line shows as ${NAME:-value}.  A line of  *)
(* key "#" is blank or, of value "#", a comment; one of neither dash nor   *)
(* key continues the scalar above it or holds an anchor by itself.         *)
(***************************************************************************)
EXTENDS Integers, Sequences, FiniteSets, SequencesExt, FiniteSetsExt

Line(ind, dash, key, val, mark) ==
  [ind |-> ind, dash |-> dash, key |-> key, val |-> val, mark |-> mark]

Key(ind, key, val)  == Line(ind, FALSE, key, val, "")
Item(ind, val)      == Line(ind, TRUE, "", val, "")
Entry(ind, key, val) == Line(ind, TRUE, key, val, "")
BlankLine           == Line(0, FALSE, "#", "", "")
Comment(ind)        == Line(ind, FALSE, "#", "#", "")

(* _is_blank_or_comment and _is_seq_item *)
IsBlankOrComment(line) == line.key = "#"
IsSeqItem(line) == line.dash

(* opens_block_body: nothing but a comment after the colon.                *)
OpensBlockBody(line) == line.val = "" /\ line.mark = ""

(* value_is_shared: an anchor or an alias after the colon.                 *)
ValueIsShared(line) == line.mark \in {"anchor", "alias"}

(* The lines after k that say something; those before the first of `ends`. *)
Spoken(text, k) == {j \in k + 1 .. Len(text) : ~IsBlankOrComment(text[j])}

Until(lines, ends) == {j \in lines : \A e \in ends : j < e}

Deeper(text, k) ==
  Until(Spoken(text, k), {j \in Spoken(text, k) : text[j].ind <= text[k].ind})

(* first_child_indent: of the body of a key, or none. The items of a       *)
(* sequence may stand at the indent of the key itself.                     *)
FirstOf(lines) == IF lines = {} THEN {} ELSE {Min(lines)}

FirstChildIndent(text, k) ==
  {text[j].ind : j \in
     {i \in FirstOf(Spoken(text, k)) :
        text[i].ind > text[k].ind \/ (text[i].ind = text[k].ind /\ IsSeqItem(text[i]))}}

(* The lines of a body that stand at its first line's indent.              *)
ChildrenOf(text, k) ==
  UNION {{j \in Deeper(text, k) : text[j].ind = ind} : ind \in FirstChildIndent(text, k)}

(* has_merge_key_child and has_anchor_child *)
HasMergeKeyChild(text, k) == \E j \in ChildrenOf(text, k) : text[j].key = "<<"
HasAnchorChild(text, k) ==
  \E j \in ChildrenOf(text, k) : text[j].key = "" /\ ~text[j].dash /\ text[j].mark = "anchor"

(* Mutant: only what follows the colon is looked at.                       *)
IsAnchored(text, k) == ~OpensBlockBody(text[k])

(* is_anchored_or_merged: the body is not the key's alone.                 *)
IsAnchoredOrMerged(text, k) ==
  ~OpensBlockBody(text[k]) \/ HasMergeKeyChild(text, k) \/ HasAnchorChild(text, k)

Body(text, k) ==
  Until(Spoken(text, k),
        {j \in Spoken(text, k) :
           /\ text[j].ind <= text[k].ind
           /\ \/ ~IsSeqItem(text[j]) \/ text[j].ind < text[k].ind
              \/ FirstChildIndent(text, k) # {text[k].ind}})

(* block_span: the last line of the block a key opens. Blank lines and     *)
(* comments after it belong to whatever comes next.                        *)
LastOfBlock(text, k) == Max(Body(text, k) \cup {k})

-----------------------------------------------------------------------------
(* Edits.  Of a line there are two places an edit can be aimed at: its     *)
(* start, and the scalar it shows; an edit in a scalar replaces the line   *)
(* by the line it becomes.                                                 *)

Width == 3
StartOf(j) == Width * (j - 1)

InsertBefore(j, lines) == [start |-> StartOf(j), end |-> StartOf(j), new |-> lines]

(* replace_lines and delete_lines *)
ReplaceLines(first, last, lines) ==
  [start |-> StartOf(first), end |-> StartOf(last + 1), new |-> lines]
DeleteLines(first, last) == ReplaceLines(first, last, << >>)

(* In the scalar of line j, which inserts nothing or replaces part of it.  *)
InScalar(j, part, line) ==
  [start |-> StartOf(j) + 1, end |-> StartOf(j) + 1 + part, new |-> <<line>>]
=============================================================================
