--------------------------- MODULE DocumentMerge ---------------------------
(***************************************************************************)
(* How two Compose documents become one: _merge.py, over services reduced  *)
(* to one field of each kind its table tells apart, and the `extends:`     *)
(* marker.                                                                 *)
(*                                                                         *)
(*   image  a scalar: the overriding document wins                         *)
(*   caps   a sequence that is appended to and deduplicated                *)
(*   vols   a sequence keyed by its entries' container path                *)
(*   ext    the mapping or the short string under `extends:`               *)
(***************************************************************************)
EXTENDS Naturals, Sequences, SequencesExt

CONSTANTS
  Service,     \* service names
  Unset        \* a scalar that is not written

(* What a document that does not mention a service holds of it, and one    *)
(* that does, with nothing under its name.                                 *)
NoService == [body |-> "absent"]
NoBody    == [body |-> "empty"]

NoExt == [form |-> "none"]

HasBody(b) == b \notin {NoService, NoBody}

Nothing == [s \in Service |-> NoService]

NoTags == [s \in Service |-> {}]

-----------------------------------------------------------------------------
(* Sequences.                                                              *)

(* _merge_appended: in order of first appearance, each entry once.         *)
MergeAppended(base, top) ==
  FoldLeft(LAMBDA kept, e : IF Contains(kept, e) THEN kept ELSE Append(kept, e),
           << >>, base \o top)

(* The entry of `seq` with this key that counts: the last one.             *)
LastWith(seq, key) ==
  CHOOSE j \in DOMAIN seq :
    /\ seq[j].key = key
    /\ \A i \in DOMAIN seq : seq[i].key = key => i <= j

Keys(seq) == {seq[i].key : i \in DOMAIN seq}

(* _merge_keyed: an entry of the base whose key the other side has is      *)
(* replaced where it stands; what replaced nothing follows.                *)
MergeKeyed(base, top) ==
  LET consumed == {LastWith(top, key) : key \in Keys(base) \cap Keys(top)}
      rest == SetToSortSeq(DOMAIN top \ consumed, <)
  IN  [i \in DOMAIN base |-> IF base[i].key \in Keys(top)
                             THEN top[LastWith(top, base[i].key)] ELSE base[i]]
      \o [i \in DOMAIN rest |-> top[rest[i]]]

-----------------------------------------------------------------------------
(* Mappings and documents.                                                 *)

(* `extends:` is merged like any other mapping, key by key; the short form *)
(* is a string, and a type mismatch goes to the overriding side.           *)
MergeExt(base, top) ==
  IF top = NoExt THEN base
  ELSE IF top.form = "mapping" /\ base.form = "mapping"
       THEN [k \in DOMAIN top \cup DOMAIN base |-> IF k \in DOMAIN top THEN top[k] ELSE base[k]]
       ELSE top

(* One service over another. `tags` are the directives the overriding      *)
(* document put on its keys: "reset" deletes the image it would inherit,   *)
(* "override" replaces the capabilities instead of adding to them. A       *)
(* service with no body changes nothing.                                   *)
MergeService(base, top, tags) ==
  IF top = NoBody THEN base
  ELSE IF base = NoBody THEN top
  ELSE [image |-> IF top.image # Unset THEN top.image
                  ELSE IF "reset" \in tags THEN Unset ELSE base.image,
        caps  |-> IF "override" \in tags THEN top.caps
                  ELSE MergeAppended(base.caps, top.caps),
        vols  |-> MergeKeyed(base.vols, top.vols),
        ext   |-> MergeExt(base.ext, top.ext)]

(* merge_service_from: a service over one of another document, under the   *)
(* directives of its own.                                                  *)
MergeServiceFrom(base, want, data, s, tags) ==
  [data EXCEPT ![s] = MergeService(base[want], @, tags[s])]

MergeServices(base, top, tags) ==
  [s \in Service |->
     IF top[s] = NoService THEN base[s]
     ELSE IF base[s] = NoService THEN top[s]
     ELSE MergeService(base[s], top[s], tags[s])]

(* merge_documents: left to right, later documents overriding earlier      *)
(* ones. A document is its services and the directives it carries.         *)
MergeDocuments(documents) ==
  LET merged[i \in 0 .. Len(documents)] ==
        IF i = 0 THEN Nothing
        ELSE MergeServices(merged[i - 1], documents[i].data, documents[i].tags)
  IN  merged[Len(documents)]
=============================================================================
