----------------------------- MODULE LoadLayers -----------------------------
(***************************************************************************)
(* What loading a set of Compose files has to answer, stated over the      *)
(* files alone.                                                            *)
(*                                                                         *)
(* A service is a list of layers, the lowest first: what one file wrote    *)
(* under one service name, interpolated from one directory's `.env`. The   *)
(* order of the layers is Compose's (docs/what-a-run-reads.md): overlays   *)
(* over earlier files, a document over what it includes, an earlier entry  *)
(* over a later one, a later file of one entry over an earlier one, and    *)
(* all of these over the base the document's own `extends:` names.         *)
(***************************************************************************)
EXTENDS LoadContract

-----------------------------------------------------------------------------
(* The layers of a service.                                                *)

(* The `.env` that decides: the outermost that defines the name.           *)
Decides(dir, above) ==
  IF above # Default THEN above ELSE IF dir \in supplied THEN dir ELSE Default

RECURSIVE LayersOf(_, _, _)
LayersOf(f, above, s) ==
  IF docs[f] = Blank THEN << >>
  ELSE
    LET entries == Reverse(Entries(f))
        from(entry) == FlattenSeq([i \in DOMAIN entry |->
                         LayersOf(entry[i], Decides(DirOf[entry[1]], above), s)])
        included == FlattenSeq([i \in DOMAIN entries |-> from(entries[i])])
        ext == OwnExt(f, s)
        base == IF ext = NoExt THEN << >>
                ELSE IF "file" \in DOMAIN ext THEN LayersOf(ext.file, above, ext.svc)
                ELSE LayersOf(f, above, ext.svc)
        own == IF docs[f].services[s] = NoService THEN << >>
               ELSE <<[file |-> f, svc |-> s, dir |-> above]>>
    IN  base \o included \o own

Layers(s) ==
  FlattenSeq([i \in DOMAIN paths |-> LayersOf(paths[i], Decides(ProjectDir, Default), s)])

-----------------------------------------------------------------------------
(* What a list of layers amounts to.                                       *)

Body(l) == docs[l.file].services[l.svc]
Kind(l) == IF HasBody(Body(l)) THEN Body(l).kind ELSE "bare"
Me(l) == <<l.file, l.svc>>

(* The highest layer that says something of the image.                     *)
ImageOf(layers) ==
  LET S == {i \in DOMAIN layers : Kind(layers[i]) \in {"plain", "ref", "reset"}}
      l == layers[CHOOSE i \in S : \A j \in S : j <= i]
  IN  IF S = {} THEN Unset
      ELSE CASE Kind(l) = "plain" -> Me(l) [] Kind(l) = "ref" -> l.dir [] OTHER -> Unset

(* Every capability asked for from the last `!override` on, each once.     *)
Caps(l) ==
  CASE Kind(l) = "plain" -> <<Common, Me(l)>>
    [] Kind(l) \in {"reset", "override"} -> <<Me(l)>>
    [] OTHER -> << >>

CapsOf(layers) ==
  LET cuts == {i \in DOMAIN layers : Kind(layers[i]) = "override"} \cup {1}
      from == CHOOSE i \in cuts : \A j \in cuts : j <= i
      all == FlattenSeq([i \in 1 .. Len(layers) + 1 - from |-> Caps(layers[i + from - 1])])
      first == {i \in DOMAIN all : \A j \in 1 .. i - 1 : all[j] # all[i]}
      order == SetToSortSeq(first, <)
  IN  [i \in DOMAIN order |-> all[order[i]]]

(* One mount per container path: the shared one comes from the highest     *)
(* layer with mounts and stands where the lowest put it.                   *)
VolsOf(layers) ==
  LET with == SelectSeq(layers, LAMBDA l : Kind(l) = "plain")
      first == {i \in DOMAIN with : \A j \in 1 .. i - 1 : Me(with[j]) # Me(with[i])}
      order == SetToSortSeq(first, <)
      own == [i \in DOMAIN order |-> [key |-> Me(with[order[i]]), src |-> Me(with[order[i]])]]
  IN  IF with = << >> THEN << >>
      ELSE <<[key |-> Sock, src |-> Me(Last(with))]>> \o own

Amounts(service, layers) ==
  IF layers = << >> THEN service = NoService
  ELSE IF \A i \in DOMAIN layers : Body(layers[i]) = NoBody THEN service = NoBody
  ELSE /\ HasBody(service)
       /\ service.image = ImageOf(layers)
       /\ service.caps = CapsOf(layers)
       /\ service.vols = VolsOf(layers)

-----------------------------------------------------------------------------
(* A load that reports no gap answers with the configuration Compose runs: *)
(* every value of every service is the one its layers amount to, however   *)
(* includes, bases, overlays and `.env` files combine (_loads_full,        *)
(* load_merged).                                                           *)
ResultIsLayers ==
  status = "loaded" /\ gaps = {} => \A s \in Service : Amounts(result[s], Layers(s))
=============================================================================
