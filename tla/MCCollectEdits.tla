-------------------------- MODULE MCCollectEdits --------------------------
(* A small file for CollectEdits: two services of two characters each, and *)
(* three findings. The first two are the pair the coordinator may answer   *)
(* for together; the third is on the same service or on the next one,      *)
(* which may inherit from it.                                              *)
EXTENDS CollectEdits

MCFindings == <<1, 2, 3>>
MCRule == <<"CL-0003", "CL-0009", "CL-0005">>
MCService == {"base", "child"}
MCSize == 4
MCBlock == [s \in MCService |-> IF s = "base" THEN [lo |-> 0, hi |-> 3]
                                              ELSE [lo |-> 3, hi |-> 4]]
MCHomes == {<<"base", "base", "base">>, <<"base", "base", "child">>}

One(b, e, t) == <<[start |-> b, end |-> e, text |-> t]>>

(* Every insertion and every replacement by a token or by nothing, two     *)
(* edits at once, two that overlap, and one that cannot be placed.         *)
Single == {One(b, e, t) : b \in 0 .. 3, e \in 0 .. 4, t \in {0, 5, 6}}
MCAnswers ==
  {a \in Single : a[1].start < a[1].end \/ (a[1].start = a[1].end /\ a[1].text # 0)}
    \cup {One(0, 1, 0) \o One(2, 3, 5), One(0, 0, 5) \o One(0, 2, 6),
          One(0, 2, 0) \o One(1, 3, 5), One(5, 5, 6)}
MCJointAnswers == {One(0, 3, 6), One(1, 2, 0), One(3, 4, 5)}
=============================================================================
