------------------------------ MODULE MCFixRun ------------------------------
(* Small instances of FixRun for TLC.                                      *)
EXTENDS FixRun

CONSTANTS f1, f2, k1, k2, bad, good

(* One file on its own.                                                    *)
OneFile == {f1}
OneBatch == <<f1>>
Alone == [f \in File |-> NoFile]

(* Two files in one batch: an override fixed on its own, and then the base *)
(* it is merged over.                                                      *)
TwoFiles == {f1, f2}
OverrideThenBase == <<f2, f1>>
SecondOverFirst == [f \in File |-> IF f = f1 THEN f2 ELSE NoFile]

TwoKeys == {k1, k2}
OneKey == {k1}
Literals == {bad, good}

(* k1 is reported when it is bad or missing, and its fixer handles only    *)
(* the first; k2 is reported when bad, and left to the user.               *)
FlaggedPairs == {<<k1, bad>>, <<k1, Unset>>, <<k2, bad>>}
FlaggedOne == {<<k1, bad>>, <<k1, Unset>>}
FixablePairs == {<<k1, bad>>}
=============================================================================
