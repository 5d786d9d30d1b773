----------------------------- MODULE MCCheckRun -----------------------------
(* Two files, each of six shapes, under any of twelve sets of flags.       *)
EXTENDS CheckRun

(* A finding below the threshold, one at it, and one at it the config      *)
(* suppresses, which is more severe than either.                           *)
MCFinding == {"minor", "major", "waived"}
MCEmitted ==
  [found \in SUBSET MCFinding |->
     SelectSeq(<<"minor", "waived", "major">>, LAMBDA f : f \in found)]
MCRank == [f \in MCFinding |-> CASE f = "waived" -> 0 [] f = "major" -> 1 [] f = "minor" -> 2]

Graded(truth, gap) ==
  [load |-> "ok", gap |-> gap, note |-> gap, truth |-> truth, services |-> {"app"}]
Ungraded(how) ==
  [load |-> how, gap |-> FALSE, note |-> FALSE, truth |-> {}, services |-> {"db"}]

MCContents ==
  {Graded({}, FALSE), Graded({"minor"}, FALSE),
   Graded({"minor", "waived", "major"}, FALSE), Graded({"major"}, TRUE),
   Ungraded("inapplicable"), Ungraded("broken")}
MCExcluding == {{"app"}, {"db"}}

(* Every format, with the three flags set in four of the eight ways.       *)
MCOptions ==
  {[format |-> f, partial |-> o[1], strict |-> o[2], skip |-> o[3]] :
     f \in {"text", "json", "sarif"},
     o \in {<<FALSE, FALSE, FALSE>>, <<TRUE, FALSE, FALSE>>,
            <<TRUE, TRUE, FALSE>>, <<FALSE, TRUE, TRUE>>}}
=============================================================================
