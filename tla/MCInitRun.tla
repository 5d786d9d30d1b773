----------------------------- MODULE MCInitRun ------------------------------
(* Two rules, a service and its hook, whose name needs quotes, and every   *)
(* way the two config directories and the target of -o may look.           *)
EXTENDS InitRun

MCRule == {"CL-0001", "CL-0002"}
MCLevel == {"low", "high"}
MCName == {"app", "app.pre_start[0]", "renamed"}
MCOdd == {"app.pre_start[0]"}

Seen == {"app", "app.pre_start[0]"}
Finding(rule, service) == [rule |-> rule, service |-> service, severity |-> "high"]
Always == {Finding("CL-0001", "app.pre_start[0]")}
FromEnv == {Finding("CL-0001", "app"), Finding("CL-0002", "app")}

Project(together, plan, load, raises) ==
  [together |-> together, plan |-> plan, load |-> load, gap |-> FALSE,
   raises |-> raises, seen |-> Seen]

(* What is raised without the .env files, and with them.                   *)
Raises(without, with) == [env \in BOOLEAN |-> IF env THEN with ELSE without]

MCProjects ==
  {Project(t, "group", "ok", r) :
     t \in BOOLEAN,
     r \in {Raises(Always, FromEnv), Raises({}, Always), Raises(FromEnv, FromEnv \cup Always)}}
  \cup {Project(FALSE, "refused", "ok", Raises(Always, Always)),
        Project(FALSE, "group", "inapplicable", Raises({}, {})),
        Project(FALSE, "group", "broken", Raises({}, {})),
        [Project(FALSE, "group", "ok", Raises(Always, Always)) EXCEPT !.gap = TRUE]}

(* Policies: each one asks for something different.                        *)
Fields(enabled, reason, severity, names) ==
  [NoFields EXCEPT !.enabled = enabled, !.reason = reason, !.severity = severity,
                   !.exclude = names]
Plain == Policy(<<Block("CL-0001", Fields("false", "text", "absent", NoNames))>>)
Unread(how) == [read |-> how, extra |-> FALSE, blocks |-> << >>]
MCPolicies == {Plain}

Various ==
  {Unread("empty"), Unread("invalid"), [Plain EXCEPT !.extra = TRUE],
   Policy(<<Block("CL-0001", Fields("absent", "text", "low", Names({"app"})))>>),
   Policy(<<Block("CL-0001", Fields("absent", "absent", "low", Names({"app"}))),
            Block("CL-0002", NoFields)>>),
   Policy(<<Block("CL-0001", Fields("absent", "absent", "absent", Names({"renamed"}))),
            Block("CL-0002", Fields("true", "absent", "low", NoNames))>>),
   Policy(<<Block("CL-0001", Fields("false", "absent", "low", Names({"app"})))>>),
   Policy(<<Block("CL-0001", Fields("false", "container", "absent", NoNames))>>),
   Policy(<<Block("CL-0001", Fields("other", "absent", "absent", NoNames))>>),
   Policy(<<Block("CL-9999", Fields("false", "text", "absent", NoNames))>>),
   Policy(<<Block("CL-0001", [NoFields EXCEPT !.extra = TRUE])>>),
   Policy(<<Block("CL-0002", Fields("false", "text", "absent", NoNames)),
            Block("CL-0001", NoFields),
            Block("CL-0002", Fields("absent", "absent", "high", NoNames))>>)}

(* Disks.                                                                  *)
Compose(place) == Entry("file", place, NoText, TRUE)
Bare == [p \in Place |-> IF p \in {Doc, Part} THEN Compose(p) ELSE Nothing]
Saved(place, text, writable) == Entry("file", place, text, writable)

AtSlot(slot) == {Nothing, Saved(slot, Plain, TRUE)}

MCDisks ==
  {[Bare EXCEPT ![<<"project", 1>>] = a, ![<<"project", 2>>] = b,
                ![<<"run", 1>>] = c, ![<<"run", 2>>] = d] :
     a \in AtSlot(<<"project", 1>>) \cup
             {Saved(<<"project", 1>>, Plain, FALSE),
              Entry("link", <<"outside", 0>>, Unread("outside"), TRUE),
              Entry("dangling", <<"gone", 0>>, NoText, TRUE)},
     b \in AtSlot(<<"project", 2>>),
     c \in {Nothing}, d \in AtSlot(<<"run", 2>>)}
  \cup {[Bare EXCEPT ![<<"project", 1>>] = Nothing, ![<<"run", 1>>] = Saved(<<"run", 1>>, text, TRUE)] :
          text \in {Plain}}
  \cup {[Bare EXCEPT ![<<"project", 2>>] = Saved(<<"project", 2>>, text, TRUE)] :
          text \in Various}
  \cup {[Bare EXCEPT ![Elsewhere] = e] :
          e \in {Entry("file", Elsewhere, NoText, TRUE), Entry("file", Doc, NoText, TRUE),
                 Entry("link", Part, NoText, TRUE)}}

MCOutputs == {Default, Doc, Respelled, Elsewhere, <<"project", 1>>}
MCCrashing == {{}, {"CL-0002"}}
=============================================================================
