---------------------------- MODULE MCRuleEngine ----------------------------
(* Two rules. One document in which a service, a hook of it, and a service *)
(* and a job of one name meet in a shared env file, whatever the second    *)
(* rule finds; and many in which the services differ in their env files.   *)
EXTENDS RuleEngine

CONSTANT none

MCRules == <<"CL-0020", "CL-0002">>
MCWatches(r, k) == r = "CL-0020" /\ k.key \in {"PASSWORD", "TOKEN"}

NoHooks == [k \in ToSet(HookKinds) |-> << >>]
Container(name) ==
  [name |-> name, mapping |-> TRUE, provider |-> FALSE, extends |-> FALSE,
   hooks |-> NoHooks, targets |-> << >>, sets |-> {}, uses |-> << >>]
Naming(name, targets) == [Container(name) EXCEPT !.targets = targets]
Target(path, raw) == [path |-> path, required |-> TRUE, raw |-> raw]
Text(lines) == [state |-> "text", lines |-> lines]
Gone(state) == [state |-> state, lines |-> << >>]
Line(key, form, text) == [key |-> key, form |-> form, text |-> text]

-----------------------------------------------------------------------------
Own(name) == [key |-> name, value |-> none, file |-> none]
Lined == [what |-> Own("a"), line |-> 1, sev |-> 2]
Unlined == [what |-> Own("b"), line |-> 0, sev |-> 3]

(* What the `.env` supplies: a value of two parts, the shorter of seven    *)
(* characters, the longer of eight.                                        *)
MCParts(value) == IF value = "account:password" THEN {"account", "password"} ELSE {value}
MCLength(text) == Len(text)
Use(name, value, moved) == [name |-> name, value |-> value, moved |-> moved]
Token == Use("TOKEN", "account:password", FALSE)
Mount == Use("MOUNT", "/srv/secret", TRUE)

(* A service, its hook, and a service and a job of one name, of which one  *)
(* or both have something from the `.env`: not always the same.            *)
Sharing(hook, service, job) ==
  [services |-> <<[Naming(<<"app">>, <<Target("a.env", FALSE)>>)
                     EXCEPT !.hooks[PreStart] = <<hook>>, !.sets = {"PASSWORD"}],
                  [Naming(<<"jobs", "x">>, <<Target("a.env", FALSE)>>)
                     EXCEPT !.uses = service]>>,
   jobs |-> <<[Naming(<<"x">>, <<Target("a.env", FALSE)>>)
                 EXCEPT !.uses = job]>>,
   files |-> [p \in {"a.env"} |-> Text(<<Line("PASSWORD", "literal", "p"),
                                         Line("TOKEN", "literal", "t")>>)],
   dotenv |-> << >>]

Shared ==
  {Sharing(<<Use("TAG", "stable", FALSE)>>, <<Token>>, << >>),
   Sharing(<< >>, <<Token, Mount>>, <<Use("TOKEN", "somebody-else", FALSE)>>),
   Sharing(<<Mount>>, << >>, <<Use("TOKEN", "somebody-else", FALSE), Token>>)}

(* The second rule may find any report on any of the first three units.    *)
SharedSaid ==
  {[p \in (1 .. 2) \X (1 .. 4) |->
      IF p[1] = 1 THEN {} ELSE IF p[2] = 4 THEN {Lined} ELSE s[p[2]]]
     : s \in [1 .. 3 -> SUBSET {Lined, Unlined}]}

-----------------------------------------------------------------------------
(* One service, two files of up to two lines each, the second read either  *)
(* way, and a `.env` that may supply what they refer to.                   *)
MCLines == {Line("PASSWORD", "literal", "p"), Line("PASSWORD", "reference", "BASE"),
            Line("PASSWORD", "bare", none), Line("BASE", "literal", "q"), Line("BASE", "bare", none)}
MCFile == {Text(lines) : lines \in BoundedSeq(MCLines, 2)}
MCDotenv == {<< >>, [n \in {"BASE", "PASSWORD"} |-> "d"]}

Chained ==
  {[services |-> <<Naming(<<"app">>, <<Target("a.env", FALSE), Target("b.env", raw)>>)>>,
    jobs |-> << >>,
    files |-> [p \in {"a.env", "b.env"} |-> IF p = "a.env" THEN a ELSE b],
    dotenv |-> dotenv]
     : a \in MCFile, b \in MCFile, raw \in BOOLEAN, dotenv \in MCDotenv}

(* Two services and a job that name one file, or two of which one may be   *)
(* out of reach, in different orders and over different environments; a    *)
(* provider, a job that extends, a service that is no mapping; and so many *)
(* hooks that only services are graded.                                    *)
MCTargets == {<<Target("a.env", FALSE)>>, <<Target("a.env", TRUE)>>,
              <<Target("b.env", FALSE), Target("a.env", FALSE)>>}
Literal == Text(<<Line("PASSWORD", "reference", "BASE"), Line("TOKEN", "literal", "t"),
                  Line("", "none", none)>>)
Other == {Gone(state) : state \in {"unresolved", "outside", "absent", "unreadable"}}
           \cup {Text(<<Line("BASE", "literal", "q"), Line("TOKEN", "literal", "u")>>)}

Several ==
  {[services |-> <<[Naming(<<"app">>, <<Target("a.env", FALSE)>>)
                      EXCEPT !.sets = {"PASSWORD"}, !.provider = app = "provider",
                             !.hooks["pre_stop"] = IF app = "hooks" THEN << << >>, << >> >>
                                                   ELSE << >>],
                   [Naming(<<"web">>, targets) EXCEPT !.sets = sets]>>,
    jobs |-> <<[Naming(<<"x">>, targets) EXCEPT !.extends = extends]>>,
    files |-> [p \in {"a.env", "b.env"} |-> IF p = "a.env" THEN Literal ELSE b],
    dotenv |-> dotenv]
     : app \in {"plain", "provider", "hooks"}, targets \in MCTargets,
       sets \in {{}, {"TOKEN"}}, extends \in BOOLEAN, b \in Other, dotenv \in MCDotenv}

Silent(d) == [p \in (1 .. 2) \X DOMAIN UnitsOf(d) |-> {}]

MCInputs ==
  {[document |-> d, says |-> s] : d \in Shared, s \in SharedSaid}
    \cup {[document |-> d, says |-> Silent(d)] : d \in Chained \cup Several}

MCDisabled == {{}, {"CL-0002"}}
MCExcluded == SUBSET {<<"CL-0002", <<"app">>>>, <<"CL-0002", <<"app", PreStart>>>>}
MCOverrides == {[r \in {"CL-0020", "CL-0002"} |-> IF r = "CL-0002" THEN s ELSE 0]
                  : s \in {0, 3}}
=============================================================================
