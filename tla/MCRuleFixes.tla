----------------------------- MODULE MCRuleFixes -----------------------------
(* A service of its own, one that another extends, merges or shares a list *)
(* with, and the blocks of every shape the fixers tell apart.              *)
EXTENDS RuleFixes

Marked(ind, key, val, mark) == Line(ind, FALSE, key, val, mark)
MarkedItem(ind, val, mark)  == Line(ind, TRUE, "", val, mark)
Below(ind, val)             == Line(ind, FALSE, "", val, "")

Top == <<Key(0, "services", "")>>
Base == <<Key(2, "base", ""), Key(4, "image", "i")>>
Web(lines) == <<BlankLine, Key(2, "web", "")>> \o lines \o <<Key(4, "image", "i")>>

SU == "seccomp:unconfined"
Hard == <<Key(4, "security_opt", ""), Item(6, "no-new-privileges:true"), Key(4, "read_only", "true")>>

MCSkeletons ==
  {(* alone, with a comment below it *)
   Top \o Base \o <<Comment(4), BlankLine>>,
   (* extended by another service *)
   Top \o Base \o Web(<<Key(4, "extends", "base")>>),
   (* extended, and the base has nothing but what it lends *)
   Top \o <<Key(2, "base", ""), Key(4, "logging", ""), Key(6, "driver", "none")>>
       \o Web(<<Key(4, "extends", "base")>> \o Hard),
   (* merged by another service, the anchor beside the name or below it *)
   Top \o <<Marked(2, "base", "", "anchor"), Key(4, "image", "i")>>
       \o Web(<<Marked(4, "<<", "base", "alias")>>),
   Top \o <<Key(2, "base", ""), Marked(4, "", "", "anchor"), Key(4, "image", "i")>>
       \o Web(<<Marked(4, "<<", "base", "alias")>>),
   (* lists shared through anchors of their own *)
   Top \o Base \o <<Marked(4, "ports", "", "anchor"), Item(6, "80:80"),
                    Marked(4, "security_opt", "", "anchor"), Item(6, SU),
                    Marked(4, "logging", "", "anchor"), Key(6, "driver", "none"),
                    Marked(4, "tmpfs", "", "anchor"), Item(6, "/run:exec")>>
       \o Web(<<Marked(4, "ports", "", "alias"), Marked(4, "security_opt", "", "alias"),
                Marked(4, "logging", "", "alias"), Marked(4, "tmpfs", "", "alias")>>)}

List(key, items) == <<Key(4, key, "")>> \o items

Profiles ==
  {List("security_opt", items) :
     items \in {<<Item(6, SU)>>,
                <<Item(6, "seccomp:p.json")>>,
                <<Item(6, "label:type:x"), Item(6, SU)>>,
                <<Item(6, SU), Item(6, "apparmor:unconfined"), Item(6, "label:type:x")>>,
                <<Item(6, SU), Comment(6), Item(6, "label:type:x")>>,
                <<Item(6, SU), Item(6, "no-new-privileges:true")>>,
                <<Item(6, "no-new-privileges:false"), Item(6, SU)>>,
                <<MarkedItem(6, SU, "default"), Item(6, "label:type:x")>>,
                <<Item(6, "label:type:x"), Item(6, ">"), Below(8, SU)>>,
                <<Item(4, "label:type:x"), BlankLine, Item(4, SU)>>}}
  \cup {<<Marked(4, "security_opt", SU, "flow")>>}

Ports ==
  {List("ports", items) :
     items \in {<<Item(6, "80:80"), Item(6, "80")>>,
                <<Item(4, "0.0.0.0:8080:80"), Item(4, "127.0.0.1:80:80")>>,
                <<MarkedItem(6, "80:80", "default")>>,
                <<Entry(6, "target", "80")>>,
                <<Entry(6, "target", "80"), Key(8, "host_ip", "0.0.0.0")>>,
                <<Entry(6, "host_ip", "0.0.0.0"), Key(8, "target", "80")>>,
                <<Entry(6, "target", "80"), Key(8, "host_ip", "127.0.0.1")>>,
                <<Entry(6, "name", ">"), Below(10, "x"), Key(8, "target", "80")>>}}
  \cup {<<Marked(4, "ports", "80:80", "flow")>>}

Tmpfs ==
  {List("tmpfs", items) :
     items \in {<<Item(6, "/run:exec,size=1m"), Item(6, "/run")>>,
                <<MarkedItem(6, "/run:exec", "default")>>,
                <<Item(6, ">"), Below(8, "/run:exec")>>}}
  \cup {<<Key(4, "tmpfs", "/run:exec")>>, <<Marked(4, "tmpfs", "/run:exec", "flow")>>}

Loggings ==
  {<<Key(4, "logging", "")>> \o lines :
     lines \in {<<Key(6, "driver", "none")>>,
                <<Comment(6), Key(6, "driver", "none")>>,
                <<Key(6, "driver", "none"), Key(6, "options", "x")>>,
                <<Marked(6, "driver", "none", "default")>>}}

Flags == {<<Key(4, "read_only", "true")>>, <<Key(4, "read_only", "false")>>,
          <<Key(4, "use_api_socket", "true")>>}

MCMenu ==
  [s \in {"base", "web"} |->
     IF s = "base" THEN Profiles \cup Ports \cup Tmpfs \cup Loggings \cup Flags
     ELSE {List("security_opt", <<Item(6, SU)>>),
           List("security_opt", <<Item(6, "label:type:x"), Item(6, SU)>>),
           List("ports", <<Item(6, "80:80")>>),
           <<Key(4, "logging", ""), Key(6, "driver", "none")>>}]
=============================================================================
