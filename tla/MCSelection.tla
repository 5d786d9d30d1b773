---------------------------- MODULE MCSelection -----------------------------
(* A directory with a compose file and an override, and a directory below  *)
(* it with a compose file and one that only a list can bring in.           *)
EXTENDS Selection, TLC

CONSTANTS root, sub, base, over, low, side, escape

MCPath == {base, over, low, side}
MCDir == {root, sub}
MCDirOf == (base :> root) @@ (over :> root) @@ (low :> sub) @@ (side :> sub)
MCCanonical == (root :> <<base>>) @@ (sub :> <<low>>)
MCOverrides == (root :> <<over>>) @@ (sub :> << >>)

(* Up to three paths, in any order and with repetitions.                   *)
MCNamed == UNION {[1 .. n -> MCPath] : n \in 0 .. 3}

Silent(kind) == [kind |-> kind, list |-> << >>]
Listing(list) == [kind |-> "list", list |-> list]

(* Each directory lists its own files in either order, files of the other  *)
(* one, or something it may not.                                           *)
RootEnv == {Silent("absent"), Silent("unreadable"), Silent("silent"), Listing(<<over, base>>),
            Listing(<<low, base>>), Listing(<<low>>), Listing(<<base, escape>>)}
SubEnv == {Silent("absent"), Silent("unreadable"), Listing(<<low, side>>),
           Listing(<<side>>), Listing(<<low, escape>>)}

MCProjects ==
  {[present |-> MCPath \ gone, outside |-> out, env |-> (root :> r) @@ (sub :> s)] :
     gone \in {{}, {over}, {low}}, out \in {{}, {over}, {low}, {base}},
     r \in RootEnv, s \in SubEnv}
=============================================================================
