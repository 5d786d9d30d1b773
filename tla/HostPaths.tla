------------------------------ MODULE HostPaths ------------------------------
(***************************************************************************)
(* Host paths as the mount rules read them: rules/_mounts.py and the       *)
(* tables of CL-0001, CL-0013, CL-0016 and CL-0025.                        *)
(*                                                                         *)
(* A path is what the document spells: a record with "abs" (a leading      *)
(* slash) and "parts", the names between its slashes.  A doubled slash is  *)
(* the empty name, and "." and ".." are names like any other until the     *)
(* path is normalised.  A path written with a tilde is not absolute: "~"   *)
(* is its first name.  Names are tokens; a name of SocketNames is one the  *)
(* socket markers occur in.                                                *)
(***************************************************************************)
EXTENDS Naturals, Sequences, SequencesExt

Abs(parts) == [abs |-> TRUE, parts |-> parts]

(* One step of posixpath.normpath over a name of the path.                 *)
Walk(abs, done, part) ==
  CASE part \in {"", "."} -> done
    [] part \notin {"", ".", ".."} -> Append(done, part)
    [] part = ".." /\ done # <<>> /\ Last(done) # ".." -> Front(done)
    [] part = ".." /\ done = <<>> /\ abs -> done
    [] OTHER -> Append(done, part)

Walked(abs, parts) == FoldLeft(LAMBDA done, part : Walk(abs, done, part), <<>>, parts)

(* normalize_host_path: every spelling of a directory has one normal form. *)
Normalize(path) == [path EXCEPT !.parts = Walked(path.abs, path.parts)]

Root == Abs(<<>>)

Under(path, dir) == IsStrictPrefix(dir, path.parts) /\ path.abs

At(path, dir) == path = Abs(dir)

MatchPrefixAsSpelled(path, dirs) == {d \in dirs : At(path, d) \/ Under(path, d)}

(* match_prefix: the listed directories the path is at or under.  No list  *)
(* names the root, so a whole-root mount matches none.                     *)
MatchPrefix(path, dirs) ==
  LET n == Normalize(path) IN {d \in dirs : At(n, d) \/ Under(n, d)}

(* match_exact: the listed directory the path names exactly.               *)
MatchExact(path, dirs) == {d \in dirs : At(Normalize(path), d)}

-----------------------------------------------------------------------------
(* CL-0001: the control sockets, by name and by the directories that hold  *)
(* them.  A marker is looked for in the path as it is spelled.             *)
SocketNames == {"docker.sock", "containerd.sock", "crio.sock", "podman.sock"}

SystemdPrivate == <<"systemd", "private">>

(* The one marker that is two names, side by side in the spelling.         *)
NamesSystemdPrivate(path) ==
  \E i \in 1 .. Len(path.parts) - 1 : SubSeq(path.parts, i, i + 1) = SystemdPrivate

NamesSocket(path) ==
  \/ \E i \in DOMAIN path.parts : path.parts[i] \in SocketNames
  \/ NamesSystemdPrivate(path)

SocketDirs == {<<"run", "containerd">>, <<"run", "systemd">>,
               <<"var", "run">>, <<"run">>}

HoldsSocketItself(path) ==
  LET n == Normalize(path) IN n = Root \/ \E d \in SocketDirs : At(n, d)

(* _matched_socket_dir: the mount is such a directory, or an ancestor of   *)
(* one; the root is an ancestor of them all.                               *)
HoldsSocket(path) ==
  LET n == Normalize(path) IN
  \/ n = Root
  \/ \E d \in SocketDirs : At(n, d) \/ (n.abs /\ IsStrictPrefix(n.parts, d))

(* claims_host_path: CL-0001 owns the mount.                               *)
ClaimsHostPath(path) == HoldsSocket(path) \/ NamesSocket(path)

-----------------------------------------------------------------------------
(* CL-0025: directories where writing is host root.                        *)
RootEquivalentPaths ==
  {<<"etc">>, <<"root">>, <<"boot">>, <<"proc">>, <<"bin">>, <<"sbin">>,
   <<"var", "lib", "docker">>, <<"var", "lib", "containerd">>,
   <<"usr", "bin">>, <<"usr", "sbin">>, <<"usr", "local", "bin">>,
   <<"usr", "local", "sbin">>, <<"lib", "modules">>, <<"usr", "lib", "modules">>}

RootEquivalentExactPaths ==
  {<<"var", "lib">>, <<"usr">>, <<"usr", "lib">>, <<"lib">>, <<"lib64">>}

(* The members that disclose nothing when they cannot be written.          *)
WriteOnlyGrantPaths ==
  {<<"usr">>, <<"usr", "bin">>, <<"usr", "sbin">>, <<"usr", "local", "bin">>,
   <<"usr", "local", "sbin">>, <<"bin">>, <<"sbin">>, <<"lib", "modules">>,
   <<"usr", "lib", "modules">>, <<"usr", "lib">>, <<"lib">>, <<"lib64">>}

MatchRootEquivalent(path) ==
  LET under == MatchPrefix(path, RootEquivalentPaths) IN
  IF under # {} THEN under ELSE MatchExact(path, RootEquivalentExactPaths)

TimezoneFiles == {<<"etc", "localtime">>, <<"etc", "timezone">>}

-----------------------------------------------------------------------------
(* CL-0013: disclosures in either mode, and host runtime state.            *)
ExposedPaths == {<<"sys">>, <<"dev">>}

InertDevices == {<<"dev", d>> : d \in {"null", "zero", "full", "random", "urandom"}}

RuntimeDirs == {<<"run">>, <<"var", "run">>}

CredentialDirs == {".ssh", ".docker", ".aws", ".kube", ".gnupg"}

(* _match_home_tree: /home, a user's home, or a credential directory in    *)
(* one; deeper paths are the application's own.                            *)
MatchesHomeTree(n) ==
  /\ n.abs /\ n.parts # <<>> /\ n.parts[1] = "home"
  /\ Len(n.parts) > 2 => n.parts[3] \in CredentialDirs

(* _match_tilde_home: the same depth rule on the deploying user's home.    *)
MatchesTildeHome(n) ==
  /\ ~n.abs /\ n.parts # <<>> /\ n.parts[1] = "~"
  /\ Len(n.parts) > 1 => n.parts[2] \in CredentialDirs

RuntimeDescendantOfRun(n) == Under(n, <<"run">>)

(* _match_runtime_descendant: strictly below a directory of run-time state.*)
RuntimeDescendant(n) == \E d \in RuntimeDirs : Under(n, d)

-----------------------------------------------------------------------------
(* CL-0016: device nodes a container uses with the capabilities it has.    *)
(* "stems" are the patterns that match any name with that beginning, taken *)
(* as name classes; "trees" those that match what lies below a directory.  *)
DeviceStems == {"sda", "nvme0", "vda", "xvda", "mmcblk0", "md0", "loop0",
                "loop-control", "dm-0", "rbd0", "zd0", "nbd0", "mtdblock0"}

DeviceNames == {"hda", "zfs", "kmsg"}

DeviceTrees == {"md", "disk", "block", "mapper", "zvol"}

FlaggedNumbers == {"1:11", "10:237"}

IsDangerousDevice(n) ==
  /\ n.abs /\ n.parts # <<>> /\ n.parts[1] = "dev"
  /\ \/ Len(n.parts) = 1
     \/ n.parts[2] \in DeviceStems
     \/ Len(n.parts) = 2 /\ n.parts[2] \in DeviceNames
     \/ Len(n.parts) > 2 /\ n.parts[2] \in DeviceTrees
     \/ Len(n.parts) = 3 /\ n.parts[2] = "char" /\ n.parts[3] \in FlaggedNumbers
=============================================================================
