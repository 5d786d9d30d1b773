------------------------------- MODULE MCRules -------------------------------
(* One bare and one hardened service, and the entries of every kind of     *)
(* setting, two of which are edited.                                       *)
EXTENDS Rules

Rel(parts) == [abs |-> FALSE, parts |-> parts]

MCPaths ==
  {Root,
   Abs(<<"run">>), Abs(<<"", "run">>), Abs(<<"var", "..", "run">>), Abs(<<"var">>),
   Abs(<<"var", "run">>), Abs(<<"run", "docker.sock">>),
   Abs(<<"run", "x", "..", "docker.sock">>), Abs(<<"var", "run", "docker.sock">>),
   Abs(<<"run", "containerd">>), Abs(<<"var", "run", "containerd">>),
   Abs(<<"run", "systemd">>), Abs(<<"run", "systemd", "private">>),
   Abs(<<"run", "systemd", "", "private">>), Abs(<<"run", "app">>),
   Abs(<<"etc">>), Abs(<<".", "etc">>), Abs(<<"etc", "..">>), Abs(<<"etc", "localtime">>), Abs(<<"etc", "x">>),
   Abs(<<"usr">>), Abs(<<"usr", "bin">>), Abs(<<"usr", "share">>),
   Abs(<<"var", "lib">>), Abs(<<"var", "lib", "docker">>), Abs(<<"var", "lib", "app">>),
   Abs(<<"lib", "modules">>), Abs(<<"sys">>), Abs(<<"dev">>), Abs(<<"dev", "null">>),
   Abs(<<"dev", "sda">>), Abs(<<"home">>), Abs(<<"home", "u", ".ssh">>),
   Abs(<<"home", "u", "app">>), Abs(<<"srv">>), Abs(<<"srv", "systemd", ".", "private">>),
   Rel(<<"~">>), Rel(<<"~", ".ssh">>), Rel(<<"~", "app">>)}

Short(source, modes) == [form |-> "short", source |-> source, modes |-> modes]
Long(type, source, readOnly, propagation) ==
  [form |-> "long", type |-> type, source |-> source, readOnly |-> readOnly,
   propagation |-> propagation]

MCVolumes ==
  {Short(p, modes) : p \in MCPaths, modes \in {{}, {"ro"}}}
  \cup {Long("bind", p, ro, "") : p \in {Abs(<<"etc">>), Abs(<<"usr">>), Rel(<<"run">>)},
                                  ro \in {"unset", "true", "'true'", "false"}}
  \cup {Long("volume", Rel(<<"hostetc">>), "true", ""), Long("bind", Abs(<<"srv">>), "unset", "rshared")}
  \cup {Short(Rel(<<v>>), {}) : v \in {"hostetc", "hostdev", "plain", "elsewhere"}}
  \cup {Short(Abs(<<"srv">>), {"shared"}), Short(Abs(<<"etc">>), {"ro", "rshared"})}

Volume(driver, external, device, fsType, flags) ==
  [external |-> external, driver |-> driver, device |-> device, fsType |-> fsType,
   flags |-> flags]

MCProject ==
  [volumes |-> [v \in {"hostetc", "hostdev", "plain", "elsewhere"} |->
     CASE v = "hostetc"   -> Volume("local", "unset", Abs(<<"etc">>), "none", {})
       [] v = "hostdev"   -> Volume("", "unset", Abs(<<"dev">>), "", {"bind", "ro"})
       [] v = "plain"     -> Volume("", "unset", Rel(<<"tmpfs">>), "tmpfs", {})
       [] v = "elsewhere" -> Volume("", "'true'", Abs(<<"etc">>), "none", {"bind"})],
   secrets |-> [s \in {"key", "held"} |->
     [external |-> IF s = "held" THEN "true" ELSE "unset", file |-> Abs(<<"etc", "key">>)]],
   configs |-> [c \in {"daemon"} |->
     [external |-> "unset", file |-> Abs(<<"run", "docker.sock">>)]]]

Cap(name) == [name |-> name, prefixed |-> FALSE]

NoLimit == [kind |-> "absent", twice |-> 0, unit |-> ""]
Limit(twice, unit) == [kind |-> "quantity", twice |-> twice, unit |-> unit]
NoLimits == [memory |-> NoLimit, cpus |-> NoLimit]

Bare ==
  [notLists |-> {}, volumes |-> <<>>, secrets |-> <<>>, configs |-> <<>>, devices |-> <<>>,
   cgroupRules |-> <<>>, capAdd |-> <<>>, capDrop |-> <<>>, securityOpt |-> <<>>,
   ports |-> <<>>, tmpfs |-> <<>>, environment |-> <<>>, command |-> <<>>,
   privileged |-> "unset", readOnly |-> "unset", apiSocket |-> "unset",
   network |-> "bridge", pid |-> "own", ipc |-> "own", user |-> "app",
   image |-> [tag |-> "1.2", digest |-> TRUE], logging |-> "default",
   memLimit |-> NoLimit, cpus |-> NoLimit, cpuQuota |-> NoLimit, deployLimits |-> NoLimits]

Hardened ==
  [Bare EXCEPT !.capDrop = <<Cap("ALL")>>, !.readOnly = "true",
     !.securityOpt = <<[key |-> "no-new-privileges", value |-> "true"]>>,
     !.memLimit = Limit(1024, "k"), !.cpus = Limit(1, "")]

MCBases == {Bare, Hardened}

Value(kind, tokens) == [kind |-> kind, tokens |-> tokens]
MCValues == {Value("text", <<"s3">>), Value("text", <<"$$", "x">>), Value("text", <<"${X}">>),
             Value("text", <<"/path">>), Value("text", <<>>), Value("number", <<"3600">>),
             Value("bool", <<"true">>)}
Uri(tokens) == Value("uri", tokens)

MCEnvironment ==
  {[key |-> k, value |-> v] : k \in CredentialKeys \cup {"REQUIREPASS"}, v \in MCValues}
  \cup {[key |-> "PORT", value |-> Value("text", <<"s3">>)]}
  \cup {[key |-> "URL", value |-> Uri(t)] :
          t \in {<<"u", ":", "s3", "@", "h">>, <<"u", ":", "${X}", "@", "h">>, <<"u", "@", "h">>,
                 <<"h", ":", "80", "/", "a", "@", "b">>, <<"u", ":", "s3", ":", "@">>}}

Word(kind, name, value) == [kind |-> kind, name |-> name, value |-> value]
MCCommand ==
  {Word(k, n, v) : k \in {"assign", "inline", "flag"}, n \in {"PASSWORD"},
                   v \in {Value("text", <<"s3">>)}}
  \cup {Word("glued", "p", v) : v \in {Value("text", <<"s3">>), Value("text", <<"$$", "P">>)}}
  \cup {Word("word", "", v) : v \in {Value("text", <<"s3">>), Value("text", <<"/path">>)}}
  \cup {Word("mysql", "", Value("text", <<"mysql">>))}

MCPorts ==
  {[form |-> "short", fields |-> f] :
     f \in {<<"80">>, <<"8080", "80">>, <<"", "80">>, <<"0.0.0.0", "8080", "80">>,
            <<"127.0.0.1", "8080", "80">>, <<"", "8080", "80">>, <<"*", "", "80">>,
            <<"[", "", "]", "8080", "80">>, <<"[", "", "1]", "8080", "80">>,
            <<"${P}", "80">>, <<"a", "80">>, <<"127.0.0.1", "80-90", "80-90">>}}
  \cup {[form |-> "long", target |-> t, published |-> p, hostIp |-> h] :
          t \in BOOLEAN, p \in BOOLEAN, h \in {"absent", "0.0.0.0", "127.0.0.1", "refused"}}

MCCaps == {[name |-> n, prefixed |-> p] :
             n \in {"ALL", "MKNOD", "SYS_ADMIN", "NET_ADMIN", "SYS_PTRACE", "PERFMON",
                    "SYS_NICE", "SYSLOG", "CHOWN"}, p \in BOOLEAN}

MCSecurityOpt ==
  {[key |-> k, value |-> v] : k \in {"seccomp", "apparmor"}, v \in {"unconfined", "own", "bare"}}
  \cup {[key |-> "label", value |-> v] : v \in {"disable", "own"}}
  \cup {[key |-> "no-new-privileges", value |-> v] : v \in {"bare", "true", "false", "yes"}}

MCBools == {"unset", "true", "'true'", "false"}

MCMenu ==
  [volumes |-> MCVolumes, secrets |-> {"key", "held"}, configs |-> {"daemon"},
   devices |-> {[path |-> Abs(p), permissions |-> m] :
                  p \in {<<"dev">>, <<"dev", "sda">>, <<"dev", "x", "..", "sda">>, <<"dev", "null">>,
                         <<"dev", "disk", "by-id">>, <<"dev", "char", "1:11">>, <<"dev", "kmsg">>},
                  m \in {{}, {"r"}, {"m"}}},
   cgroupRules |-> {[kind |-> k, major |-> mj, minor |-> mn, access |-> a] :
                  k \in {"a", "c"}, mj \in {"*", "1", "10"}, mn \in {"*", "11"},
                  a \in {{"r", "w"}, {"m"}}},
   capAdd |-> MCCaps, capDrop |-> {Cap("ALL"), Cap("MKNOD"), Cap("CHOWN")},
   securityOpt |-> MCSecurityOpt, ports |-> MCPorts,
   tmpfs |-> {[options |-> o] : o \in {{}, {"exec"}, {"noexec", "suid"}}},
   environment |-> MCEnvironment, command |-> MCCommand,
   privileged |-> MCBools, readOnly |-> MCBools, apiSocket |-> MCBools,
   network |-> {"host"}, pid |-> {"host"}, ipc |-> {"host"}, user |-> {"root", "+0"},
   image |-> [tag : {"absent", "", "latest", "1.2"}, digest : BOOLEAN],
   logging |-> {"none"},
   memLimit |-> {Limit(1, ""), Limit(1, "k"), Limit(0, ""), [NoLimit EXCEPT !.kind = "reference"]},
   cpus |-> {Limit(1, ""), Limit(0, "")}, cpuQuota |-> {Limit(2, "")},
   deployLimits |-> {[memory |-> Limit(2, ""), cpus |-> NoLimit],
                     [memory |-> NoLimit, cpus |-> Limit(1, "")]}]

MCRoom ==
  [f \in {"volumes", "secrets", "configs", "devices", "cgroupRules", "capAdd", "capDrop",
          "securityOpt", "ports", "tmpfs", "environment", "command"} |->
     CASE f = "securityOpt" -> 3 [] f = "capDrop" -> 2 [] f = "command" -> 2 [] OTHER -> 1]
=============================================================================
