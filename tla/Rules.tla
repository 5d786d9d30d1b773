-------------------------------- MODULE Rules --------------------------------
(***************************************************************************)
(* A service under edit.  An author writes settings into a service and the *)
(* rules are asked about it after every edit, as a pre-commit hook or a CI *)
(* job asks them: "svc" is the service as it stands, and what is reported  *)
(* of it is Findings(svc, Project).                                        *)
(*                                                                         *)
(* The rules are written apart and own disjoint parts of what a service    *)
(* may be given.  What can go wrong lies between them: a path both or      *)
(* neither claims, a spelling or a form one reads and another does not, a  *)
(* setting that hides another's finding.                                   *)
(***************************************************************************)
EXTENDS ServiceRules

CONSTANTS Project,    \* the top-level volumes:, secrets: and configs:
          Bases,      \* the services an author starts from
          Menu,       \* field -> the entries or values an author may write
          Room,       \* list field -> how many entries it may grow to
          MaxFields,  \* how many fields may be edited
          MaxEdits    \* in how many edits

ListSettings == {"volumes", "secrets", "configs", "devices", "cgroupRules", "capAdd", "capDrop",
                 "securityOpt", "ports", "tmpfs", "environment", "command"}

Settings == ListSettings \cup
  {"notLists", "privileged", "readOnly", "apiSocket", "network", "pid", "ipc", "user", "image",
   "logging", "memLimit", "cpus", "cpuQuota", "deployLimits"}

(* A service has every setting, the lists being sequences.                 *)
IsService(s) ==
  /\ DOMAIN s = Settings
  /\ \A f \in ListSettings : s[f] \in Seq(Range(s[f]))

IsPath(path) == path \in [abs : BOOLEAN, parts : Seq(STRING)]

(* A short port is never without a field, and no field is the word this    *)
(* model has for a host_ip: that is absent or that Compose refuses.        *)
IsPort(port) ==
  port.form = "short" =>
    port.fields \in Seq(STRING \ {"absent", "refused"}) /\ port.fields # << >>

Options == [key : STRING, value : STRING]

ASSUME RulesAssumption ==
  /\ \A s \in Bases : IsService(s)
  /\ ListSettings \subseteq DOMAIN Room
  /\ \A s \in Bases : \A i \in DOMAIN s.volumes : IsPath(s.volumes[i].source)
  /\ \A entry \in Menu["volumes"] : IsPath(entry.source)
  /\ \A s \in Bases : \A i \in DOMAIN s.ports : IsPort(s.ports[i])
  /\ \A port \in Menu["ports"] : IsPort(port)
  /\ \A s \in Bases : \A i \in DOMAIN s.securityOpt : s.securityOpt[i] \in Options
  /\ Menu["securityOpt"] \subseteq Options
  /\ \A v \in DOMAIN Project.volumes : IsPath(Project.volumes[v].device)
  /\ \A channel \in {"secrets", "configs"} :
       \A n \in DOMAIN Project[channel] : IsPath(Project[channel][n].file)

VARIABLES svc,        \* the service
          edited,     \* the fields edited so far
          edits       \* the number of edits

vars == <<svc, edited, edits>>

ListFields == DOMAIN Room

Init == svc \in Bases /\ edited = {} /\ edits = 0

Touch(field) ==
  /\ edits < MaxEdits /\ edits' = edits + 1
  /\ Cardinality(edited \cup {field}) <= MaxFields
  /\ edited' = edited \cup {field}

(* An entry is added at the end of a list.                                 *)
AddEntry(field) ==
  /\ Len(svc[field]) < Room[field]
  /\ Touch(field)
  /\ \E entry \in Menu[field] : svc' = [svc EXCEPT ![field] = Append(@, entry)]

(* A value is set.                                                         *)
SetValue(field) ==
  /\ field \notin edited
  /\ Touch(field)
  /\ \E value \in Menu[field] : svc' = [svc EXCEPT ![field] = value]

(* A list is written as something else, which no rule reads as entries.    *)
MakeNoList(field) ==
  /\ svc.notLists = {}
  /\ Touch(field)
  /\ svc' = [svc EXCEPT !.notLists = {field}]

Next ==
  \/ \E field \in ListFields : AddEntry(field)
  \/ \E field \in DOMAIN Menu \ ListFields : SetValue(field)
  \/ \E field \in ListFields \cap {"volumes", "devices", "securityOpt", "ports"} :
       MakeNoList(field)

Spec == Init /\ [][Next]_vars

-----------------------------------------------------------------------------
TypeOK == IsService(svc)

Mounts == BindMounts(svc, Project)

(* The rules that report a mount of this path in this mode.                *)
MountRules(path, readOnly) ==
  LET m == [at |-> <<"volumes", 1>>, path |-> path, readOnly |-> readOnly] IN
  {r \in {"CL-0001", "CL-0013", "CL-0025"} :
     \/ r = "CL-0001" /\ SocketMount(m)
     \/ r = "CL-0013" /\ SensitiveMount(m)
     \/ r = "CL-0025" /\ WritableRootMount(m)}

IsRuntime(n) == \E d \in RuntimeDirs : At(n, d) \/ Under(n, d)

(* Host runtime state has one owner: a mount of /run, of /var/run or of    *)
(* anything below them is reported by CL-0001 or by CL-0013, never by      *)
(* neither and never by both.                                              *)
RuntimeHasOneOwner ==
  \A m \in Mounts : IsRuntime(Normalize(m.path)) =>
    Cardinality(MountRules(m.path, m.readOnly)) = 1

(* Making a mount writable never lowers its grade: what is reported        *)
(* read-only is reported writable, and what is critical stays critical.    *)
WritableNeverGradedLower ==
  \A m \in Mounts :
    LET ro == MountRules(m.path, TRUE) rw == MountRules(m.path, FALSE) IN
    /\ ro # {} => rw # {}
    /\ ro \cap Critical # {} => rw \cap Critical # {}

(* No spelling of a path hides a mount: what is reported of the normal     *)
(* form is reported, if not always by the same rule, of every spelling.    *)
(* The one exception holds no socket: a directory outside the run-time     *)
(* ones that only looks like systemd's because its last two names do, of   *)
(* which a spelling that parts the two names is not taken for it.          *)
SpellingNeverHides ==
  \A m \in Mounts :
    LET n == Normalize(m.path) IN
    MountRules(n, m.readOnly) # {} =>
      \/ MountRules(m.path, m.readOnly) # {}
      \/ NamesSystemdPrivate(n) /\ ~IsRuntime(n)

(* A control socket is never handed over below the top grade: a mount of   *)
(* any directory above one, or of the socket, is critical in either mode.  *)
Sockets == {<<"run", "docker.sock">>, <<"var", "run", "docker.sock">>,
            <<"run", "containerd", "containerd.sock">>, <<"run", "systemd", "private">>}

SocketsAreCritical ==
  \A m \in Mounts : \A socket \in Sockets :
    /\ m.path.abs /\ m.path = Normalize(m.path) /\ IsPrefix(m.path.parts, socket)
    => MountRules(m.path, m.readOnly) \cap Critical # {}

(* The forms of an entry are one deployment: a mount means the same in     *)
(* short form, in long form and through a named volume, and a port in      *)
(* short and in long form.                                                 *)
AsLong(entry) ==
  [form |-> "long", type |-> "bind", source |-> entry.source,
   readOnly |-> IF "ro" \in entry.modes THEN "true" ELSE "unset",
   propagation |-> IF entry.modes \cap {"shared", "rshared"} # {} THEN "shared" ELSE ""]

AsLongPort(port) ==
  LET n == Len(port.fields) IN
  [form |-> "long", target |-> TRUE, published |-> n > 1 /\ port.fields[n - 1] # "",
   hostIp |-> IF n < 3 THEN "absent" ELSE port.fields[1]]

Publishes(fields) ==
  LET n == Len(fields) IN
  /\ n <= 3 /\ fields[n] \in PortParts
  /\ n > 1 => fields[n - 1] \in PortParts \cup {""}

FormsAgree ==
  /\ \A i \in DOMAIN svc.volumes :
       LET entry == svc.volumes[i]
           long  == [svc EXCEPT !.volumes[i] = AsLong(entry)] IN
       entry.form = "short" /\ IsHostPath(entry.source) =>
         Findings(svc, Project) = Findings(long, Project)
  /\ \A i \in DOMAIN svc.ports :
       LET port == svc.ports[i] IN
       port.form = "short" /\ Publishes(port.fields) =>
         (UnboundPort(port) <=> UnboundPort(AsLongPort(port)))

(* What Docker leaves in force after reading security_opt in order:        *)
(* seccomp and AppArmor are set by the last entry, labels accumulate.      *)
NoProfile == ""

Profile(key, opts) ==
  FoldLeft(LAMBDA profile, o : IF o.key = key /\ o.value # "bare" THEN o.value ELSE profile,
           NoProfile, opts)

Unconfined(opts) ==
  \/ \E key \in {"seccomp", "apparmor"} : Profile(key, opts) = "unconfined"
  \/ \E i \in DOMAIN opts : opts[i] = [key |-> "label", value |-> "disable"]

Without(seq, positions) ==
  LET kept[k \in 0 .. Len(seq)] ==
        IF k = 0 THEN <<>>
        ELSE IF k \in positions THEN kept[k - 1] ELSE Append(kept[k - 1], seq[k])
  IN kept[Len(seq)]

(* CL-0009 reports exactly the services that run unconfined, and removing  *)
(* what it reports confines them: no reported entry hides another.         *)
ReportedEntriesUnconfine ==
  LET opts     == Entries(svc, "securityOpt")
      reported == DisabledProfileIndexes(opts)
  IN /\ reported # {} <=> Unconfined(opts)
     /\ ~Unconfined(Without(opts, reported))

(* Giving a service more never takes a finding away: what was reported     *)
(* before a mount, a device, a capability or a credential was added is     *)
(* reported after.                                                         *)
GrantFields == {"volumes", "devices", "cgroupRules", "capAdd", "ports", "environment",
                "command", "secrets", "configs", "tmpfs"}

GrantsHideNothing ==
  [][\A field \in GrantFields : AddEntry(field) =>
       Findings(svc, Project) \subseteq Findings(svc', Project)]_vars
=============================================================================
