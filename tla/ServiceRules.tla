---------------------------- MODULE ServiceRules ----------------------------
(***************************************************************************)
(* The rules of rules/CL00*.py: what each one reports of a service.        *)
(*                                                                         *)
(* "svc" is a service as the parser hands it over and "project" the        *)
(* top-level blocks beside it.  A list field is a sequence of entries; one *)
(* that is no list is in svc.notLists and reads as empty.  A rule is the   *)
(* set of places it reports, a place being the key and the entry of it a   *)
(* finding is anchored at (0 for the key itself, "service" for a setting   *)
(* that is absent), or the argument of a command it names.                 *)
(***************************************************************************)
EXTENDS HostPaths, FiniteSets

(* A list field; a field that is something else is ignored by every rule.  *)
Entries(svc, field) == IF field \in svc.notLists THEN <<>> ELSE svc[field]

Places(field, entries, Reported(_)) ==
  {<<field, i>> : i \in {j \in DOMAIN entries : Reported(entries[j])}}

AtKey(field, reported) == IF reported THEN {<<field, 0>>} ELSE {}

(* as_bool: the quoted spelling of a boolean is the boolean.               *)
AsBool(value) == value \in {"true", "'true'"}

-----------------------------------------------------------------------------
(* Bind mounts.  An entry of volumes: is in short form (a source before a  *)
(* colon and a set of modes after it) or long form (type, source,          *)
(* read_only and the propagation of its bind:).  A source that is not a    *)
(* host path is the name of a volume: a path of that one name.             *)

IsHostPath(path) == path.abs \/ (path.parts # <<>> /\ path.parts[1] = "~")

(* _is_local_bind *)
IsLocalBind(spec) ==
  /\ spec.device.abs
  /\ spec.fsType = "none" \/ spec.flags \cap {"bind", "rbind"} # {}

(* bind_backed_volumes: named volumes that are a host directory.           *)
BindBacked(project) ==
  {v \in DOMAIN project.volumes :
     /\ ~AsBool(project.volumes[v].external)
     /\ project.volumes[v].driver \in {"", "local"}
     /\ IsLocalBind(project.volumes[v])}

(* file_backed_entries: secrets or configs that are a host file.           *)
FileBacked(project, channel) ==
  {n \in DOMAIN project[channel] :
     /\ ~AsBool(project[channel][n].external)
     /\ IsHostPath(project[channel][n].file)}

ReadOnlyEntry(entry) ==
  IF entry.form = "short" THEN "ro" \in entry.modes ELSE AsBool(entry.readOnly)

NamedVolume(entry) == IF Len(entry.source.parts) = 1 THEN entry.source.parts[1] ELSE ""

(* iter_bind_mounts: every host path the service is given, by volumes: in  *)
(* either form or through a named volume, and by secrets: and configs:,    *)
(* whose binds are read-only whatever they say; none at all of a volumes:  *)
(* that is no list.                                                        *)
BindMounts(svc, project) ==
  IF "volumes" \in svc.notLists THEN {} ELSE
  LET volumes == svc.volumes
      direct  == {i \in DOMAIN volumes :
                    \/ IsHostPath(volumes[i].source)
                    \/ volumes[i].form = "long" /\ volumes[i].type = "bind"}
      backed  == {i \in DOMAIN volumes \ direct : NamedVolume(volumes[i]) \in BindBacked(project)}
      files(channel) ==
        {i \in DOMAIN Entries(svc, channel) : svc[channel][i] \in FileBacked(project, channel)}
  IN {[at |-> <<"volumes", i>>, path |-> volumes[i].source,
       readOnly |-> ReadOnlyEntry(volumes[i])] : i \in direct}
     \cup
     {LET spec == project.volumes[NamedVolume(volumes[i])] IN
      [at |-> <<"volumes", i>>, path |-> spec.device,
       readOnly |-> "ro" \in spec.flags \/ ReadOnlyEntry(volumes[i])] : i \in backed}
     \cup
     UNION {{[at |-> <<c, i>>, path |-> project[c][svc[c][i]].file, readOnly |-> TRUE]
             : i \in files(c)} : c \in {"secrets", "configs"}}

MountsReported(svc, project, Reported(_)) ==
  {m.at : m \in {b \in BindMounts(svc, project) : Reported(b)}}

(* CL-0001: a control socket, or a directory that holds one.               *)
SocketMount(m) == ClaimsHostPath(m.path)

(* CL-0025: a root-equivalent directory the container can write.           *)
WritableRootMount(m) ==
  /\ ~m.readOnly
  /\ Normalize(m.path) \notin {Abs(f) : f \in TimezoneFiles}
  /\ MatchRootEquivalent(m.path) # {}

SensitiveMountPlain(m) ==
  LET matched == MatchRootEquivalent(m.path) IN
  /\ Normalize(m.path) \notin {Abs(d) : d \in InertDevices}
  /\ \/ MatchPrefix(m.path, ExposedPaths) # {}
     \/ ~ClaimsHostPath(m.path) /\ RuntimeDescendant(Normalize(m.path))
     \/ matched # {} /\ m.readOnly /\ matched \cap WriteOnlyGrantPaths = {}

(* CL-0013: what is disclosed without being one of those.                  *)
SensitiveMount(m) ==
  LET n == Normalize(m.path)
      matched == MatchRootEquivalent(m.path)
  IN
  /\ n \notin {Abs(d) : d \in InertDevices}
  /\ \/ MatchPrefix(m.path, ExposedPaths) # {}
     \/ MatchesHomeTree(n) \/ MatchesTildeHome(n)
     \/ ~ClaimsHostPath(m.path) /\ RuntimeDescendant(n)
     \/ /\ matched # {}
        /\ IF n \in {Abs(f) : f \in TimezoneFiles}
             THEN ~m.readOnly
             ELSE m.readOnly /\ matched \cap WriteOnlyGrantPaths = {}

(* CL-0017: shared propagation, in either form.                            *)
SharedMount(entry) ==
  IF entry.form = "short" THEN entry.modes \cap {"shared", "rshared"} # {}
                          ELSE entry.propagation \in {"shared", "rshared"}

-----------------------------------------------------------------------------
(* Capabilities.  An entry is a name and whether it is written with its    *)
(* CAP_ prefix; an entry that is not text has no name.                     *)

HostExecCaps         == {"ALL", "SYS_ADMIN", "SYS_MODULE", "SYS_RAWIO"}
StrongCaps           == {"NET_ADMIN", "BPF", "SYS_BOOT"}
LesserCaps           == {"SYS_PTRACE", "DAC_READ_SEARCH"}
HostReachCaps        == {"PERFMON", "SYS_TIME"}
HostAvailabilityCaps == {"SYS_NICE", "IPC_LOCK", "LEASE"}
HostDisclosureCaps   == {"SYSLOG"}

(* iter_cap_add: CAP_ALL is not the name of a capability.                  *)
AddsCap(svc, members) ==
  Places("capAdd", Entries(svc, "capAdd"),
         LAMBDA cap : cap.name \in members /\ ~(cap.name = "ALL" /\ cap.prefixed))

(* normalize_cap over a list: the prefix is no part of the name.           *)
CapNames(svc, field) == {c.name : c \in Range(Entries(svc, field))}

(* CL-0006 *)
KeepsDefaultCaps(svc) == "ALL" \notin CapNames(svc, "capDrop")

-----------------------------------------------------------------------------
(* CL-0016: devices, and cgroup rules that open one the container can have *)
(* the node of.                                                            *)

(* _extract_host_device and _grants_no_access; a device is its host path   *)
(* and its permissions, {} where none are written.                         *)
DangerousDevice(device) ==
  /\ IsDangerousDevice(Normalize(device.path))
  /\ device.permissions = {} \/ device.permissions \cap {"r", "w", "W"} # {}

(* _cgroup_grant *)
CgroupGrant(grant) ==
  /\ grant.access \cap {"r", "w"} # {}
  /\ grant.kind = "c" => \E number \in {<<"1", "11">>, <<"10", "237">>} :
                           grant.major \in {"*", number[1]} /\ grant.minor \in {"*", number[2]}

KeepsMknodAsListed(svc) ==
  IF Entries(svc, "capAdd") # <<>> THEN CapNames(svc, "capAdd") \cap {"MKNOD", "ALL"} # {}
                                   ELSE CapNames(svc, "capDrop") \cap {"MKNOD", "ALL"} = {}

(* _keeps_mknod *)
KeepsMknod(svc) ==
  \/ svc.privileged = "true"
  \/ CapNames(svc, "capAdd") \cap {"MKNOD", "ALL"} # {}
  \/ CapNames(svc, "capDrop") \cap {"MKNOD", "ALL"} = {}

(* _node_reachable *)
NodeReachable(svc, project) ==
  \/ KeepsMknod(svc)
  \/ \E m \in BindMounts(svc, project) :
       LET n == Normalize(m.path) IN At(n, <<"dev">>) \/ Under(n, <<"dev">>)

(* A devices: that is no list ends the check, its cgroup rules included.   *)
DangerousDevicesRule(svc, project) ==
  IF "devices" \in svc.notLists THEN {}
  ELSE Places("devices", svc.devices, DangerousDevice)
       \cup (IF NodeReachable(svc, project)
               THEN Places("cgroupRules", Entries(svc, "cgroupRules"), CgroupGrant)
               ELSE {})

-----------------------------------------------------------------------------
(* security_opt: entries of a key and a value.                             *)

DisabledSecurityProfiles ==
  {[key |-> "seccomp", value |-> "unconfined"], [key |-> "apparmor", value |-> "unconfined"],
   [key |-> "label", value |-> "disable"]}

(* no_new_privileges_effective: the last entry that sets the flag wins; a  *)
(* value ParseBool refuses sets nothing.                                   *)
NoNewPrivilegesEffective(opts) ==
  LET settings == SelectSeq(opts, LAMBDA o : o.key = "no-new-privileges"
                                             /\ o.value \in {"bare", "true", "false"})
  IN settings # <<>> /\ Last(settings).value # "false"

(* The entries that assign a key; a bare name assigns nothing.             *)
Assigning(opts, key) == {j \in DOMAIN opts : opts[j].key = key /\ opts[j].value # "bare"}

DisabledProfileIndexesOfLast(opts) ==
  {i \in DOMAIN opts :
     /\ opts[i] \in DisabledSecurityProfiles
     /\ opts[Max(Assigning(opts, opts[i].key))] \in DisabledSecurityProfiles}

(* disabled_profile_indexes: every disable of a key whose last entry is    *)
(* one, and every label:disable, because labels accumulate.                *)
DisabledProfileIndexes(opts) ==
  {i \in DOMAIN opts :
     /\ opts[i] \in DisabledSecurityProfiles
     /\ \/ opts[i].key = "label"
        \/ opts[Max(Assigning(opts, opts[i].key))] \in DisabledSecurityProfiles}

-----------------------------------------------------------------------------
(* CL-0005: ports.  A short entry is its fields, cut at the colons outside *)
(* a substitution, so a bracketed IPv6 address is several of them.         *)

PortParts == {"80", "8080", "80-90", "${P}"}

WildcardAddresses ==
  {<<"">>, <<"*">>, <<"0.0.0.0">>, <<"[", "", "]">>, <<"[", "", "ffff", "0.0.0.0]">>}

(* _short_syntax_ip and _check_short_syntax *)
UnboundShort(fields) ==
  LET n == Len(fields) IN
  IF n = 1 THEN fields[1] \in PortParts
  ELSE /\ fields[n] \in PortParts
       /\ fields[n - 1] \in PortParts \cup {""}
       /\ n = 2 \/ SubSeq(fields, 1, n - 2) \in WildcardAddresses

UnboundLongIfPublished(port) ==
  /\ port.hostIp = "absent" \/ (port.hostIp # "refused" /\ <<port.hostIp>> \in WildcardAddresses)
  /\ port.published

(* _check_long_syntax: a written host_ip that is empty, null or no text is *)
(* a file Compose refuses, so nothing is published from it.                *)
UnboundLong(port) ==
  /\ port.hostIp = "absent" \/ (port.hostIp # "refused" /\ <<port.hostIp>> \in WildcardAddresses)
  /\ port.published \/ port.target

UnboundPort(port) ==
  IF port.form = "short" THEN UnboundShort(port.fields) ELSE UnboundLong(port)

-----------------------------------------------------------------------------
(* Images: CL-0004 and CL-0019 divide the references without a digest. The *)
(* tag is "absent" where there is no image: and "" where it has no tag.    *)

MutableTags == {"latest", "stable", "edge", "nightly", "dev", "test"}

NamedByTag(image) == image.tag # "absent" /\ ~image.digest

Unpinned(image) == NamedByTag(image) /\ image.tag \in MutableTags \cup {""}

TaggedOnly(image) == NamedByTag(image) /\ image.tag \notin MutableTags \cup {""}

(* CL-0018: the user part, which Docker reads as a number where it can.    *)
IsRootUser(user) == user \in {"root", "0", "+0", "-0", "00"}

(* CL-0022: exec and suid among a tmpfs entry's options.                   *)
InsecureOptions == {"exec", "suid"}

InsecureTmpfs(entry) == entry.options \cap InsecureOptions # {}

-----------------------------------------------------------------------------
(* CL-0026: limits.  A quantity is twice its number, so that a half is     *)
(* one, and the unit it is scaled by.                                      *)

Kilo == 1024

IsSet(limit) ==
  CASE limit.kind \in {"absent", "bool", "empty", "junk"} -> FALSE
    [] limit.kind = "quantity"  -> limit.twice > 0
    [] limit.kind = "reference" -> TRUE
    [] limit.kind = "other"     -> TRUE

(* _memory_is_set: scaled to bytes and cut to whole ones, and 0 bytes is   *)
(* no limit.                                                               *)
MemoryIsSet(limit) ==
  /\ IsSet(limit)
  /\ limit.kind = "quantity" =>
       (limit.twice * (IF limit.unit = "k" THEN Kilo ELSE 1)) \div 2 >= 1

LacksLimits(svc) ==
  LET limits == svc.deployLimits IN
  ~(/\ MemoryIsSet(svc.memLimit) \/ MemoryIsSet(limits.memory)
    /\ IsSet(svc.cpus) \/ IsSet(svc.cpuQuota) \/ IsSet(limits.cpus))

-----------------------------------------------------------------------------
(* Credentials: CL-0020 and CL-0021.  A value is its kind and its tokens:  *)
(* "$$" an escaped dollar, "${X}" a reference without a default, anything  *)
(* else text the file ships.                                               *)

CredentialKeys == {"PASSWORD", "DB_PASSWORD_FILE", "ALLOW_EMPTY_PASSWORD", "TOKEN_TTL"}
ExemptKeys     == {"DB_PASSWORD_FILE", "ALLOW_EMPTY_PASSWORD"}
QuantityKeys   == {"TOKEN_TTL"}
ArgvFlagWords  == {"REQUIREPASS"}

FlagValues     == {<<"true">>, <<"0">>}
QuantityValues == {<<"3600">>, <<"0">>}

(* ships_no_literal *)
ShipsNoLiteral(tokens) == \A i \in DOMAIN tokens : tokens[i] \in {"$$", "${X}"}

(* _is_literal_credential_value *)
IsLiteral(value) ==
  /\ value.kind \in {"text", "number"}
  /\ value.tokens # <<>>
  /\ value.tokens \notin FlagValues
  /\ ~ShipsNoLiteral(value.tokens)

(* _matches_credential_pattern, _is_exempt_key and _is_quantity_knob *)
NamesCredential(key, value) ==
  /\ key \in CredentialKeys \ ExemptKeys
  /\ ~(key \in QuantityKeys /\ value.kind # "bool" /\ value.tokens \in QuantityValues)

CredentialEntry(entry) == NamesCredential(entry.key, entry.value) /\ IsLiteral(entry.value)

(* _is_literal_argument: a shell reference or a path is no secret.         *)
IsLiteralArgument(value) ==
  /\ ~\E i \in DOMAIN value.tokens : value.tokens[i] = "$$"
  /\ value.tokens = <<>> \/ value.tokens[1] # "/path"
  /\ IsLiteral(value)

(* _scan_argv: an assignment, a -p glued to its value beside a MySQL       *)
(* client, and a flag with its value inline or in the next word.           *)
CredentialFlag(flag, value) ==
  /\ flag \in ArgvFlagWords \/ NamesCredential(flag, value)
  /\ IsLiteralArgument(value)

CredentialWord(argv, i) ==
  LET word == argv[i] IN
  \/ word.kind \in {"assign", "inline"} /\ CredentialFlag(word.name, word.value)
  \/ /\ word.kind = "glued"
     /\ \E j \in DOMAIN argv : argv[j].kind = "mysql"
     /\ IsLiteralArgument(word.value)
  \/ /\ word.kind = "flag" /\ i < Len(argv)
     /\ argv[i + 1].kind \notin {"flag", "inline", "glued"}
     /\ CredentialFlag(word.name, argv[i + 1].value)

(* A finding names the argument, once however often it is passed.          *)
ArgName(word) == <<word.kind = "assign", word.name>>

(* _split_userinfo: user and password of a URI, cut at substitution depth  *)
(* 0; a slash or a space before the "@" means there is no userinfo.        *)
UserinfoStep(cut, token) ==
  CASE cut.ended -> cut
    [] token \in {"/", " "} -> [cut EXCEPT !.ended = TRUE, !.found = FALSE]
    [] token = "@" -> [cut EXCEPT !.ended = TRUE, !.found = cut.colon]
    [] token = ":" /\ ~cut.colon -> [cut EXCEPT !.colon = TRUE]
    [] OTHER -> IF cut.colon THEN [cut EXCEPT !.password = Append(@, token)] ELSE cut

InlineCredential(value) ==
  LET cut == FoldLeft(UserinfoStep, [colon |-> FALSE, ended |-> FALSE, found |-> FALSE,
                                     password |-> <<>>], value.tokens)
  IN value.kind = "uri" /\ cut.found /\ cut.password # <<>> /\ ~ShipsNoLiteral(cut.password)

-----------------------------------------------------------------------------
(* The rules, by the name of their class.                                  *)
DockerSocketRule(svc, project) == MountsReported(svc, project, SocketMount)

PrivilegedModeRule(svc) == AtKey("privileged", AsBool(svc.privileged))

NoNewPrivilegesRule(svc) ==
  AtKey("service", ~NoNewPrivilegesEffective(Entries(svc, "securityOpt")))

ImageNotPinnedRule(svc) == AtKey("image", Unpinned(svc.image))

UnboundPortsRule(svc) == Places("ports", Entries(svc, "ports"), UnboundPort)

CapDropRule(svc) == AtKey("service", KeepsDefaultCaps(svc))

ReadOnlyFilesystemRule(svc) == AtKey("service", ~AsBool(svc.readOnly))

HostNetworkRule(svc) == AtKey("network", svc.network = "host")

SecurityProfileRule(svc) ==
  {<<"securityOpt", i>> : i \in DisabledProfileIndexes(Entries(svc, "securityOpt"))}

HostNamespaceRule(svc) == AtKey("pid", svc.pid = "host") \cup AtKey("ipc", svc.ipc = "host")

SensitiveMountRule(svc, project) == MountsReported(svc, project, SensitiveMount)

LoggingDisabledRule(svc) == AtKey("logging", svc.logging = "none")

SharedMountRule(svc) == Places("volumes", Entries(svc, "volumes"), SharedMount)

ExplicitRootRule(svc) == AtKey("user", IsRootUser(svc.user))

ImageNoDigestRule(svc) == AtKey("image", TaggedOnly(svc.image))

CredentialEnvKeysRule(svc) ==
  Places("environment", svc.environment, CredentialEntry)
  \cup {<<"command", ArgName(svc.command[i])>> :
          i \in {j \in DOMAIN svc.command : CredentialWord(svc.command, j)}}

ConnectionStringCredentialsRule(svc) ==
  Places("environment", svc.environment, LAMBDA entry : InlineCredential(entry.value))

TmpfsInsecureOptionsRule(svc) == Places("tmpfs", svc.tmpfs, InsecureTmpfs)

WritableHostRootMountRule(svc, project) == MountsReported(svc, project, WritableRootMount)

ResourceLimitsRule(svc) == AtKey("service", LacksLimits(svc))

DangerousCapAddRule(svc)       == AddsCap(svc, StrongCaps)
HostExecCapAddRule(svc)        == AddsCap(svc, HostExecCaps)
LesserCapAddRule(svc)          == AddsCap(svc, LesserCaps)
HostReachCapAddRule(svc)       == AddsCap(svc, HostReachCaps)
HostAvailabilityCapAddRule(svc) == AddsCap(svc, HostAvailabilityCaps)
HostDisclosureCapAddRule(svc)  == AddsCap(svc, HostDisclosureCaps)

ApiSocketRule(svc) == AtKey("apiSocket", svc.apiSocket = "true")

(* The registry: a rule's identifier and what it reports.                  *)
Reports(rule, svc, project) ==
  CASE rule = "CL-0001" -> DockerSocketRule(svc, project)
    [] rule = "CL-0002" -> PrivilegedModeRule(svc)
    [] rule = "CL-0003" -> NoNewPrivilegesRule(svc)
    [] rule = "CL-0004" -> ImageNotPinnedRule(svc)
    [] rule = "CL-0005" -> UnboundPortsRule(svc)
    [] rule = "CL-0006" -> CapDropRule(svc)
    [] rule = "CL-0007" -> ReadOnlyFilesystemRule(svc)
    [] rule = "CL-0008" -> HostNetworkRule(svc)
    [] rule = "CL-0009" -> SecurityProfileRule(svc)
    [] rule = "CL-0010" -> HostNamespaceRule(svc)
    [] rule = "CL-0011" -> DangerousCapAddRule(svc)
    [] rule = "CL-0013" -> SensitiveMountRule(svc, project)
    [] rule = "CL-0014" -> LoggingDisabledRule(svc)
    [] rule = "CL-0016" -> DangerousDevicesRule(svc, project)
    [] rule = "CL-0017" -> SharedMountRule(svc)
    [] rule = "CL-0018" -> ExplicitRootRule(svc)
    [] rule = "CL-0019" -> ImageNoDigestRule(svc)
    [] rule = "CL-0020" -> CredentialEnvKeysRule(svc)
    [] rule = "CL-0021" -> ConnectionStringCredentialsRule(svc)
    [] rule = "CL-0022" -> TmpfsInsecureOptionsRule(svc)
    [] rule = "CL-0024" -> HostExecCapAddRule(svc)
    [] rule = "CL-0025" -> WritableHostRootMountRule(svc, project)
    [] rule = "CL-0026" -> ResourceLimitsRule(svc)
    [] rule = "CL-0027" -> LesserCapAddRule(svc)
    [] rule = "CL-0028" -> HostReachCapAddRule(svc)
    [] rule = "CL-0029" -> HostAvailabilityCapAddRule(svc)
    [] rule = "CL-0030" -> HostDisclosureCapAddRule(svc)
    [] rule = "CL-0031" -> ApiSocketRule(svc)

(* The severity each rule reports at.                                      *)
Low      == {"CL-0007", "CL-0014", "CL-0017", "CL-0022"}
Medium   == {"CL-0003", "CL-0004", "CL-0005", "CL-0006", "CL-0018", "CL-0019", "CL-0026",
             "CL-0027"}
High     == {"CL-0008", "CL-0009", "CL-0010", "CL-0011", "CL-0013", "CL-0020", "CL-0021",
             "CL-0028", "CL-0029", "CL-0030"}
Critical == {"CL-0001", "CL-0002", "CL-0016", "CL-0024", "CL-0025", "CL-0031"}

RuleIds == Low \cup Medium \cup High \cup Critical

Findings(svc, project) ==
  UNION {{[rule |-> r, at |-> place] : place \in Reports(r, svc, project)} : r \in RuleIds}
=============================================================================
