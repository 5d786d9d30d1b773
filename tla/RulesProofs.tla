---------------------------- MODULE RulesProofs ----------------------------
(***************************************************************************)
(* What the rules promise whatever a service says: proved with TLAPS for   *)
(* every project, every service an author starts from and every entry the  *)
(* author may write.                                                       *)
(***************************************************************************)
EXTENDS Rules, FiniteSetTheorems, SequenceTheorems, WellFoundedInduction, TLAPS

-----------------------------------------------------------------------------
(* A service that was granted more: its lists of grants go on where those  *)
(* of the other end, everything else is the same.                          *)
Longer(a, b) ==
  /\ a \in Seq(Range(a)) /\ b \in Seq(Range(b))
  /\ Len(a) <= Len(b)
  /\ \A i \in DOMAIN a : b[i] = a[i]

Grown(s, t) ==
  /\ \A f \in Settings \ GrantFields : t[f] = s[f]
  /\ \A f \in GrantFields : Longer(s[f], t[f])

LEMMA LongerDomain ==
  ASSUME NEW a, NEW b, Longer(a, b)
  PROVE  /\ DOMAIN a \subseteq DOMAIN b
         /\ DOMAIN a = 1 .. Len(a) /\ Len(a) \in Nat /\ Len(b) \in Nat
  BY DEF Longer

LEMMA ListsAreLonger ==
  ASSUME NEW s, NEW t, Grown(s, t), NEW f \in GrantFields
  PROVE  /\ Longer(s[f], t[f])
         /\ Longer(Entries(s, f), Entries(t, f))
<1>1. s.notLists = t.notLists
  BY DEF Grown, Settings, ListSettings, GrantFields
<1>2. Longer(s[f], t[f])
  BY DEF Grown
<1>3. Longer(<<>>, <<>>)
  BY DEF Longer
<1> QED
  BY <1>1, <1>2, <1>3 DEF Entries

(* An entry once there stays where it is.                                  *)
LEMMA EntryStays ==
  ASSUME NEW s, NEW t, Grown(s, t), NEW f \in GrantFields, NEW i \in DOMAIN Entries(s, f)
  PROVE  i \in DOMAIN Entries(t, f) /\ Entries(t, f)[i] = Entries(s, f)[i]
  BY ListsAreLonger, LongerDomain DEF Longer

LEMMA ListEntryStays ==
  ASSUME NEW s, NEW t, Grown(s, t), NEW f \in GrantFields, NEW i \in DOMAIN s[f]
  PROVE  i \in DOMAIN t[f] /\ t[f][i] = s[f][i]
  BY ListsAreLonger, LongerDomain DEF Longer

(* What no grant is about is the same.                                     *)
LEMMA SettingStays ==
  ASSUME NEW s, NEW t, Grown(s, t)
  PROVE  /\ t.notLists = s.notLists /\ t.privileged = s.privileged
         /\ t.readOnly = s.readOnly /\ t.apiSocket = s.apiSocket
         /\ t.network = s.network /\ t.pid = s.pid /\ t.ipc = s.ipc /\ t.user = s.user
         /\ t.image = s.image /\ t.logging = s.logging
         /\ t.memLimit = s.memLimit /\ t.cpus = s.cpus /\ t.cpuQuota = s.cpuQuota
         /\ t.deployLimits = s.deployLimits
         /\ t.capDrop = s.capDrop /\ t.securityOpt = s.securityOpt
  BY DEF Grown, Settings, ListSettings, GrantFields

-----------------------------------------------------------------------------
(* A mount stays, with its path and its mode.                              *)
LEMMA MountsStay ==
  ASSUME NEW s, NEW t, Grown(s, t), NEW m \in BindMounts(s, Project)
  PROVE  m \in BindMounts(t, Project)
<1>1. "volumes" \notin s.notLists /\ "volumes" \notin t.notLists
  BY SettingStays DEF BindMounts
<1>2. \A i \in DOMAIN s.volumes : i \in DOMAIN t.volumes /\ t.volumes[i] = s.volumes[i]
  BY ListEntryStays DEF GrantFields
<1>3. ASSUME NEW c \in {"secrets", "configs"}, NEW i \in DOMAIN Entries(s, c)
      PROVE  i \in DOMAIN Entries(t, c) /\ t[c][i] = s[c][i]
  <2>1. i \in DOMAIN Entries(t, c) /\ Entries(t, c)[i] = Entries(s, c)[i]
    BY EntryStays DEF GrantFields
  <2>2. CASE c \in s.notLists
    BY <2>2 DEF Entries
  <2>3. CASE c \notin s.notLists
    BY <2>1, <2>3, SettingStays DEF Entries
  <2> QED
    BY <2>2, <2>3
<1> QED
  BY <1>1, <1>2, <1>3 DEF BindMounts

LEMMA MountRulesGrow ==
  ASSUME NEW s, NEW t, Grown(s, t)
  PROVE  /\ DockerSocketRule(s, Project) \subseteq DockerSocketRule(t, Project)
         /\ SensitiveMountRule(s, Project) \subseteq SensitiveMountRule(t, Project)
         /\ WritableHostRootMountRule(s, Project) \subseteq WritableHostRootMountRule(t, Project)
  BY MountsStay
  DEF DockerSocketRule, SensitiveMountRule, WritableHostRootMountRule, MountsReported

(* A capability stays, and with it the device nodes a container can make.  *)
LEMMA CapabilityRulesGrow ==
  ASSUME NEW s, NEW t, Grown(s, t), NEW members
  PROVE  AddsCap(s, members) \subseteq AddsCap(t, members)
<1>1. \A i \in DOMAIN Entries(s, "capAdd") :
        i \in DOMAIN Entries(t, "capAdd") /\ Entries(t, "capAdd")[i] = Entries(s, "capAdd")[i]
  BY EntryStays DEF GrantFields
<1> QED
  BY <1>1 DEF AddsCap, Places

LEMMA NodesStayReachable ==
  ASSUME NEW s, NEW t, Grown(s, t), NodeReachable(s, Project)
  PROVE  NodeReachable(t, Project)
<1>1. ASSUME KeepsMknod(s)
      PROVE  KeepsMknod(t)
  <2>1. \A i \in DOMAIN Entries(s, "capAdd") :
          i \in DOMAIN Entries(t, "capAdd") /\ Entries(t, "capAdd")[i] = Entries(s, "capAdd")[i]
    BY EntryStays DEF GrantFields
  <2>2. CapNames(s, "capAdd") \subseteq CapNames(t, "capAdd")
    BY <2>1 DEF CapNames, Range
  <2>3. CapNames(s, "capDrop") = CapNames(t, "capDrop")
    BY SettingStays DEF CapNames, Entries
  <2> QED
    BY <1>1, <2>2, <2>3, SettingStays DEF KeepsMknod
<1> QED
  BY <1>1, MountsStay DEF NodeReachable

LEMMA DeviceRuleGrows ==
  ASSUME NEW s, NEW t, Grown(s, t)
  PROVE  DangerousDevicesRule(s, Project) \subseteq DangerousDevicesRule(t, Project)
<1>1. "devices" \in s.notLists <=> "devices" \in t.notLists
  BY SettingStays
<1>2. Places("devices", s.devices, DangerousDevice)
        \subseteq Places("devices", t.devices, DangerousDevice)
  BY ListEntryStays DEF GrantFields, Places
<1>3. Places("cgroupRules", Entries(s, "cgroupRules"), CgroupGrant)
        \subseteq Places("cgroupRules", Entries(t, "cgroupRules"), CgroupGrant)
  BY EntryStays DEF GrantFields, Places
<1> QED
  BY <1>1, <1>2, <1>3, NodesStayReachable DEF DangerousDevicesRule

(* A credential stays, in the environment and on the command line.         *)
LEMMA CredentialWordStays ==
  ASSUME NEW a, NEW b, Longer(a, b), NEW i \in DOMAIN a, CredentialWord(a, i)
  PROVE  i \in DOMAIN b /\ b[i] = a[i] /\ CredentialWord(b, i)
<1>1. i \in DOMAIN b /\ b[i] = a[i]
  BY LongerDomain DEF Longer
<1>2. ASSUME NEW j \in DOMAIN a
      PROVE  j \in DOMAIN b /\ b[j] = a[j]
  BY LongerDomain DEF Longer
<1>3. i < Len(a) => i + 1 \in DOMAIN a /\ i < Len(b)
  BY LongerDomain DEF Longer
<1>4. CASE a[i].kind # "flag"
  BY <1>1, <1>2, <1>4 DEF CredentialWord
<1>5. CASE a[i].kind = "flag"
  <2>1. /\ i < Len(a)
        /\ a[i + 1].kind \notin {"flag", "inline", "glued"}
        /\ CredentialFlag(a[i].name, a[i + 1].value)
    BY <1>5 DEF CredentialWord
  <2>2. i < Len(b) /\ b[i + 1] = a[i + 1]
    BY <1>2, <1>3, <2>1
  <2>3. CredentialWord(b, i)
    BY <1>1, <1>5, <2>1, <2>2 DEF CredentialWord
  <2> QED
    BY <1>1, <2>3
<1> QED
  BY <1>4, <1>5

LEMMA CredentialRulesGrow ==
  ASSUME NEW s, NEW t, Grown(s, t)
  PROVE  /\ CredentialEnvKeysRule(s) \subseteq CredentialEnvKeysRule(t)
         /\ ConnectionStringCredentialsRule(s) \subseteq ConnectionStringCredentialsRule(t)
<1>1. \A i \in DOMAIN s.environment :
        i \in DOMAIN t.environment /\ t.environment[i] = s.environment[i]
  BY ListEntryStays DEF GrantFields
<1>2. \A i \in DOMAIN s.command : CredentialWord(s.command, i) =>
        i \in DOMAIN t.command /\ t.command[i] = s.command[i] /\ CredentialWord(t.command, i)
  BY CredentialWordStays, ListsAreLonger DEF GrantFields
<1>3. Places("environment", s.environment, CredentialEntry)
        \subseteq Places("environment", t.environment, CredentialEntry)
  BY <1>1 DEF Places
<1>4. ConnectionStringCredentialsRule(s) \subseteq ConnectionStringCredentialsRule(t)
  BY <1>1 DEF ConnectionStringCredentialsRule, Places
<1> QED
  BY <1>2, <1>3, <1>4 DEF CredentialEnvKeysRule

-----------------------------------------------------------------------------
(* The rules about the entries of one list, and those about settings.      *)
LEMMA EntryRulesGrow ==
  ASSUME NEW s, NEW t, Grown(s, t)
  PROVE  /\ UnboundPortsRule(s) \subseteq UnboundPortsRule(t)
         /\ SharedMountRule(s) \subseteq SharedMountRule(t)
         /\ TmpfsInsecureOptionsRule(s) \subseteq TmpfsInsecureOptionsRule(t)
<1>1. UnboundPortsRule(s) \subseteq UnboundPortsRule(t)
  BY EntryStays DEF GrantFields, Places, UnboundPortsRule
<1>2. SharedMountRule(s) \subseteq SharedMountRule(t)
  BY EntryStays DEF GrantFields, Places, SharedMountRule
<1>3. TmpfsInsecureOptionsRule(s) \subseteq TmpfsInsecureOptionsRule(t)
  BY ListEntryStays DEF GrantFields, Places, TmpfsInsecureOptionsRule
<1> QED
  BY <1>1, <1>2, <1>3

LEMMA SettingRulesStay ==
  ASSUME NEW s, NEW t, Grown(s, t)
  PROVE  /\ PrivilegedModeRule(t) = PrivilegedModeRule(s)
         /\ NoNewPrivilegesRule(t) = NoNewPrivilegesRule(s)
         /\ ImageNotPinnedRule(t) = ImageNotPinnedRule(s)
         /\ CapDropRule(t) = CapDropRule(s)
         /\ ReadOnlyFilesystemRule(t) = ReadOnlyFilesystemRule(s)
         /\ HostNetworkRule(t) = HostNetworkRule(s)
         /\ SecurityProfileRule(t) = SecurityProfileRule(s)
         /\ HostNamespaceRule(t) = HostNamespaceRule(s)
         /\ LoggingDisabledRule(t) = LoggingDisabledRule(s)
         /\ ExplicitRootRule(t) = ExplicitRootRule(s)
         /\ ImageNoDigestRule(t) = ImageNoDigestRule(s)
         /\ ResourceLimitsRule(t) = ResourceLimitsRule(s)
         /\ ApiSocketRule(t) = ApiSocketRule(s)
<1>1. /\ PrivilegedModeRule(t) = PrivilegedModeRule(s)
      /\ ReadOnlyFilesystemRule(t) = ReadOnlyFilesystemRule(s)
      /\ HostNetworkRule(t) = HostNetworkRule(s)
      /\ HostNamespaceRule(t) = HostNamespaceRule(s)
      /\ LoggingDisabledRule(t) = LoggingDisabledRule(s)
      /\ ExplicitRootRule(t) = ExplicitRootRule(s)
      /\ ApiSocketRule(t) = ApiSocketRule(s)
  BY SettingStays
  DEF PrivilegedModeRule, ReadOnlyFilesystemRule, HostNetworkRule, HostNamespaceRule,
      LoggingDisabledRule, ExplicitRootRule, ApiSocketRule
<1>2. /\ ImageNotPinnedRule(t) = ImageNotPinnedRule(s)
      /\ ImageNoDigestRule(t) = ImageNoDigestRule(s)
  BY SettingStays DEF ImageNotPinnedRule, ImageNoDigestRule
<1>3. Entries(t, "securityOpt") = Entries(s, "securityOpt")
  BY SettingStays DEF Entries
<1>4. CapNames(t, "capDrop") = CapNames(s, "capDrop")
  BY SettingStays DEF CapNames, Entries
<1>5. LacksLimits(t) <=> LacksLimits(s)
  BY SettingStays DEF LacksLimits
<1>6. KeepsDefaultCaps(t) <=> KeepsDefaultCaps(s)
  BY <1>4 DEF KeepsDefaultCaps
<1>7. /\ NoNewPrivilegesRule(t) = NoNewPrivilegesRule(s)
      /\ SecurityProfileRule(t) = SecurityProfileRule(s)
  BY <1>3 DEF NoNewPrivilegesRule, SecurityProfileRule
<1>8. CapDropRule(t) = CapDropRule(s) /\ ResourceLimitsRule(t) = ResourceLimitsRule(s)
  BY <1>5, <1>6 DEF CapDropRule, ResourceLimitsRule, AtKey
<1> QED
  BY <1>1, <1>2, <1>7, <1>8

(* What is registered under each identifier.                               *)
LEMMA LowRegistry ==
  ASSUME NEW s
  PROVE  /\ Reports("CL-0007", s, Project) = ReadOnlyFilesystemRule(s)
         /\ Reports("CL-0014", s, Project) = LoggingDisabledRule(s)
         /\ Reports("CL-0017", s, Project) = SharedMountRule(s)
         /\ Reports("CL-0022", s, Project) = TmpfsInsecureOptionsRule(s)
  BY Zenon DEF Reports

LEMMA MediumRegistry ==
  ASSUME NEW s
  PROVE  /\ Reports("CL-0003", s, Project) = NoNewPrivilegesRule(s)
         /\ Reports("CL-0004", s, Project) = ImageNotPinnedRule(s)
         /\ Reports("CL-0005", s, Project) = UnboundPortsRule(s)
         /\ Reports("CL-0006", s, Project) = CapDropRule(s)
         /\ Reports("CL-0018", s, Project) = ExplicitRootRule(s)
         /\ Reports("CL-0019", s, Project) = ImageNoDigestRule(s)
         /\ Reports("CL-0026", s, Project) = ResourceLimitsRule(s)
         /\ Reports("CL-0027", s, Project) = LesserCapAddRule(s)
  BY Zenon DEF Reports

LEMMA HighRegistry ==
  ASSUME NEW s
  PROVE  /\ Reports("CL-0008", s, Project) = HostNetworkRule(s)
         /\ Reports("CL-0009", s, Project) = SecurityProfileRule(s)
         /\ Reports("CL-0010", s, Project) = HostNamespaceRule(s)
         /\ Reports("CL-0011", s, Project) = DangerousCapAddRule(s)
         /\ Reports("CL-0013", s, Project) = SensitiveMountRule(s, Project)
         /\ Reports("CL-0020", s, Project) = CredentialEnvKeysRule(s)
         /\ Reports("CL-0021", s, Project) = ConnectionStringCredentialsRule(s)
         /\ Reports("CL-0028", s, Project) = HostReachCapAddRule(s)
         /\ Reports("CL-0029", s, Project) = HostAvailabilityCapAddRule(s)
         /\ Reports("CL-0030", s, Project) = HostDisclosureCapAddRule(s)
  BY Zenon DEF Reports

LEMMA CriticalRegistry ==
  ASSUME NEW s
  PROVE  /\ Reports("CL-0001", s, Project) = DockerSocketRule(s, Project)
         /\ Reports("CL-0002", s, Project) = PrivilegedModeRule(s)
         /\ Reports("CL-0016", s, Project) = DangerousDevicesRule(s, Project)
         /\ Reports("CL-0024", s, Project) = HostExecCapAddRule(s)
         /\ Reports("CL-0025", s, Project) = WritableHostRootMountRule(s, Project)
         /\ Reports("CL-0031", s, Project) = ApiSocketRule(s)
  BY Zenon DEF Reports

(* Every rule of the registry reports at least what it reported.           *)
LEMMA ReportsGrow ==
  ASSUME NEW s, NEW t, Grown(s, t), NEW r \in RuleIds
  PROVE  Reports(r, s, Project) \subseteq Reports(r, t, Project)
<1>1. /\ DangerousCapAddRule(s) \subseteq DangerousCapAddRule(t)
      /\ HostExecCapAddRule(s) \subseteq HostExecCapAddRule(t)
      /\ LesserCapAddRule(s) \subseteq LesserCapAddRule(t)
      /\ HostReachCapAddRule(s) \subseteq HostReachCapAddRule(t)
      /\ HostAvailabilityCapAddRule(s) \subseteq HostAvailabilityCapAddRule(t)
      /\ HostDisclosureCapAddRule(s) \subseteq HostDisclosureCapAddRule(t)
  BY CapabilityRulesGrow
  DEF DangerousCapAddRule, HostExecCapAddRule, LesserCapAddRule, HostReachCapAddRule,
      HostAvailabilityCapAddRule, HostDisclosureCapAddRule
<1>2. CASE r \in Low
  BY <1>2, LowRegistry, EntryRulesGrow, SettingRulesStay DEF Low
<1>3. CASE r \in Medium
  BY <1>1, <1>3, MediumRegistry, EntryRulesGrow, SettingRulesStay DEF Medium
<1>4. CASE r \in High
  BY <1>1, <1>4, HighRegistry, CredentialRulesGrow, MountRulesGrow, SettingRulesStay DEF High
<1>5. CASE r \in Critical
  BY <1>1, <1>5, CriticalRegistry, DeviceRuleGrows, MountRulesGrow, SettingRulesStay
  DEF Critical
<1> QED
  BY <1>2, <1>3, <1>4, <1>5 DEF RuleIds

LEMMA FindingsGrow ==
  ASSUME NEW s, NEW t, Grown(s, t)
  PROVE  Findings(s, Project) \subseteq Findings(t, Project)
  BY ReportsGrow DEF Findings

-----------------------------------------------------------------------------
(* A list with an entry at its end is longer.                              *)
LEMMA AppendIsLonger ==
  ASSUME NEW a, a \in Seq(Range(a)), NEW entry
  PROVE  Longer(a, Append(a, entry))
<1> DEFINE b == Append(a, entry)
           R == Range(a) \cup {entry}
<1>1. a \in Seq(R)
  BY DEF Range
<1>2. b \in Seq(R) /\ Len(b) = Len(a) + 1 /\ \A i \in 1 .. Len(a) : b[i] = a[i]
  BY <1>1, AppendProperties
<1>3. DOMAIN b = 1 .. Len(b) /\ DOMAIN a = 1 .. Len(a) /\ Len(a) \in Nat
  BY <1>1, <1>2
<1>4. b \in Seq(Range(b))
  <2> HIDE DEF b
  <2>0. b \in [1 .. Len(b) -> R]
    BY <1>2, LenProperties
  <2>1. b \in [1 .. Len(b) -> Range(b)]
    BY <2>0 DEF Range
  <2>2. Len(b) \in Nat
    BY <1>2, <1>3
  <2> QED
    BY <2>1, <2>2, SeqDef
<1> QED
  BY <1>2, <1>3, <1>4 DEF Longer

LEMMA AListIsLonger ==
  ASSUME NEW a, a \in Seq(Range(a))
  PROVE  Longer(a, a)
  BY DEF Longer

(***************************************************************************)
(* A service is a service, whatever is written into it: the lists stay     *)
(* lists.                                                                  *)
(***************************************************************************)
THEOREM ServiceTyped == Spec => []TypeOK
<1>1. Init => TypeOK
  BY RulesAssumption DEF Init, TypeOK
<1>2. TypeOK /\ [Next]_vars => TypeOK'
  <2> SUFFICES ASSUME TypeOK, [Next]_vars
               PROVE  TypeOK'
    OBVIOUS
  <2>1. ASSUME NEW field \in ListFields, AddEntry(field)
        PROVE  TypeOK'
    <3>1. PICK entry : svc' = [svc EXCEPT ![field] = Append(svc[field], entry)]
      BY <2>1 DEF AddEntry
    <3>2. \A f \in ListSettings \ {field} : svc'[f] = svc[f]
      BY <3>1 DEF TypeOK, IsService, Settings
    <3>3. CASE field \in ListSettings
      <4>1. svc[field] \in Seq(Range(svc[field])) /\ svc'[field] = Append(svc[field], entry)
        BY <3>1, <3>3 DEF TypeOK, IsService, Settings
      <4>2. svc'[field] \in Seq(Range(svc'[field]))
        BY <4>1, AppendIsLonger DEF Longer
      <4> QED
        BY <3>1, <3>2, <4>2 DEF TypeOK, IsService
    <3>4. CASE field \notin ListSettings
      BY <3>1, <3>2, <3>4 DEF TypeOK, IsService
    <3> QED
      BY <3>3, <3>4
  <2>2. ASSUME NEW field \in DOMAIN Menu \ ListFields, SetValue(field)
        PROVE  TypeOK'
    BY <2>2, RulesAssumption DEF SetValue, ListFields, TypeOK, IsService, Settings
  <2>3. ASSUME NEW field, MakeNoList(field)
        PROVE  TypeOK'
    BY <2>3 DEF MakeNoList, TypeOK, IsService, Settings, ListSettings
  <2>4. CASE UNCHANGED vars
    BY <2>4 DEF vars, TypeOK
  <2> QED
    BY <2>1, <2>2, <2>3, <2>4 DEF Next
<1> QED
  BY <1>1, <1>2, PTL DEF Spec

LEMMA GrantGrows ==
  ASSUME TypeOK, NEW field \in GrantFields, AddEntry(field)
  PROVE  Grown(svc, svc')
<1>1. PICK entry : svc' = [svc EXCEPT ![field] = Append(svc[field], entry)]
  BY DEF AddEntry
<1>2. GrantFields \subseteq ListSettings /\ ListSettings \subseteq Settings
  BY DEF GrantFields, ListSettings, Settings
<1>3. /\ svc'[field] = Append(svc[field], entry)
      /\ \A f \in Settings \ {field} : svc'[f] = svc[f]
  BY <1>1, <1>2 DEF TypeOK, IsService
<1>4. Longer(svc[field], svc'[field])
  BY <1>2, <1>3, AppendIsLonger DEF TypeOK, IsService
<1>5. \A f \in GrantFields \ {field} : Longer(svc[f], svc'[f])
  BY <1>2, <1>3, AListIsLonger DEF TypeOK, IsService
<1> QED
  BY <1>2, <1>3, <1>4, <1>5 DEF Grown

(***************************************************************************)
(* Giving a service more takes no finding of any of the 28 rules away.     *)
(***************************************************************************)
THEOREM MoreNeverHides == Spec => GrantsHideNothing
<1>1. TypeOK /\ [Next]_vars =>
        [\A field \in GrantFields : AddEntry(field) =>
           Findings(svc, Project) \subseteq Findings(svc', Project)]_vars
  BY GrantGrows, FindingsGrow
<1> QED
  BY <1>1, ServiceTyped, PTL DEF Spec, GrantsHideNothing

-----------------------------------------------------------------------------
(* The names at the beginning of a path at or below a directory.           *)
LEMMA FirstName ==
  ASSUME NEW n, NEW a, NEW d, d = <<a>>, At(n, d) \/ Under(n, d)
  PROVE  n.abs /\ n.parts[1] = a
<1>1. CASE At(n, d)
  BY <1>1 DEF At, Abs
<1>2. CASE Under(n, d)
  BY <1>2 DEF Under, IsStrictPrefix, IsPrefix
<1> QED
  BY <1>1, <1>2

LEMMA FirstNames ==
  ASSUME NEW n, NEW a, NEW b, NEW d, d = <<a, b>>, At(n, d) \/ Under(n, d)
  PROVE  n.abs /\ n.parts[1] = a /\ n.parts[2] = b
<1>1. CASE At(n, d)
  BY <1>1 DEF At, Abs
<1>2. CASE Under(n, d)
  BY <1>2 DEF Under, IsStrictPrefix, IsPrefix
<1> QED
  BY <1>1, <1>2

LEMMA FirstThreeNames ==
  ASSUME NEW n, NEW a, NEW b, NEW c, NEW d, d = <<a, b, c>>, At(n, d) \/ Under(n, d)
  PROVE  n.abs /\ n.parts[1] = a /\ n.parts[2] = b
<1>1. CASE At(n, d)
  BY <1>1 DEF At, Abs
<1>2. CASE Under(n, d)
  BY <1>2 DEF Under, IsStrictPrefix, IsPrefix
<1> QED
  BY <1>1, <1>2

LEMMA RuntimeNames ==
  ASSUME NEW n, IsRuntime(n)
  PROVE  /\ n.abs
         /\ n.parts[1] = "run" \/ (n.parts[1] = "var" /\ n.parts[2] = "run")
<1>1. PICK d \in RuntimeDirs : At(n, d) \/ Under(n, d)
  BY DEF IsRuntime
<1>2. CASE d = <<"run">>
  BY <1>1, <1>2, FirstName
<1>3. CASE d = <<"var", "run">>
  BY <1>1, <1>3, FirstNames
<1> QED
  BY <1>1, <1>2, <1>3 DEF RuntimeDirs

(* The other lists name nothing at or above host runtime state.            *)
LEMMA RuntimeIsNotRootEquivalent ==
  ASSUME NEW path, IsRuntime(Normalize(path))
  PROVE  MatchRootEquivalent(path) = {} /\ MatchPrefix(path, ExposedPaths) = {}
<1> DEFINE n == Normalize(path)
<1> HIDE DEF n
<1>1. n.parts[1] = "run" \/ (n.parts[1] = "var" /\ n.parts[2] = "run")
  BY RuntimeNames DEF n
<1>2. ASSUME NEW a, NEW d, d = <<a>>, At(n, d) \/ Under(n, d), a \notin {"run", "var"}
      PROVE  FALSE
  BY <1>1, <1>2, FirstName
<1>3. ASSUME NEW a, NEW b, NEW d, d = <<a, b>>, At(n, d) \/ Under(n, d),
             a \notin {"run", "var"} \/ <<a, b>> = <<"var", "lib">>
      PROVE  FALSE
  BY <1>1, <1>3, FirstNames
<1>4. ASSUME NEW a, NEW b, NEW c, NEW d, d = <<a, b, c>>, At(n, d) \/ Under(n, d),
             a \notin {"run", "var"} \/ <<a, b>> = <<"var", "lib">>
      PROVE  FALSE
  BY <1>1, <1>4, FirstThreeNames
<1>5. \A d \in RootEquivalentPaths : ~At(n, d) /\ ~Under(n, d)
  BY <1>2, <1>3, <1>4 DEF RootEquivalentPaths
<1>6. \A d \in RootEquivalentExactPaths : ~At(n, d)
  BY <1>2, <1>3 DEF RootEquivalentExactPaths
<1>7. \A d \in ExposedPaths : ~At(n, d) /\ ~Under(n, d)
  BY <1>2 DEF ExposedPaths
<1> QED
  BY <1>5, <1>6, <1>7 DEF MatchRootEquivalent, MatchPrefix, MatchExact, n

(***************************************************************************)
(* A mount of host runtime state is reported by exactly one of the rules   *)
(* about mounts, whatever its path is spelled like and whatever else the   *)
(* service mounts.                                                         *)
(***************************************************************************)
LEMMA OneRuntimeOwner ==
  ASSUME NEW path, NEW readOnly, IsRuntime(Normalize(path))
  PROVE  Cardinality(MountRules(path, readOnly)) = 1
<1> DEFINE n == Normalize(path)
           m == [at |-> <<"volumes", 1>>, path |-> path, readOnly |-> readOnly]
<1>1. /\ n.abs
      /\ n.parts[1] = "run" \/ (n.parts[1] = "var" /\ n.parts[2] = "run")
  BY RuntimeNames
<1>2. ~WritableRootMount(m)
  BY RuntimeIsNotRootEquivalent DEF WritableRootMount
<1>3. ~MatchesHomeTree(n) /\ ~MatchesTildeHome(n)
  BY <1>1 DEF MatchesHomeTree, MatchesTildeHome
<1>4. \A d \in InertDevices : n # Abs(d)
  BY <1>1 DEF InertDevices, Abs
<1>5. ~ClaimsHostPath(path) => RuntimeDescendant(n)
  BY DEF ClaimsHostPath, HoldsSocket, SocketDirs, RuntimeDirs, IsRuntime, RuntimeDescendant
<1>6. SensitiveMount(m) <=> ~ClaimsHostPath(path)
  BY <1>3, <1>4, <1>5, RuntimeIsNotRootEquivalent DEF SensitiveMount
<1>7. SocketMount(m) <=> ClaimsHostPath(path)
  BY DEF SocketMount
<1>8. MountRules(path, readOnly) = {"CL-0001"} \/ MountRules(path, readOnly) = {"CL-0013"}
  BY <1>2, <1>6, <1>7 DEF MountRules
<1> QED
  BY <1>8, FS_Singleton

THEOREM RuntimeOwned == Spec => []RuntimeHasOneOwner
<1>1. RuntimeHasOneOwner
  BY OneRuntimeOwner DEF RuntimeHasOneOwner
<1> QED
  BY <1>1, PTL

(***************************************************************************)
(* Of any path, what is reported read-only is reported writable, and what  *)
(* is critical read-only is critical writable.                             *)
(***************************************************************************)
LEMMA WritableIsNoBetter ==
  ASSUME NEW path
  PROVE  /\ MountRules(path, TRUE) # {} => MountRules(path, FALSE) # {}
         /\ MountRules(path, TRUE) \cap Critical # {} =>
              MountRules(path, FALSE) \cap Critical # {}
<1> DEFINE ro == [at |-> <<"volumes", 1>>, path |-> path, readOnly |-> TRUE]
           rw == [at |-> <<"volumes", 1>>, path |-> path, readOnly |-> FALSE]
<1>1. SocketMount(ro) <=> SocketMount(rw)
  BY DEF SocketMount
<1>2. ~WritableRootMount(ro)
  BY DEF WritableRootMount
<1>3. SensitiveMount(ro) => SensitiveMount(rw) \/ WritableRootMount(rw)
  BY DEF SensitiveMount, WritableRootMount
<1>4. \A r \in MountRules(path, TRUE) :
        \/ r = "CL-0001" /\ SocketMount(rw)
        \/ r = "CL-0013" /\ (SensitiveMount(rw) \/ WritableRootMount(rw))
  BY <1>1, <1>2, <1>3 DEF MountRules
<1>5. /\ SocketMount(rw) => "CL-0001" \in MountRules(path, FALSE)
      /\ SensitiveMount(rw) => "CL-0013" \in MountRules(path, FALSE)
      /\ WritableRootMount(rw) => "CL-0025" \in MountRules(path, FALSE)
  BY DEF MountRules
<1>6. "CL-0001" \in Critical /\ "CL-0013" \notin Critical
  BY DEF Critical
<1> QED
  BY <1>4, <1>5, <1>6

THEOREM WritableGraded == Spec => []WritableNeverGradedLower
<1>1. WritableNeverGradedLower
  BY WritableIsNoBetter DEF WritableNeverGradedLower
<1> QED
  BY <1>1, PTL

-----------------------------------------------------------------------------
(* A socket is never handed over below the top grade.                      *)

(* An entry of a list is one the author started from or may write.         *)
Written(f, entry) ==
  entry \in Menu[f] \/ \E s \in Bases : \E i \in DOMAIN s[f] : entry = s[f][i]

WrittenInv ==
  /\ DOMAIN svc = Settings
  /\ \A f \in ListSettings : \A i \in DOMAIN svc[f] : Written(f, svc[f][i])

LEMMA WrittenKept == Spec => [](TypeOK /\ WrittenInv)
<1>1. Init => WrittenInv
  BY RulesAssumption DEF Init, WrittenInv, Written, IsService
<1>2. TypeOK /\ WrittenInv /\ [Next]_vars => WrittenInv'
  <2> SUFFICES ASSUME TypeOK, WrittenInv, [Next]_vars
               PROVE  WrittenInv'
    OBVIOUS
  <2>0. "notLists" \in Settings /\ "notLists" \notin ListSettings
    BY DEF Settings, ListSettings
  <2>1. ASSUME NEW field \in ListFields, AddEntry(field)
        PROVE  WrittenInv'
    <3>1. PICK entry \in Menu[field] : svc' = [svc EXCEPT ![field] = Append(@, entry)]
      BY <2>1 DEF AddEntry
    <3>2. DOMAIN svc' = Settings
      BY <3>1 DEF WrittenInv
    <3>3. ASSUME NEW f \in ListSettings, NEW i \in DOMAIN svc'[f]
          PROVE  Written(f, svc'[f][i])
      <4>1. f \in Settings /\ svc[f] \in Seq(Range(svc[f]))
        BY DEF Settings, TypeOK, IsService
      <4>2. CASE f # field
        <5>1. svc'[f] = svc[f]
          BY <3>1, <4>1, <4>2 DEF WrittenInv
        <5> QED
          BY <3>3, <5>1 DEF WrittenInv
      <4>3. CASE f = field
        <5>1. svc'[f] = Append(svc[f], entry)
          BY <3>1, <4>1, <4>3 DEF WrittenInv
        <5>2. \/ i \in DOMAIN svc[f] /\ svc'[f][i] = svc[f][i]
              \/ svc'[f][i] = entry
          BY <3>3, <4>1, <5>1
        <5> QED
          BY <3>1, <4>3, <5>2 DEF WrittenInv, Written
      <4> QED
        BY <4>2, <4>3
    <3> QED
      BY <3>2, <3>3 DEF WrittenInv
  <2>2. ASSUME NEW field \in DOMAIN Menu \ ListFields, SetValue(field)
        PROVE  WrittenInv'
    <3>1. field \notin ListSettings
      BY RulesAssumption DEF ListFields
    <3>2. PICK value : svc' = [svc EXCEPT ![field] = value]
      BY <2>2 DEF SetValue
    <3>3. \A f \in ListSettings : f \in Settings /\ f # field
      BY <3>1 DEF Settings
    <3>4. DOMAIN svc = Settings
      BY DEF WrittenInv
    <3>5. DOMAIN svc' = Settings
      BY <3>2, <3>4
    <3>6. \A f \in ListSettings : svc'[f] = svc[f]
      BY <3>2, <3>3, <3>4
    <3> QED
      BY <3>5, <3>6 DEF WrittenInv
  <2>3. ASSUME NEW field, MakeNoList(field)
        PROVE  WrittenInv'
    <3>1. svc' = [svc EXCEPT !["notLists"] = {field}] /\ DOMAIN svc = Settings
      BY <2>3 DEF MakeNoList, WrittenInv
    <3>2. \A f \in ListSettings : f \in Settings /\ f # "notLists"
      BY <2>0 DEF Settings
    <3>3. DOMAIN svc' = Settings
      BY <3>1
    <3>4. \A f \in ListSettings : svc'[f] = svc[f]
      BY <3>1, <3>2
    <3> QED
      BY <3>3, <3>4 DEF WrittenInv
  <2>4. CASE UNCHANGED vars
    BY <2>4 DEF vars, WrittenInv
  <2> QED
    BY <2>1, <2>2, <2>3, <2>4 DEF Next
<1> QED
  BY <1>1, <1>2, ServiceTyped, PTL DEF Spec

(* So a path to mount is a sequence of names, a port is a port and a       *)
(* security option a key and a value.                                      *)
PathsInv   == \A i \in DOMAIN svc.volumes : IsPath(svc.volumes[i].source)
PortsInv   == \A i \in DOMAIN svc.ports : IsPort(svc.ports[i])
OptionsInv == \A i \in DOMAIN svc.securityOpt : svc.securityOpt[i] \in Options

LEMMA EntriesKept == Spec => [](TypeOK /\ PathsInv /\ PortsInv /\ OptionsInv)
<1>1. WrittenInv => PathsInv
  <2> SUFFICES ASSUME WrittenInv, NEW i \in DOMAIN svc.volumes
               PROVE  IsPath(svc.volumes[i].source)
    BY DEF PathsInv
  <2>1. Written("volumes", svc.volumes[i])
    BY DEF WrittenInv, ListSettings
  <2> QED
    BY <2>1, RulesAssumption DEF Written
<1>2. WrittenInv => PortsInv
  <2> SUFFICES ASSUME WrittenInv, NEW i \in DOMAIN svc.ports
               PROVE  IsPort(svc.ports[i])
    BY DEF PortsInv
  <2>1. Written("ports", svc.ports[i])
    BY DEF WrittenInv, ListSettings
  <2> QED
    BY <2>1, RulesAssumption DEF Written
<1>3. WrittenInv => OptionsInv
  <2> SUFFICES ASSUME WrittenInv, NEW i \in DOMAIN svc.securityOpt
               PROVE  svc.securityOpt[i] \in Options
    BY DEF OptionsInv
  <2>1. Written("securityOpt", svc.securityOpt[i])
    BY DEF WrittenInv, ListSettings
  <2> QED
    BY <2>1, RulesAssumption DEF Written
<1> QED
  BY <1>1, <1>2, <1>3, WrittenKept, PTL

LEMMA MountsArePaths ==
  ASSUME PathsInv, NEW m \in Mounts
  PROVE  IsPath(m.path)
<1>1. ASSUME NEW i \in DOMAIN svc.volumes, m.path = svc.volumes[i].source
      PROVE  IsPath(m.path)
  BY <1>1 DEF PathsInv
<1>2. ASSUME NEW v \in DOMAIN Project.volumes, m.path = Project.volumes[v].device
      PROVE  IsPath(m.path)
  BY <1>2, RulesAssumption
<1>3. ASSUME NEW c \in {"secrets", "configs"}, NEW n \in DOMAIN Project[c],
             m.path = Project[c][n].file
      PROVE  IsPath(m.path)
  BY <1>3, RulesAssumption
<1> DEFINE volumes == svc.volumes
           named == {i \in DOMAIN volumes : NamedVolume(volumes[i]) \in BindBacked(Project)}
           filed(c) == {i \in DOMAIN Entries(svc, c) : svc[c][i] \in FileBacked(Project, c)}
<1>4. \/ \E i \in DOMAIN volumes : m.path = volumes[i].source
      \/ \E i \in named : m.path = Project.volumes[NamedVolume(volumes[i])].device
      \/ \E c \in {"secrets", "configs"} : \E i \in filed(c) :
           m.path = Project[c][svc[c][i]].file
  BY DEF Mounts, BindMounts
<1>5. /\ \A i \in named : NamedVolume(volumes[i]) \in DOMAIN Project.volumes
      /\ \A c \in {"secrets", "configs"} : \A i \in filed(c) : svc[c][i] \in DOMAIN Project[c]
  BY DEF BindBacked, FileBacked
<1> HIDE DEF named, filed
<1> QED
  BY <1>1, <1>2, <1>3, <1>4, <1>5

(* The names of a path above another are the first names of that one.      *)
LEMMA PrefixElements ==
  ASSUME NEW S, NEW T, NEW s \in Seq(S), NEW t \in Seq(T), IsPrefix(s, t)
  PROVE  /\ Len(s) \in Nat /\ Len(s) <= Len(t)
         /\ \A i \in 1 .. Len(s) : s[i] = t[i]
<1>1. Len(s) \in Nat /\ Len(t) \in Nat /\ Len(s) <= Len(t)
  BY DEF IsPrefix
<1>2. ASSUME NEW i \in 1 .. Len(s)
      PROVE  s[i] = t[i]
  <2>1. SubSeq(s, 1, Len(s))[i] = s[i]
    BY <1>1
  <2>2. SubSeq(t, 1, Len(s))[i] = t[i]
    BY <1>1
  <2> QED
    BY <2>1, <2>2 DEF IsPrefix
<1> QED
  BY <1>1, <1>2

(* What SMT does not see of itself: small lengths, one by one.             *)
LEMMA UpToThree ==
  ASSUME NEW n \in Nat
  PROVE  /\ n <= 2 => n = 0 \/ n = 1 \/ n = 2
         /\ n <= 3 => n = 0 \/ n = 1 \/ n = 2 \/ n = 3
OBVIOUS

(* The directories above one of two names, and above one of three.         *)
LEMMA PrefixOfTwo ==
  ASSUME NEW S, NEW s \in Seq(S), NEW a, NEW b, NEW T, NEW t \in Seq(T),
         Len(t) = 2, t[1] = a, t[2] = b, IsPrefix(s, t)
  PROVE  s \in {<<>>, <<a>>, <<a, b>>}
<1>1. Len(s) \in Nat /\ Len(s) <= Len(t) /\ \A i \in 1 .. Len(s) : s[i] = t[i]
  BY PrefixElements
<1>2. Len(s) = 0 \/ Len(s) = 1 \/ Len(s) = 2
  BY <1>1, UpToThree
<1>3. CASE Len(s) = 0
  BY <1>1, <1>3
<1>4. CASE Len(s) = 1
  BY <1>1, <1>4
<1>5. CASE Len(s) = 2
  BY <1>1, <1>5
<1> QED
  BY <1>2, <1>3, <1>4, <1>5

LEMMA PrefixOfThree ==
  ASSUME NEW S, NEW s \in Seq(S), NEW a, NEW b, NEW c, NEW T, NEW t \in Seq(T),
         Len(t) = 3, t[1] = a, t[2] = b, t[3] = c, IsPrefix(s, t)
  PROVE  s \in {<<>>, <<a>>, <<a, b>>, <<a, b, c>>}
<1>1. Len(s) \in Nat /\ Len(s) <= Len(t) /\ \A i \in 1 .. Len(s) : s[i] = t[i]
  BY PrefixElements
<1>2. Len(s) = 0 \/ Len(s) = 1 \/ Len(s) = 2 \/ Len(s) = 3
  BY <1>1, UpToThree
<1>3. CASE Len(s) = 0
  BY <1>1, <1>3
<1>4. CASE Len(s) = 1
  BY <1>1, <1>4
<1>5. CASE Len(s) = 2
  BY <1>1, <1>5
<1>6. CASE Len(s) = 3
  BY <1>1, <1>6
<1> QED
  BY <1>2, <1>3, <1>4, <1>5, <1>6

(* What leads to a socket is a directory CL-0001 lists or one above it, or *)
(* is the socket.                                                          *)
LEMMA LeadsToSocket ==
  ASSUME NEW S, NEW parts \in Seq(S), NEW socket \in Sockets, IsPrefix(parts, socket)
  PROVE  parts \in {<<>>, <<"run">>, <<"var">>, <<"var", "run">>, <<"run", "containerd">>,
                     <<"run", "systemd">>} \cup Sockets
<1>1. CASE socket = <<"run", "docker.sock">>
  <2>1. socket \in Seq({"run", "docker.sock"}) /\ Len(socket) = 2
        /\ socket[1] = "run" /\ socket[2] = "docker.sock"
    BY <1>1
  <2>2. parts \in {<<>>, <<"run">>, <<"run", "docker.sock">>}
    BY <2>1, PrefixOfTwo
  <2> QED
    BY <2>2 DEF Sockets
<1>2. CASE socket = <<"var", "run", "docker.sock">>
  <2>1. socket \in Seq({"var", "run", "docker.sock"}) /\ Len(socket) = 3
        /\ socket[1] = "var" /\ socket[2] = "run" /\ socket[3] = "docker.sock"
    BY <1>2
  <2>2. parts \in {<<>>, <<"var">>, <<"var", "run">>, <<"var", "run", "docker.sock">>}
    BY <2>1, PrefixOfThree
  <2> QED
    BY <2>2 DEF Sockets
<1>3. CASE socket = <<"run", "containerd", "containerd.sock">>
  <2>1. socket \in Seq({"run", "containerd", "containerd.sock"}) /\ Len(socket) = 3
        /\ socket[1] = "run" /\ socket[2] = "containerd" /\ socket[3] = "containerd.sock"
    BY <1>3
  <2>2. parts \in {<<>>, <<"run">>, <<"run", "containerd">>,
                   <<"run", "containerd", "containerd.sock">>}
    BY <2>1, PrefixOfThree
  <2> QED
    BY <2>2 DEF Sockets
<1>4. CASE socket = <<"run", "systemd", "private">>
  <2>1. socket \in Seq({"run", "systemd", "private"}) /\ Len(socket) = 3
        /\ socket[1] = "run" /\ socket[2] = "systemd" /\ socket[3] = "private"
    BY <1>4
  <2>2. parts \in {<<>>, <<"run">>, <<"run", "systemd">>, <<"run", "systemd", "private">>}
    BY <2>1, PrefixOfThree
  <2> QED
    BY <2>2 DEF Sockets
<1> QED
  BY <1>1, <1>2, <1>3, <1>4 DEF Sockets

(* systemd's socket holds the marker made of two names.                    *)
LEMMA PrivateInside ==
  ASSUME NEW parts, parts = <<"run", "systemd", "private">>
  PROVE  2 \in 1 .. Len(parts) - 1 /\ SubSeq(parts, 2, 3) = SystemdPrivate
<1>1. parts \in Seq({"run", "systemd", "private"}) /\ Len(parts) = 3
      /\ parts[2] = "systemd" /\ parts[3] = "private"
  OBVIOUS
<1>2. /\ SubSeq(parts, 2, 3) \in Seq({"run", "systemd", "private"})
      /\ Len(SubSeq(parts, 2, 3)) = 2
      /\ SubSeq(parts, 2, 3)[1] = parts[2] /\ SubSeq(parts, 2, 3)[2] = parts[3]
  BY <1>1
<1> DEFINE q == SubSeq(parts, 2, 3)
<1>3. /\ q \in Seq({"run", "systemd", "private"}) /\ Len(q) = 2
      /\ q[1] = "systemd" /\ q[2] = "private"
  BY <1>1, <1>2
<1> HIDE DEF q
<1>4. q = <<"systemd", "private">>
  BY <1>3
<1> QED
  BY <1>1, <1>4 DEF q, SystemdPrivate

(* CL-0001 owns every mount of a path to a socket that is in normal form.  *)
LEMMA ClaimedOnTheWay ==
  ASSUME NEW path, IsPath(path), path.abs, path = Normalize(path),
         NEW socket \in Sockets, IsPrefix(path.parts, socket)
  PROVE  ClaimsHostPath(path)
<1> DEFINE parts == path.parts
<1>0. parts \in Seq(STRING) /\ path = Abs(parts)
  BY DEF IsPath, Abs
<1>1. parts \in {<<>>, <<"run">>, <<"var">>, <<"var", "run">>, <<"run", "containerd">>,
                  <<"run", "systemd">>} \cup Sockets
  BY <1>0, LeadsToSocket
<1>2. CASE parts = <<>>
  BY <1>0, <1>2 DEF ClaimsHostPath, HoldsSocket, Root
<1>3. CASE parts \in SocketDirs
  BY <1>0, <1>3 DEF ClaimsHostPath, HoldsSocket, At
<1>4. CASE parts = <<"var">>
  <2>1. IsStrictPrefix(<<"var">>, <<"var", "run">>)
    BY DEF IsStrictPrefix, IsPrefix
  <2> QED
    BY <1>0, <1>4, <2>1 DEF ClaimsHostPath, HoldsSocket, SocketDirs
<1>5. CASE parts \in Sockets
  <2>1. CASE parts = <<"run", "systemd", "private">>
    <3>1. 2 \in 1 .. Len(parts) - 1 /\ SubSeq(parts, 2, 3) = SystemdPrivate /\ 3 = 2 + 1
      BY <2>1, PrivateInside
    <3> QED
      BY <3>1 DEF ClaimsHostPath, NamesSocket, NamesSystemdPrivate
  <2>2. CASE parts # <<"run", "systemd", "private">>
    BY <1>5, <2>2 DEF Sockets, ClaimsHostPath, NamesSocket, SocketNames
  <2> QED
    BY <2>1, <2>2
<1> QED
  BY <1>1, <1>2, <1>3, <1>4, <1>5 DEF SocketDirs

(***************************************************************************)
(* A mount of any directory above a control socket, or of the socket, is   *)
(* critical in either mode, whatever else the service is given (CL-0001's  *)
(* directories, their ancestors and its markers together).                 *)
(***************************************************************************)
THEOREM SocketsAlwaysCritical == Spec => []SocketsAreCritical
<1>1. TypeOK /\ PathsInv => SocketsAreCritical
  <2> SUFFICES ASSUME PathsInv, NEW m \in Mounts, NEW socket \in Sockets,
                      m.path.abs, m.path = Normalize(m.path), IsPrefix(m.path.parts, socket)
               PROVE  MountRules(m.path, m.readOnly) \cap Critical # {}
    BY DEF SocketsAreCritical
  <2>1. ClaimsHostPath(m.path)
    BY MountsArePaths, ClaimedOnTheWay
  <2>2. "CL-0001" \in MountRules(m.path, m.readOnly)
    BY <2>1 DEF MountRules, SocketMount
  <2> QED
    BY <2>2 DEF Critical
<1> QED
  BY <1>1, EntriesKept, PTL

-----------------------------------------------------------------------------
(* Induction and recursion on the naturals, with sets and functions in     *)
(* place of the library's operator parameters.                             *)
LEMMA InductionOnNat ==
  ASSUME NEW T, 0 \in T, \A n \in Nat : n \in T => n + 1 \in T
  PROVE  Nat \subseteq T
<1> SUFFICES ASSUME Nat \ T # {}
             PROVE  FALSE
  OBVIOUS
<1> DEFINE R == OpToRel(<, Nat)
<1>1. IsWellFoundedOn(R, Nat)
  BY NatLessThanWellFounded
<1>2. \A x, y \in Nat : x < y => <<x, y>> \in R
  BY DEF OpToRel
<1> HIDE DEF R
<1>3. PICK x \in Nat \ T : \A y \in Nat \ T : ~(<<y, x>> \in R)
  BY <1>1, WFMin
<1>4. x # 0 /\ x - 1 \in Nat
  BY <1>3
<1>5. x - 1 < x /\ (x - 1) + 1 = x
  BY <1>3
<1>6. <<x - 1, x>> \in R
  BY <1>2, <1>3, <1>4, <1>5
<1>7. x - 1 \in T
  BY <1>3, <1>4, <1>6
<1> QED
  BY <1>3, <1>4, <1>5, <1>7

(* What starts from c and goes on by steps stays in S.                     *)
Steps(step, S) == step \in [Nat \X S -> S]

Unfolds(f, S, c, step) ==
  /\ f \in [Nat -> S]
  /\ f[0] = c
  /\ \A n \in Nat : f[n + 1] = step[<<n, f[n]>>]

LEMMA RecursionOnNat ==
  ASSUME NEW S, NEW c \in S, NEW step, Steps(step, S)
  PROVE  \E f : Unfolds(f, S, c, step)
<1>0. step \in [Nat \X S -> S]
  BY DEF Steps
<1> DEFINE Upto(f, n) == /\ f \in [0 .. n -> S] /\ f[0] = c
                         /\ \A i \in 0 .. n : i + 1 <= n => f[i + 1] = step[<<i, f[i]>>]
<1>1. \A n \in Nat : \E f : Upto(f, n)
  <2> DEFINE T == {n \in Nat : \E f : Upto(f, n)}
  <2>1. 0 \in T
    <3>1. Upto([i \in 0 .. 0 |-> c], 0)
      OBVIOUS
    <3> QED
      BY <3>1
  <2>2. ASSUME NEW n \in Nat, n \in T
        PROVE  n + 1 \in T
    <3>1. PICK f : Upto(f, n)
      BY <2>2
    <3> DEFINE g == [i \in 0 .. n + 1 |-> IF i <= n THEN f[i] ELSE step[<<n, f[n]>>]]
    <3>2. f[n] \in S /\ step[<<n, f[n]>>] \in S
      BY <1>0, <3>1
    <3>3. g \in [0 .. n + 1 -> S]
      BY <3>1, <3>2
    <3>4. g[0] = c
      BY <3>1
    <3>5. ASSUME NEW i \in 0 .. n + 1, i + 1 <= n + 1
          PROVE  g[i + 1] = step[<<i, g[i]>>]
      <4>1. CASE i + 1 <= n
        BY <3>1, <4>1
      <4>2. CASE i = n
        BY <4>2
      <4> QED
        BY <3>5, <4>1, <4>2
    <3>6. Upto(g, n + 1)
      BY <3>3, <3>4, <3>5
    <3> HIDE DEF Upto, g
    <3>7. \E u : Upto(u, n + 1)
      BY <3>6
    <3> QED
      BY <3>7
  <2> HIDE DEF T
  <2>3. Nat \subseteq T
    BY <2>1, <2>2, InductionOnNat
  <2> QED
    BY <2>3 DEF T
<1>2. ASSUME NEW n \in Nat, NEW m \in Nat, NEW f, NEW g, Upto(f, n), Upto(g, m)
      PROVE  \A i \in Nat : i <= n /\ i <= m => f[i] = g[i]
  <2> DEFINE T == {i \in Nat : i <= n /\ i <= m => f[i] = g[i]}
  <2>1. 0 \in T
    BY <1>2
  <2>2. ASSUME NEW i \in Nat, i \in T
        PROVE  i + 1 \in T
    <3> SUFFICES ASSUME i + 1 <= n, i + 1 <= m
                 PROVE  f[i + 1] = g[i + 1]
      OBVIOUS
    <3>1. f[i] = g[i] /\ i \in 0 .. n /\ i \in 0 .. m
      BY <2>2
    <3>2. f[i + 1] = step[<<i, f[i]>>] /\ g[i + 1] = step[<<i, g[i]>>]
      BY <1>2, <3>1
    <3> QED
      BY <3>1, <3>2
  <2> HIDE DEF T
  <2>3. Nat \subseteq T
    BY <2>1, <2>2, InductionOnNat
  <2> QED
    BY <2>3 DEF T
<1> DEFINE a == [n \in Nat |-> CHOOSE f : Upto(f, n)]
           h == [n \in Nat |-> a[n][n]]
<1>3. \A n \in Nat : Upto(a[n], n)
  BY <1>1, Zenon
<1> HIDE DEF a
<1>4. h \in [Nat -> S] /\ h[0] = c
  BY <1>3
<1>5. ASSUME NEW n \in Nat
      PROVE  h[n + 1] = step[<<n, h[n]>>]
  <2>1. Upto(a[n], n) /\ Upto(a[n + 1], n + 1)
    BY <1>3
  <2>2. a[n + 1][n + 1] = step[<<n, a[n + 1][n]>>]
    BY <2>1
  <2>3. n <= n /\ n <= n + 1 /\ n + 1 \in Nat
    OBVIOUS
  <2> HIDE DEF Upto
  <2>4. a[n + 1][n] = a[n][n]
    BY <1>2, <2>1, <2>3
  <2> QED
    BY <2>2, <2>4
<1> QED
  BY <1>4, <1>5 DEF Unfolds

LEMMA GreatestOf ==
  ASSUME NEW n \in Nat, NEW s \in SUBSET (1 .. n), s # {}
  PROVE  Max(s) \in s /\ \A y \in s : Max(s) >= y
<1> DEFINE Has(t) == \E x \in t : \A y \in t : x >= y
           T == {m \in Nat : \A t \in SUBSET (1 .. m) : t # {} => Has(t)}
<1>1. 0 \in T
  <2>1. \A t \in SUBSET (1 .. 0) : t = {}
    OBVIOUS
  <2> HIDE DEF Has
  <2> QED
    BY <2>1
<1>2. ASSUME NEW m \in Nat, m \in T
      PROVE  m + 1 \in T
  <2> SUFFICES ASSUME NEW t \in SUBSET (1 .. m + 1), t # {}
               PROVE  Has(t)
    OBVIOUS
  <2>1. CASE m + 1 \in t
    BY <2>1
  <2>2. CASE m + 1 \notin t
    <3>1. t \in SUBSET (1 .. m)
      BY <2>2
    <3> QED
      BY <1>2, <3>1
  <2> QED
    BY <2>1, <2>2
<1> HIDE DEF T
<1>3. Nat \subseteq T
  BY <1>1, <1>2, InductionOnNat
<1>4. Has(s)
  BY <1>3 DEF T
<1> QED
  BY <1>4, Zenon DEF Max

LEMMA GreatestUpTo ==
  ASSUME NEW n \in Nat, NEW k \in Nat, k < n
  PROVE  /\ 1 .. k + 1 \in SUBSET (1 .. n) /\ 1 .. k + 1 # {} /\ Max(1 .. k + 1) = k + 1
         /\ (1 .. k + 1) \ {k + 1} = 1 .. k
<1> DEFINE s == 1 .. k + 1
<1>1. s \in SUBSET (1 .. n) /\ k + 1 \in s
  OBVIOUS
<1>2. Max(s) \in s /\ \A y \in s : Max(s) >= y
  BY <1>1, GreatestOf
<1>3. Max(s) = k + 1
  BY <1>1, <1>2
<1>4. (s \ {k + 1}) = (1 .. k)
  OBVIOUS
<1> QED
  BY <1>1, <1>3, <1>4

(* A fold over the positions of a sequence, from the last to the first: a  *)
(* function of the positions still to be folded.                           *)
FoldsBack(F, n, V, c, step) ==
  /\ F \in [SUBSET (1 .. n) -> V]
  /\ F[{}] = c
  /\ \A s \in SUBSET (1 .. n) : s # {} => F[s] = step[<<Max(s), F[s \ {Max(s)}]>>]

LEMMA RecursionOnPositions ==
  ASSUME NEW n \in Nat, NEW V, NEW c \in V, NEW step, Steps(step, V)
  PROVE  \E F : FoldsBack(F, n, V, c, step)
<1> DEFINE stepIn(s) == [q \in Nat \X V |-> IF q[1] + 1 \in s
                                            THEN step[<<q[1] + 1, q[2]>>] ELSE q[2]]
           h(s) == CHOOSE g : Unfolds(g, V, c, stepIn(s))
           F == [s \in SUBSET (1 .. n) |-> h(s)[n]]
<1>1. ASSUME NEW s
      PROVE  /\ h(s) \in [Nat -> V] /\ h(s)[0] = c
             /\ \A k \in Nat : h(s)[k + 1] = IF k + 1 \in s THEN step[<<k + 1, h(s)[k]>>]
                                             ELSE h(s)[k]
  <2>1. Steps(stepIn(s), V)
    BY DEF Steps
  <2>2. Unfolds(h(s), V, c, stepIn(s))
    <3> HIDE DEF stepIn
    <3>1. \E g : Unfolds(g, V, c, stepIn(s))
      BY <2>1, RecursionOnNat
    <3> QED
      BY <3>1, Zenon
  <2> HIDE DEF h
  <2> QED
    BY <2>2 DEF Unfolds
<1> HIDE DEF h, stepIn
<1>2. ASSUME NEW s, NEW t, NEW m \in Nat, \A i \in 1 .. m : i \in s <=> i \in t
      PROVE  \A k \in Nat : k <= m => h(s)[k] = h(t)[k]
  <2> DEFINE T == {k \in Nat : k <= m => h(s)[k] = h(t)[k]}
  <2>1. 0 \in T
    BY <1>1
  <2>2. ASSUME NEW k \in Nat, k \in T
        PROVE  k + 1 \in T
    <3> SUFFICES ASSUME k + 1 <= m
                 PROVE  h(s)[k + 1] = h(t)[k + 1]
      OBVIOUS
    <3>1. h(s)[k] = h(t)[k] /\ (k + 1 \in s <=> k + 1 \in t)
      BY <1>2, <2>2
    <3>2. /\ h(s)[k + 1] = IF k + 1 \in s THEN step[<<k + 1, h(s)[k]>>] ELSE h(s)[k]
          /\ h(t)[k + 1] = IF k + 1 \in t THEN step[<<k + 1, h(t)[k]>>] ELSE h(t)[k]
      BY <1>1
    <3> QED
      BY <3>1, <3>2
  <2> HIDE DEF T
  <2>3. Nat \subseteq T
    BY <2>1, <2>2, InductionOnNat
  <2> QED
    BY <2>3 DEF T
<1>3. ASSUME NEW s, NEW m \in Nat, \A i \in s : i <= m
      PROVE  \A k \in Nat : m <= k => h(s)[k] = h(s)[m]
  <2> DEFINE T == {k \in Nat : m <= k => h(s)[k] = h(s)[m]}
  <2>1. 0 \in T
    OBVIOUS
  <2>2. ASSUME NEW k \in Nat, k \in T
        PROVE  k + 1 \in T
    <3> SUFFICES ASSUME m <= k + 1, m # k + 1
                 PROVE  h(s)[k + 1] = h(s)[m]
      OBVIOUS
    <3>1. m <= k /\ k + 1 \notin s
      BY <1>3
    <3> QED
      BY <1>1, <2>2, <3>1
  <2> HIDE DEF T
  <2>3. Nat \subseteq T
    BY <2>1, <2>2, InductionOnNat
  <2> QED
    BY <2>3 DEF T
<1>4. F \in [SUBSET (1 .. n) -> V]
  BY <1>1
<1>5. F[{}] = c
  <2>1. \A i \in {} : i <= 0
    OBVIOUS
  <2>2. h({})[n] = h({})[0]
    BY <1>3, <2>1
  <2> QED
    BY <1>1, <2>2
<1>6. ASSUME NEW s \in SUBSET (1 .. n), s # {}
      PROVE  F[s] = step[<<Max(s), F[s \ {Max(s)}]>>]
  <2> DEFINE x == Max(s)
             t == s \ {x}
  <2>1. x \in s /\ \A y \in s : x >= y
    BY <1>6, GreatestOf
  <2> HIDE DEF x
  <2>2. x \in 1 .. n /\ x - 1 \in Nat /\ (x - 1) + 1 = x /\ x - 1 <= n /\ x <= n
    BY <2>1
  <2>3. h(s)[n] = h(s)[x]
    <3>1. x \in Nat /\ \A i \in s : i <= x
      BY <2>1, <2>2
    <3> QED
      BY <1>3, <2>2, <3>1
  <2>4. h(s)[x] = step[<<x, h(s)[x - 1]>>]
    BY <1>1, <2>1, <2>2
  <2>5. h(s)[x - 1] = h(t)[x - 1]
    <3>1. \A i \in 1 .. x - 1 : i \in s <=> i \in t
      BY <2>2
    <3>2. x - 1 <= x - 1
      BY <2>2
    <3> HIDE DEF t
    <3> QED
      BY <1>2, <2>2, <3>1, <3>2
  <2>6. h(t)[n] = h(t)[x - 1]
    <3>1. \A i \in t : i <= x - 1
      BY <2>1, <2>2
    <3> HIDE DEF t
    <3> QED
      BY <1>3, <2>2, <3>1
  <2>7. t \in SUBSET (1 .. n)
    OBVIOUS
  <2>8. F[s] = step[<<x, F[t]>>]
    BY <2>3, <2>4, <2>5, <2>6, <2>7
  <2> QED
    BY <2>8 DEF x
<1> HIDE DEF F
<1>7. FoldsBack(F, n, V, c, step)
  BY <1>4, <1>5, <1>6 DEF FoldsBack
<1> QED
  BY <1>7

-----------------------------------------------------------------------------
(* No spelling of a path hides a mount.                                    *)

LEMMA WalkTyped ==
  ASSUME NEW S, NEW done \in Seq(S), NEW part \in S, NEW abs
  PROVE  Walk(abs, done, part) \in Seq(S)
<1>1. done # <<>> => Front(done) \in Seq(S)
  BY DEF Front
<1>2. Append(done, part) \in Seq(S)
  OBVIOUS
<1>3. \/ Walk(abs, done, part) \in {done, Append(done, part)}
      \/ done # <<>> /\ Walk(abs, done, part) = Front(done)
  BY Zenon DEF Walk
<1> QED
  BY <1>1, <1>2, <1>3, Zenon

(* A walk over the names of a path, a name at a time.                      *)
WalkedBy(g, S, abs, parts) ==
  /\ g[0] = <<>>
  /\ \A k \in Nat : k < Len(parts) => g[k + 1] = Walk(abs, g[k], parts[k + 1])
  /\ \A k \in Nat : k <= Len(parts) => g[k] \in Seq(S)
  /\ Walked(abs, parts) = g[Len(parts)]

LEMMA AWalk ==
  ASSUME NEW S, NEW parts \in Seq(S), NEW abs
  PROVE  \E g : WalkedBy(g, S, abs, parts)
<1> DEFINE n == Len(parts)
           D == Seq(S)
           step == [q \in Nat \X D |-> IF q[1] \in 1 .. n THEN Walk(abs, q[2], parts[q[1]])
                                                          ELSE q[2]]
           body(f) == [s \in SUBSET (1 .. n) |->
                         IF s = {} THEN << >>
                         ELSE LET x == Max(s) IN Walk(abs, f[s \ {x}], parts[x])]
           iter == CHOOSE f : f = body(f)
<1>1. n \in Nat /\ DOMAIN parts = 1 .. n /\ << >> \in D /\ \A i \in 1 .. n : parts[i] \in S
  OBVIOUS
<1>2. Steps(step, D)
  <2>1. \A q \in Nat \X D : step[q] \in D
    BY <1>1, WalkTyped
  <2> QED
    BY <2>1 DEF Steps
<1>3. PICK F : FoldsBack(F, n, D, << >>, step)
  <2> HIDE DEF step, D, n
  <2> QED
    BY <1>1, <1>2, RecursionOnPositions, Zenon
<1>4. F = body(F)
  <2>1. ASSUME NEW s \in SUBSET (1 .. n), s # {}
        PROVE  F[s] = Walk(abs, F[s \ {Max(s)}], parts[Max(s)])
    <3>1. Max(s) \in 1 .. n /\ s \ {Max(s)} \in SUBSET (1 .. n)
      BY <1>1, <2>1, GreatestOf
    <3>2. F[s] = step[<<Max(s), F[s \ {Max(s)}]>>] /\ F[s \ {Max(s)}] \in D
      BY <1>3, <2>1, <3>1 DEF FoldsBack
    <3>3. Max(s) \in Nat
      BY <3>1
    <3> QED
      BY <3>1, <3>2, <3>3
  <2> QED
    BY <1>3, <2>1 DEF FoldsBack
<1>5. iter = body(iter)
  <2> HIDE DEF body
  <2> QED
    BY <1>4, Zenon
<1>6. Walked(abs, parts) = iter[1 .. n]
  BY <1>1, Zenon DEF Walked, FoldLeft, MapThenFoldSet
<1> HIDE DEF iter
<1> DEFINE g == [k \in Nat |-> iter[1 .. k]]
<1>7. g[0] = << >>
  <2>1. 1 .. 0 = {} /\ 1 .. 0 \in SUBSET (1 .. n)
    BY <1>1
  <2>2. iter[1 .. 0] = << >>
    BY <1>5, <2>1
  <2> QED
    BY <2>2
<1>8. ASSUME NEW k \in Nat, k < n
      PROVE  g[k + 1] = Walk(abs, g[k], parts[k + 1])
  <2> DEFINE s == 1 .. k + 1
  <2>1. /\ s \in SUBSET (1 .. n) /\ s # {} /\ Max(s) = k + 1
        /\ (s \ {k + 1}) = (1 .. k) /\ k + 1 \in Nat
    BY <1>1, <1>8, GreatestUpTo
  <2> HIDE DEF s
  <2>2. iter[s] = Walk(abs, iter[s \ {Max(s)}], parts[Max(s)])
    BY <1>5, <2>1
  <2> QED
    BY <2>1, <2>2 DEF s
<1>9. Walked(abs, parts) = g[n]
  BY <1>1, <1>6
<1> HIDE DEF g
<1>10. \A k \in Nat : k <= n => g[k] \in Seq(S)
  <2> DEFINE T == {k \in Nat : k <= n => g[k] \in Seq(S)}
  <2>1. 0 \in T
    <3>1. <<>> \in Seq(S)
      OBVIOUS
    <3> QED
      BY <1>7, <3>1
  <2>2. ASSUME NEW k \in Nat, k \in T
        PROVE  k + 1 \in T
    <3> SUFFICES ASSUME k + 1 <= n
                 PROVE  g[k + 1] \in Seq(S)
      OBVIOUS
    <3>1. k < n /\ g[k] \in Seq(S) /\ parts[k + 1] \in S
      BY <1>1, <2>2
    <3> QED
      BY <1>8, <3>1, WalkTyped
  <2> HIDE DEF T
  <2>3. Nat \subseteq T
    BY <2>1, <2>2, InductionOnNat
  <2> QED
    BY <2>3 DEF T
<1>11. WalkedBy(g, S, abs, parts)
  BY <1>1, <1>7, <1>8, <1>9, <1>10 DEF WalkedBy
<1> QED
  BY <1>11

(* The form a path has been walked to: no empty name, no ".", and ".."     *)
(* only where there is nothing to go back to.                              *)
Steady(abs, s) ==
  \A j \in DOMAIN s : /\ s[j] \notin {"", "."}
                      /\ s[j] = ".." => ~abs /\ (j = 1 \/ s[j - 1] = "..")

LEMMA WalkKeepsSteady ==
  ASSUME NEW S, NEW done \in Seq(S), NEW part \in S, NEW abs, Steady(abs, done)
  PROVE  Steady(abs, Walk(abs, done, part))
<1> DEFINE n == Len(done)
<1>1. n \in Nat /\ DOMAIN done = 1 .. n
  OBVIOUS
<1>2. ASSUME part \notin {"", "."},
             part = ".." => ~abs /\ (done = <<>> \/ done[n] = "..")
      PROVE  Steady(abs, Append(done, part))
  <2> DEFINE s == Append(done, part)
  <2>1. /\ DOMAIN s = 1 .. n + 1
        /\ \A j \in 1 .. n : s[j] = done[j]
        /\ s[n + 1] = part
    BY <1>1
  <2> SUFFICES ASSUME NEW j \in DOMAIN s
               PROVE  /\ s[j] \notin {"", "."}
                      /\ s[j] = ".." => ~abs /\ (j = 1 \/ s[j - 1] = "..")
    BY DEF Steady
  <2> HIDE DEF s
  <2>2. CASE j \in 1 .. n
    <3>1. s[j] = done[j] /\ (j = 1 \/ s[j - 1] = done[j - 1])
      BY <1>1, <2>1, <2>2
    <3> QED
      BY <1>1, <2>2, <3>1 DEF Steady
  <2>3. CASE j = n + 1
    <3>1. done = <<>> => n = 0
      OBVIOUS
    <3>2. n = 0 \/ (n \in 1 .. n /\ s[n] = done[n])
      BY <1>1, <2>1
    <3>3. s[j] = part /\ (j = 1 <=> n = 0) /\ j - 1 = n
      BY <1>1, <2>1, <2>3
    <3> HIDE DEF n
    <3>4. CASE n = 0
      BY <1>2, <3>3, <3>4
    <3>5. CASE s[n] = done[n] /\ done # <<>>
      BY <1>2, <3>3, <3>5
    <3> QED
      BY <3>1, <3>2, <3>4, <3>5
  <2>4. j \in 1 .. n \/ j = n + 1
    BY <1>1, <2>1
  <2> HIDE DEF n
  <2> QED
    BY <2>2, <2>3, <2>4
<1>3. ASSUME done # <<>>
      PROVE  Steady(abs, Front(done))
  <2> DEFINE s == Front(done)
  <2>1. /\ DOMAIN s = 1 .. n - 1
        /\ \A j \in 1 .. n - 1 : s[j] = done[j]
    BY <1>1, <1>3 DEF Front
  <2> HIDE DEF s
  <2>2. \A j \in 1 .. n - 1 : j \in 1 .. n /\ (j = 1 \/ j - 1 \in 1 .. n - 1)
    BY <1>1
  <2>3. Steady(abs, s)
    BY <1>1, <2>1, <2>2 DEF Steady
  <2> QED
    BY <2>3 DEF s
<1>4. CASE part \in {"", "."}
  BY <1>4 DEF Walk
<1>5. CASE part \notin {"", ".", ".."}
  BY <1>2, <1>5 DEF Walk
<1>6. CASE part = ".." /\ done # <<>> /\ Last(done) # ".."
  BY <1>3, <1>6 DEF Walk
<1>7. CASE part = ".." /\ done = <<>> /\ abs
  BY <1>7 DEF Walk
<1>8. CASE part = ".." /\ done = <<>> /\ ~abs
  BY <1>2, <1>8 DEF Walk
<1>9. CASE part = ".." /\ done # <<>> /\ Last(done) = ".."
  <2>1. n \in DOMAIN done /\ done[n] = ".."
    BY <1>1, <1>9 DEF Last
  <2>2. ~abs
    BY <2>1 DEF Steady
  <2>3. Walk(abs, done, part) = Append(done, part)
    BY <1>9 DEF Walk
  <2> QED
    BY <1>2, <1>9, <2>1, <2>2, <2>3
<1> QED
  BY <1>4, <1>5, <1>6, <1>7, <1>8, <1>9

(* A path is walked to that form, and its names are names of the path.     *)
LEMMA WalkedIsSteady ==
  ASSUME NEW S, NEW parts \in Seq(S), NEW abs
  PROVE  Walked(abs, parts) \in Seq(S) /\ Steady(abs, Walked(abs, parts))
<1>1. PICK g : WalkedBy(g, S, abs, parts)
  BY AWalk
<1> DEFINE T == {k \in Nat : k <= Len(parts) => Steady(abs, g[k])}
<1>2. 0 \in T
  <2>1. DOMAIN <<>> = {}
    OBVIOUS
  <2>2. Steady(abs, <<>>)
    BY <2>1, Zenon DEF Steady
  <2>3. g[0] = <<>>
    BY <1>1 DEF WalkedBy
  <2> QED
    BY <2>2, <2>3
<1>3. ASSUME NEW k \in Nat, k \in T
      PROVE  k + 1 \in T
  <2> SUFFICES ASSUME k + 1 <= Len(parts)
               PROVE  Steady(abs, g[k + 1])
    OBVIOUS
  <2>1. Steady(abs, g[k]) /\ k < Len(parts) /\ parts[k + 1] \in S
    BY <1>3
  <2>2. g[k] \in Seq(S) /\ g[k + 1] = Walk(abs, g[k], parts[k + 1])
    BY <1>1, <2>1 DEF WalkedBy
  <2> QED
    BY <2>1, <2>2, WalkKeepsSteady
<1> HIDE DEF T
<1>4. Nat \subseteq T
  BY <1>2, <1>3, InductionOnNat
<1> QED
  BY <1>1, <1>4 DEF T, WalkedBy

(* There it stays.                                                         *)
LEMMA SteadyStays ==
  ASSUME NEW S, NEW parts \in Seq(S), NEW abs, Steady(abs, parts)
  PROVE  Walked(abs, parts) = parts
<1> DEFINE n == Len(parts)
<1>1. PICK g : WalkedBy(g, S, abs, parts)
  BY AWalk
<1> DEFINE Along(k) == Len(g[k]) = k /\ \A j \in 1 .. k : g[k][j] = parts[j]
           T == {k \in Nat : k <= n => Along(k)}
<1>2. 0 \in T
  BY <1>1 DEF WalkedBy
<1>3. ASSUME NEW k \in Nat, k \in T
      PROVE  k + 1 \in T
  <2> SUFFICES ASSUME k + 1 <= n
               PROVE  Along(k + 1)
    OBVIOUS
  <2> DEFINE done == g[k]
             part == parts[k + 1]
  <2>1. Along(k) /\ k < n /\ k + 1 \in DOMAIN parts /\ part \in S
    BY <1>3
  <2>2. done \in Seq(S) /\ g[k + 1] = Walk(abs, done, part)
    BY <1>1, <2>1 DEF WalkedBy
  <2>3. /\ part \notin {"", "."}
        /\ part = ".." => ~abs /\ (k = 0 \/ parts[k] = "..")
    <3>1. (k + 1) - 1 = k /\ (k + 1 = 1 <=> k = 0)
      BY <2>1
    <3>2. /\ parts[k + 1] \notin {"", "."}
          /\ parts[k + 1] = ".." =>
               ~abs /\ (k + 1 = 1 \/ parts[(k + 1) - 1] = "..")
      BY <2>1, Zenon DEF Steady
    <3> QED
      BY <3>1, <3>2
  <2>4. Walk(abs, done, part) = Append(done, part)
    <3>1. done # <<>> => k \in 1 .. k /\ Last(done) = parts[k]
      BY <2>1, <2>2 DEF Last
    <3>2. done = <<>> <=> k = 0
      BY <2>1, <2>2
    <3> HIDE DEF done, part
    <3> QED
      BY <2>3, <3>1, <3>2 DEF Walk
  <2> QED
    BY <2>1, <2>2, <2>4
<1> HIDE DEF T
<1>4. Nat \subseteq T
  BY <1>2, <1>3, InductionOnNat
<1>5. n \in Nat /\ g[n] \in Seq(S) /\ g[n] = Walked(abs, parts)
  BY <1>1 DEF WalkedBy
<1>6. Along(n)
  BY <1>4, <1>5 DEF T
<1> QED
  BY <1>5, <1>6

LEMMA NormalForm ==
  ASSUME NEW path, IsPath(path)
  PROVE  /\ Normalize(Normalize(path)) = Normalize(path)
         /\ Normalize(path).parts \in Seq(Range(path.parts))
<1> DEFINE S == Range(path.parts)
           n == Normalize(path)
<1>1. path.parts \in Seq(S)
  <2>1. path.parts \in Seq(STRING)
    BY DEF IsPath
  <2> QED
    BY <2>1 DEF Range
<1>2. n.abs = path.abs /\ n.parts = Walked(path.abs, path.parts)
  BY DEF IsPath, Normalize
<1>3. n.parts \in Seq(S) /\ Steady(n.abs, n.parts)
  BY <1>1, <1>2, WalkedIsSteady
<1>4. Walked(n.abs, n.parts) = n.parts
  BY <1>3, SteadyStays
<1>5. n = [n EXCEPT !.parts = n.parts]
  BY DEF IsPath, Normalize
<1> HIDE DEF S
<1>6. Normalize(n) = n
  <2> HIDE DEF n
  <2> QED
    BY <1>4, <1>5 DEF Normalize
<1> QED
  BY <1>3, <1>6 DEF S

LEMMA SpelledOrNormal ==
  ASSUME NEW path, IsPath(path), NEW readOnly,
         MountRules(Normalize(path), readOnly) # {},
         MountRules(path, readOnly) = {}
  PROVE  NamesSystemdPrivate(Normalize(path)) /\ ~IsRuntime(Normalize(path))
<1> DEFINE n == Normalize(path)
           of(p) == [at |-> <<"volumes", 1>>, path |-> p, readOnly |-> readOnly]
<1>1. Normalize(n) = n
  BY NormalForm
<1>2. ~IsRuntime(n)
  <2>1. IsRuntime(n) => Cardinality(MountRules(path, readOnly)) = 1
    BY OneRuntimeOwner
  <2> QED
    BY <2>1, FS_EmptySet
<1>3. ~SocketMount(of(path)) /\ ~SensitiveMount(of(path)) /\ ~WritableRootMount(of(path))
  BY DEF MountRules
<1>4. ~RuntimeDescendant(n)
  BY <1>2 DEF RuntimeDescendant, IsRuntime
<1>5. MatchRootEquivalent(n) = MatchRootEquivalent(path)
      /\ MatchPrefix(n, ExposedPaths) = MatchPrefix(path, ExposedPaths)
      /\ (HoldsSocket(n) <=> HoldsSocket(path))
  BY <1>1 DEF MatchRootEquivalent, MatchPrefix, MatchExact, HoldsSocket
<1> HIDE DEF n
<1>6. ~WritableRootMount(of(n))
  BY <1>1, <1>3, <1>5 DEF WritableRootMount, n
<1>7. ~SensitiveMount(of(n))
  BY <1>1, <1>3, <1>4, <1>5 DEF SensitiveMount, n
<1>8. SocketMount(of(n))
  BY <1>6, <1>7 DEF MountRules, n
<1>9. NamesSocket(n) /\ ~NamesSocket(path)
  BY <1>3, <1>5, <1>8 DEF SocketMount, ClaimsHostPath
<1>10. ASSUME NEW i \in DOMAIN n.parts
       PROVE  n.parts[i] \notin SocketNames
  <2>1. n.parts[i] \in Range(path.parts)
    BY NormalForm DEF n
  <2> QED
    BY <1>9, <2>1 DEF NamesSocket, Range
<1> QED
  BY <1>2, <1>9, <1>10 DEF NamesSocket, n

(***************************************************************************)
(* No spelling of a path hides a mount from the rules: what is reported of *)
(* the normal form is reported of the spelling.  Normalising twice changes *)
(* nothing, the names of the normal form are names of the spelling, and    *)
(* what is left of the difference is the one exception stated.             *)
(***************************************************************************)
THEOREM SpellingHidesNothing == Spec => []SpellingNeverHides
<1>1. PathsInv => SpellingNeverHides
  BY MountsArePaths, SpelledOrNormal DEF SpellingNeverHides
<1> QED
  BY <1>1, EntriesKept, PTL

-----------------------------------------------------------------------------
(* What CL-0009 reports is what runs unconfined.                           *)

Assigns(o, key) == o.key = key /\ o.value # "bare"

Assigned(profile, o, key) == IF Assigns(o, key) THEN o.value ELSE profile

Off(profile) == profile = "unconfined"

ValuesIn(O, V) == \A o \in O : o.value \in V

(* The entries read in order, an entry at a time.                          *)
AssignedBy(g, key, opts) ==
  /\ g[0] = NoProfile
  /\ \A k \in Nat : k < Len(opts) => g[k + 1] = Assigned(g[k], opts[k + 1], key)
  /\ Profile(key, opts) = g[Len(opts)]

LEMMA AProfile ==
  ASSUME NEW O, NEW V, NoProfile \in V, ValuesIn(O, V),
         NEW opts \in Seq(O), NEW key
  PROVE  \E g : AssignedBy(g, key, opts)
<1> DEFINE n == Len(opts)
           step == [q \in Nat \X V |-> IF q[1] \in 1 .. n THEN Assigned(q[2], opts[q[1]], key)
                                                          ELSE q[2]]
           body(f) == [s \in SUBSET (1 .. n) |->
                         IF s = {} THEN NoProfile
                         ELSE LET x == Max(s) IN Assigned(f[s \ {x}], opts[x], key)]
           iter == CHOOSE f : f = body(f)
<1>1. n \in Nat /\ DOMAIN opts = 1 .. n /\ \A i \in 1 .. n : opts[i].value \in V
  BY DEF ValuesIn
<1>2. Steps(step, V)
  <2>1. \A q \in Nat \X V : step[q] \in V
    BY <1>1 DEF Assigned
  <2> QED
    BY <2>1 DEF Steps
<1>3. PICK F : FoldsBack(F, n, V, NoProfile, step)
  <2> HIDE DEF step, n
  <2> QED
    BY <1>1, <1>2, RecursionOnPositions, Zenon
<1>4. F = body(F)
  <2>1. ASSUME NEW s \in SUBSET (1 .. n), s # {}
        PROVE  F[s] = Assigned(F[s \ {Max(s)}], opts[Max(s)], key)
    <3>1. Max(s) \in 1 .. n /\ s \ {Max(s)} \in SUBSET (1 .. n)
      BY <1>1, <2>1, GreatestOf
    <3>2. F[s] = step[<<Max(s), F[s \ {Max(s)}]>>] /\ F[s \ {Max(s)}] \in V
      BY <1>3, <2>1, <3>1 DEF FoldsBack
    <3>3. Max(s) \in Nat
      BY <3>1
    <3> QED
      BY <3>1, <3>2, <3>3
  <2> QED
    BY <1>3, <2>1 DEF FoldsBack
<1>5. iter = body(iter)
  <2> HIDE DEF body
  <2> QED
    BY <1>4, Zenon
<1>6. Profile(key, opts) = iter[1 .. n]
  BY <1>1, Zenon DEF Profile, FoldLeft, MapThenFoldSet, Assigned, Assigns
<1> HIDE DEF iter
<1> DEFINE g == [k \in Nat |-> iter[1 .. k]]
<1>7. g[0] = NoProfile
  <2>1. 1 .. 0 = {} /\ 1 .. 0 \in SUBSET (1 .. n)
    BY <1>1
  <2>2. iter[1 .. 0] = NoProfile
    BY <1>5, <2>1
  <2> QED
    BY <2>2
<1>8. ASSUME NEW k \in Nat, k < n
      PROVE  g[k + 1] = Assigned(g[k], opts[k + 1], key)
  <2> DEFINE s == 1 .. k + 1
  <2>1. /\ s \in SUBSET (1 .. n) /\ s # {} /\ Max(s) = k + 1
        /\ (s \ {k + 1}) = (1 .. k) /\ k + 1 \in Nat
    BY <1>1, <1>8, GreatestUpTo
  <2> HIDE DEF s
  <2>2. iter[s] = Assigned(iter[s \ {Max(s)}], opts[Max(s)], key)
    BY <1>5, <2>1
  <2> QED
    BY <2>1, <2>2 DEF s
<1>9. Profile(key, opts) = g[n]
  BY <1>1, <1>6
<1> HIDE DEF g
<1>10. AssignedBy(g, key, opts)
  BY <1>7, <1>8, <1>9 DEF AssignedBy
<1> QED
  BY <1>10

(* Of the first n entries less some positions, the last that assigns the   *)
(* key switches it off.                                                    *)
LastOff(opts, n, positions, key) ==
  \E i \in 1 .. n \ positions :
    /\ Assigns(opts[i], key) /\ Off(opts[i].value)
    /\ \A j \in 1 .. n \ positions : Assigns(opts[j], key) => j <= i

LEMMA LastOffNext ==
  ASSUME NEW opts, NEW n \in Nat, NEW positions, NEW key
  PROVE  LastOff(opts, n + 1, positions, key) <=>
           IF n + 1 \notin positions /\ Assigns(opts[n + 1], key)
           THEN Off(opts[n + 1].value)
           ELSE LastOff(opts, n, positions, key)
<1>1. /\ n + 1 \in 1 .. n + 1
      /\ \A i \in 1 .. n + 1 : i <= n + 1 /\ (i = n + 1 \/ i \in 1 .. n)
      /\ \A i \in 1 .. n : i \in 1 .. n + 1 /\ ~(n + 1 <= i)
  OBVIOUS
<1>2. CASE n + 1 \notin positions /\ Assigns(opts[n + 1], key)
  <2>1. ASSUME NEW i \in 1 .. n + 1,
               \A j \in 1 .. n + 1 \ positions : Assigns(opts[j], key) => j <= i
        PROVE  i = n + 1
    BY <1>1, <1>2, <2>1
  <2>2. LastOff(opts, n + 1, positions, key) => Off(opts[n + 1].value)
    BY <2>1 DEF LastOff
  <2>3. Off(opts[n + 1].value) => LastOff(opts, n + 1, positions, key)
    BY <1>1, <1>2 DEF LastOff
  <2> QED
    BY <1>2, <2>2, <2>3
<1>3. CASE ~(n + 1 \notin positions /\ Assigns(opts[n + 1], key))
  <2>1. LastOff(opts, n + 1, positions, key) <=> LastOff(opts, n, positions, key)
    BY <1>1, <1>3, Zenon DEF LastOff
  <2> QED
    BY <1>3, <2>1
<1> QED
  BY <1>2, <1>3

LEMMA ProfileIsLast ==
  ASSUME NEW O, NEW V, NoProfile \in V, ValuesIn(O, V),
         NEW opts \in Seq(O), NEW key
  PROVE  Off(Profile(key, opts)) <=> LastOff(opts, Len(opts), {}, key)
<1> DEFINE n == Len(opts)
<1>1. PICK g : AssignedBy(g, key, opts)
  BY AProfile
<1> DEFINE T == {k \in Nat : k <= n => (Off(g[k]) <=> LastOff(opts, k, {}, key))}
<1>2. 0 \in T
  <2>1. ~Off(g[0])
    BY <1>1 DEF AssignedBy, Off, NoProfile
  <2>2. ~LastOff(opts, 0, {}, key)
    BY DEF LastOff
  <2> QED
    BY <2>1, <2>2
<1>3. ASSUME NEW k \in Nat, k \in T
      PROVE  k + 1 \in T
  <2> SUFFICES ASSUME k + 1 <= n
               PROVE  Off(g[k + 1]) <=> LastOff(opts, k + 1, {}, key)
    OBVIOUS
  <2>1. Off(g[k]) <=> LastOff(opts, k, {}, key)
    BY <1>3
  <2>2. g[k + 1] = Assigned(g[k], opts[k + 1], key)
    BY <1>1 DEF AssignedBy
  <2>3. LastOff(opts, k + 1, {}, key) <=>
          IF Assigns(opts[k + 1], key) THEN Off(opts[k + 1].value)
                                       ELSE LastOff(opts, k, {}, key)
    <3>1. k + 1 \notin {}
      OBVIOUS
    <3> QED
      BY <3>1, LastOffNext, Zenon
  <2> QED
    BY <2>1, <2>2, <2>3, Zenon DEF Assigned
<1> HIDE DEF T
<1>4. Nat \subseteq T
  BY <1>2, <1>3, InductionOnNat
<1>5. n \in Nat /\ Profile(key, opts) = g[n]
  BY <1>1 DEF AssignedBy
<1> QED
  BY <1>4, <1>5 DEF T

LEMMA ProfileOfAppend ==
  ASSUME NEW O, NEW V, NoProfile \in V, ValuesIn(O, V),
         NEW s \in Seq(O), NEW o \in O, NEW key
  PROVE  Off(Profile(key, Append(s, o))) <=>
           IF Assigns(o, key) THEN Off(o.value) ELSE Off(Profile(key, s))
<1> DEFINE t == Append(s, o)
           n == Len(s)
<1>1. /\ n \in Nat /\ t \in Seq(O) /\ Len(t) = n + 1
      /\ t[n + 1] = o /\ \A i \in 1 .. n : t[i] = s[i]
  OBVIOUS
<1> HIDE DEF t, n
<1>2. LastOff(t, n, {}, key) <=> LastOff(s, n, {}, key)
  BY <1>1, Zenon DEF LastOff
<1>3. LastOff(t, n + 1, {}, key) <=>
        IF Assigns(o, key) THEN Off(o.value) ELSE LastOff(t, n, {}, key)
  <2>1. n + 1 \notin {}
    OBVIOUS
  <2> QED
    BY <1>1, <2>1, LastOffNext, Zenon
<1>4. Off(Profile(key, t)) <=> LastOff(t, n + 1, {}, key)
  BY <1>1, ProfileIsLast
<1>5. Off(Profile(key, s)) <=> LastOff(s, n, {}, key)
  BY ProfileIsLast DEF n
<1> QED
  BY <1>2, <1>3, <1>4, <1>5, Zenon DEF t

(* A sequence less some positions, a position at a time.                   *)
KeptBy(w, S, seq, positions) ==
  /\ w[0] = <<>>
  /\ \A k \in Nat : k < Len(seq) =>
       w[k + 1] = IF k + 1 \in positions THEN w[k] ELSE Append(w[k], seq[k + 1])
  /\ \A k \in Nat : k <= Len(seq) => w[k] \in Seq(S)
  /\ Without(seq, positions) = w[Len(seq)]

LEMMA AKeeping ==
  ASSUME NEW S, NEW seq \in Seq(S), NEW positions
  PROVE  \E w : KeptBy(w, S, seq, positions)
<1> DEFINE n == Len(seq)
           D == Seq(S)
           body(f, k) == IF k = 0 THEN <<>>
                         ELSE IF k \in positions THEN f[k - 1] ELSE Append(f[k - 1], seq[k])
           step == [q \in Nat \X D |->
                      IF q[1] + 1 <= n /\ q[1] + 1 \notin positions
                      THEN Append(q[2], seq[q[1] + 1]) ELSE q[2]]
           kept == CHOOSE f : f = [k \in 0 .. n |-> body(f, k)]
<1>1. n \in Nat /\ <<>> \in D /\ \A d \in D, i \in 1 .. n : Append(d, seq[i]) \in D
  OBVIOUS
<1> HIDE DEF D
<1>2. Steps(step, D)
  BY <1>1 DEF Steps
<1>3. PICK g : Unfolds(g, D, <<>>, step)
  <2> HIDE DEF step
  <2> QED
    BY <1>1, <1>2, RecursionOnNat, Zenon
<1>4. ASSUME NEW k \in Nat, k < n
      PROVE  /\ g[k + 1] = IF k + 1 \in positions THEN g[k] ELSE Append(g[k], seq[k + 1])
             /\ g[k] \in D
  <2>1. g[k + 1] = step[<<k, g[k]>>] /\ g[k] \in D
    BY <1>3 DEF Unfolds
  <2> QED
    BY <1>1, <1>4, <2>1
<1>5. g[0] = <<>> /\ \A k \in Nat : g[k] \in D
  BY <1>3 DEF Unfolds
<1> DEFINE f == [k \in 0 .. n |-> g[k]]
<1>6. f = [k \in 0 .. n |-> body(f, k)]
  <2>1. ASSUME NEW k \in 0 .. n
        PROVE  g[k] = body(f, k)
    <3>1. CASE k = 0
      BY <1>5, <3>1
    <3>2. CASE k # 0
      <4>1. k - 1 \in Nat /\ k - 1 \in 0 .. n /\ k - 1 < n /\ (k - 1) + 1 = k
        BY <1>1, <3>2
      <4>2. g[(k - 1) + 1] = IF (k - 1) + 1 \in positions THEN g[k - 1]
                             ELSE Append(g[k - 1], seq[(k - 1) + 1])
        BY <1>4, <4>1
      <4> QED
        BY <3>2, <4>1, <4>2
    <3> QED
      BY <3>1, <3>2
  <2> QED
    BY <2>1
<1>7. kept = [k \in 0 .. n |-> body(kept, k)]
  <2> HIDE DEF body, f
  <2> QED
    BY <1>6, Zenon
<1>8. Without(seq, positions) = kept[n]
  BY Zenon DEF Without
<1> HIDE DEF kept
<1>9. kept[0] = <<>>
  BY <1>1, <1>7
<1>10. ASSUME NEW k \in Nat, k < n
       PROVE  kept[k + 1] = IF k + 1 \in positions THEN kept[k]
                            ELSE Append(kept[k], seq[k + 1])
  <2>1. k + 1 \in 0 .. n /\ k + 1 # 0 /\ (k + 1) - 1 = k
    BY <1>1, <1>10
  <2> QED
    BY <1>7, <2>1
<1>11. \A k \in Nat : k <= n => kept[k] \in D
  <2> DEFINE T == {k \in Nat : k <= n => kept[k] \in D}
  <2>1. 0 \in T
    BY <1>1, <1>9
  <2>2. ASSUME NEW k \in Nat, k \in T
        PROVE  k + 1 \in T
    <3> SUFFICES ASSUME k + 1 <= n
                 PROVE  kept[k + 1] \in D
      OBVIOUS
    <3>1. k < n /\ kept[k] \in D /\ k + 1 \in 1 .. n
      BY <1>1, <2>2
    <3> QED
      BY <1>1, <1>10, <3>1
  <2> HIDE DEF T
  <2>3. Nat \subseteq T
    BY <2>1, <2>2, InductionOnNat
  <2> QED
    BY <2>3 DEF T
<1>12. KeptBy(kept, S, seq, positions)
  BY <1>8, <1>9, <1>10, <1>11 DEF KeptBy, D
<1> QED
  BY <1>12

(* What is left is among what was there, the positions removed apart, and  *)
(* the profile in force is set by the last entry that was kept.            *)
LEMMA WithoutKeeps ==
  ASSUME NEW S, NEW seq \in Seq(S), NEW positions
  PROVE  /\ Without(seq, positions) \in Seq(S)
         /\ \A m \in DOMAIN Without(seq, positions) :
              \E i \in DOMAIN seq \ positions : Without(seq, positions)[m] = seq[i]
<1> DEFINE n == Len(seq)
<1>1. PICK w : KeptBy(w, S, seq, positions)
  BY AKeeping
<1> DEFINE There(s) == \A m \in DOMAIN s : \E i \in DOMAIN seq \ positions : s[m] = seq[i]
           T == {k \in Nat : k <= n => There(w[k])}
<1>2. 0 \in T
  BY <1>1 DEF KeptBy
<1>3. ASSUME NEW k \in Nat, k \in T
      PROVE  k + 1 \in T
  <2> SUFFICES ASSUME k + 1 <= n
               PROVE  There(w[k + 1])
    OBVIOUS
  <2>0. k < n /\ k <= n /\ k + 1 \in DOMAIN seq /\ There(w[k])
    BY <1>3
  <2>1. /\ There(w[k]) /\ w[k] \in Seq(S) /\ k + 1 \in DOMAIN seq
        /\ w[k + 1] = IF k + 1 \in positions THEN w[k] ELSE Append(w[k], seq[k + 1])
    BY <1>1, <2>0, Zenon DEF KeptBy
  <2>2. CASE k + 1 \in positions
    BY <2>1, <2>2
  <2>3. CASE k + 1 \notin positions
    <3> DEFINE s == w[k + 1]
    <3>1. \A m \in DOMAIN s : \/ m \in DOMAIN w[k] /\ s[m] = w[k][m]
                              \/ s[m] = seq[k + 1]
      BY <2>1, <2>3
    <3> HIDE DEF s
    <3>2. There(s)
      BY <2>1, <2>3, <3>1
    <3> QED
      BY <3>2 DEF s
  <2> QED
    BY <2>2, <2>3
<1> HIDE DEF T
<1>4. Nat \subseteq T
  BY <1>2, <1>3, InductionOnNat
<1>5. n \in Nat /\ w[n] \in Seq(S) /\ Without(seq, positions) = w[n]
  BY <1>1 DEF KeptBy
<1> QED
  BY <1>4, <1>5 DEF T

LEMMA WithoutProfile ==
  ASSUME NEW O, NEW V, NoProfile \in V, ValuesIn(O, V),
         NEW opts \in Seq(O), NEW positions, NEW key
  PROVE  Off(Profile(key, Without(opts, positions))) <=>
           LastOff(opts, Len(opts), positions, key)
<1> DEFINE n == Len(opts)
<1>1. PICK w : KeptBy(w, O, opts, positions)
  BY AKeeping
<1> DEFINE Agrees(k) == Off(Profile(key, w[k])) <=> LastOff(opts, k, positions, key)
           T == {k \in Nat : k <= n => Agrees(k)}
<1>2. 0 \in T
  <2>1. w[0] = <<>>
    BY <1>1 DEF KeptBy
  <2>2. <<>> \in Seq(O) /\ Len(<<>>) = 0
    OBVIOUS
  <2>3. Off(Profile(key, <<>>)) <=> LastOff(<<>>, 0, {}, key)
    BY <2>2, ProfileIsLast
  <2>4. ~LastOff(<<>>, 0, {}, key) /\ ~LastOff(opts, 0, positions, key)
    BY DEF LastOff
  <2> QED
    BY <2>1, <2>3, <2>4
<1>3. ASSUME NEW k \in Nat, k \in T
      PROVE  k + 1 \in T
  <2> SUFFICES ASSUME k + 1 <= n
               PROVE  Agrees(k + 1)
    OBVIOUS
  <2>1. /\ Agrees(k) /\ w[k] \in Seq(O) /\ opts[k + 1] \in O
        /\ w[k + 1] = IF k + 1 \in positions THEN w[k] ELSE Append(w[k], opts[k + 1])
    BY <1>1, <1>3 DEF KeptBy
  <2>2. LastOff(opts, k + 1, positions, key) <=>
          IF k + 1 \notin positions /\ Assigns(opts[k + 1], key)
          THEN Off(opts[k + 1].value) ELSE LastOff(opts, k, positions, key)
    BY LastOffNext
  <2>3. CASE k + 1 \in positions
    BY <2>1, <2>2, <2>3, Zenon
  <2>4. CASE k + 1 \notin positions
    <3>1. Off(Profile(key, Append(w[k], opts[k + 1]))) <=>
            IF Assigns(opts[k + 1], key) THEN Off(opts[k + 1].value)
            ELSE Off(Profile(key, w[k]))
      BY <2>1, ProfileOfAppend
    <3> QED
      BY <2>1, <2>2, <2>4, <3>1, Zenon
  <2> QED
    BY <2>3, <2>4
<1> HIDE DEF T
<1>4. Nat \subseteq T
  BY <1>2, <1>3, InductionOnNat
<1>5. n \in Nat /\ Without(opts, positions) = w[n]
  BY <1>1 DEF KeptBy
<1> QED
  BY <1>4, <1>5 DEF T

(* The last entry that assigns a key, by its position.                     *)
LEMMA LastAssigning ==
  ASSUME NEW O, NEW opts \in Seq(O), NEW key, Assigning(opts, key) # {}
  PROVE  /\ Max(Assigning(opts, key)) \in Assigning(opts, key)
         /\ \A j \in Assigning(opts, key) : j <= Max(Assigning(opts, key))
<1> DEFINE n == Len(opts)
           s == Assigning(opts, key)
<1>1. n \in Nat /\ s \in SUBSET (1 .. n) /\ s # {}
  BY DEF Assigning
<1> HIDE DEF s
<1>2. Max(s) \in s /\ \A y \in s : Max(s) >= y
  BY <1>1, GreatestOf
<1>3. \A y \in s : y \in Nat
  BY <1>1
<1> QED
  BY <1>2, <1>3 DEF s

LEMMA ReportedIsUnconfined ==
  ASSUME NEW opts \in Seq(Options)
  PROVE  LET reported == DisabledProfileIndexes(opts) IN
         /\ reported # {} <=> Unconfined(opts)
         /\ ~Unconfined(Without(opts, reported))
<1> DEFINE n == Len(opts)
           reported == DisabledProfileIndexes(opts)
           left == Without(opts, reported)
           labelOff == [key |-> "label", value |-> "disable"]
<1>1. ValuesIn(Options, STRING \cup {NoProfile})
  BY DEF Options, ValuesIn
<1>2. n \in Nat /\ DOMAIN opts = 1 .. n /\ \A i \in 1 .. n : opts[i] \in Options
  OBVIOUS
<1>3. \A key : Profile(key, opts) = "unconfined" <=> LastOff(opts, n, {}, key)
  <2> DEFINE V == STRING \cup {NoProfile}
  <2>1. NoProfile \in V
    OBVIOUS
  <2> HIDE DEF V
  <2> QED
    BY <1>1, <2>1, ProfileIsLast DEF V, Off
<1>4. \A key : Profile(key, left) = "unconfined" <=> LastOff(opts, n, reported, key)
  <2> DEFINE V == STRING \cup {NoProfile}
  <2>1. NoProfile \in V
    OBVIOUS
  <2> HIDE DEF reported, V
  <2> QED
    BY <1>1, <2>1, WithoutProfile DEF V, Off
<1>5. \A m \in DOMAIN left : \E i \in 1 .. n \ reported : left[m] = opts[i]
  <2> HIDE DEF reported
  <2> QED
    BY <1>2, WithoutKeeps
<1> HIDE DEF left
<1>6. \A i \in 1 .. n : opts[i] = labelOff => i \in reported
  BY <1>2 DEF DisabledProfileIndexes, DisabledSecurityProfiles
<1>7. ASSUME NEW i \in 1 .. n, NEW key \in {"seccomp", "apparmor"},
             opts[i].key = key, opts[i].value = "unconfined"
      PROVE  LET x == Max(Assigning(opts, key)) IN
             /\ x \in 1 .. n /\ Assigns(opts[x], key)
             /\ \A j \in 1 .. n : Assigns(opts[j], key) => j <= x
             /\ i \in reported <=> opts[x].value = "unconfined"
  <2> DEFINE x == Max(Assigning(opts, key))
  <2>1. i \in Assigning(opts, key)
    BY <1>2, <1>7 DEF Assigning
  <2>2. x \in Assigning(opts, key) /\ \A j \in Assigning(opts, key) : j <= x
    BY <2>1, LastAssigning
  <2> HIDE DEF x
  <2>3. \A j : j \in Assigning(opts, key) <=> j \in 1 .. n /\ Assigns(opts[j], key)
    BY <1>2 DEF Assigning, Assigns
  <2>4. x \in 1 .. n /\ Assigns(opts[x], key)
    BY <2>2, <2>3
  <2>5. opts[x] \in DisabledSecurityProfiles <=> opts[x].value = "unconfined"
    <3>1. opts[x] \in Options /\ opts[x].key = key
      BY <1>2, <2>4 DEF Assigns
    <3> QED
      BY <3>1 DEF Options, DisabledSecurityProfiles
  <2>6. opts[i] \in DisabledSecurityProfiles /\ opts[i].key # "label"
    <3>1. opts[i] \in Options
      BY <1>2
    <3> QED
      BY <1>7, <3>1 DEF Options, DisabledSecurityProfiles
  <2>7. i \in reported <=> opts[x] \in DisabledSecurityProfiles
    BY <1>2, <1>7, <2>6 DEF DisabledProfileIndexes, x
  <2> QED
    BY <2>2, <2>3, <2>4, <2>5, <2>7 DEF x
<1>8. ASSUME reported # {}
      PROVE  Unconfined(opts)
  <2>1. PICK i \in 1 .. n : i \in reported
    BY <1>2, <1>8 DEF DisabledProfileIndexes
  <2>2. opts[i] \in DisabledSecurityProfiles
    BY <2>1 DEF DisabledProfileIndexes
  <2>3. CASE opts[i] = labelOff
    BY <1>2, <2>3 DEF Unconfined
  <2>4. ASSUME NEW key \in {"seccomp", "apparmor"}, opts[i] = [key |-> key, value |-> "unconfined"]
        PROVE  Unconfined(opts)
    <3> DEFINE x == Max(Assigning(opts, key))
    <3>1. opts[i].key = key /\ opts[i].value = "unconfined"
      BY <2>4
    <3>2. /\ x \in 1 .. n /\ Assigns(opts[x], key) /\ opts[x].value = "unconfined"
          /\ \A j \in 1 .. n : Assigns(opts[j], key) => j <= x
      BY <1>7, <2>1, <3>1
    <3> HIDE DEF x
    <3>3. LastOff(opts, n, {}, key)
      BY <3>2 DEF LastOff, Off
    <3> QED
      BY <1>3, <3>3 DEF Unconfined
  <2> QED
    BY <2>2, <2>3, <2>4 DEF DisabledSecurityProfiles
<1>9. ASSUME Unconfined(opts)
      PROVE  reported # {}
  <2>1. ASSUME NEW key \in {"seccomp", "apparmor"}, Profile(key, opts) = "unconfined"
        PROVE  reported # {}
    <3> DEFINE x == Max(Assigning(opts, key))
    <3>1. LastOff(opts, n, {}, key)
      BY <1>3, <2>1
    <3>2. PICK i \in 1 .. n : /\ Assigns(opts[i], key) /\ opts[i].value = "unconfined"
                              /\ \A j \in 1 .. n : Assigns(opts[j], key) => j <= i
      BY <3>1 DEF LastOff, Off
    <3>3. /\ x \in 1 .. n /\ x <= i /\ i <= x
          /\ i \in reported <=> opts[x].value = "unconfined"
      BY <1>7, <3>2 DEF Assigns
    <3> HIDE DEF x
    <3>4. x = i
      BY <1>2, <3>3
    <3> QED
      BY <3>2, <3>3, <3>4
  <2>2. ASSUME NEW i \in DOMAIN opts, opts[i] = labelOff
        PROVE  reported # {}
    BY <1>2, <1>6, <2>2
  <2> QED
    BY <1>9, <2>1, <2>2 DEF Unconfined
<1>10. ASSUME Unconfined(left)
       PROVE  FALSE
  <2>1. ASSUME NEW key \in {"seccomp", "apparmor"}, Profile(key, left) = "unconfined"
        PROVE  FALSE
    <3> DEFINE x == Max(Assigning(opts, key))
    <3>1. LastOff(opts, n, reported, key)
      BY <1>4, <2>1
    <3> HIDE DEF reported
    <3>2. PICK i \in 1 .. n \ reported :
                 /\ Assigns(opts[i], key) /\ opts[i].value = "unconfined"
                 /\ \A j \in 1 .. n \ reported : Assigns(opts[j], key) => j <= i
      BY <3>1 DEF LastOff, Off
    <3>3. /\ x \in 1 .. n /\ Assigns(opts[x], key) /\ opts[x].value # "unconfined"
          /\ i <= x
      BY <1>7, <3>2 DEF Assigns
    <3> HIDE DEF x
    <3>4. x \notin reported
      <4>1. opts[x].key = key
        BY <3>3 DEF Assigns
      <4> QED
        BY <3>3, <4>1 DEF reported, DisabledProfileIndexes, DisabledSecurityProfiles
    <3>5. x = i
      BY <1>2, <3>2, <3>3, <3>4
    <3> QED
      BY <3>2, <3>3, <3>5
  <2>2. ASSUME NEW m \in DOMAIN left, left[m] = labelOff
        PROVE  FALSE
    BY <1>5, <1>6, <2>2
  <2> QED
    BY <1>10, <2>1, <2>2 DEF Unconfined
<1> QED
  BY <1>8, <1>9, <1>10 DEF left

(***************************************************************************)
(* CL-0009 reports exactly the services that run unconfined by Docker's    *)
(* reading of security_opt, and removing every entry it reports confines   *)
(* them, however many entries there are and however they cancel out        *)
(* (disabled_profile_indexes).                                             *)
(***************************************************************************)
THEOREM ReportedAlwaysUnconfine == Spec => []ReportedEntriesUnconfine
<1>1. TypeOK /\ OptionsInv => ReportedEntriesUnconfine
  <2> SUFFICES ASSUME TypeOK, OptionsInv
               PROVE  ReportedEntriesUnconfine
    OBVIOUS
  <2> DEFINE opts == Entries(svc, "securityOpt")
  <2>1. opts \in Seq(Options)
    <3>1. svc.securityOpt \in Seq(Range(svc.securityOpt))
      BY DEF TypeOK, IsService, ListSettings
    <3>2. \A i \in DOMAIN svc.securityOpt : svc.securityOpt[i] \in Options
      BY DEF OptionsInv
    <3>3. <<>> \in Seq(Options)
      OBVIOUS
    <3> QED
      BY <3>1, <3>2, <3>3 DEF Entries
  <2> HIDE DEF opts
  <2> QED
    BY <2>1, ReportedIsUnconfined DEF ReportedEntriesUnconfine, opts
<1> QED
  BY <1>1, EntriesKept, PTL

-----------------------------------------------------------------------------
(* The forms of an entry.                                                  *)

(* Two entries of volumes: that mean one mount, and two services that      *)
(* differ in such entries alone.                                           *)
OneMount(a, b) ==
  /\ a.source = b.source
  /\ ReadOnlyEntry(a) = ReadOnlyEntry(b)
  /\ SharedMount(a) = SharedMount(b)
  /\ IsHostPath(a.source)

Respelled(s, t) ==
  /\ \A f \in Settings \ {"volumes"} : t[f] = s[f]
  /\ DOMAIN t.volumes = DOMAIN s.volumes
  /\ \A i \in DOMAIN s.volumes :
       s.volumes[i] = t.volumes[i] \/ OneMount(s.volumes[i], t.volumes[i])

LEMMA RestIsSame ==
  ASSUME NEW s, NEW t, Respelled(s, t)
  PROVE  /\ \A f \in Settings \ {"volumes"} : t[f] = s[f] /\ Entries(t, f) = Entries(s, f)
         /\ t.notLists = s.notLists
  BY DEF Respelled, Entries, Settings, ListSettings

(* They are given the same mounts, each with its mode and its propagation. *)
LEMMA MountsRespelled ==
  ASSUME NEW s, NEW t, Respelled(s, t)
  PROVE  BindMounts(t, Project) = BindMounts(s, Project)
<1> DEFINE a == s.volumes
           b == t.volumes
           direct(v) == {i \in DOMAIN v : \/ IsHostPath(v[i].source)
                                          \/ v[i].form = "long" /\ v[i].type = "bind"}
           backed(v) == {i \in DOMAIN v \ direct(v) : NamedVolume(v[i]) \in BindBacked(Project)}
           files(r, c) == {i \in DOMAIN Entries(r, c) : r[c][i] \in FileBacked(Project, c)}
           ofDirect(v) == {[at |-> <<"volumes", i>>, path |-> v[i].source,
                            readOnly |-> ReadOnlyEntry(v[i])] : i \in direct(v)}
           ofBacked(v) == {LET spec == Project.volumes[NamedVolume(v[i])] IN
                           [at |-> <<"volumes", i>>, path |-> spec.device,
                            readOnly |-> "ro" \in spec.flags \/ ReadOnlyEntry(v[i])]
                             : i \in backed(v)}
           ofFiles(r) == UNION {{[at |-> <<c, i>>, path |-> Project[c][r[c][i]].file,
                                  readOnly |-> TRUE] : i \in files(r, c)}
                                  : c \in {"secrets", "configs"}}
<1>1. /\ DOMAIN b = DOMAIN a
      /\ \A i \in DOMAIN a : a[i] = b[i] \/ OneMount(a[i], b[i])
  BY DEF Respelled
<1>2. /\ direct(b) = direct(a)
      /\ \A i \in direct(a) : a[i].source = b[i].source /\ ReadOnlyEntry(a[i]) = ReadOnlyEntry(b[i])
  <2>1. ASSUME NEW i \in DOMAIN a, a[i] # b[i]
        PROVE  /\ i \in direct(a) /\ i \in direct(b)
               /\ a[i].source = b[i].source /\ ReadOnlyEntry(a[i]) = ReadOnlyEntry(b[i])
    <3>1. OneMount(a[i], b[i])
      BY <1>1, <2>1
    <3>2. IsHostPath(a[i].source) /\ IsHostPath(b[i].source) /\ i \in DOMAIN b
      BY <1>1, <3>1 DEF OneMount
    <3> QED
      BY <3>1, <3>2 DEF OneMount
  <2>2. ASSUME NEW i \in DOMAIN a, a[i] = b[i]
        PROVE  i \in direct(a) <=> i \in direct(b)
    BY <1>1, <2>2
  <2>3. direct(a) \subseteq DOMAIN a /\ direct(b) \subseteq DOMAIN a
    BY <1>1
  <2> HIDE DEF direct
  <2> QED
    BY <2>1, <2>2, <2>3
<1>3. backed(b) = backed(a) /\ \A i \in backed(a) : a[i] = b[i]
  <2>1. \A i \in DOMAIN a \ direct(a) : a[i] = b[i]
    <3> SUFFICES ASSUME NEW i \in DOMAIN a, i \notin direct(a), a[i] # b[i]
                 PROVE  FALSE
      OBVIOUS
    <3>1. OneMount(a[i], b[i])
      BY <1>1
    <3> QED
      BY <3>1 DEF OneMount
  <2> HIDE DEF direct
  <2> QED
    BY <1>1, <1>2, <2>1
<1>4. ofDirect(b) = ofDirect(a)
  BY <1>2, Zenon
<1>5. ofBacked(b) = ofBacked(a)
  BY <1>3, Zenon
<1>6. ofFiles(t) = ofFiles(s)
  <2>1. \A c \in {"secrets", "configs"} : t[c] = s[c] /\ Entries(t, c) = Entries(s, c)
    BY RestIsSame DEF Settings, ListSettings
  <2> QED
    BY <2>1
<1>7. /\ BindMounts(s, Project) = (IF "volumes" \in s.notLists THEN {}
                                   ELSE ofDirect(a) \cup ofBacked(a) \cup ofFiles(s))
      /\ BindMounts(t, Project) = (IF "volumes" \in t.notLists THEN {}
                                   ELSE ofDirect(b) \cup ofBacked(b) \cup ofFiles(t))
  BY DEF BindMounts
<1>8. t.notLists = s.notLists
  BY RestIsSame
<1> HIDE DEF ofDirect, ofBacked, ofFiles
<1> QED
  BY <1>4, <1>5, <1>6, <1>7, <1>8

LEMMA SharingRespelled ==
  ASSUME NEW s, NEW t, Respelled(s, t)
  PROVE  SharedMountRule(t) = SharedMountRule(s)
<1>1. "volumes" \in s.notLists <=> "volumes" \in t.notLists
  BY RestIsSame
<1>2. DOMAIN t.volumes = DOMAIN s.volumes
      /\ \A i \in DOMAIN s.volumes : SharedMount(s.volumes[i]) = SharedMount(t.volumes[i])
  BY DEF Respelled, OneMount
<1> QED
  BY <1>1, <1>2 DEF SharedMountRule, Places, Entries

(* No rule reads the form of an entry.                                     *)
LEMMA FindingsRespelled ==
  ASSUME NEW s, NEW t, Respelled(s, t)
  PROVE  Findings(s, Project) = Findings(t, Project)
<1>1. /\ DockerSocketRule(t, Project) = DockerSocketRule(s, Project)
      /\ SensitiveMountRule(t, Project) = SensitiveMountRule(s, Project)
      /\ WritableHostRootMountRule(t, Project) = WritableHostRootMountRule(s, Project)
  BY MountsRespelled
  DEF DockerSocketRule, SensitiveMountRule, WritableHostRootMountRule, MountsReported
<1>2. /\ \A f \in Settings \ {"volumes"} : t[f] = s[f] /\ Entries(t, f) = Entries(s, f)
      /\ t.notLists = s.notLists
  BY RestIsSame
<1>3. DangerousDevicesRule(t, Project) = DangerousDevicesRule(s, Project)
  <2>1. NodeReachable(t, Project) <=> NodeReachable(s, Project)
    BY <1>2, MountsRespelled DEF NodeReachable, KeepsMknod, CapNames, Settings, ListSettings
  <2> QED
    BY <1>2, <2>1 DEF DangerousDevicesRule, Settings, ListSettings
<1>4. \A members : AddsCap(t, members) = AddsCap(s, members)
  BY <1>2 DEF AddsCap, Settings, ListSettings
<1>5. /\ DangerousCapAddRule(t) = DangerousCapAddRule(s)
      /\ HostExecCapAddRule(t) = HostExecCapAddRule(s)
      /\ LesserCapAddRule(t) = LesserCapAddRule(s)
      /\ HostReachCapAddRule(t) = HostReachCapAddRule(s)
      /\ HostAvailabilityCapAddRule(t) = HostAvailabilityCapAddRule(s)
      /\ HostDisclosureCapAddRule(t) = HostDisclosureCapAddRule(s)
  BY <1>4
  DEF DangerousCapAddRule, HostExecCapAddRule, LesserCapAddRule, HostReachCapAddRule,
      HostAvailabilityCapAddRule, HostDisclosureCapAddRule
<1>6. /\ PrivilegedModeRule(t) = PrivilegedModeRule(s)
      /\ ImageNotPinnedRule(t) = ImageNotPinnedRule(s)
      /\ ReadOnlyFilesystemRule(t) = ReadOnlyFilesystemRule(s)
      /\ HostNetworkRule(t) = HostNetworkRule(s)
      /\ HostNamespaceRule(t) = HostNamespaceRule(s)
      /\ LoggingDisabledRule(t) = LoggingDisabledRule(s)
      /\ ExplicitRootRule(t) = ExplicitRootRule(s)
      /\ ImageNoDigestRule(t) = ImageNoDigestRule(s)
      /\ ApiSocketRule(t) = ApiSocketRule(s)
  BY <1>2
  DEF PrivilegedModeRule, ImageNotPinnedRule, ReadOnlyFilesystemRule, HostNetworkRule,
      HostNamespaceRule, LoggingDisabledRule, ExplicitRootRule, ImageNoDigestRule,
      ApiSocketRule, Settings, ListSettings
<1>7. /\ NoNewPrivilegesRule(t) = NoNewPrivilegesRule(s)
      /\ SecurityProfileRule(t) = SecurityProfileRule(s)
      /\ UnboundPortsRule(t) = UnboundPortsRule(s)
  BY <1>2
  DEF NoNewPrivilegesRule, SecurityProfileRule, UnboundPortsRule, Settings, ListSettings
<1>8. /\ CapDropRule(t) = CapDropRule(s)
      /\ ResourceLimitsRule(t) = ResourceLimitsRule(s)
  <2>1. CapNames(t, "capDrop") = CapNames(s, "capDrop")
    BY <1>2 DEF CapNames, Settings, ListSettings
  <2>2. LacksLimits(t) = LacksLimits(s)
    BY <1>2, Zenon DEF LacksLimits, Settings
  <2> QED
    BY <2>1, <2>2 DEF CapDropRule, KeepsDefaultCaps, ResourceLimitsRule
<1>9. /\ CredentialEnvKeysRule(t) = CredentialEnvKeysRule(s)
      /\ ConnectionStringCredentialsRule(t) = ConnectionStringCredentialsRule(s)
      /\ TmpfsInsecureOptionsRule(t) = TmpfsInsecureOptionsRule(s)
  <2>1. t.environment = s.environment /\ t.command = s.command /\ t.tmpfs = s.tmpfs
    BY <1>2 DEF Settings, ListSettings
  <2> QED
    BY <2>1
    DEF CredentialEnvKeysRule, ConnectionStringCredentialsRule, TmpfsInsecureOptionsRule
<1>10. \A r \in RuleIds : Reports(r, s, Project) = Reports(r, t, Project)
  <2>1. ASSUME NEW r \in Low
        PROVE  Reports(r, s, Project) = Reports(r, t, Project)
    BY <1>6, <1>9, LowRegistry, SharingRespelled DEF Low
  <2>2. ASSUME NEW r \in Medium
        PROVE  Reports(r, s, Project) = Reports(r, t, Project)
    BY <1>5, <1>6, <1>7, <1>8, MediumRegistry DEF Medium
  <2>3. ASSUME NEW r \in High
        PROVE  Reports(r, s, Project) = Reports(r, t, Project)
    BY <1>1, <1>5, <1>6, <1>7, <1>9, HighRegistry DEF High
  <2>4. ASSUME NEW r \in Critical
        PROVE  Reports(r, s, Project) = Reports(r, t, Project)
    BY <1>1, <1>3, <1>5, <1>6, CriticalRegistry DEF Critical
  <2> QED
    BY <2>1, <2>2, <2>3, <2>4 DEF RuleIds
<1> QED
  BY <1>10 DEF Findings

(* An entry and its long form are one mount.                               *)
LEMMA LongIsRespelled ==
  ASSUME TypeOK, NEW i \in DOMAIN svc.volumes,
         svc.volumes[i].form = "short", IsHostPath(svc.volumes[i].source)
  PROVE  Respelled(svc, [svc EXCEPT !.volumes[i] = AsLong(svc.volumes[i])])
<1> DEFINE entry == svc.volumes[i]
           long == [svc EXCEPT !.volumes[i] = AsLong(entry)]
<1>1. AsLong(entry).form = "long" /\ AsLong(entry).source = entry.source
      /\ AsLong(entry).readOnly = (IF "ro" \in entry.modes THEN "true" ELSE "unset")
      /\ AsLong(entry).propagation = (IF entry.modes \cap {"shared", "rshared"} # {}
                                      THEN "shared" ELSE "")
  BY DEF AsLong
<1>2. ReadOnlyEntry(entry) <=> ReadOnlyEntry(AsLong(entry))
  BY <1>1 DEF ReadOnlyEntry, AsBool
<1>3. SharedMount(entry) <=> SharedMount(AsLong(entry))
  BY <1>1 DEF SharedMount
<1>4. OneMount(entry, AsLong(entry))
  <2>1. ASSUME NEW e
        PROVE  ReadOnlyEntry(e) \in BOOLEAN /\ SharedMount(e) \in BOOLEAN
    <3>1. CASE e.form = "short"
      BY <3>1 DEF ReadOnlyEntry, SharedMount
    <3>2. CASE e.form # "short"
      BY <3>2 DEF ReadOnlyEntry, SharedMount, AsBool
    <3> QED
      BY <3>1, <3>2
  <2>3. ReadOnlyEntry(entry) = ReadOnlyEntry(AsLong(entry))
    BY <1>2, <2>1, Zenon
  <2>4. SharedMount(entry) = SharedMount(AsLong(entry))
    BY <1>3, <2>1, Zenon
  <2> QED
    BY <1>1, <2>3, <2>4 DEF OneMount
<1>5. /\ \A f \in Settings \ {"volumes"} : long[f] = svc[f]
      /\ long.volumes = [svc.volumes EXCEPT ![i] = AsLong(entry)]
  BY DEF TypeOK, IsService, Settings, ListSettings
<1> HIDE DEF long
<1>6. /\ DOMAIN long.volumes = DOMAIN svc.volumes
      /\ long.volumes[i] = AsLong(entry)
      /\ \A j \in DOMAIN svc.volumes \ {i} : long.volumes[j] = svc.volumes[j]
  BY <1>5
<1>7. Respelled(svc, long)
  BY <1>4, <1>5, <1>6 DEF Respelled
<1> QED
  BY <1>7 DEF long

(* A short port, in as many fields as it has, is as bound as its long form.*)
LEMMA LongPortIsBound ==
  ASSUME NEW S, "absent" \notin S, "refused" \notin S,
         NEW port, port.form = "short", port.fields \in Seq(S), port.fields # << >>,
         Publishes(port.fields)
  PROVE  UnboundPort(port) <=> UnboundPort(AsLongPort(port))
<1> DEFINE fields == port.fields
           n == Len(fields)
           long == AsLongPort(port)
<1>1. n \in Nat /\ (n = 1 \/ n = 2 \/ n = 3) /\ fields[n] \in PortParts
      /\ (n = 2 => fields[1] \in PortParts \cup {""})
      /\ (n = 3 => fields[2] \in PortParts \cup {""})
  <2>0. n > 1 => fields[n - 1] \in PortParts \cup {""}
    BY DEF Publishes
  <2>1. n \in Nat /\ n # 0
    BY EmptySeq
  <2>2. n <= 3
    BY DEF Publishes
  <2>3. n = 0 \/ n = 1 \/ n = 2 \/ n = 3
    BY <2>1, <2>2, UpToThree
  <2>4. fields[n] \in PortParts
    BY DEF Publishes
  <2>5. /\ (n = 2 => n > 1 /\ n - 1 = 1)
        /\ (n = 3 => n > 1 /\ n - 1 = 2)
    OBVIOUS
  <2> HIDE DEF n, fields
  <2> QED
    BY <2>0, <2>1, <2>3, <2>4, <2>5
<1>2. /\ long.form = "long" /\ long.target = TRUE
      /\ long.hostIp = (IF n < 3 THEN "absent" ELSE fields[1])
  BY DEF AsLongPort
<1>3. UnboundPort(port) <=> UnboundShort(fields)
  BY DEF UnboundPort
<1>4. UnboundPort(long) <=> UnboundLong(long)
  BY <1>2 DEF UnboundPort
<1>5. CASE n = 1
  <2>1. UnboundShort(fields)
    BY <1>1, <1>5 DEF UnboundShort
  <2>2. long.hostIp = "absent"
    BY <1>2, <1>5
  <2>3. UnboundLong(long)
    BY <1>2, <2>2 DEF UnboundLong
  <2> QED
    BY <1>3, <1>4, <2>1, <2>3
<1>6. CASE n = 2
  <2>1. UnboundShort(fields)
    <3>1. n # 1 /\ n - 1 = 1
      BY <1>6
    <3>2. UnboundShort(fields) =
            IF n = 1 THEN fields[1] \in PortParts
            ELSE /\ fields[n] \in PortParts
                 /\ fields[n - 1] \in PortParts \cup {""}
                 /\ n = 2 \/ SubSeq(fields, 1, n - 2) \in WildcardAddresses
      BY DEF UnboundShort
    <3> HIDE DEF n, fields
    <3> QED
      BY <1>1, <1>6, <3>1, <3>2
  <2>2. long.hostIp = "absent"
    BY <1>2, <1>6
  <2>3. UnboundLong(long)
    BY <1>2, <2>2 DEF UnboundLong
  <2> QED
    BY <1>3, <1>4, <2>1, <2>3
<1>7. CASE n = 3
  <2> DEFINE q == SubSeq(fields, 1, 1)
  <2>0. q \in Seq(S) /\ Len(q) = 1 /\ q[1] = fields[1]
    BY <1>7
  <2> HIDE DEF q
  <2>1. q = <<fields[1]>>
    BY <2>0
  <2>2. fields[1] \in S
    BY <1>7
  <2>3. UnboundShort(fields) <=> <<fields[1]>> \in WildcardAddresses
    <3>1. n # 1 /\ n # 2 /\ n - 1 = 2 /\ n - 2 = 1
      BY <1>7
    <3>2. UnboundShort(fields) =
            IF n = 1 THEN fields[1] \in PortParts
            ELSE /\ fields[n] \in PortParts
                 /\ fields[n - 1] \in PortParts \cup {""}
                 /\ n = 2 \/ SubSeq(fields, 1, n - 2) \in WildcardAddresses
      BY DEF UnboundShort
    <3>3. SubSeq(fields, 1, 1) = q
      BY DEF q
    <3> HIDE DEF n, fields
    <3> QED
      BY <1>1, <1>7, <2>1, <3>1, <3>2, <3>3
  <2>4. long.hostIp = fields[1] /\ long.hostIp # "absent" /\ long.hostIp # "refused"
    BY <1>2, <1>7, <2>2
  <2>5. UnboundLong(long) <=> <<fields[1]>> \in WildcardAddresses
    BY <1>2, <2>4 DEF UnboundLong
  <2> QED
    BY <1>3, <1>4, <2>3, <2>5
<1> QED
  BY <1>1, <1>5, <1>6, <1>7

(***************************************************************************)
(* Whichever form a mount is written in, every one of the 28 rules reports *)
(* the same of the service; whichever form a port is written in, CL-0005   *)
(* finds it bound or not bound alike.                                      *)
(***************************************************************************)
THEOREM FormsAlwaysAgree == Spec => []FormsAgree
<1>1. TypeOK /\ PortsInv => FormsAgree
  <2> SUFFICES ASSUME TypeOK, PortsInv
               PROVE  FormsAgree
    OBVIOUS
  <2>1. ASSUME NEW i \in DOMAIN svc.volumes,
               svc.volumes[i].form = "short", IsHostPath(svc.volumes[i].source)
        PROVE  Findings(svc, Project)
                 = Findings([svc EXCEPT !.volumes[i] = AsLong(svc.volumes[i])], Project)
    BY <2>1, LongIsRespelled, FindingsRespelled
  <2>2. ASSUME NEW i \in DOMAIN svc.ports,
               svc.ports[i].form = "short", Publishes(svc.ports[i].fields)
        PROVE  UnboundPort(svc.ports[i]) <=> UnboundPort(AsLongPort(svc.ports[i]))
    <3> DEFINE S == STRING \ {"absent", "refused"}
    <3>1. svc.ports[i].fields \in Seq(S) /\ svc.ports[i].fields # << >>
      BY <2>2 DEF PortsInv, IsPort
    <3>2. "absent" \notin S /\ "refused" \notin S
      OBVIOUS
    <3> HIDE DEF S
    <3> QED
      BY <2>2, <3>1, <3>2, LongPortIsBound
  <2> QED
    BY <2>1, <2>2 DEF FormsAgree
<1> QED
  BY <1>1, EntriesKept, PTL
=============================================================================
