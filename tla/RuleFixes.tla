------------------------------ MODULE RuleFixes ------------------------------
(***************************************************************************)
(* What `fix` makes of a file: the fixers of CL-0003, CL-0005, CL-0007,    *)
(* CL-0009, CL-0014 and CL-0022 over its lines, the edit that answers for  *)
(* CL-0003 and CL-0009 together, the check that an edit stays in its own   *)
(* service, the sweep that refuses what clashes, and verify_apply, which   *)
(* has the last word on the file that comes of it.                         *)
(*                                                                         *)
(* The file declares services under line 1, one of which may extend, merge *)
(* or alias the other.  An author writes blocks into it and fix is run     *)
(* over it, in any order.  What a file means is read off its lines by      *)
(* "Own" and "Config", the way YAML and the loader read it: a fixer sees   *)
(* the file as the loader does and as lines, and has to get from one to    *)
(* the other.                                                              *)
(***************************************************************************)
EXTENDS YamlLines, EditSweep, ServiceRules

CONSTANTS Skeletons,  \* the files an author starts from
          Menu,       \* service -> the blocks an author may write into it
          MaxEdits    \* how many

VARIABLES text,       \* the file
          plan,       \* what fix makes of it, as its dry run prints
          edits       \* the number of blocks written

vars == <<text, plan, edits>>

-----------------------------------------------------------------------------
(* The scalars of a file, as the rules read them.                          *)

Opt(key, value) == [key |-> key, value |-> value]

(* normalize_security_opt *)
OptOf ==
  [v \in {"seccomp:unconfined", "apparmor:unconfined", "seccomp:p.json", "label:type:x",
          "no-new-privileges:true", "no-new-privileges:false", "joined"} |->
     CASE v = "seccomp:unconfined"      -> Opt("seccomp", "unconfined")
       [] v = "apparmor:unconfined"     -> Opt("apparmor", "unconfined")
       [] v = "seccomp:p.json"          -> Opt("seccomp", "p.json")
       [] v = "label:type:x"            -> Opt("label", "type:x")
       [] v = "joined"                  -> Opt("label", "joined")
       [] v = "no-new-privileges:true"  -> Opt("no-new-privileges", "true")
       [] v = "no-new-privileges:false" -> Opt("no-new-privileges", "false")]

FieldsOf ==
  [v \in {"80", "80:80", "127.0.0.1:80:80", "0.0.0.0:8080:80", "127.0.0.1:8080:80"} |->
     CASE v = "80"                -> <<"80">>
       [] v = "80:80"             -> <<"80", "80">>
       [] v = "127.0.0.1:80:80"   -> <<"127.0.0.1", "80", "80">>
       [] v = "0.0.0.0:8080:80"   -> <<"0.0.0.0", "8080", "80">>
       [] v = "127.0.0.1:8080:80" -> <<"127.0.0.1", "8080", "80">>]

(* _host_ip_span, applied: the port bound to the loopback interface, where *)
(* the scalar is host:container with no address or a wildcard one.         *)
Bound ==
  [v \in {"80:80", "0.0.0.0:8080:80"} |->
     IF v = "80:80" THEN "127.0.0.1:80:80" ELSE "127.0.0.1:8080:80"]

OptionsOf ==
  [v \in {"/run", "/run:exec", "/run:size=1m", "/run:exec,size=1m"} |->
     CASE v = "/run" -> {}
       [] v = "/run:exec" -> {"exec"}
       [] v = "/run:size=1m" -> {"size=1m"}
       [] v = "/run:exec,size=1m" -> {"exec", "size=1m"}]

(* _without_insecure_options *)
Secured ==
  [v \in DOMAIN OptionsOf |->
     CHOOSE w \in DOMAIN OptionsOf : OptionsOf[w] = OptionsOf[v] \ InsecureOptions]

-----------------------------------------------------------------------------
(* What a file means.                                                      *)

ServiceLines(file) == {k \in DOMAIN file : file[k].ind = 2 /\ ~IsBlankOrComment(file[k])}
Services(file) == {file[k].key : k \in ServiceLines(file)}
LineOf(file, s) == CHOOSE k \in ServiceLines(file) : file[k].key = s

KeysOf(file, k) == {j \in ChildrenOf(file, k) : file[j].key \notin {"", "<<"} /\ ~file[j].dash}

(* The line on which a key of the mapping at line k is written, or none.   *)
WrittenAt(file, k, key) == {j \in KeysOf(file, k) : file[j].key = key}

Anchors(file, key) ==
  {j \in DOMAIN file : file[j].key = key /\ file[j].mark = "anchor"}

(* The lines a service's mapping draws on: its own, and the one it merges. *)
Mappings(file, s) ==
  LET k == LineOf(file, s) IN
  <<k>> \o (IF HasMergeKeyChild(file, k)
              THEN <<LineOf(file, CHOOSE t \in Services(file) : t # s)>> ELSE << >>)

(* The line a key of a service comes from: its own, or the merged one.     *)
AllWritten(file, from, key) == [i \in DOMAIN from |-> WrittenAt(file, from[i], key)]
FirstWritten(at) == IF at[1] # {} \/ Len(at) = 1 THEN at[1] ELSE at[2]

KeyLine(file, s, key) == FirstWritten(AllWritten(file, Mappings(file, s), key))

(* The entries under a key's line: the items of its block, or the value in *)
(* the line itself.                                                        *)
ItemLines(file, k) ==
  LET j == IF file[k].mark = "alias" THEN CHOOSE a \in Anchors(file, file[k].key) : TRUE ELSE k
      items == {i \in Body(file, j) : IsSeqItem(file[i])}
  IN IF file[j].val # "" THEN <<j>> ELSE SetToSortSeq(items, <)

(* A folded scalar stands on the line below, which continues a plain one.  *)
Continued(file, j) ==
  j < Len(file) /\ file[j + 1].key = "" /\ ~file[j + 1].dash /\ file[j + 1].ind > file[j].ind

ScalarAt(file, j) ==
  IF ~Continued(file, j) THEN file[j].val
  ELSE IF file[j].val = ">" THEN file[j + 1].val ELSE "joined"

HostIpLines(file, j) ==
  {m \in {j} \cup Deeper(file, j) : file[m].key = "host_ip"}

PortAt(file, j) ==
  IF file[j].key \in {"", "ports"}
  THEN [form |-> "short", fields |-> FieldsOf[ScalarAt(file, j)]]
  ELSE [form |-> "long", target |-> TRUE, published |-> FALSE,
        hostIp |-> IF HostIpLines(file, j) = {} THEN "absent"
                   ELSE ScalarAt(file, CHOOSE m \in HostIpLines(file, j) : TRUE)]

(* Two ports are one when address, published port and target are the same, *)
(* in whichever form; the long ones here publish nothing and target 80.    *)
PortKey(port) ==
  IF port.form = "long" THEN <<IF port.hostIp = "absent" THEN "" ELSE port.hostIp, "", "80">>
  ELSE LET n == Len(port.fields)
       IN  <<IF n = 3 THEN port.fields[1] ELSE "",
             IF n > 1 THEN port.fields[n - 1] ELSE "", port.fields[n]>>

SamePort(file, i, j) == PortKey(PortAt(file, i)) = PortKey(PortAt(file, j))
SameScalar(file, i, j) == ScalarAt(file, i) = ScalarAt(file, j)

(* extends_targets, of a file whose services extend no other file.         *)
Extended(file, s) ==
  {file[j].val : j \in UNION {WrittenAt(file, k, "extends") : k \in {LineOf(file, s)}}}
ExtendsTargets(file) == UNION {Extended(file, s) : s \in Services(file)}

OwnEntries(file, s, key) ==
  LET at == KeyLine(file, s, key) IN
  IF at = {} THEN << >> ELSE ItemLines(file, CHOOSE k \in at : TRUE)

InheritedEntries(file, s, key) ==
  FlattenSeq([i \in 1 .. Cardinality(Extended(file, s)) |->
                OwnEntries(file, CHOOSE t \in Extended(file, s) : TRUE, key)])

(* The lines of a list's entries, those inherited first: a port the        *)
(* service writes again takes the place of the inherited one, and of other *)
(* lists an entry it writes again stays the inherited one.                 *)
Merged(file, key, inherited, own) ==
  IF key = "ports"
  THEN [i \in DOMAIN inherited |->
          IF \E j \in Range(own) : SamePort(file, inherited[i], j)
          THEN CHOOSE j \in Range(own) : SamePort(file, inherited[i], j) ELSE inherited[i]]
       \o SelectSeq(own, LAMBDA j : ~\E i \in Range(inherited) : SamePort(file, i, j))
  ELSE inherited
       \o SelectSeq(own, LAMBDA j : ~\E i \in Range(inherited) : SameScalar(file, i, j))

EntryLines(file, s, key) ==
  Merged(file, key, InheritedEntries(file, s, key), OwnEntries(file, s, key))

(* The line of a key after the merge: the service's own, or the inherited. *)
ConfigLine(file, s, key) ==
  LET own == KeyLine(file, s, key) IN
  IF own # {} THEN own ELSE UNION {KeyLine(file, t, key) : t \in Extended(file, s)}

ConfigKeys(file, s) ==
  {file[j].key : j \in UNION {UNION {KeysOf(file, Mappings(file, t)[i])
                                       : i \in DOMAIN Mappings(file, t)}
                                : t \in {s} \cup Extended(file, s)}}

ScalarOf(file, s, key) ==
  LET at == ConfigLine(file, s, key) IN
  IF at = {} THEN "unset" ELSE file[CHOOSE j \in at : TRUE].val

(* The settings under logging:, key and value. Naming another driver than  *)
(* the inherited one leaves its options behind.                            *)
LoggingOf(file, k) ==
  LET j == IF file[k].mark = "alias" THEN CHOOSE a \in Anchors(file, "logging") : TRUE ELSE k
  IN {<<file[m].key, file[m].val>> : m \in KeysOf(file, j)}

Driver(settings) == {p \in settings : p[1] = "driver"}

Layered(own, inherited) ==
  own \cup {p \in inherited : /\ p[1] \notin {q[1] : q \in own}
                              /\ Driver(own) = {} \/ Driver(own) = Driver(inherited)}

OwnLogging(file, s) == UNION {LoggingOf(file, k) : k \in KeyLine(file, s, "logging")}

Logging(file, s) ==
  Layered(OwnLogging(file, s), UNION {OwnLogging(file, t) : t \in Extended(file, s)})

OptsAt(file, at)  == [i \in DOMAIN at |-> OptOf[ScalarAt(file, at[i])]]
PortsAt(file, at) == [i \in DOMAIN at |-> PortAt(file, at[i])]
TmpfsAt(file, at) == [i \in DOMAIN at |-> OptionsOf[ScalarAt(file, at[i])]]

SecurityOpt(file, s) == OptsAt(file, EntryLines(file, s, "security_opt"))

AsMounts(options) == [i \in DOMAIN options |-> [options |-> options[i]]]

(* A service as the rules are handed it: the settings fixers deal with.    *)
AsService(file, s) ==
  [notLists    |-> {},
   securityOpt |-> SecurityOpt(file, s),
   ports       |-> PortsAt(file, EntryLines(file, s, "ports")),
   tmpfs       |-> AsMounts(TmpfsAt(file, EntryLines(file, s, "tmpfs"))),
   readOnly    |-> ScalarOf(file, s, "read_only"),
   apiSocket   |-> ScalarOf(file, s, "use_api_socket"),
   logging     |-> IF <<"driver", "none">> \in Logging(file, s) THEN "none" ELSE "other"]

FixerRules == {"CL-0003", "CL-0005", "CL-0007", "CL-0009", "CL-0014", "CL-0022"}

ListKey == [securityOpt |-> "security_opt", ports |-> "ports", tmpfs |-> "tmpfs"]

(* A finding of one of these rules: a place that is reported, by its line. *)
PlaceLine(file, s, place) ==
  CASE place[1] \in DOMAIN ListKey -> EntryLines(file, s, ListKey[place[1]])[place[2]]
    [] place[1] = "logging" -> CHOOSE k \in ConfigLine(file, s, "logging") : TRUE
    [] OTHER -> LineOf(file, s)

FindingsGiven(file, s, svc) ==
  UNION {{[rule |-> r, svc |-> s, line |-> PlaceLine(file, s, place)]
            : place \in Reports(r, svc, << >>)} : r \in FixerRules}

FindingsOf(file, s) == FindingsGiven(file, s, AsService(file, s))

FindingsIn(file) == UNION {FindingsOf(file, s) : s \in Services(file)}

(* What the message of a finding says beside its rule: the entry.          *)
Message(file, f) ==
  <<f.rule, f.svc, CASE f.rule = "CL-0005" -> PortAt(file, f.line)
                     [] f.rule \in {"CL-0009", "CL-0022"} -> ScalarAt(file, f.line)
                     [] OTHER -> "">>


-----------------------------------------------------------------------------
(* The fixers.  Each answers a finding with the edits it makes, none where *)
(* it refuses; what is refused is left to the user.                        *)

Ready(file, s) == ~IsAnchoredOrMerged(file, LineOf(file, s))

NewEntry(ind) == Item(ind, "no-new-privileges:true")

(* Reached or reaching through extends: its security_opt is another's too. *)
InheritsOrLends(file, s) == Extended(file, s) # {} \/ s \in ExtendsTargets(file)

(* No entry turns the flag on or off.                                      *)
SaysNothingOfTheFlag(opts) == \A i \in DOMAIN opts : opts[i].key # "no-new-privileges"

(* CL-0003, where the list is there: append to it, unless an entry names   *)
(* the flag already or the list is CL-0009's to empty.                     *)
AppendToExisting(file, so, opts) ==
  {InsertBefore(LastOfBlock(file, so) + 1, <<NewEntry(ind)>>) :
     ind \in {i \in FirstChildIndent(file, so) :
                /\ SaysNothingOfTheFlag(opts)
                /\ \E n \in DOMAIN opts : opts[n] \notin DisabledSecurityProfiles
                /\ OpensBlockBody(file[so])}}

(* CL-0003, where it is not: a list as the service's first child.          *)
CreateList(file, k) ==
  {InsertBefore(k + 1, <<Key(ind, "security_opt", ""), NewEntry(2 * ind - file[k].ind)>>) :
     ind \in FirstChildIndent(file, k)}

BlockNewPrivileges(file, s) ==
  IF InheritsOrLends(file, s) \/ ~Ready(file, s) THEN {}
  ELSE IF "security_opt" \in ConfigKeys(file, s)
       THEN UNION {AppendToExisting(file, so, SecurityOpt(file, s)) : so \in ConfigLine(file, s, "security_opt")}
       ELSE CreateList(file, LineOf(file, s))

(* CL-0007: Compose refuses a read-only service with the API socket.       *)
MakeReadOnly(file, s) ==
  IF \/ "read_only" \in ConfigKeys(file, s)
     \/ ScalarOf(file, s, "use_api_socket") = "true"
     \/ ~Ready(file, s)
  THEN {}
  ELSE {InsertBefore(LineOf(file, s) + 1, <<Key(ind, "read_only", "true")>>) :
          ind \in FirstChildIndent(file, LineOf(file, s))}

(* CL-0005, short: the scalar the line itself shows, uninterpolated.       *)
BindShort(file, j) ==
  LET val == file[j].val IN
  IF ~file[j].dash \/ file[j].mark # "" \/ val \notin DOMAIN Bound THEN {}
  ELSE {InScalar(j, IF val = "80:80" THEN 0 ELSE 1, [file[j] EXCEPT !.val = Bound[val]])}

Empty(line) == line = BlankLine

(* _value_continues: a line deeper than the entry's first key.             *)
ValueContinues(file, j) ==
  \E m \in j + 1 .. Len(file) :
    /\ \A i \in j + 1 .. m - 1 : Empty(file[i])
    /\ ~IsBlankOrComment(file[m]) /\ file[m].ind > file[j].ind + 2

(* _replace_host_ip: the first line of the entry, up to the first that is  *)
(* no deeper than its dash, on which a wildcard address is written out.    *)
WildcardLines(file, j) ==
  {m \in j .. Len(file) :
     /\ \A i \in j + 1 .. m : Empty(file[i]) \/ file[i].ind > file[j].ind
     /\ file[m].key = "host_ip" /\ file[m].mark = "" /\ <<file[m].val>> \in WildcardAddresses}

BindLong(file, j) ==
  LET hostIp == PortAt(file, j).hostIp IN
  CASE ~file[j].dash \/ file[j].mark = "flow" \/ ValueContinues(file, j) -> {}
    [] hostIp = "absent" -> {InsertBefore(j + 1, <<Key(file[j].ind + 2, "host_ip", "127.0.0.1")>>)}
    [] OTHER -> {InScalar(m, 1, [file[m] EXCEPT !.val = "127.0.0.1"]) :
                   m \in {n \in WildcardLines(file, j) : \A i \in WildcardLines(file, j) : n <= i}}

BindPort(file, s, j) ==
  IF ~Ready(file, s) \/ \E k \in ConfigLine(file, s, "ports") : ValueIsShared(file[k]) THEN {}
  ELSE IF PortAt(file, j).form = "short" THEN BindShort(file, j) ELSE BindLong(file, j)

(* _item_is_multiline: a scalar that goes on below the item.               *)
ItemIsMultiline(file, j) ==
  /\ j < Len(file) /\ ~Empty(file[j + 1])
  /\ ~IsBlankOrComment(file[j + 1]) \/ file[j].val = ">"
  /\ file[j + 1].ind > file[j].ind

BlockOf(file, s) == LineOf(file, s) .. LastOfBlock(file, LineOf(file, s))

(* Mutant: inherited entries count for the list that would remain.         *)
AllEntries(file, s) == DOMAIN EntryLines(file, s, "security_opt")

(* _written_entries: the entries written in the service's own block.       *)
WrittenEntries(file, s) ==
  {i \in DOMAIN EntryLines(file, s, "security_opt") :
     EntryLines(file, s, "security_opt")[i] \in BlockOf(file, s)}

(* CL-0009: the item is deleted, as long as the list keeps another that    *)
(* disables nothing.                                                       *)
DropDisabled(file, s, j) ==
  LET opts == SecurityOpt(file, s) IN
  IF /\ Ready(file, s)
     /\ \A so \in ConfigLine(file, s, "security_opt") : OpensBlockBody(file[so])
     /\ \E i \in WrittenEntries(file, s) : opts[i] \notin DisabledSecurityProfiles
     /\ file[j].dash /\ ~ItemIsMultiline(file, j) /\ file[j].mark # "default"
  THEN {DeleteLines(j, j)} ELSE {}

(* CL-0014: the block goes, when all it says is the driver and the service *)
(* says something else.                                                    *)
DropLogging(file, s) ==
  {DeleteLines(k, LastOfBlock(file, k)) :
     k \in {l \in ConfigLine(file, s, "logging") :
              /\ Ready(file, s) /\ OpensBlockBody(file[l])
              /\ Cardinality(Logging(file, s)) = 1 /\ ConfigKeys(file, s) # {"logging"}
              /\ \A m \in l .. LastOfBlock(file, l) : file[m].mark # "default"}}

(* CL-0022: the options are taken out of a value the line shows in full.   *)
SecureTmpfs(file, s, j) ==
  IF /\ Ready(file, s)
     /\ \A k \in ConfigLine(file, s, "tmpfs") : ~ValueIsShared(file[k])
     /\ file[j].dash \/ (file[j].key = "tmpfs" /\ file[j].mark # "flow")
     /\ file[j].mark # "default" /\ ~Continued(file, j)
     /\ Secured[file[j].val] # file[j].val
  THEN {InScalar(j, 1, [file[j] EXCEPT !.val = Secured[file[j].val]])} ELSE {}

(* The fixer of a finding's rule.                                          *)
Fix(file, f) ==
  CASE f.rule = "CL-0003" -> BlockNewPrivileges(file, f.svc)
    [] f.rule = "CL-0005" -> BindPort(file, f.svc, f.line)
    [] f.rule = "CL-0007" -> MakeReadOnly(file, f.svc)
    [] f.rule = "CL-0009" -> DropDisabled(file, f.svc, f.line)
    [] f.rule = "CL-0014" -> DropLogging(file, f.svc)
    [] f.rule = "CL-0022" -> SecureTmpfs(file, f.svc, f.line)

-----------------------------------------------------------------------------
(* collect_edits.                                                          *)

Unit(findings, changes) == [findings |-> findings, edits |-> changes]

PairOf(found, s) == {f \in found : f.svc = s /\ f.rule \in {"CL-0003", "CL-0009"}}

(* Mutant: only where the list is nothing but disabled profiles.           *)
BothReportedOnBareList(file, found, s) ==
  /\ {f.rule : f \in PairOf(found, s)} = {"CL-0003", "CL-0009"}
  /\ Range(SecurityOpt(file, s)) \subseteq DisabledSecurityProfiles

BothReported(file, found, s) == {f.rule : f \in PairOf(found, s)} = {"CL-0003", "CL-0009"}

(* The lines under the key of a list.                                      *)
ItemBlock(file, so) == so + 1 .. LastOfBlock(file, so)

DisabledAt(file, j) == OptOf[ScalarAt(file, j)] \in DisabledSecurityProfiles

(* The block of a list written anew: the items that are not disabled, then *)
(* the flag.                                                               *)
Rewritten(file, so, items) ==
  LET kept == SetToSortSeq({j \in items : IsSeqItem(file[j]) /\ ~DisabledAt(file, j)}, <) IN
  {ReplaceLines(so + 1, Max(items), [i \in DOMAIN kept |-> file[kept[i]]] \o <<NewEntry(ind)>>) :
     ind \in FirstChildIndent(file, so)}

(* Nothing but items, and what is to go is marked by nobody.               *)
PlainItems(file, items) ==
  /\ items # {}
  /\ \A j \in items : Empty(file[j]) \/ IsSeqItem(file[j])
  /\ \A j \in items : IsSeqItem(file[j]) /\ DisabledAt(file, j) => file[j].mark # "default"

(* _coordinate_security_opt: both rules are answered by writing the list   *)
(* anew, if it is a block of plain items that is the service's alone and   *)
(* says nothing of the flag.                                               *)
Coordinated(file, found, s) ==
  {Unit(PairOf(found, s), Rewritten(file, so, ItemBlock(file, so))) :
     so \in {k \in ConfigLine(file, s, "security_opt") :
               /\ BothReported(file, found, s)
               /\ ~InheritsOrLends(file, s) /\ Ready(file, s)
               /\ OpensBlockBody(file[k]) /\ PlainItems(file, ItemBlock(file, k))
               /\ SaysNothingOfTheFlag(SecurityOpt(file, s))}}

(* _within_own_service: a fix is made where its own service writes.        *)
WithinOwnService(file, unit) ==
  \A f \in unit.findings : \A e \in unit.edits :
    /\ StartOf(LineOf(file, f.svc)) <= e.start
    /\ e.end <= StartOf(LastOfBlock(file, LineOf(file, f.svc)) + 1)

(* The findings no joint unit answers are answered one by one.             *)
WithAlone(file, found, joint) ==
  joint \cup {Unit({f}, Fix(file, f)) : f \in found \ UNION {u.findings : u \in joint}}

Proposed(file, found) ==
  {u \in WithAlone(file, found, UNION {Coordinated(file, found, s) : s \in Services(file)}) :
     u.edits # {} /\ WithinOwnService(file, u)}

(* The units that are left when those that clash are refused.              *)
Unrefused(units) ==
  LET spans == UNION {{[start |-> e.start, end |-> e.end, text |-> e.new, unit |-> i, nth |-> 1]
                         : e \in units[i].edits} : i \in DOMAIN units}
  IN {units[i] : i \in DOMAIN units \ Swept(spans)}

Accepted(file, found) == Unrefused(SetToSeq(Proposed(file, found)))

(* apply_edits: what is inserted before a line stands in the order of its  *)
(* text, then the line, what it becomes, or what replaces it.              *)
Applied(file, changes) ==
  LET insertions(j) == {e \in changes : e.start = StartOf(j) /\ e.end = e.start}
      instead(j) == {e \in changes : e.start = StartOf(j) /\ e.end > e.start}
      becomes(j) == {e \in changes : e.start = StartOf(j) + 1}
      gone(j)    == \E e \in changes : e.start < StartOf(j) /\ StartOf(j) < e.end
      first(a, b) == a.new[1].key = "read_only" /\ b.new[1].key # "read_only"
      new(seq)   == FlattenSeq([i \in DOMAIN seq |-> seq[i].new])
  IN FlattenSeq([j \in 1 .. Len(file) + 1 |->
       new(SetToSortSeq(insertions(j), first))
       \o (IF j > Len(file) \/ gone(j) THEN << >>
           ELSE IF instead(j) \cup becomes(j) # {}
                THEN new(SetToSeq(instead(j) \cup becomes(j)))
                ELSE <<file[j]>>)])

-----------------------------------------------------------------------------
(* verify_apply.                                                           *)

ScalarsAt(file, at) == [i \in DOMAIN at |-> ScalarAt(file, at[i])]

(* A service as it is loaded, key by key.                                  *)
ConfigOf(file, s) ==
  [key \in ConfigKeys(file, s) |->
     CASE key = "ports" -> PortsAt(file, EntryLines(file, s, key))
       [] key \in {"security_opt", "tmpfs"} -> ScalarsAt(file, EntryLines(file, s, key))
       [] key = "logging" -> Logging(file, s)
       [] OTHER -> ScalarOf(file, s, key)]

(* fix_writes_keys *)
WritesKey ==
  [r \in FixerRules |->
     CASE r \in {"CL-0003", "CL-0009"} -> "security_opt"
       [] r = "CL-0005" -> "ports"
       [] r = "CL-0007" -> "read_only"
       [] r = "CL-0014" -> "logging"
       [] r = "CL-0022" -> "tmpfs"]

FixedServices(fixed) == {f.svc : f \in fixed}

(* _with_inherited_claims: what the fixes of a service, and of the base it *)
(* extends if the service is fixed at all, claim to write.                 *)
Claimed(file, fixed, s) ==
  {WritesKey[f.rule] : f \in {g \in fixed : \/ g.svc = s
                                            \/ s \in FixedServices(fixed) /\ g.svc \in Extended(file, s)}}

(* _structural_drift *)
SameBut(claimed, was, now) ==
  \A key \in (DOMAIN was \cup DOMAIN now) \ claimed :
    key \in DOMAIN was \cap DOMAIN now /\ was[key] = now[key]

NoDrift(file, fixed, after) ==
  /\ Services(after) = Services(file)
  /\ \A s \in Services(file) :
       SameBut(Claimed(file, fixed, s), ConfigOf(file, s), ConfigOf(after, s))

(* reparse_or_error: no key is written twice.                              *)
Reparses(after) ==
  \A s \in Services(after) :
    LET keys == KeysOf(after, LineOf(after, s)) IN
    \A i, j \in keys : after[i].key = after[j].key => i = j

(* A second pass has nothing to do, and no finding is new.                 *)
Settled(file, found, after, left) ==
  /\ Accepted(after, left) = {}
  /\ {Message(after, f) : f \in left} \subseteq {Message(file, f) : f \in found}

Verified(file, found, fixed, after) ==
  /\ Reparses(after)
  /\ NoDrift(file, fixed, after)
  /\ Settled(file, found, after, FindingsIn(after))

(* A run of fix over a file: the findings, those its edits resolve, the    *)
(* file they make, and whether that passes.                                *)
Planned(file, found, units) ==
  LET fixed == UNION {u.findings : u \in units}
      after == Applied(file, UNION {u.edits : u \in units})
  IN [found |-> found, fixed |-> fixed, text |-> after,
      verified |-> fixed = {} \/ Verified(file, found, fixed, after)]

PlanOf(file, found) == Planned(file, found, Accepted(file, found))
PlanFor(file) == PlanOf(file, FindingsIn(file))

-----------------------------------------------------------------------------
Init == text \in Skeletons /\ plan = PlanFor(text) /\ edits = 0

Becomes(file) == text' = file /\ plan' = PlanFor(file)

(* An author writes a block, as the first or the last of a service.        *)
Write ==
  /\ edits < MaxEdits
  /\ edits' = edits + 1
  /\ \E s \in Services(text) : \E block \in Menu[s] :
       LET keys == KeysOf(text, LineOf(text, s)) IN
       /\ block[1].key \notin {text[j].key : j \in keys}
       /\ \E at \in {Min(keys) - 1, LastOfBlock(text, LineOf(text, s))} :
            Becomes(SubSeq(text, 1, at) \o block \o SubSeq(text, at + 1, Len(text)))

(* The plan is written to the file, if there is one and it passes.         *)
Saved == plan.fixed # {} /\ plan.verified /\ text' = plan.text

(* fix is run over the file.                                               *)
Fixes ==
  /\ Saved
  /\ plan' = PlanFor(plan.text)
  /\ UNCHANGED edits

Next == Write \/ Fixes

(* fix is run on every commit; nothing is assumed of the author.           *)
Spec == Init /\ [][Next]_vars /\ WF_text(Saved)

-----------------------------------------------------------------------------
(* Properties.                                                             *)

Count(found, r, s) == Cardinality({f \in found : f.rule = r /\ f.svc = s})

Healed(left, r, s) == Count(left, r, s) <= Count(plan.found, r, s) - Count(plan.fixed, r, s)

(* ADR-014: re-linting a fixed file does not re-fire the rule. Of every    *)
(* rule and service as many findings are gone as were fixed.               *)
NeverRefires ==
  plan.fixed # {} /\ plan.verified =>
    LET left == FindingsIn(plan.text) IN
    \A r \in FixerRules, s \in Services(text) : Healed(left, r, s)

(* The files whose fixes verify_apply holds back, every time: a fixed      *)
(* service lends to one that has no fix of its own; a service writes an    *)
(* entry again that it inherits, and the inherited one is deleted or       *)
(* rewritten; one whose only key is logging: gets another, upon which      *)
(* logging: is fixable as well.                                            *)
LendsToUnfixed ==
  \E s \in Services(text) \ FixedServices(plan.fixed) :
    Extended(text, s) \cap FixedServices(plan.fixed) # {}

RepeatsInherited ==
  \E s \in Services(text) : \E t \in Extended(text, s), key \in {"security_opt", "tmpfs"} :
    \E i \in Range(OwnEntries(text, s, key)), j \in Range(OwnEntries(text, t, key)) :
      SameScalar(text, i, j) /\ \E f \in plan.fixed : f.line = j

OnlyLogging == \E s \in Services(text) : ConfigKeys(text, s) = {"logging"}

HeldBack == LendsToUnfixed \/ RepeatsInherited \/ OnlyLogging

(* Those apart, a fixer makes nothing that verify_apply has to refuse: a   *)
(* refusal leaves every finding of the file unfixed for good.              *)
RefusalsForeseen == ~plan.verified => HeldBack

(* A list of one-line items without comments, marks or flags.              *)
PlainProfiles(s) ==
  \A k \in ConfigLine(text, s, "security_opt") : \A j \in k + 1 .. LastOfBlock(text, k) :
    Empty(text[j]) \/ (IsSeqItem(text[j]) /\ text[j].mark = "" /\ ~Continued(text, j))

(* Fixers do not stand in each other's way: a file fix has nothing for     *)
(* holds no finding that a fixer, asked by itself, would fix where its     *)
(* service writes; a security_opt list that is more than plain items apart.*)
NoStalemate ==
  plan.fixed = {} =>
    \A f \in plan.found :
      \/ Fix(text, f) = {}
      \/ ~WithinOwnService(text, Unit({f}, Fix(text, f)))
      \/ WritesKey[f.rule] = "security_opt" /\ ~PlainProfiles(f.svc)

(* Run on every commit, fix comes to rest whatever was written in between: *)
(* in the end it has nothing to offer, but on the files above.             *)
ComesToRest == <>[](plan.fixed = {} \/ HeldBack)

(* What a service writes itself, entry by entry.                           *)
Meaning(file, s) ==
  [keys    |-> {file[j].key : j \in KeysOf(file, LineOf(file, s))},
   opts    |-> OptsAt(file, OwnEntries(file, s, "security_opt")),
   ports   |-> PortsAt(file, OwnEntries(file, s, "ports")),
   tmpfs   |-> TmpfsAt(file, OwnEntries(file, s, "tmpfs")),
   logging |-> OwnLogging(file, s),
   ro      |-> {file[k].val : k \in KeyLine(file, s, "read_only")}]

FixedAt(rule, s, j) == [rule |-> rule, svc |-> s, line |-> j] \in plan.fixed

BoundTo(port) ==
  IF port.form = "long" THEN [port EXCEPT !.hostIp = "127.0.0.1"]
  ELSE [port EXCEPT !.fields = IF Len(@) = 2 THEN <<"127.0.0.1">> \o @ ELSE [@ EXCEPT ![1] = "127.0.0.1"]]

Enabled(opts) == SelectSeq(opts, LAMBDA o : o \notin DisabledSecurityProfiles)

Comments(file) == SelectSeq(file, LAMBDA line : line = Comment(line.ind))

(* The edits of a run amount to what the fixed findings ask for and to     *)
(* nothing else: entry by entry, in every service, nothing but a reported  *)
(* entry changes, it changes as its rule asks, no list is left empty, and  *)
(* no comment goes but with a logging block. So no edit lands on another   *)
(* line, another service, or a value that others share.                    *)
EditsAmountToFixes ==
  plan.fixed # {} /\ plan.verified =>
    /\ \A s \in Services(text) :
         LET m == Meaning(text, s)
             n == Meaning(plan.text, s)
             says(rule) == Count(plan.fixed, rule, s) > 0
             ports == OwnEntries(text, s, "ports")
             tmpfs == OwnEntries(text, s, "tmpfs")
         IN /\ n.keys = (m.keys \cup (IF says("CL-0003") THEN {"security_opt"} ELSE {})
                                \cup (IF says("CL-0007") THEN {"read_only"} ELSE {}))
                          \ (IF says("CL-0014") THEN {"logging"} ELSE {})
            /\ Enabled(n.opts) = Enabled(m.opts)
                 \o (IF says("CL-0003") THEN <<Opt("no-new-privileges", "true")>> ELSE << >>)
            /\ n.opts # m.opts => says("CL-0003") \/ says("CL-0009")
            /\ m.opts # << >> => n.opts # << >>
            /\ n.ports = [i \in DOMAIN ports |->
                 IF FixedAt("CL-0005", s, ports[i]) THEN BoundTo(m.ports[i]) ELSE m.ports[i]]
            /\ n.tmpfs = [i \in DOMAIN tmpfs |->
                 IF FixedAt("CL-0022", s, tmpfs[i]) THEN m.tmpfs[i] \ InsecureOptions ELSE m.tmpfs[i]]
            /\ n.logging = m.logging \ (IF says("CL-0014") THEN {<<"driver", "none">>} ELSE {})
            /\ n.ro = IF says("CL-0007") THEN {"true"} ELSE m.ro
    /\ Comments(plan.text) = Comments(text) \/ \E f \in plan.fixed : f.rule = "CL-0014"
=============================================================================
