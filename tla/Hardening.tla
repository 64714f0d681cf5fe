----------------------------- MODULE Hardening -----------------------------
(***************************************************************************)
(* Hardening one switch with scripts/l2_stig_harden_*.py, in any order, and *)
(* auditing it with scripts/l2_stig_audit.py.  A script reads the switch,   *)
(* builds its commands from what it read and from inventory.yaml, and sends *)
(* them; what it read may have changed by then.  The audit reads the switch *)
(* twice, over two connections, and judges the second reading with answers  *)
(* of the first.                                                            *)
(***************************************************************************)
EXTENDS Rules

CONSTANTS
  Start,       \* the switches a campaign may begin with
  MaxRuns,     \* scripts started
  MaxFaults    \* sessions lost in a push, and changes made by somebody else

ASSUME StartAssumption == \A s \in Start : IsSwitch(s)
ASSUME BoundsAssumption == MaxRuns \in Nat /\ MaxFaults \in Nat

VARIABLES
  sw,          \* the switch
  script,      \* the script that is running, "none" between two
  snap,        \* what it read
  done,        \* what was pushed whole since anybody else touched the switch
  report,      \* the verdicts of the last audit, a function of the rules
  checklist,   \* the .cklb file: what it says of each rule
  seen,        \* the switch since the running audit's first reading, oldest first
  runs, faults

audit == <<report, checklist, seen>>
vars == <<sw, script, snap, done, audit, runs, faults>>

Nothing == [rule \in {} |-> "-"]          \* no reading, no report

Init ==
  /\ sw \in Start
  /\ script = "none" /\ snap = Nothing /\ done = {}
  /\ report = Nothing /\ checklist = Nothing
  /\ seen = <<>>
  /\ runs = 0 /\ faults = 0
-----------------------------------------------------------------------------
(* What each script sends.                                                  *)

BaseFixes ==
  <<Lines({"spanning-tree-portfast-bpduguard-default", "spanning-tree-loopguard-default",
           "spanning-tree-mode-rapid-pvst", "udld-enable"}),
    No({"no-ip-igmp-snooping"}),
    Lines({"service-timestamps-log-datetime-localtime", "logging-buffered",
           "login-on-failure-log", "login-on-success-log"}),
    Set("block", [attempts |-> 3, seconds |-> 900]),
    Lines({"logging-userinfo", "ip-http-max-connections", "service-password-encryption"}
            \cup IF Book = "ios" THEN {"mls-qos"} ELSE {}),
    Set("trap", 2), Set("filePrivilege", 15)>>

LoggingFixes ==
  <<Lines({"service-timestamps-log-datetime-localtime", "logging-buffered",
           "login-on-failure-log", "login-on-success-log", "logging-userinfo"}),
    Set("trap", 2), Set("filePrivilege", 15),
    Set("block", [attempts |-> 3, seconds |-> 900])>>

SshFixes == <<SshVersion2, Lines({"ssh-macs"}), Lines({"ssh-ciphers"})>>
ServicesFix == <<No(Services)>>
ArchiveFix == <<Lines(Archive)>>
ConsoleFix == <<Set("con", 5)>>

SyslogFix == <<Add("syslog", Inventory.syslog)>>
NtpFix ==
  IF "ntp" \in Inventory.secrets
  THEN <<Add("ntpKeys", {1}), Lines({"ntp-authenticate"}), Add("ntpTrusted", {1}),
         Add("ntpServers", Inventory.ntp), Add("ntpUsed", {1})>>
  ELSE <<Add("ntpServers", Inventory.ntp)>>

Secret(kind, field, value) == IF kind \in Inventory.secrets THEN <<Set(field, value)>> ELSE <<>>

\* The user VLANs are read before the batch that creates the default access VLAN.
GlobalCommands(read) ==
  LET users == HardenedUserVlans(read.db) IN
  BaseFixes \o ServicesFix \o SshFixes \o ArchiveFix
    \o <<Vty(<<0, 4>>, "limit", TRUE), Vty(<<0, 4>>, "timeout", 5)>> \o ConsoleFix
    \o (IF users = {} THEN <<>> ELSE <<Lines({"ip-dhcp-snooping"}), Add("snoop", users)>>)
    \o <<Add("db", Configured(Inventory.native))>> \o Secret("vtp", "vtp", "shown")
    \o <<Add("db", Configured(Inventory.default)), Add("db", Configured(Inventory.unused))>>
    \o Secret("snmp", "snmp", "sha-aes") \o NtpFix \o SyslogFix

(* Bug: five lines, as most switches have *)
HighestVtyAssumed(read) == 4

\* With --with-vty: five lines answer SSH, every line above them nothing.
HighestVty(read) ==
  IF read.vtyRead THEN CHOOSE n \in {r[2] : r \in DOMAIN read.vty} :
                         \A r \in DOMAIN read.vty : r[2] <= n
  ELSE 4

VtyFixes(highest) ==
  <<Vty(<<0, highest>>, "limit", TRUE), Vty(<<0, highest>>, "timeout", 5),
    Vty(<<0, 4>>, "transport", "ssh")>>
    \o IF highest > 4 THEN <<Vty(<<5, highest>>, "transport", "none")>> ELSE <<>>

LoggingCommands(read) ==
  LoggingFixes \o SshFixes \o ServicesFix \o ArchiveFix
    \o (IF Cardinality(Inventory.syslog) >= 2 THEN SyslogFix ELSE <<>>)
    \o ConsoleFix \o VtyFixes(HighestVty(read))

AaaCommands ==
  <<Lines({"enable-secret"}), Lines({"aaa-new-model"}), Add("radius", Inventory.radius),
    Add("methods", {[group |-> "radius", local |-> TRUE]}),
    Add("policies", {[name |-> "STIG_PASSWORD_POLICY", meets |-> PolicyRules]})>>

AclCommands ==
  <<PermitIn("VTY_MGMT", Inventory.automation), Vty(<<0, 4>>, "acl", "VTY_MGMT")>>

ForEach(ports, Commands(_)) ==
  FlattenSeq([i \in 1..Cardinality(ports) |-> Commands(SetToSeq(ports)[i])])

\* Templates are read and expanded before a port is classified; a shut access
\* port goes to the unused VLAN.
AccessCommands(read) ==
  LET c == Expanded(read, ReadTemplates(read)) IN
  ForEach(AccessPorts(c), LAMBDA p :
    <<OnPort(p, "mode", "access"), PortLines(p, {"portfast", "switchport-block-unicast"})>>
      \o (IF p \in ShutAccessPorts(c) /\ Inventory.unused # NoVlan
          THEN <<OnPort(p, "vlan", Inventory.unused)>> ELSE <<>>)
      \o (IF p \in FastPort THEN <<>> ELSE <<PortLines(p, {"storm-control"})>>))

\* No Root Guard on a root port: they are read before the configuration is.
GuardOn(p, read) == IF p \in read.root THEN <<>> ELSE <<PortLines(p, {"guard-root"})>>

TrunkCommands(read) ==
  LET c == Expanded(read, ReadTemplates(read)) vlans == TrunkVlans(read.db) IN
  ForEach(TrunkPorts(c), LAMBDA p :
    <<PortLines(p, {"switchport-nonegotiate", "dhcp-snooping-trust", "arp-inspection-trust"})>>
      \o (IF vlans = {} THEN <<>> ELSE <<OnPort(p, "allowed", Allow("only", vlans))>>)
      \o (IF Inventory.native = NoVlan THEN <<>> ELSE <<OnPort(p, "native", Inventory.native)>>)
      \o GuardOn(p, read))

DaiCommands(read) ==
  LET users == HardenedUserVlans(read.db) IN
  IF users = {} THEN <<>> ELSE <<Add("dai", users)>>

\* IP Source Guard and device tracking sort the ports off the raw configuration.
SourceGuardCommands(read) ==
  ForEach(RawAccessPorts(read), LAMBDA p : <<PortLines(p, {"ip-verify-source"})>>)
TrackingCommands(read) ==
  ForEach(RawAccessPorts(read), LAMBDA p : <<PortLines(p, {"device-tracking"})>>)

Scripts == {"global", "logging", "aaa", "acl", "access", "trunk", "dai", "ipsg", "tracking"}

Commands(s, read) ==
  CASE s = "global"   -> GlobalCommands(read)
    [] s = "logging"  -> LoggingCommands(read)
    [] s = "aaa"      -> AaaCommands
    [] s = "acl"      -> AclCommands
    [] s = "access"   -> AccessCommands(read)
    [] s = "trunk"    -> TrunkCommands(read)
    [] s = "dai"      -> DaiCommands(read)
    [] s = "ipsg"     -> SourceGuardCommands(read)
    [] s = "tracking" -> TrackingCommands(read)
-----------------------------------------------------------------------------
(* A script's run.                                                          *)

\* What has to be in the inventory before the script connects at all.
Ready(s) == s = "aaa" => Inventory.radius # {}

Reads(s) ==
  /\ script = "none" /\ runs < MaxRuns /\ Ready(s)
  /\ script' = s /\ snap' = sw /\ runs' = runs + 1
  /\ UNCHANGED <<sw, done, audit, faults>>

\* What a whole push has done: DHCP snooping is a part of the global script of its
\* own, and so is pruning of the trunk script, which leaves it out as long as the
\* database has no VLAN that trunks are to carry.
Parted(s, read) ==
  {s} \cup (IF s = "global" THEN {"snooping"} ELSE {})
      \cup (IF s = "trunk" /\ TrunkVlans(read.db) # {} THEN {"pruning"} ELSE {})

\* A batch that adds a VLAN to the database leaves the lists of VLANs behind.
Sends ==
  /\ script \in Scripts
  /\ sw' = ApplyAll(sw, Commands(script, snap))
  /\ done' = IF snap # sw THEN done
             ELSE (done \cup Parted(script, snap))
                    \ IF sw'.db # sw.db THEN {"snooping", "dai"} ELSE {}
  /\ script' = "none" /\ snap' = Nothing
  /\ UNCHANGED <<audit, runs, faults>>

\* The session is lost: the commands up to there are on the switch.
SessionLost ==
  /\ script \in Scripts /\ faults < MaxFaults
  /\ \E n \in 0..(Len(Commands(script, snap)) - 1) :
        sw' = ApplyAll(sw, SubSeq(Commands(script, snap), 1, n))
  /\ script' = "none" /\ snap' = Nothing /\ faults' = faults + 1
  /\ done' = IF sw'.db # sw.db THEN done \ {"snooping", "dai"} ELSE done
  /\ UNCHANGED <<audit, runs>>
-----------------------------------------------------------------------------
(* Somebody else, or spanning tree, changes the switch.                     *)

Changes ==
  /\ faults < MaxFaults /\ sw' # sw
  /\ faults' = faults + 1 /\ done' = {}
  /\ seen' = IF seen = <<>> THEN seen ELSE Append(seen, sw')
  /\ UNCHANGED <<script, snap, report, checklist, runs>>

InEffectTrunks(s) == {p \in Switchports(s) : InEffect(s, p).mode = "trunk"}

\* A guarded port does not become the root port.
RootMoves ==
  /\ \E p \in InEffectTrunks(sw) :
        /\ "guard-root" \notin sw.ports[p].lines
        /\ sw' = [sw EXCEPT !.root = {p}]
  /\ Changes

PortIsRebuilt ==
  /\ \E p \in Port \ sw.root,
        b \in {sw.ports[q] : q \in Port}
               \cup {Block("unsaid", NoVlan, "unsaid", t, {}) : t \in DOMAIN sw.tmpl} :
        /\ sw' = [sw EXCEPT !.ports[p] = b]
  /\ Changes

PortIsEnabled ==
  /\ \E p \in Port : sw' = [sw EXCEPT !.ports[p].state = "no-shutdown"]
  /\ Changes

VlanIsCreated ==
  /\ \E v \in Vlan \ sw.db : sw' = [sw EXCEPT !.db = @ \cup {v}]
  /\ Changes
-----------------------------------------------------------------------------
(* The audit.                                                               *)

\* The first connection: VLANs, root ports, VTP, SNMP, SSH, release, templates.
Discovers ==
  /\ script = "none" /\ runs < MaxRuns
  /\ script' = "audit" /\ snap' = sw /\ runs' = runs + 1
  /\ seen' = <<sw>>
  /\ UNCHANGED <<sw, done, report, checklist, faults>>

(* Bug: the configuration as it is written, its templates unread *)
JudgedUnexpanded(config, first) ==
  [config EXCEPT !.db = first.db, !.root = first.root, !.vtp = first.vtp,
                 !.snmp = first.snmp, !.ssh = first.ssh]

\* What the checks see: the configuration of the second connection, its ports
\* expanded by the templates of the first, and the answers of the first.
Judged(config, first) ==
  Expanded([config EXCEPT !.db = first.db, !.root = first.root, !.vtp = first.vtp,
                          !.snmp = first.snmp, !.ssh = first.ssh, !.model = first.model,
                          !.train = first.train, !.minor = first.minor],
           ReadTemplates(first))

Judges ==
  /\ script = "audit"
  /\ report' = [r \in Checks |-> Answer(r, Judged(sw, snap))]
  /\ script' = "checklist" /\ snap' = Nothing
  /\ UNCHANGED <<sw, done, checklist, seen, runs, faults>>

CklbStatus(v) ==
  CASE v = "PASS" -> "not_a_finding"
    [] v = "FAIL" -> "open"
    [] v = "NOT-APPLICABLE" -> "not_applicable"
    [] v = "NOT-AUTOMATED" -> "not_reviewed"

Torn == [r \in Checks |-> "torn"]

\* The file is opened for writing before it is written.
WritesChecklist ==
  /\ script = "checklist"
  /\ \/ checklist' = [r \in Checks |-> CklbStatus(report[r])] /\ UNCHANGED faults
     \/ faults < MaxFaults /\ faults' = faults + 1
        /\ checklist' \in {checklist, Torn}
  /\ script' = "none" /\ seen' = <<>>
  /\ UNCHANGED <<sw, snap, done, report, runs>>
-----------------------------------------------------------------------------
Next ==
  \/ \E s \in Scripts : Reads(s)
  \/ Sends \/ SessionLost
  \/ RootMoves \/ PortIsRebuilt \/ PortIsEnabled \/ VlanIsCreated
  \/ Discovers \/ Judges \/ WritesChecklist

Spec == Init /\ [][Next]_vars
-----------------------------------------------------------------------------
(* Properties.                                                              *)

\* The lists the switch keeps name VLANs of its database only, no script and no
\* reading outlives its run, and a report answers every rule of the book.
TypeOK ==
  /\ IsSwitch(sw)
  /\ script \in Scripts \cup {"none", "audit", "checklist"}
  /\ script \in Scripts \cup {"audit"} <=> snap # Nothing
  /\ done \subseteq Scripts \cup {"snooping", "pruning"}
  /\ report # Nothing => report \in [Checks -> Verdicts]
  /\ seen # <<>> <=> script \in {"audit", "checklist"}
  /\ runs \in 0..MaxRuns /\ faults \in 0..MaxFaults

\* The pushes after which a rule passes; each of the sets is enough.
HardenedBy == [r \in Checks |->
  CASE r \in ArchiveRules \cup {"V-220576", "V-220578", "V-220580", "V-220583", "V-220584",
             "V-220585", "V-220586", "V-220599", "V-220600", "V-220607", "V-220608",
             "V-220612"} -> {{"global"}, {"logging"}}
    [] r \in {"V-220570", "V-220601", "V-220604", "V-220605", "V-220620", "V-220624",
             "V-220625", "V-220631", "V-220637", "V-220638", "V-220639", "V-220554"} -> {{"global"}}
    [] r = "V-220595" -> {{"global", "aaa"}}
    [] r = "V-220596" -> {{"logging"}}
    [] r \in PolicyRules \cup {"V-220587", "V-220617"} -> {{"aaa"}}
    [] r \in {"V-220575", "V-220581"} -> {{"acl"}}
    [] r \in {"V-220632", "V-220636"} -> {{"access"}}
    [] r = "V-220630" -> {{"global", "access"}}
    [] r = "V-220641" -> {{"access", "pruning"}}
    [] r \in {"V-220629", "V-220640", "V-220646"} -> {{"trunk"}}
    [] r = "V-220643" -> {{"pruning"}}
    [] r = "V-220633" -> {{"snooping"}}
    [] r = "V-220635" -> {{"dai"}}
    [] r = "V-220634" -> {{"ipsg"}}
    [] OTHER -> {}]

\* What the scripts leave to the switch and to the inventory: an account or a
\* policy somebody else made, lines above the five the script configures, a
\* device override, a secret, a subnet, a VLAN or a second server nobody wrote
\* down, a switch without a single port of the kind a rule is about.
OnlyLinesToFour == \A g \in DOMAIN sw.vty : Within(g, <<0, 4>>)
WithinReach(r, c) ==
  CASE r \in PolicyRules -> Cardinality(sw.policies) = 1
    [] r = "V-220587" -> Cardinality(sw.users) = 1
    [] r \in {"V-220607", "V-220608"} -> sw.ssh # "disabled"
    [] r = "V-220575" -> /\ Inventory.subnet = "known" /\ OnlyLinesToFour
                         /\ sw.acls["VTY_MGMT"].sources = {"inside"}
    [] r = "V-220581" -> OnlyLinesToFour
    [] r = "V-220596" -> sw.vtyRead
    [] r = "V-220601" -> Cardinality(Inventory.ntp) >= 2
    [] r = "V-220617" -> Cardinality(Inventory.radius) >= 2
    [] r = "V-220620" -> Cardinality(Inventory.syslog) >= 2
    [] r \in {"V-220604", "V-220605"} -> "snmp" \in Inventory.secrets
    [] r = "V-220624" -> "vtp" \in Inventory.secrets
    [] r = "V-220554" -> "ntp" \in Inventory.secrets
    [] r \in {"V-220633", "V-220635"} ->
         AuditedUserVlans(sw.db) # {} /\ AuditedUserVlans(sw.db) \subseteq HardenedUserVlans(sw.db)
    [] r \in {"V-220630", "V-220632", "V-220634", "V-220636"} -> AccessPorts(c) # {}
    [] r \in {"V-220640", "V-220643"} -> TrunkPorts(c) # {}
    [] r = "V-220646" -> TrunkPorts(c) # {} /\ Inventory.native \notin {NoVlan, 1}
    [] r = "V-220641" -> Inventory.unused # NoVlan /\ AuditedAsShut(c) = ShutAccessPorts(c)
    [] OTHER -> TRUE

\* Ports whose template the switch does not show.
Unread(s) == {p \in Port : s.ports[p].source \in s.hidden}

\* Hardened is hardened: once the scripts a rule is hardened by were pushed
\* whole, and nobody else has touched the switch, the audit passes the rule -
\* whatever else was pushed before or after, whole or in part, and wherever in
\* the templates it shows the switch keeps its lines.
HardenedPasses ==
  LET c == Expanded(sw, sw.tmpl) IN
  Unread(sw) = {} =>
    \A r \in Checks :
      (\E needed \in HardenedBy[r] : needed \subseteq done) /\ WithinReach(r, c)
        => Answer(r, c) # "FAIL"

Pushes == script \in Scripts /\ script' = "none"

\* What a push may take away: an added VLAN is one more to cover; a second policy
\* leaves it open which is applied; the access list takes a source outside the
\* management subnet, the automation host's or one that was there; and inventory.yaml,
\* which nobody checks, may set VLAN 1 aside, one VLAN for both kinds of port, or one
\* the other kind of port is in already.
MayUnfix(r, before) ==
  \/ r \in {"V-220633", "V-220635"} /\ sw'.db # sw.db
  \/ r \in PolicyRules /\ Cardinality(sw'.policies) > 1
  \/ /\ r = "V-220575" /\ script = "acl"
     /\ \E n \in DOMAIN sw'.acls \cap {"VTY_MGMT"} : ~ (sw'.acls[n].sources \subseteq {"inside"})
  \/ r = "V-220642" /\ Inventory.unused = 1
  \/ r = "V-220646" /\ Inventory.native = 1
  \/ /\ r = "V-220647"
     /\ \/ Inventory.unused = Inventory.native
        \/ \E p \in AccessPorts(before) : AccessVlan(before.ports[p]) = Inventory.native
        \/ \E p \in TrunkPorts(before) : NativeVlan(before.ports[p]) = Inventory.unused

\* A push, whole or cut short after any command, never makes a rule fail that
\* the audit passed, as long as the switch is still what the script read.
NothingUnfixed ==
  [][Pushes /\ snap = sw /\ Unread(sw) = {} =>
       LET before == Expanded(sw, sw.tmpl)
           after == Expanded(sw', sw'.tmpl)
       IN \A r \in Checks :
            Answer(r, before) = "PASS"
              => Answer(r, after) = "PASS" \/ MayUnfix(r, before)]_vars

\* An uplink stays an uplink: no push turns a port that is a trunk, by its own
\* block or by a template that was read, into an access port.
UplinksKeepTheirTrunk ==
  [][Pushes =>
       \A p \in InEffectTrunks(sw) \ Unread(snap) :
         snap.ports[p] = sw.ports[p] => InEffect(sw', p).mode = "trunk"]_vars

\* A port that was up when the script read the switch keeps its VLAN: only shut
\* ports are moved to the unused one, and a port's own `no shutdown' keeps it
\* up whatever its template says.
ServiceKept ==
  [][Pushes => \A p \in Port :
       InEffect(snap, p).state # "shutdown" => sw'.ports[p].vlan = sw.ports[p].vlan]_vars

\* The trunk push prunes VLAN 1, the unused and the native VLAN and nothing
\* else: a VLAN that was in the database when it was read, and crossed a trunk,
\* crosses it after the push, so that nobody's traffic stops at the uplink.
Carries(s, p, v) == ~ Pruned(InEffect(s, p), v)
VlansCarried ==
  [][Pushes => \A p \in InEffectTrunks(sw),
                v \in (sw.db \cap snap.db) \ {1, Inventory.unused, Inventory.native} :
       Carries(sw, p, v) => Carries(sw', p, v)]_vars

\* Every template a port sources during the audit was read by its first connection.
Sourced(s) == {s.ports[p].source : p \in Port} \ {NoTemplate}
TemplatesCover ==
  \A i \in 1..Len(seen) : Unread(seen[i]) = {} /\ Sourced(seen[i]) \subseteq Sourced(seen[1])

\* A finding is closed in the checklist only if the rule passed, and opened
\* only if it failed, at some moment of that audit: with one change of the
\* switch during the audit, the two readings never add up to a verdict the
\* switch never had.
ChecklistIsTrue ==
  [][checklist' \notin {checklist, Torn} /\ Len(seen) <= 2 /\ TemplatesCover =>
       \A r \in Checks :
         LET was == {Answer(r, Expanded(seen[i], seen[i].tmpl)) : i \in 1..Len(seen)} IN
         /\ checklist'[r] = "not_a_finding" => "PASS" \in was
         /\ checklist'[r] = "open" => "FAIL" \in was]_vars

\* stig_common.py and l2_stig_audit.py promise that the audit and the scripts
\* agree on which ports are access ports: what is meant for access ports is
\* not put on a trunk.
OnePopulation ==
  [][Pushes /\ snap = sw => \A p \in InEffectTrunks(sw) :
       {"ip-verify-source", "device-tracking"} \cap sw'.ports[p].lines \subseteq sw.ports[p].lines]_vars
=============================================================================
