------------------------------- MODULE Rules -------------------------------
(***************************************************************************)
(* The rules of scripts/l2_stig_audit.py: what each one answers for a       *)
(* switch.  A rule is named by its number in the IOS book; four more exist  *)
(* only in the IOS XE book, which takes over all but two of the others.     *)
(* The configuration is one whose templates are expanded already.           *)
(*                                                                          *)
(* Text is abstracted to what the patterns look for: a line is there or     *)
(* not, a list is a set, an address is inside or outside the management     *)
(* subnet, an algorithm is the approved one or not.                         *)
(***************************************************************************)
EXTENDS Switch

CONSTANT Book        \* the checklist: "ios" or "ios-xe"

ASSUME BookKnown == Book \in {"ios", "ios-xe"}

Verdicts == {"PASS", "FAIL", "NOT-APPLICABLE", "NOT-AUTOMATED"}
PassIf(b) == IF b THEN "PASS" ELSE "FAIL"

(***************************************************************************)
(* Lines that have to be there, or must not be.                             *)
(***************************************************************************)
Archive == {"archive", "log-config", "logging-enable"}
ArchiveRules == {"V-220571", "V-220572", "V-220573", "V-220574",
                 "V-220582", "V-220597", "V-220611", "V-220613"}
LineRules == ArchiveRules \cup
  {"V-220577", "V-220578", "V-220580", "V-220595", "V-220599", "V-220612",
   "V-220625", "V-220631", "V-220638"}

Wanted(r) ==
  CASE r \in ArchiveRules -> Archive
    [] r = "V-220577" -> {"banner"}
    [] r = "V-220578" -> Archive \cup {"logging-userinfo"}
    [] r = "V-220580" -> {"service-timestamps-log-datetime-localtime"}
    [] r = "V-220595" -> {"service-password-encryption", "enable-secret"}
    [] r = "V-220599" -> {"logging-buffered"}
    [] r = "V-220612" -> {"login-on-failure-log", "login-on-success-log"}
    [] r = "V-220625" -> {"mls-qos"}
    [] r = "V-220631" -> {"spanning-tree-loopguard-default"}
    [] r = "V-220638" -> {"spanning-tree-mode-rapid-pvst"}

Services == {"ip-http-server", "service-pad"}    \* two stand for the fifteen

(***************************************************************************)
(* Rules about every access port, or every trunk.                           *)
(***************************************************************************)
Authenticates(b) == "mab" \in b.lines \/ {"pae-authenticator", "port-control-auto"} \subseteq b.lines

\* A PASS when every eligible port has it; without a single access port a FAIL.
AllAccess(c, Has(_), eligible) ==
  PassIf(/\ AccessPorts(c) # {}
         /\ \A p \in AccessPorts(c) \cap eligible : Has(c.ports[p]))
AllTrunks(c, Has(_)) ==
  PassIf(TrunkPorts(c) # {} /\ \A p \in TrunkPorts(c) : Has(c.ports[p]))

\* BPDU Guard acts where the port says so, or where it has PortFast and the
\* global default is set.
BpduGuarded(c, b) ==
  \/ "bpduguard-enable" \in b.lines
  \/ /\ "spanning-tree-portfast-bpduguard-default" \in c.lines
     /\ "spanning-tree-portfast-default" \in c.lines \/ "portfast" \in b.lines

Pruned(b, v) ==
  \/ b.allowed.form = "only" /\ v \notin b.allowed.vlans
  \/ b.allowed.form \in {"except", "remove"} /\ v \in b.allowed.vlans

NativeVlan(b) == IF b.native = NoVlan THEN 1 ELSE b.native
AccessVlan(b) == IF b.vlan = NoVlan THEN 1 ELSE b.vlan

NoAccessPortOnNative(c) ==
  PassIf(/\ TrunkPorts(c) # {}
         /\ \A p \in AccessPorts(c), t \in TrunkPorts(c) :
               AccessVlan(c.ports[p]) # NativeVlan(c.ports[t]))

\* A shut port that authenticates is exempt; every other one has to be in the
\* unused VLAN, which no trunk may carry.
DisabledPorts(c) ==
  PassIf(/\ Inventory.unused # NoVlan
         /\ \A p \in AuditedAsShut(c) :
               Authenticates(c.ports[p]) \/ c.ports[p].vlan = Inventory.unused
         /\ \A t \in TrunkPorts(c) : Pruned(c.ports[t], Inventory.unused))

\* A trunk is accounted for by a description that names an uplink, a port with
\* no mode of its own as well; a core switch has no user-facing port at all.
UserFacingTrunk(c) ==
  LET open == {p \in Switchports(c) : c.ports[p].mode # "access" /\ ~ c.ports[p].uplink} IN
  IF c.core THEN "NOT-APPLICABLE"
  ELSE IF Switchports(c) = {} THEN "FAIL"
  ELSE IF open = {} THEN "PASS" ELSE "NOT-AUTOMATED"

RootGuard(c) ==
  PassIf(\A p \in TrunkPorts(c) \ c.root : "guard-root" \in c.ports[p].lines)

Covers(range, c) ==
  PassIf(range # {} /\ AuditedUserVlans(c.db) # {} /\ AuditedUserVlans(c.db) \subseteq range)

DhcpSnooping(c) == IF "ip-dhcp-snooping" \in c.lines THEN Covers(c.snoop, c) ELSE "FAIL"

Udld(c) == PassIf("udld-enable" \in c.lines \/ \E p \in Port : "udld-port" \in c.ports[p].lines)
(***************************************************************************)
(* Rules about who may log in, and how.                                     *)
(***************************************************************************)
\* Every vty block needs a list that is there, permits something, and permits
\* nothing outside the management subnet; a source that cannot be read counts
\* as outside.
ListOn(c, g) == c.vty[g].acl
HasList(c, g) == ListOn(c, g) \in DOMAIN c.acls

VtyAcl(c) ==
  PassIf(/\ Inventory.subnet = "known"
         /\ DOMAIN c.vty # {}
         /\ \A g \in DOMAIN c.vty : /\ HasList(c, g)
                                    /\ c.acls[ListOn(c, g)].sources # {}
                                    /\ c.acls[ListOn(c, g)].sources \subseteq {"inside"})

VtyAclLogs(c) ==
  PassIf(/\ DOMAIN c.vty # {}
         /\ \A g \in DOMAIN c.vty : HasList(c, g) /\ c.acls[ListOn(c, g)].logged)

SessionLimit(c) ==
  PassIf(\/ "ip-http-max-connections" \in c.lines
         \/ \E g \in DOMAIN c.vty : c.vty[g].limit \/ c.vty[g].transport = "none")

\* The minutes of a timeout, whatever its seconds (`exec-timeout 0 30' is one of 1);
\* `exec-timeout 0 0' never ends a session.
NoTimeout == 99
TimesOut(minutes) == minutes \in 1..5
ExecTimeout(c) ==
  PassIf(/\ TimesOut(c.con)
         /\ DOMAIN c.vty # {} /\ \A g \in DOMAIN c.vty : TimesOut(c.vty[g].timeout))

LoginBlock(c) == PassIf(c.block.attempts = 3 /\ c.block.seconds >= 900)

(***************************************************************************)
(* Accounts and servers.                                                    *)
(***************************************************************************)
PolicyRules == {"V-220589", "V-220590", "V-220591", "V-220592", "V-220593", "V-220594"}

\* A policy is the set of rules its values meet; of two policies nothing says
\* which one is applied.
PasswordPolicy(c, r) ==
  PassIf(/\ "aaa-new-model" \in c.lines
         /\ Cardinality(c.policies) = 1
         /\ \A p \in c.policies : r \in p.meets)

SingleAccount(c) ==
  PassIf(Cardinality(c.users) = 1 /\ \E m \in c.methods : m.local)

RadiusRedundancy(c) ==
  PassIf(/\ "aaa-new-model" \in c.lines
         /\ \E m \in c.methods : m.group \in {"radius"} \cup c.groups
         /\ Cardinality(c.radius) >= 2)

VtpPassword(c) == PassIf(c.vtp \in {"shown", "withheld"})
SnmpUser(c, algorithms) == PassIf(c.snmp \in algorithms)

(***************************************************************************)
(* Logging and time.                                                        *)
(***************************************************************************)
\* Severities 0 to 7, DefaultTrap without a line, above it an unknown word.
DefaultTrap == 8
LoggingTrap(c) == PassIf(c.trap \in 2..DefaultTrap)

AuditInfo(c) ==
  IF "logging-persistent" \notin c.lines THEN "NOT-APPLICABLE" ELSE PassIf(c.filePrivilege = 15)

\* A key counts when it is defined, trusted and used for a server.
NtpServers(c) == PassIf(Cardinality(c.ntpServers) >= 2)
NtpKey(c) ==
  PassIf("ntp-authenticate" \in c.lines /\ c.ntpKeys \cap c.ntpTrusted \cap c.ntpUsed # {})

Syslog(c) == PassIf(Cardinality(c.syslog) >= 2)

(***************************************************************************)
(* SSH: what the switch says it runs counts before what the configuration   *)
(* asks for; an answer without a version leaves it to the configuration.    *)
(***************************************************************************)
Sshv2(c) ==
  \/ c.ssh = "2.0"
  \/ c.ssh \in {"unread", "other"} /\ "ip-ssh-version-2" \in c.lines

SshAlgorithm(c, line) == PassIf(Sshv2(c) /\ line \in c.lines)

(***************************************************************************)
(* Releases, and the rules of the IOS XE book alone.                        *)
(***************************************************************************)
Maintained(minor) == minor > 0 /\ minor % 3 = 0

\* A platform past its last date of support fails whatever it runs; a release
\* that is not read, or not numbered as IOS XE is, is left to a human.
Supported(c) ==
  IF c.model = "ended" THEN "FAIL"
  ELSE IF "unread" \in {c.model, c.train} \/ c.train = "classic" THEN "NOT-AUTOMATED"
  ELSE PassIf(Maintained(c.minor))

\* How a trustpoint enrols: with a CA the inventory approves, with another one,
\* by a method without a URL, or not at all.
Trustpoints(c) ==
  IF "unapproved" \in c.enrolled THEN "FAIL"
  ELSE IF "approved" \in c.enrolled THEN "PASS" ELSE "NOT-APPLICABLE"

\* Every policy some switchport applies exists and reserves bandwidth.
Qos(c) ==
  LET applied == {c.ports[p].policy : p \in Switchports(c)} \ {"none"}
  IN PassIf(applied # {} /\ applied \subseteq c.reserving)

\* An applet that fires on a change of the configuration copies it somewhere,
\* and none of them copies it in the clear.
ConfigBackup(c) ==
  LET targets == UNION {a.targets : a \in {b \in c.applets : b.onChange}}
  IN PassIf(targets # {} /\ "clear" \notin targets)
-----------------------------------------------------------------------------
XeOnly == {"V-220554", "V-220566", "V-220567", "V-220651"}
IosOnly == {"V-220606", "V-220625"}

IosRules ==
  LineRules \cup PolicyRules \cup IosOnly \cup
  {"V-220570", "V-220575", "V-220576", "V-220581", "V-220583", "V-220584", "V-220585",
   "V-220586", "V-220587", "V-220596", "V-220600", "V-220601", "V-220604", "V-220605",
   "V-220607", "V-220608", "V-220617", "V-220620", "V-220621", "V-220623", "V-220624",
   "V-220629", "V-220630", "V-220632", "V-220633", "V-220634", "V-220635", "V-220636",
   "V-220637", "V-220639", "V-220640", "V-220641", "V-220642", "V-220643", "V-220644",
   "V-220645", "V-220646", "V-220647"}

Checks == IF Book = "ios" THEN IosRules ELSE (IosRules \ IosOnly) \cup XeOnly

\* The answer to a rule for an expanded configuration.
Answer(r, c) ==
  CASE r \in LineRules   -> PassIf(Wanted(r) \subseteq c.lines)
    [] r \in PolicyRules -> PasswordPolicy(c, r)
    [] r = "V-220554" -> NtpKey(c)
    [] r = "V-220566" -> ConfigBackup(c)
    [] r = "V-220567" -> Trustpoints(c)
    [] r = "V-220570" -> SessionLimit(c)
    [] r = "V-220575" -> VtyAcl(c)
    [] r = "V-220576" -> LoginBlock(c)
    [] r = "V-220581" -> VtyAclLogs(c)
    [] r \in {"V-220583", "V-220584", "V-220585"} -> AuditInfo(c)
    [] r = "V-220586" -> PassIf(Services \cap c.lines = {})
    [] r = "V-220587" -> SingleAccount(c)
    [] r = "V-220596" -> ExecTimeout(c)
    [] r = "V-220600" -> LoggingTrap(c)
    [] r = "V-220601" -> NtpServers(c)
    [] r = "V-220604" -> SnmpUser(c, {"sha", "sha-aes"})
    [] r = "V-220605" -> SnmpUser(c, {"sha-aes"})
    [] r = "V-220606" -> "FAIL"                    \* MD5 is all IOS has
    [] r = "V-220607" -> SshAlgorithm(c, "ssh-macs")
    [] r = "V-220608" -> SshAlgorithm(c, "ssh-ciphers")
    [] r = "V-220617" -> RadiusRedundancy(c)
    [] r = "V-220620" -> Syslog(c)
    [] r = "V-220621" -> Supported(c)
    [] r = "V-220623" -> AllAccess(c, Authenticates, Port)
    [] r = "V-220624" -> VtpPassword(c)
    [] r = "V-220629" -> RootGuard(c)
    [] r = "V-220630" -> AllAccess(c, LAMBDA b : BpduGuarded(c, b), Port)
    [] r = "V-220632" -> AllAccess(c, LAMBDA b : "switchport-block-unicast" \in b.lines, Port)
    [] r = "V-220633" -> DhcpSnooping(c)
    [] r = "V-220634" -> AllAccess(c, LAMBDA b : "ip-verify-source" \in b.lines, Port)
    [] r = "V-220635" -> Covers(c.dai, c)
    [] r = "V-220636" -> AllAccess(c, LAMBDA b : "storm-control" \in b.lines, Port \ FastPort)
    [] r = "V-220637" -> PassIf("no-ip-igmp-snooping" \notin c.lines)
    [] r = "V-220639" -> Udld(c)
    [] r = "V-220640" -> AllTrunks(c, LAMBDA b : "switchport-nonegotiate" \in b.lines)
    [] r = "V-220641" -> DisabledPorts(c)
    [] r = "V-220642" -> AllAccess(c, LAMBDA b : b.vlan \notin {NoVlan, 1}, Port)
    [] r = "V-220643" -> AllTrunks(c, LAMBDA b : Pruned(b, 1))
    [] r = "V-220644" -> PassIf("address-on-Vlan1" \notin c.lines)
    [] r = "V-220645" -> UserFacingTrunk(c)
    [] r = "V-220646" -> AllTrunks(c, LAMBDA b : b.native \notin {NoVlan, 1})
    [] r = "V-220647" -> NoAccessPortOnNative(c)
    [] r = "V-220651" -> Qos(c)

\* What the rule says of the switch itself, its own templates expanded.
Verdict(r, sw) == Answer(r, Expanded(sw, sw.tmpl))
=============================================================================
