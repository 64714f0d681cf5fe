------------------------------- MODULE Switch -------------------------------
(***************************************************************************)
(* An access switch as the STIG scripts see it: the running-config, the     *)
(* VLAN database, the answers of the show commands, interface templates,    *)
(* and which of its ports are access ports.  scripts/stig_common.py holds   *)
(* the readers; every audit and every hardening script goes through them.   *)
(*                                                                          *)
(* A configuration is a record.  A command that is either there or not is   *)
(* a member of `lines', a hyphen for every space of it; a port is a record  *)
(* of its own; a setting with a value has a field.                          *)
(***************************************************************************)
EXTENDS Naturals, FiniteSets, Sequences, SequencesExt

CONSTANTS
  Port,           \* the interfaces with a switchport-capable name
  FastPort,       \* those of them that are FastEthernet
  Vlan,           \* VLAN numbers of the model; VLAN 1 is the default VLAN
  Inventory       \* inventory.yaml: a record of the values the scripts read

ASSUME InventoryAssumption ==
  /\ IsFiniteSet(Port) /\ FastPort \subseteq Port
  /\ Vlan \subseteq Nat \ {0} /\ 1 \in Vlan
  /\ Inventory.unused \in Vlan \cup {0} /\ Inventory.native \in Vlan \cup {0}
  /\ Inventory.default \in Vlan \cup {0}
  /\ {"nonUser", "nonUserHere", "userNamed", "nonUserNamed"} \subseteq DOMAIN Inventory
  /\ IsFiniteSet(Inventory.radius) /\ IsFiniteSet(Inventory.syslog) /\ IsFiniteSet(Inventory.ntp)

NoVlan == 0                    \* no such line in the block, or not configured
NoTemplate == "-"

\* `switchport trunk allowed vlan': the form of the line and the VLANs it lists.
Allow(form, vlans) == [form |-> form, vlans |-> vlans]
AllowAll == Allow("none", {})

\* An interface block.  `l3' tells a routed port ("routed": no switchport) and
\* an out-of-band port ("address": an address and nothing said of switchport)
\* from a switchport; `state' is what the block says of shutdown; `lines' are
\* the commands that are there or not.
Block(mode, vlan, state, source, lines) ==
  [l3 |-> "no", mode |-> mode, vlan |-> vlan, native |-> NoVlan, allowed |-> AllowAll,
   state |-> state, source |-> source, uplink |-> FALSE, policy |-> "none", lines |-> lines]

\* What every switch has, every port of it, and every line to log in on.
LineParts == {"limit", "timeout", "transport", "acl"}
PortParts ==
  {"l3", "mode", "vlan", "native", "allowed", "state", "source", "uplink", "policy", "lines"}
Parts ==
  {"lines", "con", "vty", "vtyRead", "acls", "policies", "users", "methods", "groups", "radius",
   "vtp", "snmp", "ssh", "trap", "block", "filePrivilege", "ntpServers", "ntpKeys", "ntpTrusted",
   "ntpUsed", "syslog", "model", "train", "minor", "enrolled", "reserving", "applets", "core",
   "db", "snoop", "dai", "root", "tmpl", "hidden", "ports"}

\* What `show ip ssh' may answer: a version, that SSH is disabled, neither of them,
\* or nothing at all.
SshAnswers == {"2.0", "1.99", "disabled", "other", "unread"}

\* The lists a switch keeps name VLANs of its database only, what the audit counts
\* can be counted, and some line lets its operators in.
IsBlock(b) == DOMAIN b = PortParts /\ b.allowed.vlans \subseteq Vlan
IsVty(vty) ==
  /\ IsFiniteSet(DOMAIN vty) /\ DOMAIN vty # {} /\ DOMAIN vty \subseteq Nat \X Nat
  /\ \A range \in DOMAIN vty : DOMAIN vty[range] = LineParts
IsSwitch(sw) ==
  /\ DOMAIN sw = Parts
  /\ DOMAIN sw.ports = Port /\ \A p \in Port : IsBlock(sw.ports[p])
  /\ IsVty(sw.vty) /\ sw.root \subseteq Port /\ NoTemplate \notin DOMAIN sw.tmpl
  /\ sw.ssh \in SshAnswers
  /\ sw.db \subseteq Vlan /\ sw.snoop \subseteq sw.db /\ sw.dai \subseteq sw.db
  /\ \A list \in {"policies", "radius", "syslog", "ntpServers"} : IsFiniteSet(sw[list])

(***************************************************************************)
(* Interface templates.  A template body is spliced into every block that   *)
(* sources it; IOS writes the switchport lines of a block before its source *)
(* line, so a search for one of them meets the block's own first.           *)
(***************************************************************************)
Expand(b, bodies) ==
  IF b.source \notin DOMAIN bodies THEN b
  ELSE LET t == bodies[b.source]
           First(f, none) == IF b[f] # none THEN b[f] ELSE t[f]
       IN [b EXCEPT
            !.mode = IF "trunk" \in {b.mode, t.mode} THEN "trunk" ELSE First("mode", "unsaid"),
            !.vlan = First("vlan", NoVlan),
            !.native = First("native", NoVlan),
            !.allowed = First("allowed", AllowAll),
            !.state = First("state", "unsaid"),
            !.uplink = b.uplink \/ t.uplink,
            !.policy = First("policy", "none"),
            !.lines = b.lines \cup t.lines
                        \cup IF t.state = "shutdown" THEN {"shutdown-in-template"} ELSE {}]

Expanded(sw, bodies) == [sw EXCEPT !.ports = [p \in Port |-> Expand(sw.ports[p], bodies)]]

(* Bug: ports are classified off their own blocks alone *)
ReadNoTemplates(sw) == [t \in {} |-> sw.tmpl[t]]

\* The bodies a script asks for, one command per template the configuration
\* sources; an answer without commands leaves the port as its own block has it.
ReadTemplates(sw) ==
  [t \in ({sw.ports[p].source : p \in Port} \cap DOMAIN sw.tmpl) \ sw.hidden |-> sw.tmpl[t]]

\* What the switch itself does with a port: the block's own line overrides the template's.
InEffect(sw, p) ==
  LET b == sw.ports[p] e == Expand(b, sw.tmpl)
  IN [e EXCEPT !.mode = IF b.mode # "unsaid" THEN b.mode ELSE e.mode]

(***************************************************************************)
(* Which ports are switchports, and which of those are trunks.              *)
(***************************************************************************)
SwitchportLines == {"switchport-nonegotiate", "switchport-block-unicast"}

IsLayer3(b) ==
  \/ b.l3 = "routed"
  \/ /\ b.l3 = "address"
     /\ b.mode = "unsaid" /\ b.vlan = NoVlan /\ b.lines \cap SwitchportLines = {}

Switchports(c) == {p \in Port : ~ IsLayer3(c.ports[p])}
TrunkPorts(c) == {p \in Switchports(c) : c.ports[p].mode = "trunk"}
AccessPorts(c) == Switchports(c) \ TrunkPorts(c)

\* l2_stig_harden_ipsg.py sorts the ports itself, off names and raw blocks.
RawAccessPorts(sw) == {p \in Port : sw.ports[p].mode # "trunk"}

\* The access ports the hardening takes for shut: an explicit `no shutdown' wins
\* over the template's shutdown.  The audit's reading has no such rule.
(* Bug: the audit's reading, in which a template's shutdown counts whatever the port says *)
ShutByTemplate(c) ==
  {p \in AccessPorts(c) : c.ports[p].state = "shutdown" \/ "shutdown-in-template" \in c.ports[p].lines}

ShutAccessPorts(c) == {p \in AccessPorts(c) : c.ports[p].state = "shutdown"}
AuditedAsShut(c) ==
  {p \in AccessPorts(c) : \/ c.ports[p].state = "shutdown"
                          \/ "shutdown-in-template" \in c.ports[p].lines}

(***************************************************************************)
(* User VLANs: a name in user_vlan_names wins over every exclusion.         *)
(***************************************************************************)
UserVlans(db, exclude, excludeNames, includeNames) ==
  {v \in db : v \in includeNames \/ ~ (v \in exclude \/ v \in excludeNames)}

Configured(v) == {v} \ {NoVlan}

\* The exclusion the audit uses, and the one the hardening scripts use.
AuditedUserVlans(db) ==
  UserVlans(db,
            (IF Inventory.overridden THEN Inventory.nonUserHere ELSE Inventory.nonUser)
              \cup Configured(Inventory.unused) \cup Configured(Inventory.native),
            Inventory.nonUserNamed, Inventory.userNamed)
(* Bug: the site's VLANs, whether this switch has them or not *)
HardenedUserVlansOfSite(db) == Vlan \ Inventory.nonUser

HardenedUserVlans(db) ==
  UserVlans(db, Inventory.nonUser, Inventory.nonUserNamed, Inventory.userNamed)

(* Bug: every VLAN of the database, VLAN 1 and the unused one too *)
TrunkVlansAll(db) == db
(* Bug: user VLANs only, as DHCP snooping has them *)
TrunkVlansForUsers(db) ==
  UserVlans(db, {1} \cup Inventory.nonUser \cup Configured(Inventory.unused), {}, {})

\* What a trunk carries: everything in the database but VLAN 1 and the two set aside.
TrunkVlans(db) ==
  UserVlans(db, {1} \cup Configured(Inventory.unused) \cup Configured(Inventory.native), {}, {})

(***************************************************************************)
(* A configuration command, applied.  Commands no rule and no port depends  *)
(* on are left out, and lines no property tells apart go in as one set.  A  *)
(* VLAN list adds to the list that is there, a setting overwrites, an entry *)
(* joins its list.                                                          *)
(***************************************************************************)
Within(range, outer) == range[1] >= outer[1] /\ range[2] <= outer[2]

WithAcl(acls, name, source) ==
  LET old == IF name \in DOMAIN acls THEN acls[name].sources ELSE {} IN
  [n \in DOMAIN acls \cup {name} |->
     IF n = name THEN [sources |-> old \cup {source}, logged |-> TRUE] ELSE acls[n]]

Apply(sw, c) ==
  CASE c.op = "lines" -> [sw EXCEPT !.lines = @ \cup c.arg]
    [] c.op = "no"    -> [sw EXCEPT !.lines = @ \ c.arg]
    [] c.op = "ssh"   -> [sw EXCEPT !.lines = @ \cup {"ip-ssh-version-2"},
                                    !.ssh = IF @ = "1.99" THEN "2.0" ELSE @]
    [] c.op = "set"   -> [sw EXCEPT ![c.field] = c.arg]
    [] c.op = "add"   -> [sw EXCEPT ![c.field] = @ \cup c.arg]
    [] c.op = "acl"   -> [sw EXCEPT !.acls = WithAcl(@, c.name, c.arg)]
    [] c.op = "vty"   -> [sw EXCEPT !.vty = [r \in DOMAIN @ |->
                            IF Within(r, c.range) THEN [@[r] EXCEPT ![c.field] = c.arg] ELSE @[r]]]
    [] c.op = "port"  -> [sw EXCEPT !.ports[c.port][c.field] = c.arg]
    [] c.op = "lines-of-port" -> [sw EXCEPT !.ports[c.port].lines = @ \cup c.arg]

ApplyAll(sw, cmds) ==
  LET after[n \in 0..Len(cmds)] == IF n = 0 THEN sw ELSE Apply(after[n - 1], cmds[n])
  IN after[Len(cmds)]

Lines(s) == [op |-> "lines", arg |-> s]
No(s) == [op |-> "no", arg |-> s]
SshVersion2 == [op |-> "ssh"]
Set(f, v) == [op |-> "set", field |-> f, arg |-> v]
Add(f, s) == [op |-> "add", field |-> f, arg |-> s]
PermitIn(name, source) == [op |-> "acl", name |-> name, arg |-> source]
Vty(r, f, v) == [op |-> "vty", range |-> r, field |-> f, arg |-> v]
OnPort(p, f, v) == [op |-> "port", port |-> p, field |-> f, arg |-> v]
PortLines(p, s) == [op |-> "lines-of-port", port |-> p, arg |-> s]
=============================================================================
