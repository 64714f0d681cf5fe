---------------------------- MODULE MCHardening ----------------------------
(* Four ports, six VLANs - 2 for users, 3 the default access VLAN, 4 native, *)
(* 5 unused, 6 for management - and two switches: one hardly configured that *)
(* keeps its port lines in templates, and one somebody hardened by hand that *)
(* has lines above the first five.                                           *)
EXTENDS Hardening

MCPort == {"desk", "fast", "uplink", "spare"}
MCVlan == 1..6
MCInventory ==
  [unused |-> 5, native |-> 4, default |-> 3, nonUser |-> {1, 6}, nonUserHere |-> {1},
   overridden |-> FALSE, userNamed |-> {}, nonUserNamed |-> {}, subnet |-> "known",
   automation |-> "inside", radius |-> {"r1", "r2"}, syslog |-> {"s1", "s2"},
   ntp |-> {"n1", "n2"}, secrets |-> {"vtp", "snmp", "ntp"}]

MCLine(limit, timeout, transport, acl) ==
  [limit |-> limit, timeout |-> timeout, transport |-> transport, acl |-> acl]

MCTrunk(vlans, lines) ==
  [Block("trunk", NoVlan, "unsaid", NoTemplate, lines) EXCEPT !.allowed = vlans, !.uplink = TRUE]

MCTemplates ==
  [UPLINK |-> MCTrunk(Allow("except", {5}), {"switchport-nonegotiate", "udld-port"}),
   DESK |-> Block("access", 2, "shutdown", NoTemplate, {"mab"})]

MCTemplated ==
  [lines |-> Services, con |-> NoTimeout,
   vty |-> [g \in {<<0, 4>>} |-> MCLine(FALSE, NoTimeout, "all", "none")], vtyRead |-> TRUE,
   acls |-> [n \in {} |-> [sources |-> {}, logged |-> FALSE]],
   policies |-> {}, users |-> {"admin"}, methods |-> {}, groups |-> {}, radius |-> {},
   vtp |-> "none", snmp |-> "none", ssh |-> "1.99", trap |-> DefaultTrap,
   block |-> [attempts |-> 0, seconds |-> 0], filePrivilege |-> 15,
   ntpServers |-> {}, ntpKeys |-> {}, ntpTrusted |-> {}, ntpUsed |-> {}, syslog |-> {},
   model |-> "current", train |-> "xe", minor |-> 9, enrolled |-> {}, reserving |-> {},
   applets |-> {}, core |-> FALSE, db |-> {1}, snoop |-> {}, dai |-> {},
   root |-> {"uplink"}, tmpl |-> MCTemplates, hidden |-> {},
   ports |-> [desk |-> Block("unsaid", NoVlan, "no-shutdown", "DESK", {}),
              fast |-> Block("unsaid", NoVlan, "shutdown", NoTemplate, {}),
              uplink |-> Block("unsaid", NoVlan, "unsaid", "UPLINK", {}),
              spare |-> MCTrunk(AllowAll, {})]]

MCByHand ==
  [MCTemplated EXCEPT
     !.lines = {"aaa-new-model", "enable-secret", "ip-dhcp-snooping", "no-ip-igmp-snooping",
                "logging-persistent", "spanning-tree-portfast-default", "ip-ssh-version-2",
                "ssh-macs", "ssh-ciphers", "ip-http-server"},
     !.con = 10, !.filePrivilege = 1, !.ssh = "unread", !.vtp = "withheld", !.snmp = "sha",
     !.vty = [g \in {<<0, 4>>, <<5, 15>>} |-> MCLine(g = <<5, 15>>, IF g = <<5, 15>> THEN 30 ELSE 5, "ssh", "OPS")],
     !.acls = [n \in {"OPS"} |-> [sources |-> {"inside"}, logged |-> FALSE]],
     !.policies = {[name |-> "SITE", meets |-> PolicyRules]},
     !.methods = {[group |-> "radius", local |-> TRUE]}, !.radius = {"r1"},
     !.tmpl = [PHONE |-> Block("trunk", 2, "unsaid", NoTemplate, {"mab"})],
     !.hidden = {"PHONE"}, !.db = {1, 2, 3, 4, 5, 6}, !.snoop = {2, 3}, !.dai = {2, 3}, !.root = {"spare"},
     !.ports.desk = Block("access", 6, "unsaid", NoTemplate, {"portfast"}),
     !.ports.uplink = [MCTrunk(Allow("only", {2, 6}), {"guard-root", "udld-port"})
                         EXCEPT !.native = 4],
     !.ports.spare = MCTrunk(Allow("remove", {1, 5}), {}),
     !.ports.fast.policy = "QUEUES", !.reserving = {"QUEUES"}, !.enrolled = {"approved"},
     !.applets = {[onChange |-> TRUE, targets |-> {"secure"}]}]

MCStart == {MCTemplated, MCByHand}

=============================================================================
