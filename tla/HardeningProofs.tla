---------------------------- MODULE HardeningProofs ----------------------------
(***************************************************************************)
(* Proofs about Hardening, for any ports, VLANs, inventory, book, switches  *)
(* to begin with, and bounds.                                               *)
(***************************************************************************)
EXTENDS Hardening, FiniteSetTheorems, NaturalsInduction, TLAPS

-----------------------------------------------------------------------------
(* Counting: the library's induction theorem takes a predicate, so that what  *)
(* holds of every number is shown by the least one it would not hold of.     *)

LEMMA LeastNumber ==
  ASSUME NEW S \in SUBSET Nat, S # {}
  PROVE  \E m \in S : \A k \in S : m <= k
<1> DEFINE Less == {ss \in Nat \X Nat : ss[1] < ss[2]}
<1>1. IsWellFoundedOn(Less, Nat)
  BY NatLessThanWellFounded, Zenon DEF OpToRel
<1>2. PICK m \in S : \A k \in S : ~ (<<k, m>> \in Less)
  <2> HIDE DEF Less
  <2> QED BY <1>1, WFMin, Zenon
<1>3. \A k \in S : ~ (k < m)
  BY <1>2
<1> QED BY <1>3

LEMMA CountingUp ==
  ASSUME NEW n \in Nat, NEW S, 0 \in S, \A i \in 1..n : i - 1 \in S => i \in S
  PROVE  \A i \in 0..n : i \in S
<1> DEFINE Missed == {i \in 0..n : i \notin S}
<1> SUFFICES ASSUME Missed # {}
             PROVE  FALSE
  OBVIOUS
<1>1. PICK m \in Missed : \A k \in Missed : m <= k
  <2>1. Missed \in SUBSET Nat
    OBVIOUS
  <2> HIDE DEF Missed
  <2> QED BY <2>1, LeastNumber
<1>2. m \in 1..n /\ m \notin S
  BY <1>1
<1>3. m - 1 \notin Missed
  BY <1>1, <1>2
<1>4. m - 1 \in S
  BY <1>2, <1>3
<1> QED BY <1>2, <1>4
-----------------------------------------------------------------------------
(* A push, command by command.                                              *)

(* The switches a push leads through: the first is the one it finds, each    *)
(* command makes the next, and the last is what it leaves.                   *)
After(s, cmds, f, n) == IF n = 0 THEN s ELSE Apply(f[n - 1], cmds[n])

LEMMA Path ==
  ASSUME NEW s, NEW cmds, Len(cmds) \in Nat
  PROVE  \E f : /\ f[0] = s
                /\ \A n \in 1..Len(cmds) : f[n] = Apply(f[n - 1], cmds[n])
                /\ ApplyAll(s, cmds) = f[Len(cmds)]
<1> DEFINE L == Len(cmds)
           Begun == {n \in 0..L : \E f : f = [i \in 0..n |-> After(s, cmds, f, i)]}
<1>1. 0 \in Begun
  <2> DEFINE f == [i \in 0..0 |-> s]
  <2>1. f = [i \in 0..0 |-> After(s, cmds, f, i)]
    BY DEF After
  <2> QED BY <2>1
<1>2. ASSUME NEW n \in 1..L, n - 1 \in Begun
      PROVE  n \in Begun
  <2>1. PICK f : f = [i \in 0..(n - 1) |-> After(s, cmds, f, i)]
    BY <1>2
  <2> DEFINE g == [i \in 0..n |-> IF i = n THEN Apply(f[n - 1], cmds[n]) ELSE f[i]]
  <2>2. \A i \in 0..n : g[i] = After(s, cmds, g, i)
    <3> TAKE i \in 0..n
    <3>1. CASE i = n
      <4>1. g[n - 1] = f[n - 1]
        OBVIOUS
      <4> QED BY <3>1, <4>1 DEF After
    <3>2. CASE i # n
      <4>0. i \in 0..(n - 1)
        BY <3>2
      <4>1. f[i] = After(s, cmds, f, i)
        BY <2>1, <4>0, Zenon
      <4>2. i # 0 => g[i - 1] = f[i - 1]
        <5> SUFFICES ASSUME i # 0 PROVE g[i - 1] = f[i - 1]
          BY Zenon
        <5>1. i - 1 \in 0..n /\ i - 1 # n
          BY SMT
        <5> QED BY <5>1, Zenon
      <4> QED BY <3>2, <4>1, <4>2 DEF After
    <3> QED BY <3>1, <3>2
  <2>3. g = [i \in 0..n |-> After(s, cmds, g, i)]
    <3>1. g = [i \in 0..n |-> g[i]]
      BY Zenon
    <3> HIDE DEF g
    <3> QED BY <2>2, <3>1, Zenon
  <2>4. \E h : h = [i \in 0..n |-> After(s, cmds, h, i)]
    <3> HIDE DEF g
    <3> QED BY <2>3, Zenon
  <2> QED BY <2>4
<1>3. L \in Begun
  <2>1. \A i \in 0..L : i \in Begun
    <3> HIDE DEF Begun
    <3> QED BY <1>1, <1>2, CountingUp
  <2> QED BY <2>1
<1> DEFINE f == CHOOSE f : f = [i \in 0..L |-> After(s, cmds, f, i)]
<1>4. f = [i \in 0..L |-> After(s, cmds, f, i)]
  <2>1. \E g : g = [i \in 0..L |-> After(s, cmds, g, i)]
    BY <1>3
  <2> QED BY <2>1, Zenon
<1>5. ApplyAll(s, cmds) = f[L]
  BY Zenon DEF ApplyAll, After
<1>6. \A i \in 0..L : f[i] = After(s, cmds, f, i)
  <2> HIDE DEF f
  <2> QED BY <1>4, Zenon
<1> HIDE DEF f
<1>7. f[0] = s /\ \A n \in 1..L : f[n] = Apply(f[n - 1], cmds[n])
  BY <1>6 DEF After
<1> QED BY <1>5, <1>7, Zenon

-----------------------------------------------------------------------------
(* What the scripts send.                                                   *)

SentLines ==
  {"spanning-tree-portfast-bpduguard-default", "spanning-tree-loopguard-default",
   "spanning-tree-mode-rapid-pvst", "udld-enable", "service-timestamps-log-datetime-localtime",
   "logging-buffered", "login-on-failure-log", "login-on-success-log", "logging-userinfo",
   "ip-http-max-connections", "service-password-encryption", "mls-qos", "ssh-macs", "ssh-ciphers",
   "ip-dhcp-snooping", "ntp-authenticate", "enable-secret", "aaa-new-model"} \cup Archive
Withdrawn == {"no-ip-igmp-snooping"} \cup Services

Blocking == [attempts |-> 3, seconds |-> 900]
Policy == [name |-> "STIG_PASSWORD_POLICY", meets |-> PolicyRules]
Method == [group |-> "radius", local |-> TRUE]

\* The configuration a script sorts the ports by.
Sorted(read) == Expanded(read, ReadTemplates(read))

AccessLines == {"portfast", "switchport-block-unicast", "storm-control"}
TrunkLines == {"switchport-nonegotiate", "dhcp-snooping-trust", "arp-inspection-trust"}
RawLines == {"ip-verify-source", "device-tracking"}
Pruning(read) == Allow("only", TrunkVlans(read.db))

\* What may become of a port's lines.
LinesFor(p, read) ==
  (IF p \in AccessPorts(Sorted(read)) THEN AccessLines ELSE {})
    \cup (IF p \in TrunkPorts(Sorted(read)) THEN TrunkLines ELSE {})
    \cup (IF p \in TrunkPorts(Sorted(read)) \ read.root THEN {"guard-root"} ELSE {})
    \cup (IF p \in RawAccessPorts(read) THEN RawLines ELSE {})

Ranges(read) == {0, 5} \X {4, HighestVty(read)}

LineCommands == {Lines(x) : x \in SUBSET SentLines} \cup {No(x) : x \in SUBSET Withdrawn}
    \cup {SshVersion2}
Settings ==
  {Set("block", Blocking), Set("trap", 2), Set("filePrivilege", 15), Set("con", 5),
   Set("vtp", "shown"), Set("snmp", "sha-aes")}
Entries ==
  {Add("syslog", Inventory.syslog), Add("ntpKeys", {1}), Add("ntpTrusted", {1}),
   Add("ntpServers", Inventory.ntp), Add("ntpUsed", {1}), Add("radius", Inventory.radius),
   Add("methods", {Method}), Add("policies", {Policy})}
VlanCommands(read) ==
  {Add("db", Configured(v)) : v \in {Inventory.native, Inventory.default, Inventory.unused}}
    \cup {Add("snoop", HardenedUserVlans(read.db)), Add("dai", HardenedUserVlans(read.db))}
LimitCommands(read) ==
  {Vty(r, "limit", TRUE) : r \in Ranges(read)} \cup {Vty(r, "timeout", 5) : r \in Ranges(read)}
TransportCommands(read) ==
  {Vty(r, "transport", "ssh") : r \in Ranges(read)}
    \cup {Vty(r, "transport", "none") : r \in Ranges(read)}
ListCommands(read) ==
  {PermitIn("VTY_MGMT", Inventory.automation)}
    \cup {Vty(r, "acl", "VTY_MGMT") : r \in Ranges(read)}
LoginCommands(read) == LimitCommands(read) \cup TransportCommands(read) \cup ListCommands(read)
PortSettings(read) ==
  {OnPort(p, "mode", "access") : p \in AccessPorts(Sorted(read))}
    \cup (IF Inventory.unused = NoVlan THEN {}
          ELSE {OnPort(p, "vlan", Inventory.unused) : p \in ShutAccessPorts(Sorted(read))})
    \cup (IF TrunkVlans(read.db) = {} THEN {}
          ELSE {OnPort(p, "allowed", Pruning(read)) : p \in TrunkPorts(Sorted(read))})
    \cup (IF Inventory.native = NoVlan THEN {}
          ELSE {OnPort(p, "native", Inventory.native) : p \in TrunkPorts(Sorted(read))})
PortCommands(read) ==
  PortSettings(read) \cup UNION {{PortLines(p, x) : x \in SUBSET LinesFor(p, read)} : p \in Port}

\* What all of them send, and what only two of them do.
Tame(read) ==
  LineCommands \cup Settings \cup Entries \cup VlanCommands(read) \cup LimitCommands(read)
    \cup PortCommands(read)
Sendable(read) == Tame(read) \cup TransportCommands(read) \cup ListCommands(read)

LEMMA ShortSeqs ==
  ASSUME NEW S, NEW a \in S, NEW b \in S
  PROVE  <<a>> \in Seq(S) /\ <<a, b>> \in Seq(S)
OBVIOUS

LEMMA BaseSent == ASSUME NEW read PROVE BaseFixes \in Seq(Tame(read))
<1>1. Lines({"spanning-tree-portfast-bpduguard-default", "spanning-tree-loopguard-default",
             "spanning-tree-mode-rapid-pvst", "udld-enable"}) \in LineCommands
  BY DEF LineCommands, SentLines
<1>2. No({"no-ip-igmp-snooping"}) \in LineCommands
  BY DEF LineCommands, Withdrawn
<1>3. Lines({"service-timestamps-log-datetime-localtime", "logging-buffered",
             "login-on-failure-log", "login-on-success-log"}) \in LineCommands
  BY DEF LineCommands, SentLines
<1>4. Lines({"logging-userinfo", "ip-http-max-connections", "service-password-encryption"}
            \cup IF Book = "ios" THEN {"mls-qos"} ELSE {}) \in LineCommands
  BY DEF LineCommands, SentLines
<1>5. {Set("block", [attempts |-> 3, seconds |-> 900]), Set("trap", 2),
       Set("filePrivilege", 15)} \subseteq Settings
  BY DEF Settings, Blocking
<1>6. LineCommands \cup Settings \subseteq Tame(read)
  BY DEF Tame
<1> HIDE DEF LineCommands, Settings, Tame, Lines, No, Set
<1> QED BY <1>1, <1>2, <1>3, <1>4, <1>5, <1>6 DEF BaseFixes

LEMMA LoggingSent ==
  ASSUME NEW read
  PROVE  /\ LoggingFixes \in Seq(Tame(read)) /\ SshFixes \in Seq(Tame(read))
         /\ ServicesFix \in Seq(Tame(read)) /\ ArchiveFix \in Seq(Tame(read))
         /\ ConsoleFix \in Seq(Tame(read))
<1>1. Lines({"service-timestamps-log-datetime-localtime", "logging-buffered",
             "login-on-failure-log", "login-on-success-log", "logging-userinfo"}) \in LineCommands
  BY DEF LineCommands, SentLines
<1>2. {Lines({"ssh-macs"}), Lines({"ssh-ciphers"}), Lines(Archive), No(Services), SshVersion2}
        \subseteq LineCommands
  BY DEF LineCommands, SentLines, Withdrawn
<1>3. {Set("block", [attempts |-> 3, seconds |-> 900]), Set("trap", 2),
       Set("filePrivilege", 15), Set("con", 5)} \subseteq Settings
  BY DEF Settings, Blocking
<1>4. LineCommands \cup Settings \subseteq Tame(read)
  BY DEF Tame
<1> HIDE DEF LineCommands, Settings, Tame, Lines, No, Set, SshVersion2
<1> QED BY <1>1, <1>2, <1>3, <1>4 DEF LoggingFixes, SshFixes, ServicesFix, ArchiveFix, ConsoleFix

LEMMA ServersSent ==
  ASSUME NEW read
  PROVE  /\ SyslogFix \in Seq(Tame(read)) /\ NtpFix \in Seq(Tame(read))
         /\ Secret("vtp", "vtp", "shown") \in Seq(Tame(read))
         /\ Secret("snmp", "snmp", "sha-aes") \in Seq(Tame(read))
         /\ AaaCommands \in Seq(Tame(read))
<1>1. {Lines({"ntp-authenticate"}), Lines({"enable-secret"}), Lines({"aaa-new-model"})}
        \subseteq LineCommands
  BY DEF LineCommands, SentLines
<1>2. {Add("syslog", Inventory.syslog), Add("ntpKeys", {1}), Add("ntpTrusted", {1}),
       Add("ntpServers", Inventory.ntp), Add("ntpUsed", {1}), Add("radius", Inventory.radius),
       Add("methods", {[group |-> "radius", local |-> TRUE]}),
       Add("policies", {[name |-> "STIG_PASSWORD_POLICY", meets |-> PolicyRules]})}
        \subseteq Entries
  BY DEF Entries, Method, Policy
<1>3. {Set("vtp", "shown"), Set("snmp", "sha-aes")} \subseteq Settings
  BY DEF Settings
<1>5. LineCommands \cup Settings \cup Entries \subseteq Tame(read)
  BY DEF Tame
<1> HIDE DEF LineCommands, Settings, Entries, Tame, Lines, Set, Add
<1>6. SyslogFix \in Seq(Tame(read)) /\ NtpFix \in Seq(Tame(read))
  BY <1>1, <1>2, <1>5 DEF SyslogFix, NtpFix
<1>7. /\ Secret("vtp", "vtp", "shown") \in Seq(Tame(read))
      /\ Secret("snmp", "snmp", "sha-aes") \in Seq(Tame(read))
  BY <1>3, <1>5 DEF Secret
<1>8. AaaCommands \in Seq(Tame(read))
  BY <1>1, <1>2, <1>5 DEF AaaCommands
<1> QED BY <1>6, <1>7, <1>8

LEMMA AclSent == ASSUME NEW read PROVE AclCommands \in Seq(ListCommands(read))
<1>1. <<0, 4>> \in Ranges(read)
  BY DEF Ranges
<1>2. {PermitIn("VTY_MGMT", Inventory.automation), Vty(<<0, 4>>, "acl", "VTY_MGMT")}
        \subseteq ListCommands(read)
  BY <1>1 DEF ListCommands
<1> HIDE DEF ListCommands, PermitIn, Vty
<1> QED BY <1>2 DEF AclCommands

LEMMA GlobalSent == ASSUME NEW read PROVE GlobalCommands(read) \in Seq(Tame(read))
<1> DEFINE users == HardenedUserVlans(read.db)
           S == Tame(read)
<1>1. <<Vty(<<0, 4>>, "limit", TRUE), Vty(<<0, 4>>, "timeout", 5)>> \in Seq(S)
  <2>1. <<0, 4>> \in Ranges(read)
    BY DEF Ranges
  <2>2. Vty(<<0, 4>>, "limit", TRUE) \in S /\ Vty(<<0, 4>>, "timeout", 5) \in S
    BY <2>1 DEF LimitCommands, Tame
  <2> HIDE DEF S
  <2> QED BY <2>2, ShortSeqs, Zenon
<1>2. (IF users = {} THEN <<>>
       ELSE <<Lines({"ip-dhcp-snooping"}), Add("snoop", users)>>) \in Seq(S)
  <2>1. Lines({"ip-dhcp-snooping"}) \in LineCommands
    BY DEF LineCommands, SentLines
  <2>2. Add("snoop", users) \in VlanCommands(read)
    BY DEF VlanCommands
  <2>3. LineCommands \cup VlanCommands(read) \subseteq S
    BY DEF Tame
  <2> HIDE DEF S, Lines, Add, users
  <2> QED BY <2>1, <2>2, <2>3
<1>3. /\ <<Add("db", Configured(Inventory.native))>> \in Seq(S)
      /\ <<Add("db", Configured(Inventory.default)), Add("db", Configured(Inventory.unused))>>
          \in Seq(S)
  <2>1. \A v \in {Inventory.native, Inventory.default, Inventory.unused} :
          Add("db", Configured(v)) \in VlanCommands(read)
    BY DEF VlanCommands
  <2>2. VlanCommands(read) \subseteq S
    BY DEF Tame
  <2> HIDE DEF S, Add
  <2> QED BY <2>1, <2>2
<1>4. BaseFixes \in Seq(S)
  BY BaseSent
<1>5. ServicesFix \in Seq(S) /\ SshFixes \in Seq(S) /\ ArchiveFix \in Seq(S)
        /\ ConsoleFix \in Seq(S)
  BY LoggingSent
<1>6. /\ Secret("vtp", "vtp", "shown") \in Seq(S) /\ Secret("snmp", "snmp", "sha-aes") \in Seq(S)
      /\ NtpFix \in Seq(S) /\ SyslogFix \in Seq(S)
  BY ServersSent
<1> DEFINE lines == <<Vty(<<0, 4>>, "limit", TRUE), Vty(<<0, 4>>, "timeout", 5)>>
           snooping == IF users = {} THEN <<>>
                       ELSE <<Lines({"ip-dhcp-snooping"}), Add("snoop", users)>>
           native == <<Add("db", Configured(Inventory.native))>>
           vlans == <<Add("db", Configured(Inventory.default)),
                      Add("db", Configured(Inventory.unused))>>
           vtp == Secret("vtp", "vtp", "shown")
           snmp == Secret("snmp", "snmp", "sha-aes")
<1>7. GlobalCommands(read)
        = BaseFixes \o ServicesFix \o SshFixes \o ArchiveFix \o lines \o ConsoleFix \o snooping
            \o native \o vtp \o vlans \o snmp \o NtpFix \o SyslogFix
  BY Zenon DEF GlobalCommands
<1> HIDE DEF S, users, lines, snooping, native, vlans, vtp, snmp
<1>8. /\ lines \in Seq(S) /\ snooping \in Seq(S) /\ native \in Seq(S) /\ vlans \in Seq(S)
      /\ vtp \in Seq(S) /\ snmp \in Seq(S)
  BY <1>1, <1>2, <1>3, <1>6, Zenon DEF lines, snooping, native, vlans, vtp, snmp
<1>9. GlobalCommands(read) \in Seq(S)
  BY <1>4, <1>5, <1>6, <1>7, <1>8
<1> QED BY <1>9 DEF S

\* The logging script sends its lists first and its settings of the vty lines last.
LoggingFront(read) ==
  LoggingFixes \o SshFixes \o ServicesFix \o ArchiveFix
    \o (IF Cardinality(Inventory.syslog) >= 2 THEN SyslogFix ELSE <<>>) \o ConsoleFix

LEMMA LoggingSplit ==
  ASSUME NEW read
  PROVE  /\ LoggingFront(read) \in Seq(Tame(read))
         /\ LoggingCommands(read) = LoggingFront(read) \o VtyFixes(HighestVty(read))
<1> DEFINE S == Tame(read)
           servers == IF Cardinality(Inventory.syslog) >= 2 THEN SyslogFix ELSE <<>>
<1>1. /\ LoggingFixes \in Seq(S) /\ SshFixes \in Seq(S) /\ ServicesFix \in Seq(S)
      /\ ArchiveFix \in Seq(S) /\ ConsoleFix \in Seq(S)
  BY LoggingSent
<1>2. SyslogFix \in Seq(S)
  BY ServersSent
<1> HIDE DEF S
<1>3. servers \in Seq(S)
  BY <1>2
<1>4. /\ LoggingFront(read)
           = LoggingFixes \o SshFixes \o ServicesFix \o ArchiveFix \o servers \o ConsoleFix
      /\ LoggingCommands(read)
           = LoggingFixes \o SshFixes \o ServicesFix \o ArchiveFix \o servers \o ConsoleFix
               \o VtyFixes(HighestVty(read))
  BY Zenon DEF LoggingFront, LoggingCommands
<1> HIDE DEF servers
<1>5. LoggingFront(read) \in Seq(S)
  BY <1>1, <1>3, <1>4
<1> QED BY <1>4, <1>5, Zenon DEF S

\* Its settings of the lines: the limit is first, and lines are closed last.
LEMMA VtyFixesAre ==
  ASSUME NEW h
  PROVE  VtyFixes(h) = <<Vty(<<0, h>>, "limit", TRUE), Vty(<<0, h>>, "timeout", 5),
                         Vty(<<0, 4>>, "transport", "ssh")>>
                         \o IF h > 4 THEN <<Vty(<<5, h>>, "transport", "none")>> ELSE <<>>
BY Zenon DEF VtyFixes

LEMMA VtyFixesSent ==
  ASSUME NEW read
  PROVE  VtyFixes(HighestVty(read)) \in Seq(Tame(read) \cup TransportCommands(read))
<1> DEFINE S == Tame(read) \cup TransportCommands(read)
           h == HighestVty(read)
           limit == Vty(<<0, h>>, "limit", TRUE)
           timeout == Vty(<<0, h>>, "timeout", 5)
           open == Vty(<<0, 4>>, "transport", "ssh")
           closed == Vty(<<5, h>>, "transport", "none")
<1>1. {<<0, 4>>, <<0, h>>, <<5, h>>} \subseteq Ranges(read)
  BY DEF Ranges
<1>2. limit \in S /\ timeout \in S /\ open \in S /\ closed \in S
  <2> HIDE DEF h
  <2> QED BY <1>1 DEF LimitCommands, TransportCommands, Tame
<1>3. VtyFixes(h) = <<limit, timeout, open>> \o IF h > 4 THEN <<closed>> ELSE <<>>
  BY VtyFixesAre, Zenon
<1> HIDE DEF S, h, limit, timeout, open, closed
<1>4. VtyFixes(h) \in Seq(S)
  BY <1>2, <1>3
<1> QED BY <1>4, Zenon DEF S, h

\* A list of batches, one behind the other.
Flat(ss, f, i) == IF i = 1 THEN ss[i] ELSE f[i - 1] \o ss[i]

\* The prefix relation, through the places of what is in the shorter one.
Holds(s, t) == \A k \in 1..Len(s) : \E n \in 1..Len(t) : t[n] = s[k]

LEMMA FlatStep ==
  ASSUME NEW S, NEW s \in Seq(S), NEW t \in Seq(S)
  PROVE  s \o t \in Seq(S) /\ Holds(s, s \o t) /\ Holds(t, s \o t)
<1>1. \A k \in 1..Len(s) : k \in 1..Len(s \o t) /\ (s \o t)[k] = s[k]
  OBVIOUS
<1>2. \A k \in 1..Len(t) : Len(s) + k \in 1..Len(s \o t) /\ (s \o t)[Len(s) + k] = t[k]
  OBVIOUS
<1>3. s \o t \in Seq(S)
  OBVIOUS
<1> DEFINE u == s \o t
<1> HIDE DEF u
<1>4. Holds(s, u) /\ Holds(t, u)
  BY <1>1, <1>2, Zenon DEF Holds, u
<1> QED BY <1>3, <1>4, Zenon DEF u

LEMMA HoldsOn ==
  ASSUME NEW s, NEW t, NEW u, Holds(s, t), Holds(t, u)
  PROVE  Holds(s, u)
BY Zenon DEF Holds

LEMMA Flattened ==
  ASSUME NEW S, NEW ss, Len(ss) \in Nat, ss = [i \in 1..Len(ss) |-> ss[i]],
         \A i \in 1..Len(ss) : ss[i] \in Seq(S)
  PROVE  FlattenSeq(ss) \in Seq(S) /\ \A i \in 1..Len(ss) : Holds(ss[i], FlattenSeq(ss))
<1> DEFINE L == Len(ss)
<1>1. CASE L = 0
  <2>1. ss = <<>>
    BY <1>1
  <2> QED BY <1>1, <2>1 DEF FlattenSeq
<1>2. CASE L # 0
  <2> DEFINE Begun == {n \in 0..L : n = 0 \/ \E f : f = [i \in 1..n |-> Flat(ss, f, i)]}
  <2>1. 0 \in Begun
    OBVIOUS
  <2>2. ASSUME NEW n \in 1..L, n - 1 \in Begun
        PROVE  n \in Begun
    <3>1. PICK f : n # 1 => f = [i \in 1..(n - 1) |-> Flat(ss, f, i)]
      BY <2>2, SMT
    <3> DEFINE g == [i \in 1..n |-> IF i = n THEN Flat(ss, f, n) ELSE f[i]]
    <3>2. \A i \in 1..n : g[i] = Flat(ss, g, i)
      <4> TAKE i \in 1..n
      <4>1. CASE i = n
        <5>1. n # 1 => g[n - 1] = f[n - 1]
          OBVIOUS
        <5> QED BY <4>1, <5>1 DEF Flat
      <4>2. CASE i # n
        <5>1. i \in 1..(n - 1) /\ n # 1 /\ (i # 1 => i - 1 \in 1..n /\ i - 1 # n)
          BY <4>2
        <5>2. f[i] = Flat(ss, f, i)
          <6>1. f = [j \in 1..(n - 1) |-> Flat(ss, f, j)]
            BY <3>1, <5>1
          <6>2. f[i] = [j \in 1..(n - 1) |-> Flat(ss, f, j)][i]
            BY <6>1, Zenon
          <6> QED BY <5>1, <6>2, Zenon
        <5>3. i # 1 => g[i - 1] = f[i - 1]
          BY <5>1, Zenon
        <5> QED BY <4>2, <5>2, <5>3 DEF Flat
      <4> QED BY <4>1, <4>2
    <3>3. g = [i \in 1..n |-> Flat(ss, g, i)]
      <4>1. g = [i \in 1..n |-> g[i]]
        BY Zenon
      <4> HIDE DEF g
      <4> QED BY <3>2, <4>1, Zenon
    <3>4. \E h : h = [i \in 1..n |-> Flat(ss, h, i)]
      <4> HIDE DEF g
      <4> QED BY <3>3, Zenon
    <3> QED BY <3>4
  <2>3. L \in Begun
    <3>1. \A i \in 0..L : i \in Begun
      <4> HIDE DEF Begun
      <4> QED BY <2>1, <2>2, CountingUp
    <3> QED BY <3>1
  <2> DEFINE f == CHOOSE f : f = [i \in 1..L |-> Flat(ss, f, i)]
  <2>4. f = [i \in 1..L |-> Flat(ss, f, i)]
    <3>1. \E g : g = [i \in 1..L |-> Flat(ss, g, i)]
      BY <1>2, <2>3
    <3> QED BY <3>1, Zenon
  <2>5. FlattenSeq(ss) = f[L]
    BY <1>2, Zenon DEF FlattenSeq, Flat
  <2>6. \A i \in 1..L : f[i] = Flat(ss, f, i)
    <3> HIDE DEF f
    <3> QED BY <2>4, Zenon
  <2> HIDE DEF f
  <2> DEFINE Good == {n \in 0..L : n # 0 => f[n] \in Seq(S) /\ \A i \in 1..n : Holds(ss[i], f[n])}
  <2>7. 0 \in Good
    OBVIOUS
  <2>8. ASSUME NEW n \in 1..L, n - 1 \in Good
        PROVE  n \in Good
    <3> SUFFICES f[n] \in Seq(S) /\ \A i \in 1..n : Holds(ss[i], f[n])
      OBVIOUS
    <3>1. CASE n = 1
      <4>1. f[n] = ss[n]
        BY <2>6, <3>1 DEF Flat
      <4>2. \A k \in 1..Len(ss[1]) : \E m \in 1..Len(ss[1]) : ss[1][m] = ss[1][k]
        OBVIOUS
      <4>3. Holds(ss[1], f[1]) /\ f[1] \in Seq(S)
        BY <3>1, <4>1, <4>2 DEF Holds
      <4>4. \A i \in 1..n : i = 1
        BY <3>1
      <4> HIDE DEF Good
      <4> QED BY <3>1, <4>3, <4>4
    <3>2. CASE n # 1
      <4>1. f[n] = f[n - 1] \o ss[n]
        BY <2>6, <3>2 DEF Flat
      <4>2. n - 1 # 0 /\ f[n - 1] \in Seq(S) /\ \A i \in 1..(n - 1) : Holds(ss[i], f[n - 1])
        BY <2>8, <3>2
      <4>3. f[n] \in Seq(S) /\ Holds(f[n - 1], f[n]) /\ Holds(ss[n], f[n])
        <5>1. ss[n] \in Seq(S)
          OBVIOUS
        <5> HIDE DEF Good
        <5> QED BY <4>1, <4>2, <5>1, FlatStep
      <4>4. \A i \in 1..(n - 1) : Holds(ss[i], f[n])
        BY <4>2, <4>3, HoldsOn, Zenon
      <4>5. \A i \in 1..n : i = n \/ i \in 1..(n - 1)
        OBVIOUS
      <4> HIDE DEF Good
      <4> QED BY <4>3, <4>4, <4>5
    <3> QED BY <3>1, <3>2
  <2>9. L \in Good
    <3>1. \A i \in 0..L : i \in Good
      <4> HIDE DEF Good
      <4> QED BY <2>7, <2>8, CountingUp
    <3> QED BY <3>1
  <2> QED BY <1>2, <2>5, <2>9
<1> QED BY <1>1, <1>2

LEMMA Listed ==
  ASSUME NEW S, IsFiniteSet(S)
  PROVE  /\ Cardinality(S) \in Nat
         /\ SetToSeq(S) \in [1..Cardinality(S) -> S]
         /\ \A x \in S : \E i \in 1..Cardinality(S) : SetToSeq(S)[i] = x
<1> DEFINE n == Cardinality(S)
<1>1. n \in Nat /\ ExistsBijection(1..n, S)
  BY FS_CardinalityType
<1>2. \E f \in [1..n -> S] : IsInjective(f)
  BY <1>1, Zenon DEF ExistsBijection, Bijection, Injection
<1>3. SetToSeq(S) \in [1..n -> S] /\ IsInjective(SetToSeq(S))
  BY <1>2, Zenon DEF SetToSeq
<1>4. SetToSeq(S) \in Injection(1..n, S)
  BY <1>3, Zenon DEF Injection
<1>5. Cardinality(1..n) = n
  BY <1>1, FS_Interval
<1>6. SetToSeq(S) \in Surjection(1..n, S)
  <2> HIDE DEF n
  <2> QED BY <1>1, <1>4, <1>5, FS_Injection DEF n
<1> QED BY <1>1, <1>3, <1>6, Zenon DEF Surjection

\* The batch of a loop over ports, which sends of[p] for a port p.
EachOf(ports, of) == FlattenSeq([i \in 1..Cardinality(ports) |-> of[SetToSeq(ports)[i]]])

LEMMA EachHeld ==
  ASSUME NEW S, NEW ports, IsFiniteSet(ports), NEW of, \A p \in ports : of[p] \in Seq(S)
  PROVE  EachOf(ports, of) \in Seq(S) /\ \A p \in ports : Holds(of[p], EachOf(ports, of))
<1> DEFINE n == Cardinality(ports)
           ss == [i \in 1..n |-> of[SetToSeq(ports)[i]]]
<1>1. /\ n \in Nat /\ SetToSeq(ports) \in [1..n -> ports]
      /\ \A p \in ports : \E i \in 1..n : SetToSeq(ports)[i] = p
  BY Listed
<1>2. Len(ss) = n /\ ss = [i \in 1..n |-> ss[i]] /\ \A i \in 1..n : ss[i] = of[SetToSeq(ports)[i]]
  BY <1>1
<1>3. EachOf(ports, of) = FlattenSeq(ss)
  BY Zenon DEF EachOf
<1> HIDE DEF ss, n
<1>4. \A i \in 1..n : ss[i] \in Seq(S)
  BY <1>1, <1>2
<1>5. FlattenSeq(ss) \in Seq(S) /\ \A i \in 1..n : Holds(ss[i], FlattenSeq(ss))
  <2>1. Len(ss) \in Nat /\ ss = [i \in 1..Len(ss) |-> ss[i]]
          /\ \A i \in 1..Len(ss) : ss[i] \in Seq(S)
    BY <1>1, <1>2, <1>4, Zenon
  <2>2. FlattenSeq(ss) \in Seq(S) /\ \A i \in 1..Len(ss) : Holds(ss[i], FlattenSeq(ss))
    BY <2>1, Flattened
  <2> QED BY <1>2, <2>2, Zenon
<1>6. \A p \in ports : Holds(of[p], FlattenSeq(ss))
  <2> TAKE p \in ports
  <2>1. PICK i \in 1..n : SetToSeq(ports)[i] = p
    BY <1>1, Zenon
  <2>2. ss[i] = of[p]
    BY <1>2, <2>1, Zenon
  <2> QED BY <1>5, <2>2, Zenon
<1> QED BY <1>3, <1>5, <1>6, Zenon

\* What each loop sends for a port.
AccessOf(read) ==
  [p \in AccessPorts(Sorted(read)) |->
    <<OnPort(p, "mode", "access"), PortLines(p, {"portfast", "switchport-block-unicast"})>>
      \o (IF p \in ShutAccessPorts(Sorted(read)) /\ Inventory.unused # NoVlan
          THEN <<OnPort(p, "vlan", Inventory.unused)>> ELSE <<>>)
      \o (IF p \in FastPort THEN <<>> ELSE <<PortLines(p, {"storm-control"})>>)]
TrunkOf(read) ==
  [p \in TrunkPorts(Sorted(read)) |->
    <<PortLines(p, {"switchport-nonegotiate", "dhcp-snooping-trust", "arp-inspection-trust"})>>
      \o (IF TrunkVlans(read.db) = {} THEN <<>> ELSE <<OnPort(p, "allowed", Pruning(read))>>)
      \o (IF Inventory.native = NoVlan THEN <<>> ELSE <<OnPort(p, "native", Inventory.native)>>)
      \o GuardOn(p, read)]
RawOf(read, line) == [p \in RawAccessPorts(read) |-> <<PortLines(p, {line})>>]

LEMMA PortsFinite ==
  ASSUME NEW c
  PROVE  /\ AccessPorts(c) \subseteq Port /\ IsFiniteSet(AccessPorts(c))
         /\ TrunkPorts(c) \subseteq Port /\ IsFiniteSet(TrunkPorts(c))
         /\ RawAccessPorts(c) \subseteq Port /\ IsFiniteSet(RawAccessPorts(c))
         /\ ShutAccessPorts(c) \subseteq AccessPorts(c)
<1>1. /\ AccessPorts(c) \subseteq Port /\ TrunkPorts(c) \subseteq Port
      /\ RawAccessPorts(c) \subseteq Port
      /\ ShutAccessPorts(c) \subseteq AccessPorts(c)
  BY Zenon DEF AccessPorts, TrunkPorts, RawAccessPorts, ShutAccessPorts, Switchports
<1> QED BY <1>1, InventoryAssumption, FS_Subset, Zenon

LEMMA LoopsAreEach ==
  ASSUME NEW read
  PROVE  /\ AccessCommands(read) = EachOf(AccessPorts(Sorted(read)), AccessOf(read))
         /\ TrunkCommands(read) = EachOf(TrunkPorts(Sorted(read)), TrunkOf(read))
         /\ SourceGuardCommands(read)
             = EachOf(RawAccessPorts(read), RawOf(read, "ip-verify-source"))
         /\ TrackingCommands(read) = EachOf(RawAccessPorts(read), RawOf(read, "device-tracking"))
<1> DEFINE A == AccessPorts(Sorted(read))
           T == TrunkPorts(Sorted(read))
           R == RawAccessPorts(read)
<1>1. /\ Cardinality(A) \in Nat /\ SetToSeq(A) \in [1..Cardinality(A) -> A]
      /\ Cardinality(T) \in Nat /\ SetToSeq(T) \in [1..Cardinality(T) -> T]
      /\ Cardinality(R) \in Nat /\ SetToSeq(R) \in [1..Cardinality(R) -> R]
  BY PortsFinite, Listed
<1>2. AccessCommands(read) = EachOf(A, AccessOf(read))
  BY <1>1 DEF AccessCommands, ForEach, EachOf, AccessOf, Sorted
<1>3. TrunkCommands(read) = EachOf(T, TrunkOf(read))
  BY <1>1 DEF TrunkCommands, ForEach, EachOf, TrunkOf, Sorted, Pruning
<1>4. /\ SourceGuardCommands(read) = EachOf(R, RawOf(read, "ip-verify-source"))
      /\ TrackingCommands(read) = EachOf(R, RawOf(read, "device-tracking"))
  BY <1>1 DEF SourceGuardCommands, TrackingCommands, ForEach, EachOf, RawOf
<1> QED BY <1>2, <1>3, <1>4

LEMMA PortLinesSent ==
  ASSUME NEW read, NEW p \in Port, NEW x \in SUBSET LinesFor(p, read)
  PROVE  PortLines(p, x) \in Tame(read)
<1> DEFINE Of(q) == {PortLines(q, y) : y \in SUBSET LinesFor(q, read)}
<1>1. PortLines(p, x) \in UNION {Of(q) : q \in Port}
  <2>1. PortLines(p, x) \in Of(p)
    BY Zenon
  <2>2. Of(p) \in {Of(q) : q \in Port}
    BY Zenon
  <2> QED BY <2>1, <2>2, Zenon
<1> QED BY <1>1, Zenon DEF Tame, PortCommands

LEMMA AccessOfSent ==
  ASSUME NEW read, NEW p \in AccessPorts(Sorted(read))
  PROVE  AccessOf(read)[p] \in Seq(Tame(read))
<1> DEFINE S == Tame(read)
           first == OnPort(p, "mode", "access")
           both == PortLines(p, {"portfast", "switchport-block-unicast"})
           away == OnPort(p, "vlan", Inventory.unused)
           storm == PortLines(p, {"storm-control"})
           shut == p \in ShutAccessPorts(Sorted(read)) /\ Inventory.unused # NoVlan
<1>1. AccessOf(read)[p]
        = <<first, both>> \o (IF shut THEN <<away>> ELSE <<>>)
            \o (IF p \in FastPort THEN <<>> ELSE <<storm>>)
  BY Zenon DEF AccessOf
<1>2. p \in Port
  BY PortsFinite, Zenon
<1>3. AccessLines \subseteq LinesFor(p, read)
  BY DEF LinesFor
<1>4. both \in S /\ storm \in S
  <2>1. {"portfast", "switchport-block-unicast"} \subseteq LinesFor(p, read)
    BY <1>3 DEF AccessLines
  <2>2. {"storm-control"} \subseteq LinesFor(p, read)
    BY <1>3 DEF AccessLines
  <2> QED BY <1>2, <2>1, <2>2, PortLinesSent, Zenon
<1>5. PortSettings(read) \subseteq S
  BY Zenon DEF Tame, PortCommands
<1>6. first \in S
  <2>1. first \in PortSettings(read)
    BY Zenon DEF PortSettings
  <2> QED BY <1>5, <2>1, Zenon
<1>7. shut => away \in S
  <2>1. shut => away \in PortSettings(read)
    BY Zenon DEF PortSettings
  <2> QED BY <1>5, <2>1, Zenon
<1> HIDE DEF S, first, both, away, storm, shut
<1>8. AccessOf(read)[p] \in Seq(S)
  BY <1>1, <1>4, <1>6, <1>7
<1> QED BY <1>8 DEF S

LEMMA TrunkOfSent ==
  ASSUME NEW read, NEW p \in TrunkPorts(Sorted(read))
  PROVE  TrunkOf(read)[p] \in Seq(Tame(read))
<1> DEFINE S == Tame(read)
           lines ==
             PortLines(p, {"switchport-nonegotiate", "dhcp-snooping-trust",
                            "arp-inspection-trust"})
           pruned == OnPort(p, "allowed", Pruning(read))
           native == OnPort(p, "native", Inventory.native)
           guarded == PortLines(p, {"guard-root"})
           all == TrunkVlans(read.db) = {}
           same == Inventory.native = NoVlan
<1>1. TrunkOf(read)[p]
        = <<lines>> \o (IF all THEN <<>> ELSE <<pruned>>) \o (IF same THEN <<>> ELSE <<native>>)
            \o (IF p \in read.root THEN <<>> ELSE <<guarded>>)
  BY Zenon DEF TrunkOf, GuardOn
<1>2. p \in Port
  BY PortsFinite, Zenon
<1>3. lines \in S
  <2>1. {"switchport-nonegotiate", "dhcp-snooping-trust", "arp-inspection-trust"}
            \subseteq LinesFor(p, read)
    BY DEF LinesFor, TrunkLines
  <2> QED BY <1>2, <2>1, PortLinesSent, Zenon
<1>4. p \notin read.root => guarded \in S
  <2>1. p \notin read.root => {"guard-root"} \subseteq LinesFor(p, read)
    BY DEF LinesFor
  <2> QED BY <1>2, <2>1, PortLinesSent, Zenon
<1>5. PortSettings(read) \subseteq S
  BY Zenon DEF Tame, PortCommands
<1>6. ~ all => pruned \in S
  <2>1. ~ all => pruned \in PortSettings(read)
    BY Zenon DEF PortSettings
  <2> QED BY <1>5, <2>1, Zenon
<1>7. ~ same => native \in S
  <2>1. ~ same => native \in PortSettings(read)
    BY Zenon DEF PortSettings
  <2> QED BY <1>5, <2>1, Zenon
<1> HIDE DEF S, lines, pruned, native, guarded, all, same
<1>8. TrunkOf(read)[p] \in Seq(S)
  BY <1>1, <1>3, <1>4, <1>6, <1>7
<1> QED BY <1>8 DEF S

LEMMA RawOfSent ==
  ASSUME NEW read, NEW p \in RawAccessPorts(read), NEW line \in RawLines
  PROVE  RawOf(read, line)[p] \in Seq(Tame(read))
<1>1. {line} \subseteq LinesFor(p, read) /\ p \in Port
  BY PortsFinite DEF LinesFor
<1>2. PortLines(p, {line}) \in Tame(read)
  BY <1>1, PortLinesSent, Zenon
<1>3. RawOf(read, line)[p] = <<PortLines(p, {line})>>
  BY Zenon DEF RawOf
<1> QED BY <1>2, <1>3, ShortSeqs, Zenon

\* Everything a script sends is one of the commands above.
LEMMA CommandsTame ==
  ASSUME NEW read, NEW s \in Scripts \ {"acl", "logging"}
  PROVE  Commands(s, read) \in Seq(Tame(read))
<1> DEFINE S == Tame(read)
<1>1. CASE s = "global"
  BY <1>1, GlobalSent DEF Commands
<1>3. CASE s = "aaa"
  BY <1>3, ServersSent DEF Commands
<1>4. CASE s = "access"
  <2>1. EachOf(AccessPorts(Sorted(read)), AccessOf(read)) \in Seq(S)
    BY PortsFinite, AccessOfSent, EachHeld, Zenon
  <2>2. Commands(s, read) = AccessCommands(read)
    BY <1>4 DEF Commands
  <2> QED BY <2>1, <2>2, LoopsAreEach, Zenon
<1>5. CASE s = "trunk"
  <2>1. EachOf(TrunkPorts(Sorted(read)), TrunkOf(read)) \in Seq(S)
    BY PortsFinite, TrunkOfSent, EachHeld, Zenon
  <2>2. Commands(s, read) = TrunkCommands(read)
    BY <1>5 DEF Commands
  <2> QED BY <2>1, <2>2, LoopsAreEach, Zenon
<1>6. CASE s \in {"ipsg", "tracking"}
  <2>1. "ip-verify-source" \in RawLines /\ "device-tracking" \in RawLines
    BY DEF RawLines
  <2>2. /\ EachOf(RawAccessPorts(read), RawOf(read, "ip-verify-source")) \in Seq(S)
        /\ EachOf(RawAccessPorts(read), RawOf(read, "device-tracking")) \in Seq(S)
    BY <2>1, PortsFinite, RawOfSent, EachHeld, Zenon
  <2>3. Commands(s, read) \in {SourceGuardCommands(read), TrackingCommands(read)}
    BY <1>6 DEF Commands
  <2> QED BY <2>2, <2>3, LoopsAreEach, Zenon
<1>7. CASE s = "dai"
  <2>1. Add("dai", HardenedUserVlans(read.db)) \in S
    BY DEF Tame, VlanCommands
  <2>2. DaiCommands(read) \in Seq(S)
    <3> HIDE DEF S
    <3> QED BY <2>1, ShortSeqs DEF DaiCommands
  <2> QED BY <1>7, <2>2 DEF Commands
<1> QED BY <1>1, <1>3, <1>4, <1>5, <1>6, <1>7 DEF Scripts

LEMMA CommandsSent ==
  ASSUME NEW read, NEW s \in Scripts
  PROVE  Commands(s, read) \in Seq(Sendable(read))
<1>1. CASE s \in Scripts \ {"acl", "logging"}
  <2>1. Commands(s, read) \in Seq(Tame(read))
    BY <1>1, CommandsTame
  <2> HIDE DEF Tame
  <2> QED BY <2>1 DEF Sendable
<1>2. CASE s = "acl"
  <2>1. Commands(s, read) = AclCommands
    BY <1>2 DEF Commands
  <2>2. AclCommands \in Seq(ListCommands(read))
    BY AclSent
  <2> QED BY <2>1, <2>2 DEF Sendable
<1>3. CASE s = "logging"
  <2>1. Commands(s, read) = LoggingFront(read) \o VtyFixes(HighestVty(read))
    BY <1>3, LoggingSplit DEF Commands
  <2>2. LoggingFront(read) \in Seq(Sendable(read))
    <3>1. LoggingFront(read) \in Seq(Tame(read))
      BY LoggingSplit
    <3> QED BY <3>1 DEF Sendable
  <2>3. VtyFixes(HighestVty(read)) \in Seq(Sendable(read))
    <3>1. VtyFixes(HighestVty(read)) \in Seq(Tame(read) \cup TransportCommands(read))
      BY VtyFixesSent
    <3> QED BY <3>1 DEF Sendable
  <2> QED BY <2>1, <2>2, <2>3
<1> QED BY <1>1, <1>2, <1>3
-----------------------------------------------------------------------------
(* What a push may make of a switch.  Every command keeps within it, and so   *)
(* does a push of any length, whole or cut short.                            *)

Shaped(s) ==
  /\ DOMAIN s = Parts
  /\ DOMAIN s.ports = Port /\ \A p \in Port : DOMAIN s.ports[p] = PortParts
  /\ \A r \in DOMAIN s.vty : DOMAIN s.vty[r] = LineParts

Fixed ==
  {"vtyRead", "users", "groups", "model", "train", "minor", "enrolled", "reserving",
   "applets", "core", "root", "tmpl", "hidden"}
SameParts(s, t) == \A f \in Fixed : t[f] = s[f]

LinesOnward(s, t) ==
  /\ s.lines \ Withdrawn \subseteq t.lines
  /\ t.lines \subseteq s.lines \cup SentLines \cup {"ip-ssh-version-2"}

SettingsOnward(s, t) ==
  /\ t.block \in {s.block, Blocking} /\ t.trap \in {s.trap, 2} /\ t.con \in {s.con, 5}
  /\ t.filePrivilege \in {s.filePrivilege, 15}
  /\ t.vtp \in {s.vtp, "shown"} /\ t.snmp \in {s.snmp, "sha-aes"}
  /\ (t.ssh = s.ssh \/ (s.ssh = "1.99" /\ t.ssh = "2.0"))

\* A list only grows, by what the inventory has for it.
Grows(a, b, more) == a \subseteq b /\ b \subseteq a \cup more
ListsOnward(s, t, read) ==
  /\ Grows(s.syslog, t.syslog, Inventory.syslog) /\ Grows(s.radius, t.radius, Inventory.radius)
  /\ Grows(s.ntpServers, t.ntpServers, Inventory.ntp) /\ Grows(s.ntpKeys, t.ntpKeys, {1})
  /\ Grows(s.ntpTrusted, t.ntpTrusted, {1}) /\ Grows(s.ntpUsed, t.ntpUsed, {1})
  /\ Grows(s.methods, t.methods, {Method}) /\ Grows(s.policies, t.policies, {Policy})
  /\ Grows(s.db, t.db, {Inventory.native, Inventory.default, Inventory.unused} \ {NoVlan})
  /\ Grows(s.snoop, t.snoop, HardenedUserVlans(read.db))
  /\ Grows(s.dai, t.dai, HardenedUserVlans(read.db))

\* Nobody's lines are opened or shut but by the settings of the scripts.
VtyOnward(s, t) ==
  /\ DOMAIN t.vty = DOMAIN s.vty
  /\ \A r \in DOMAIN s.vty :
       /\ DOMAIN t.vty[r] = LineParts
       /\ t.vty[r].limit = s.vty[r].limit \/ t.vty[r].limit = TRUE
       /\ t.vty[r].timeout = s.vty[r].timeout \/ t.vty[r].timeout = 5
       /\ t.vty[r].transport = s.vty[r].transport \/ t.vty[r].transport \in {"ssh", "none"}
       /\ t.vty[r].acl = s.vty[r].acl \/ t.vty[r].acl = "VTY_MGMT"

Permitted(acls) == WithAcl(acls, "VTY_MGMT", Inventory.automation)
AclsOnward(s, t) == t.acls = s.acls \/ t.acls = Permitted(s.acls)

\* What becomes of a port.
PortOnward(p, b, d, read) ==
  /\ DOMAIN d = PortParts
  /\ d.l3 = b.l3 /\ d.state = b.state /\ d.source = b.source
  /\ d.uplink = b.uplink /\ d.policy = b.policy
  /\ d.mode = b.mode \/ (d.mode = "access" /\ p \in AccessPorts(Sorted(read)))
  /\ \/ d.vlan = b.vlan
     \/ d.vlan = Inventory.unused /\ d.vlan # NoVlan /\ p \in ShutAccessPorts(Sorted(read))
  /\ \/ d.native = b.native
     \/ d.native = Inventory.native /\ d.native # NoVlan /\ p \in TrunkPorts(Sorted(read))
  /\ d.allowed = b.allowed \/ (d.allowed = Pruning(read) /\ p \in TrunkPorts(Sorted(read)))
  /\ Grows(b.lines, d.lines, LinesFor(p, read))
PortsOnward(s, t, read) ==
  /\ DOMAIN t.ports = Port
  /\ \A p \in Port : PortOnward(p, s.ports[p], t.ports[p], read)

Onward(s, t, read) ==
  /\ Shaped(t) /\ SameParts(s, t)
  /\ LinesOnward(s, t) /\ SettingsOnward(s, t) /\ ListsOnward(s, t, read)
  /\ VtyOnward(s, t) /\ AclsOnward(s, t) /\ PortsOnward(s, t, read)

(* A switch of which some parts changed is the old one in the others.         *)
Besides(s, t, changed) == DOMAIN t = Parts /\ \A f \in Parts \ changed : t[f] = s[f]

LEMMA OnwardBy ==
  ASSUME NEW s, NEW t, NEW read, NEW changed, Shaped(s), Besides(s, t, changed),
         changed \cap Fixed = {},
         changed \cap {"lines"} # {} => LinesOnward(s, t),
         changed \cap {"block", "trap", "con", "filePrivilege", "vtp", "snmp", "ssh"} # {}
           => SettingsOnward(s, t),
         changed \cap {"syslog", "radius", "ntpServers", "ntpKeys", "ntpTrusted", "ntpUsed",
                       "methods", "policies", "db", "snoop", "dai"} # {}
                           => ListsOnward(s, t, read),
         "vty" \in changed => VtyOnward(s, t),
         "acls" \in changed => AclsOnward(s, t),
         "ports" \in changed => PortsOnward(s, t, read)
  PROVE  Onward(s, t, read)
<1>1. SameParts(s, t)
  BY DEF Besides, SameParts, Fixed, Parts
<1>2. LinesOnward(s, t)
  BY DEF Besides, LinesOnward, Parts
<1>3. SettingsOnward(s, t)
  <2> DEFINE F == {"block", "trap", "con", "filePrivilege", "vtp", "snmp", "ssh"}
  <2>1. CASE changed \cap F = {}
    <3>1. \A f \in F : t[f] = s[f]
      BY <2>1 DEF Besides, Parts
    <3> QED BY <3>1 DEF SettingsOnward
  <2> QED BY <2>1
<1>4. ListsOnward(s, t, read)
  BY DEF Besides, ListsOnward, Grows, Parts
<1>5. VtyOnward(s, t)
  BY DEF Besides, VtyOnward, Parts, Shaped
<1>6. AclsOnward(s, t)
  BY DEF Besides, AclsOnward, Parts
<1>7. PortsOnward(s, t, read)
  <2>1. CASE "ports" \notin changed
    <3>1. t.ports = s.ports
      BY <2>1 DEF Besides, Parts
    <3>2. \A p \in Port : PortOnward(p, s.ports[p], s.ports[p], read)
      BY DEF PortOnward, Grows, Shaped
    <3> QED BY <3>1, <3>2 DEF PortsOnward, Shaped
  <2> QED BY <2>1
<1>8. Shaped(t)
  BY <1>5, <1>7 DEF Shaped, Besides, VtyOnward, PortsOnward, PortOnward
<1> QED BY <1>1, <1>2, <1>3, <1>4, <1>5, <1>6, <1>7, <1>8 DEF Onward

LEMMA LineCommandOnward ==
  ASSUME NEW s, Shaped(s), NEW read, NEW c \in LineCommands
  PROVE  Onward(s, Apply(s, c), read)
<1> DEFINE t == Apply(s, c)
<1>1. CASE \E x \in SUBSET SentLines : c = Lines(x)
  <2>1. PICK x \in SUBSET SentLines : c = Lines(x)
    BY <1>1
  <2>2. t = [s EXCEPT !.lines = @ \cup x]
    BY <2>1 DEF Apply, Lines
  <2> HIDE DEF t
  <2>3. Besides(s, t, {"lines"}) /\ LinesOnward(s, t)
    BY <2>2 DEF Besides, LinesOnward, Shaped, Parts
  <2>4. Onward(s, t, read)
    BY <2>3, OnwardBy DEF Fixed
  <2> QED BY <2>4 DEF t
<1>2. CASE \E x \in SUBSET Withdrawn : c = No(x)
  <2>1. PICK x \in SUBSET Withdrawn : c = No(x)
    BY <1>2
  <2>2. t = [s EXCEPT !.lines = @ \ x]
    BY <2>1 DEF Apply, No
  <2> HIDE DEF t
  <2>3. Besides(s, t, {"lines"}) /\ LinesOnward(s, t)
    BY <2>2 DEF Besides, LinesOnward, Shaped, Parts
  <2>4. Onward(s, t, read)
    BY <2>3, OnwardBy DEF Fixed
  <2> QED BY <2>4 DEF t
<1>3. CASE c = SshVersion2
  <2>1. t = [s EXCEPT !.lines = @ \cup {"ip-ssh-version-2"},
                       !.ssh = IF @ = "1.99" THEN "2.0" ELSE @]
    BY <1>3 DEF Apply, SshVersion2
  <2> HIDE DEF t
  <2>2. Besides(s, t, {"lines", "ssh"})
    BY <2>1 DEF Besides, Shaped, Parts
  <2>a. /\ t.lines = s.lines \cup {"ip-ssh-version-2"}
        /\ t.ssh = IF s.ssh = "1.99" THEN "2.0" ELSE s.ssh
    BY <2>1 DEF Shaped, Parts
  <2>b. LinesOnward(s, t)
    BY <2>a DEF LinesOnward
  <2>c. SettingsOnward(s, t)
    <3>1. \A f \in {"block", "trap", "con", "filePrivilege", "vtp", "snmp"} : t[f] = s[f]
      BY <2>2 DEF Besides, Parts
    <3> QED BY <2>a, <3>1 DEF SettingsOnward
  <2>3. Onward(s, t, read)
    BY <2>2, <2>b, <2>c, OnwardBy DEF Fixed
  <2> QED BY <2>3 DEF t
<1> QED BY <1>1, <1>2, <1>3 DEF LineCommands

LEMMA SettingOnward ==
  ASSUME NEW s, Shaped(s), NEW read, NEW c \in Settings
  PROVE  Onward(s, Apply(s, c), read)
<1> DEFINE t == Apply(s, c)
<1>1. t = [s EXCEPT ![c.field] = c.arg]
  BY DEF Apply, Settings, Set
<1>2. c.field \in {"block", "trap", "filePrivilege", "con", "vtp", "snmp"}
  BY DEF Settings, Set
<1>3. Besides(s, t, {c.field})
  <2> HIDE DEF t
  <2> QED BY <1>1 DEF Besides, Shaped
<1>4. SettingsOnward(s, t)
  <2> HIDE DEF t
  <2>1. t[c.field] = c.arg
    BY <1>1, <1>2 DEF Shaped, Parts
  <2>2. \A f \in {"block", "trap", "con", "filePrivilege", "vtp", "snmp", "ssh"} :
          f # c.field => t[f] = s[f]
    BY <1>3 DEF Besides, Parts
  <2>3. t.ssh = s.ssh
    BY <1>2, <2>2
  <2>4. CASE c = Set("block", Blocking)
    BY <2>1, <2>2, <2>3, <2>4 DEF SettingsOnward, Set
  <2>5. CASE c # Set("block", Blocking)
    BY <2>1, <2>2, <2>3, <2>5 DEF SettingsOnward, Settings, Set
  <2> QED BY <2>4, <2>5
<1>5. Onward(s, t, read)
  <2> HIDE DEF t
  <2> QED BY <1>2, <1>3, <1>4, OnwardBy DEF Fixed
<1> QED BY <1>5

\* The fields that hold lists.
ListParts ==
  {"syslog", "radius", "ntpServers", "ntpKeys", "ntpTrusted", "ntpUsed", "methods", "policies",
   "db", "snoop", "dai"}

LEMMA EntryOnward ==
  ASSUME NEW s, Shaped(s), NEW read, NEW c \in Entries \cup VlanCommands(read)
  PROVE  Onward(s, Apply(s, c), read)
<1> DEFINE t == Apply(s, c)
<1>1. c.op = "add" /\ c.field \in ListParts
  BY DEF Entries, VlanCommands, Add, ListParts
<1>2. t = [s EXCEPT ![c.field] = @ \cup c.arg]
  BY <1>1 DEF Apply
<1> HIDE DEF t
<1>3. t[c.field] = s[c.field] \cup c.arg /\ Besides(s, t, {c.field})
  BY <1>1, <1>2 DEF Besides, Shaped, Parts, ListParts
<1>4. \A f \in ListParts : f # c.field => t[f] = s[f]
  BY <1>3 DEF Besides, Parts, ListParts
<1>5. ListsOnward(s, t, read)
  <2>1. CASE c \in Entries
    BY <1>3, <1>4, <2>1 DEF ListsOnward, Grows, Entries, Add, ListParts
  <2>2. CASE c \in VlanCommands(read)
    <3>1. \/ c.field = "db"
               /\ c.arg \subseteq {Inventory.native, Inventory.default, Inventory.unused}
                           \ {NoVlan}
          \/ c.field \in {"snoop", "dai"} /\ c.arg = HardenedUserVlans(read.db)
      BY <2>2 DEF VlanCommands, Add, Configured
    <3> QED BY <1>3, <1>4, <3>1 DEF ListsOnward, Grows, ListParts
  <2> QED BY <2>1, <2>2
<1>6. Onward(s, t, read)
  BY <1>1, <1>3, <1>5, OnwardBy DEF Fixed, ListParts
<1> QED BY <1>6 DEF t

LEMMA LoginOnward ==
  ASSUME NEW s, Shaped(s), NEW read, NEW c \in LoginCommands(read)
  PROVE  Onward(s, Apply(s, c), read)
<1> DEFINE t == Apply(s, c)
<1>1. CASE c = PermitIn("VTY_MGMT", Inventory.automation)
  <2>1. t = [s EXCEPT !.acls = WithAcl(@, "VTY_MGMT", Inventory.automation)]
    BY <1>1 DEF Apply, PermitIn
  <2> HIDE DEF t
  <2>2. Besides(s, t, {"acls"}) /\ AclsOnward(s, t)
    BY <2>1 DEF Besides, AclsOnward, Permitted, Shaped, Parts
  <2>3. Onward(s, t, read)
    BY <2>2, OnwardBy DEF Fixed
  <2> QED BY <2>3 DEF t
<1>2. CASE c # PermitIn("VTY_MGMT", Inventory.automation)
  <2>1. /\ c.op = "vty"
        /\ \/ c.field = "limit" /\ c.arg = TRUE
           \/ c.field = "timeout" /\ c.arg = 5
           \/ c.field = "transport" /\ c.arg \in {"ssh", "none"}
           \/ c.field = "acl" /\ c.arg = "VTY_MGMT"
    BY <1>2 DEF LoginCommands, LimitCommands, TransportCommands, ListCommands, Vty
  <2>2. t = [s EXCEPT !.vty = [r \in DOMAIN @ |->
               IF Within(r, c.range) THEN [@[r] EXCEPT ![c.field] = c.arg] ELSE @[r]]]
    BY <2>1 DEF Apply
  <2> HIDE DEF t
  <2>3. /\ Besides(s, t, {"vty"})
        /\ t.vty = [r \in DOMAIN s.vty |->
             IF Within(r, c.range) THEN [s.vty[r] EXCEPT ![c.field] = c.arg] ELSE s.vty[r]]
    BY <2>2 DEF Besides, Shaped, Parts
  <2>4. VtyOnward(s, t)
    BY <2>1, <2>3 DEF VtyOnward, Shaped, LineParts
  <2>5. Onward(s, t, read)
    BY <2>3, <2>4, OnwardBy DEF Fixed
  <2> QED BY <2>5 DEF t
<1> QED BY <1>1, <1>2

LEMMA PortCommandOnward ==
  ASSUME NEW s, Shaped(s), NEW read, NEW c \in PortCommands(read)
  PROVE  Onward(s, Apply(s, c), read)
<1> DEFINE t == Apply(s, c)
<1>1. CASE c \in PortSettings(read)
  <2>1. /\ c.op = "port" /\ c.port \in Port
        /\ \/ c.field = "mode" /\ c.arg = "access" /\ c.port \in AccessPorts(Sorted(read))
           \/ c.field = "vlan" /\ c.arg = Inventory.unused /\ c.arg # NoVlan
                /\ c.port \in ShutAccessPorts(Sorted(read))
           \/ c.field = "allowed" /\ c.arg = Pruning(read) /\ c.port \in TrunkPorts(Sorted(read))
           \/ c.field = "native" /\ c.arg = Inventory.native /\ c.arg # NoVlan
                /\ c.port \in TrunkPorts(Sorted(read))
    BY <1>1, PortsFinite DEF PortSettings, OnPort
  <2>2. t = [s EXCEPT !.ports[c.port][c.field] = c.arg]
    BY <2>1 DEF Apply
  <2> HIDE DEF t
  <2> DEFINE b == s.ports[c.port]
             d == [b EXCEPT ![c.field] = c.arg]
  <2>3. Besides(s, t, {"ports"}) /\ t.ports = [s.ports EXCEPT ![c.port] = d]
    BY <2>2 DEF Besides, Shaped, Parts
  <2>4. PortOnward(c.port, b, d, read)
    BY <2>1 DEF PortOnward, Grows, Shaped, PortParts
  <2>5. \A p \in Port : PortOnward(p, s.ports[p], s.ports[p], read)
    BY DEF PortOnward, Grows, Shaped
  <2> HIDE DEF d
  <2>6. PortsOnward(s, t, read)
    BY <2>1, <2>3, <2>4, <2>5 DEF PortsOnward, Shaped
  <2>7. Onward(s, t, read)
    BY <2>3, <2>6, OnwardBy DEF Fixed
  <2> QED BY <2>7 DEF t
<1>2. CASE c \notin PortSettings(read)
  <2>1. c.op = "lines-of-port" /\ c.port \in Port /\ c.arg \subseteq LinesFor(c.port, read)
    BY <1>2 DEF PortCommands, PortLines
  <2>2. t = [s EXCEPT !.ports[c.port].lines = @ \cup c.arg]
    BY <2>1 DEF Apply
  <2> HIDE DEF t
  <2> DEFINE b == s.ports[c.port]
             d == [b EXCEPT !.lines = @ \cup c.arg]
  <2>3. Besides(s, t, {"ports"}) /\ t.ports = [s.ports EXCEPT ![c.port] = d]
    BY <2>2 DEF Besides, Shaped, Parts
  <2>4. PortOnward(c.port, b, d, read)
    BY <2>1 DEF PortOnward, Grows, Shaped, PortParts
  <2>5. \A p \in Port : PortOnward(p, s.ports[p], s.ports[p], read)
    BY DEF PortOnward, Grows, Shaped
  <2> HIDE DEF d
  <2>6. PortsOnward(s, t, read)
    BY <2>1, <2>3, <2>4, <2>5 DEF PortsOnward, Shaped
  <2>7. Onward(s, t, read)
    BY <2>3, <2>6, OnwardBy DEF Fixed
  <2> QED BY <2>7 DEF t
<1> QED BY <1>1, <1>2

LEMMA CommandOnward ==
  ASSUME NEW s, Shaped(s), NEW read, NEW c \in Sendable(read)
  PROVE  Onward(s, Apply(s, c), read)
<1>1. c \in LineCommands \cup Settings \cup Entries \cup VlanCommands(read)
             \cup LoginCommands(read)
             \cup PortCommands(read)
  BY Zenon DEF Sendable, Tame, LoginCommands
<1> QED BY <1>1, LineCommandOnward, SettingOnward, EntryOnward, LoginOnward,
           PortCommandOnward, Zenon

LEMMA OnwardStays ==
  ASSUME NEW s, Shaped(s), NEW read
  PROVE  Onward(s, s, read)
<1>1. Besides(s, s, {})
  BY DEF Besides, Shaped
<1> QED BY <1>1, OnwardBy

LEMMA PermittedTwice ==
  ASSUME NEW acls
  PROVE  Permitted(Permitted(acls)) = Permitted(acls)
<1> DEFINE N == DOMAIN acls \cup {"VTY_MGMT"}
           a == Permitted(acls)
<1>1. /\ DOMAIN a = N /\ a["VTY_MGMT"].logged = TRUE
      /\ Inventory.automation \in a["VTY_MGMT"].sources
      /\ a["VTY_MGMT"] = [sources |-> a["VTY_MGMT"].sources, logged |-> TRUE]
      /\ a = [n \in N |-> a[n]]
  BY DEF Permitted, WithAcl
<1>2. Permitted(a) = [n \in N |-> IF n = "VTY_MGMT"
                        THEN [sources |-> a["VTY_MGMT"].sources \cup {Inventory.automation},
                              logged |-> TRUE]
                        ELSE a[n]]
  <2> HIDE DEF a
  <2> QED BY <1>1 DEF Permitted, WithAcl
<1>3. a["VTY_MGMT"].sources \cup {Inventory.automation} = a["VTY_MGMT"].sources
  <2> HIDE DEF a
  <2> QED BY <1>1
<1> HIDE DEF a, N
<1>4. Permitted(a) = a
  BY <1>1, <1>2, <1>3
<1> QED BY <1>4 DEF a

LEMMA OnwardAgain ==
  ASSUME NEW s, NEW t, NEW u, NEW read, Onward(s, t, read), Onward(t, u, read)
  PROVE  Onward(s, u, read)
<1> USE DEF Onward
<1>1. Shaped(u) /\ SameParts(s, u)
  BY DEF SameParts
<1>2. LinesOnward(s, u)
  BY DEF LinesOnward
<1>3. SettingsOnward(s, u)
  BY DEF SettingsOnward
<1>4. ListsOnward(s, u, read)
  BY DEF ListsOnward, Grows
<1>5. VtyOnward(s, u)
  BY DEF VtyOnward
<1>6. AclsOnward(s, u)
  BY PermittedTwice, Zenon DEF AclsOnward
<1>7. PortsOnward(s, u, read)
  BY DEF PortsOnward, PortOnward, Grows
<1> QED BY <1>1, <1>2, <1>3, <1>4, <1>5, <1>6, <1>7

LEMMA PushOnward ==
  ASSUME NEW s, Shaped(s), NEW read, NEW cmds \in Seq(Sendable(read))
  PROVE  Onward(s, ApplyAll(s, cmds), read)
<1>1. PICK f : /\ f[0] = s
               /\ \A n \in 1..Len(cmds) : f[n] = Apply(f[n - 1], cmds[n])
               /\ ApplyAll(s, cmds) = f[Len(cmds)]
  <2>1. Len(cmds) \in Nat
    OBVIOUS
  <2> QED BY <2>1, Path
<1> DEFINE Good == {n \in 0..Len(cmds) : Onward(s, f[n], read)}
<1>2. 0 \in Good
  BY <1>1, OnwardStays
<1>3. ASSUME NEW n \in 1..Len(cmds), n - 1 \in Good
      PROVE  n \in Good
  <2>1. cmds[n] \in Sendable(read) /\ Onward(s, f[n - 1], read)
    BY <1>3
  <2>2. Onward(f[n - 1], f[n], read)
    <3>1. Shaped(f[n - 1])
      BY <2>1 DEF Onward
    <3> QED BY <1>1, <2>1, <3>1, CommandOnward
  <2> QED BY <2>1, <2>2, OnwardAgain
<1>4. \A n \in 0..Len(cmds) : n \in Good
  <2>1. Len(cmds) \in Nat
    OBVIOUS
  <2> HIDE DEF Good
  <2> QED BY <1>2, <1>3, <2>1, CountingUp
<1> QED BY <1>1, <1>4
-----------------------------------------------------------------------------
(* What the answer is, rule by rule.                                         *)

OneByOne ==
  {"V-220554", "V-220566", "V-220567", "V-220570", "V-220575", "V-220576", "V-220581",
   "V-220583", "V-220584", "V-220585", "V-220586", "V-220587", "V-220596", "V-220600",
   "V-220601", "V-220604", "V-220605", "V-220606", "V-220607", "V-220608", "V-220617",
   "V-220620", "V-220621", "V-220623", "V-220624", "V-220629", "V-220630", "V-220632",
   "V-220633", "V-220634", "V-220635", "V-220636", "V-220637", "V-220639", "V-220640",
   "V-220641", "V-220642", "V-220643", "V-220644", "V-220645", "V-220646", "V-220647",
   "V-220651"}

LEMMA RulesApart ==
  /\ OneByOne \cap LineRules = {} /\ OneByOne \cap PolicyRules = {}
  /\ LineRules \cap PolicyRules = {}
BY DEF OneByOne, LineRules, ArchiveRules, PolicyRules

LEMMA EveryRule ==
  Checks \subseteq LineRules \cup PolicyRules \cup OneByOne
BY DEF OneByOne, Checks, IosRules, XeOnly, IosOnly, LineRules

LEMMA AnswerInGroups ==
  ASSUME NEW c
  PROVE  /\ \A r \in LineRules : Answer(r, c) = PassIf(Wanted(r) \subseteq c.lines)
         /\ \A r \in PolicyRules : Answer(r, c) = PasswordPolicy(c, r)
<1> DEFINE Line(r) == Answer(r, c) = PassIf(Wanted(r) \subseteq c.lines)
           Pol(r) == Answer(r, c) = PasswordPolicy(c, r)
<1> USE DEF Answer, AllAccess, AllTrunks, LineRules, ArchiveRules, PolicyRules
<1>1. /\ Line("V-220571") /\ Line("V-220572") /\ Line("V-220573") /\ Line("V-220574")
      /\ Line("V-220582") /\ Line("V-220597") /\ Line("V-220611") /\ Line("V-220613")
  OBVIOUS
<1>2. /\ Line("V-220577") /\ Line("V-220578") /\ Line("V-220580") /\ Line("V-220595")
      /\ Line("V-220599") /\ Line("V-220612") /\ Line("V-220625") /\ Line("V-220631")
      /\ Line("V-220638")
  OBVIOUS
<1>3. /\ Pol("V-220589") /\ Pol("V-220590") /\ Pol("V-220591") /\ Pol("V-220592")
      /\ Pol("V-220593") /\ Pol("V-220594")
  OBVIOUS
<1> HIDE DEF Answer, Line, Pol
<1>4. \A r \in LineRules : Line(r)
  BY <1>1, <1>2, Zenon
<1>5. \A r \in PolicyRules : Pol(r)
  BY <1>3, Zenon
<1> QED BY <1>4, <1>5, Zenon DEF Line, Pol

LEMMA AnswerToOne ==
  ASSUME NEW c
  PROVE  /\ Answer("V-220554", c) = NtpKey(c) /\ Answer("V-220566", c) = ConfigBackup(c)
         /\ Answer("V-220567", c) = Trustpoints(c) /\ Answer("V-220570", c) = SessionLimit(c)
         /\ Answer("V-220575", c) = VtyAcl(c) /\ Answer("V-220576", c) = LoginBlock(c)
         /\ Answer("V-220581", c) = VtyAclLogs(c)
         /\ \A r \in {"V-220583", "V-220584", "V-220585"} : Answer(r, c) = AuditInfo(c)
         /\ Answer("V-220586", c) = PassIf(Services \cap c.lines = {})
         /\ Answer("V-220587", c) = SingleAccount(c) /\ Answer("V-220596", c) = ExecTimeout(c)
         /\ Answer("V-220600", c) = LoggingTrap(c) /\ Answer("V-220601", c) = NtpServers(c)
         /\ Answer("V-220604", c) = SnmpUser(c, {"sha", "sha-aes"})
         /\ Answer("V-220605", c) = SnmpUser(c, {"sha-aes"}) /\ Answer("V-220606", c) = "FAIL"
         /\ Answer("V-220607", c) = SshAlgorithm(c, "ssh-macs")
         /\ Answer("V-220608", c) = SshAlgorithm(c, "ssh-ciphers")
         /\ Answer("V-220617", c) = RadiusRedundancy(c) /\ Answer("V-220620", c) = Syslog(c)
         /\ Answer("V-220621", c) = Supported(c) /\ Answer("V-220624", c) = VtpPassword(c)
         /\ Answer("V-220629", c) = RootGuard(c) /\ Answer("V-220633", c) = DhcpSnooping(c)
         /\ Answer("V-220635", c) = Covers(c.dai, c)
         /\ Answer("V-220637", c) = PassIf("no-ip-igmp-snooping" \notin c.lines)
         /\ Answer("V-220639", c) = Udld(c) /\ Answer("V-220641", c) = DisabledPorts(c)
         /\ Answer("V-220644", c) = PassIf("address-on-Vlan1" \notin c.lines)
         /\ Answer("V-220645", c) = UserFacingTrunk(c)
         /\ Answer("V-220647", c) = NoAccessPortOnNative(c) /\ Answer("V-220651", c) = Qos(c)
<1> USE RulesApart DEF OneByOne, Answer, AllAccess, AllTrunks
<1>1. /\ Answer("V-220554", c) = NtpKey(c) /\ Answer("V-220566", c) = ConfigBackup(c)
      /\ Answer("V-220567", c) = Trustpoints(c) /\ Answer("V-220570", c) = SessionLimit(c)
      /\ Answer("V-220575", c) = VtyAcl(c) /\ Answer("V-220576", c) = LoginBlock(c)
      /\ Answer("V-220581", c) = VtyAclLogs(c)
  OBVIOUS
<1>2. /\ Answer("V-220583", c) = AuditInfo(c) /\ Answer("V-220584", c) = AuditInfo(c)
      /\ Answer("V-220585", c) = AuditInfo(c)
  OBVIOUS
<1>3. /\ Answer("V-220586", c) = PassIf(Services \cap c.lines = {})
      /\ Answer("V-220587", c) = SingleAccount(c) /\ Answer("V-220596", c) = ExecTimeout(c)
      /\ Answer("V-220600", c) = LoggingTrap(c) /\ Answer("V-220601", c) = NtpServers(c)
  OBVIOUS
<1>4. /\ Answer("V-220604", c) = SnmpUser(c, {"sha", "sha-aes"})
      /\ Answer("V-220605", c) = SnmpUser(c, {"sha-aes"}) /\ Answer("V-220606", c) = "FAIL"
      /\ Answer("V-220607", c) = SshAlgorithm(c, "ssh-macs")
      /\ Answer("V-220608", c) = SshAlgorithm(c, "ssh-ciphers")
  OBVIOUS
<1>5. /\ Answer("V-220617", c) = RadiusRedundancy(c) /\ Answer("V-220620", c) = Syslog(c)
      /\ Answer("V-220621", c) = Supported(c) /\ Answer("V-220624", c) = VtpPassword(c)
      /\ Answer("V-220629", c) = RootGuard(c) /\ Answer("V-220633", c) = DhcpSnooping(c)
  OBVIOUS
<1>6. /\ Answer("V-220635", c) = Covers(c.dai, c)
      /\ Answer("V-220637", c) = PassIf("no-ip-igmp-snooping" \notin c.lines)
      /\ Answer("V-220639", c) = Udld(c) /\ Answer("V-220641", c) = DisabledPorts(c)
  OBVIOUS
<1>7. /\ Answer("V-220644", c) = PassIf("address-on-Vlan1" \notin c.lines)
      /\ Answer("V-220645", c) = UserFacingTrunk(c)
      /\ Answer("V-220647", c) = NoAccessPortOnNative(c) /\ Answer("V-220651", c) = Qos(c)
  OBVIOUS
<1> HIDE RulesApart DEF OneByOne, Answer, AllAccess, AllTrunks
<1> QED BY <1>1, <1>2, <1>3, <1>4, <1>5, <1>6, <1>7, Zenon

LEMMA AnswerOnPorts ==
  ASSUME NEW c
  PROVE  /\ Answer("V-220623", c) = AllAccess(c, Authenticates, Port)
         /\ Answer("V-220630", c) = AllAccess(c, LAMBDA b : BpduGuarded(c, b), Port)
         /\ Answer("V-220632", c)
             = AllAccess(c, LAMBDA b : "switchport-block-unicast" \in b.lines, Port)
         /\ Answer("V-220634", c) = AllAccess(c, LAMBDA b : "ip-verify-source" \in b.lines, Port)
         /\ Answer("V-220636", c)
             = AllAccess(c, LAMBDA b : "storm-control" \in b.lines, Port \ FastPort)
         /\ Answer("V-220642", c) = AllAccess(c, LAMBDA b : b.vlan \notin {NoVlan, 1}, Port)
         /\ Answer("V-220640", c) = AllTrunks(c, LAMBDA b : "switchport-nonegotiate" \in b.lines)
         /\ Answer("V-220643", c) = AllTrunks(c, LAMBDA b : Pruned(b, 1))
         /\ Answer("V-220646", c) = AllTrunks(c, LAMBDA b : b.native \notin {NoVlan, 1})
<1> USE RulesApart DEF OneByOne, Answer, AllAccess, AllTrunks
<1>1. /\ Answer("V-220623", c) = AllAccess(c, Authenticates, Port)
      /\ Answer("V-220630", c) = AllAccess(c, LAMBDA b : BpduGuarded(c, b), Port)
  OBVIOUS
<1>2. /\ Answer("V-220632", c)
          = AllAccess(c, LAMBDA b : "switchport-block-unicast" \in b.lines, Port)
      /\ Answer("V-220634", c) = AllAccess(c, LAMBDA b : "ip-verify-source" \in b.lines, Port)
  OBVIOUS
<1>3. /\ Answer("V-220636", c)
          = AllAccess(c, LAMBDA b : "storm-control" \in b.lines, Port \ FastPort)
      /\ Answer("V-220642", c) = AllAccess(c, LAMBDA b : b.vlan \notin {NoVlan, 1}, Port)
  OBVIOUS
<1>4. /\ Answer("V-220640", c) = AllTrunks(c, LAMBDA b : "switchport-nonegotiate" \in b.lines)
      /\ Answer("V-220643", c) = AllTrunks(c, LAMBDA b : Pruned(b, 1))
      /\ Answer("V-220646", c) = AllTrunks(c, LAMBDA b : b.native \notin {NoVlan, 1})
  OBVIOUS
<1> QED BY <1>1, <1>2, <1>3, <1>4

(* Every rule has one of the four answers.                                   *)

LEMMA AnswersAreVerdicts ==
  ASSUME NEW c, NEW r \in Checks
  PROVE  Answer(r, c) \in Verdicts
<1>1. \A x : PasswordPolicy(c, x) \in Verdicts
  BY DEF PasswordPolicy, PassIf, Verdicts
<1>2. /\ NtpKey(c) \in Verdicts /\ ConfigBackup(c) \in Verdicts /\ Trustpoints(c) \in Verdicts
      /\ SessionLimit(c) \in Verdicts /\ VtyAcl(c) \in Verdicts /\ LoginBlock(c) \in Verdicts
      /\ VtyAclLogs(c) \in Verdicts /\ AuditInfo(c) \in Verdicts /\ SingleAccount(c) \in Verdicts
      /\ ExecTimeout(c) \in Verdicts /\ LoggingTrap(c) \in Verdicts /\ NtpServers(c) \in Verdicts
  BY DEF NtpKey, ConfigBackup, Trustpoints, SessionLimit, VtyAcl, LoginBlock, VtyAclLogs,
         AuditInfo, SingleAccount, ExecTimeout, LoggingTrap, NtpServers, PassIf, Verdicts
<1>3. \A x : SnmpUser(c, x) \in Verdicts /\ SshAlgorithm(c, x) \in Verdicts
  BY DEF SnmpUser, SshAlgorithm, PassIf, Verdicts
<1>4. /\ RadiusRedundancy(c) \in Verdicts /\ Syslog(c) \in Verdicts /\ Supported(c) \in Verdicts
      /\ VtpPassword(c) \in Verdicts /\ RootGuard(c) \in Verdicts /\ DhcpSnooping(c) \in Verdicts
      /\ (\A x : Covers(x, c) \in Verdicts) /\ Udld(c) \in Verdicts
      /\ DisabledPorts(c) \in Verdicts
      /\ UserFacingTrunk(c) \in Verdicts /\ NoAccessPortOnNative(c) \in Verdicts
      /\ Qos(c) \in Verdicts
  BY DEF RadiusRedundancy, Syslog, Supported, VtpPassword, RootGuard, DhcpSnooping, Covers, Udld,
         DisabledPorts, UserFacingTrunk, NoAccessPortOnNative, Qos, PassIf, Verdicts
<1>5. \A x : PassIf(x) \in Verdicts
  BY Zenon DEF PassIf, Verdicts
<1>6. /\ Answer("V-220623", c) \in Verdicts /\ Answer("V-220630", c) \in Verdicts
      /\ Answer("V-220632", c) \in Verdicts /\ Answer("V-220634", c) \in Verdicts
      /\ Answer("V-220636", c) \in Verdicts /\ Answer("V-220642", c) \in Verdicts
      /\ Answer("V-220640", c) \in Verdicts /\ Answer("V-220643", c) \in Verdicts
      /\ Answer("V-220646", c) \in Verdicts
  BY AnswerOnPorts, SMT DEF AllAccess, AllTrunks, PassIf, Verdicts
<1>7. CASE r \in LineRules \cup PolicyRules
  BY <1>1, <1>5, <1>7, AnswerInGroups, Zenon
<1>8. CASE r \in OneByOne
  <2>1. "FAIL" \in Verdicts
    BY DEF Verdicts
  <2> HIDE DEF Verdicts
  <2> QED BY <1>2, <1>3, <1>4, <1>5, <1>6, <1>8, <2>1, AnswerToOne DEF OneByOne
<1> QED BY <1>7, <1>8, EveryRule
-----------------------------------------------------------------------------
(* The invariant: what TypeOK says, and that what a script or the audit read   *)
(* is a switch this one has grown from: VLANs are only added, and nobody       *)
(* touches the templates.                                                      *)

SnapKept ==
  snap # Nothing =>
    /\ IsSwitch(snap)
    /\ snap.db \subseteq sw.db /\ snap.tmpl = sw.tmpl /\ snap.hidden = sw.hidden

\* What an audit has seen are switches, one after the other.
SeenKept == \E S : seen \in Seq(S) /\ \A s \in S : IsSwitch(s)

Inv == TypeOK /\ SnapKept /\ SeenKept

LEMMA SwitchShaped ==
  ASSUME NEW s, IsSwitch(s)
  PROVE  Shaped(s)
BY Zenon DEF IsSwitch, Shaped, IsBlock, IsVty

LEMMA UsersAreThere ==
  ASSUME NEW db
  PROVE  HardenedUserVlans(db) \subseteq db /\ TrunkVlans(db) \subseteq db
BY Zenon DEF HardenedUserVlans, TrunkVlans, UserVlans

\* The lists the audit counts.
Counted == {"policies", "radius", "syslog", "ntpServers"}

LEMMA SwitchCounts ==
  ASSUME NEW s, IsSwitch(s)
  PROVE  /\ IsFiniteSet(s.policies) /\ IsFiniteSet(s.radius) /\ IsFiniteSet(s.syslog)
         /\ IsFiniteSet(s.ntpServers)
<1>1. \A list \in Counted : IsFiniteSet(s[list])
  BY Zenon DEF IsSwitch, Counted
<1> QED BY <1>1 DEF Counted

LEMMA GrowsFinite ==
  ASSUME NEW a, NEW b, NEW more, IsFiniteSet(a), IsFiniteSet(more), Grows(a, b, more)
  PROVE  IsFiniteSet(b)
<1>1. IsFiniteSet(a \cup more)
  BY FS_Union
<1> QED BY <1>1, FS_Subset, Zenon DEF Grows

LEMMA StaysSwitch ==
  ASSUME NEW s, NEW t, NEW read, IsSwitch(s), Onward(s, t, read), read.db \subseteq s.db
  PROVE  IsSwitch(t) /\ s.db \subseteq t.db /\ t.tmpl = s.tmpl /\ t.hidden = s.hidden
<1>1. DOMAIN t = Parts /\ DOMAIN t.ports = Port
  BY DEF Onward, Shaped
<1>2. s.db \subseteq t.db /\ t.db \subseteq Vlan
  <2>1. {Inventory.native, Inventory.default, Inventory.unused} \ {NoVlan} \subseteq Vlan
    BY InventoryAssumption DEF NoVlan
  <2>2. Grows(s.db, t.db, {Inventory.native, Inventory.default, Inventory.unused} \ {NoVlan})
    BY Zenon DEF Onward, ListsOnward
  <2> QED BY <2>1, <2>2 DEF Grows, IsSwitch
<1>3. t.snoop \subseteq t.db /\ t.dai \subseteq t.db
  BY <1>2, UsersAreThere DEF Onward, ListsOnward, Grows, IsSwitch
<1>4. \A p \in Port : IsBlock(t.ports[p])
  <2>1. Pruning(read).vlans \subseteq Vlan
    BY UsersAreThere DEF Pruning, Allow, IsSwitch
  <2> QED BY <2>1 DEF Onward, PortsOnward, PortOnward, IsSwitch, IsBlock
<1>5. IsVty(t.vty)
  BY Zenon DEF Onward, VtyOnward, IsSwitch, IsVty
<1>6. t.tmpl = s.tmpl /\ t.hidden = s.hidden
  BY DEF Onward, SameParts, Fixed
<1>7. t.root \subseteq Port /\ NoTemplate \notin DOMAIN t.tmpl
  BY DEF Onward, SameParts, Fixed, IsSwitch
<1>9. t.ssh \in SshAnswers
  BY DEF Onward, SettingsOnward, IsSwitch, SshAnswers
<1>8. \A list \in Counted : IsFiniteSet(t[list])
  <2>1. /\ Grows(s.policies, t.policies, {Policy}) /\ Grows(s.radius, t.radius, Inventory.radius)
        /\ Grows(s.syslog, t.syslog, Inventory.syslog)
        /\ Grows(s.ntpServers, t.ntpServers, Inventory.ntp)
    BY Zenon DEF Onward, ListsOnward
  <2>2. /\ IsFiniteSet(s.policies) /\ IsFiniteSet(s.radius) /\ IsFiniteSet(s.syslog)
        /\ IsFiniteSet(s.ntpServers)
    BY SwitchCounts
  <2>3. IsFiniteSet({Policy})
    BY FS_Singleton
  <2>4. /\ IsFiniteSet(t.policies) /\ IsFiniteSet(t.radius) /\ IsFiniteSet(t.syslog)
        /\ IsFiniteSet(t.ntpServers)
    BY <2>1, <2>2, <2>3, GrowsFinite, InventoryAssumption, Zenon
  <2> QED BY <2>4 DEF Counted
<1> QED BY <1>1, <1>2, <1>3, <1>4, <1>5, <1>6, <1>7, <1>8, <1>9 DEF IsSwitch, Counted

\* What a push makes of the switch, whole or cut short.
LEMMA PushedOnward ==
  ASSUME Inv, script \in Scripts, Sends \/ SessionLost
  PROVE  Onward(sw, sw', snap) /\ IsSwitch(snap) /\ snap.db \subseteq sw.db
<1>1. snap # Nothing
  BY Zenon DEF Inv, TypeOK
<1>2. IsSwitch(snap) /\ snap.db \subseteq sw.db /\ Shaped(sw)
  BY <1>1, SwitchShaped, Zenon DEF Inv, TypeOK, SnapKept
<1>3. Commands(script, snap) \in Seq(Sendable(snap))
  BY CommandsSent
<1>4. CASE Sends
  BY <1>2, <1>3, <1>4, PushOnward DEF Sends
<1>5. CASE SessionLost
  <2>1. PICK n \in 0..(Len(Commands(script, snap)) - 1) :
          sw' = ApplyAll(sw, SubSeq(Commands(script, snap), 1, n))
    BY <1>5 DEF SessionLost
  <2>2. SubSeq(Commands(script, snap), 1, n) \in Seq(Sendable(snap))
    BY <1>3
  <2> QED BY <1>2, <2>1, <2>2, PushOnward
<1> QED BY <1>2, <1>4, <1>5

\* A switch somebody else changed is still one.
LEMMA CountsKept ==
  ASSUME NEW s, IsSwitch(s), NEW part \in {"root", "ports", "db"}, NEW t, Besides(s, t, {part})
  PROVE  \A list \in Counted : IsFiniteSet(t[list])
<1>1. \A list \in Counted : IsFiniteSet(s[list])
  BY Zenon DEF IsSwitch, Counted
<1>2. \A list \in Counted : t[list] = s[list]
  BY DEF Besides, Counted, Parts
<1> QED BY <1>1, <1>2

LEMMA PortReplaced ==
  ASSUME NEW s, IsSwitch(s), NEW p \in Port, NEW b, IsBlock(b),
         NEW t, t = [s EXCEPT !.ports[p] = b]
  PROVE  /\ IsSwitch(t) /\ t.db = s.db /\ t.tmpl = s.tmpl /\ t.hidden = s.hidden
         /\ Besides(s, t, {"ports"})
<1>1. Besides(s, t, {"ports"}) /\ t.ports = [s.ports EXCEPT ![p] = b]
  BY DEF Besides, IsSwitch, Parts
<1>2. t.db = s.db /\ t.snoop = s.snoop /\ t.dai = s.dai /\ t.vty = s.vty /\ t.tmpl = s.tmpl
        /\ t.hidden = s.hidden /\ t.root = s.root /\ t.ssh = s.ssh /\ DOMAIN t = Parts
  BY <1>1 DEF Besides, Parts
<1>3. DOMAIN t.ports = Port /\ \A q \in Port : IsBlock(t.ports[q])
  BY <1>1 DEF IsSwitch
<1>4. \A list \in Counted : IsFiniteSet(t[list])
  BY <1>1, CountsKept
<1> QED BY <1>1, <1>2, <1>3, <1>4, Zenon DEF IsSwitch, Counted

LEMMA ChangedSwitch ==
  ASSUME IsSwitch(sw), RootMoves \/ PortIsRebuilt \/ PortIsEnabled \/ VlanIsCreated
  PROVE  /\ IsSwitch(sw') /\ sw.db \subseteq sw'.db /\ sw'.tmpl = sw.tmpl
         /\ sw'.hidden = sw.hidden
         /\ \E part \in {"root", "ports", "db"} : Besides(sw, sw', {part})
<1>1. CASE RootMoves
  <2>1. PICK p \in InEffectTrunks(sw) : sw' = [sw EXCEPT !.root = {p}]
    BY <1>1 DEF RootMoves
  <2>2. Besides(sw, sw', {"root"})
    BY <2>1 DEF Besides, IsSwitch, Parts
  <2>3. sw'.db = sw.db /\ sw'.snoop = sw.snoop /\ sw'.dai = sw.dai /\ sw'.vty = sw.vty
          /\ sw'.tmpl = sw.tmpl /\ sw'.hidden = sw.hidden /\ sw'.ports = sw.ports
          /\ sw'.ssh = sw.ssh /\ DOMAIN sw' = Parts
    BY <2>2 DEF Besides, Parts
  <2>4. sw'.root \subseteq Port
    BY <2>1 DEF IsSwitch, Parts, InEffectTrunks, Switchports
  <2>6. \A list \in Counted : IsFiniteSet(sw'[list])
    BY <2>2, CountsKept
  <2>5. IsSwitch(sw')
    BY <2>3, <2>4, <2>6, Zenon DEF IsSwitch, Counted
  <2> QED BY <2>2, <2>3, <2>5
<1>2. CASE PortIsRebuilt
  <2>1. PICK p \in Port, b \in {sw.ports[q] : q \in Port}
               \cup {Block("unsaid", NoVlan, "unsaid", t, {}) : t \in DOMAIN sw.tmpl} :
          sw' = [sw EXCEPT !.ports[p] = b]
    BY <1>2 DEF PortIsRebuilt
  <2>2. IsBlock(b)
    <3>1. CASE \E q \in Port : b = sw.ports[q]
      BY <3>1 DEF IsSwitch
    <3>2. CASE \E t \in DOMAIN sw.tmpl : b = Block("unsaid", NoVlan, "unsaid", t, {})
      BY <3>2 DEF IsBlock, Block, PortParts, AllowAll, Allow
    <3> QED BY <3>1, <3>2
  <2>3. /\ IsSwitch(sw') /\ sw'.db = sw.db /\ sw'.tmpl = sw.tmpl /\ sw'.hidden = sw.hidden
        /\ Besides(sw, sw', {"ports"})
    BY <2>1, <2>2, PortReplaced
  <2> QED BY <2>3
<1>3. CASE PortIsEnabled
  <2>1. PICK p \in Port : sw' = [sw EXCEPT !.ports[p].state = "no-shutdown"]
    BY <1>3 DEF PortIsEnabled
  <2> DEFINE b == [sw.ports[p] EXCEPT !.state = "no-shutdown"]
  <2>2. sw' = [sw EXCEPT !.ports[p] = b]
    BY <2>1
  <2>3. IsBlock(b)
    BY DEF IsSwitch, IsBlock, PortParts
  <2>4. /\ IsSwitch(sw') /\ sw'.db = sw.db /\ sw'.tmpl = sw.tmpl /\ sw'.hidden = sw.hidden
        /\ Besides(sw, sw', {"ports"})
    <3> HIDE DEF b
    <3> QED BY <2>2, <2>3, PortReplaced
  <2> QED BY <2>4
<1>4. CASE VlanIsCreated
  <2>1. PICK v \in Vlan : sw' = [sw EXCEPT !.db = @ \cup {v}]
    BY <1>4 DEF VlanIsCreated
  <2>2. Besides(sw, sw', {"db"}) /\ sw'.db = sw.db \cup {v}
    BY <2>1 DEF Besides, IsSwitch, Parts
  <2>3. sw'.snoop = sw.snoop /\ sw'.dai = sw.dai /\ sw'.vty = sw.vty /\ sw'.root = sw.root
          /\ sw'.tmpl = sw.tmpl /\ sw'.hidden = sw.hidden /\ sw'.ports = sw.ports
          /\ sw'.ssh = sw.ssh /\ DOMAIN sw' = Parts
    BY <2>2 DEF Besides, Parts
  <2>4. \A list \in Counted : IsFiniteSet(sw'[list])
    BY <2>2, CountsKept
  <2>5. IsSwitch(sw')
    BY <2>2, <2>3, <2>4 DEF IsSwitch, Counted
  <2> QED BY <2>2, <2>3, <2>5
<1> QED BY <1>1, <1>2, <1>3, <1>4

LEMMA InvInit == Init => Inv
<1> SUFFICES ASSUME Init PROVE Inv
  OBVIOUS
<1>1. IsSwitch(sw)
  BY StartAssumption DEF Init
<1>2. TypeOK
  BY <1>1, BoundsAssumption DEF Init, TypeOK, Scripts
<1>3. SeenKept
  <2>1. seen \in Seq({})
    BY DEF Init
  <2> QED BY <2>1 DEF SeenKept
<1> QED BY <1>2, <1>3 DEF Inv, SnapKept, Init

LEMMA SwitchIsSomething ==
  ASSUME NEW s, IsSwitch(s)
  PROVE  s # Nothing
<1>1. "db" \in DOMAIN s
  BY DEF IsSwitch, Parts
<1> QED BY <1>1 DEF Nothing

LEMMA AppendsSome ==
  ASSUME NEW S, NEW s \in Seq(S), NEW x
  PROVE  Append(s, x) \in Seq(S \cup {x}) /\ Append(s, x) # <<>>
<1>1. Len(Append(s, x)) = Len(s) + 1 /\ Len(s) \in Nat
  OBVIOUS
<1>2. s \in Seq(S \cup {x})
  OBVIOUS
<1> QED BY <1>1, <1>2

LEMMA InvNext == Inv /\ [Next]_vars => Inv'
<1> SUFFICES ASSUME Inv, [Next]_vars PROVE Inv'
  OBVIOUS
<1> USE DEF Inv
<1>a. seen' = seen => SeenKept'
  BY Zenon DEF SeenKept
<1>b. \A s : IsSwitch(s) /\ seen' = <<s>> => SeenKept'
  <2> TAKE s
  <2> HAVE IsSwitch(s) /\ seen' = <<s>>
  <2>1. seen' \in Seq({s})
    OBVIOUS
  <2> QED BY <2>1, Zenon DEF SeenKept
<1>c. seen' = <<>> => SeenKept'
  <2> HAVE seen' = <<>>
  <2> DEFINE S == {s \in {} : IsSwitch(s)}
  <2>1. seen' \in Seq(S) /\ \A s \in S : IsSwitch(s)
    OBVIOUS
  <2> HIDE DEF S
  <2> QED BY <2>1, Zenon DEF SeenKept
<1>1. ASSUME NEW s \in Scripts, Reads(s) PROVE Inv'
  <2>1. IsSwitch(sw) /\ sw # Nothing
    BY SwitchIsSomething DEF TypeOK
  <2>2. TypeOK'
    BY <1>1, <2>1, BoundsAssumption DEF Reads, audit, TypeOK, Scripts
  <2>3. SnapKept'
    BY <1>1, <2>1 DEF Reads, SnapKept
  <2>4. SeenKept'
    BY <1>1, <1>a DEF Reads, audit
  <2> QED BY <2>2, <2>3, <2>4
<1>2. CASE Sends \/ SessionLost
  <2>1. script \in Scripts
    BY <1>2 DEF Sends, SessionLost
  <2>2. IsSwitch(sw')
    BY <1>2, <2>1, PushedOnward, StaysSwitch DEF TypeOK
  <2>3. script' = "none" /\ snap' = Nothing
          /\ UNCHANGED <<report, checklist, seen, runs>>
    BY <1>2 DEF Sends, SessionLost, audit
  <2>4. done' \subseteq Scripts \cup {"snooping", "pruning"}
    BY <1>2, <2>1 DEF Sends, SessionLost, Parted, TypeOK
  <2>5. faults' \in 0..MaxFaults
    BY <1>2, BoundsAssumption DEF Sends, SessionLost, TypeOK
  <2>6. TypeOK'
    BY <2>1, <2>2, <2>3, <2>4, <2>5 DEF TypeOK, Scripts
  <2> QED BY <1>a, <2>3, <2>6 DEF SnapKept
<1>3. CASE RootMoves \/ PortIsRebuilt \/ PortIsEnabled \/ VlanIsCreated
  <2>1. IsSwitch(sw') /\ sw.db \subseteq sw'.db /\ sw'.tmpl = sw.tmpl /\ sw'.hidden = sw.hidden
    BY <1>3, ChangedSwitch DEF TypeOK
  <2>2. Changes
    BY <1>3 DEF RootMoves, PortIsRebuilt, PortIsEnabled, VlanIsCreated
  <2>5. PICK S : seen \in Seq(S) /\ \A s \in S : IsSwitch(s)
    BY DEF SeenKept
  <2>6. SeenKept' /\ (seen' = <<>> <=> seen = <<>>)
    <3>1. CASE seen = <<>>
      BY <2>2, <2>5, <3>1 DEF Changes, SeenKept
    <3>2. CASE seen # <<>>
      <4>1. seen' = Append(seen, sw')
        BY <2>2, <3>2 DEF Changes
      <4>2. seen' \in Seq(S \cup {sw'}) /\ seen' # <<>>
        BY <2>5, <4>1, AppendsSome
      <4> QED BY <2>1, <2>5, <3>2, <4>2 DEF SeenKept
    <3> QED BY <3>1, <3>2
  <2>3. TypeOK'
    <3>1. /\ UNCHANGED <<script, snap, report, checklist, runs>>
          /\ done' = {} /\ faults' \in 0..MaxFaults
      BY <2>2, BoundsAssumption DEF Changes, TypeOK
    <3> QED BY <2>1, <2>6, <3>1 DEF TypeOK
  <2>4. SnapKept'
    BY <2>1, <2>2 DEF Changes, SnapKept
  <2> QED BY <2>3, <2>4, <2>6
<1>4. CASE Discovers
  <2>1. IsSwitch(sw) /\ sw # Nothing
    BY SwitchIsSomething DEF TypeOK
  <2>2. TypeOK'
    BY <1>4, <2>1, BoundsAssumption DEF Discovers, audit, TypeOK, Scripts
  <2>3. SnapKept'
    BY <1>4, <2>1 DEF Discovers, SnapKept
  <2>4. SeenKept'
    BY <1>4, <1>b, <2>1 DEF Discovers
  <2> QED BY <2>2, <2>3, <2>4
<1>5. CASE Judges
  <2>1. report' \in [Checks -> Verdicts]
    BY <1>5, AnswersAreVerdicts DEF Judges
  <2>2. TypeOK'
    BY <1>5, <2>1 DEF Judges, TypeOK, Scripts
  <2>3. SnapKept'
    BY <1>5 DEF Judges, SnapKept
  <2>4. SeenKept'
    BY <1>5, <1>a DEF Judges
  <2> QED BY <2>2, <2>3, <2>4
<1>6. CASE WritesChecklist
  <2>1. TypeOK'
    BY <1>6, BoundsAssumption DEF WritesChecklist, TypeOK, Scripts
  <2>2. SnapKept'
    BY <1>6 DEF WritesChecklist, SnapKept
  <2>3. SeenKept'
    BY <1>6, <1>c DEF WritesChecklist
  <2> QED BY <2>1, <2>2, <2>3
<1>7. CASE UNCHANGED vars
  BY <1>a, <1>7 DEF vars, audit, TypeOK, SnapKept
<1> QED BY <1>1, <1>2, <1>3, <1>4, <1>5, <1>6, <1>7 DEF Next

(* Every list a switch keeps stays within its VLAN database, every reading     *)
(* ends with the run it was made for, and a report answers every rule.         *)
THEOREM TypeCorrect == Spec => []TypeOK
<1>1. Inv => TypeOK
  BY DEF Inv
<1> QED BY InvInit, InvNext, <1>1, PTL DEF Spec
-----------------------------------------------------------------------------
(* What a template makes of a port.                                          *)

Own(b, t, f, none) == IF b[f] # none THEN b[f] ELSE t[f]

LEMMA ExpandParts ==
  ASSUME NEW b, DOMAIN b = PortParts, NEW bodies, b.source \in DOMAIN bodies
  PROVE  LET e == Expand(b, bodies)
             t == bodies[b.source]
         IN /\ DOMAIN e = PortParts
            /\ e.mode = IF "trunk" \in {b.mode, t.mode} THEN "trunk"
                        ELSE Own(b, t, "mode", "unsaid")
            /\ e.vlan = Own(b, t, "vlan", NoVlan) /\ e.native = Own(b, t, "native", NoVlan)
            /\ e.allowed = Own(b, t, "allowed", AllowAll)
            /\ e.state = Own(b, t, "state", "unsaid")
            /\ e.policy = Own(b, t, "policy", "none")
            /\ e.l3 = b.l3 /\ e.source = b.source /\ e.uplink = (b.uplink \/ t.uplink)
            /\ e.lines = b.lines \cup t.lines
                           \cup IF t.state = "shutdown" THEN {"shutdown-in-template"} ELSE {}
<1> DEFINE t == bodies[b.source]
           mode == IF "trunk" \in {b.mode, t.mode} THEN "trunk" ELSE Own(b, t, "mode", "unsaid")
           vlan == Own(b, t, "vlan", NoVlan)
           native == Own(b, t, "native", NoVlan)
           allowed == Own(b, t, "allowed", AllowAll)
           state == Own(b, t, "state", "unsaid")
           policy == Own(b, t, "policy", "none")
           lines == b.lines \cup t.lines
                      \cup IF t.state = "shutdown" THEN {"shutdown-in-template"} ELSE {}
           uplink == b.uplink \/ t.uplink
           e == Expand(b, bodies)
<1>1. e = [b EXCEPT !.mode = mode, !.vlan = vlan, !.native = native, !.allowed = allowed,
                    !.state = state, !.uplink = uplink, !.policy = policy, !.lines = lines]
  BY Zenon DEF Expand, Own
<1> HIDE DEF e, t, mode, vlan, native, allowed, state, policy, lines, uplink
<1>2. /\ DOMAIN e = PortParts /\ e.mode = mode /\ e.vlan = vlan /\ e.native = native
      /\ e.allowed = allowed /\ e.state = state /\ e.policy = policy /\ e.lines = lines
      /\ e.l3 = b.l3 /\ e.source = b.source /\ e.uplink = uplink
  BY <1>1 DEF PortParts
<1> QED BY <1>2, Zenon DEF e, t, mode, vlan, native, allowed, state, policy, lines, uplink

LEMMA SortedPort ==
  ASSUME NEW read, IsSwitch(read), NEW p \in Port
  PROVE  Sorted(read).ports[p] = Expand(read.ports[p], ReadTemplates(read))
<1>1. "ports" \in DOMAIN read
  BY DEF IsSwitch, Parts
<1> QED BY <1>1 DEF Sorted, Expanded

\* The switch prefers the block's own mode; all other parts are as expanded.
LEMMA InEffectParts ==
  ASSUME NEW s, IsSwitch(s), NEW p \in Port
  PROVE  LET b == s.ports[p]
             e == Expand(b, s.tmpl)
         IN /\ InEffect(s, p).mode = IF b.mode # "unsaid" THEN b.mode ELSE e.mode
            /\ InEffect(s, p).state = e.state /\ InEffect(s, p).allowed = e.allowed
<1> DEFINE b == s.ports[p]
           e == Expand(b, s.tmpl)
           mode == IF b.mode # "unsaid" THEN b.mode ELSE e.mode
<1>1. DOMAIN b = PortParts
  BY DEF IsSwitch, IsBlock
<1>2. DOMAIN e = PortParts
  <2>1. CASE b.source \notin DOMAIN s.tmpl
    BY <1>1, <2>1 DEF Expand
  <2>2. CASE b.source \in DOMAIN s.tmpl
    BY <1>1, <2>2, ExpandParts, Zenon
  <2> QED BY <2>1, <2>2
<1>3. InEffect(s, p) = [e EXCEPT !.mode = mode]
  BY Zenon DEF InEffect
<1> HIDE DEF b, e
<1>4. /\ InEffect(s, p).mode = mode
      /\ InEffect(s, p).state = e.state /\ InEffect(s, p).allowed = e.allowed
  BY <1>2, <1>3 DEF PortParts
<1> QED BY <1>4, Zenon DEF b, e

LEMMA UplinkSorted ==
  ASSUME NEW s, IsSwitch(s), NEW read, IsSwitch(read), read.tmpl = s.tmpl,
         NEW p \in Port, read.ports[p] = s.ports[p], p \notin Unread(read),
         InEffect(s, p).mode = "trunk"
  PROVE  p \notin AccessPorts(Sorted(read))
<1> DEFINE b == s.ports[p]
           R == ReadTemplates(read)
<1>1. DOMAIN b = PortParts
  BY DEF IsSwitch, IsBlock
<1>2. "trunk" = IF b.mode # "unsaid" THEN b.mode ELSE Expand(b, s.tmpl).mode
  BY InEffectParts
<1>3. b.source \in DOMAIN s.tmpl => b.source \in DOMAIN R /\ R[b.source] = s.tmpl[b.source]
  BY DEF Unread, ReadTemplates
<1>4. b.source \notin DOMAIN s.tmpl => b.source \notin DOMAIN R
  BY DEF ReadTemplates
<1>5. Expand(b, R).mode = "trunk"
  <2> HIDE DEF R, b
  <2>1. CASE b.source \notin DOMAIN s.tmpl
    <3>1. Expand(b, R) = b /\ Expand(b, s.tmpl) = b
      BY <1>4, <2>1 DEF Expand
    <3> QED BY <1>2, <3>1
  <2>2. CASE b.source \in DOMAIN s.tmpl
    <3> DEFINE t == s.tmpl[b.source]
               m == IF "trunk" \in {b.mode, t.mode} THEN "trunk" ELSE Own(b, t, "mode", "unsaid")
    <3>1. Expand(b, s.tmpl).mode = m
      BY <1>1, <2>2, ExpandParts, Zenon
    <3> DEFINE u == R[b.source]
    <3>2. Expand(b, R).mode = IF "trunk" \in {b.mode, u.mode} THEN "trunk"
                              ELSE Own(b, u, "mode", "unsaid")
      BY <1>1, <1>3, <2>2, ExpandParts, Zenon
    <3>3. u = t
      BY <1>3, <2>2
    <3> HIDE DEF t, u
    <3>4. Expand(b, R).mode = m
      BY <3>2, <3>3
    <3> QED BY <1>2, <3>1, <3>4
  <2> QED BY <2>1, <2>2
<1>6. Sorted(read).ports[p].mode = "trunk"
  BY <1>5, SortedPort, Zenon
<1> QED BY <1>6 DEF AccessPorts, TrunkPorts

\* A push is one of the two.
LEMMA PushesAre ==
  ASSUME Inv, [Next]_vars, Pushes
  PROVE  script \in Scripts /\ (Sends \/ SessionLost)
<1>1. script \in Scripts /\ script' = "none"
  BY DEF Pushes
<1>2. script \notin {"none", "audit", "checklist"}
  BY <1>1 DEF Scripts
<1>3. CASE \E s \in Scripts : Reads(s)
  BY <1>2, <1>3 DEF Reads
<1>4. CASE RootMoves \/ PortIsRebuilt \/ PortIsEnabled \/ VlanIsCreated
  BY <1>1, <1>2, <1>4 DEF RootMoves, PortIsRebuilt, PortIsEnabled, VlanIsCreated, Changes
<1>5. CASE Discovers \/ Judges \/ WritesChecklist
  BY <1>2, <1>5 DEF Discovers, Judges, WritesChecklist
<1>6. CASE UNCHANGED vars
  BY <1>1, <1>2, <1>6 DEF vars
<1> QED BY <1>1, <1>3, <1>4, <1>5, <1>6 DEF Next

LEMMA PushKeeps ==
  ASSUME Inv, [Next]_vars, Pushes
  PROVE  /\ Onward(sw, sw', snap)
         /\ IsSwitch(sw) /\ IsSwitch(sw') /\ IsSwitch(snap)
         /\ snap.db \subseteq sw.db /\ snap.tmpl = sw.tmpl /\ snap.hidden = sw.hidden
         /\ sw'.tmpl = sw.tmpl
<1>1. script \in Scripts /\ (Sends \/ SessionLost)
  BY PushesAre
<1>2. snap # Nothing
  BY <1>1 DEF Inv, TypeOK
<1>3. Onward(sw, sw', snap) /\ IsSwitch(snap) /\ snap.db \subseteq sw.db
  BY <1>1, PushedOnward
<1>4. snap.tmpl = sw.tmpl /\ snap.hidden = sw.hidden /\ IsSwitch(sw)
  BY <1>2 DEF Inv, SnapKept, TypeOK
<1>5. IsSwitch(sw') /\ sw'.tmpl = sw.tmpl
  BY <1>3, <1>4, StaysSwitch
<1> QED BY <1>3, <1>4, <1>5

LEMMA UplinksStep ==
  ASSUME Inv, [Next]_vars, Pushes, NEW p \in InEffectTrunks(sw) \ Unread(snap),
         snap.ports[p] = sw.ports[p]
  PROVE  InEffect(sw', p).mode = "trunk"
<1>1. p \in Port /\ InEffect(sw, p).mode = "trunk"
  BY DEF InEffectTrunks, Switchports
<1>2. p \notin AccessPorts(Sorted(snap))
  BY <1>1, PushKeeps, UplinkSorted
<1> DEFINE b == sw.ports[p]
           d == sw'.ports[p]
<1>3. d.mode = b.mode /\ d.source = b.source
  BY <1>1, <1>2, PushKeeps DEF Onward, PortsOnward, PortOnward
<1>4. DOMAIN b = PortParts /\ DOMAIN d = PortParts
  BY <1>1, PushKeeps DEF IsSwitch, IsBlock
<1>5. /\ InEffect(sw, p).mode = IF b.mode # "unsaid" THEN b.mode ELSE Expand(b, sw.tmpl).mode
      /\ InEffect(sw', p).mode = IF d.mode # "unsaid" THEN d.mode ELSE Expand(d, sw.tmpl).mode
  BY <1>1, PushKeeps, InEffectParts
<1> HIDE DEF b, d
<1>6. Expand(d, sw.tmpl).mode = Expand(b, sw.tmpl).mode
  <2>1. CASE b.source \notin DOMAIN sw.tmpl
    BY <1>3, <2>1 DEF Expand
  <2>2. CASE b.source \in DOMAIN sw.tmpl
    <3> DEFINE t == sw.tmpl[b.source]
    <3> DEFINE u == sw.tmpl[d.source]
    <3>1. Expand(b, sw.tmpl).mode
            = IF "trunk" \in {b.mode, t.mode} THEN "trunk" ELSE Own(b, t, "mode", "unsaid")
      BY <1>4, <2>2, ExpandParts, Zenon
    <3>2. Expand(d, sw.tmpl).mode
            = IF "trunk" \in {d.mode, u.mode} THEN "trunk" ELSE Own(d, u, "mode", "unsaid")
      BY <1>3, <1>4, <2>2, ExpandParts, Zenon
    <3>3. u = t
      BY <1>3
    <3> HIDE DEF t, u
    <3> QED BY <1>3, <3>1, <3>2, <3>3 DEF Own
  <2> QED BY <2>1, <2>2
<1> QED BY <1>1, <1>3, <1>5, <1>6

(* An uplink stays an uplink: what the scripts make an access port of was one   *)
(* by its own block and by every template that was read.                       *)
THEOREM UplinksStayTrunks == Spec => UplinksKeepTheirTrunk
<1>1. Inv /\ [Next]_vars => [Pushes => \A p \in InEffectTrunks(sw) \ Unread(snap) :
        snap.ports[p] = sw.ports[p] => InEffect(sw', p).mode = "trunk"]_vars
  BY UplinksStep
<1> QED BY <1>1, InvInit, InvNext, PTL DEF Spec, UplinksKeepTheirTrunk

LEMMA ShutSorted ==
  ASSUME NEW read, IsSwitch(read), NEW p \in ShutAccessPorts(Sorted(read))
  PROVE  InEffect(read, p).state = "shutdown"
<1> DEFINE b == read.ports[p]
           R == ReadTemplates(read)
<1>1. p \in Port /\ Sorted(read).ports[p].state = "shutdown"
  BY DEF ShutAccessPorts, AccessPorts, Switchports
<1>2. DOMAIN b = PortParts
  BY <1>1 DEF IsSwitch, IsBlock
<1>3. Expand(b, R).state = "shutdown" /\ InEffect(read, p).state = Expand(b, read.tmpl).state
  BY <1>1, SortedPort, InEffectParts
<1>4. b.source \in DOMAIN R => b.source \in DOMAIN read.tmpl /\ R[b.source] = read.tmpl[b.source]
  BY DEF ReadTemplates
<1> HIDE DEF b, R
<1>5. CASE b.source \in DOMAIN R
  <2> DEFINE t == R[b.source]
             u == read.tmpl[b.source]
  <2>1. Expand(b, R).state = Own(b, t, "state", "unsaid")
    BY <1>2, <1>5, ExpandParts, Zenon
  <2>2. Expand(b, read.tmpl).state = Own(b, u, "state", "unsaid")
    BY <1>2, <1>4, <1>5, ExpandParts, Zenon
  <2>3. t = u
    BY <1>4, <1>5
  <2> HIDE DEF t, u
  <2> QED BY <1>3, <2>1, <2>2, <2>3
<1>6. CASE b.source \notin DOMAIN R
  <2>1. b.state = "shutdown"
    BY <1>3, <1>6 DEF Expand
  <2>2. CASE b.source \notin DOMAIN read.tmpl
    BY <1>3, <2>1, <2>2 DEF Expand
  <2>3. CASE b.source \in DOMAIN read.tmpl
    <3>1. Expand(b, read.tmpl).state = Own(b, read.tmpl[b.source], "state", "unsaid")
      BY <1>2, <2>3, ExpandParts, Zenon
    <3> QED BY <1>3, <2>1, <3>1 DEF Own
  <2> QED BY <2>2, <2>3
<1> QED BY <1>5, <1>6

(* A port that was up when the script read the switch keeps its VLAN.           *)
THEOREM ServiceIsKept == Spec => ServiceKept
<1>1. ASSUME Inv, [Next]_vars, Pushes, NEW p \in Port, InEffect(snap, p).state # "shutdown"
      PROVE  sw'.ports[p].vlan = sw.ports[p].vlan
  <2>1. p \notin ShutAccessPorts(Sorted(snap))
    BY <1>1, PushKeeps, ShutSorted
  <2> QED BY <2>1, <1>1, PushKeeps DEF Onward, PortsOnward, PortOnward
<1>2. Inv /\ [Next]_vars => [Pushes => \A p \in Port :
        InEffect(snap, p).state # "shutdown" => sw'.ports[p].vlan = sw.ports[p].vlan]_vars
  BY <1>1
<1> QED BY <1>2, InvInit, InvNext, PTL DEF Spec, ServiceKept

LEMMA CarriedStep ==
  ASSUME Inv, [Next]_vars, Pushes, NEW p \in InEffectTrunks(sw),
         NEW v \in (sw.db \cap snap.db) \ {1, Inventory.unused, Inventory.native},
         Carries(sw, p, v)
  PROVE  Carries(sw', p, v)
<1> DEFINE b == sw.ports[p]
           d == sw'.ports[p]
<1>1. p \in Port
  BY DEF InEffectTrunks, Switchports
<1>2. /\ DOMAIN b = PortParts /\ DOMAIN d = PortParts
      /\ InEffect(sw, p).allowed = Expand(b, sw.tmpl).allowed
      /\ InEffect(sw', p).allowed = Expand(d, sw.tmpl).allowed
  BY <1>1, PushKeeps, InEffectParts DEF IsSwitch, IsBlock
<1>3. d.source = b.source /\ (d.allowed = b.allowed \/ d.allowed = Pruning(snap))
  BY <1>1, PushKeeps DEF Onward, PortsOnward, PortOnward
<1> HIDE DEF b, d
<1>4. CASE d.allowed = b.allowed
  <2>1. Expand(d, sw.tmpl).allowed = Expand(b, sw.tmpl).allowed
    <3>1. CASE b.source \notin DOMAIN sw.tmpl
      BY <1>3, <1>4, <3>1 DEF Expand
    <3>2. CASE b.source \in DOMAIN sw.tmpl
      <4> DEFINE t == sw.tmpl[b.source]
                 u == sw.tmpl[d.source]
      <4>1. Expand(b, sw.tmpl).allowed = Own(b, t, "allowed", AllowAll)
        BY <1>2, <3>2, ExpandParts, Zenon
      <4>2. Expand(d, sw.tmpl).allowed = Own(d, u, "allowed", AllowAll)
        BY <1>2, <1>3, <3>2, ExpandParts, Zenon
      <4>3. u = t
        BY <1>3
      <4> HIDE DEF t, u
      <4> QED BY <1>4, <4>1, <4>2, <4>3 DEF Own
    <3> QED BY <3>1, <3>2
  <2> QED BY <1>2, <2>1 DEF Carries, Pruned
<1>5. CASE d.allowed = Pruning(snap)
  <2>1. Pruning(snap) # AllowAll
    BY DEF Pruning, Allow, AllowAll
  <2>2. Expand(d, sw.tmpl).allowed = Pruning(snap)
    <3>1. CASE d.source \notin DOMAIN sw.tmpl
      BY <1>5, <3>1 DEF Expand
    <3>2. CASE d.source \in DOMAIN sw.tmpl
      <4>1. Expand(d, sw.tmpl).allowed = Own(d, sw.tmpl[d.source], "allowed", AllowAll)
        BY <1>2, <3>2, ExpandParts, Zenon
      <4> QED BY <1>5, <2>1, <4>1 DEF Own
    <3> QED BY <3>1, <3>2
  <2>3. v \in TrunkVlans(snap.db)
    BY DEF TrunkVlans, UserVlans, Configured
  <2>4. Pruning(snap).form = "only" /\ v \in Pruning(snap).vlans
    BY <2>3 DEF Pruning, Allow
  <2> QED BY <1>2, <2>2, <2>4 DEF Carries, Pruned
<1> QED BY <1>3, <1>4, <1>5

(* A VLAN of the database that crossed a trunk crosses it after any push, but    *)
(* for VLAN 1 and the two that are set aside.                                  *)
THEOREM VlansStayCarried == Spec => VlansCarried
<1>1. Inv /\ [Next]_vars => [Pushes => \A p \in InEffectTrunks(sw),
         v \in (sw.db \cap snap.db) \ {1, Inventory.unused, Inventory.native} :
           Carries(sw, p, v) => Carries(sw', p, v)]_vars
  BY CarriedStep
<1> QED BY <1>1, InvInit, InvNext, PTL DEF Spec, VlansCarried
-----------------------------------------------------------------------------
(* Rules that ask nothing of a port.                                         *)

\* The rules that ask something of a port.
OfPorts ==
  {"V-220623", "V-220629", "V-220630", "V-220632", "V-220633", "V-220634", "V-220635", "V-220636",
   "V-220639", "V-220640", "V-220641", "V-220642", "V-220643", "V-220645", "V-220646", "V-220647",
   "V-220651"}

LEMMA SameAnswer ==
  ASSUME NEW c, NEW d, \A f \in Parts \ {"ports"} : d[f] = c[f],
         NEW r \in Checks \ OfPorts
  PROVE  Answer(r, d) = Answer(r, c)
<1>1. /\ d.lines = c.lines /\ d.con = c.con /\ d.vty = c.vty /\ d.acls = c.acls
      /\ d.policies = c.policies /\ d.users = c.users /\ d.methods = c.methods
      /\ d.groups = c.groups /\ d.radius = c.radius /\ d.vtp = c.vtp /\ d.snmp = c.snmp
      /\ d.ssh = c.ssh /\ d.trap = c.trap /\ d.block = c.block
      /\ d.filePrivilege = c.filePrivilege /\ d.ntpServers = c.ntpServers
      /\ d.ntpKeys = c.ntpKeys /\ d.ntpTrusted = c.ntpTrusted /\ d.ntpUsed = c.ntpUsed
      /\ d.syslog = c.syslog /\ d.model = c.model /\ d.train = c.train /\ d.minor = c.minor
      /\ d.enrolled = c.enrolled /\ d.applets = c.applets
  BY DEF Parts
<1>2. \A x : PasswordPolicy(d, x) = PasswordPolicy(c, x)
  BY <1>1, SMT DEF PasswordPolicy
<1>3. /\ NtpKey(d) = NtpKey(c) /\ ConfigBackup(d) = ConfigBackup(c)
      /\ Trustpoints(d) = Trustpoints(c) /\ SessionLimit(d) = SessionLimit(c)
  <2>1. NtpKey(d) = NtpKey(c)
    BY <1>1, SMT DEF NtpKey
  <2>2. ConfigBackup(d) = ConfigBackup(c) /\ Trustpoints(d) = Trustpoints(c)
    BY <1>1, SMT DEF ConfigBackup, Trustpoints
  <2>3. SessionLimit(d) = SessionLimit(c)
    BY <1>1, SMT DEF SessionLimit
  <2> QED BY <2>1, <2>2, <2>3
<1>4. /\ VtyAcl(d) = VtyAcl(c) /\ VtyAclLogs(d) = VtyAclLogs(c) /\ LoginBlock(d) = LoginBlock(c)
      /\ AuditInfo(d) = AuditInfo(c) /\ SingleAccount(d) = SingleAccount(c)
  <2>1. VtyAcl(d) = VtyAcl(c)
    BY <1>1, SMT DEF VtyAcl, HasList, ListOn
  <2>2. VtyAclLogs(d) = VtyAclLogs(c)
    BY <1>1, SMT DEF VtyAclLogs, HasList, ListOn
  <2>3. LoginBlock(d) = LoginBlock(c) /\ AuditInfo(d) = AuditInfo(c)
    BY <1>1, SMT DEF LoginBlock, AuditInfo
  <2>4. SingleAccount(d) = SingleAccount(c)
    BY <1>1, SMT DEF SingleAccount
  <2> QED BY <2>1, <2>2, <2>3, <2>4
<1>5. /\ ExecTimeout(d) = ExecTimeout(c) /\ LoggingTrap(d) = LoggingTrap(c)
      /\ NtpServers(d) = NtpServers(c)
      /\ (\A x : SnmpUser(d, x) = SnmpUser(c, x) /\ SshAlgorithm(d, x) = SshAlgorithm(c, x))
  <2>1. ExecTimeout(d) = ExecTimeout(c) /\ LoggingTrap(d) = LoggingTrap(c)
    BY <1>1, SMT DEF ExecTimeout, LoggingTrap
  <2>2. NtpServers(d) = NtpServers(c) /\ (\A x : SnmpUser(d, x) = SnmpUser(c, x))
    BY <1>1, SMT DEF NtpServers, SnmpUser
  <2>3. \A x : SshAlgorithm(d, x) = SshAlgorithm(c, x)
    BY <1>1, SMT DEF SshAlgorithm, Sshv2
  <2> QED BY <2>1, <2>2, <2>3
<1>6. /\ RadiusRedundancy(d) = RadiusRedundancy(c) /\ Syslog(d) = Syslog(c)
      /\ Supported(d) = Supported(c) /\ VtpPassword(d) = VtpPassword(c)
  <2>1. RadiusRedundancy(d) = RadiusRedundancy(c) /\ Syslog(d) = Syslog(c)
    BY <1>1, SMT DEF RadiusRedundancy, Syslog
  <2>2. Supported(d) = Supported(c) /\ VtpPassword(d) = VtpPassword(c)
    BY <1>1, SMT DEF Supported, VtpPassword
  <2> QED BY <2>1, <2>2
<1>7. CASE r \in LineRules \cup PolicyRules
  <2>1. d.lines = c.lines
    BY <1>1
  <2> QED BY <1>2, <1>7, <2>1, AnswerInGroups, Zenon
<1>8. CASE r \in OneByOne
  <2>1. r \in OneByOne \ OfPorts
    BY <1>8
  <2> QED BY <1>1, <1>3, <1>4, <1>5, <1>6, <2>1, AnswerToOne DEF OneByOne, OfPorts
<1> QED BY <1>7, <1>8, EveryRule

-----------------------------------------------------------------------------
(* What an audit reports is what it saw.                                      *)

\* What a template's body makes of a block.
Spliced(b, t) ==
  [b EXCEPT !.mode = IF "trunk" \in {b.mode, t.mode} THEN "trunk"
                     ELSE Own(b, t, "mode", "unsaid"),
            !.vlan = Own(b, t, "vlan", NoVlan), !.native = Own(b, t, "native", NoVlan),
            !.allowed = Own(b, t, "allowed", AllowAll), !.state = Own(b, t, "state", "unsaid"),
            !.uplink = b.uplink \/ t.uplink, !.policy = Own(b, t, "policy", "none"),
            !.lines = b.lines \cup t.lines
                        \cup IF t.state = "shutdown" THEN {"shutdown-in-template"} ELSE {}]

LEMMA ExpandIs ==
  ASSUME NEW b, NEW bodies, b.source \in DOMAIN bodies
  PROVE  Expand(b, bodies) = Spliced(b, bodies[b.source])
BY Zenon DEF Expand, Spliced, Own

LEMMA ExpandAlike ==
  ASSUME NEW a, NEW x, NEW y, a.source \in DOMAIN y => a.source \in DOMAIN x,
         a.source \in DOMAIN x => a.source \in DOMAIN y /\ y[a.source] = x[a.source]
  PROVE  Expand(a, y) = Expand(a, x)
<1>1. CASE a.source \notin DOMAIN x
  BY <1>1 DEF Expand
<1>2. CASE a.source \in DOMAIN x
  <2>1. a.source \in DOMAIN y /\ y[a.source] = x[a.source]
    BY <1>2
  <2>2. Expand(a, x) = Spliced(a, x[a.source])
    BY <1>2, ExpandIs, Zenon
  <2>3. Expand(a, y) = Spliced(a, y[a.source])
    BY <2>1, ExpandIs, Zenon
  <2> QED BY <2>1, <2>2, <2>3, Zenon
<1> QED BY <1>1, <1>2

\* The templates the first reading has are those every later one would use.
LEMMA SameTemplates ==
  ASSUME NEW first, NEW config, IsSwitch(first), IsSwitch(config), config.tmpl = first.tmpl,
         config.hidden = first.hidden, Unread(config) = {},
         Sourced(config) \subseteq Sourced(first),
         NEW p \in Port
  PROVE  Expand(config.ports[p], ReadTemplates(first)) = Expand(config.ports[p], config.tmpl)
<1> DEFINE b == config.ports[p]
           read == ReadTemplates(first)
<1>1. b.source \notin first.hidden
  <2>1. p \notin Unread(config)
    OBVIOUS
  <2> QED BY <2>1 DEF Unread
<1>2. b.source \in DOMAIN first.tmpl
        => b.source \in DOMAIN read /\ read[b.source] = first.tmpl[b.source]
  <2> HAVE b.source \in DOMAIN first.tmpl
  <2>1. b.source # NoTemplate
    BY DEF IsSwitch
  <2>2. b.source \in {first.ports[q].source : q \in Port}
    BY <2>1 DEF Sourced
  <2> QED BY <1>1, <2>2 DEF ReadTemplates
<1>3. b.source \in DOMAIN read => b.source \in DOMAIN first.tmpl
  BY DEF ReadTemplates
<1> HIDE DEF b, read
<1>4. Expand(b, read) = Expand(b, config.tmpl)
  BY <1>2, <1>3, ExpandAlike
<1> QED BY <1>4, Zenon DEF b, read

\* The second reading, with the first one's answers, is one of the two switches.
LEMMA JudgedIsSeen ==
  ASSUME NEW first, NEW config, IsSwitch(first), IsSwitch(config),
         NEW part \in {"root", "ports", "db"}, Besides(first, config, {part}),
         Unread(config) = {}, Sourced(config) \subseteq Sourced(first)
  PROVE  Judged(config, first) \in {Expanded(first, first.tmpl), Expanded(config, config.tmpl)}
<1> DEFINE j == Judged(config, first)
           ports == [p \in Port |-> Expand(config.ports[p], config.tmpl)]
<1>1. config.tmpl = first.tmpl /\ config.hidden = first.hidden
  BY DEF Besides, Parts
<1>2. \A p \in Port : Expand(config.ports[p], ReadTemplates(first))
          = Expand(config.ports[p], config.tmpl)
  BY <1>1, SameTemplates
<1> DEFINE k == [config EXCEPT !.db = first.db, !.root = first.root, !.vtp = first.vtp,
                               !.snmp = first.snmp, !.ssh = first.ssh, !.model = first.model,
                               !.train = first.train, !.minor = first.minor]
<1>3. /\ DOMAIN k = Parts /\ k.db = first.db /\ k.root = first.root /\ k.ports = config.ports
      /\ \A f \in Parts \ {"db", "root", "ports"} : k[f] = config[f]
  <2>1. /\ DOMAIN config = Parts /\ config.vtp = first.vtp /\ config.snmp = first.snmp
        /\ config.ssh = first.ssh /\ config.model = first.model /\ config.train = first.train
        /\ config.minor = first.minor
    BY DEF Besides, Parts
  <2>2. k = [config EXCEPT !.db = first.db, !.root = first.root]
    BY <2>1 DEF Parts
  <2> HIDE DEF k
  <2>3. DOMAIN k = Parts /\ k.db = first.db /\ k.root = first.root /\ k.ports = config.ports
    BY <2>1, <2>2 DEF Parts
  <2>4. \A f \in Parts \ {"db", "root", "ports"} : k[f] = config[f]
    BY <2>1, <2>2
  <2> QED BY <2>3, <2>4
<1>4. j = Expanded(k, ReadTemplates(first))
  BY Zenon DEF Judged
<1> HIDE DEF k, j
<1>5. [p \in Port |-> Expand(k.ports[p], ReadTemplates(first))] = ports
  BY <1>2, <1>3
<1>6. j = [k EXCEPT !.ports = ports]
  BY <1>4, <1>5 DEF Expanded
<1>7. Expanded(config, config.tmpl) = [config EXCEPT !.ports = ports]
  BY Zenon DEF Expanded
<1>8. part # "ports" => Expanded(first, first.tmpl) = [first EXCEPT !.ports = ports]
  BY <1>1 DEF Expanded, Besides, Parts
<1> HIDE DEF ports
<1>9. CASE part = "ports"
  <2>1. \A f \in Parts \ {"ports"} : k[f] = config[f]
    BY <1>3, <1>9 DEF Besides, Parts
  <2>2. [k EXCEPT !.ports = ports] = [config EXCEPT !.ports = ports]
    BY <1>3, <2>1 DEF IsSwitch
  <2> QED BY <1>6, <1>7, <2>2, Zenon DEF j
<1>10. CASE part # "ports"
  <2>1. \A f \in Parts \ {"ports"} : k[f] = first[f]
    BY <1>3, <1>10 DEF Besides, Parts
  <2>2. [k EXCEPT !.ports = ports] = [first EXCEPT !.ports = ports]
    BY <1>3, <2>1 DEF IsSwitch
  <2> QED BY <1>6, <1>8, <1>10, <2>2, Zenon DEF j
<1> QED BY <1>9, <1>10

\* Of two sightings the second differs from the first in one part, the last one
\* is the switch as it is, and the report is true of one of them.
Covered(sightings) ==
  \A i \in 1..Len(sightings) :
     Unread(sightings[i]) = {} /\ Sourced(sightings[i]) \subseteq Sourced(sightings[1])
TrueOf(verdicts, sightings) ==
  \A r \in Checks : \E i \in 1..Len(sightings) :
     verdicts[r] = Answer(r, Expanded(sightings[i], sightings[i].tmpl))
AuditKept ==
  seen # <<>> =>
    /\ seen[Len(seen)] = sw
    /\ Len(seen) = 2 => \E part \in {"root", "ports", "db"} : Besides(seen[1], seen[2], {part})
    /\ script = "audit" => snap = seen[1]
    /\ script = "checklist" /\ Len(seen) <= 2 /\ Covered(seen) => TrueOf(report, seen)

LEMMA AuditChanged ==
  ASSUME Inv, AuditKept, RootMoves \/ PortIsRebuilt \/ PortIsEnabled \/ VlanIsCreated
  PROVE  AuditKept'
<1>1. /\ Changes /\ \E part \in {"root", "ports", "db"} : Besides(sw, sw', {part})
  BY ChangedSwitch DEF Inv, TypeOK, RootMoves, PortIsRebuilt, PortIsEnabled, VlanIsCreated
<1>2. UNCHANGED <<script, snap, report>>
  BY <1>1 DEF Changes
<1>3. CASE seen = <<>>
  BY <1>1, <1>3 DEF Changes, AuditKept
<1>4. CASE seen # <<>>
  <2>1. PICK S : seen \in Seq(S)
    BY DEF Inv, SeenKept
  <2>2. seen' = Append(seen, sw')
    BY <1>1, <1>4 DEF Changes
  <2>3. Len(seen) \in Nat \ {0} /\ Len(seen') = Len(seen) + 1 /\ seen'[Len(seen')] = sw'
    BY <1>4, <2>1, <2>2
  <2>4. \A i \in 1..Len(seen) : seen'[i] = seen[i]
    BY <2>1, <2>2
  <2>5. Len(seen') = 2 => \E part \in {"root", "ports", "db"} :
            Besides(seen'[1], seen'[2], {part})
    <3> HAVE Len(seen') = 2
    <3>1. Len(seen) = 1
      BY <2>3
    <3>2. seen'[1] = sw
      BY <1>4, <2>4, <3>1 DEF AuditKept
    <3>3. seen'[2] = sw'
      BY <2>3
    <3> QED BY <1>1, <3>2, <3>3, Zenon
  <2>6. Covered(seen') => Covered(seen)
    <3>1. 1 \in 1..Len(seen) /\ 1..Len(seen) \subseteq 1..Len(seen')
      BY <2>3
    <3> SUFFICES ASSUME Covered(seen'), NEW i \in 1..Len(seen)
                 PROVE  Unread(seen[i]) = {} /\ Sourced(seen[i]) \subseteq Sourced(seen[1])
      BY Zenon DEF Covered
    <3>2. Unread(seen'[i]) = {} /\ Sourced(seen'[i]) \subseteq Sourced(seen'[1])
      BY <3>1, Zenon DEF Covered
    <3>3. seen'[i] = seen[i] /\ seen'[1] = seen[1]
      BY <2>4, <3>1, Zenon
    <3> QED BY <3>2, <3>3, Zenon
  <2>7. TrueOf(report, seen) => TrueOf(report, seen')
    <3>1. 1..Len(seen) \subseteq 1..Len(seen')
      BY <2>3
    <3> QED BY <2>4, <3>1, Zenon DEF TrueOf
  <2>8. script' = "audit" => snap' = seen'[1]
    BY <1>2, <1>4, <2>3, <2>4 DEF AuditKept
  <2>9. script' = "checklist" /\ Len(seen') <= 2 /\ Covered(seen') => TrueOf(report', seen')
    BY <1>2, <1>4, <2>3, <2>6, <2>7 DEF AuditKept
  <2> QED BY <2>3, <2>5, <2>8, <2>9 DEF AuditKept
<1> QED BY <1>3, <1>4
LEMMA AuditNext == Inv /\ AuditKept /\ [Next]_vars => AuditKept'
<1> SUFFICES ASSUME Inv, AuditKept, [Next]_vars PROVE AuditKept'
  OBVIOUS
<1>1. seen # <<>> <=> script \in {"audit", "checklist"}
  BY DEF Inv, TypeOK
<1>2. ASSUME NEW s \in Scripts, Reads(s) PROVE AuditKept'
  BY <1>1, <1>2 DEF Reads, audit, AuditKept
<1>3. CASE Sends \/ SessionLost
  BY <1>1, <1>3 DEF Sends, SessionLost, audit, AuditKept, Scripts
<1>4. CASE RootMoves \/ PortIsRebuilt \/ PortIsEnabled \/ VlanIsCreated
  BY <1>4, AuditChanged
<1>5. CASE Discovers
  BY <1>5 DEF Discovers, AuditKept
<1>6. CASE Judges
  <2>1. PICK S : seen \in Seq(S) /\ \A s \in S : IsSwitch(s)
    BY DEF Inv, SeenKept
  <2>2. /\ seen # <<>> /\ Len(seen) \in Nat \ {0} /\ seen' = seen /\ sw' = sw
        /\ script' = "checklist"
        /\ snap = seen[1] /\ sw = seen[Len(seen)]
    BY <1>1, <1>6, <2>1 DEF Judges, AuditKept
  <2>3. ASSUME Len(seen) <= 2, Covered(seen) PROVE TrueOf(report', seen)
    <3>1. IsSwitch(snap) /\ IsSwitch(sw)
      BY <2>1, <2>2
    <3>2. \E part \in {"root", "ports", "db"} : Besides(snap, sw, {part})
      <4>1. CASE Len(seen) = 1
        <5>1. snap = sw
          BY <2>2, <4>1
        <5>2. \A s : IsSwitch(s) => Besides(s, s, {"root"})
          BY Zenon DEF Besides, IsSwitch
        <5> QED BY <3>1, <5>1, <5>2
      <4>2. CASE Len(seen) = 2
        BY <2>2, <4>2 DEF AuditKept
      <4>3. \A n \in Nat \ {0} : n <= 2 => n = 1 \/ n = 2
        OBVIOUS
      <4>4. Len(seen) = 1 \/ Len(seen) = 2
        BY <2>2, <2>3, <4>3, Zenon
      <4> QED BY <4>1, <4>2, <4>4, Zenon
    <3>3. Unread(sw) = {} /\ Sourced(sw) \subseteq Sourced(snap)
      <4>1. Len(seen) \in 1..Len(seen)
        BY <2>2
      <4> QED BY <2>2, <2>3, <4>1, Zenon DEF Covered
    <3>4. Judged(sw, snap) \in {Expanded(snap, snap.tmpl), Expanded(sw, sw.tmpl)}
      BY <3>1, <3>2, <3>3, JudgedIsSeen
    <3>5. \E i \in 1..Len(seen) : Judged(sw, snap) = Expanded(seen[i], seen[i].tmpl)
      <4>1. 1 \in 1..Len(seen) /\ Len(seen) \in 1..Len(seen)
        BY <2>2
      <4> QED BY <2>2, <3>4, <4>1, Zenon
    <3>6. \A r \in Checks : report'[r] = Answer(r, Judged(sw, snap))
      BY <1>6, Zenon DEF Judges
    <3> QED BY <3>5, <3>6, Zenon DEF TrueOf
  <2>4. AuditKept'
    <3>1. seen'[Len(seen')] = sw'
      BY <2>2
    <3>2. Len(seen') = 2 => \E part \in {"root", "ports", "db"} :
              Besides(seen'[1], seen'[2], {part})
      BY <2>2, Zenon DEF AuditKept
    <3>3. Len(seen') <= 2 /\ Covered(seen') => TrueOf(report', seen')
      BY <2>2, <2>3, Zenon
    <3> QED BY <2>2, <3>1, <3>2, <3>3 DEF AuditKept
  <2> QED BY <2>4
<1>7. CASE WritesChecklist
  BY <1>7 DEF WritesChecklist, AuditKept
<1>8. CASE UNCHANGED vars
  <2>1. UNCHANGED <<sw, script, snap, report, seen>>
    BY <1>8 DEF vars, audit
  <2> QED BY <2>1, Zenon DEF AuditKept
<1> QED BY <1>2, <1>3, <1>4, <1>5, <1>6, <1>7, <1>8 DEF Next

(* A checklist closes no finding and opens none that the switch did not have at *)
(* one of the readings of its audit, as long as it changed once in between and *)
(* showed its templates.                                                       *)
THEOREM ChecklistsAreTrue == Spec => ChecklistIsTrue
<1>1. Init => AuditKept
  BY DEF Init, AuditKept
<1>2. ASSUME Inv, AuditKept, [Next]_vars,
             checklist' \notin {checklist, Torn}, Len(seen) <= 2, TemplatesCover,
             NEW r \in Checks
      PROVE  LET was == {Answer(r, Expanded(seen[i], seen[i].tmpl)) : i \in 1..Len(seen)} IN
             /\ checklist'[r] = "not_a_finding" => "PASS" \in was
             /\ checklist'[r] = "open" => "FAIL" \in was
  <2>1. WritesChecklist
    BY <1>2 DEF Next, Reads, Sends, SessionLost, RootMoves, PortIsRebuilt, PortIsEnabled,
                VlanIsCreated, Changes, Discovers, Judges, vars, audit
  <2>2. script = "checklist" /\ checklist'[r] = CklbStatus(report[r])
    BY <1>2, <2>1 DEF WritesChecklist
  <2>3. seen # <<>>
    BY <1>2, <2>2 DEF Inv, TypeOK
  <2>4. Covered(seen)
    BY <1>2, Zenon DEF Covered, TemplatesCover
  <2>5. PICK i \in 1..Len(seen) : report[r] = Answer(r, Expanded(seen[i], seen[i].tmpl))
    BY <1>2, <2>2, <2>3, <2>4 DEF AuditKept, TrueOf
  <2>6. report[r] \in Verdicts
    BY <2>5, AnswersAreVerdicts
  <2>7. /\ checklist'[r] = "not_a_finding" => report[r] = "PASS"
        /\ checklist'[r] = "open" => report[r] = "FAIL"
    BY <2>2, <2>6 DEF CklbStatus, Verdicts
  <2> QED BY <2>5, <2>7
<1>3. Inv /\ AuditKept /\ [Next]_vars =>
        (checklist' \notin {checklist, Torn} /\ Len(seen) <= 2 /\ TemplatesCover =>
           \A r \in Checks :
             LET was == {Answer(r, Expanded(seen[i], seen[i].tmpl)) : i \in 1..Len(seen)} IN
             /\ checklist'[r] = "not_a_finding" => "PASS" \in was
             /\ checklist'[r] = "open" => "FAIL" \in was)
  BY <1>2
<1> QED BY <1>1, <1>3, InvInit, InvNext, AuditNext, PTL DEF Spec, ChecklistIsTrue
-----------------------------------------------------------------------------
(* What the scripts that set who may log in make of the lines.               *)

\* Some range of lines ends where no other goes beyond.
LEMMA SomeGoesHighest ==
  ASSUME NEW D \in SUBSET (Nat \X Nat), IsFiniteSet(D), D # {}
  PROVE  \E n \in {r[2] : r \in D} : \A r \in D : r[2] <= n
<1>1. PICK n \in Nat : ExistsSurjection(1..n, D)
  BY FS_NatSurjection
<1>2. PICK f \in Surjection(1..n, D) : TRUE
  BY <1>1 DEF ExistsSurjection
<1>3. \A i \in 1..n : f[i] \in Nat \X Nat
  BY <1>2 DEF Surjection
<1> DEFINE Bounded == {i \in 0..n : \E m \in Nat : \A j \in 1..i : f[j][2] <= m}
<1>4. 0 \in Bounded
  OBVIOUS
<1>5. ASSUME NEW i \in 1..n, i - 1 \in Bounded
      PROVE  i \in Bounded
  <2>1. PICK m \in Nat : \A j \in 1..(i - 1) : f[j][2] <= m
    BY <1>5
  <2> DEFINE k == f[i][2]
  <2>2. k \in Nat /\ \A j \in 1..n : f[j][2] \in Nat
    BY <1>3
  <2> HIDE DEF k
  <2>3. m + k \in Nat /\ \A j \in 1..i : f[j][2] <= m + k
    <3>1. \A j \in 1..i : j = i \/ j \in 1..(i - 1)
      OBVIOUS
    <3>2. f[i][2] = k
      BY DEF k
    <3>3. \A j \in 1..(i - 1) : f[j][2] <= m + k
      BY <2>1, <2>2
    <3> QED BY <2>2, <3>1, <3>2, <3>3
  <2>4. i \in 0..n
    OBVIOUS
  <2> QED BY <2>3, <2>4, Zenon
<1>6. n \in Bounded
  <2>1. \A i \in 0..n : i \in Bounded
    <3> HIDE DEF Bounded
    <3> QED BY <1>4, <1>5, CountingUp
  <2>2. n \in 0..n
    OBVIOUS
  <2> HIDE DEF Bounded
  <2> QED BY <2>1, <2>2, Zenon
<1> DEFINE Above == {m \in Nat : \A r \in D : r[2] <= m}
<1>7. Above # {}
  <2>1. PICK m \in Nat : \A j \in 1..n : f[j][2] <= m
    BY <1>6
  <2>2. \A r \in D : \E j \in 1..n : f[j] = r
    BY <1>2 DEF Surjection
  <2> QED BY <2>1, <2>2
<1>8. PICK m \in Above : \A k \in Above : m <= k
  <2> HIDE DEF Above
  <2>1. Above \in SUBSET Nat
    BY DEF Above
  <2> QED BY <1>7, <2>1, LeastNumber
<1>9. \E r \in D : r[2] = m
  <2> SUFFICES ASSUME \A r \in D : r[2] # m
               PROVE  FALSE
    OBVIOUS
  <2>1. \A r \in D : r[2] \in Nat /\ r[2] < m
    BY <1>8
  <2>2. m - 1 \in Above
    BY <2>1, <1>8
  <2> QED BY <1>8, <2>2
<1> QED BY <1>8, <1>9

\* The lines the logging script has to set are all its lines to 4.
LEMMA HighestReached ==
  ASSUME NEW s, IsSwitch(s), NEW r \in DOMAIN s.vty, Within(r, <<0, 4>>)
  PROVE  Within(r, <<0, HighestVty(s)>>)
<1>1. DOMAIN s.vty \in SUBSET (Nat \X Nat) /\ IsFiniteSet(DOMAIN s.vty) /\ DOMAIN s.vty # {}
  BY DEF IsSwitch, IsVty
<1>2. CASE s.vtyRead
  <2> DEFINE h == HighestVty(s)
  <2>1. \E n \in {q[2] : q \in DOMAIN s.vty} : \A q \in DOMAIN s.vty : q[2] <= n
    BY <1>1, SomeGoesHighest
  <2>2. h = CHOOSE n \in {q[2] : q \in DOMAIN s.vty} : \A q \in DOMAIN s.vty : q[2] <= n
    BY <1>2 DEF HighestVty
  <2> HIDE DEF h
  <2>3. \A q \in DOMAIN s.vty : q[2] <= h
    BY <2>1, <2>2
  <2>4. Within(r, <<0, h>>)
    BY <2>3 DEF Within
  <2> QED BY <2>4 DEF h
<1>3. CASE ~ s.vtyRead
  BY <1>3 DEF HighestVty
<1> QED BY <1>2, <1>3

\* Most commands are about something else than logging in.
LEMMA TameElsewhere ==
  ASSUME NEW s, Shaped(s), NEW read, NEW c \in Tame(read) \ LimitCommands(read)
  PROVE  Apply(s, c).acls = s.acls /\ Apply(s, c).vty = s.vty
<1> DEFINE t == Apply(s, c)
<1>1. CASE c \in LineCommands
  <2>1. \/ \E x : t = [s EXCEPT !.lines = @ \cup x]
        \/ \E x : t = [s EXCEPT !.lines = @ \ x]
        \/ t = [s EXCEPT !.lines = @ \cup {"ip-ssh-version-2"},
                         !.ssh = IF @ = "1.99" THEN "2.0" ELSE @]
    <3>1. CASE c = SshVersion2
      BY <3>1 DEF Apply, SshVersion2
    <3>2. CASE \E x \in SUBSET SentLines : c = Lines(x)
      <4>1. PICK x \in SUBSET SentLines : c = Lines(x)
        BY <3>2
      <4>2. t = [s EXCEPT !.lines = @ \cup x]
        BY <4>1 DEF Apply, Lines
      <4> QED BY <4>2, Zenon
    <3>3. CASE \E x \in SUBSET Withdrawn : c = No(x)
      <4>1. PICK x \in SUBSET Withdrawn : c = No(x)
        BY <3>3
      <4>2. t = [s EXCEPT !.lines = @ \ x]
        BY <4>1 DEF Apply, No
      <4> QED BY <4>2, Zenon
    <3>4. \/ c \in {Lines(x) : x \in SUBSET SentLines}
          \/ c \in {No(x) : x \in SUBSET Withdrawn}
          \/ c = SshVersion2
      <4> HIDE DEF t
      <4> QED BY <1>1 DEF LineCommands
    <3> QED BY <3>1, <3>2, <3>3, <3>4, Zenon
  <2> HIDE DEF t
  <2>2. t.acls = s.acls /\ t.vty = s.vty
    BY <2>1 DEF Shaped, Parts
  <2> QED BY <2>2 DEF t
<1>2. CASE c \in Settings
  <2>1. t = [s EXCEPT ![c.field] = c.arg]
    BY <1>2 DEF Apply, Settings, Set
  <2>2. c.field \in {"block", "trap", "filePrivilege", "con", "vtp", "snmp"}
    BY <1>2 DEF Settings, Set
  <2> HIDE DEF t
  <2>3. t.acls = s.acls /\ t.vty = s.vty
    BY <2>1, <2>2 DEF Shaped, Parts
  <2> QED BY <2>3 DEF t
<1>3. CASE c \in Entries \cup VlanCommands(read)
  <2>1. c.op = "add" /\ c.field \in ListParts
    BY <1>3 DEF Entries, VlanCommands, Add, ListParts
  <2>2. t = [s EXCEPT ![c.field] = @ \cup c.arg]
    BY <2>1 DEF Apply
  <2> HIDE DEF t
  <2>3. t.acls = s.acls /\ t.vty = s.vty
    BY <2>1, <2>2 DEF Shaped, Parts, ListParts
  <2> QED BY <2>3 DEF t
<1>4. CASE c \in PortCommands(read)
  <2>1. c.op \in {"port", "lines-of-port"}
    BY <1>4 DEF PortCommands, PortSettings, OnPort, PortLines
  <2>2. \/ t = [s EXCEPT !.ports[c.port][c.field] = c.arg]
        \/ t = [s EXCEPT !.ports[c.port].lines = @ \cup c.arg]
    BY <2>1 DEF Apply
  <2> HIDE DEF t
  <2>3. t.acls = s.acls /\ t.vty = s.vty
    BY <2>2 DEF Shaped, Parts
  <2> QED BY <2>3 DEF t
<1> QED BY <1>1, <1>2, <1>3, <1>4, Zenon DEF Tame

\* A setting of some lines sets one part of each of them.
LEMMA LinesSet ==
  ASSUME NEW s, Shaped(s), NEW read, NEW c \in LimitCommands(read) \cup TransportCommands(read)
  PROVE  /\ c.field \in {"limit", "timeout", "transport"} /\ c.range \in Ranges(read)
         /\ Apply(s, c).acls = s.acls /\ DOMAIN Apply(s, c).vty = DOMAIN s.vty
         /\ \A r \in DOMAIN s.vty :
              /\ Within(r, c.range) => Apply(s, c).vty[r][c.field] = c.arg
              /\ \A part \in LineParts : part # c.field \/ ~ Within(r, c.range)
                   => Apply(s, c).vty[r][part] = s.vty[r][part]
<1> DEFINE t == Apply(s, c)
<1>1. c.op = "vty" /\ c.field \in {"limit", "timeout", "transport"} /\ c.range \in Ranges(read)
  BY DEF LimitCommands, TransportCommands, Vty
<1>2. t = [s EXCEPT !.vty = [r \in DOMAIN @ |->
             IF Within(r, c.range) THEN [@[r] EXCEPT ![c.field] = c.arg] ELSE @[r]]]
  BY <1>1 DEF Apply
<1> HIDE DEF t
<1>3. /\ t.acls = s.acls
      /\ t.vty = [r \in DOMAIN s.vty |->
           IF Within(r, c.range) THEN [s.vty[r] EXCEPT ![c.field] = c.arg] ELSE s.vty[r]]
  BY <1>2 DEF Shaped, Parts
<1>4. DOMAIN t.vty = DOMAIN s.vty
  BY <1>3
<1>5. \A r \in DOMAIN s.vty :
        /\ Within(r, c.range) => t.vty[r][c.field] = c.arg
        /\ \A part \in LineParts : part # c.field \/ ~ Within(r, c.range)
             => t.vty[r][part] = s.vty[r][part]
  BY <1>1, <1>3 DEF Shaped, LineParts
<1> QED BY <1>1, <1>3, <1>4, <1>5 DEF t

\* A command of a script that sets neither lists nor who may use them.
LEMMA TameKeepsLists ==
  ASSUME NEW s, Shaped(s), NEW read, NEW c \in Tame(read) \cup TransportCommands(read)
  PROVE  /\ Apply(s, c).acls = s.acls /\ DOMAIN Apply(s, c).vty = DOMAIN s.vty
         /\ \A r \in DOMAIN s.vty : Apply(s, c).vty[r].acl = s.vty[r].acl
<1>1. CASE c \in LimitCommands(read) \cup TransportCommands(read)
  BY <1>1, LinesSet DEF LineParts
<1>2. CASE c \notin LimitCommands(read) \cup TransportCommands(read)
  BY <1>2, TameElsewhere
<1> QED BY <1>1, <1>2

\* A command that says nothing of how a line is reached leaves it.
LEMMA TameKeepsTransport ==
  ASSUME NEW s, Shaped(s), NEW read, NEW c \in Tame(read), NEW r \in DOMAIN s.vty
  PROVE  Apply(s, c).vty[r].transport = s.vty[r].transport
<1>1. CASE c \in LimitCommands(read)
  <2>1. c.field # "transport"
    BY <1>1 DEF LimitCommands, Vty
  <2> QED BY <1>1, <2>1, LinesSet DEF LineParts
<1>2. CASE c \notin LimitCommands(read)
  BY <1>2, TameElsewhere
<1> QED BY <1>1, <1>2

\* A push cut short is the beginning of the whole one.
Begins(cmds, whole) ==
  Len(cmds) \in 0..Len(whole) /\ \A k \in 1..Len(cmds) : cmds[k] = whole[k]

LEMMA PushBegins ==
  ASSUME Inv, script \in Scripts, Sends \/ SessionLost
  PROVE  \E cmds : Begins(cmds, Commands(script, snap)) /\ sw' = ApplyAll(sw, cmds)
<1> DEFINE whole == Commands(script, snap)
<1>1. whole \in Seq(Sendable(snap))
  BY CommandsSent
<1> HIDE DEF whole
<1>2. CASE Sends
  <2>1. sw' = ApplyAll(sw, whole)
    BY <1>2 DEF Sends, whole
  <2>2. Begins(whole, whole)
    BY <1>1 DEF Begins
  <2> QED BY <2>1, <2>2 DEF whole
<1>3. CASE SessionLost
  <2>1. PICK n \in 0..(Len(whole) - 1) : sw' = ApplyAll(sw, SubSeq(whole, 1, n))
    BY <1>3 DEF SessionLost, whole
  <2>2. Begins(SubSeq(whole, 1, n), whole)
    BY <1>1 DEF Begins
  <2> QED BY <2>1, <2>2 DEF whole
<1> QED BY <1>2, <1>3

\* Every switch on the way is one, and the last one is what the push leaves.
LEMMA Steps ==
  ASSUME NEW s, Shaped(s), NEW read, NEW whole \in Seq(Sendable(read)),
         NEW cmds, Begins(cmds, whole)
  PROVE  \E f : /\ f[0] = s /\ Len(cmds) \in Nat
                /\ \A n \in 1..Len(cmds) : f[n] = Apply(f[n - 1], whole[n])
                /\ ApplyAll(s, cmds) = f[Len(cmds)]
                /\ \A n \in 0..Len(cmds) : Shaped(f[n]) /\ DOMAIN f[n].vty = DOMAIN s.vty
<1>1. Len(cmds) \in Nat /\ Len(whole) \in Nat /\ Len(cmds) <= Len(whole)
  BY DEF Begins
<1>2. PICK f : /\ f[0] = s
               /\ \A n \in 1..Len(cmds) : f[n] = Apply(f[n - 1], cmds[n])
               /\ ApplyAll(s, cmds) = f[Len(cmds)]
  BY <1>1, Path
<1>3. \A n \in 1..Len(cmds) : f[n] = Apply(f[n - 1], whole[n])
  BY <1>2 DEF Begins
<1> DEFINE Good == {n \in 0..Len(cmds) : Shaped(f[n]) /\ DOMAIN f[n].vty = DOMAIN s.vty}
<1>4. 0 \in Good
  BY <1>1, <1>2
<1>5. ASSUME NEW n \in 1..Len(cmds), n - 1 \in Good
      PROVE  n \in Good
  <2>1. whole[n] \in Sendable(read) /\ Shaped(f[n - 1]) /\ DOMAIN f[n - 1].vty = DOMAIN s.vty
    BY <1>1, <1>5
  <2>2. Onward(f[n - 1], f[n], read)
    BY <1>3, <2>1, CommandOnward
  <2> QED BY <2>1, <2>2 DEF Onward, VtyOnward
<1>6. \A n \in 0..Len(cmds) : n \in Good
  <2> HIDE DEF Good
  <2> QED BY <1>1, <1>4, <1>5, CountingUp
<1> QED BY <1>1, <1>2, <1>3, <1>6

SameLists(s, t) == t.acls = s.acls /\ \A r \in DOMAIN s.vty : t.vty[r].acl = s.vty[r].acl

LEMMA ListsKept ==
  ASSUME NEW s, Shaped(s), NEW read, NEW whole \in Seq(Tame(read) \cup TransportCommands(read)),
         NEW cmds, Begins(cmds, whole)
  PROVE  SameLists(s, ApplyAll(s, cmds))
<1>1. whole \in Seq(Sendable(read)) /\ Len(whole) \in Nat /\ Len(cmds) <= Len(whole)
  BY DEF Sendable, Begins
<1>2. PICK f : /\ f[0] = s /\ Len(cmds) \in Nat
               /\ \A n \in 1..Len(cmds) : f[n] = Apply(f[n - 1], whole[n])
               /\ ApplyAll(s, cmds) = f[Len(cmds)]
               /\ \A n \in 0..Len(cmds) : Shaped(f[n]) /\ DOMAIN f[n].vty = DOMAIN s.vty
  BY <1>1, Steps
<1> DEFINE Good == {n \in 0..Len(cmds) : SameLists(s, f[n])}
<1>3. 0 \in Good
  BY <1>2 DEF SameLists
<1>4. ASSUME NEW n \in 1..Len(cmds), n - 1 \in Good
      PROVE  n \in Good
  <2>1. /\ whole[n] \in Tame(read) \cup TransportCommands(read)
        /\ Shaped(f[n - 1]) /\ DOMAIN f[n - 1].vty = DOMAIN s.vty
    BY <1>1, <1>2
  <2>2. SameLists(f[n - 1], f[n])
    BY <1>2, <2>1, TameKeepsLists DEF SameLists
  <2> QED BY <1>2, <1>4, <2>1, <2>2 DEF SameLists
<1>5. \A n \in 0..Len(cmds) : n \in Good
  <2> HIDE DEF Good
  <2> QED BY <1>2, <1>3, <1>4, CountingUp
<1> QED BY <1>2, <1>5

LEMMA TransportKept ==
  ASSUME NEW s, Shaped(s), NEW read, NEW whole \in Seq(Tame(read)),
         NEW cmds, Begins(cmds, whole), NEW r \in DOMAIN s.vty
  PROVE  ApplyAll(s, cmds).vty[r].transport = s.vty[r].transport
<1>1. whole \in Seq(Sendable(read)) /\ Len(whole) \in Nat /\ Len(cmds) <= Len(whole)
  BY DEF Sendable, Begins
<1>2. PICK f : /\ f[0] = s /\ Len(cmds) \in Nat
               /\ \A n \in 1..Len(cmds) : f[n] = Apply(f[n - 1], whole[n])
               /\ ApplyAll(s, cmds) = f[Len(cmds)]
               /\ \A n \in 0..Len(cmds) : Shaped(f[n]) /\ DOMAIN f[n].vty = DOMAIN s.vty
  BY <1>1, Steps
<1> DEFINE Good == {n \in 0..Len(cmds) : f[n].vty[r].transport = s.vty[r].transport}
<1>3. 0 \in Good
  BY <1>2
<1>4. ASSUME NEW n \in 1..Len(cmds), n - 1 \in Good
      PROVE  n \in Good
  <2>1. whole[n] \in Tame(read) /\ Shaped(f[n - 1]) /\ r \in DOMAIN f[n - 1].vty
    BY <1>1, <1>2
  <2> QED BY <1>2, <1>4, <2>1, TameKeepsTransport
<1>5. \A n \in 0..Len(cmds) : n \in Good
  <2> HIDE DEF Good
  <2> QED BY <1>2, <1>3, <1>4, CountingUp
<1> QED BY <1>2, <1>5

\* What a push makes of the lists: nothing, or it permits the automation host on
\* the one list it then puts on lines; how lines are reached it leaves then.
ListPut(s, t) ==
  /\ t.acls = Permitted(s.acls)
  /\ \A r \in DOMAIN s.vty : /\ t.vty[r].acl \in {s.vty[r].acl, "VTY_MGMT"}
                             /\ t.vty[r].transport = s.vty[r].transport

LEMMA AclPushed ==
  ASSUME NEW s, Shaped(s), NEW cmds, Begins(cmds, AclCommands)
  PROVE  LET t == ApplyAll(s, cmds) IN t = s \/ ListPut(s, t)
<1>1. /\ Len(AclCommands) = 2
      /\ AclCommands[1] = PermitIn("VTY_MGMT", Inventory.automation)
      /\ AclCommands[2] = Vty(<<0, 4>>, "acl", "VTY_MGMT")
  BY DEF AclCommands
<1>2. Len(cmds) \in {0, 1, 2}
  BY <1>1 DEF Begins
<1>3. AclCommands \in Seq(Sendable(s))
  BY AclSent DEF Sendable
<1>4. PICK f : /\ f[0] = s /\ Len(cmds) \in Nat
               /\ \A n \in 1..Len(cmds) : f[n] = Apply(f[n - 1], AclCommands[n])
               /\ ApplyAll(s, cmds) = f[Len(cmds)]
               /\ \A n \in 0..Len(cmds) : Shaped(f[n]) /\ DOMAIN f[n].vty = DOMAIN s.vty
  BY <1>3, Steps
<1> DEFINE a == AclCommands[1]
           b == AclCommands[2]
<1>5. Len(cmds) > 0 => f[1] = Apply(s, a)
  BY <1>2, <1>4
<1>6. Len(cmds) > 1 => f[2] = Apply(f[1], b) /\ Shaped(f[1])
  BY <1>2, <1>4
<1>7. Apply(s, a).acls = Permitted(s.acls) /\ Apply(s, a).vty = s.vty
  <2>1. Apply(s, a) = [s EXCEPT !.acls = WithAcl(@, "VTY_MGMT", Inventory.automation)]
    BY <1>1 DEF Apply, PermitIn
  <2> QED BY <2>1 DEF Shaped, Parts, Permitted
<1>8. ASSUME NEW u, Shaped(u)
      PROVE  /\ Apply(u, b).acls = u.acls
             /\ \A r \in DOMAIN u.vty : /\ Apply(u, b).vty[r].acl \in {u.vty[r].acl, "VTY_MGMT"}
                                        /\ Apply(u, b).vty[r].transport = u.vty[r].transport
  <2> DEFINE t == Apply(u, b)
  <2>1. t = [u EXCEPT !.vty = [r \in DOMAIN @ |->
               IF Within(r, <<0, 4>>) THEN [@[r] EXCEPT !.acl = "VTY_MGMT"] ELSE @[r]]]
    BY <1>1 DEF Apply, Vty
  <2> HIDE DEF t
  <2>2. /\ t.acls = u.acls
        /\ t.vty = [r \in DOMAIN u.vty |->
             IF Within(r, <<0, 4>>) THEN [u.vty[r] EXCEPT !.acl = "VTY_MGMT"] ELSE u.vty[r]]
    BY <1>8, <2>1 DEF Shaped, Parts
  <2>3. \A r \in DOMAIN u.vty : /\ t.vty[r].acl \in {u.vty[r].acl, "VTY_MGMT"}
                                /\ t.vty[r].transport = u.vty[r].transport
    BY <1>8, <2>2 DEF Shaped, LineParts
  <2> QED BY <2>2, <2>3 DEF t
<1> HIDE DEF a, b
<1>9. CASE Len(cmds) = 0
  BY <1>4, <1>9
<1>10. CASE Len(cmds) = 1
  BY <1>4, <1>5, <1>7, <1>10 DEF ListPut
<1>11. CASE Len(cmds) = 2
  <2>1. f[1].acls = Permitted(s.acls) /\ f[1].vty = s.vty /\ Shaped(f[1])
    BY <1>5, <1>6, <1>7, <1>11
  <2>2. ListPut(s, f[2])
    BY <1>6, <1>8, <1>11, <2>1 DEF ListPut
  <2> QED BY <1>4, <1>11, <2>2
<1> QED BY <1>2, <1>9, <1>10, <1>11

LEMMA Joined ==
  ASSUME NEW S, NEW u \in Seq(S), NEW v \in Seq(S)
  PROVE  /\ Len(u \o v) = Len(u) + Len(v) /\ Len(u) \in Nat /\ Len(v) \in Nat
         /\ \A k \in 1..Len(u) : (u \o v)[k] = u[k]
         /\ \A k \in 1..Len(v) : (u \o v)[Len(u) + k] = v[k]
OBVIOUS

\* The logging script opens no line to any protocol without a limit on it.
Reached(s, t, r) ==
  t.vty[r].limit = TRUE \/ t.vty[r].transport \in {s.vty[r].transport, "none"}

LEMMA LoggingPushed ==
  ASSUME NEW s, IsSwitch(s), NEW cmds, Begins(cmds, LoggingCommands(s)), NEW r \in DOMAIN s.vty
  PROVE  Reached(s, ApplyAll(s, cmds), r)
<1> DEFINE front == LoggingFront(s)
           h == HighestVty(s)
           fixes == VtyFixes(h)
           whole == LoggingCommands(s)
           K == Len(front)
           F == Len(fixes)
<1>1. front \in Seq(Tame(s)) /\ whole = front \o fixes
  BY LoggingSplit
<1>2. fixes \in Seq(Tame(s) \cup TransportCommands(s))
  BY VtyFixesSent
<1>3. /\ fixes[1] = Vty(<<0, h>>, "limit", TRUE) /\ fixes[2] = Vty(<<0, h>>, "timeout", 5)
      /\ fixes[3] = Vty(<<0, 4>>, "transport", "ssh") /\ (F = 3 \/ F = 4)
      /\ F = 4 => fixes[4] = Vty(<<5, h>>, "transport", "none")
  <2> HIDE DEF h
  <2> DEFINE a == Vty(<<0, h>>, "limit", TRUE)
             b == Vty(<<0, h>>, "timeout", 5)
             c == Vty(<<0, 4>>, "transport", "ssh")
             d == Vty(<<5, h>>, "transport", "none")
  <2>1. fixes = <<a, b, c>> \o IF h > 4 THEN <<d>> ELSE <<>>
    BY VtyFixesAre
  <2> HIDE DEF a, b, c, d, fixes
  <2> DEFINE S == {a, b, c, d}
             u == <<a, b, c>>
             v == IF h > 4 THEN <<d>> ELSE <<>>
  <2>2. u \in Seq(S) /\ Len(u) = 3 /\ u[1] = a /\ u[2] = b /\ u[3] = c
    OBVIOUS
  <2>3. v \in Seq(S) /\ (Len(v) = 0 \/ Len(v) = 1) /\ (Len(v) = 1 => v[1] = d)
    <3>1. CASE h > 4
      BY <3>1
    <3>2. CASE ~ (h > 4)
      BY <3>2
    <3> QED BY <3>1, <3>2
  <2>4. fixes = u \o v
    BY <2>1
  <2> HIDE DEF u, v, S
  <2>5. /\ fixes[1] = a /\ fixes[2] = b /\ fixes[3] = c /\ (Len(fixes) = 3 \/ Len(fixes) = 4)
        /\ Len(fixes) = 4 => fixes[4] = d
    <3> DEFINE m == Len(u)
               l == Len(v)
               L == Len(fixes)
    <3>1. /\ L = m + l
          /\ \A k \in 1..m : fixes[k] = u[k]
          /\ \A k \in 1..l : fixes[m + k] = v[k]
      <4>1. u \in Seq(S) /\ v \in Seq(S)
        BY <2>2, <2>3
      <4> QED BY <2>4, <4>1, Joined
    <3>2. m = 3 /\ (l = 0 \/ l = 1) /\ (l = 1 => v[1] = d)
      BY <2>2, <2>3
    <3> HIDE DEF m, l, L
    <3>3. fixes[1] = u[1] /\ fixes[2] = u[2] /\ fixes[3] = u[3]
      BY <3>1, <3>2
    <3>4. L = 3 \/ L = 4
      BY <3>1, <3>2
    <3>5. L = 4 => fixes[4] = d
      BY <3>1, <3>2
    <3> QED BY <2>2, <3>3, <3>4, <3>5, Zenon DEF L
  <2> QED BY <2>5 DEF a, b, c, d
<1>4. K \in Nat /\ Len(whole) = K + F
  <2> HIDE DEF front, fixes, whole
  <2> QED BY <1>1, <1>2
<1>5. /\ \A n \in 1..K : whole[n] \in Tame(s)
      /\ \A n \in 1..F : whole[K + n] = fixes[n]
  <2> HIDE DEF front, fixes, whole
  <2> QED BY <1>1, <1>2
<1>6. whole \in Seq(Sendable(s)) /\ Shaped(s)
  <2>1. front \in Seq(Sendable(s)) /\ fixes \in Seq(Sendable(s))
    <3> HIDE DEF front, fixes
    <3> QED BY <1>1, <1>2 DEF Sendable
  <2> HIDE DEF front, fixes, whole
  <2> QED BY <1>1, <2>1, SwitchShaped
<1> HIDE DEF front, fixes, whole, K, F, h
<1>7. PICK f : /\ f[0] = s /\ Len(cmds) \in Nat
               /\ \A n \in 1..Len(cmds) : f[n] = Apply(f[n - 1], whole[n])
               /\ ApplyAll(s, cmds) = f[Len(cmds)]
               /\ \A n \in 0..Len(cmds) : Shaped(f[n]) /\ DOMAIN f[n].vty = DOMAIN s.vty
  BY <1>6, Steps DEF whole
<1>8. Len(cmds) <= Len(whole)
  BY DEF Begins, whole
<1> DEFINE Good == {n \in 0..Len(cmds) :
                      /\ n <= K => f[n].vty[r].transport = s.vty[r].transport
                      /\ n > K /\ Within(r, <<0, h>>) => f[n].vty[r].limit = TRUE
                      /\ n > K /\ ~ Within(r, <<0, h>>) => Reached(s, f[n], r)}
<1>9. 0 \in Good
  BY <1>4, <1>7
<1>10. ASSUME NEW n \in 1..Len(cmds), n - 1 \in Good
       PROVE  n \in Good
  <2> DEFINE u == f[n - 1]
  <2>1. f[n] = Apply(u, whole[n]) /\ Shaped(u) /\ r \in DOMAIN u.vty /\ n \in Nat
    BY <1>7
  <2> HIDE DEF u
  <2>2. CASE n <= K
    <3>1. whole[n] \in Tame(s) /\ u.vty[r].transport = s.vty[r].transport
      BY <1>4, <1>5, <1>10, <2>2 DEF u
    <3> QED BY <1>4, <2>1, <2>2, <3>1, TameKeepsTransport
  <2>3. CASE n > K
    <3> DEFINE i == n - K
               c == whole[n]
    <3>1. i \in 1..4 /\ n = K + i /\ i <= F
      <4>1. n \in Nat /\ n <= Len(cmds) /\ Len(cmds) \in Nat
        BY <1>7
      <4>2. F = 3 \/ F = 4
        BY <1>3, Zenon
      <4> QED BY <1>4, <1>8, <2>3, <4>1, <4>2
    <3>2. c = fixes[i] /\ i \in 1..F
      BY <1>3, <1>4, <1>5, <3>1
    <3> HIDE DEF i, c
    <3>3. \/ i = 1 /\ c = Vty(<<0, h>>, "limit", TRUE)
          \/ i = 2 /\ c = Vty(<<0, h>>, "timeout", 5)
          \/ i = 3 /\ c = Vty(<<0, 4>>, "transport", "ssh")
          \/ i = 4 /\ c = Vty(<<5, h>>, "transport", "none")
      <4>1. CASE i = 1
        BY <1>3, <3>2, <4>1, Zenon
      <4>2. CASE i = 2
        BY <1>3, <3>2, <4>2, Zenon
      <4>3. CASE i = 3
        BY <1>3, <3>2, <4>3, Zenon
      <4>4. CASE i = 4
        <5>1. F = 4
          BY <1>3, <3>1, <4>4
        <5> QED BY <1>3, <3>2, <4>4, <5>1, Zenon
      <4>5. i \in {1, 2, 3, 4}
        BY <3>1
      <4> QED BY <4>1, <4>2, <4>3, <4>4, <4>5, Zenon
    <3>4. c.op = "vty"
      BY <3>3 DEF Vty
    <3>5. f[n].vty[r] = IF Within(r, c.range) THEN [u.vty[r] EXCEPT ![c.field] = c.arg]
                        ELSE u.vty[r]
      <4>1. f[n] = [u EXCEPT !.vty = [q \in DOMAIN @ |->
                 IF Within(q, c.range) THEN [@[q] EXCEPT ![c.field] = c.arg] ELSE @[q]]]
        BY <2>1, <3>4 DEF Apply, c
      <4> QED BY <2>1, <4>1 DEF Shaped, Parts
    <3>6. DOMAIN u.vty[r] = LineParts
      BY <2>1 DEF Shaped
    <3>7. Within(r, <<0, 4>>) => Within(r, <<0, h>>)
      BY HighestReached DEF h
    <3>8. i = 1 => u.vty[r].transport = s.vty[r].transport
      BY <1>4, <1>10, <3>1 DEF u
    <3>9. i > 1 => /\ Within(r, <<0, h>>) => u.vty[r].limit = TRUE
                   /\ ~ Within(r, <<0, h>>) => Reached(s, u, r)
      BY <1>4, <1>10, <3>1 DEF u
    <3>10. CASE i = 1
      <4>1. c.field = "limit" /\ c.arg = TRUE /\ c.range = <<0, h>>
        BY <3>3, <3>10 DEF Vty
      <4>2. Within(r, <<0, h>>) => f[n].vty[r].limit = TRUE
        BY <3>5, <3>6, <4>1 DEF LineParts
      <4>3. ~ Within(r, <<0, h>>) => Reached(s, f[n], r)
        BY <3>5, <3>8, <3>10, <4>1 DEF Reached
      <4> QED BY <1>4, <2>1, <2>3, <4>2, <4>3
    <3>11. CASE i > 1
      <4>1. c.field # "limit" /\ c.field \in LineParts
        BY <3>3, <3>11 DEF Vty, LineParts
      <4>2. f[n].vty[r].limit = u.vty[r].limit
        BY <3>5, <3>6, <4>1 DEF LineParts
      <4>3. ~ Within(r, <<0, h>>) => f[n].vty[r].transport \in {u.vty[r].transport, "none"}
        <5>1. c.field = "timeout" \/ c.range = <<0, 4>> \/ c.arg = "none"
          BY <3>3, <3>11 DEF Vty
        <5>2. c.field = "timeout" => f[n].vty[r].transport = u.vty[r].transport
          BY <3>5, <3>6 DEF LineParts
        <5>3. c.range = <<0, 4>> /\ ~ Within(r, <<0, h>>)
                => f[n].vty[r].transport = u.vty[r].transport
          BY <3>5, <3>7
        <5>4. c.arg = "none" => f[n].vty[r].transport \in {u.vty[r].transport, "none"}
          BY <3>5, <3>6, <4>1 DEF LineParts
        <5> QED BY <5>1, <5>2, <5>3, <5>4
      <4>4. ~ Within(r, <<0, h>>) => Reached(s, f[n], r)
        BY <3>9, <3>11, <4>2, <4>3 DEF Reached
      <4> QED BY <1>4, <2>1, <2>3, <3>9, <3>11, <4>2, <4>4
    <3>12. i = 1 \/ i > 1
      BY <3>1
    <3> QED BY <3>10, <3>11, <3>12, Zenon
  <2>4. n <= K \/ n > K
    BY <1>4, <2>1
  <2> QED BY <2>2, <2>3, <2>4, Zenon
<1>11. \A n \in 0..Len(cmds) : n \in Good
  <2> HIDE DEF Good
  <2> QED BY <1>7, <1>9, <1>10, CountingUp
<1>12. Len(cmds) \in Good
  <2>1. Len(cmds) \in 0..Len(cmds)
    BY <1>7
  <2> HIDE DEF Good
  <2> QED BY <1>11, <2>1
<1> QED BY <1>4, <1>7, <1>12 DEF Reached
-----------------------------------------------------------------------------
(* What a push makes of the ports, the templates that are read in place.      *)

\* A block and what it is with the body of its template in place.
SplicedWith(y, b, e) ==
  /\ DOMAIN e = PortParts
  /\ e.mode = IF "trunk" \in {b.mode, y.mode} THEN "trunk" ELSE Own(b, y, "mode", "unsaid")
  /\ e.vlan = Own(b, y, "vlan", NoVlan) /\ e.native = Own(b, y, "native", NoVlan)
  /\ e.allowed = Own(b, y, "allowed", AllowAll) /\ e.state = Own(b, y, "state", "unsaid")
  /\ e.policy = Own(b, y, "policy", "none") /\ e.l3 = b.l3 /\ e.source = b.source
  /\ e.uplink = (b.uplink \/ y.uplink)
  /\ e.lines = b.lines \cup y.lines
                 \cup IF y.state = "shutdown" THEN {"shutdown-in-template"} ELSE {}

LEMMA ExpandSplices ==
  ASSUME NEW b, DOMAIN b = PortParts, NEW bodies, b.source \in DOMAIN bodies
  PROVE  SplicedWith(bodies[b.source], b, Expand(b, bodies))
<1> DEFINE e == Expand(b, bodies)
           y == bodies[b.source]
<1>1. /\ DOMAIN e = PortParts
      /\ e.mode = IF "trunk" \in {b.mode, y.mode} THEN "trunk" ELSE Own(b, y, "mode", "unsaid")
      /\ e.vlan = Own(b, y, "vlan", NoVlan) /\ e.native = Own(b, y, "native", NoVlan)
      /\ e.allowed = Own(b, y, "allowed", AllowAll)
  BY ExpandParts, Zenon
<1>2. /\ e.state = Own(b, y, "state", "unsaid")
      /\ e.policy = Own(b, y, "policy", "none") /\ e.l3 = b.l3 /\ e.source = b.source
      /\ e.uplink = (b.uplink \/ y.uplink)
      /\ e.lines = b.lines \cup y.lines
                     \cup IF y.state = "shutdown" THEN {"shutdown-in-template"} ELSE {}
  BY ExpandParts, Zenon
<1> HIDE DEF e, y
<1>3. SplicedWith(y, b, e)
  BY <1>1, <1>2, Zenon DEF SplicedWith
<1> QED BY <1>3 DEF e, y

\* Templates put in place, a port goes where its own block goes.
LEMMA ExpandedOnward ==
  ASSUME NEW s, IsSwitch(s), NEW p \in Port, NEW d, PortOnward(p, s.ports[p], d, s),
         Sorted(s).ports[p] = Expand(s.ports[p], s.tmpl)
  PROVE  PortOnward(p, Expand(s.ports[p], s.tmpl), Expand(d, s.tmpl), s)
<1> DEFINE b == s.ports[p]
           e == Expand(b, s.tmpl)
           g == Expand(d, s.tmpl)
           y == s.tmpl[b.source]
<1>1. DOMAIN b = PortParts /\ DOMAIN d = PortParts /\ d.source = b.source
  BY DEF PortOnward, IsSwitch, IsBlock
<1>2. CASE b.source \notin DOMAIN s.tmpl
  <2>1. e = b /\ g = d
    BY <1>1, <1>2 DEF Expand
  <2> QED BY <2>1
<1>3. CASE b.source \in DOMAIN s.tmpl
  <2>0. d.source \in DOMAIN s.tmpl /\ s.tmpl[d.source] = y
    BY <1>1, <1>3
  <2>1. SplicedWith(y, b, e)
    BY <1>1, <1>3, ExpandSplices
  <2>2. SplicedWith(y, d, g)
    <3>1. SplicedWith(s.tmpl[d.source], d, g)
      BY <1>1, <2>0, ExpandSplices
    <3> HIDE DEF g, y
    <3> QED BY <2>0, <3>1
  <2>3. p \in AccessPorts(Sorted(s)) => e.mode # "trunk"
    BY DEF AccessPorts, TrunkPorts
  <2> HIDE DEF e, g, y, b
  <2>4. PortOnward(p, b, d, s)
    BY DEF b
  <2>5. g.l3 = e.l3 /\ g.state = e.state /\ g.source = e.source /\ g.policy = e.policy
    BY <2>1, <2>2, <2>4 DEF PortOnward, SplicedWith, Own
  <2>6. g.uplink = e.uplink
    <3>1. d.uplink = b.uplink
      BY <2>4, Zenon DEF PortOnward
    <3> QED BY <2>1, <2>2, <3>1, Zenon DEF SplicedWith
  <2>7. g.mode = e.mode \/ (g.mode = "access" /\ p \in AccessPorts(Sorted(s)))
    BY <2>1, <2>2, <2>3, <2>4 DEF PortOnward, SplicedWith, Own
  <2>8. \/ g.vlan = e.vlan
        \/ g.vlan = Inventory.unused /\ g.vlan # NoVlan /\ p \in ShutAccessPorts(Sorted(s))
    BY <2>1, <2>2, <2>4 DEF PortOnward, SplicedWith, Own
  <2>9. \/ g.native = e.native
        \/ g.native = Inventory.native /\ g.native # NoVlan /\ p \in TrunkPorts(Sorted(s))
    BY <2>1, <2>2, <2>4 DEF PortOnward, SplicedWith, Own
  <2>10. g.allowed = e.allowed \/ (g.allowed = Pruning(s) /\ p \in TrunkPorts(Sorted(s)))
    <3>1. Pruning(s) # AllowAll
      BY DEF Pruning, Allow, AllowAll
    <3> QED BY <2>1, <2>2, <2>4, <3>1 DEF PortOnward, SplicedWith, Own
  <2>11. Grows(e.lines, g.lines, LinesFor(p, s))
    BY <2>1, <2>2, <2>4 DEF PortOnward, SplicedWith, Grows
  <2>12. PortOnward(p, e, g, s)
    BY <2>1, <2>2, <2>5, <2>6, <2>7, <2>8, <2>9, <2>10, <2>11 DEF PortOnward, SplicedWith
  <2> QED BY <2>12 DEF e, g, b
<1> QED BY <1>2, <1>3

\* The audit's configuration before a push and after it: the templates in place.
PortsGo(s, c, d) ==
  /\ Sorted(s) = c
  /\ \A p \in Port : DOMAIN c.ports[p] = PortParts /\ PortOnward(p, c.ports[p], d.ports[p], s)

LEMMA PortsExpanded ==
  ASSUME NEW s, IsSwitch(s), Unread(s) = {}, NEW t, Onward(s, t, s)
  PROVE  /\ PortsGo(s, Expanded(s, s.tmpl), Expanded(t, t.tmpl))
         /\ \A f \in Parts \ {"ports"} : /\ Expanded(s, s.tmpl)[f] = s[f]
                                         /\ Expanded(t, t.tmpl)[f] = t[f]
<1> DEFINE c == Expanded(s, s.tmpl)
           d == Expanded(t, t.tmpl)
<1>1. DOMAIN s = Parts /\ DOMAIN t = Parts /\ t.tmpl = s.tmpl
  BY DEF IsSwitch, Onward, Shaped, SameParts, Fixed
<1>2. \A f \in Parts \ {"ports"} : c[f] = s[f] /\ d[f] = t[f]
  BY <1>1 DEF Expanded
<1>3. /\ c.ports = [p \in Port |-> Expand(s.ports[p], s.tmpl)]
      /\ d.ports = [p \in Port |-> Expand(t.ports[p], s.tmpl)]
  BY <1>1 DEF Expanded, Parts
<1>4. \A p \in Port : Expand(s.ports[p], ReadTemplates(s)) = Expand(s.ports[p], s.tmpl)
  BY SameTemplates DEF Sourced
<1>5. Sorted(s) = c
  <2>1. [p \in Port |-> Expand(s.ports[p], ReadTemplates(s))]
          = [p \in Port |-> Expand(s.ports[p], s.tmpl)]
    BY <1>4
  <2> QED BY <2>1, Zenon DEF Sorted, Expanded
<1>6. ASSUME NEW p \in Port
      PROVE  DOMAIN c.ports[p] = PortParts /\ PortOnward(p, c.ports[p], d.ports[p], s)
  <2>1. c.ports[p] = Expand(s.ports[p], s.tmpl) /\ d.ports[p] = Expand(t.ports[p], s.tmpl)
    BY <1>3
  <2>2. PortOnward(p, s.ports[p], t.ports[p], s)
    BY DEF Onward, PortsOnward
  <2>3. Sorted(s).ports[p] = Expand(s.ports[p], s.tmpl)
    BY <1>4, SortedPort, Zenon
  <2>4. PortOnward(p, Expand(s.ports[p], s.tmpl), Expand(t.ports[p], s.tmpl), s)
    BY <2>2, <2>3, ExpandedOnward
  <2>5. DOMAIN Expand(s.ports[p], s.tmpl) = PortParts
    <3>1. DOMAIN s.ports[p] = PortParts
      BY DEF IsSwitch, IsBlock
    <3>2. CASE s.ports[p].source \in DOMAIN s.tmpl
      BY <3>1, <3>2, ExpandSplices DEF SplicedWith
    <3>3. CASE s.ports[p].source \notin DOMAIN s.tmpl
      BY <3>1, <3>3 DEF Expand
    <3> QED BY <3>2, <3>3
  <2> HIDE DEF c, d
  <2> QED BY <2>1, <2>4, <2>5
<1> HIDE DEF c, d
<1>7. PortsGo(s, c, d)
  BY <1>5, <1>6 DEF PortsGo
<1> QED BY <1>2, <1>7 DEF c, d

\* No push makes another kind of port of one.
LEMMA SamePopulations ==
  ASSUME NEW s, NEW c, NEW d, PortsGo(s, c, d)
  PROVE  /\ Switchports(d) = Switchports(c) /\ TrunkPorts(d) = TrunkPorts(c)
         /\ AccessPorts(d) = AccessPorts(c) /\ AuditedAsShut(d) = AuditedAsShut(c)
<1>1. ASSUME NEW p \in Port
      PROVE  /\ IsLayer3(d.ports[p]) <=> IsLayer3(c.ports[p])
             /\ ~ IsLayer3(c.ports[p]) =>
                   (d.ports[p].mode = "trunk" <=> c.ports[p].mode = "trunk")
             /\ d.ports[p].state = c.ports[p].state
             /\ "shutdown-in-template" \in d.ports[p].lines
                  <=> "shutdown-in-template" \in c.ports[p].lines
  <2> DEFINE b == c.ports[p]
             g == d.ports[p]
  <2>1. PortOnward(p, b, g, s) /\ Sorted(s) = c
    BY DEF PortsGo
  <2>2. CASE IsLayer3(b)
    <3>1. p \notin AccessPorts(c) /\ p \notin TrunkPorts(c) /\ p \notin ShutAccessPorts(c)
      BY <2>2 DEF AccessPorts, TrunkPorts, ShutAccessPorts, Switchports
    <3>2. LinesFor(p, s) \subseteq RawLines
      BY <2>1, <3>1 DEF LinesFor
    <3> HIDE DEF b, g
    <3>3. g.l3 = b.l3 /\ g.mode = b.mode /\ g.vlan = b.vlan /\ Grows(b.lines, g.lines, RawLines)
      BY <2>1, <3>1, <3>2 DEF PortOnward, Grows
    <3>4. IsLayer3(g)
      BY <2>2, <3>3 DEF IsLayer3, Grows, RawLines, SwitchportLines
    <3>5. g.state = b.state
      BY <2>1 DEF PortOnward
    <3>6. "shutdown-in-template" \in g.lines <=> "shutdown-in-template" \in b.lines
      BY <3>3 DEF Grows, RawLines
    <3> QED BY <2>2, <3>4, <3>5, <3>6 DEF b, g
  <2>3. CASE ~ IsLayer3(b)
    <3>1. p \in AccessPorts(c) <=> b.mode # "trunk"
      BY <2>3 DEF AccessPorts, TrunkPorts, Switchports
    <3> HIDE DEF b, g
    <3>2. ~ IsLayer3(g)
      BY <2>1, <2>3 DEF PortOnward, IsLayer3, Grows
    <3>3. g.mode = "trunk" <=> b.mode = "trunk"
      BY <2>1, <3>1 DEF PortOnward
    <3>4. g.state = b.state
      BY <2>1 DEF PortOnward
    <3>5. "shutdown-in-template" \notin LinesFor(p, s)
      BY DEF LinesFor, AccessLines, TrunkLines, RawLines
    <3>6. "shutdown-in-template" \in g.lines <=> "shutdown-in-template" \in b.lines
      BY <2>1, <3>5 DEF PortOnward, Grows
    <3> QED BY <2>3, <3>2, <3>3, <3>4, <3>6 DEF b, g
  <2> QED BY <2>2, <2>3
<1>2. Switchports(d) = Switchports(c)
  BY <1>1 DEF Switchports
<1>3. TrunkPorts(d) = TrunkPorts(c)
  BY <1>1, <1>2 DEF TrunkPorts, Switchports
<1>4. AccessPorts(d) = AccessPorts(c) /\ AuditedAsShut(d) = AuditedAsShut(c)
  <2>1. AccessPorts(d) = AccessPorts(c)
    BY <1>2, <1>3 DEF AccessPorts
  <2>2. \A p \in AccessPorts(c) : p \in AuditedAsShut(d) <=> p \in AuditedAsShut(c)
    BY <1>1, <2>1, PortsFinite DEF AuditedAsShut
  <2>3. AuditedAsShut(d) \subseteq AccessPorts(d) /\ AuditedAsShut(c) \subseteq AccessPorts(c)
    BY DEF AuditedAsShut
  <2> QED BY <2>1, <2>2, <2>3
<1> QED BY <1>2, <1>3, <1>4
-----------------------------------------------------------------------------
(* What the audit passed, it passes after a push: rules that ask nothing of a  *)
(* port first.                                                               *)

StillPasses(was, is) == was = "PASS" => is = "PASS"

LEMMA PassIfTrue ==
  ASSUME NEW b, PassIf(b) = "PASS"
  PROVE  b
BY DEF PassIf

LEMMA TruePasses ==
  ASSUME NEW b, b
  PROVE  PassIf(b) = "PASS"
BY DEF PassIf

LEMMA LinesStillThere ==
  ASSUME NEW s, NEW t, LinesOnward(s, t)
  PROVE  /\ \A r \in LineRules : StillPasses(PassIf(Wanted(r) \subseteq s.lines),
                                             PassIf(Wanted(r) \subseteq t.lines))
         /\ StillPasses(PassIf(Services \cap s.lines = {}), PassIf(Services \cap t.lines = {}))
         /\ \A line \in {"no-ip-igmp-snooping", "address-on-Vlan1"} :
              StillPasses(PassIf(line \notin s.lines), PassIf(line \notin t.lines))
<1>1. ASSUME NEW r \in LineRules
      PROVE  Wanted(r) \cap Withdrawn = {}
  BY <1>1 DEF Wanted, LineRules, ArchiveRules, Archive, Withdrawn, Services
<1>2. \A r \in LineRules : Wanted(r) \subseteq s.lines => Wanted(r) \subseteq t.lines
  BY <1>1 DEF LinesOnward
<1>3. Services \cap (SentLines \cup {"ip-ssh-version-2"}) = {}
  BY DEF Services, SentLines, Archive
<1>4. Services \cap s.lines = {} => Services \cap t.lines = {}
  BY <1>3 DEF LinesOnward
<1>5. \A line \in {"no-ip-igmp-snooping", "address-on-Vlan1"} :
        line \notin s.lines => line \notin t.lines
  BY DEF LinesOnward, SentLines, Archive
<1> QED BY <1>2, <1>4, <1>5 DEF StillPasses, PassIf

LEMMA SettingsStillPass ==
  ASSUME NEW s, NEW t, SettingsOnward(s, t), LinesOnward(s, t)
  PROVE  /\ StillPasses(LoginBlock(s), LoginBlock(t)) /\ StillPasses(AuditInfo(s), AuditInfo(t))
         /\ StillPasses(LoggingTrap(s), LoggingTrap(t))
         /\ StillPasses(VtpPassword(s), VtpPassword(t))
         /\ StillPasses(SnmpUser(s, {"sha", "sha-aes"}), SnmpUser(t, {"sha", "sha-aes"}))
         /\ StillPasses(SnmpUser(s, {"sha-aes"}), SnmpUser(t, {"sha-aes"}))
         /\ \A line \in {"ssh-macs", "ssh-ciphers"} :
              StillPasses(SshAlgorithm(s, line), SshAlgorithm(t, line))
<1> USE DEF StillPasses, PassIf
<1>1. StillPasses(LoginBlock(s), LoginBlock(t))
  BY DEF LoginBlock, SettingsOnward, Blocking
<1>2. StillPasses(AuditInfo(s), AuditInfo(t))
  <2>1. "logging-persistent" \in s.lines => "logging-persistent" \in t.lines
    BY DEF LinesOnward, Withdrawn, Services
  <2>2. t.filePrivilege \in {s.filePrivilege, 15}
    BY DEF SettingsOnward
  <2> QED BY <2>1, <2>2 DEF AuditInfo
<1>3. StillPasses(LoggingTrap(s), LoggingTrap(t))
  <2>1. t.trap \in {s.trap, 2}
    BY DEF SettingsOnward
  <2> QED BY <2>1 DEF LoggingTrap, DefaultTrap
<1>4. /\ StillPasses(VtpPassword(s), VtpPassword(t))
      /\ StillPasses(SnmpUser(s, {"sha", "sha-aes"}), SnmpUser(t, {"sha", "sha-aes"}))
      /\ StillPasses(SnmpUser(s, {"sha-aes"}), SnmpUser(t, {"sha-aes"}))
  BY DEF VtpPassword, SnmpUser, SettingsOnward
<1>5. ASSUME NEW line \in {"ssh-macs", "ssh-ciphers"}
      PROVE  StillPasses(SshAlgorithm(s, line), SshAlgorithm(t, line))
  <2>1. line \in s.lines => line \in t.lines
    BY DEF LinesOnward, Withdrawn, Services
  <2>2. "ip-ssh-version-2" \in s.lines => "ip-ssh-version-2" \in t.lines
    BY DEF LinesOnward, Withdrawn, Services
  <2>3. t.ssh = s.ssh \/ (s.ssh = "1.99" /\ t.ssh = "2.0")
    BY DEF SettingsOnward
  <2>4. Sshv2(s) => Sshv2(t)
    BY <2>2, <2>3 DEF Sshv2
  <2> QED BY <2>1, <2>4 DEF SshAlgorithm
<1> QED BY <1>1, <1>2, <1>3, <1>4, <1>5

\* Lists that only grow are never too short again.
LEMMA GrowsLonger ==
  ASSUME NEW a, NEW b, IsFiniteSet(b), a \subseteq b
  PROVE  /\ Cardinality(a) \in Nat /\ Cardinality(b) \in Nat
         /\ Cardinality(a) <= Cardinality(b)
         /\ Cardinality(a) = Cardinality(b) => a = b
BY FS_Subset, FS_CardinalityType

LEMMA ListsStillPass ==
  ASSUME NEW s, NEW t, NEW read, IsSwitch(t), ListsOnward(s, t, read), SameParts(s, t),
         LinesOnward(s, t)
  PROVE  /\ StillPasses(NtpKey(s), NtpKey(t)) /\ StillPasses(SingleAccount(s), SingleAccount(t))
         /\ StillPasses(NtpServers(s), NtpServers(t)) /\ StillPasses(Syslog(s), Syslog(t))
         /\ StillPasses(RadiusRedundancy(s), RadiusRedundancy(t))
         /\ \A r \in PolicyRules :
              ~ (Cardinality(t.policies) > 1)
                => StillPasses(PasswordPolicy(s, r), PasswordPolicy(t, r))
<1> USE DEF StillPasses, PassIf
<1>1. /\ s.syslog \subseteq t.syslog /\ s.radius \subseteq t.radius
      /\ s.ntpServers \subseteq t.ntpServers /\ s.policies \subseteq t.policies
      /\ s.methods \subseteq t.methods /\ t.users = s.users /\ t.groups = s.groups
  BY DEF ListsOnward, Grows, SameParts, Fixed
<1>2. \A line \in {"ntp-authenticate", "aaa-new-model"} : line \in s.lines => line \in t.lines
  BY DEF LinesOnward, Withdrawn, Services
<1>3. /\ IsFiniteSet(t.policies) /\ IsFiniteSet(t.radius) /\ IsFiniteSet(t.syslog)
      /\ IsFiniteSet(t.ntpServers)
  BY SwitchCounts
<1>4. StillPasses(NtpKey(s), NtpKey(t))
  <2>1. s.ntpKeys \cap s.ntpTrusted \cap s.ntpUsed
         \subseteq t.ntpKeys \cap t.ntpTrusted \cap t.ntpUsed
    BY DEF ListsOnward, Grows
  <2> QED BY <1>2, <2>1 DEF NtpKey
<1>5. StillPasses(SingleAccount(s), SingleAccount(t))
  BY <1>1 DEF SingleAccount
<1>6. ASSUME NEW a, NEW b, IsFiniteSet(b), a \subseteq b, Cardinality(a) >= 2
      PROVE  Cardinality(b) >= 2
  <2> DEFINE m == Cardinality(a)
             n == Cardinality(b)
  <2>1. m \in Nat /\ n \in Nat /\ m <= n /\ m >= 2
    BY <1>6, GrowsLonger
  <2> HIDE DEF m, n
  <2>2. n >= 2
    BY <2>1
  <2> QED BY <2>2 DEF n
<1>7. StillPasses(NtpServers(s), NtpServers(t)) /\ StillPasses(Syslog(s), Syslog(t))
  <2>1. Cardinality(s.ntpServers) >= 2 => Cardinality(t.ntpServers) >= 2
    BY <1>1, <1>3, <1>6
  <2>2. Cardinality(s.syslog) >= 2 => Cardinality(t.syslog) >= 2
    BY <1>1, <1>3, <1>6
  <2> QED BY <2>1, <2>2 DEF NtpServers, Syslog
<1>8. StillPasses(RadiusRedundancy(s), RadiusRedundancy(t))
  <2>1. Cardinality(s.radius) >= 2 => Cardinality(t.radius) >= 2
    BY <1>1, <1>3, <1>6
  <2> QED BY <1>1, <1>2, <2>1 DEF RadiusRedundancy
<1>9. ASSUME NEW r \in PolicyRules, ~ (Cardinality(t.policies) > 1),
             PasswordPolicy(s, r) = "PASS"
      PROVE  PasswordPolicy(t, r) = "PASS"
  <2> DEFINE m == Cardinality(s.policies)
             n == Cardinality(t.policies)
  <2>1. "aaa-new-model" \in s.lines /\ m = 1 /\ \A p \in s.policies : r \in p.meets
    BY <1>9 DEF PasswordPolicy
  <2>2. m \in Nat /\ n \in Nat /\ m <= n /\ (m = n => t.policies = s.policies) /\ ~ (n > 1)
    BY <1>1, <1>3, <1>9, GrowsLonger
  <2> HIDE DEF m, n
  <2>3. n = 1 /\ m = n
    BY <2>1, <2>2
  <2>4. t.policies = s.policies
    BY <2>2, <2>3
  <2> QED BY <1>2, <2>1, <2>3, <2>4 DEF PasswordPolicy, n
<1> QED BY <1>4, <1>5, <1>7, <1>8, <1>9

\* Who may log in, and how: what a push has done to the lines.
LoginsPushed(s, t, cause) ==
  /\ \A r \in DOMAIN s.vty : Reached(s, t, r)
  /\ SameLists(s, t) \/ (cause = "acl" /\ ListPut(s, t))

LEMMA PushLogins ==
  ASSUME Inv, [Next]_vars, Pushes, snap = sw
  PROVE  LoginsPushed(sw, sw', script)
<1>1. script \in Scripts /\ (Sends \/ SessionLost)
  BY PushesAre
<1>2. PICK cmds : Begins(cmds, Commands(script, sw)) /\ sw' = ApplyAll(sw, cmds)
  BY <1>1, PushBegins
<1>3. IsSwitch(sw) /\ Shaped(sw)
  BY SwitchShaped DEF Inv, TypeOK
<1>4. CASE script = "acl"
  <2>1. Commands(script, sw) = AclCommands
    BY <1>4 DEF Commands
  <2>2. sw' = sw \/ ListPut(sw, sw')
    BY <1>2, <1>3, <2>1, AclPushed
  <2>3. \A r \in DOMAIN sw.vty : Reached(sw, sw', r)
    BY <2>2 DEF ListPut, Reached
  <2>4. SameLists(sw, sw') \/ ListPut(sw, sw')
    BY <2>2 DEF SameLists
  <2> QED BY <1>4, <2>3, <2>4 DEF LoginsPushed
<1>5. CASE script = "logging"
  <2>1. Commands(script, sw) = LoggingCommands(sw)
    BY <1>5 DEF Commands
  <2>2. \A r \in DOMAIN sw.vty : Reached(sw, sw', r)
    BY <1>2, <1>3, <2>1, LoggingPushed
  <2>3. LoggingCommands(sw) \in Seq(Tame(sw) \cup TransportCommands(sw))
    <3>1. /\ LoggingFront(sw) \in Seq(Tame(sw) \cup TransportCommands(sw))
          /\ VtyFixes(HighestVty(sw)) \in Seq(Tame(sw) \cup TransportCommands(sw))
      BY LoggingSplit, VtyFixesSent
    <3>2. LoggingCommands(sw) = LoggingFront(sw) \o VtyFixes(HighestVty(sw))
      BY LoggingSplit
    <3> QED BY <3>1, <3>2, FlatStep, Zenon
  <2>4. SameLists(sw, sw')
    BY <1>2, <1>3, <2>1, <2>3, ListsKept
  <2> QED BY <2>2, <2>4 DEF LoginsPushed
<1>6. CASE script \notin {"acl", "logging"}
  <2>1. Commands(script, sw) \in Seq(Tame(sw))
    BY <1>1, <1>6, CommandsTame
  <2>2. \A r \in DOMAIN sw.vty : sw'.vty[r].transport = sw.vty[r].transport
    BY <1>2, <1>3, <2>1, TransportKept
  <2>3. Commands(script, sw) \in Seq(Tame(sw) \cup TransportCommands(sw))
    BY <2>1
  <2>4. SameLists(sw, sw')
    BY <1>2, <1>3, <2>3, ListsKept
  <2> QED BY <2>2, <2>4 DEF LoginsPushed, Reached
<1> QED BY <1>4, <1>5, <1>6

LEMMA LoginsStillPass ==
  ASSUME NEW s, NEW t, NEW cause, LoginsPushed(s, t, cause), VtyOnward(s, t),
         SettingsOnward(s, t), LinesOnward(s, t)
  PROVE  /\ StillPasses(ExecTimeout(s), ExecTimeout(t))
         /\ StillPasses(SessionLimit(s), SessionLimit(t))
         /\ StillPasses(VtyAclLogs(s), VtyAclLogs(t))
         /\ \/ StillPasses(VtyAcl(s), VtyAcl(t))
            \/ /\ cause = "acl" /\ "VTY_MGMT" \in DOMAIN t.acls
               /\ ~ (t.acls["VTY_MGMT"].sources \subseteq {"inside"})
<1> USE DEF StillPasses, PassIf
<1>1. DOMAIN t.vty = DOMAIN s.vty
  BY DEF VtyOnward
<1>2. StillPasses(ExecTimeout(s), ExecTimeout(t))
  <2>1. \A r \in DOMAIN s.vty : t.vty[r].timeout = s.vty[r].timeout \/ t.vty[r].timeout = 5
    BY DEF VtyOnward
  <2>2. t.con = s.con \/ t.con = 5
    BY DEF SettingsOnward
  <2>3. TimesOut(5)
    BY DEF TimesOut
  <2> QED BY <1>1, <2>1, <2>2, <2>3, Zenon DEF ExecTimeout
<1>3. StillPasses(SessionLimit(s), SessionLimit(t))
  <2>1. "ip-http-max-connections" \in s.lines => "ip-http-max-connections" \in t.lines
    BY DEF LinesOnward, Withdrawn, Services
  <2>2. \A r \in DOMAIN s.vty : s.vty[r].limit => t.vty[r].limit
    BY Zenon DEF VtyOnward
  <2>3. \A r \in DOMAIN s.vty :
          s.vty[r].transport = "none" => t.vty[r].limit \/ t.vty[r].transport = "none"
    BY DEF LoginsPushed, Reached
  <2> QED BY <1>1, <2>1, <2>2, <2>3, Zenon DEF SessionLimit
<1>4. CASE SameLists(s, t)
  <2>1. \A r \in DOMAIN s.vty : ListOn(t, r) = ListOn(s, r) /\ HasList(t, r) = HasList(s, r)
    BY <1>4 DEF SameLists, ListOn, HasList
  <2>2. t.acls = s.acls
    BY <1>4 DEF SameLists
  <2>3. StillPasses(VtyAcl(s), VtyAcl(t))
    BY <1>1, <2>1, <2>2 DEF VtyAcl
  <2>4. StillPasses(VtyAclLogs(s), VtyAclLogs(t))
    BY <1>1, <2>1, <2>2 DEF VtyAclLogs
  <2> QED BY <1>2, <1>3, <2>3, <2>4
<1>5. CASE cause = "acl" /\ ListPut(s, t)
  <2>1. /\ DOMAIN t.acls = DOMAIN s.acls \cup {"VTY_MGMT"}
        /\ \A n \in DOMAIN s.acls : n # "VTY_MGMT" => t.acls[n] = s.acls[n]
        /\ t.acls["VTY_MGMT"].logged = TRUE /\ t.acls["VTY_MGMT"].sources # {}
    BY <1>5 DEF ListPut, Permitted, WithAcl
  <2>2. \A r \in DOMAIN s.vty : ListOn(t, r) \in {ListOn(s, r), "VTY_MGMT"}
    BY <1>5 DEF ListPut, ListOn
  <2>3. \A r \in DOMAIN s.vty :
          HasList(s, r) => /\ HasList(t, r)
                           /\ \/ ListOn(t, r) = "VTY_MGMT"
                              \/ /\ ListOn(t, r) = ListOn(s, r)
                                 /\ t.acls[ListOn(t, r)] = s.acls[ListOn(s, r)]
    BY <2>1, <2>2 DEF HasList
  <2>4. StillPasses(VtyAclLogs(s), VtyAclLogs(t))
    BY <1>1, <2>1, <2>3, Zenon DEF VtyAclLogs
  <2>5. t.acls["VTY_MGMT"].sources \subseteq {"inside"} => StillPasses(VtyAcl(s), VtyAcl(t))
    BY <1>1, <2>1, <2>3 DEF VtyAcl
  <2> QED BY <1>2, <1>3, <1>5, <2>1, <2>4, <2>5
<1> QED BY <1>4, <1>5 DEF LoginsPushed
-----------------------------------------------------------------------------
(* Rules about ports.                                                        *)

\* A push from s to t, and what the audit reads before it and after it.
Audited(s, t, c, d) ==
  /\ IsSwitch(s) /\ Onward(s, t, s) /\ PortsGo(s, c, d)
  /\ \A f \in Parts \ {"ports"} : c[f] = s[f] /\ d[f] = t[f]

LEMMA AuditedPorts ==
  ASSUME NEW s, NEW t, NEW c, NEW d, Audited(s, t, c, d)
  PROVE  /\ AccessPorts(d) = AccessPorts(c) /\ TrunkPorts(d) = TrunkPorts(c)
         /\ Switchports(d) = Switchports(c) /\ AuditedAsShut(d) = AuditedAsShut(c)
         /\ AccessPorts(c) \subseteq Port /\ TrunkPorts(c) \subseteq Port
         /\ \A p \in Port : c.ports[p].lines \subseteq d.ports[p].lines
         /\ c.lines \ Withdrawn \subseteq d.lines
<1>1. \A p \in Port : c.ports[p].lines \subseteq d.ports[p].lines
  BY DEF Audited, PortsGo, PortOnward, Grows
<1>2. c.lines = s.lines /\ d.lines = t.lines
  BY DEF Audited, Parts
<1>3. c.lines \ Withdrawn \subseteq d.lines
  BY <1>2 DEF Audited, Onward, LinesOnward
<1> QED BY <1>1, <1>3, SamePopulations, PortsFinite DEF Audited

\* What passes a rule about every access port, or every trunk.
LEMMA PassesOnPorts ==
  ASSUME NEW c
  PROVE  LET A == AccessPorts(c)
             b == c.ports
         IN /\ Answer("V-220623", c) = "PASS" <=> A # {} /\ \A p \in A : Authenticates(b[p])
            /\ Answer("V-220630", c) = "PASS" <=> A # {} /\ \A p \in A : BpduGuarded(c, b[p])
            /\ Answer("V-220632", c) = "PASS"
                 <=> A # {} /\ \A p \in A : "switchport-block-unicast" \in b[p].lines
            /\ Answer("V-220634", c) = "PASS"
                 <=> A # {} /\ \A p \in A : "ip-verify-source" \in b[p].lines
            /\ Answer("V-220636", c) = "PASS"
                 <=> A # {} /\ \A p \in A \ FastPort : "storm-control" \in b[p].lines
            /\ Answer("V-220642", c) = "PASS"
                   <=> A # {} /\ \A p \in A : b[p].vlan \notin {NoVlan, 1}
<1> USE DEF AllAccess, PassIf
<1> DEFINE A == AccessPorts(c)
           b == c.ports
<1>0. A \subseteq Port
  BY PortsFinite
<1>1. /\ Answer("V-220623", c) = "PASS" <=> A # {} /\ \A p \in A : Authenticates(b[p])
      /\ Answer("V-220630", c) = "PASS" <=> A # {} /\ \A p \in A : BpduGuarded(c, b[p])
  BY <1>0, AnswerOnPorts
<1>2. /\ Answer("V-220632", c) = "PASS"
           <=> A # {} /\ \A p \in A : "switchport-block-unicast" \in b[p].lines
      /\ Answer("V-220634", c) = "PASS"
             <=> A # {} /\ \A p \in A : "ip-verify-source" \in b[p].lines
  BY <1>0, AnswerOnPorts
<1>3. /\ Answer("V-220636", c) = "PASS"
           <=> A # {} /\ \A p \in A \ FastPort : "storm-control" \in b[p].lines
      /\ Answer("V-220642", c) = "PASS" <=> A # {} /\ \A p \in A : b[p].vlan \notin {NoVlan, 1}
  BY <1>0, AnswerOnPorts
<1> QED BY <1>1, <1>2, <1>3

LEMMA PassesOnTrunks ==
  ASSUME NEW c
  PROVE  LET T == TrunkPorts(c)
             b == c.ports
         IN /\ Answer("V-220640", c) = "PASS"
                 <=> T # {} /\ \A p \in T : "switchport-nonegotiate" \in b[p].lines
            /\ Answer("V-220643", c) = "PASS" <=> T # {} /\ \A p \in T : Pruned(b[p], 1)
            /\ Answer("V-220646", c) = "PASS"
                 <=> T # {} /\ \A p \in T : b[p].native \notin {NoVlan, 1}
BY AnswerOnPorts DEF AllTrunks, PassIf

LEMMA AccessStillPass ==
  ASSUME NEW s, NEW t, NEW c, NEW d, Audited(s, t, c, d),
         NEW r \in {"V-220623", "V-220630", "V-220632", "V-220634", "V-220636"}
  PROVE  StillPasses(Answer(r, c), Answer(r, d))
<1> USE DEF StillPasses
<1> DEFINE A == AccessPorts(c)
<1>1. AccessPorts(d) = A /\ A \subseteq Port
  BY AuditedPorts
<1>2. \A p \in Port : c.ports[p].lines \subseteq d.ports[p].lines
  BY AuditedPorts, Zenon
<1>3. \A line \in {"spanning-tree-portfast-bpduguard-default", "spanning-tree-portfast-default"} :
        line \in c.lines => line \in d.lines
  BY AuditedPorts DEF Withdrawn, Services
<1>4. \A p \in Port : Authenticates(c.ports[p]) => Authenticates(d.ports[p])
  BY <1>2 DEF Authenticates
<1>5. \A p \in Port : BpduGuarded(c, c.ports[p]) => BpduGuarded(d, d.ports[p])
  BY <1>2, <1>3 DEF BpduGuarded
<1> HIDE DEF A
<1>6. CASE r = "V-220623"
  BY <1>1, <1>4, <1>6, PassesOnPorts DEF A
<1>7. CASE r = "V-220630"
  BY <1>1, <1>5, <1>7, PassesOnPorts DEF A
<1>8. CASE r \in {"V-220632", "V-220634", "V-220636"}
  BY <1>1, <1>2, <1>8, PassesOnPorts DEF A
<1> QED BY <1>6, <1>7, <1>8

\* The VLANs set aside are none of those a trunk is told to carry.
LEMMA PrunedStays ==
  ASSUME NEW s, NEW t, NEW c, NEW d, Audited(s, t, c, d), NEW p \in TrunkPorts(c),
         NEW v \in {1} \cup Configured(Inventory.unused), Pruned(c.ports[p], v)
  PROVE  Pruned(d.ports[p], v)
<1>1. p \in Port
  BY PortsFinite
<1>2. d.ports[p].allowed \in {c.ports[p].allowed, Pruning(s)}
  BY <1>1 DEF Audited, PortsGo, PortOnward
<1>3. v \notin TrunkVlans(s.db)
  BY DEF TrunkVlans, UserVlans
<1>4. CASE d.ports[p].allowed = Pruning(s)
  <2>1. Pruning(s).form = "only" /\ v \notin Pruning(s).vlans
    BY <1>3 DEF Pruning, Allow
  <2> QED BY <1>4, <2>1 DEF Pruned
<1>5. CASE d.ports[p].allowed = c.ports[p].allowed
  BY <1>5 DEF Pruned
<1> QED BY <1>2, <1>4, <1>5

LEMMA TrunksStillPass ==
  ASSUME NEW s, NEW t, NEW c, NEW d, Audited(s, t, c, d)
  PROVE  /\ StillPasses(Answer("V-220640", c), Answer("V-220640", d))
         /\ StillPasses(Answer("V-220643", c), Answer("V-220643", d))
         /\ StillPasses(RootGuard(c), RootGuard(d))
         /\ StillPasses(Udld(c), Udld(d)) /\ StillPasses(Qos(c), Qos(d))
<1> USE DEF StillPasses, PassIf
<1> DEFINE T == TrunkPorts(c)
<1>1. TrunkPorts(d) = T /\ T \subseteq Port /\ Switchports(d) = Switchports(c)
  BY AuditedPorts
<1>2. \A p \in Port : c.ports[p].lines \subseteq d.ports[p].lines
  BY AuditedPorts, Zenon
<1>3. /\ d.root = c.root /\ d.reserving = c.reserving
      /\ "udld-enable" \in c.lines => "udld-enable" \in d.lines
  <2>1. d.root = c.root /\ d.reserving = c.reserving
    BY DEF Audited, Onward, SameParts, Fixed, Parts
  <2> QED BY <2>1, AuditedPorts DEF Withdrawn, Services
<1>4. \A p \in T : Pruned(c.ports[p], 1) => Pruned(d.ports[p], 1)
  BY PrunedStays
<1>5. \A p \in Port : d.ports[p].policy = c.ports[p].policy
  BY DEF Audited, PortsGo, PortOnward
<1> HIDE DEF T
<1>6. StillPasses(Answer("V-220640", c), Answer("V-220640", d))
  BY <1>1, <1>2, PassesOnTrunks DEF T
<1>7. StillPasses(Answer("V-220643", c), Answer("V-220643", d))
  BY <1>1, <1>4, PassesOnTrunks DEF T
<1>8. StillPasses(RootGuard(c), RootGuard(d))
  BY <1>1, <1>2, <1>3 DEF T, RootGuard
<1>9. StillPasses(Udld(c), Udld(d))
  BY <1>2, <1>3 DEF Udld
<1>10. StillPasses(Qos(c), Qos(d))
  <2>1. {d.ports[p].policy : p \in Switchports(d)} = {c.ports[p].policy : p \in Switchports(c)}
    BY <1>1, <1>5 DEF Switchports
  <2> QED BY <1>3, <2>1 DEF Qos
<1> QED BY <1>6, <1>7, <1>8, <1>9, <1>10

LEMMA SnoopingStillPass ==
  ASSUME NEW s, NEW t, NEW c, NEW d, Audited(s, t, c, d), t.db = s.db
  PROVE  StillPasses(DhcpSnooping(c), DhcpSnooping(d)) /\
            StillPasses(Covers(c.dai, c), Covers(d.dai, d))
<1>1. d.db = c.db /\ c.snoop \subseteq d.snoop /\ c.dai \subseteq d.dai
  BY DEF Audited, Onward, ListsOnward, Grows, Parts
<1>2. "ip-dhcp-snooping" \in c.lines => "ip-dhcp-snooping" \in d.lines
  BY AuditedPorts DEF Withdrawn, Services
<1> QED BY <1>1, <1>2 DEF StillPasses, PassIf, DhcpSnooping, Covers

\* What may have become of a port's VLANs.
LEMMA VlansGo ==
  ASSUME NEW s, NEW t, NEW c, NEW d, Audited(s, t, c, d), NEW p \in Port
  PROVE  /\ \/ d.ports[p].vlan = c.ports[p].vlan
            \/ d.ports[p].vlan = Inventory.unused /\ Inventory.unused # NoVlan
         /\ \/ d.ports[p].native = c.ports[p].native
            \/ d.ports[p].native = Inventory.native /\ Inventory.native # NoVlan
BY DEF Audited, PortsGo, PortOnward

LEMMA VlansStillPass ==
  ASSUME NEW s, NEW t, NEW c, NEW d, Audited(s, t, c, d)
  PROVE  /\ StillPasses(DisabledPorts(c), DisabledPorts(d))
         /\ Inventory.unused # 1
              => StillPasses(Answer("V-220642", c), Answer("V-220642", d))
         /\ Inventory.native # 1
              => StillPasses(Answer("V-220646", c), Answer("V-220646", d))
         /\ \/ StillPasses(NoAccessPortOnNative(c), NoAccessPortOnNative(d))
            \/ Inventory.unused = Inventory.native
            \/ \E p \in AccessPorts(c) : AccessVlan(c.ports[p]) = Inventory.native
            \/ \E p \in TrunkPorts(c) : NativeVlan(c.ports[p]) = Inventory.unused
<1> USE DEF StillPasses, PassIf
<1> DEFINE A == AccessPorts(c)
           T == TrunkPorts(c)
<1>1. /\ AccessPorts(d) = A /\ TrunkPorts(d) = T /\ A \subseteq Port /\ T \subseteq Port
      /\ AuditedAsShut(d) = AuditedAsShut(c) /\ AuditedAsShut(c) \subseteq Port
      /\ \A p \in Port : c.ports[p].lines \subseteq d.ports[p].lines
  BY AuditedPorts DEF AuditedAsShut
<1>2. \A p \in T : Pruned(c.ports[p], Inventory.unused) /\ Inventory.unused # NoVlan
        => Pruned(d.ports[p], Inventory.unused)
  BY PrunedStays DEF Configured
<1> HIDE DEF A, T
<1>3. StillPasses(DisabledPorts(c), DisabledPorts(d))
  <2>1. \A p \in AuditedAsShut(c) :
          Authenticates(c.ports[p]) \/ c.ports[p].vlan = Inventory.unused
            => Authenticates(d.ports[p]) \/ d.ports[p].vlan = Inventory.unused
    BY <1>1, VlansGo DEF Authenticates
  <2> QED BY <1>1, <1>2, <2>1 DEF DisabledPorts, T
<1>4. ASSUME Inventory.unused # 1
      PROVE  StillPasses(Answer("V-220642", c), Answer("V-220642", d))
  <2>1. \A p \in Port : c.ports[p].vlan \notin {NoVlan, 1} => d.ports[p].vlan \notin {NoVlan, 1}
    BY <1>4, VlansGo
  <2> QED BY <1>1, <2>1, PassesOnPorts DEF A
<1>5. ASSUME Inventory.native # 1
      PROVE  StillPasses(Answer("V-220646", c), Answer("V-220646", d))
  <2>1. \A p \in Port : c.ports[p].native \notin {NoVlan, 1} =>
           d.ports[p].native \notin {NoVlan, 1}
    BY <1>5, VlansGo
  <2> QED BY <1>1, <2>1, PassesOnTrunks DEF T
<1>6. ASSUME NoAccessPortOnNative(c) = "PASS", Inventory.unused # Inventory.native,
             \A p \in A : AccessVlan(c.ports[p]) # Inventory.native,
             \A p \in T : NativeVlan(c.ports[p]) # Inventory.unused
      PROVE  NoAccessPortOnNative(d) = "PASS"
  <2>1. T # {} /\ \A p \in A, q \in T : AccessVlan(c.ports[p]) # NativeVlan(c.ports[q])
    BY <1>6 DEF NoAccessPortOnNative, A, T
  <2>2. \A p \in Port : \/ AccessVlan(d.ports[p]) = AccessVlan(c.ports[p])
                        \/ AccessVlan(d.ports[p]) = Inventory.unused
    BY VlansGo DEF AccessVlan
  <2>3. \A p \in Port : \/ NativeVlan(d.ports[p]) = NativeVlan(c.ports[p])
                        \/ NativeVlan(d.ports[p]) = Inventory.native
    BY VlansGo DEF NativeVlan
  <2>4. ASSUME NEW p \in A, NEW q \in T
        PROVE  AccessVlan(d.ports[p]) # NativeVlan(d.ports[q])
    <3>1. p \in Port /\ q \in Port
      BY <1>1
    <3> QED BY <1>6, <2>1, <2>2, <2>3, <3>1
  <2>5. \A p \in AccessPorts(d), q \in TrunkPorts(d) :
          AccessVlan(d.ports[p]) # NativeVlan(d.ports[q])
    BY <1>1, <2>4
  <2> QED BY <1>1, <2>1, <2>5 DEF NoAccessPortOnNative
<1> QED BY <1>3, <1>4, <1>5, <1>6 DEF A, T

LEMMA UserTrunksStillPass ==
  ASSUME NEW s, NEW t, NEW c, NEW d, Audited(s, t, c, d)
  PROVE  StillPasses(UserFacingTrunk(c), UserFacingTrunk(d))
<1> DEFINE open(k) == {p \in Switchports(k) : k.ports[p].mode # "access" /\ ~ k.ports[p].uplink}
<1>1. Switchports(d) = Switchports(c) /\ d.core = c.core
  BY AuditedPorts DEF Audited, Onward, SameParts, Fixed, Parts
<1>2. \A p \in Switchports(c) :
        /\ d.ports[p].mode \in {c.ports[p].mode, "access"}
        /\ d.ports[p].uplink = c.ports[p].uplink
  BY DEF Audited, PortsGo, PortOnward, Switchports
<1>3. open(c) = {} => open(d) = {}
  <2>1. \A p \in Switchports(c) :
          d.ports[p].mode # "access" /\ ~ d.ports[p].uplink
            => c.ports[p].mode # "access" /\ ~ c.ports[p].uplink
    BY <1>2
  <2> QED BY <1>1, <2>1
<1> HIDE DEF open
<1>4. ASSUME NEW k
      PROVE  UserFacingTrunk(k) = "PASS" <=> ~ k.core /\ Switchports(k) # {} /\ open(k) = {}
  BY DEF UserFacingTrunk, open
<1> QED BY <1>1, <1>3, <1>4 DEF StillPasses
-----------------------------------------------------------------------------
(* Every rule of the book.                                                   *)

LEMMA GlobalRulesKept ==
  ASSUME NEW s, NEW t, NEW cause, IsSwitch(s), IsSwitch(t), Onward(s, t, s),
         LoginsPushed(s, t, cause),
         NEW r \in Checks \ OfPorts
  PROVE  \/ StillPasses(Answer(r, s), Answer(r, t))
         \/ r \in PolicyRules /\ Cardinality(t.policies) > 1
         \/ /\ r = "V-220575" /\ cause = "acl" /\ "VTY_MGMT" \in DOMAIN t.acls
            /\ ~ (t.acls["VTY_MGMT"].sources \subseteq {"inside"})
<1> DEFINE Kept(x) == StillPasses(Answer(x, s), Answer(x, t))
<1>0. /\ LinesOnward(s, t) /\ SettingsOnward(s, t) /\ ListsOnward(s, t, s) /\ VtyOnward(s, t)
      /\ SameParts(s, t)
  BY Zenon DEF Onward
<1>1. CASE r \in LineRules
  <2>1. Answer(r, s) = PassIf(Wanted(r) \subseteq s.lines)
        /\ Answer(r, t) = PassIf(Wanted(r) \subseteq t.lines)
    BY <1>1, AnswerInGroups, Zenon
  <2> QED BY <1>0, <1>1, <2>1, LinesStillThere, Zenon
<1>2. CASE r \in PolicyRules
  <2>1. Answer(r, s) = PasswordPolicy(s, r) /\ Answer(r, t) = PasswordPolicy(t, r)
    BY <1>2, AnswerInGroups, Zenon
  <2>2. ~ (Cardinality(t.policies) > 1)
          => StillPasses(PasswordPolicy(s, r), PasswordPolicy(t, r))
    BY <1>0, <1>2, ListsStillPass
  <2> QED BY <1>2, <2>1, <2>2, Zenon
<1>3. CASE r \in OneByOne
  <2>1. Kept("V-220554") /\ Kept("V-220587") /\ Kept("V-220601") /\ Kept("V-220617")
        /\ Kept("V-220620")
    <3>1. /\ StillPasses(NtpKey(s), NtpKey(t)) /\ StillPasses(SingleAccount(s), SingleAccount(t))
          /\ StillPasses(NtpServers(s), NtpServers(t)) /\ StillPasses(Syslog(s), Syslog(t))
          /\ StillPasses(RadiusRedundancy(s), RadiusRedundancy(t))
      BY <1>0, ListsStillPass
    <3> QED BY <3>1, AnswerToOne
  <2>2. Kept("V-220566") /\ Kept("V-220567") /\ Kept("V-220621") /\ Kept("V-220606")
    <3>1. /\ t.applets = s.applets /\ t.enrolled = s.enrolled /\ t.model = s.model
          /\ t.train = s.train /\ t.minor = s.minor
      BY <1>0 DEF SameParts, Fixed
    <3>2. ConfigBackup(t) = ConfigBackup(s) /\ Trustpoints(t) = Trustpoints(s)
          /\ Supported(t) = Supported(s)
      BY <3>1, Zenon DEF ConfigBackup, Trustpoints, Supported
    <3> QED BY <3>2, AnswerToOne DEF StillPasses
  <2>3. Kept("V-220570") /\ Kept("V-220581") /\ Kept("V-220596")
    <3>1. /\ StillPasses(ExecTimeout(s), ExecTimeout(t))
          /\ StillPasses(SessionLimit(s), SessionLimit(t))
          /\ StillPasses(VtyAclLogs(s), VtyAclLogs(t))
      BY <1>0, LoginsStillPass
    <3> QED BY <3>1, AnswerToOne
  <2>4. \/ Kept("V-220575")
        \/ /\ cause = "acl" /\ "VTY_MGMT" \in DOMAIN t.acls
           /\ ~ (t.acls["VTY_MGMT"].sources \subseteq {"inside"})
    <3>1. \/ StillPasses(VtyAcl(s), VtyAcl(t))
          \/ /\ cause = "acl" /\ "VTY_MGMT" \in DOMAIN t.acls
             /\ ~ (t.acls["VTY_MGMT"].sources \subseteq {"inside"})
      BY <1>0, LoginsStillPass
    <3>2. Answer("V-220575", s) = VtyAcl(s) /\ Answer("V-220575", t) = VtyAcl(t)
      BY AnswerToOne
    <3> QED BY <3>1, <3>2, Zenon
  <2>5. Kept("V-220576") /\ Kept("V-220600") /\ Kept("V-220624")
        /\ Kept("V-220604") /\ Kept("V-220605") /\ Kept("V-220607") /\ Kept("V-220608")
        /\ \A x \in {"V-220583", "V-220584", "V-220585"} : Kept(x)
    <3>1. /\ StillPasses(LoginBlock(s), LoginBlock(t)) /\ StillPasses(AuditInfo(s), AuditInfo(t))
          /\ StillPasses(LoggingTrap(s), LoggingTrap(t))
          /\ StillPasses(VtpPassword(s), VtpPassword(t))
          /\ StillPasses(SnmpUser(s, {"sha", "sha-aes"}), SnmpUser(t, {"sha", "sha-aes"}))
          /\ StillPasses(SnmpUser(s, {"sha-aes"}), SnmpUser(t, {"sha-aes"}))
          /\ StillPasses(SshAlgorithm(s, "ssh-macs"), SshAlgorithm(t, "ssh-macs"))
          /\ StillPasses(SshAlgorithm(s, "ssh-ciphers"), SshAlgorithm(t, "ssh-ciphers"))
      BY <1>0, SettingsStillPass
    <3>2. Kept("V-220576") /\ Kept("V-220600") /\ Kept("V-220624")
      BY <3>1, AnswerToOne
    <3>3. Kept("V-220604") /\ Kept("V-220605") /\ Kept("V-220607") /\ Kept("V-220608")
      BY <3>1, AnswerToOne
    <3>4. \A x \in {"V-220583", "V-220584", "V-220585"} : Kept(x)
      BY <3>1, AnswerToOne, Zenon
    <3> QED BY <3>2, <3>3, <3>4
  <2>6. Kept("V-220586") /\ Kept("V-220637") /\ Kept("V-220644")
    <3>1. /\ StillPasses(PassIf(Services \cap s.lines = {}), PassIf(Services \cap t.lines = {}))
          /\ StillPasses(PassIf("no-ip-igmp-snooping" \notin s.lines),
                         PassIf("no-ip-igmp-snooping" \notin t.lines))
          /\ StillPasses(PassIf("address-on-Vlan1" \notin s.lines),
                         PassIf("address-on-Vlan1" \notin t.lines))
      BY <1>0, LinesStillThere
    <3> QED BY <3>1, AnswerToOne
  <2> HIDE DEF Kept
  <2>7. r \in {"V-220554", "V-220566", "V-220567", "V-220570", "V-220575", "V-220576", "V-220581",
               "V-220583", "V-220584", "V-220585", "V-220586", "V-220587", "V-220596", "V-220600",
               "V-220601", "V-220604", "V-220605", "V-220606", "V-220607", "V-220608", "V-220617",
               "V-220620", "V-220621", "V-220624", "V-220637", "V-220644"}
    BY <1>3 DEF OneByOne, OfPorts
  <2>8. Kept(r) \/ r = "V-220575"
    BY <2>1, <2>2, <2>3, <2>5, <2>6, <2>7
  <2>9. CASE Kept(r)
    BY <2>9 DEF Kept
  <2>10. CASE r = "V-220575" /\ ~ Kept(r)
    BY <2>4, <2>10
  <2> QED BY <2>8, <2>9, <2>10
<1> QED BY <1>1, <1>2, <1>3, EveryRule

LEMMA PortRulesKept ==
  ASSUME NEW s, NEW t, NEW c, NEW d, Audited(s, t, c, d),
         NEW r \in Checks \cap OfPorts
  PROVE  \/ StillPasses(Answer(r, c), Answer(r, d))
         \/ r \in {"V-220633", "V-220635"} /\ t.db # s.db
         \/ r = "V-220642" /\ Inventory.unused = 1
         \/ r = "V-220646" /\ Inventory.native = 1
         \/ /\ r = "V-220647"
            /\ \/ Inventory.unused = Inventory.native
               \/ \E p \in AccessPorts(c) : AccessVlan(c.ports[p]) = Inventory.native
               \/ \E p \in TrunkPorts(c) : NativeVlan(c.ports[p]) = Inventory.unused
<1> DEFINE Kept(x) == StillPasses(Answer(x, c), Answer(x, d))
<1>1. \A x \in {"V-220623", "V-220630", "V-220632", "V-220634", "V-220636"} : Kept(x)
  BY AccessStillPass
<1>2. Kept("V-220640") /\ Kept("V-220643")
  BY TrunksStillPass
<1>3. Kept("V-220629") /\ Kept("V-220639") /\ Kept("V-220651")
  BY TrunksStillPass, AnswerToOne
<1>4. t.db = s.db => Kept("V-220633") /\ Kept("V-220635")
  BY SnoopingStillPass, AnswerToOne
<1>5. Kept("V-220641")
  BY VlansStillPass, AnswerToOne
<1>6. Inventory.unused # 1 => Kept("V-220642")
  BY VlansStillPass
<1>7. Inventory.native # 1 => Kept("V-220646")
  BY VlansStillPass
<1>8. \/ Kept("V-220647")
      \/ Inventory.unused = Inventory.native
      \/ \E p \in AccessPorts(c) : AccessVlan(c.ports[p]) = Inventory.native
      \/ \E p \in TrunkPorts(c) : NativeVlan(c.ports[p]) = Inventory.unused
  BY VlansStillPass, AnswerToOne
<1>9. Kept("V-220645")
  BY UserTrunksStillPass, AnswerToOne DEF AllTrunks
<1> HIDE DEF Kept
<1>10. CASE r \in {"V-220633", "V-220635"}
  BY <1>4, <1>10 DEF Kept
<1>11. CASE r = "V-220642"
  BY <1>6, <1>11 DEF Kept
<1>12. CASE r = "V-220646"
  BY <1>7, <1>12 DEF Kept
<1>13. CASE r = "V-220647"
  BY <1>8, <1>13 DEF Kept
<1>14. CASE r \notin {"V-220633", "V-220635", "V-220642", "V-220646", "V-220647"}
  <2>1. Kept(r)
    BY <1>1, <1>2, <1>3, <1>5, <1>9, <1>14 DEF OfPorts
  <2> QED BY <2>1 DEF Kept
<1> QED BY <1>10, <1>11, <1>12, <1>13, <1>14

(* A push, whole or cut short anywhere, never makes a rule fail that the audit   *)
(* passed, but for what an added VLAN, a second policy, a source outside the     *)
(* management subnet or a VLAN set aside that is not apart from the others does. *)
THEOREM NothingIsUnfixed == Spec => NothingUnfixed
<1>1. Inv /\ [Next]_vars =>
        (Pushes /\ snap = sw /\ Unread(sw) = {} =>
           LET before == Expanded(sw, sw.tmpl)
               after == Expanded(sw', sw'.tmpl)
           IN \A r \in Checks :
                Answer(r, before) = "PASS"
                  => Answer(r, after) = "PASS" \/ MayUnfix(r, before))
  <2> SUFFICES ASSUME Inv, [Next]_vars, Pushes, snap = sw, Unread(sw) = {}, NEW r \in Checks,
                      Answer(r, Expanded(sw, sw.tmpl)) = "PASS",
                      ~ MayUnfix(r, Expanded(sw, sw.tmpl))
               PROVE  Answer(r, Expanded(sw', sw'.tmpl)) = "PASS"
    BY Zenon
  <2> DEFINE c == Expanded(sw, sw.tmpl)
             d == Expanded(sw', sw'.tmpl)
  <2>1. IsSwitch(sw) /\ IsSwitch(sw') /\ Onward(sw, sw', sw)
    BY PushKeeps
  <2>2. Audited(sw, sw', c, d)
    BY <2>1, PortsExpanded DEF Audited
  <2>3. CASE r \in OfPorts
    <3> HIDE DEF c, d
    <3>1. StillPasses(Answer(r, c), Answer(r, d))
      <4>1. ~ MayUnfix(r, c)
        BY DEF c
      <4> QED BY <2>2, <2>3, <4>1, PortRulesKept, Zenon DEF MayUnfix
    <3> QED BY <3>1 DEF StillPasses, c, d
  <2>4. CASE r \notin OfPorts
    <3> HIDE DEF c, d
    <3>1. Answer(r, c) = Answer(r, sw) /\ Answer(r, d) = Answer(r, sw')
      BY <2>2, <2>4, SameAnswer DEF Audited
    <3>2. LoginsPushed(sw, sw', script)
      BY PushLogins
    <3>3. ~ MayUnfix(r, c)
      BY DEF c
    <3>4. StillPasses(Answer(r, sw), Answer(r, sw'))
      BY <2>1, <2>4, <3>2, <3>3, GlobalRulesKept DEF MayUnfix
    <3> QED BY <3>1, <3>4 DEF StillPasses, c, d
  <2> QED BY <2>3, <2>4
<1>2. Inv /\ [Next]_vars =>
        [Pushes /\ snap = sw /\ Unread(sw) = {} =>
           LET before == Expanded(sw, sw.tmpl)
               after == Expanded(sw', sw'.tmpl)
           IN \A r \in Checks :
                Answer(r, before) = "PASS"
                  => Answer(r, after) = "PASS" \/ MayUnfix(r, before)]_vars
  BY <1>1, Zenon
<1> QED BY <1>2, InvInit, InvNext, PTL DEF Spec, NothingUnfixed

-----------------------------------------------------------------------------
(* What is on a switch that was hardened, part by part, and the invariant that *)
(* `done' names what is there.                                                 *)

BaseLines ==
  Archive \cup {"logging-userinfo", "service-timestamps-log-datetime-localtime",
                "logging-buffered", "login-on-failure-log", "login-on-success-log",
                "ip-ssh-version-2", "ssh-macs", "ssh-ciphers"}
OnBoth(s) ==
  /\ BaseLines \subseteq s.lines /\ Services \cap s.lines = {} /\ s.ssh # "1.99"
  /\ s.block = Blocking /\ s.trap = 2 /\ s.filePrivilege = 15

GlobalLines ==
  {"spanning-tree-portfast-bpduguard-default", "spanning-tree-loopguard-default",
   "spanning-tree-mode-rapid-pvst", "udld-enable", "ip-http-max-connections",
   "service-password-encryption"} \cup IF Book = "ios" THEN {"mls-qos"} ELSE {}
Keyed(s) == "ntp-authenticate" \in s.lines /\ 1 \in s.ntpKeys \cap s.ntpTrusted \cap s.ntpUsed
OnGlobal(s) ==
  /\ OnBoth(s) /\ GlobalLines \subseteq s.lines /\ "no-ip-igmp-snooping" \notin s.lines
  /\ Inventory.ntp \subseteq s.ntpServers /\ Inventory.syslog \subseteq s.syslog
  /\ "vtp" \in Inventory.secrets => s.vtp = "shown"
  /\ "snmp" \in Inventory.secrets => s.snmp = "sha-aes"
  /\ "ntp" \in Inventory.secrets => Keyed(s)

OnLogging(s) ==
  OnBoth(s) /\ s.con = 5 /\ (s.vtyRead => \A g \in DOMAIN s.vty : s.vty[g].timeout = 5)
OnAaa(s) ==
  /\ {"enable-secret", "aaa-new-model"} \subseteq s.lines /\ Inventory.radius \subseteq s.radius
  /\ Method \in s.methods /\ Policy \in s.policies
OnAcl(s) ==
  /\ "VTY_MGMT" \in DOMAIN s.acls /\ s.acls["VTY_MGMT"].logged /\ s.acls["VTY_MGMT"].sources # {}
  /\ \A g \in DOMAIN s.vty : Within(g, <<0, 4>>) => s.vty[g].acl = "VTY_MGMT"

\* A list of user VLANs, where there are some.
OnSnooping(s) ==
  HardenedUserVlans(s.db) # {} =>
    "ip-dhcp-snooping" \in s.lines /\ HardenedUserVlans(s.db) \subseteq s.snoop
OnDai(s) == HardenedUserVlans(s.db) \subseteq s.dai

\* Ports, their templates in place.
OnAccess(c) ==
  /\ \A p \in AccessPorts(c) :
       /\ {"portfast", "switchport-block-unicast"} \subseteq c.ports[p].lines
       /\ p \notin FastPort => "storm-control" \in c.ports[p].lines
  /\ Inventory.unused # NoVlan =>
       \A p \in ShutAccessPorts(c) : c.ports[p].vlan = Inventory.unused
OnTrunk(c) ==
  \A p \in TrunkPorts(c) :
    /\ "switchport-nonegotiate" \in c.ports[p].lines
    /\ Inventory.native # NoVlan => c.ports[p].native = Inventory.native
    /\ p \notin c.root => "guard-root" \in c.ports[p].lines
OnPruning(c) ==
  \A p \in TrunkPorts(c), v \in {1} \cup Configured(Inventory.unused) :
    c.ports[p].allowed.form = "only" /\ v \notin c.ports[p].allowed.vlans
OnSourceGuard(c) == \A p \in AccessPorts(c) : "ip-verify-source" \in c.ports[p].lines

\* What was pushed whole is on the switch.
Global(parts, s) ==
  /\ "global" \in parts => OnGlobal(s)
  /\ "logging" \in parts => OnLogging(s)
  /\ "aaa" \in parts => OnAaa(s)
  /\ "acl" \in parts => OnAcl(s)
  /\ "snooping" \in parts => OnSnooping(s)
  /\ "dai" \in parts => OnDai(s)
OnPorts(parts, c) ==
  /\ "access" \in parts => OnAccess(c)
  /\ "trunk" \in parts => OnTrunk(c)
  /\ "pruning" \in parts => OnPruning(c)
  /\ "ipsg" \in parts => OnSourceGuard(c)

DoneKept ==
  /\ snap # Nothing /\ done # {} => snap = sw
  /\ Global(done, sw)
  /\ Unread(sw) = {} => OnPorts(done, Expanded(sw, sw.tmpl))
-----------------------------------------------------------------------------
(* What a whole push leaves behind: what each of its commands did is there at  *)
(* the end, as no command takes back what another one set.                   *)

\* The commands of a batch.
Of(cmds) == {cmds[k] : k \in 1..Len(cmds)}

\* A push of all of them.
Whole(s, t, read, cmds) ==
  Shaped(s) /\ cmds \in Seq(Sendable(read)) /\ t = ApplyAll(s, cmds)

LEMMA OfJoined ==
  ASSUME NEW S, NEW u \in Seq(S), NEW v \in Seq(S)
  PROVE  u \o v \in Seq(S) /\ Of(u) \cup Of(v) \subseteq Of(u \o v)
<1>1. u \o v \in Seq(S) /\ Holds(u, u \o v) /\ Holds(v, u \o v)
  BY FlatStep
<1> DEFINE w == u \o v
<1>2. Holds(u, w) /\ Holds(v, w)
  BY <1>1
<1> HIDE DEF w
<1>3. Of(u) \cup Of(v) \subseteq Of(w)
  BY <1>2 DEF Holds, Of
<1> QED BY <1>1, <1>3 DEF w

\* The command is run on some switch, and the push goes on from there.
LEMMA Ran ==
  ASSUME NEW s, NEW t, NEW read, NEW cmds, Whole(s, t, read, cmds), NEW c \in Of(cmds)
  PROVE  /\ c \in Sendable(read)
         /\ \E u : Shaped(u) /\ Onward(Apply(u, c), t, read)
<1> DEFINE L == Len(cmds)
<1>1. PICK k \in 1..L : cmds[k] = c
  BY Zenon DEF Of
<1>2. L \in Nat /\ Begins(cmds, cmds) /\ \A n \in 1..L : cmds[n] \in Sendable(read)
  BY DEF Whole, Begins
<1>3. PICK f : /\ f[0] = s
               /\ \A n \in 1..L : f[n] = Apply(f[n - 1], cmds[n])
               /\ ApplyAll(s, cmds) = f[L]
               /\ \A n \in 0..L : Shaped(f[n])
  <2>1. Shaped(s) /\ cmds \in Seq(Sendable(read))
    BY DEF Whole
  <2> QED BY <1>2, <2>1, Steps
<1> HIDE DEF L
<1> DEFINE Past == {i \in 0..(L - k) : Onward(f[k], f[k + i], read)}
<1>4. 0 \in Past
  BY <1>2, <1>3, OnwardStays
<1>5. ASSUME NEW i \in 1..(L - k), i - 1 \in Past
      PROVE  i \in Past
  <2> DEFINE n == k + i
  <2>1. n \in 1..L /\ n - 1 \in 0..L /\ n - 1 = k + (i - 1)
    BY <1>2
  <2>2. Onward(f[k], f[n - 1], read)
    BY <1>5, <2>1
  <2>3. Onward(f[n - 1], f[n], read)
    <3>1. Shaped(f[n - 1]) /\ cmds[n] \in Sendable(read) /\ f[n] = Apply(f[n - 1], cmds[n])
      BY <1>2, <1>3, <2>1, Zenon
    <3> HIDE DEF n
    <3> QED BY <3>1, CommandOnward
  <2> HIDE DEF n
  <2>4. Onward(f[k], f[n], read)
    BY <2>2, <2>3, OnwardAgain, Zenon
  <2> QED BY <2>4 DEF n
<1>6. Onward(f[k], f[L], read)
  <2>1. L - k \in Nat
    BY <1>2
  <2>2. \A i \in 0..(L - k) : i \in Past
    <3> HIDE DEF Past
    <3> QED BY <1>4, <1>5, <2>1, CountingUp
  <2>3. L - k \in Past
    <3>1. L - k \in 0..(L - k)
      BY <2>1
    <3> HIDE DEF Past
    <3> QED BY <2>2, <3>1, Zenon
  <2>4. k + (L - k) = L
    BY <1>2
  <2> QED BY <2>3, <2>4
<1>7. f[k] = Apply(f[k - 1], c) /\ Shaped(f[k - 1])
  BY <1>1, <1>2, <1>3
<1>8. t = f[L] /\ c \in Sendable(read)
  BY <1>1, <1>2, <1>3, Zenon DEF Whole
<1> QED BY <1>6, <1>7, <1>8, Zenon

\* Lines.
LEMMA LeavesLines ==
  ASSUME NEW s, NEW t, NEW read, NEW cmds, Whole(s, t, read, cmds), NEW x \in SUBSET SentLines,
         Lines(x) \in Of(cmds)
  PROVE  x \subseteq t.lines
<1>1. PICK u : Shaped(u) /\ Onward(Apply(u, Lines(x)), t, read)
  BY Ran
<1>2. x \subseteq Apply(u, Lines(x)).lines
  <2>1. Apply(u, Lines(x)) = [u EXCEPT !.lines = @ \cup x]
    BY DEF Apply, Lines
  <2> QED BY <1>1, <2>1 DEF Shaped, Parts
<1>3. x \cap Withdrawn = {}
  BY DEF SentLines, Withdrawn, Services, Archive
<1> QED BY <1>1, <1>2, <1>3 DEF Onward, LinesOnward

LEMMA LeavesNo ==
  ASSUME NEW s, NEW t, NEW read, NEW cmds, Whole(s, t, read, cmds), NEW x \in SUBSET Withdrawn,
         No(x) \in Of(cmds)
  PROVE  x \cap t.lines = {}
<1>1. PICK u : Shaped(u) /\ Onward(Apply(u, No(x)), t, read)
  BY Ran
<1>2. x \cap Apply(u, No(x)).lines = {}
  <2>1. Apply(u, No(x)) = [u EXCEPT !.lines = @ \ x]
    BY DEF Apply, No
  <2> QED BY <1>1, <2>1 DEF Shaped, Parts
<1>3. x \cap (SentLines \cup {"ip-ssh-version-2"}) = {}
  BY DEF SentLines, Withdrawn, Services, Archive
<1> QED BY <1>1, <1>2, <1>3 DEF Onward, LinesOnward

LEMMA LeavesSsh ==
  ASSUME NEW s, NEW t, NEW read, NEW cmds, Whole(s, t, read, cmds), SshVersion2 \in Of(cmds)
  PROVE  "ip-ssh-version-2" \in t.lines /\ t.ssh # "1.99"
<1>1. PICK u : Shaped(u) /\ Onward(Apply(u, SshVersion2), t, read)
  BY Ran
<1> DEFINE v == Apply(u, SshVersion2)
<1>2. "ip-ssh-version-2" \in v.lines /\ v.ssh # "1.99"
  <2>1. v = [u EXCEPT !.lines = @ \cup {"ip-ssh-version-2"},
                      !.ssh = IF @ = "1.99" THEN "2.0" ELSE @]
    BY DEF Apply, SshVersion2
  <2> HIDE DEF v
  <2> QED BY <1>1, <2>1 DEF Shaped, Parts
<1> HIDE DEF v
<1>3. "ip-ssh-version-2" \in t.lines
  BY <1>1, <1>2 DEF Onward, LinesOnward, Withdrawn, Services, v
<1>4. t.ssh = v.ssh \/ t.ssh = "2.0"
  BY <1>1 DEF Onward, SettingsOnward, v
<1> QED BY <1>2, <1>3, <1>4

\* Settings: each has one value the scripts give it.
LEMMA LeavesSet ==
  ASSUME NEW s, NEW t, NEW read, NEW cmds, Whole(s, t, read, cmds),
         NEW c \in Settings \cap Of(cmds)
  PROVE  t[c.field] = c.arg
<1>1. PICK u : Shaped(u) /\ Onward(Apply(u, c), t, read)
  BY Ran
<1> DEFINE v == Apply(u, c)
<1>2. v[c.field] = c.arg
  <2>1. v = [u EXCEPT ![c.field] = c.arg]
    BY DEF Apply, Settings, Set
  <2>2. c.field \in Parts
    BY DEF Settings, Set, Parts
  <2> HIDE DEF v
  <2> QED BY <1>1, <2>1, <2>2 DEF Shaped
<1> HIDE DEF v
<1>3. /\ t.block \in {v.block, Blocking} /\ t.trap \in {v.trap, 2} /\ t.con \in {v.con, 5}
      /\ t.filePrivilege \in {v.filePrivilege, 15}
      /\ t.vtp \in {v.vtp, "shown"} /\ t.snmp \in {v.snmp, "sha-aes"}
  BY <1>1, Zenon DEF Onward, SettingsOnward, v
<1>4. CASE c = Set("block", Blocking)
  <2>1. c.field = "block" /\ c.arg = Blocking
    BY <1>4 DEF Set
  <2> QED BY <1>2, <1>3, <2>1
<1>5. CASE c # Set("block", Blocking)
  <2>1. \/ c.field = "trap" /\ c.arg = 2
        \/ c.field = "con" /\ c.arg = 5
        \/ c.field = "filePrivilege" /\ c.arg = 15
        \/ c.field = "vtp" /\ c.arg = "shown"
        \/ c.field = "snmp" /\ c.arg = "sha-aes"
    <3>1. \/ c = Set("trap", 2) \/ c = Set("filePrivilege", 15) \/ c = Set("con", 5)
          \/ c = Set("vtp", "shown") \/ c = Set("snmp", "sha-aes")
      BY <1>5, Zenon DEF Settings
    <3>2. \A f, x : Set(f, x).field = f /\ Set(f, x).arg = x
      BY DEF Set
    <3> QED BY <3>1, <3>2
  <2> QED BY <1>2, <1>3, <2>1
<1> QED BY <1>4, <1>5

\* Entries of lists.
LEMMA LeavesEntries ==
  ASSUME NEW s, NEW t, NEW read, NEW cmds, Whole(s, t, read, cmds),
         NEW c \in (Entries \cup VlanCommands(read)) \cap Of(cmds)
  PROVE  c.arg \subseteq t[c.field]
<1>1. PICK u : Shaped(u) /\ Onward(Apply(u, c), t, read)
  BY Ran
<1> DEFINE v == Apply(u, c)
<1>2. c.op = "add" /\ c.field \in ListParts
  BY DEF Entries, VlanCommands, Add, ListParts
<1>3. c.arg \subseteq v[c.field]
  <2>1. v = [u EXCEPT ![c.field] = @ \cup c.arg]
    BY <1>2 DEF Apply
  <2> HIDE DEF v
  <2> QED BY <1>1, <1>2, <2>1 DEF Shaped, Parts, ListParts
<1> HIDE DEF v
<1>4. \A f \in ListParts : v[f] \subseteq t[f]
  BY <1>1, Zenon DEF Onward, ListsOnward, Grows, ListParts, v
<1> QED BY <1>2, <1>3, <1>4

\* Lines to log in on.
LEMMA LeavesTimeout ==
  ASSUME NEW s, NEW t, NEW read, NEW cmds, Whole(s, t, read, cmds),
         NEW range \in Ranges(read), Vty(range, "timeout", 5) \in Of(cmds),
         NEW r \in DOMAIN t.vty, Within(r, range)
  PROVE  t.vty[r].timeout = 5
<1> DEFINE c == Vty(range, "timeout", 5)
<1>1. PICK u : Shaped(u) /\ Onward(Apply(u, c), t, read)
  BY Ran
<1> DEFINE v == Apply(u, c)
<1>2. DOMAIN v.vty = DOMAIN t.vty /\ (t.vty[r].timeout = v.vty[r].timeout \/ t.vty[r].timeout = 5)
  <2> HIDE DEF v, c
  <2> QED BY <1>1 DEF Onward, VtyOnward, v
<1>3. c \in LimitCommands(read) /\ c.range = range /\ c.field = "timeout" /\ c.arg = 5
  BY DEF LimitCommands, Vty
<1>4. DOMAIN v.vty = DOMAIN u.vty /\ (r \in DOMAIN u.vty => v.vty[r].timeout = 5)
  <2> HIDE DEF c
  <2> QED BY <1>1, <1>3, LinesSet
<1> QED BY <1>2, <1>4

LEMMA LeavesList ==
  ASSUME NEW s, NEW t, Whole(s, t, s, AclCommands)
  PROVE  OnAcl(t)
<1> DEFINE a == PermitIn("VTY_MGMT", Inventory.automation)
           b == Vty(<<0, 4>>, "acl", "VTY_MGMT")
<1>0. a \in Of(AclCommands) /\ b \in Of(AclCommands)
  <2> DEFINE q == <<a, b>>
  <2>1. Len(q) = 2 /\ q[1] = a /\ q[2] = b
    OBVIOUS
  <2>2. AclCommands = q
    BY DEF AclCommands
  <2> HIDE DEF a, b, q
  <2> QED BY <2>1, <2>2 DEF Of
<1>1. PICK u : Shaped(u) /\ Onward(Apply(u, a), t, s)
  BY <1>0, Ran, Zenon
<1>2. PICK w : Shaped(w) /\ Onward(Apply(w, b), t, s)
  BY <1>0, Ran, Zenon
<1>3. Apply(u, a).acls = Permitted(u.acls)
  <2>1. Apply(u, a) = [u EXCEPT !.acls = WithAcl(@, "VTY_MGMT", Inventory.automation)]
    BY DEF Apply, PermitIn
  <2> QED BY <1>1, <2>1 DEF Shaped, Parts, Permitted
<1>4. t.acls = Permitted(u.acls)
  <2> HIDE DEF a
  <2>1. t.acls = Permitted(u.acls) \/ t.acls = Permitted(Permitted(u.acls))
    BY <1>1, <1>3 DEF Onward, AclsOnward
  <2> QED BY <2>1, PermittedTwice
<1>5. /\ "VTY_MGMT" \in DOMAIN t.acls /\ t.acls["VTY_MGMT"].logged
      /\ t.acls["VTY_MGMT"].sources # {}
  BY <1>4 DEF Permitted, WithAcl
<1>6. DOMAIN Apply(w, b).vty = DOMAIN w.vty
        /\ \A r \in DOMAIN w.vty : Within(r, <<0, 4>>) => Apply(w, b).vty[r].acl = "VTY_MGMT"
  <2> DEFINE v == Apply(w, b)
  <2>1. v = [w EXCEPT !.vty = [r \in DOMAIN @ |->
               IF Within(r, <<0, 4>>) THEN [@[r] EXCEPT !.acl = "VTY_MGMT"] ELSE @[r]]]
    BY DEF Apply, Vty
  <2> HIDE DEF v
  <2>2. v.vty = [r \in DOMAIN w.vty |->
             IF Within(r, <<0, 4>>) THEN [w.vty[r] EXCEPT !.acl = "VTY_MGMT"] ELSE w.vty[r]]
    BY <1>2, <2>1 DEF Shaped, Parts
  <2>3. DOMAIN v.vty = DOMAIN w.vty
          /\ \A r \in DOMAIN w.vty : Within(r, <<0, 4>>) => v.vty[r].acl = "VTY_MGMT"
    BY <1>2, <2>2 DEF Shaped, LineParts
  <2> QED BY <2>3 DEF v
<1>7. \A r \in DOMAIN t.vty : Within(r, <<0, 4>>) => t.vty[r].acl = "VTY_MGMT"
  <2> DEFINE v == Apply(w, b)
  <2> HIDE DEF v, b
  <2>1. DOMAIN t.vty = DOMAIN v.vty
          /\ \A r \in DOMAIN v.vty : t.vty[r].acl = v.vty[r].acl \/ t.vty[r].acl = "VTY_MGMT"
    BY <1>2 DEF Onward, VtyOnward, v
  <2> QED BY <1>6, <2>1 DEF v
<1> QED BY <1>5, <1>7 DEF OnAcl

\* Ports.
LEMMA LeavesPortLines ==
  ASSUME NEW s, NEW t, NEW read, NEW cmds, Whole(s, t, read, cmds), NEW p \in Port, NEW x,
         PortLines(p, x) \in Of(cmds)
  PROVE  x \subseteq t.ports[p].lines
<1> DEFINE c == PortLines(p, x)
<1>1. PICK u : Shaped(u) /\ Onward(Apply(u, c), t, read)
  BY Ran
<1>2. x \subseteq Apply(u, c).ports[p].lines
  <2>1. Apply(u, c) = [u EXCEPT !.ports[p].lines = @ \cup x]
    BY DEF Apply, PortLines
  <2> QED BY <1>1, <2>1 DEF Shaped, Parts, PortParts
<1> HIDE DEF c
<1> QED BY <1>1, <1>2 DEF Onward, PortsOnward, PortOnward, Grows

LEMMA LeavesPortSet ==
  ASSUME NEW s, NEW t, NEW read, NEW cmds, Whole(s, t, read, cmds), NEW p \in Port,
         NEW f, NEW v, OnPort(p, f, v) \in Of(cmds),
         \/ f = "vlan" /\ v = Inventory.unused
         \/ f = "native" /\ v = Inventory.native
         \/ f = "allowed" /\ v = Pruning(read)
  PROVE  t.ports[p][f] = v
<1> DEFINE c == OnPort(p, f, v)
<1>1. PICK u : Shaped(u) /\ Onward(Apply(u, c), t, read)
  BY Ran
<1> DEFINE w == Apply(u, c)
<1>2. w.ports[p][f] = v
  <2>1. w = [u EXCEPT !.ports[p][f] = v]
    BY DEF Apply, OnPort
  <2>2. f \in PortParts
    BY DEF PortParts
  <2> HIDE DEF w
  <2> QED BY <1>1, <2>1, <2>2 DEF Shaped, Parts
<1>3. PortOnward(p, w.ports[p], t.ports[p], read)
  <2> HIDE DEF w, c
  <2> QED BY <1>1 DEF Onward, PortsOnward, w
<1> HIDE DEF w
<1> QED BY <1>2, <1>3 DEF PortOnward
-----------------------------------------------------------------------------
(* What each script leaves behind.                                           *)

\* What the first commands are.
LEMMA BaseHas ==
  /\ Lines({"spanning-tree-portfast-bpduguard-default", "spanning-tree-loopguard-default",
            "spanning-tree-mode-rapid-pvst", "udld-enable"}) \in Of(BaseFixes)
  /\ No({"no-ip-igmp-snooping"}) \in Of(BaseFixes)
  /\ Lines({"service-timestamps-log-datetime-localtime", "logging-buffered",
            "login-on-failure-log", "login-on-success-log"}) \in Of(BaseFixes)
  /\ {Set("block", Blocking), Set("trap", 2), Set("filePrivilege", 15)} \subseteq Of(BaseFixes)
  /\ Lines({"logging-userinfo", "ip-http-max-connections", "service-password-encryption"}
             \cup IF Book = "ios" THEN {"mls-qos"} ELSE {}) \in Of(BaseFixes)
<1> DEFINE a == Lines({"spanning-tree-portfast-bpduguard-default",
                       "spanning-tree-loopguard-default",
                       "spanning-tree-mode-rapid-pvst", "udld-enable"})
           b == No({"no-ip-igmp-snooping"})
           c == Lines({"service-timestamps-log-datetime-localtime", "logging-buffered",
                       "login-on-failure-log", "login-on-success-log"})
           d == Set("block", Blocking)
           e == Lines({"logging-userinfo", "ip-http-max-connections",
                       "service-password-encryption"}
                         \cup IF Book = "ios" THEN {"mls-qos"} ELSE {})
           f == Set("trap", 2)
           g == Set("filePrivilege", 15)
           q == <<a, b, c, d, e, f, g>>
<1>1. BaseFixes = q
  BY Zenon DEF BaseFixes, Blocking
<1> HIDE DEF a, b, c, d, e, f, g
<1>2. /\ Len(q) = 7 /\ q[1] = a /\ q[2] = b /\ q[3] = c /\ q[4] = d /\ q[5] = e /\ q[6] = f
      /\ q[7] = g
  OBVIOUS
<1>3. /\ 1 \in 1..7 /\ 2 \in 1..7 /\ 3 \in 1..7 /\ 4 \in 1..7 /\ 5 \in 1..7 /\ 6 \in 1..7
      /\ 7 \in 1..7
  OBVIOUS
<1> HIDE DEF q
<1>4. {a, b, c, d, e, f, g} \subseteq Of(q)
  BY <1>2, <1>3 DEF Of
<1> QED BY <1>1, <1>4, Zenon DEF a, b, c, d, e, f, g

LEMMA LoggingHas ==
  /\ Lines({"service-timestamps-log-datetime-localtime", "logging-buffered",
            "login-on-failure-log", "login-on-success-log", "logging-userinfo"})
        \in Of(LoggingFixes)
  /\ {Set("block", Blocking), Set("trap", 2), Set("filePrivilege", 15)} \subseteq Of(LoggingFixes)
<1> DEFINE a == Lines({"service-timestamps-log-datetime-localtime", "logging-buffered",
                       "login-on-failure-log", "login-on-success-log", "logging-userinfo"})
           b == Set("trap", 2)
           c == Set("filePrivilege", 15)
           d == Set("block", Blocking)
           q == <<a, b, c, d>>
<1>1. LoggingFixes = q
  BY Zenon DEF LoggingFixes, Blocking
<1> HIDE DEF a, b, c, d
<1>2. /\ Len(q) = 4 /\ q[1] = a /\ q[2] = b /\ q[3] = c /\ q[4] = d
      /\ 1 \in 1..4 /\ 2 \in 1..4 /\ 3 \in 1..4 /\ 4 \in 1..4
  OBVIOUS
<1> HIDE DEF q
<1>4. {a, b, c, d} \subseteq Of(q)
  BY <1>2 DEF Of
<1> QED BY <1>1, <1>4, Zenon DEF a, b, c, d

LEMMA OfShort ==
  ASSUME NEW a, NEW b
  PROVE  Of(<<a>>) = {a} /\ Of(<<a, b>>) = {a, b}
<1> DEFINE r == <<a, b>>
           s == <<a>>
<1>1. /\ Len(r) = 2 /\ r[1] = a /\ r[2] = b /\ 1..2 = {1, 2}
      /\ Len(s) = 1 /\ s[1] = a /\ 1..1 = {1}
  OBVIOUS
<1> HIDE DEF r, s
<1>2. Of(r) = {a, b} /\ Of(s) = {a}
  BY <1>1 DEF Of
<1> QED BY <1>2 DEF r, s

LEMMA OfThree ==
  ASSUME NEW a, NEW b, NEW c
  PROVE  {a, b, c} \subseteq Of(<<a, b, c>>)
<1> DEFINE q == <<a, b, c>>
<1>1. /\ Len(q) = 3 /\ q[1] = a /\ q[2] = b /\ q[3] = c
      /\ 1 \in 1..3 /\ 2 \in 1..3 /\ 3 \in 1..3
  OBVIOUS
<1> HIDE DEF q
<1>2. {a, b, c} \subseteq Of(q)
  BY <1>1 DEF Of
<1> QED BY <1>2 DEF q

LEMMA FixesHave ==
  /\ {SshVersion2, Lines({"ssh-macs"}), Lines({"ssh-ciphers"})} \subseteq Of(SshFixes)
  /\ No(Services) \in Of(ServicesFix) /\ Lines(Archive) \in Of(ArchiveFix)
  /\ Set("con", 5) \in Of(ConsoleFix) /\ Add("syslog", Inventory.syslog) \in Of(SyslogFix)
<1> DEFINE a == SshVersion2
           b == Lines({"ssh-macs"})
           c == Lines({"ssh-ciphers"})
           q == <<a, b, c>>
<1>1. SshFixes = q
  BY Zenon DEF SshFixes
<1> HIDE DEF a, b, c
<1>2. {a, b, c} \subseteq Of(q)
  BY OfThree
<1> HIDE DEF q
<1>3. /\ No(Services) \in Of(ServicesFix) /\ Lines(Archive) \in Of(ArchiveFix)
      /\ Set("con", 5) \in Of(ConsoleFix) /\ Add("syslog", Inventory.syslog) \in Of(SyslogFix)
  BY OfShort DEF ServicesFix, ArchiveFix, ConsoleFix, SyslogFix
<1> QED BY <1>1, <1>2, <1>3, Zenon DEF a, b, c

\* What the global and the logging script have in common.
LEMMA BothLeave ==
  ASSUME NEW s, NEW t, NEW read, NEW cmds, Whole(s, t, read, cmds),
         Of(SshFixes) \cup Of(ServicesFix) \cup Of(ArchiveFix) \subseteq Of(cmds),
         {Set("block", Blocking), Set("trap", 2), Set("filePrivilege", 15)} \subseteq Of(cmds),
         {"service-timestamps-log-datetime-localtime", "logging-buffered", "login-on-failure-log",
          "login-on-success-log", "logging-userinfo"} \subseteq t.lines
  PROVE  OnBoth(t)
<1> HIDE DEF Lines, No, Set, SshVersion2
<1>1. {SshVersion2, Lines({"ssh-macs"}), Lines({"ssh-ciphers"}), No(Services), Lines(Archive)}
        \subseteq Of(cmds)
  BY FixesHave
<1>2. "ip-ssh-version-2" \in t.lines /\ t.ssh # "1.99"
  BY <1>1, LeavesSsh
<1>3. /\ {"ssh-macs"} \in SUBSET SentLines /\ {"ssh-ciphers"} \in SUBSET SentLines
      /\ Archive \in SUBSET SentLines /\ Services \in SUBSET Withdrawn
  BY DEF SentLines, Withdrawn
<1>4. {"ssh-macs"} \subseteq t.lines /\ {"ssh-ciphers"} \subseteq t.lines /\ Archive \subseteq t.lines
  <2>1. Lines({"ssh-macs"}) \in Of(cmds) /\ Lines({"ssh-ciphers"}) \in Of(cmds)
          /\ Lines(Archive) \in Of(cmds)
    BY <1>1
  <2> QED BY <1>3, <2>1, LeavesLines, Zenon
<1>5. Services \cap t.lines = {}
  <2>1. No(Services) \in Of(cmds)
    BY <1>1
  <2> QED BY <1>3, <2>1, LeavesNo, Zenon
<1>6. /\ Set("block", Blocking) \in Settings /\ Set("trap", 2) \in Settings
      /\ Set("filePrivilege", 15) \in Settings
  BY DEF Settings
<1>7. t.block = Blocking /\ t.trap = 2 /\ t.filePrivilege = 15
  <2>1. \A f, v : Set(f, v) \in Settings /\ Set(f, v) \in Of(cmds) => t[f] = v
    <3>1. \A f, v : Set(f, v).field = f /\ Set(f, v).arg = v
      BY DEF Set
    <3>2. \A c \in Settings \cap Of(cmds) : t[c.field] = c.arg
      BY LeavesSet
    <3> QED BY <3>1, <3>2
  <2> QED BY <1>6, <2>1
<1>8. BaseLines \subseteq t.lines
  BY <1>2, <1>4 DEF BaseLines
<1> QED BY <1>2, <1>5, <1>7, <1>8 DEF OnBoth

LEMMA OfFive ==
  ASSUME NEW a, NEW b, NEW c, NEW d, NEW e
  PROVE  {a, b, c, d, e} \subseteq Of(<<a, b, c, d, e>>)
<1> DEFINE q == <<a, b, c, d, e>>
<1>1. /\ Len(q) = 5 /\ q[1] = a /\ q[2] = b /\ q[3] = c /\ q[4] = d /\ q[5] = e
      /\ 1 \in 1..5 /\ 2 \in 1..5 /\ 3 \in 1..5 /\ 4 \in 1..5 /\ 5 \in 1..5
  OBVIOUS
<1> HIDE DEF q
<1>2. {a, b, c, d, e} \subseteq Of(q)
  BY <1>1 DEF Of
<1> QED BY <1>2 DEF q

\* An entry of a list, by its name; a setting, by its name.
LEMMA LeavesEntry ==
  ASSUME NEW s, NEW t, NEW read, NEW cmds, Whole(s, t, read, cmds), NEW f, NEW x,
         Add(f, x) \in Entries \cup VlanCommands(read), Add(f, x) \in Of(cmds)
  PROVE  x \subseteq t[f]
<1>1. Add(f, x).field = f /\ Add(f, x).arg = x
  BY DEF Add
<1> HIDE DEF Add
<1>2. Add(f, x).arg \subseteq t[Add(f, x).field]
  BY LeavesEntries
<1> QED BY <1>1, <1>2

LEMMA LeavesSetting ==
  ASSUME NEW s, NEW t, NEW read, NEW cmds, Whole(s, t, read, cmds), NEW f, NEW v,
         Set(f, v) \in Settings, Set(f, v) \in Of(cmds)
  PROVE  t[f] = v
<1>1. Set(f, v).field = f /\ Set(f, v).arg = v
  BY DEF Set
<1>2. t[Set(f, v).field] = Set(f, v).arg
  BY LeavesSet
<1> QED BY <1>1, <1>2

\* The parts of the global script.
SnoopingFix(read) ==
  IF HardenedUserVlans(read.db) = {} THEN <<>>
  ELSE <<Lines({"ip-dhcp-snooping"}), Add("snoop", HardenedUserVlans(read.db))>>

LEMMA GlobalHas ==
  ASSUME NEW read
  PROVE  /\ Of(BaseFixes) \cup Of(ServicesFix) \cup Of(SshFixes) \cup Of(ArchiveFix)
              \subseteq Of(GlobalCommands(read))
         /\ Of(SnoopingFix(read)) \cup Of(Secret("vtp", "vtp", "shown"))
              \cup Of(Secret("snmp", "snmp", "sha-aes")) \cup Of(NtpFix) \cup Of(SyslogFix)
                \subseteq Of(GlobalCommands(read))
<1> DEFINE S == Tame(read)
           lines == <<Vty(<<0, 4>>, "limit", TRUE), Vty(<<0, 4>>, "timeout", 5)>>
           snooping == SnoopingFix(read)
           native == <<Add("db", Configured(Inventory.native))>>
           vlans == <<Add("db", Configured(Inventory.default)),
                      Add("db", Configured(Inventory.unused))>>
           vtp == Secret("vtp", "vtp", "shown")
           snmp == Secret("snmp", "snmp", "sha-aes")
<1>1. GlobalCommands(read)
        = BaseFixes \o ServicesFix \o SshFixes \o ArchiveFix \o lines \o ConsoleFix \o snooping
            \o native \o vtp \o vlans \o snmp \o NtpFix \o SyslogFix
  BY Zenon DEF GlobalCommands, SnoopingFix
<1>2. /\ BaseFixes \in Seq(S) /\ ServicesFix \in Seq(S) /\ SshFixes \in Seq(S)
      /\ ArchiveFix \in Seq(S) /\ ConsoleFix \in Seq(S)
      /\ vtp \in Seq(S) /\ snmp \in Seq(S) /\ NtpFix \in Seq(S) /\ SyslogFix \in Seq(S)
  BY BaseSent, LoggingSent, ServersSent
<1>3. lines \in Seq(S)
  <2>1. <<0, 4>> \in Ranges(read)
    BY DEF Ranges
  <2>2. Vty(<<0, 4>>, "limit", TRUE) \in S /\ Vty(<<0, 4>>, "timeout", 5) \in S
    BY <2>1 DEF LimitCommands, Tame
  <2> HIDE DEF S
  <2> QED BY <2>2, ShortSeqs, Zenon
<1>4. snooping \in Seq(S)
  <2> DEFINE users == HardenedUserVlans(read.db)
             a == Lines({"ip-dhcp-snooping"})
             b == Add("snoop", users)
  <2>1. a \in LineCommands /\ b \in VlanCommands(read)
    BY DEF LineCommands, SentLines, VlanCommands
  <2>2. LineCommands \cup VlanCommands(read) \subseteq S
    BY DEF Tame
  <2>3. snooping = IF users = {} THEN <<>> ELSE <<a, b>>
    BY Zenon DEF SnoopingFix
  <2> HIDE DEF S, a, b, users, snooping
  <2> QED BY <2>1, <2>2, <2>3
<1>5. native \in Seq(S) /\ vlans \in Seq(S)
  <2>1. \A v \in {Inventory.native, Inventory.default, Inventory.unused} :
          Add("db", Configured(v)) \in VlanCommands(read)
    BY DEF VlanCommands
  <2>2. VlanCommands(read) \subseteq S
    BY DEF Tame
  <2> HIDE DEF S, Add
  <2> QED BY <2>1, <2>2
<1> HIDE DEF S, lines, snooping, native, vlans, vtp, snmp
<1> DEFINE w2 == BaseFixes \o ServicesFix
           w3 == w2 \o SshFixes
           w4 == w3 \o ArchiveFix
           w5 == w4 \o lines
           w6 == w5 \o ConsoleFix
           w7 == w6 \o snooping
           w8 == w7 \o native
           w9 == w8 \o vtp
           w10 == w9 \o vlans
           w11 == w10 \o snmp
           w12 == w11 \o NtpFix
           w13 == w12 \o SyslogFix
<1>6. GlobalCommands(read) = w13
  BY <1>1, Zenon
<1>7. w2 \in Seq(S) /\ Of(BaseFixes) \cup Of(ServicesFix) \subseteq Of(w2)
  BY <1>2, OfJoined
<1> HIDE DEF w2
<1>8. w3 \in Seq(S) /\ Of(w2) \cup Of(SshFixes) \subseteq Of(w3)
  BY <1>2, <1>7, OfJoined
<1> HIDE DEF w3
<1>9. w4 \in Seq(S) /\ Of(w3) \cup Of(ArchiveFix) \subseteq Of(w4)
  BY <1>2, <1>8, OfJoined
<1> HIDE DEF w4
<1>10. w5 \in Seq(S) /\ Of(w4) \cup Of(lines) \subseteq Of(w5)
  BY <1>3, <1>9, OfJoined
<1> HIDE DEF w5
<1>11. w6 \in Seq(S) /\ Of(w5) \cup Of(ConsoleFix) \subseteq Of(w6)
  BY <1>2, <1>10, OfJoined
<1> HIDE DEF w6
<1>12. w7 \in Seq(S) /\ Of(w6) \cup Of(snooping) \subseteq Of(w7)
  BY <1>4, <1>11, OfJoined
<1> HIDE DEF w7
<1>13. w8 \in Seq(S) /\ Of(w7) \cup Of(native) \subseteq Of(w8)
  BY <1>5, <1>12, OfJoined
<1> HIDE DEF w8
<1>14. w9 \in Seq(S) /\ Of(w8) \cup Of(vtp) \subseteq Of(w9)
  BY <1>2, <1>13, OfJoined
<1> HIDE DEF w9
<1>15. w10 \in Seq(S) /\ Of(w9) \cup Of(vlans) \subseteq Of(w10)
  BY <1>5, <1>14, OfJoined
<1> HIDE DEF w10
<1>16. w11 \in Seq(S) /\ Of(w10) \cup Of(snmp) \subseteq Of(w11)
  BY <1>2, <1>15, OfJoined
<1> HIDE DEF w11
<1>17. w12 \in Seq(S) /\ Of(w11) \cup Of(NtpFix) \subseteq Of(w12)
  BY <1>2, <1>16, OfJoined
<1> HIDE DEF w12
<1>18. w13 \in Seq(S) /\ Of(w12) \cup Of(SyslogFix) \subseteq Of(w13)
  BY <1>2, <1>17, OfJoined
<1> HIDE DEF w13
<1>19. /\ Of(BaseFixes) \cup Of(ServicesFix) \cup Of(SshFixes) \cup Of(ArchiveFix)
            \subseteq Of(w4)
       /\ Of(w4) \subseteq Of(w6) /\ Of(w6) \cup Of(snooping) \subseteq Of(w7)
       /\ Of(w7) \cup Of(vtp) \subseteq Of(w9) /\ Of(w9) \cup Of(snmp) \subseteq Of(w11)
       /\ Of(w11) \cup Of(NtpFix) \cup Of(SyslogFix) \subseteq Of(w13)
  BY <1>7, <1>8, <1>9, <1>10, <1>11, <1>12, <1>13, <1>14, <1>15, <1>16, <1>17, <1>18
<1>20. /\ Of(BaseFixes) \cup Of(ServicesFix) \cup Of(SshFixes) \cup Of(ArchiveFix)
            \subseteq Of(w13)
       /\ Of(snooping) \cup Of(vtp) \cup Of(snmp) \cup Of(NtpFix) \cup Of(SyslogFix)
            \subseteq Of(w13)
  BY <1>19
<1> QED BY <1>6, <1>20, Zenon DEF snooping, vtp, snmp

LEMMA NtpHas ==
  /\ Add("ntpServers", Inventory.ntp) \in Of(NtpFix)
  /\ "ntp" \in Inventory.secrets =>
       {Add("ntpKeys", {1}), Lines({"ntp-authenticate"}), Add("ntpTrusted", {1}),
        Add("ntpUsed", {1})} \subseteq Of(NtpFix)
<1> DEFINE a == Add("ntpKeys", {1})
           b == Lines({"ntp-authenticate"})
           c == Add("ntpTrusted", {1})
           d == Add("ntpServers", Inventory.ntp)
           e == Add("ntpUsed", {1})
           q == <<a, b, c, d, e>>
           r == <<d>>
<1>1. NtpFix = IF "ntp" \in Inventory.secrets THEN q ELSE r
  BY Zenon DEF NtpFix
<1> HIDE DEF a, b, c, d, e
<1>2. {a, b, c, d, e} \subseteq Of(q) /\ Of(r) = {d}
  BY OfFive, OfShort
<1> HIDE DEF q, r
<1>3. /\ d \in Of(NtpFix)
      /\ "ntp" \in Inventory.secrets => {a, b, c, e} \subseteq Of(NtpFix)
  BY <1>1, <1>2
<1> QED BY <1>3, Zenon DEF a, b, c, d, e

LEMMA SecretHas ==
  ASSUME NEW kind \in Inventory.secrets, NEW f, NEW v
  PROVE  Set(f, v) \in Of(Secret(kind, f, v))
<1> DEFINE a == Set(f, v)
           q == <<a>>
<1>1. Secret(kind, f, v) = q
  BY Zenon DEF Secret
<1> HIDE DEF a
<1>2. Of(q) = {a}
  BY OfShort
<1> HIDE DEF q
<1> QED BY <1>1, <1>2, Zenon DEF a

LEMMA SnoopingHas ==
  ASSUME NEW read, HardenedUserVlans(read.db) # {}
  PROVE  {Lines({"ip-dhcp-snooping"}), Add("snoop", HardenedUserVlans(read.db))}
           \subseteq Of(SnoopingFix(read))
<1> DEFINE a == Lines({"ip-dhcp-snooping"})
           b == Add("snoop", HardenedUserVlans(read.db))
           q == <<a, b>>
<1>1. SnoopingFix(read) = q
  BY Zenon DEF SnoopingFix
<1> HIDE DEF a, b
<1>2. Of(q) = {a, b}
  BY OfShort
<1> HIDE DEF q
<1> QED BY <1>1, <1>2, Zenon DEF a, b

LEMMA GlobalLeaves ==
  ASSUME NEW s, NEW t, Whole(s, t, s, GlobalCommands(s))
  PROVE  OnGlobal(t) /\ (t.db = s.db => OnSnooping(t))
<1> DEFINE cmds == GlobalCommands(s)
<1>1. /\ Of(BaseFixes) \cup Of(ServicesFix) \cup Of(SshFixes) \cup Of(ArchiveFix)
           \subseteq Of(cmds)
      /\ Of(SnoopingFix(s)) \cup Of(Secret("vtp", "vtp", "shown"))
           \cup Of(Secret("snmp", "snmp", "sha-aes")) \cup Of(NtpFix) \cup Of(SyslogFix)
             \subseteq Of(cmds)
  BY GlobalHas
<1>2. Whole(s, t, s, cmds)
  OBVIOUS
<1> HIDE DEF cmds
<1> DEFINE first == {"spanning-tree-portfast-bpduguard-default",
                     "spanning-tree-loopguard-default", "spanning-tree-mode-rapid-pvst",
                     "udld-enable"}
           logs == {"service-timestamps-log-datetime-localtime", "logging-buffered",
                    "login-on-failure-log", "login-on-success-log"}
           rest == {"logging-userinfo", "ip-http-max-connections", "service-password-encryption"}
                     \cup IF Book = "ios" THEN {"mls-qos"} ELSE {}
<1>3. first \in SUBSET SentLines /\ logs \in SUBSET SentLines /\ rest \in SUBSET SentLines
        /\ {"no-ip-igmp-snooping"} \in SUBSET Withdrawn
        /\ {"ip-dhcp-snooping"} \in SUBSET SentLines /\ {"ntp-authenticate"} \in SUBSET SentLines
  BY DEF SentLines, Withdrawn
<1>4. first \subseteq t.lines /\ logs \subseteq t.lines /\ rest \subseteq t.lines
  <2>1. Lines(first) \in Of(cmds) /\ Lines(logs) \in Of(cmds) /\ Lines(rest) \in Of(cmds)
    <3>1. /\ Lines(first) \in Of(BaseFixes) /\ Lines(logs) \in Of(BaseFixes)
          /\ Lines(rest) \in Of(BaseFixes)
      BY BaseHas, Zenon
    <3> HIDE DEF first, logs, rest, Lines
    <3> QED BY <1>1, <3>1
  <2> HIDE DEF first, logs, rest, Lines
  <2> QED BY <1>2, <1>3, <2>1, LeavesLines, Zenon
<1>5. "no-ip-igmp-snooping" \notin t.lines
  <2>1. No({"no-ip-igmp-snooping"}) \in Of(cmds)
    BY <1>1, BaseHas
  <2>2. {"no-ip-igmp-snooping"} \cap t.lines = {}
    BY <1>2, <1>3, <2>1, LeavesNo, Zenon
  <2> QED BY <2>2
<1>6. OnBoth(t)
  <2>1. {Set("block", Blocking), Set("trap", 2), Set("filePrivilege", 15)} \subseteq Of(cmds)
    <3> HIDE DEF Set
    <3> QED BY <1>1, BaseHas
  <2>2. Of(SshFixes) \cup Of(ServicesFix) \cup Of(ArchiveFix) \subseteq Of(cmds)
    BY <1>1
  <2>3. {"service-timestamps-log-datetime-localtime", "logging-buffered",
         "login-on-failure-log", "login-on-success-log", "logging-userinfo"} \subseteq t.lines
    BY <1>4
  <2> HIDE DEF Set
  <2> QED BY <1>2, <2>1, <2>2, <2>3, BothLeave, Zenon
<1>7. GlobalLines \subseteq t.lines
  BY <1>4 DEF GlobalLines
<1>8. Inventory.ntp \subseteq t.ntpServers /\ Inventory.syslog \subseteq t.syslog
  <2>1. /\ Add("ntpServers", Inventory.ntp) \in Of(cmds)
        /\ Add("syslog", Inventory.syslog) \in Of(cmds)
    <3> HIDE DEF Add
    <3> QED BY <1>1, NtpHas, FixesHave
  <2>2. /\ Add("ntpServers", Inventory.ntp) \in Entries
        /\ Add("syslog", Inventory.syslog) \in Entries
    BY DEF Entries
  <2>3. Inventory.ntp \subseteq t["ntpServers"] /\ Inventory.syslog \subseteq t["syslog"]
    <3> HIDE DEF Add, Entries, VlanCommands
    <3> QED BY <1>2, <2>1, <2>2, LeavesEntry
  <2> QED BY <2>3
<1>9. /\ "vtp" \in Inventory.secrets => t.vtp = "shown"
      /\ "snmp" \in Inventory.secrets => t.snmp = "sha-aes"
  <2>1. Set("vtp", "shown") \in Settings /\ Set("snmp", "sha-aes") \in Settings
    BY DEF Settings
  <2>2. /\ "vtp" \in Inventory.secrets => Set("vtp", "shown") \in Of(cmds)
        /\ "snmp" \in Inventory.secrets => Set("snmp", "sha-aes") \in Of(cmds)
    <3> HIDE DEF Set
    <3> QED BY <1>1, SecretHas
  <2>3. /\ "vtp" \in Inventory.secrets => t["vtp"] = "shown"
        /\ "snmp" \in Inventory.secrets => t["snmp"] = "sha-aes"
    <3> HIDE DEF Set, Settings
    <3> QED BY <1>2, <2>1, <2>2, LeavesSetting
  <2> QED BY <2>3
<1>10. "ntp" \in Inventory.secrets => Keyed(t)
  <2> HAVE "ntp" \in Inventory.secrets
  <2>1. {Add("ntpKeys", {1}), Lines({"ntp-authenticate"}), Add("ntpTrusted", {1}),
         Add("ntpUsed", {1})} \subseteq Of(cmds)
    <3> HIDE DEF Add, Lines
    <3> QED BY <1>1, NtpHas
  <2>2. {Add("ntpKeys", {1}), Add("ntpTrusted", {1}), Add("ntpUsed", {1})} \subseteq Entries
    BY DEF Entries
  <2>3. {1} \subseteq t["ntpKeys"] /\ {1} \subseteq t["ntpTrusted"] /\ {1} \subseteq t["ntpUsed"]
    <3> HIDE DEF Add, Entries, VlanCommands, Lines
    <3> QED BY <1>2, <2>1, <2>2, LeavesEntry
  <2>4. {"ntp-authenticate"} \subseteq t.lines
    <3>1. Lines({"ntp-authenticate"}) \in Of(cmds)
      BY <2>1
    <3> QED BY <1>2, <1>3, <3>1, LeavesLines, Zenon
  <2> QED BY <2>3, <2>4 DEF Keyed
<1>11. t.db = s.db => OnSnooping(t)
  <2> SUFFICES ASSUME HardenedUserVlans(s.db) # {}, t.db = s.db
               PROVE  "ip-dhcp-snooping" \in t.lines /\ HardenedUserVlans(s.db) \subseteq t.snoop
    BY DEF OnSnooping
  <2> DEFINE users == HardenedUserVlans(s.db)
  <2>1. Lines({"ip-dhcp-snooping"}) \in Of(cmds) /\ Add("snoop", users) \in Of(cmds)
    <3>1. {Lines({"ip-dhcp-snooping"}), Add("snoop", users)} \subseteq Of(SnoopingFix(s))
      BY SnoopingHas
    <3> HIDE DEF Add, Lines, users
    <3> QED BY <1>1, <3>1
  <2>2. Add("snoop", users) \in VlanCommands(s)
    BY DEF VlanCommands
  <2>3. users \subseteq t["snoop"]
    <3> HIDE DEF Add, Entries, VlanCommands, users
    <3> QED BY <1>2, <2>1, <2>2, LeavesEntry
  <2>4. {"ip-dhcp-snooping"} \subseteq t.lines
    BY <1>2, <1>3, <2>1, LeavesLines, Zenon
  <2> QED BY <2>3, <2>4
<1> QED BY <1>5, <1>6, <1>7, <1>8, <1>9, <1>10, <1>11 DEF OnGlobal

LEMMA FrontHas ==
  ASSUME NEW read
  PROVE  Of(LoggingFixes) \cup Of(SshFixes) \cup Of(ServicesFix) \cup Of(ArchiveFix)
           \cup Of(ConsoleFix) \subseteq Of(LoggingFront(read))
<1> DEFINE S == Tame(read)
           servers == IF Cardinality(Inventory.syslog) >= 2 THEN SyslogFix ELSE <<>>
<1>1. /\ LoggingFixes \in Seq(S) /\ SshFixes \in Seq(S) /\ ServicesFix \in Seq(S)
      /\ ArchiveFix \in Seq(S) /\ ConsoleFix \in Seq(S)
  BY LoggingSent
<1>2. SyslogFix \in Seq(S)
  BY ServersSent
<1> HIDE DEF S
<1>3. servers \in Seq(S)
  BY <1>2
<1>4. LoggingFront(read)
        = LoggingFixes \o SshFixes \o ServicesFix \o ArchiveFix \o servers \o ConsoleFix
  BY Zenon DEF LoggingFront
<1> HIDE DEF servers
<1> DEFINE w2 == LoggingFixes \o SshFixes
           w3 == w2 \o ServicesFix
           w4 == w3 \o ArchiveFix
           w5 == w4 \o servers
           w6 == w5 \o ConsoleFix
<1>5. LoggingFront(read) = w6
  BY <1>4, Zenon
<1>6. w2 \in Seq(S) /\ Of(LoggingFixes) \cup Of(SshFixes) \subseteq Of(w2)
  BY <1>1, OfJoined
<1> HIDE DEF w2
<1>7. w3 \in Seq(S) /\ Of(w2) \cup Of(ServicesFix) \subseteq Of(w3)
  BY <1>1, <1>6, OfJoined
<1> HIDE DEF w3
<1>8. w4 \in Seq(S) /\ Of(w3) \cup Of(ArchiveFix) \subseteq Of(w4)
  BY <1>1, <1>7, OfJoined
<1> HIDE DEF w4
<1>9. w5 \in Seq(S) /\ Of(w4) \subseteq Of(w5)
  BY <1>3, <1>8, OfJoined
<1> HIDE DEF w5
<1>10. Of(w5) \cup Of(ConsoleFix) \subseteq Of(w6)
  BY <1>1, <1>9, OfJoined
<1> HIDE DEF w6
<1>11. Of(LoggingFixes) \cup Of(SshFixes) \cup Of(ServicesFix) \cup Of(ArchiveFix)
         \cup Of(ConsoleFix) \subseteq Of(w6)
  BY <1>6, <1>7, <1>8, <1>9, <1>10
<1> QED BY <1>5, <1>11, Zenon

LEMMA TimeoutSent ==
  ASSUME NEW read
  PROVE  Vty(<<0, HighestVty(read)>>, "timeout", 5) \in Of(VtyFixes(HighestVty(read)))
<1> DEFINE h == HighestVty(read)
           a == Vty(<<0, h>>, "limit", TRUE)
           b == Vty(<<0, h>>, "timeout", 5)
           c == Vty(<<0, 4>>, "transport", "ssh")
           d == Vty(<<5, h>>, "transport", "none")
           q == <<a, b, c>>
           rest == IF h > 4 THEN <<d>> ELSE <<>>
           S == {a, b, c, d}
<1>1. VtyFixes(h) = q \o rest
  BY VtyFixesAre, Zenon
<1> HIDE DEF a, b, c, d, h
<1>2. q \in Seq(S) /\ rest \in Seq(S)
  <2>1. a \in S /\ b \in S /\ c \in S /\ d \in S
    OBVIOUS
  <2> HIDE DEF S
  <2>2. <<d>> \in Seq(S) /\ <<>> \in Seq(S) /\ q \in Seq(S)
    BY <2>1
  <2> QED BY <2>2, Zenon
<1>3. b \in Of(q)
  BY OfThree
<1> HIDE DEF q, rest, S
<1>4. Of(q) \subseteq Of(q \o rest)
  BY <1>2, OfJoined
<1>5. b \in Of(VtyFixes(h))
  BY <1>1, <1>3, <1>4
<1> QED BY <1>5 DEF b, h

LEMMA LoggingLeaves ==
  ASSUME NEW s, IsSwitch(s), NEW t, Whole(s, t, s, LoggingCommands(s)), Onward(s, t, s)
  PROVE  OnLogging(t)
<1> DEFINE cmds == LoggingCommands(s)
           h == HighestVty(s)
           front == LoggingFront(s)
           tail == VtyFixes(h)
           S == Tame(s) \cup TransportCommands(s)
<1>1. Of(front) \cup Of(tail) \subseteq Of(cmds)
  <2>1. front \in Seq(Tame(s)) /\ cmds = front \o tail /\ tail \in Seq(S)
    BY LoggingSplit, VtyFixesSent, Zenon
  <2> HIDE DEF front, tail, cmds, h
  <2>2. front \in Seq(S)
    BY <2>1
  <2> HIDE DEF S
  <2> QED BY <2>1, <2>2, OfJoined
<1>2. Of(LoggingFixes) \cup Of(SshFixes) \cup Of(ServicesFix) \cup Of(ArchiveFix)
        \cup Of(ConsoleFix) \subseteq Of(cmds)
  <2>1. Of(LoggingFixes) \cup Of(SshFixes) \cup Of(ServicesFix) \cup Of(ArchiveFix)
          \cup Of(ConsoleFix) \subseteq Of(front)
    BY FrontHas, Zenon
  <2> HIDE DEF cmds, front, tail
  <2> QED BY <1>1, <2>1
<1>3. Whole(s, t, s, cmds)
  OBVIOUS
<1>4. Vty(<<0, h>>, "timeout", 5) \in Of(cmds)
  <2>1. Vty(<<0, h>>, "timeout", 5) \in Of(tail)
    BY TimeoutSent
  <2> HIDE DEF cmds, front, tail, h, Vty
  <2> QED BY <1>1, <2>1
<1> HIDE DEF cmds, front, tail
<1> DEFINE logs == {"service-timestamps-log-datetime-localtime", "logging-buffered",
                    "login-on-failure-log", "login-on-success-log", "logging-userinfo"}
<1>5. logs \subseteq t.lines
  <2>1. logs \in SUBSET SentLines
    BY DEF SentLines
  <2>2. Lines(logs) \in Of(cmds)
    <3>1. Lines(logs) \in Of(LoggingFixes)
      BY LoggingHas, Zenon
    <3> HIDE DEF logs, Lines
    <3> QED BY <1>2, <3>1
  <2> HIDE DEF logs, Lines
  <2> QED BY <1>3, <2>1, <2>2, LeavesLines, Zenon
<1>6. OnBoth(t)
  <2>1. {Set("block", Blocking), Set("trap", 2), Set("filePrivilege", 15)} \subseteq Of(cmds)
    <3> HIDE DEF Set
    <3> QED BY <1>2, LoggingHas
  <2>2. Of(SshFixes) \cup Of(ServicesFix) \cup Of(ArchiveFix) \subseteq Of(cmds)
    BY <1>2
  <2> HIDE DEF Set
  <2> QED BY <1>3, <1>5, <2>1, <2>2, BothLeave, Zenon
<1>7. t.con = 5
  <2>1. Set("con", 5) \in Settings
    BY DEF Settings
  <2>2. Set("con", 5) \in Of(cmds)
    <3> HIDE DEF Set
    <3> QED BY <1>2, FixesHave
  <2>3. t["con"] = 5
    <3> HIDE DEF Set, Settings
    <3> QED BY <1>3, <2>1, <2>2, LeavesSetting
  <2> QED BY <2>3
<1>8. ASSUME t.vtyRead, NEW r \in DOMAIN t.vty
      PROVE  t.vty[r].timeout = 5
  <2>1. r \in DOMAIN s.vty /\ s.vtyRead
    BY <1>8 DEF Onward, VtyOnward, SameParts, Fixed
  <2>2. Within(r, <<0, h>>)
    <3>1. DOMAIN s.vty \in SUBSET (Nat \X Nat) /\ IsFiniteSet(DOMAIN s.vty) /\ DOMAIN s.vty # {}
      BY DEF IsSwitch, IsVty
    <3>2. \E n \in {q[2] : q \in DOMAIN s.vty} : \A q \in DOMAIN s.vty : q[2] <= n
      BY <3>1, SomeGoesHighest
    <3>3. h = CHOOSE n \in {q[2] : q \in DOMAIN s.vty} : \A q \in DOMAIN s.vty : q[2] <= n
      BY <2>1 DEF HighestVty
    <3> HIDE DEF h
    <3>4. r[2] <= h
      BY <2>1, <3>2, <3>3
    <3>5. r[1] \in Nat
      BY <2>1, <3>1
    <3> QED BY <3>4, <3>5 DEF Within
  <2>3. <<0, h>> \in Ranges(s)
    BY DEF Ranges
  <2> HIDE DEF h, Ranges, Within, Vty
  <2> QED BY <1>3, <1>4, <2>2, <2>3, LeavesTimeout
<1> QED BY <1>6, <1>7, <1>8 DEF OnLogging

LEMMA AaaLeaves ==
  ASSUME NEW s, NEW t, Whole(s, t, s, AaaCommands)
  PROVE  OnAaa(t)
<1> DEFINE a == Lines({"enable-secret"})
           b == Lines({"aaa-new-model"})
           c == Add("radius", Inventory.radius)
           d == Add("methods", {Method})
           e == Add("policies", {Policy})
           q == <<a, b, c, d, e>>
<1>1. AaaCommands = q
  BY Zenon DEF AaaCommands, Method, Policy
<1> HIDE DEF a, b, c, d, e
<1>2. {a, b, c, d, e} \subseteq Of(q)
  BY OfFive
<1> HIDE DEF q
<1>3. {a, b, c, d, e} \subseteq Of(AaaCommands)
  BY <1>1, <1>2, Zenon
<1>4. {"enable-secret"} \in SUBSET SentLines /\ {"aaa-new-model"} \in SUBSET SentLines
  BY DEF SentLines
<1>5. {"enable-secret"} \subseteq t.lines
  <2>1. Lines({"enable-secret"}) \in Of(AaaCommands)
    BY <1>3 DEF a
  <2> QED BY <1>4, <2>1, LeavesLines, Zenon
<1>6. {"aaa-new-model"} \subseteq t.lines
  <2>1. Lines({"aaa-new-model"}) \in Of(AaaCommands)
    BY <1>3 DEF b
  <2> QED BY <1>4, <2>1, LeavesLines, Zenon
<1>7. c \in Entries /\ d \in Entries /\ e \in Entries
  BY DEF Entries, c, d, e
<1>8. /\ Inventory.radius \subseteq t["radius"] /\ {Method} \subseteq t["methods"]
      /\ {Policy} \subseteq t["policies"]
  <2>1. c \in Of(AaaCommands) /\ d \in Of(AaaCommands) /\ e \in Of(AaaCommands)
    BY <1>3
  <2> HIDE DEF Entries, Add, VlanCommands, Method, Policy
  <2> QED BY <1>7, <2>1, LeavesEntry DEF c, d, e
<1> QED BY <1>5, <1>6, <1>8 DEF OnAaa

LEMMA DaiLeaves ==
  ASSUME NEW s, NEW t, Whole(s, t, s, DaiCommands(s)), t.db = s.db
  PROVE  OnDai(t)
<1> DEFINE users == HardenedUserVlans(s.db)
           a == Add("dai", users)
           q == <<a>>
<1>1. CASE users = {}
  BY <1>1 DEF OnDai
<1>2. CASE users # {}
  <2>1. DaiCommands(s) = q
    BY <1>2, Zenon DEF DaiCommands
  <2> HIDE DEF a
  <2>2. a \in Of(q)
    BY OfShort
  <2> HIDE DEF q
  <2>3. a \in Of(DaiCommands(s))
    BY <2>1, <2>2, Zenon
  <2>4. a \in VlanCommands(s)
    BY DEF VlanCommands, a
  <2>5. users \subseteq t["dai"]
    <3> HIDE DEF Entries, Add, VlanCommands, users
    <3> QED BY <2>3, <2>4, LeavesEntry DEF a
  <2> QED BY <2>5 DEF OnDai
<1> QED BY <1>1, <1>2
-----------------------------------------------------------------------------
(* What the scripts about ports leave behind.                                *)

LEMMA HoldsOf ==
  ASSUME NEW u, NEW w, Holds(u, w)
  PROVE  Of(u) \subseteq Of(w)
BY DEF Holds, Of

\* A block's own lines stand whatever its template has.
LEMMA OwnStands ==
  ASSUME NEW b, DOMAIN b = PortParts, NEW bodies
  PROVE  LET e == Expand(b, bodies)
         IN /\ b.lines \subseteq e.lines
            /\ b.vlan # NoVlan => e.vlan = b.vlan
            /\ b.native # NoVlan => e.native = b.native
            /\ b.allowed # AllowAll => e.allowed = b.allowed
<1> DEFINE e == Expand(b, bodies)
           y == bodies[b.source]
<1>1. CASE b.source \notin DOMAIN bodies
  <2>1. e = b
    BY <1>1 DEF Expand
  <2> QED BY <2>1
<1>2. CASE b.source \in DOMAIN bodies
  <2>1. SplicedWith(y, b, e)
    BY <1>2, ExpandSplices
  <2> HIDE DEF e, y
  <2>2. /\ b.lines \subseteq e.lines
        /\ b.vlan # NoVlan => e.vlan = b.vlan
        /\ b.native # NoVlan => e.native = b.native
        /\ b.allowed # AllowAll => e.allowed = b.allowed
    BY <2>1 DEF SplicedWith, Own
  <2> QED BY <2>2 DEF e
<1> QED BY <1>1, <1>2

\* A sequence some of whose commands may be left out.
Maybe(b, c) == IF b THEN <<c>> ELSE <<>>

LEMMA MaybeJoined ==
  ASSUME NEW S, NEW u \in Seq(S), NEW b, NEW c \in S
  PROVE  /\ u \o Maybe(b, c) \in Seq(S)
         /\ Of(u) \subseteq Of(u \o Maybe(b, c)) /\ (b => c \in Of(u \o Maybe(b, c)))
<1> DEFINE v == Maybe(b, c)
<1>1. v \in Seq(S) /\ (b => c \in Of(v))
  <2>1. <<c>> \in Seq(S) /\ <<>> \in Seq(S)
    OBVIOUS
  <2>2. c \in Of(<<c>>)
    BY OfShort
  <2> QED BY <2>1, <2>2, Zenon DEF Maybe
<1> HIDE DEF v
<1>2. u \o v \in Seq(S) /\ Of(u) \cup Of(v) \subseteq Of(u \o v)
  BY <1>1, OfJoined
<1> DEFINE w == u \o v
<1> HIDE DEF w
<1>3. w \in Seq(S) /\ Of(u) \cup Of(v) \subseteq Of(w)
  BY <1>2 DEF w
<1>4. w \in Seq(S) /\ Of(u) \subseteq Of(w) /\ (b => c \in Of(w))
  BY <1>1, <1>3
<1> QED BY <1>4, Zenon DEF w, v

LEMMA AccessHas ==
  ASSUME NEW read, NEW p \in AccessPorts(Sorted(read))
  PROVE  LET cmds == AccessOf(read)[p]
         IN /\ PortLines(p, {"portfast", "switchport-block-unicast"}) \in Of(cmds)
            /\ p \in ShutAccessPorts(Sorted(read)) /\ Inventory.unused # NoVlan
                 => OnPort(p, "vlan", Inventory.unused) \in Of(cmds)
            /\ p \notin FastPort => PortLines(p, {"storm-control"}) \in Of(cmds)
<1> DEFINE a == OnPort(p, "mode", "access")
           b == PortLines(p, {"portfast", "switchport-block-unicast"})
           c == OnPort(p, "vlan", Inventory.unused)
           d == PortLines(p, {"storm-control"})
           shut == p \in ShutAccessPorts(Sorted(read)) /\ Inventory.unused # NoVlan
           slow == p \notin FastPort
           q == <<a, b>>
           v == q \o Maybe(shut, c)
           w == v \o Maybe(slow, d)
           S == {a, b, c, d}
<1>1. AccessOf(read)[p] = w
  BY Zenon DEF AccessOf, Maybe
<1> HIDE DEF a, b, c, d, shut, slow
<1>2. q \in Seq(S) /\ b \in Of(q) /\ c \in S /\ d \in S
  <2>1. a \in S /\ b \in S /\ c \in S /\ d \in S
    OBVIOUS
  <2>2. Of(q) = {a, b}
    BY OfShort
  <2> HIDE DEF S
  <2>3. q \in Seq(S)
    BY <2>1
  <2> HIDE DEF q
  <2> QED BY <2>1, <2>2, <2>3
<1> HIDE DEF q, S
<1>3. v \in Seq(S) /\ Of(q) \subseteq Of(v) /\ (shut => c \in Of(v))
  BY <1>2, MaybeJoined, Zenon
<1> HIDE DEF v
<1>4. Of(v) \subseteq Of(w) /\ (slow => d \in Of(w))
  BY <1>2, <1>3, MaybeJoined, Zenon
<1> HIDE DEF w
<1>5. b \in Of(w) /\ (shut => c \in Of(w)) /\ (slow => d \in Of(w))
  BY <1>2, <1>3, <1>4, Zenon
<1> QED BY <1>1, <1>5, Zenon DEF b, c, d, shut, slow

LEMMA TrunkHas ==
  ASSUME NEW read, NEW p \in TrunkPorts(Sorted(read))
  PROVE  LET cmds == TrunkOf(read)[p]
         IN /\ PortLines(p, {"switchport-nonegotiate", "dhcp-snooping-trust",
                             "arp-inspection-trust"}) \in Of(cmds)
            /\ TrunkVlans(read.db) # {} => OnPort(p, "allowed", Pruning(read)) \in Of(cmds)
            /\ Inventory.native # NoVlan
                 => OnPort(p, "native", Inventory.native) \in Of(cmds)
            /\ p \notin read.root => PortLines(p, {"guard-root"}) \in Of(cmds)
<1> DEFINE a == PortLines(p, {"switchport-nonegotiate", "dhcp-snooping-trust",
                               "arp-inspection-trust"})
           b == OnPort(p, "allowed", Pruning(read))
           c == OnPort(p, "native", Inventory.native)
           d == PortLines(p, {"guard-root"})
           some == TrunkVlans(read.db) # {}
           named == Inventory.native # NoVlan
           guarded == p \notin read.root
           q == <<a>>
           u == q \o Maybe(some, b)
           v == u \o Maybe(named, c)
           w == v \o Maybe(guarded, d)
           S == {a, b, c, d}
<1>1. TrunkOf(read)[p] = w
  BY Zenon DEF TrunkOf, GuardOn, Maybe
<1> HIDE DEF a, b, c, d, some, named, guarded
<1>2. q \in Seq(S) /\ a \in Of(q) /\ b \in S /\ c \in S /\ d \in S
  <2>1. a \in S /\ b \in S /\ c \in S /\ d \in S
    OBVIOUS
  <2>2. a \in Of(q)
    BY OfShort
  <2> HIDE DEF S
  <2>3. q \in Seq(S)
    BY <2>1
  <2> QED BY <2>1, <2>2, <2>3
<1> HIDE DEF q, S
<1>3. u \in Seq(S) /\ Of(q) \subseteq Of(u) /\ (some => b \in Of(u))
  BY <1>2, MaybeJoined, Zenon
<1> HIDE DEF u
<1>4. v \in Seq(S) /\ Of(u) \subseteq Of(v) /\ (named => c \in Of(v))
  BY <1>2, <1>3, MaybeJoined, Zenon
<1> HIDE DEF v
<1>5. Of(v) \subseteq Of(w) /\ (guarded => d \in Of(w))
  BY <1>2, <1>4, MaybeJoined, Zenon
<1> HIDE DEF w
<1>6. /\ a \in Of(w) /\ (some => b \in Of(w)) /\ (named => c \in Of(w))
      /\ (guarded => d \in Of(w))
  BY <1>2, <1>3, <1>4, <1>5, Zenon
<1> QED BY <1>1, <1>6, Zenon DEF a, b, c, d, some, named, guarded

\* A whole push to the ports, s before it and t after it, c and d what is read of them.
Ported(s, t, c, d, cmds) ==
  /\ IsSwitch(s) /\ Whole(s, t, s, cmds) /\ Onward(s, t, s) /\ PortsGo(s, c, d)
  /\ c.root = s.root /\ d.root = s.root
  /\ d.ports = [p \in Port |-> Expand(t.ports[p], t.tmpl)]

LEMMA PortedStands ==
  ASSUME NEW s, NEW t, NEW c, NEW d, NEW cmds, Ported(s, t, c, d, cmds), NEW p \in Port
  PROVE  LET b == t.ports[p]
             e == d.ports[p]
         IN /\ b.lines \subseteq e.lines
            /\ b.vlan # NoVlan => e.vlan = b.vlan
            /\ b.native # NoVlan => e.native = b.native
            /\ b.allowed # AllowAll => e.allowed = b.allowed
<1>1. DOMAIN t.ports[p] = PortParts
  BY DEF Ported, Onward, Shaped
<1>2. d.ports[p] = Expand(t.ports[p], t.tmpl)
  BY DEF Ported
<1> QED BY <1>1, <1>2, OwnStands

LEMMA SameShut ==
  ASSUME NEW s, NEW c, NEW d, PortsGo(s, c, d)
  PROVE  ShutAccessPorts(d) = ShutAccessPorts(c)
<1>1. AccessPorts(d) = AccessPorts(c) /\ AccessPorts(c) \subseteq Port
  BY SamePopulations, PortsFinite
<1>2. \A p \in Port : d.ports[p].state = c.ports[p].state
  BY DEF PortsGo, PortOnward
<1> QED BY <1>1, <1>2 DEF ShutAccessPorts

LEMMA AccessLeaves ==
  ASSUME NEW s, NEW t, NEW c, NEW d, Ported(s, t, c, d, AccessCommands(s))
  PROVE  OnAccess(d)
<1> DEFINE cmds == AccessCommands(s)
<1>1. /\ Sorted(s) = c /\ AccessPorts(d) = AccessPorts(c) /\ AccessPorts(c) \subseteq Port
      /\ ShutAccessPorts(d) = ShutAccessPorts(c) /\ ShutAccessPorts(c) \subseteq AccessPorts(c)
  BY SamePopulations, SameShut, PortsFinite DEF Ported, PortsGo
<1>2. \A p \in AccessPorts(c) : Of(AccessOf(s)[p]) \subseteq Of(cmds)
  <2>1. \A p \in AccessPorts(Sorted(s)) :
          Holds(AccessOf(s)[p], EachOf(AccessPorts(Sorted(s)), AccessOf(s)))
    BY PortsFinite, AccessOfSent, EachHeld, Zenon
  <2> QED BY <1>1, <2>1, LoopsAreEach, HoldsOf, Zenon
<1>3. Whole(s, t, s, cmds)
  BY DEF Ported
<1> HIDE DEF cmds
<1>4. ASSUME NEW p \in AccessPorts(c)
      PROVE  /\ {"portfast", "switchport-block-unicast"} \subseteq d.ports[p].lines
             /\ p \notin FastPort => "storm-control" \in d.ports[p].lines
             /\ p \in ShutAccessPorts(c) /\ Inventory.unused # NoVlan
                  => d.ports[p].vlan = Inventory.unused
  <2> DEFINE both == {"portfast", "switchport-block-unicast"}
             storm == {"storm-control"}
  <2>1. p \in Port /\ Of(AccessOf(s)[p]) \subseteq Of(cmds)
    BY <1>1, <1>2
  <2>2. /\ PortLines(p, both) \in Of(cmds)
        /\ p \in ShutAccessPorts(c) /\ Inventory.unused # NoVlan
             => OnPort(p, "vlan", Inventory.unused) \in Of(cmds)
        /\ p \notin FastPort => PortLines(p, storm) \in Of(cmds)
    <3>1. /\ PortLines(p, both) \in Of(AccessOf(s)[p])
          /\ p \in ShutAccessPorts(c) /\ Inventory.unused # NoVlan
               => OnPort(p, "vlan", Inventory.unused) \in Of(AccessOf(s)[p])
          /\ p \notin FastPort => PortLines(p, storm) \in Of(AccessOf(s)[p])
      BY <1>1, AccessHas, Zenon
    <3> HIDE DEF both, storm, PortLines, OnPort
    <3> QED BY <2>1, <3>1
  <2>3. /\ both \subseteq t.ports[p].lines
        /\ p \notin FastPort => storm \subseteq t.ports[p].lines
    <3> HIDE DEF both, storm, PortLines, OnPort
    <3> QED BY <1>3, <2>1, <2>2, LeavesPortLines
  <2>4. p \in ShutAccessPorts(c) /\ Inventory.unused # NoVlan
          => t.ports[p].vlan = Inventory.unused
    <3>1. p \in ShutAccessPorts(c) /\ Inventory.unused # NoVlan
            => t.ports[p]["vlan"] = Inventory.unused
      <4> HIDE DEF PortLines, OnPort
      <4> QED BY <1>3, <2>1, <2>2, LeavesPortSet
    <3> QED BY <3>1
  <2>5. t.ports[p].lines \subseteq d.ports[p].lines
          /\ (t.ports[p].vlan # NoVlan => d.ports[p].vlan = t.ports[p].vlan)
    BY <2>1, PortedStands
  <2> QED BY <2>3, <2>4, <2>5
<1> QED BY <1>1, <1>4 DEF OnAccess

LEMMA TrunkLeaves ==
  ASSUME NEW s, NEW t, NEW c, NEW d, Ported(s, t, c, d, TrunkCommands(s))
  PROVE  OnTrunk(d) /\ (TrunkVlans(s.db) # {} => OnPruning(d))
<1> DEFINE cmds == TrunkCommands(s)
<1>1. /\ Sorted(s) = c /\ TrunkPorts(d) = TrunkPorts(c) /\ TrunkPorts(c) \subseteq Port
      /\ d.root = s.root
  BY SamePopulations, PortsFinite DEF Ported, PortsGo
<1>2. \A p \in TrunkPorts(c) : Of(TrunkOf(s)[p]) \subseteq Of(cmds)
  <2>1. \A p \in TrunkPorts(Sorted(s)) :
          Holds(TrunkOf(s)[p], EachOf(TrunkPorts(Sorted(s)), TrunkOf(s)))
    BY PortsFinite, TrunkOfSent, EachHeld, Zenon
  <2> QED BY <1>1, <2>1, LoopsAreEach, HoldsOf, Zenon
<1>3. Whole(s, t, s, cmds)
  BY DEF Ported
<1> HIDE DEF cmds
<1>4. Pruning(s) # AllowAll /\ Pruning(s).form = "only"
        /\ \A v \in {1} \cup Configured(Inventory.unused) : v \notin Pruning(s).vlans
  BY DEF Pruning, Allow, AllowAll, TrunkVlans, UserVlans
<1>5. ASSUME NEW p \in TrunkPorts(c)
      PROVE  /\ "switchport-nonegotiate" \in d.ports[p].lines
             /\ Inventory.native # NoVlan => d.ports[p].native = Inventory.native
             /\ p \notin s.root => "guard-root" \in d.ports[p].lines
             /\ TrunkVlans(s.db) # {} => d.ports[p].allowed = Pruning(s)
  <2> DEFINE lines == {"switchport-nonegotiate", "dhcp-snooping-trust", "arp-inspection-trust"}
             guard == {"guard-root"}
  <2>1. p \in Port /\ Of(TrunkOf(s)[p]) \subseteq Of(cmds)
    BY <1>1, <1>2
  <2>2. /\ PortLines(p, lines) \in Of(cmds)
        /\ TrunkVlans(s.db) # {} => OnPort(p, "allowed", Pruning(s)) \in Of(cmds)
        /\ Inventory.native # NoVlan => OnPort(p, "native", Inventory.native) \in Of(cmds)
        /\ p \notin s.root => PortLines(p, guard) \in Of(cmds)
    <3>1. /\ PortLines(p, lines) \in Of(TrunkOf(s)[p])
          /\ TrunkVlans(s.db) # {} => OnPort(p, "allowed", Pruning(s)) \in Of(TrunkOf(s)[p])
          /\ Inventory.native # NoVlan
               => OnPort(p, "native", Inventory.native) \in Of(TrunkOf(s)[p])
          /\ p \notin s.root => PortLines(p, guard) \in Of(TrunkOf(s)[p])
      BY <1>1, TrunkHas, Zenon
    <3> HIDE DEF lines, guard, PortLines, OnPort
    <3> QED BY <2>1, <3>1
  <2>3. /\ lines \subseteq t.ports[p].lines
        /\ p \notin s.root => guard \subseteq t.ports[p].lines
    <3> HIDE DEF lines, guard, PortLines, OnPort
    <3> QED BY <1>3, <2>1, <2>2, LeavesPortLines
  <2>4. /\ Inventory.native # NoVlan => t.ports[p]["native"] = Inventory.native
        /\ TrunkVlans(s.db) # {} => t.ports[p]["allowed"] = Pruning(s)
    <3> HIDE DEF PortLines, OnPort
    <3> QED BY <1>3, <2>1, <2>2, LeavesPortSet
  <2>5. /\ t.ports[p].lines \subseteq d.ports[p].lines
        /\ t.ports[p].native # NoVlan => d.ports[p].native = t.ports[p].native
        /\ t.ports[p].allowed # AllowAll => d.ports[p].allowed = t.ports[p].allowed
    BY <2>1, PortedStands
  <2> QED BY <1>4, <2>3, <2>4, <2>5
<1>6. OnTrunk(d)
  BY <1>1, <1>5 DEF OnTrunk
<1>7. TrunkVlans(s.db) # {} => OnPruning(d)
  BY <1>1, <1>4, <1>5 DEF OnPruning
<1> QED BY <1>6, <1>7

LEMMA SourceGuardLeaves ==
  ASSUME NEW s, NEW t, NEW c, NEW d, Ported(s, t, c, d, SourceGuardCommands(s))
  PROVE  OnSourceGuard(d)
<1> DEFINE cmds == SourceGuardCommands(s)
           line == "ip-verify-source"
<1>1. /\ Sorted(s) = c /\ AccessPorts(d) = AccessPorts(c) /\ AccessPorts(c) \subseteq Port
  BY SamePopulations, PortsFinite DEF Ported, PortsGo
<1>2. AccessPorts(c) \subseteq RawAccessPorts(s)
  <2> SUFFICES ASSUME NEW p \in AccessPorts(c)
               PROVE  p \in RawAccessPorts(s)
    OBVIOUS
  <2>1. p \in Port /\ c.ports[p].mode # "trunk"
    BY <1>1 DEF AccessPorts, TrunkPorts
  <2>2. c.ports[p] = Expand(s.ports[p], ReadTemplates(s))
    BY <1>1, <2>1, SortedPort DEF Ported
  <2>3. DOMAIN s.ports[p] = PortParts
    BY <2>1 DEF Ported, IsSwitch, IsBlock
  <2>4. s.ports[p].mode = "trunk" => c.ports[p].mode = "trunk"
    <3> DEFINE b == s.ports[p]
               R == ReadTemplates(s)
               e == Expand(b, R)
    <3>1. CASE b.source \notin DOMAIN R
      <4>1. e = b
        BY <3>1 DEF Expand
      <4> QED BY <2>2, <4>1
    <3>2. CASE b.source \in DOMAIN R
      <4>1. SplicedWith(R[b.source], b, e)
        BY <2>3, <3>2, ExpandSplices
      <4> HIDE DEF e, R, b
      <4>2. b.mode = "trunk" => e.mode = "trunk"
        BY <4>1 DEF SplicedWith
      <4> QED BY <2>2, <4>2 DEF e, R, b
    <3> QED BY <3>1, <3>2
  <2> QED BY <2>1, <2>4 DEF RawAccessPorts
<1>3. \A p \in RawAccessPorts(s) : Of(RawOf(s, line)[p]) \subseteq Of(cmds)
  <2>1. line \in RawLines
    BY DEF RawLines
  <2>2. \A p \in RawAccessPorts(s) :
          Holds(RawOf(s, line)[p], EachOf(RawAccessPorts(s), RawOf(s, line)))
    BY <2>1, PortsFinite, RawOfSent, EachHeld, Zenon
  <2> QED BY <2>2, LoopsAreEach, HoldsOf, Zenon
<1>4. Whole(s, t, s, cmds)
  BY DEF Ported
<1> HIDE DEF cmds
<1>5. ASSUME NEW p \in AccessPorts(c)
      PROVE  line \in d.ports[p].lines
  <2> DEFINE a == PortLines(p, {line})
             q == <<a>>
  <2>1. p \in Port /\ Of(RawOf(s, line)[p]) \subseteq Of(cmds)
    BY <1>1, <1>2, <1>3
  <2>2. RawOf(s, line)[p] = q
    BY <1>2, Zenon DEF RawOf
  <2>3. a \in Of(q)
    <3> HIDE DEF a
    <3> QED BY OfShort
  <2>4. a \in Of(cmds)
    <3> HIDE DEF a, q
    <3> QED BY <2>1, <2>2, <2>3
  <2>5. {line} \subseteq t.ports[p].lines
    BY <1>4, <2>1, <2>4, LeavesPortLines, Zenon
  <2>6. t.ports[p].lines \subseteq d.ports[p].lines
    BY <2>1, PortedStands
  <2> QED BY <2>5, <2>6
<1> QED BY <1>1, <1>5 DEF OnSourceGuard
-----------------------------------------------------------------------------
(* What was pushed whole stays there, whatever is pushed after it.             *)

LEMMA BothKept ==
  ASSUME NEW s, NEW t, NEW read, Onward(s, t, read), OnBoth(s)
  PROVE  OnBoth(t)
<1>1. LinesOnward(s, t) /\ SettingsOnward(s, t)
  BY DEF Onward
<1>2. BaseLines \cap Withdrawn = {}
  BY DEF BaseLines, Withdrawn, Archive, Services
<1>3. Services \cap (SentLines \cup {"ip-ssh-version-2"}) = {}
  BY DEF Services, SentLines, Archive
<1>4. BaseLines \subseteq t.lines /\ Services \cap t.lines = {}
  BY <1>1, <1>2, <1>3 DEF OnBoth, LinesOnward
<1>5. t.ssh # "1.99" /\ t.block = Blocking /\ t.trap = 2 /\ t.filePrivilege = 15
  BY <1>1 DEF OnBoth, SettingsOnward
<1> QED BY <1>4, <1>5 DEF OnBoth

\* A VLAN added to the database leaves the lists of VLANs behind.
LEMMA GlobalKept ==
  ASSUME NEW s, NEW t, NEW read, Onward(s, t, read), NEW parts, Global(parts, s)
  PROVE  Global(parts \ IF t.db # s.db THEN {"snooping", "dai"} ELSE {}, t)
<1>0. /\ LinesOnward(s, t) /\ SettingsOnward(s, t) /\ ListsOnward(s, t, read)
      /\ VtyOnward(s, t) /\ AclsOnward(s, t) /\ SameParts(s, t)
  BY Zenon DEF Onward
<1>1. OnGlobal(s) => OnGlobal(t)
  <2> SUFFICES ASSUME OnGlobal(s) PROVE OnGlobal(t)
    OBVIOUS
  <2>1. OnBoth(t)
    BY BothKept DEF OnGlobal
  <2>2. GlobalLines \cap Withdrawn = {} /\ "no-ip-igmp-snooping" \notin SentLines
    BY DEF GlobalLines, Withdrawn, Services, SentLines, Archive
  <2>3. GlobalLines \subseteq t.lines /\ "no-ip-igmp-snooping" \notin t.lines
    BY <1>0, <2>2 DEF OnGlobal, LinesOnward
  <2>4. /\ s.ntpServers \subseteq t.ntpServers /\ s.syslog \subseteq t.syslog
        /\ s.ntpKeys \subseteq t.ntpKeys /\ s.ntpTrusted \subseteq t.ntpTrusted
        /\ s.ntpUsed \subseteq t.ntpUsed
    BY <1>0, Zenon DEF ListsOnward, Grows
  <2>5. "ntp-authenticate" \in s.lines => "ntp-authenticate" \in t.lines
    BY <1>0 DEF LinesOnward, Withdrawn, Services
  <2>6. Keyed(s) => Keyed(t)
    BY <2>4, <2>5 DEF Keyed
  <2>7. (s.vtp = "shown" => t.vtp = "shown") /\ (s.snmp = "sha-aes" => t.snmp = "sha-aes")
    BY <1>0 DEF SettingsOnward
  <2> QED BY <2>1, <2>3, <2>4, <2>6, <2>7 DEF OnGlobal
<1>2. OnLogging(s) => OnLogging(t)
  <2> SUFFICES ASSUME OnLogging(s) PROVE OnLogging(t)
    OBVIOUS
  <2>1. OnBoth(t)
    BY BothKept DEF OnLogging
  <2>2. t.con = 5
    BY <1>0 DEF SettingsOnward, OnLogging
  <2>3. t.vtyRead => \A g \in DOMAIN t.vty : t.vty[g].timeout = 5
    BY <1>0 DEF SameParts, Fixed, VtyOnward, OnLogging
  <2> QED BY <2>1, <2>2, <2>3 DEF OnLogging
<1>3. OnAaa(s) => OnAaa(t)
  <2>1. s.radius \subseteq t.radius /\ s.methods \subseteq t.methods
          /\ s.policies \subseteq t.policies
    BY <1>0, Zenon DEF ListsOnward, Grows
  <2>2. \A line \in {"enable-secret", "aaa-new-model"} : line \in s.lines => line \in t.lines
    BY <1>0 DEF LinesOnward, Withdrawn, Services
  <2> QED BY <2>1, <2>2 DEF OnAaa
<1>4. OnAcl(s) => OnAcl(t)
  <2> SUFFICES ASSUME OnAcl(s) PROVE OnAcl(t)
    OBVIOUS
  <2>1. /\ "VTY_MGMT" \in DOMAIN t.acls /\ t.acls["VTY_MGMT"].logged
        /\ t.acls["VTY_MGMT"].sources # {}
    <3>1. CASE t.acls = s.acls
      BY <3>1 DEF OnAcl
    <3>2. CASE t.acls = Permitted(s.acls)
      BY <3>2 DEF Permitted, WithAcl
    <3> QED BY <1>0, <3>1, <3>2 DEF AclsOnward
  <2>2. \A g \in DOMAIN t.vty : Within(g, <<0, 4>>) => t.vty[g].acl = "VTY_MGMT"
    <3>1. DOMAIN t.vty = DOMAIN s.vty
            /\ \A g \in DOMAIN s.vty : t.vty[g].acl = s.vty[g].acl \/ t.vty[g].acl = "VTY_MGMT"
      BY <1>0 DEF VtyOnward
    <3> HIDE DEF Within
    <3> QED BY <3>1 DEF OnAcl
  <2> QED BY <2>1, <2>2 DEF OnAcl
<1>5. t.db = s.db => (OnSnooping(s) => OnSnooping(t)) /\ (OnDai(s) => OnDai(t))
  <2>1. s.snoop \subseteq t.snoop /\ s.dai \subseteq t.dai
    BY <1>0, Zenon DEF ListsOnward, Grows
  <2>2. "ip-dhcp-snooping" \in s.lines => "ip-dhcp-snooping" \in t.lines
    BY <1>0 DEF LinesOnward, Withdrawn, Services
  <2> QED BY <2>1, <2>2 DEF OnSnooping, OnDai
<1> DEFINE rest == parts \ IF t.db # s.db THEN {"snooping", "dai"} ELSE {}
<1>6. /\ rest \subseteq parts
      /\ "snooping" \in rest \/ "dai" \in rest => t.db = s.db
  OBVIOUS
<1> HIDE DEF rest
<1>7. Global(rest, t)
  BY <1>1, <1>2, <1>3, <1>4, <1>5, <1>6 DEF Global
<1> QED BY <1>7 DEF rest

LEMMA PortsKept ==
  ASSUME NEW s, NEW c, NEW d, PortsGo(s, c, d), d.root = c.root, NEW parts, OnPorts(parts, c)
  PROVE  OnPorts(parts, d)
<1> DEFINE A == AccessPorts(c)
           T == TrunkPorts(c)
           X == ShutAccessPorts(c)
<1>1. /\ AccessPorts(d) = A /\ TrunkPorts(d) = T /\ ShutAccessPorts(d) = X
      /\ A \subseteq Port /\ T \subseteq Port /\ X \subseteq Port
  BY SamePopulations, SameShut, PortsFinite DEF ShutAccessPorts
<1>2. ASSUME NEW p \in Port
      PROVE  /\ c.ports[p].lines \subseteq d.ports[p].lines
             /\ d.ports[p].vlan \in {c.ports[p].vlan, Inventory.unused}
             /\ d.ports[p].native \in {c.ports[p].native, Inventory.native}
             /\ d.ports[p].allowed \in {c.ports[p].allowed, Pruning(s)}
  BY DEF PortsGo, PortOnward, Grows
<1>3. Pruning(s).form = "only"
        /\ \A v \in {1} \cup Configured(Inventory.unused) : v \notin Pruning(s).vlans
  BY DEF Pruning, Allow, TrunkVlans, UserVlans
<1> HIDE DEF A, T, X
<1>4. OnAccess(c) => OnAccess(d)
  <2> SUFFICES ASSUME OnAccess(c) PROVE OnAccess(d)
    OBVIOUS
  <2>1. \A p \in A : /\ {"portfast", "switchport-block-unicast"} \subseteq c.ports[p].lines
                     /\ p \notin FastPort => "storm-control" \in c.ports[p].lines
    BY DEF OnAccess, A
  <2>2. Inventory.unused # NoVlan => \A p \in X : c.ports[p].vlan = Inventory.unused
    BY DEF OnAccess, X
  <2> QED BY <1>1, <1>2, <2>1, <2>2 DEF OnAccess
<1>5. OnTrunk(c) => OnTrunk(d)
  <2> SUFFICES ASSUME OnTrunk(c) PROVE OnTrunk(d)
    OBVIOUS
  <2>1. \A p \in T : /\ "switchport-nonegotiate" \in c.ports[p].lines
                     /\ Inventory.native # NoVlan => c.ports[p].native = Inventory.native
                     /\ p \notin c.root => "guard-root" \in c.ports[p].lines
    BY DEF OnTrunk, T
  <2> QED BY <1>1, <1>2, <2>1 DEF OnTrunk
<1>6. OnPruning(c) => OnPruning(d)
  <2> SUFFICES ASSUME OnPruning(c) PROVE OnPruning(d)
    OBVIOUS
  <2>1. \A p \in T, v \in {1} \cup Configured(Inventory.unused) :
          c.ports[p].allowed.form = "only" /\ v \notin c.ports[p].allowed.vlans
    BY DEF OnPruning, T
  <2>2. \A p \in T, v \in {1} \cup Configured(Inventory.unused) :
          d.ports[p].allowed.form = "only" /\ v \notin d.ports[p].allowed.vlans
    <3> TAKE p \in T, v \in {1} \cup Configured(Inventory.unused)
    <3>1. CASE d.ports[p].allowed = c.ports[p].allowed
      BY <2>1, <3>1
    <3>2. CASE d.ports[p].allowed = Pruning(s)
      BY <1>3, <3>2
    <3> QED BY <1>1, <1>2, <3>1, <3>2
  <2> QED BY <1>1, <2>2 DEF OnPruning
<1>7. OnSourceGuard(c) => OnSourceGuard(d)
  <2> SUFFICES ASSUME OnSourceGuard(c) PROVE OnSourceGuard(d)
    OBVIOUS
  <2>1. \A p \in A : "ip-verify-source" \in c.ports[p].lines
    BY DEF OnSourceGuard, A
  <2> QED BY <1>1, <1>2, <2>1 DEF OnSourceGuard
<1> QED BY <1>4, <1>5, <1>6, <1>7 DEF OnPorts

LEMMA PartsTogether ==
  ASSUME NEW a, NEW b, NEW s, NEW c
  PROVE  /\ Global({}, s) /\ OnPorts({}, c)
         /\ Global(a, s) /\ Global(b, s) => Global(a \cup b, s)
         /\ OnPorts(a, c) /\ OnPorts(b, c) => OnPorts(a \cup b, c)
         /\ b \subseteq a => (Global(a, s) => Global(b, s)) /\ (OnPorts(a, c) => OnPorts(b, c))
<1>1. Global({}, s) /\ OnPorts({}, c)
  BY DEF Global, OnPorts
<1>2. Global(a, s) /\ Global(b, s) => Global(a \cup b, s)
  BY DEF Global
<1>3. OnPorts(a, c) /\ OnPorts(b, c) => OnPorts(a \cup b, c)
  BY DEF OnPorts
<1>4. b \subseteq a => (Global(a, s) => Global(b, s)) /\ (OnPorts(a, c) => OnPorts(b, c))
  BY DEF Global, OnPorts
<1> QED BY <1>1, <1>2, <1>3, <1>4

\* What a whole push brings, while the switch is what the script read.
LEMMA WholePush ==
  ASSUME NEW s, IsSwitch(s), NEW k \in Scripts, NEW t, t = ApplyAll(s, Commands(k, s))
  PROVE  Whole(s, t, s, Commands(k, s)) /\ Onward(s, t, s)
<1>1. Shaped(s) /\ Commands(k, s) \in Seq(Sendable(s))
  BY SwitchShaped, CommandsSent
<1>2. Onward(s, t, s)
  BY <1>1, PushOnward
<1> QED BY <1>1, <1>2 DEF Whole

LEMMA FreshGlobal ==
  ASSUME NEW s, IsSwitch(s), NEW k \in Scripts, NEW t, t = ApplyAll(s, Commands(k, s))
  PROVE  Global(Parted(k, s) \ IF t.db # s.db THEN {"snooping", "dai"} ELSE {}, t)
<1> DEFINE rest == Parted(k, s) \ IF t.db # s.db THEN {"snooping", "dai"} ELSE {}
<1>1. Whole(s, t, s, Commands(k, s)) /\ Onward(s, t, s)
  BY WholePush
<1>2. k = "global" => OnGlobal(t) /\ (t.db = s.db => OnSnooping(t))
  <2> HAVE k = "global"
  <2>1. Commands(k, s) = GlobalCommands(s)
    BY DEF Commands
  <2> QED BY <1>1, <2>1, GlobalLeaves, Zenon
<1>3. k = "logging" => OnLogging(t)
  <2> HAVE k = "logging"
  <2>1. Commands(k, s) = LoggingCommands(s)
    BY DEF Commands
  <2> QED BY <1>1, <2>1, LoggingLeaves, Zenon
<1>4. k = "aaa" => OnAaa(t)
  <2> HAVE k = "aaa"
  <2>1. Commands(k, s) = AaaCommands
    BY DEF Commands
  <2> QED BY <1>1, <2>1, AaaLeaves, Zenon
<1>5. k = "acl" => OnAcl(t)
  <2> HAVE k = "acl"
  <2>1. Commands(k, s) = AclCommands
    BY DEF Commands
  <2> QED BY <1>1, <2>1, LeavesList, Zenon
<1>6. k = "dai" /\ t.db = s.db => OnDai(t)
  <2> HAVE k = "dai" /\ t.db = s.db
  <2>1. Commands(k, s) = DaiCommands(s)
    BY DEF Commands
  <2> QED BY <1>1, <2>1, DaiLeaves, Zenon
<1>7. /\ "global" \in rest => k = "global"
      /\ "logging" \in rest => k = "logging"
      /\ "aaa" \in rest => k = "aaa"
      /\ "acl" \in rest => k = "acl"
      /\ "snooping" \in rest => k = "global" /\ t.db = s.db
      /\ "dai" \in rest => k = "dai" /\ t.db = s.db
  BY DEF Parted, Scripts
<1> HIDE DEF rest
<1>8. Global(rest, t)
  BY <1>2, <1>3, <1>4, <1>5, <1>6, <1>7, Zenon DEF Global
<1> QED BY <1>8 DEF rest

LEMMA FreshPorts ==
  ASSUME NEW s, IsSwitch(s), Unread(s) = {}, NEW k \in Scripts,
         NEW t, t = ApplyAll(s, Commands(k, s))
  PROVE  OnPorts(Parted(k, s), Expanded(t, t.tmpl))
<1> DEFINE c == Expanded(s, s.tmpl)
           d == Expanded(t, t.tmpl)
<1>1. Whole(s, t, s, Commands(k, s)) /\ Onward(s, t, s)
  BY WholePush
<1>2. Ported(s, t, c, d, Commands(k, s))
  <2>1. PortsGo(s, c, d) /\ \A f \in Parts \ {"ports"} : c[f] = s[f] /\ d[f] = t[f]
    BY <1>1, PortsExpanded
  <2>2. DOMAIN t = Parts /\ t.root = s.root
    BY <1>1 DEF Onward, Shaped, SameParts, Fixed
  <2>3. d.ports = [p \in Port |-> Expand(t.ports[p], t.tmpl)]
    BY <2>2 DEF Expanded, Parts
  <2> HIDE DEF c, d
  <2>4. c.root = s.root /\ d.root = s.root
    BY <2>1, <2>2 DEF Parts
  <2> QED BY <1>1, <2>1, <2>3, <2>4, Zenon DEF Ported
<1> HIDE DEF c, d
<1>3. k = "access" => OnAccess(d)
  <2> HAVE k = "access"
  <2>1. Commands(k, s) = AccessCommands(s)
    BY DEF Commands
  <2> QED BY <1>2, <2>1, AccessLeaves, Zenon
<1>4. k = "trunk" => OnTrunk(d) /\ (TrunkVlans(s.db) # {} => OnPruning(d))
  <2> HAVE k = "trunk"
  <2>1. Commands(k, s) = TrunkCommands(s)
    BY DEF Commands
  <2> QED BY <1>2, <2>1, TrunkLeaves, Zenon
<1>5. k = "ipsg" => OnSourceGuard(d)
  <2> HAVE k = "ipsg"
  <2>1. Commands(k, s) = SourceGuardCommands(s)
    BY DEF Commands
  <2> QED BY <1>2, <2>1, SourceGuardLeaves, Zenon
<1> DEFINE parts == Parted(k, s)
<1>6. /\ "access" \in parts => k = "access"
      /\ "trunk" \in parts => k = "trunk"
      /\ "pruning" \in parts => k = "trunk" /\ TrunkVlans(s.db) # {}
      /\ "ipsg" \in parts => k = "ipsg"
  BY DEF Parted, Scripts
<1> HIDE DEF parts
<1>7. OnPorts(parts, d)
  BY <1>3, <1>4, <1>5, <1>6, Zenon DEF OnPorts
<1> QED BY <1>7 DEF parts, d
-----------------------------------------------------------------------------
(* What was pushed whole since anybody else touched the switch is on it.       *)

LEMMA DoneInit == Init => DoneKept
<1> SUFFICES ASSUME Init PROVE DoneKept
  OBVIOUS
<1>1. done = {} /\ snap = Nothing
  BY DEF Init
<1> QED BY <1>1, PartsTogether DEF DoneKept

LEMMA DonePushed ==
  ASSUME Inv, DoneKept, script \in Scripts, Sends \/ SessionLost
  PROVE  DoneKept'
<1> DEFINE less == IF sw'.db # sw.db THEN {"snooping", "dai"} ELSE {}
           c == Expanded(sw, sw.tmpl)
           d == Expanded(sw', sw'.tmpl)
<1>1. /\ snap # Nothing /\ snap' = Nothing
      /\ Onward(sw, sw', snap) /\ IsSwitch(sw)
  BY PushedOnward DEF Inv, TypeOK, Sends, SessionLost
<1>2. CASE snap # sw
  <2>1. done = {}
    BY <1>1, <1>2 DEF DoneKept
  <2>2. done' = {}
    BY <1>2, <2>1 DEF Sends, SessionLost
  <2> QED BY <1>1, <2>2, PartsTogether DEF DoneKept
<1>3. CASE snap = sw
  <2>1. Global(done \ less, sw')
    BY <1>1, <1>3, GlobalKept DEF DoneKept
  <2>2. Unread(sw') = {} => Unread(sw) = {}
    BY <1>1 DEF Unread, Onward, SameParts, Fixed, PortsOnward, PortOnward
  <2>3. Unread(sw) = {} => OnPorts(done, d)
    <3> SUFFICES ASSUME Unread(sw) = {} PROVE OnPorts(done, d)
      OBVIOUS
    <3>1. PortsGo(sw, c, d) /\ \A f \in Parts \ {"ports"} : c[f] = sw[f] /\ d[f] = sw'[f]
      BY <1>1, <1>3, PortsExpanded
    <3>2. OnPorts(done, c)
      BY DEF DoneKept
    <3>3. sw'.root = sw.root
      BY <1>1 DEF Onward, SameParts, Fixed
    <3> HIDE DEF c, d
    <3>4. d.root = c.root
      BY <3>1, <3>3 DEF Parts
    <3> QED BY <3>1, <3>2, <3>4, PortsKept
  <2>4. CASE Sends
    <3> DEFINE new == Parted(script, sw)
    <3>1. sw' = ApplyAll(sw, Commands(script, sw)) /\ done' = (done \cup new) \ less
      BY <1>3, <2>4, Zenon DEF Sends
    <3>2. Global(new \ less, sw')
      BY <1>1, <3>1, FreshGlobal
    <3>3. Unread(sw) = {} => OnPorts(new, d)
      BY <1>1, <3>1, FreshPorts
    <3> HIDE DEF new, less, d
    <3>4. done' = (done \ less) \cup (new \ less)
      BY <3>1
    <3>5. Global(done', sw')
      BY <2>1, <3>2, <3>4, PartsTogether, Zenon
    <3>6. Unread(sw') = {} => OnPorts(done', d)
      <4>1. done' \subseteq done \cup new
        BY <3>1
      <4>2. Unread(sw') = {} => OnPorts(done \cup new, d)
        BY <2>2, <2>3, <3>3, PartsTogether, Zenon
      <4> QED BY <4>1, <4>2, PartsTogether, Zenon
    <3> QED BY <1>1, <3>5, <3>6 DEF DoneKept, d
  <2>5. CASE SessionLost
    <3>1. done' = done \ less
      BY <2>5 DEF SessionLost
    <3> HIDE DEF less, d
    <3>2. done' \subseteq done
      BY <3>1
    <3>3. Unread(sw') = {} => OnPorts(done', d)
      BY <2>2, <2>3, <3>2, PartsTogether, Zenon
    <3>4. Global(done', sw')
      BY <2>1, <3>1
    <3> QED BY <1>1, <3>3, <3>4 DEF DoneKept, d
  <2> QED BY <2>4, <2>5
<1> QED BY <1>2, <1>3

LEMMA DoneNext == Inv /\ DoneKept /\ [Next]_vars => DoneKept'
<1> SUFFICES ASSUME Inv, DoneKept, [Next]_vars PROVE DoneKept'
  OBVIOUS
<1>1. CASE UNCHANGED <<sw, done>> /\ snap' \in {snap, sw, Nothing}
  BY <1>1 DEF DoneKept
<1>2. CASE Sends \/ SessionLost
  <2>1. script \in Scripts
    BY <1>2 DEF Sends, SessionLost
  <2> QED BY <1>2, <2>1, DonePushed
<1>3. CASE RootMoves \/ PortIsRebuilt \/ PortIsEnabled \/ VlanIsCreated
  <2>1. done' = {}
    BY <1>3 DEF RootMoves, PortIsRebuilt, PortIsEnabled, VlanIsCreated, Changes
  <2> QED BY <2>1, PartsTogether DEF DoneKept
<1>4. CASE (\E s \in Scripts : Reads(s)) \/ Discovers
  <2>1. UNCHANGED <<sw, done>> /\ snap' = sw
    BY <1>4 DEF Reads, Discovers
  <2> QED BY <1>1, <2>1
<1>5. CASE Judges \/ WritesChecklist \/ UNCHANGED vars
  <2>1. UNCHANGED <<sw, done>> /\ snap' \in {snap, Nothing}
    BY <1>5 DEF Judges, WritesChecklist, vars
  <2> QED BY <1>1, <2>1
<1> QED BY <1>2, <1>3, <1>4, <1>5 DEF Next
-----------------------------------------------------------------------------
(* What is on the switch passes, rule by rule.                               *)

LEMMA BothPass ==
  ASSUME NEW s, IsSwitch(s), OnBoth(s)
  PROVE  /\ \A r \in ArchiveRules \cup {"V-220578", "V-220580", "V-220599", "V-220612"} :
              Answer(r, s) = "PASS"
         /\ Answer("V-220576", s) = "PASS" /\ Answer("V-220586", s) = "PASS"
         /\ Answer("V-220600", s) = "PASS"
         /\ \A r \in {"V-220583", "V-220584", "V-220585"} : Answer(r, s) # "FAIL"
         /\ s.ssh # "disabled" => /\ Answer("V-220607", s) = "PASS"
                                  /\ Answer("V-220608", s) = "PASS"
<1> DEFINE R == ArchiveRules \cup {"V-220578", "V-220580", "V-220599", "V-220612"}
<1>1. ASSUME NEW r \in R
      PROVE  Answer(r, s) = "PASS"
  <2>1. Wanted(r) \subseteq BaseLines /\ r \in LineRules
    BY DEF Wanted, BaseLines, LineRules, ArchiveRules
  <2>2. Wanted(r) \subseteq s.lines
    BY <2>1 DEF OnBoth
  <2> QED BY <2>1, <2>2, AnswerInGroups, TruePasses, Zenon
<1>2. Answer("V-220576", s) = "PASS"
  <2>1. s.block = Blocking
    BY DEF OnBoth
  <2>2. LoginBlock(s) = "PASS"
    BY <2>1 DEF LoginBlock, PassIf, Blocking
  <2> QED BY <2>2, AnswerToOne
<1>3. Answer("V-220586", s) = "PASS"
  BY AnswerToOne DEF OnBoth, PassIf
<1>4. Answer("V-220600", s) = "PASS"
  <2>1. LoggingTrap(s) = "PASS"
    BY DEF LoggingTrap, PassIf, DefaultTrap, OnBoth
  <2> QED BY <2>1, AnswerToOne
<1>5. \A r \in {"V-220583", "V-220584", "V-220585"} : Answer(r, s) # "FAIL"
  <2>1. AuditInfo(s) # "FAIL"
    BY DEF AuditInfo, PassIf, OnBoth
  <2> QED BY <2>1, AnswerToOne
<1>6. s.ssh # "disabled" => Answer("V-220607", s) = "PASS" /\ Answer("V-220608", s) = "PASS"
  <2> HAVE s.ssh # "disabled"
  <2>1. s.ssh \in {"2.0", "other", "unread"}
    BY DEF IsSwitch, SshAnswers, OnBoth
  <2>2. {"ip-ssh-version-2", "ssh-macs", "ssh-ciphers"} \subseteq s.lines
    BY DEF OnBoth, BaseLines
  <2>3. SshAlgorithm(s, "ssh-macs") = "PASS" /\ SshAlgorithm(s, "ssh-ciphers") = "PASS"
    BY <2>1, <2>2 DEF SshAlgorithm, Sshv2, PassIf
  <2> QED BY <2>3, AnswerToOne
<1> QED BY <1>1, <1>2, <1>3, <1>4, <1>5, <1>6

\* A list that has as many as the inventory has enough.
LEMMA EnoughOf ==
  ASSUME NEW a, NEW b, IsFiniteSet(b), a \subseteq b, Cardinality(a) >= 2
  PROVE  Cardinality(b) >= 2
<1> DEFINE m == Cardinality(a)
           n == Cardinality(b)
<1>1. m \in Nat /\ n \in Nat /\ m <= n /\ m >= 2
  BY GrowsLonger
<1> HIDE DEF m, n
<1>2. n >= 2
  BY <1>1
<1> QED BY <1>2 DEF n

LEMMA GlobalPasses ==
  ASSUME NEW s, IsSwitch(s), OnGlobal(s)
  PROVE  /\ \A r \in {"V-220570", "V-220631", "V-220637", "V-220638"} : Answer(r, s) = "PASS"
         /\ Book = "ios" => Answer("V-220625", s) = "PASS"
         /\ Cardinality(Inventory.ntp) >= 2 => Answer("V-220601", s) = "PASS"
         /\ Cardinality(Inventory.syslog) >= 2 => Answer("V-220620", s) = "PASS"
         /\ "snmp" \in Inventory.secrets => /\ Answer("V-220604", s) = "PASS"
                                            /\ Answer("V-220605", s) = "PASS"
         /\ "vtp" \in Inventory.secrets => Answer("V-220624", s) = "PASS"
         /\ "ntp" \in Inventory.secrets => Answer("V-220554", s) = "PASS"
<1>0. GlobalLines \subseteq s.lines
  BY DEF OnGlobal
<1>1. Answer("V-220570", s) = "PASS" /\ Answer("V-220637", s) = "PASS"
  <2>1. SessionLimit(s) = "PASS"
    BY <1>0 DEF GlobalLines, SessionLimit, PassIf
  <2>2. PassIf("no-ip-igmp-snooping" \notin s.lines) = "PASS"
    BY DEF OnGlobal, PassIf
  <2> QED BY <2>1, <2>2, AnswerToOne
<1>2. ASSUME NEW r \in LineRules, Wanted(r) \subseteq GlobalLines
      PROVE  Answer(r, s) = "PASS"
  <2>1. Wanted(r) \subseteq s.lines
    BY <1>0, <1>2
  <2> QED BY <2>1, AnswerInGroups, TruePasses, Zenon
<1>3. /\ {"V-220631", "V-220638", "V-220625"} \subseteq LineRules
      /\ Wanted("V-220631") \subseteq GlobalLines /\ Wanted("V-220638") \subseteq GlobalLines
      /\ Book = "ios" => Wanted("V-220625") \subseteq GlobalLines
  BY DEF LineRules, Wanted, ArchiveRules, GlobalLines
<1>4. /\ Answer("V-220631", s) = "PASS" /\ Answer("V-220638", s) = "PASS"
      /\ Book = "ios" => Answer("V-220625", s) = "PASS"
  BY <1>2, <1>3
<1>5. /\ IsFiniteSet(s.syslog) /\ IsFiniteSet(s.ntpServers)
      /\ Inventory.ntp \subseteq s.ntpServers /\ Inventory.syslog \subseteq s.syslog
  BY SwitchCounts DEF OnGlobal
<1>6. Cardinality(Inventory.ntp) >= 2 => Answer("V-220601", s) = "PASS"
  <2>1. Cardinality(Inventory.ntp) >= 2 => Cardinality(s.ntpServers) >= 2
    BY <1>5, EnoughOf
  <2>2. Cardinality(s.ntpServers) >= 2 => NtpServers(s) = "PASS"
    BY TruePasses, Zenon DEF NtpServers
  <2> QED BY <2>1, <2>2, AnswerToOne
<1>7. Cardinality(Inventory.syslog) >= 2 => Answer("V-220620", s) = "PASS"
  <2>1. Cardinality(Inventory.syslog) >= 2 => Cardinality(s.syslog) >= 2
    BY <1>5, EnoughOf
  <2>2. Cardinality(s.syslog) >= 2 => Syslog(s) = "PASS"
    BY TruePasses, Zenon DEF Syslog
  <2> QED BY <2>1, <2>2, AnswerToOne
<1>8. /\ "snmp" \in Inventory.secrets =>
           Answer("V-220604", s) = "PASS" /\ Answer("V-220605", s) = "PASS"
      /\ "vtp" \in Inventory.secrets => Answer("V-220624", s) = "PASS"
  <2>1. "snmp" \in Inventory.secrets =>
          SnmpUser(s, {"sha", "sha-aes"}) = "PASS" /\ SnmpUser(s, {"sha-aes"}) = "PASS"
    BY DEF OnGlobal, SnmpUser, PassIf
  <2>2. "vtp" \in Inventory.secrets => VtpPassword(s) = "PASS"
    BY DEF OnGlobal, VtpPassword, PassIf
  <2> QED BY <2>1, <2>2, AnswerToOne
<1>9. "ntp" \in Inventory.secrets => Answer("V-220554", s) = "PASS"
  <2>1. "ntp" \in Inventory.secrets => NtpKey(s) = "PASS"
    BY DEF OnGlobal, Keyed, NtpKey, PassIf
  <2> QED BY <2>1, AnswerToOne
<1> QED BY <1>1, <1>4, <1>6, <1>7, <1>8, <1>9

LEMMA LoggingPasses ==
  ASSUME NEW s, IsSwitch(s), OnLogging(s), s.vtyRead
  PROVE  Answer("V-220596", s) = "PASS"
<1>1. s.con = 5 /\ DOMAIN s.vty # {} /\ \A g \in DOMAIN s.vty : s.vty[g].timeout = 5
  BY DEF OnLogging, IsSwitch, IsVty
<1>2. TimesOut(5)
  BY DEF TimesOut
<1>3. ExecTimeout(s) = "PASS"
  <2>1. TimesOut(s.con) /\ \A g \in DOMAIN s.vty : TimesOut(s.vty[g].timeout)
    BY <1>1, <1>2, Zenon
  <2> QED BY <1>1, <2>1, TruePasses, Zenon DEF ExecTimeout
<1> QED BY <1>3, AnswerToOne

LEMMA AaaPasses ==
  ASSUME NEW s, IsSwitch(s), OnAaa(s)
  PROVE  /\ Cardinality(s.policies) = 1 => \A r \in PolicyRules : Answer(r, s) = "PASS"
         /\ Cardinality(s.users) = 1 => Answer("V-220587", s) = "PASS"
         /\ Cardinality(Inventory.radius) >= 2 => Answer("V-220617", s) = "PASS"
<1>0. /\ "aaa-new-model" \in s.lines /\ Method \in s.methods /\ Policy \in s.policies
      /\ Inventory.radius \subseteq s.radius
      /\ IsFiniteSet(s.policies) /\ IsFiniteSet(s.radius)
  BY SwitchCounts DEF OnAaa
<1>1. ASSUME Cardinality(s.policies) = 1, NEW r \in PolicyRules
      PROVE  Answer(r, s) = "PASS"
  <2>1. {Policy} \subseteq s.policies /\ Cardinality({Policy}) = 1
    BY <1>0, FS_Singleton
  <2>2. s.policies = {Policy}
    BY <1>0, <1>1, <2>1, GrowsLonger
  <2>3. Policy.meets = PolicyRules
    BY DEF Policy
  <2>4. \A p \in s.policies : r \in p.meets
    BY <2>2, <2>3
  <2>5. PasswordPolicy(s, r) = "PASS"
    BY <1>0, <1>1, <2>4, TruePasses, Zenon DEF PasswordPolicy
  <2> QED BY <2>5, AnswerInGroups, Zenon
<1>2. ASSUME Cardinality(s.users) = 1
      PROVE  Answer("V-220587", s) = "PASS"
  <2>1. \E m \in s.methods : m.local
    BY <1>0 DEF Method
  <2>2. SingleAccount(s) = "PASS"
    BY <1>2, <2>1, TruePasses, Zenon DEF SingleAccount
  <2> QED BY <2>2, AnswerToOne
<1>3. ASSUME Cardinality(Inventory.radius) >= 2
      PROVE  Answer("V-220617", s) = "PASS"
  <2>1. Cardinality(s.radius) >= 2
    BY <1>0, <1>3, EnoughOf
  <2>2. \E m \in s.methods : m.group \in {"radius"} \cup s.groups
    BY <1>0 DEF Method
  <2>3. RadiusRedundancy(s) = "PASS"
    BY <1>0, <2>1, <2>2, TruePasses, Zenon DEF RadiusRedundancy
  <2> QED BY <2>3, AnswerToOne
<1> QED BY <1>1, <1>2, <1>3

LEMMA AclPasses ==
  ASSUME NEW s, IsSwitch(s), OnAcl(s), \A g \in DOMAIN s.vty : Within(g, <<0, 4>>)
  PROVE  /\ Answer("V-220581", s) = "PASS"
         /\ Inventory.subnet = "known" /\ s.acls["VTY_MGMT"].sources = {"inside"}
              => Answer("V-220575", s) = "PASS"
<1>1. DOMAIN s.vty # {} /\ \A g \in DOMAIN s.vty : ListOn(s, g) = "VTY_MGMT" /\ HasList(s, g)
  <2> HIDE DEF Within
  <2> QED BY DEF IsSwitch, IsVty, OnAcl, ListOn, HasList
<1>2. s.acls["VTY_MGMT"].logged /\ s.acls["VTY_MGMT"].sources # {}
  BY Zenon DEF OnAcl
<1>3. VtyAclLogs(s) = "PASS"
  <2>1. \A g \in DOMAIN s.vty : HasList(s, g) /\ s.acls[ListOn(s, g)].logged
    BY <1>1, <1>2, Zenon
  <2> QED BY <1>1, <2>1, TruePasses, Zenon DEF VtyAclLogs
<1>4. ASSUME Inventory.subnet = "known", s.acls["VTY_MGMT"].sources = {"inside"}
      PROVE  VtyAcl(s) = "PASS"
  <2>1. \A g \in DOMAIN s.vty : /\ HasList(s, g)
                                /\ s.acls[ListOn(s, g)].sources # {}
                                /\ s.acls[ListOn(s, g)].sources \subseteq {"inside"}
    BY <1>1, <1>2, <1>4, Zenon
  <2> QED BY <1>1, <1>4, <2>1, TruePasses, Zenon DEF VtyAcl
<1> QED BY <1>3, <1>4, AnswerToOne

LEMMA SnoopingPasses ==
  ASSUME NEW c, AuditedUserVlans(c.db) # {},
         AuditedUserVlans(c.db) \subseteq HardenedUserVlans(c.db)
  PROVE  /\ OnSnooping(c) => Answer("V-220633", c) = "PASS"
         /\ OnDai(c) => Answer("V-220635", c) = "PASS"
<1> DEFINE U == AuditedUserVlans(c.db)
           H == HardenedUserVlans(c.db)
<1>1. U # {} /\ U \subseteq H
  OBVIOUS
<1> HIDE DEF U, H
<1>2. OnSnooping(c) => "ip-dhcp-snooping" \in c.lines /\ c.snoop # {} /\ U \subseteq c.snoop
  BY <1>1 DEF OnSnooping, H
<1>3. OnDai(c) => c.dai # {} /\ U \subseteq c.dai
  BY <1>1 DEF OnDai, H
<1>4. OnSnooping(c) => DhcpSnooping(c) = "PASS"
  BY <1>1, <1>2, TruePasses, Zenon DEF DhcpSnooping, Covers, U
<1>5. OnDai(c) => Covers(c.dai, c) = "PASS"
  BY <1>1, <1>3, TruePasses, Zenon DEF Covers, U
<1> QED BY <1>4, <1>5, AnswerToOne

LEMMA PortsPass ==
  ASSUME NEW c
  PROVE  /\ OnAccess(c) /\ AccessPorts(c) # {} =>
              Answer("V-220632", c) = "PASS" /\ Answer("V-220636", c) = "PASS"
         /\ OnAccess(c) /\ AccessPorts(c) # {} /\ GlobalLines \subseteq c.lines =>
              Answer("V-220630", c) = "PASS"
         /\ OnSourceGuard(c) /\ AccessPorts(c) # {} => Answer("V-220634", c) = "PASS"
         /\ OnTrunk(c) => Answer("V-220629", c) = "PASS"
         /\ OnTrunk(c) /\ TrunkPorts(c) # {} => Answer("V-220640", c) = "PASS"
         /\ OnTrunk(c) /\ TrunkPorts(c) # {} /\ Inventory.native \notin {NoVlan, 1} =>
              Answer("V-220646", c) = "PASS"
         /\ OnPruning(c) /\ TrunkPorts(c) # {} => Answer("V-220643", c) = "PASS"
         /\ OnAccess(c) /\ OnPruning(c) /\ Inventory.unused # NoVlan
              /\ AuditedAsShut(c) = ShutAccessPorts(c) => Answer("V-220641", c) = "PASS"
         /\ GlobalLines \subseteq c.lines => Answer("V-220639", c) = "PASS"
<1> DEFINE A == AccessPorts(c)
           T == TrunkPorts(c)
<1>1. OnAccess(c) => \A p \in A : /\ {"portfast", "switchport-block-unicast"}
                                       \subseteq c.ports[p].lines
                                  /\ p \notin FastPort => "storm-control" \in c.ports[p].lines
  BY DEF OnAccess
<1>2. OnAccess(c) /\ A # {} => Answer("V-220632", c) = "PASS" /\ Answer("V-220636", c) = "PASS"
  <2> HIDE DEF A
  <2> QED BY <1>1, PassesOnPorts DEF A
<1>3. OnAccess(c) /\ A # {} /\ GlobalLines \subseteq c.lines => Answer("V-220630", c) = "PASS"
  <2> HAVE OnAccess(c) /\ A # {} /\ GlobalLines \subseteq c.lines
  <2>1. \A p \in A : BpduGuarded(c, c.ports[p])
    <3> HIDE DEF A
    <3> QED BY <1>1 DEF BpduGuarded, GlobalLines
  <2> QED BY <2>1, PassesOnPorts, Zenon
<1>4. OnSourceGuard(c) /\ A # {} => Answer("V-220634", c) = "PASS"
  BY PassesOnPorts DEF OnSourceGuard
<1>5. OnTrunk(c) => \A p \in T : /\ "switchport-nonegotiate" \in c.ports[p].lines
                                 /\ Inventory.native # NoVlan =>
                                      c.ports[p].native = Inventory.native
                                 /\ p \notin c.root => "guard-root" \in c.ports[p].lines
  BY DEF OnTrunk
<1>6. OnTrunk(c) => Answer("V-220629", c) = "PASS"
  <2>1. OnTrunk(c) => RootGuard(c) = "PASS"
    BY <1>5 DEF RootGuard, PassIf
  <2> QED BY <2>1, AnswerToOne
<1>7. /\ OnTrunk(c) /\ T # {} => Answer("V-220640", c) = "PASS"
      /\ OnTrunk(c) /\ T # {} /\ Inventory.native \notin {NoVlan, 1} =>
           Answer("V-220646", c) = "PASS"
  <2> HIDE DEF T
  <2> QED BY <1>5, PassesOnTrunks DEF T
<1>8. OnPruning(c) => \A p \in T, v \in {1} \cup Configured(Inventory.unused) :
                        Pruned(c.ports[p], v)
  BY Zenon DEF OnPruning, Pruned
<1>9. OnPruning(c) /\ T # {} => Answer("V-220643", c) = "PASS"
  <2>1. OnPruning(c) => \A p \in T : Pruned(c.ports[p], 1)
    BY <1>8
  <2> QED BY <2>1, PassesOnTrunks, Zenon
<1>10. OnAccess(c) /\ OnPruning(c) /\ Inventory.unused # NoVlan
         /\ AuditedAsShut(c) = ShutAccessPorts(c) => Answer("V-220641", c) = "PASS"
  <2> HAVE OnAccess(c) /\ OnPruning(c) /\ Inventory.unused # NoVlan
             /\ AuditedAsShut(c) = ShutAccessPorts(c)
  <2>1. \A p \in AuditedAsShut(c) : c.ports[p].vlan = Inventory.unused
    BY DEF OnAccess
  <2>2. Inventory.unused \in {1} \cup Configured(Inventory.unused)
    BY DEF Configured
  <2>3. \A p \in T : Pruned(c.ports[p], Inventory.unused)
    BY <1>8, <2>2, Zenon
  <2>4. DisabledPorts(c) = "PASS"
    BY <2>1, <2>3, TruePasses, Zenon DEF DisabledPorts
  <2> QED BY <2>4, AnswerToOne
<1>11. GlobalLines \subseteq c.lines => Answer("V-220639", c) = "PASS"
  <2>1. GlobalLines \subseteq c.lines => Udld(c) = "PASS"
    BY DEF Udld, PassIf, GlobalLines
  <2> QED BY <2>1, AnswerToOne
<1> QED BY <1>2, <1>3, <1>4, <1>6, <1>7, <1>9, <1>10, <1>11
-----------------------------------------------------------------------------
(* Hardened is hardened.                                                     *)

EitherRules == ArchiveRules \cup {"V-220576", "V-220578", "V-220580", "V-220583", "V-220584",
  "V-220585", "V-220586", "V-220599", "V-220600", "V-220607", "V-220608", "V-220612"}
GlobalOnly == {"V-220570", "V-220601", "V-220604", "V-220605", "V-220620", "V-220624",
  "V-220625", "V-220631", "V-220637", "V-220638", "V-220639", "V-220554"}

\* The pushes a rule is hardened by.
LEMMA NeedsAre ==
  ASSUME NEW r \in Checks, NEW needed \in HardenedBy[r]
  PROVE  \/ r \in EitherRules /\ needed \in {{"global"}, {"logging"}}
         \/ r \in GlobalOnly /\ needed = {"global"}
         \/ r = "V-220595" /\ needed = {"global", "aaa"}
         \/ r = "V-220596" /\ needed = {"logging"}
         \/ r \in PolicyRules \cup {"V-220587", "V-220617"} /\ needed = {"aaa"}
         \/ r \in {"V-220575", "V-220581"} /\ needed = {"acl"}
         \/ r \in {"V-220632", "V-220636"} /\ needed = {"access"}
         \/ r = "V-220630" /\ needed = {"global", "access"}
         \/ r = "V-220641" /\ needed = {"access", "pruning"}
         \/ r \in {"V-220629", "V-220640", "V-220646"} /\ needed = {"trunk"}
         \/ r = "V-220643" /\ needed = {"pruning"}
         \/ r = "V-220633" /\ needed = {"snooping"}
         \/ r = "V-220635" /\ needed = {"dai"}
         \/ r = "V-220634" /\ needed = {"ipsg"}
<1> DEFINE Is(groups) == needed \in groups
<1>1. Is(CASE r \in EitherRules -> {{"global"}, {"logging"}}
           [] r \in GlobalOnly -> {{"global"}}
           [] r = "V-220595" -> {{"global", "aaa"}}
           [] r = "V-220596" -> {{"logging"}}
           [] r \in PolicyRules \cup {"V-220587", "V-220617"} -> {{"aaa"}}
           [] r \in {"V-220575", "V-220581"} -> {{"acl"}}
           [] r \in {"V-220632", "V-220636"} -> {{"access"}}
           [] r = "V-220630" -> {{"global", "access"}}
           [] r = "V-220641" -> {{"access", "pruning"}}
           [] r \in {"V-220629", "V-220640", "V-220646"} -> {{"trunk"}}
           [] r = "V-220643" -> {{"pruning"}}
           [] r = "V-220633" -> {{"snooping"}}
           [] r = "V-220635" -> {{"dai"}}
           [] r = "V-220634" -> {{"ipsg"}}
           [] OTHER -> {})
  BY Zenon DEF HardenedBy, EitherRules, GlobalOnly
<1> HIDE DEF EitherRules, GlobalOnly, PolicyRules
<1> QED BY <1>1

\* What is left to the switch and to the inventory.
LEMMA ReachIs ==
  ASSUME NEW c, NEW r, WithinReach(r, c)
  PROVE  /\ r \in PolicyRules => Cardinality(sw.policies) = 1
         /\ r = "V-220587" => Cardinality(sw.users) = 1
         /\ r \in {"V-220607", "V-220608"} => sw.ssh # "disabled"
         /\ r = "V-220575" => /\ Inventory.subnet = "known" /\ OnlyLinesToFour
                              /\ sw.acls["VTY_MGMT"].sources = {"inside"}
         /\ r = "V-220581" => OnlyLinesToFour
         /\ r = "V-220596" => sw.vtyRead
         /\ r = "V-220601" => Cardinality(Inventory.ntp) >= 2
         /\ r = "V-220617" => Cardinality(Inventory.radius) >= 2
         /\ r = "V-220620" => Cardinality(Inventory.syslog) >= 2
         /\ r \in {"V-220604", "V-220605"} => "snmp" \in Inventory.secrets
         /\ r = "V-220624" => "vtp" \in Inventory.secrets
         /\ r = "V-220554" => "ntp" \in Inventory.secrets
         /\ r \in {"V-220633", "V-220635"} =>
              /\ AuditedUserVlans(sw.db) # {}
              /\ AuditedUserVlans(sw.db) \subseteq HardenedUserVlans(sw.db)
         /\ r \in {"V-220630", "V-220632", "V-220634", "V-220636"} => AccessPorts(c) # {}
         /\ r \in {"V-220640", "V-220643", "V-220646"} => TrunkPorts(c) # {}
         /\ r = "V-220646" => Inventory.native \notin {NoVlan, 1}
         /\ r = "V-220641" => Inventory.unused # NoVlan /\ AuditedAsShut(c) = ShutAccessPorts(c)
<1> USE DEF WithinReach, PolicyRules
<1>1. r \in PolicyRules => Cardinality(sw.policies) = 1
  OBVIOUS
<1>2. /\ r = "V-220587" => Cardinality(sw.users) = 1
      /\ r \in {"V-220607", "V-220608"} => sw.ssh # "disabled"
  OBVIOUS
<1>3. /\ r = "V-220575" => /\ Inventory.subnet = "known" /\ OnlyLinesToFour
                           /\ sw.acls["VTY_MGMT"].sources = {"inside"}
      /\ r = "V-220581" => OnlyLinesToFour
  OBVIOUS
<1>4. /\ r = "V-220596" => sw.vtyRead
      /\ r = "V-220601" => Cardinality(Inventory.ntp) >= 2
      /\ r = "V-220617" => Cardinality(Inventory.radius) >= 2
      /\ r = "V-220620" => Cardinality(Inventory.syslog) >= 2
  OBVIOUS
<1>5. /\ r \in {"V-220604", "V-220605"} => "snmp" \in Inventory.secrets
      /\ r = "V-220624" => "vtp" \in Inventory.secrets
      /\ r = "V-220554" => "ntp" \in Inventory.secrets
  OBVIOUS
<1>6. r \in {"V-220633", "V-220635"} =>
        /\ AuditedUserVlans(sw.db) # {}
        /\ AuditedUserVlans(sw.db) \subseteq HardenedUserVlans(sw.db)
  OBVIOUS
<1>7. /\ r \in {"V-220630", "V-220632", "V-220634", "V-220636"} => AccessPorts(c) # {}
      /\ r \in {"V-220640", "V-220643", "V-220646"} => TrunkPorts(c) # {}
      /\ r = "V-220646" => Inventory.native \notin {NoVlan, 1}
  OBVIOUS
<1>8. r = "V-220641" => Inventory.unused # NoVlan /\ AuditedAsShut(c) = ShutAccessPorts(c)
  OBVIOUS
<1> HIDE DEF WithinReach, PolicyRules
<1> QED BY <1>1, <1>2, <1>3, <1>4, <1>5, <1>6, <1>7, <1>8, Zenon

LEMMA PushedPasses ==
  ASSUME IsSwitch(sw), NEW c, \A f \in Parts \ {"ports"} : c[f] = sw[f],
         Global(done, sw), OnPorts(done, c),
         NEW r \in Checks, NEW needed \in HardenedBy[r], needed \subseteq done, WithinReach(r, c)
  PROVE  Answer(r, c) # "FAIL"
<1>1. r \notin OfPorts => Answer(r, c) = Answer(r, sw)
  BY SameAnswer
<1>2. c.lines = sw.lines /\ c.db = sw.db /\ c.snoop = sw.snoop /\ c.dai = sw.dai
  BY DEF Parts
<1>3. /\ "global" \in done => OnGlobal(sw) /\ GlobalLines \subseteq c.lines
      /\ "snooping" \in done => OnSnooping(c)
      /\ "dai" \in done => OnDai(c)
  BY <1>2 DEF Global, OnGlobal, OnSnooping, OnDai
<1>4. ASSUME r \in EitherRules, needed \in {{"global"}, {"logging"}}
      PROVE  Answer(r, c) # "FAIL"
  <2>1. OnBoth(sw)
    BY <1>4 DEF Global, OnGlobal, OnLogging
  <2>2. r \notin OfPorts
    BY <1>4 DEF EitherRules, ArchiveRules, OfPorts
  <2>3. r \in {"V-220607", "V-220608"} => sw.ssh # "disabled"
    BY ReachIs, Zenon
  <2>4. Answer(r, sw) # "FAIL"
    BY <1>4, <2>1, <2>3, BothPass DEF EitherRules
  <2> QED BY <1>1, <2>2, <2>4
<1>5. ASSUME r \in GlobalOnly, needed = {"global"}
      PROVE  Answer(r, c) # "FAIL"
  <2>1. OnGlobal(sw) /\ GlobalLines \subseteq c.lines
    BY <1>3, <1>5
  <2>2. CASE r = "V-220639"
    BY <2>1, <2>2, PortsPass
  <2>3. CASE r # "V-220639"
    <3>1. r \notin OfPorts
      BY <1>5, <2>3 DEF GlobalOnly, OfPorts
    <3>2. r = "V-220625" => Book = "ios"
      BY DEF Checks, XeOnly, IosOnly
    <3>3. Answer(r, sw) = "PASS"
      BY <1>5, <2>1, <2>3, <3>2, GlobalPasses, ReachIs DEF GlobalOnly
    <3> QED BY <1>1, <3>1, <3>3
  <2> QED BY <2>2, <2>3
<1>6. ASSUME r = "V-220595", needed = {"global", "aaa"}
      PROVE  Answer(r, c) # "FAIL"
  <2>1. OnGlobal(sw) /\ OnAaa(sw)
    BY <1>6 DEF Global
  <2>2. r \in LineRules /\ Wanted(r) \subseteq c.lines
    BY <1>2, <1>6, <2>1 DEF LineRules, ArchiveRules, Wanted, OnGlobal, GlobalLines, OnAaa
  <2>3. Answer(r, c) = "PASS"
    BY <2>2, AnswerInGroups, TruePasses, Zenon
  <2> QED BY <2>3
<1>7. ASSUME r = "V-220596", needed = {"logging"}
      PROVE  Answer(r, c) # "FAIL"
  <2>1. OnLogging(sw) /\ sw.vtyRead
    BY <1>7, ReachIs DEF Global
  <2>2. r \notin OfPorts
    BY <1>7 DEF OfPorts
  <2> QED BY <1>1, <1>7, <2>1, <2>2, LoggingPasses
<1>8. ASSUME r \in PolicyRules \cup {"V-220587", "V-220617"}, needed = {"aaa"}
      PROVE  Answer(r, c) # "FAIL"
  <2>1. OnAaa(sw)
    BY <1>8 DEF Global
  <2>2. r \notin OfPorts
    BY <1>8 DEF OfPorts, PolicyRules
  <2>3. Answer(r, sw) = "PASS"
    BY <1>8, <2>1, AaaPasses, ReachIs
  <2> QED BY <1>1, <2>2, <2>3
<1>9. ASSUME r \in {"V-220575", "V-220581"}, needed = {"acl"}
      PROVE  Answer(r, c) # "FAIL"
  <2>1. OnAcl(sw)
    BY <1>9 DEF Global
  <2>2. /\ \A g \in DOMAIN sw.vty : Within(g, <<0, 4>>)
        /\ r = "V-220575" => /\ Inventory.subnet = "known"
                             /\ sw.acls["VTY_MGMT"].sources = {"inside"}
    BY <1>9, ReachIs DEF OnlyLinesToFour
  <2>3. r \notin OfPorts
    BY <1>9 DEF OfPorts
  <2>4. Answer(r, sw) = "PASS"
    <3> HIDE DEF Within
    <3> QED BY <1>9, <2>1, <2>2, AclPasses
  <2> QED BY <1>1, <2>3, <2>4
<1>10. ASSUME r \in {"V-220632", "V-220636"}, needed = {"access"}
       PROVE  Answer(r, c) # "FAIL"
  BY <1>10, PortsPass, ReachIs DEF OnPorts
<1>11. ASSUME r = "V-220630", needed = {"global", "access"}
       PROVE  Answer(r, c) # "FAIL"
  BY <1>3, <1>11, PortsPass, ReachIs DEF OnPorts
<1>12. ASSUME r = "V-220641", needed = {"access", "pruning"}
       PROVE  Answer(r, c) # "FAIL"
  BY <1>12, PortsPass, ReachIs DEF OnPorts
<1>13. ASSUME r \in {"V-220629", "V-220640", "V-220646"}, needed = {"trunk"}
       PROVE  Answer(r, c) # "FAIL"
  BY <1>13, PortsPass, ReachIs DEF OnPorts
<1>14. ASSUME r = "V-220643", needed = {"pruning"}
       PROVE  Answer(r, c) # "FAIL"
  BY <1>14, PortsPass, ReachIs DEF OnPorts
<1>15. ASSUME \/ r = "V-220633" /\ needed = {"snooping"}
              \/ r = "V-220635" /\ needed = {"dai"}
       PROVE  Answer(r, c) # "FAIL"
  <2>1. /\ AuditedUserVlans(c.db) # {}
        /\ AuditedUserVlans(c.db) \subseteq HardenedUserVlans(c.db)
    BY <1>2, <1>15, ReachIs
  <2>2. \/ r = "V-220633" /\ OnSnooping(c)
        \/ r = "V-220635" /\ OnDai(c)
    BY <1>3, <1>15
  <2>3. Answer(r, c) = "PASS"
    BY <2>1, <2>2, SnoopingPasses
  <2> QED BY <2>3
<1>16. ASSUME r = "V-220634", needed = {"ipsg"}
       PROVE  Answer(r, c) # "FAIL"
  BY <1>16, PortsPass, ReachIs DEF OnPorts
<1>17. \/ r \in EitherRules /\ needed \in {{"global"}, {"logging"}}
       \/ r \in GlobalOnly /\ needed = {"global"}
       \/ r = "V-220595" /\ needed = {"global", "aaa"}
       \/ r = "V-220596" /\ needed = {"logging"}
       \/ r \in PolicyRules \cup {"V-220587", "V-220617"} /\ needed = {"aaa"}
       \/ r \in {"V-220575", "V-220581"} /\ needed = {"acl"}
       \/ r \in {"V-220632", "V-220636"} /\ needed = {"access"}
       \/ r = "V-220630" /\ needed = {"global", "access"}
       \/ r = "V-220641" /\ needed = {"access", "pruning"}
       \/ r \in {"V-220629", "V-220640", "V-220646"} /\ needed = {"trunk"}
       \/ r = "V-220643" /\ needed = {"pruning"}
       \/ r = "V-220633" /\ needed = {"snooping"}
       \/ r = "V-220635" /\ needed = {"dai"}
       \/ r = "V-220634" /\ needed = {"ipsg"}
  BY NeedsAre
<1> QED BY <1>4, <1>5, <1>6, <1>7, <1>8, <1>9, <1>10, <1>11, <1>12, <1>13, <1>14, <1>15,
           <1>16, <1>17

(* Once the scripts a rule is hardened by were pushed whole, and nobody else has   *)
(* touched the switch, the audit passes the rule, as far as it is within reach,    *)
(* whatever else was pushed before or after, whole or cut short anywhere.          *)
THEOREM HardenedIsHardened == Spec => []HardenedPasses
<1>1. Inv /\ DoneKept => HardenedPasses
  <2> SUFFICES ASSUME Inv, DoneKept, Unread(sw) = {}, NEW r \in Checks,
                      NEW needed \in HardenedBy[r], needed \subseteq done,
                      WithinReach(r, Expanded(sw, sw.tmpl))
               PROVE  Answer(r, Expanded(sw, sw.tmpl)) # "FAIL"
    BY Zenon DEF HardenedPasses
  <2> DEFINE c == Expanded(sw, sw.tmpl)
  <2>1. IsSwitch(sw)
    BY DEF Inv, TypeOK
  <2>2. \A f \in Parts \ {"ports"} : c[f] = sw[f]
    BY <2>1 DEF Expanded, IsSwitch
  <2>3. Global(done, sw) /\ OnPorts(done, c)
    BY Zenon DEF DoneKept
  <2> HIDE DEF c
  <2>4. WithinReach(r, c)
    BY DEF c
  <2>5. Answer(r, c) # "FAIL"
    BY <2>1, <2>2, <2>3, <2>4, PushedPasses, Zenon
  <2> QED BY <2>5 DEF c
<1>2. Inv /\ DoneKept /\ [Next]_vars => Inv' /\ DoneKept'
  BY InvNext, DoneNext
<1>3. Init => Inv /\ DoneKept
  BY InvInit, DoneInit
<1> QED BY <1>1, <1>2, <1>3, PTL DEF Spec
====
