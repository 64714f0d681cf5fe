----------------------------- MODULE LabProofs -----------------------------
(***************************************************************************)
(* Proofs about Lab for any topologies, faults and hands: its types, that   *)
(* no run creates a node, a link or a key that is there, that adapters      *)
(* change on stopped nodes and before the links that need them, that every  *)
(* unnamed node is owed to a failure, that a device said to be saved boots  *)
(* with a whole version of its configuration, and that a build whose last   *)
(* check passes has built what its file declares.                           *)
(***************************************************************************)
EXTENDS Lab, TLAPS, FiniteSetTheorems

(* What is ever found in a configuration or on the container's disk.        *)
Typeable == UNION {Lines(t, d) : t \in Topologies, d \in Names}
HostItems == {"interfaces", "start", "key", "sshd", "git", "repo", "packages", "addresses"}
Content == Typeable \union HostItems \union {"aaa", "damage"}

NodeSet ==
  [name : Names \union {Stray}, status : {"started", "stopped"}, adapters : Nat,
   running : SUBSET Content, startup : SUBSET Content, keys : Nat,
   console : Prompts \union {"boot"}]
RecordSet == [id : Nat, status : {"started", "stopped"}, adapters : Nat]

(* The types in parts: the server, the records a run holds, the rest.       *)
ServerTyped ==
  /\ project \in {"absent", "closed", "opened"}
  /\ node \in Seq(NodeSet)
  /\ link \in Seq(SUBSET (Nat \X Nat))
  /\ \A j \in DOMAIN link : link[j] \subseteq (DOMAIN node) \X Nat
RecordsTyped ==
  /\ rec \in [DOMAIN rec -> RecordSet]
  /\ DOMAIN rec \subseteq Names \union {Stray}
  /\ \A name \in DOMAIN rec : rec[name].id \in DOMAIN node
ProcessTyped ==
  /\ topo \in Topologies
  /\ mode \in {"build", "verify", "only", "failover"} /\ at \in Phases /\ k \in Nat \ {0}
  /\ only \subseteq {topo.devices[i] : i \in DOMAIN topo.devices} /\ failures \in BOOLEAN
  /\ assumed \subseteq Provided
CountsTyped ==
  runs \in 0 .. MaxRuns /\ faults \in 0 .. MaxFaults /\ hands \in 0 .. MaxHands

(* What a call does to one node leaves its name, and what it does to its    *)
(* adapters is told apart: `kept' is every step but a creation, a renaming  *)
(* and a change of adapters.                                                *)
Kept ==
  /\ node' \in Seq(NodeSet) /\ Len(node') = Len(node)
  /\ \A i \in DOMAIN node :
       /\ node'[i].name = node[i].name /\ node'[i].adapters = node[i].adapters
       /\ node[i].keys <= 1 => node'[i].keys <= 1

LEMMA NodeChanged ==
  ASSUME ServerTyped, NEW i, NEW n,
         i \in DOMAIN node => n \in NodeSet /\ n.name = node[i].name
                              /\ n.adapters = node[i].adapters
                              /\ (node[i].keys <= 1 => n.keys <= 1),
         node' = [node EXCEPT ![i] = n]
  PROVE  Kept
<1>1. node \in Seq(NodeSet)
  BY DEF ServerTyped
<1>2. CASE i \in DOMAIN node
  BY <1>1, <1>2 DEF Kept
<1>3. CASE i \notin DOMAIN node
  <2>1. node' = node
    BY <1>1, <1>3
  <2> QED BY <1>1, <2>1 DEF Kept
<1> QED BY <1>2, <1>3

LEMMA NodeUnchanged ==
  ASSUME ServerTyped, UNCHANGED node
  PROVE  Kept
BY DEF Kept, ServerTyped

(* Power, on and off, of a node of any state.                               *)
LEMMA PowerKeeps ==
  ASSUME NEW n \in NodeSet
  PROVE  /\ Started(n) \in NodeSet /\ Started(n).name = n.name
         /\ Started(n).adapters = n.adapters /\ Started(n).keys = n.keys
         /\ Stopped(n) \in NodeSet /\ Stopped(n).name = n.name
         /\ Stopped(n).adapters = n.adapters /\ Stopped(n).keys = n.keys
         /\ Stopped(n).status = "stopped"
         /\ Damaged(n) \in NodeSet /\ Damaged(n).name = n.name
         /\ Damaged(n).adapters = n.adapters /\ Damaged(n).keys = n.keys
         /\ Damaged(n).status = "stopped"
         /\ Factory(n) \in NodeSet /\ Factory(n).name = n.name
         /\ Factory(n).adapters = n.adapters /\ Factory(n).keys = n.keys
<1>1. /\ Stopped(n) \in NodeSet /\ Stopped(n).name = n.name
      /\ Stopped(n).adapters = n.adapters /\ Stopped(n).keys = n.keys
      /\ Stopped(n).status = "stopped"
  BY DEF NodeSet, Stopped
<1> DEFINE m == [n EXCEPT !.status = "started", !.running = n.startup, !.console = "boot"]
<1>2. /\ Started(n) \in NodeSet /\ Started(n).name = n.name
      /\ Started(n).adapters = n.adapters /\ Started(n).keys = n.keys
  <2>1. m \in NodeSet /\ m.name = n.name /\ m.adapters = n.adapters /\ m.keys = n.keys
    BY DEF NodeSet
  <2>2. Started(n) \in {n, m}
    BY DEF Started
  <2> QED BY <2>1, <2>2
<1>3. /\ Damaged(n) \in NodeSet /\ Damaged(n).name = n.name
      /\ Damaged(n).adapters = n.adapters /\ Damaged(n).keys = n.keys
      /\ Damaged(n).status = "stopped"
  BY <1>1 DEF NodeSet, Damaged, Content
<1>4. /\ Factory(n) \in NodeSet /\ Factory(n).name = n.name
      /\ Factory(n).adapters = n.adapters /\ Factory(n).keys = n.keys
  BY DEF NodeSet, Factory
<1> QED BY <1>1, <1>2, <1>3, <1>4

LEMMA IdsHeld ==
  ASSUME ServerTyped, NEW i \in DOMAIN node
  PROVE  node[i] \in NodeSet /\ i \in Nat
BY DEF ServerTyped

(* ------------------------------------------------------------------------ *)
(* The steps that keep the nodes.                                           *)

USE DEF Call, Fault, NoAnswer, HeldBecomes, Held, server, run, TakenToBeThere

LEMMA StartKeeps ==
  ASSUME ServerTyped, NEW name, NEW next, StartIfNotStarted(name, next)
  PROVE  Kept /\ UNCHANGED <<project, link>>
<1>1. CASE UNCHANGED server
  BY <1>1, NodeUnchanged
<1>2. CASE HeldBecomes(name, Started(Held(name))) /\ UNCHANGED <<project, link>>
  BY <1>2, NodeChanged, PowerKeeps, IdsHeld
<1> QED BY <1>1, <1>2 DEF StartIfNotStarted
LEMMA TypedKeeps ==
  ASSUME ServerTyped, NEW name, NEW effect, NEW next, Typed(name, effect, next), effect => Kept
  PROVE  Kept
BY NodeUnchanged DEF Typed

DeviceKnown ==
  /\ at = "switch" => topo.devices = <<>>
  /\ at \in {"reach", "push", "save", "readback"} => Device \in Names

LEMMA ContentOf ==
  /\ "aaa" \in Content
  /\ HostItems \subseteq Content
  /\ "interfaces" \in HostItems
BY DEF Content, HostItems

(* The container.                                                           *)
LEMMA HostKeeps ==
  ASSUME ServerTyped, WriteInterfaces \/ AuthorizeKey \/ Install \/ BringUpAddresses \/ StartHost
  PROVE  Kept
<1> DEFINE n == Held(topo.host)
<1>1. ASSUME rec[topo.host].id \in DOMAIN node, NEW item \in Content
      PROVE  Put(item) \in NodeSet /\ Put(item).name = n.name
             /\ Put(item).adapters = n.adapters /\ Put(item).keys = n.keys
  BY <1>1, IdsHeld DEF Put, NodeSet
<1>2. ASSUME NEW item \in Content, HeldBecomes(topo.host, Put(item))
      PROVE  Kept
  BY <1>1, <1>2, NodeChanged
<1>3. CASE WriteInterfaces
  BY <1>2, <1>3, ContentOf, NodeUnchanged DEF WriteInterfaces
<1>4. CASE Install
  <2>1. Item(HostSteps) \in Content
    BY <1>4, ContentOf DEF Install, HostItems
  <2> QED BY <1>2, <1>4, <2>1, TypedKeeps, NodeUnchanged DEF Install
<1>5. CASE AuthorizeKey
  <2> DEFINE m == [n EXCEPT !.keys = IF @ = 0 THEN 1 ELSE @]
  <2>1. ASSUME rec[topo.host].id \in DOMAIN node
        PROVE  m \in NodeSet /\ m.name = n.name /\ m.adapters = n.adapters
               /\ (n.keys <= 1 => m.keys <= 1)
    <3>1. n \in NodeSet
      BY <2>1, IdsHeld DEF Held
    <3>2. CASE n.keys = 0
      <4>1. m = [n EXCEPT !.keys = 1]
        BY <3>2
      <4> QED BY <3>1, <3>2, <4>1 DEF NodeSet
    <3>3. CASE n.keys # 0
      <4>1. m = n
        BY <3>1, <3>3 DEF NodeSet
      <4> QED BY <3>1, <4>1
    <3> QED BY <3>2, <3>3
  <2>2. HeldBecomes(topo.host, m) => Kept
    <3> HIDE DEF m
    <3> QED BY <2>1, NodeChanged
  <2> QED BY <1>5, <2>2, NodeUnchanged DEF AuthorizeKey, Typed
<1>6. CASE BringUpAddresses
  <2> DEFINE m == [n EXCEPT !.running = @ \union {"interfaces"}]
  <2>1. ASSUME rec[topo.host].id \in DOMAIN node
        PROVE  m \in NodeSet /\ m.name = n.name /\ m.adapters = n.adapters /\ m.keys = n.keys
    BY <2>1, IdsHeld, ContentOf DEF NodeSet
  <2>2. HeldBecomes(topo.host, m) => Kept
    BY <2>1, NodeChanged
  <2> QED BY <1>6, <2>2, NodeUnchanged DEF BringUpAddresses, Typed
<1>7. CASE StartHost
  BY <1>7, StartKeeps DEF StartHost
<1> QED BY <1>3, <1>4, <1>5, <1>6, <1>7

(* A device's lines are content.                                            *)
LEMMA PushedLines ==
  ASSUME ProcessTyped, NEW d \in Names
  PROVE  Pushed(topo, d) \in Seq(STRING \union {"rsa"}) /\ Lines(topo, d) \subseteq Content
<1>1. topo.config \in [Names -> Seq(STRING)]
  BY Zenon, TopologiesAssumption DEF ProcessTyped
<1>2. Lines(topo, d) \subseteq Content
  BY DEF ProcessTyped, Typeable, Content
<1>3. topo.config[d] \in Seq(STRING)
  BY <1>1
<1>4. topo.config[d] \in Seq(STRING \union {"rsa"}) /\ Append(topo.config[d], "rsa") \in Seq(STRING \union {"rsa"})
  BY <1>3
<1>5. Pushed(topo, d) \in {topo.config[d], Append(topo.config[d], "rsa")}
  BY DEF Pushed
<1> QED BY <1>2, <1>3, <1>4, <1>5

LEMMA AfterKeeps ==
  ASSUME ServerTyped, ProcessTyped, NEW d \in Names, NEW n \in 0 .. Len(Pushed(topo, d)),
         HeldBecomes(d, After(d, n))
  PROVE  Kept
<1>1. ASSUME rec[d].id \in DOMAIN node
      PROVE  /\ After(d, n) \in NodeSet /\ After(d, n).name = Held(d).name
             /\ After(d, n).adapters = Held(d).adapters /\ After(d, n).keys = Held(d).keys
  <2> DEFINE typed == {Pushed(topo, d)[i] : i \in {j \in 1 .. n : Types(d, Pushed(topo, d)[j])}}
             live  == Over(Held(d).running, typed \ {"save"})
             boot  == IF "save" \in typed THEN live ELSE Held(d).startup
             prompt == IF topo.platform[d] = "vpcs" THEN Held(d).console ELSE "config"
  <2>1. typed \subseteq Content
    BY PushedLines DEF Lines
  <2>2. Held(d) \in NodeSet
    BY <1>1, IdsHeld
  <2>3. live \subseteq Content
    <3> HIDE DEF typed
    <3> QED BY <2>1, <2>2 DEF Over, NodeSet
  <2>4. boot \subseteq Content /\ prompt \in Prompts \union {"boot"}
    <3>1. "config" \in Prompts
      BY DEF Prompts
    <3> HIDE DEF typed, live
    <3> QED BY <2>2, <2>3, <3>1 DEF NodeSet
  <2>5. After(d, n) = [Held(d) EXCEPT !.running = live, !.startup = boot, !.console = prompt]
    BY DEF After
  <2> HIDE DEF typed, live, boot, prompt
  <2> QED BY <2>2, <2>3, <2>4, <2>5 DEF NodeSet
<1> QED BY <1>1, NodeChanged

(* A node with another prompt, or with its configuration saved.             *)
LEMMA ConsoleKeeps ==
  ASSUME ServerTyped, NEW d, NEW prompt \in Prompts,
         \/ HeldBecomes(d, [Held(d) EXCEPT !.console = prompt])
         \/ HeldBecomes(d, [Held(d) EXCEPT !.startup = Held(d).running, !.console = prompt])
  PROVE  Kept
<1>1. ASSUME rec[d].id \in DOMAIN node
      PROVE  Held(d) \in NodeSet
  BY <1>1, IdsHeld
<1>2. CASE HeldBecomes(d, [Held(d) EXCEPT !.console = prompt])
  <2> DEFINE m == [Held(d) EXCEPT !.console = prompt]
  <2>1. ASSUME rec[d].id \in DOMAIN node
        PROVE  m \in NodeSet /\ m.name = Held(d).name /\ m.adapters = Held(d).adapters
               /\ m.keys = Held(d).keys
    BY <1>1, <2>1 DEF NodeSet
  <2> QED BY <1>2, <2>1, NodeChanged
<1>3. CASE HeldBecomes(d, [Held(d) EXCEPT !.startup = Held(d).running, !.console = prompt])
  <2> DEFINE m == [Held(d) EXCEPT !.startup = Held(d).running, !.console = prompt]
  <2>1. ASSUME rec[d].id \in DOMAIN node
        PROVE  m \in NodeSet /\ m.name = Held(d).name /\ m.adapters = Held(d).adapters
               /\ m.keys = Held(d).keys
    BY <1>1, <2>1 DEF NodeSet
  <2> QED BY <1>3, <2>1, NodeChanged
<1> QED BY <1>2, <1>3

LEMMA PromptsKnown == {"privileged", "cli", "vpcs", "shell", "config"} \subseteq Prompts
BY DEF Prompts

LEMMA DevicesKeep ==
  ASSUME ServerTyped, ProcessTyped, DeviceKnown,
         \/ AwaitJunos \/ ReachPrompt \/ PushConfig \/ WriteMemory \/ Commit \/ ShowIp \/ ReadBack
  PROVE  Kept /\ UNCHANGED <<project, link>>
<1>1. CASE AwaitJunos
  <2>1. CASE UNCHANGED node
    BY <1>1, <2>1, NodeUnchanged DEF AwaitJunos
  <2>2. CASE HeldBecomes(Device, [Held(Device) EXCEPT !.console = "cli"])
    BY <1>1, <2>2, ConsoleKeeps, PromptsKnown DEF AwaitJunos
  <2>3. CASE HeldBecomes(Device, [Held(Device) EXCEPT
                           !.console = IF Held(Device).status = "started" THEN "shell" ELSE @])
    <3>1. CASE Held(Device).status = "started"
      BY <1>1, <2>3, <3>1, ConsoleKeeps, PromptsKnown DEF AwaitJunos
    <3>2. CASE Held(Device).status # "started"
      <4> DEFINE m == [Held(Device) EXCEPT !.console =
                         IF Held(Device).status = "started" THEN "shell" ELSE @]
      <4>1. ASSUME rec[Device].id \in DOMAIN node
            PROVE  m = Held(Device) /\ Held(Device) \in NodeSet
        BY <3>2, <4>1, IdsHeld DEF NodeSet
      <4> QED BY <1>1, <2>3, <4>1, NodeChanged DEF AwaitJunos
    <3> QED BY <3>1, <3>2
  <2> QED BY <1>1, <2>1, <2>2, <2>3 DEF AwaitJunos
<1>2. CASE ReachPrompt
  <2>1. UNCHANGED server
    BY <1>2 DEF ReachPrompt
  <2> QED BY <2>1, NodeUnchanged
<1>3. CASE PushConfig
  <2>1. Device \in Names
    BY <1>3 DEF PushConfig, DeviceKnown
  <2>2. Pushed(topo, Device) \in Seq(STRING \union {"rsa"})
    BY <2>1, PushedLines
  <2>3. Len(Pushed(topo, Device)) \in 0 .. Len(Pushed(topo, Device))
    BY <2>2
  <2>4. \/ UNCHANGED node
        \/ \E n \in 0 .. Len(Pushed(topo, Device)) : HeldBecomes(Device, After(Device, n))
    BY <1>3, <2>3 DEF PushConfig
  <2> QED BY <1>3, <2>1, <2>4, AfterKeeps, NodeUnchanged DEF PushConfig
<1>4. CASE WriteMemory
  <2>1. Ready(Device) \in Prompts
    BY <1>4, PromptsKnown DEF WriteMemory, Ready
  <2> QED BY <1>4, <2>1, ConsoleKeeps, NodeUnchanged DEF WriteMemory, Typed, SavedBy
<1>5. CASE Commit
  <2>1. Ready(Device) \in Prompts
    BY <1>5, PromptsKnown DEF Commit, Ready
  <2> QED BY <1>5, <2>1, ConsoleKeeps, NodeUnchanged DEF Commit, Typed, SavedBy
<1>6. CASE ShowIp
  BY <1>6, NodeUnchanged DEF ShowIp, Typed
<1>7. CASE ReadBack
  BY <1>7, NodeUnchanged DEF ReadBack
<1> QED BY <1>1, <1>2, <1>3, <1>4, <1>5, <1>6, <1>7

(* A node powered off stays the node it is.                                 *)
LEMMA PowerMoves ==
  ASSUME ServerTyped, NEW name,
         \/ HeldBecomes(name, Started(Held(name))) \/ HeldBecomes(name, Stopped(Held(name)))
  PROVE  Kept
BY NodeChanged, PowerKeeps, IdsHeld

(* Power lost.                                                              *)
LEMMA PowerLost ==
  ASSUME PowerLoss
  PROVE  /\ DOMAIN node' = DOMAIN node
         /\ \A i \in DOMAIN node :
              /\ node'[i] \in {node[i], Damaged(node[i]), Stopped(node[i])}
              /\ node'[i] = node[i] => AlwaysOn(node[i].name) \/ node[i] = Damaged(node[i])
                                       \/ node[i] = Stopped(node[i])
              /\ node'[i] = Damaged(node[i]) => \/ i \in Fragile
                                                \/ node'[i] \in {node[i], Stopped(node[i])}
<1>1. PICK hit \in SUBSET Fragile :
        node' = [i \in DOMAIN node |-> CASE AlwaysOn(node[i].name) -> node[i]
                                       [] i \in hit -> Damaged(node[i])
                                       [] OTHER -> Stopped(node[i])]
  BY DEF PowerLoss
<1> QED BY <1>1

LEMMA WorldKeeps ==
  ASSUME ServerTyped,
         \/ PowerLoss \/ EditTopology
         \/ \E i \in DOMAIN node : OperatorPowers(i) \/ ResetDisk(i) \/ HardenDevice(i)
         \/ \E m \in {"build", "verify", "only", "failover"}, names \in SUBSET Names :
              StartRun(m, names)
  PROVE  Kept /\ UNCHANGED link
<1>1. CASE PowerLoss
  <2>1. PICK hit : node' = [i \in DOMAIN node |-> CASE AlwaysOn(node[i].name) -> node[i]
                                                   [] i \in hit -> Damaged(node[i])
                                                   [] OTHER -> Stopped(node[i])]
    BY <1>1 DEF PowerLoss
  <2>6. UNCHANGED link
    BY <1>1 DEF PowerLoss
  <2>2. node \in Seq(NodeSet) /\ DOMAIN node = 1 .. Len(node) /\ Len(node) \in Nat
    BY DEF ServerTyped
  <2>3. \A i \in 1 .. Len(node) : node'[i] \in {node[i], Damaged(node[i]), Stopped(node[i])}
    BY <2>1, <2>2
  <2>4. node' \in [1 .. Len(node) -> NodeSet]
    BY <2>1, <2>2, <2>3, PowerKeeps
  <2>5. node' \in Seq(NodeSet) /\ Len(node') = Len(node)
    BY <2>2, <2>4
  <2> QED BY <2>2, <2>3, <2>5, <2>6, PowerKeeps DEF Kept
<1>2. CASE EditTopology
  BY <1>2, NodeUnchanged DEF EditTopology
<1>3. ASSUME NEW i \in DOMAIN node, OperatorPowers(i)
      PROVE  Kept /\ UNCHANGED link
  <2>1. node' = [node EXCEPT ![i] = Started(node[i])] \/ node' = [node EXCEPT ![i] = Stopped(node[i])]
    BY <1>3 DEF OperatorPowers
  <2> QED BY <1>3, <2>1, NodeChanged, PowerKeeps, IdsHeld DEF OperatorPowers
<1>6. ASSUME NEW i \in DOMAIN node, ResetDisk(i)
      PROVE  Kept /\ UNCHANGED link
  BY <1>6, NodeChanged, PowerKeeps, IdsHeld DEF ResetDisk
<1>4. ASSUME NEW i \in DOMAIN node, HardenDevice(i)
      PROVE  Kept /\ UNCHANGED link
  <2> DEFINE hard(lines) == (lines \ {"login-local"}) \union {"aaa"}
             m == [node[i] EXCEPT !.running = hard(@), !.startup = hard(node[i].running)]
  <2>1. m \in NodeSet /\ m.name = node[i].name /\ m.adapters = node[i].adapters
        /\ m.keys = node[i].keys
    <3>1. node[i] \in NodeSet
      BY IdsHeld
    <3>2. hard(node[i].running) \in SUBSET Content
      BY <3>1, ContentOf DEF NodeSet
    <3> HIDE DEF hard
    <3> QED BY <3>1, <3>2 DEF NodeSet
  <2>2. node' = [node EXCEPT ![i] = m] /\ UNCHANGED link
    BY <1>4 DEF HardenDevice
  <2> QED BY <2>1, <2>2, NodeChanged
<1>5. ASSUME NEW m, NEW names, StartRun(m, names)
      PROVE  Kept /\ UNCHANGED link
  BY <1>5, NodeUnchanged DEF StartRun
<1> QED BY <1>1, <1>2, <1>3, <1>4, <1>5, <1>6

(* The steps of the programs that only read the server, or power a node.    *)
LEMMA ReadersKeep ==
  ASSUME ServerTyped,
         \/ EnsureProject \/ ListNodes \/ ReuseNode \/ AdaptersRight \/ ListLinks \/ LinksDone
         \/ DevicesStarted \/ RelistNodes \/ NextDevice \/ DevicesDone \/ Check \/ Verdict
         \/ Observe \/ Proven \/ StopNode \/ StartDevice \/ StartSwitch \/ Power
  PROVE  Kept /\ UNCHANGED link
<1>1. CASE StopNode
  BY <1>1, PowerMoves, NodeUnchanged DEF StopNode
<1>2. CASE StartDevice
  BY <1>2, StartKeeps DEF StartDevice
<1>3. CASE StartSwitch
  BY <1>3, StartKeeps DEF StartSwitch
<1>4. CASE Power
  BY <1>4, PowerMoves, NodeUnchanged DEF Power
<1> QED
  BY <1>1, <1>2, <1>3, <1>4, NodeUnchanged
  DEF EnsureProject, ListNodes, ReuseNode, AdaptersRight, ListLinks, LinksDone, DevicesStarted,
      RelistNodes, NextDevice, DevicesDone, Check, Verdict, Observe, Proven

(* ------------------------------------------------------------------------ *)
(* Where the program is.                                                    *)

USE DEF Fails, Ends, Goto, NextItem

(* A step of a program keeps the file, the mode and the counters in order,  *)
(* and leaves no device chosen when it ends.                                *)
Controlled ==
  /\ UNCHANGED <<topo, mode, runs, hands>> /\ faults' \in {faults, faults + 1}
  /\ faults' # faults => faults < MaxFaults
  /\ at' \in Phases /\ k' \in Nat \ {0} /\ only' \in {only, {}}
  /\ at' \in Ended => only' = {}

LEMMA BuildControlled ==
  ASSUME ProcessTyped, at \notin Ended,
         \/ EnsureProject \/ ListNodes \/ ReuseNode \/ CreateBuiltin \/ CreateFromTemplate
         \/ RenameNode \/ AdaptersRight \/ StopNode \/ SetAdapters \/ ListLinks \/ EnsureLink
         \/ LinksDone \/ StartDevice \/ DevicesStarted
  PROVE  Controlled
<1>1. CASE EnsureProject \/ ListNodes \/ ReuseNode \/ AdaptersRight
  BY <1>1
  DEF Phases, Ended, Controlled, ProcessTyped, EnsureProject, ListNodes, ReuseNode, AdaptersRight
<1>2. CASE CreateBuiltin \/ CreateFromTemplate
  BY <1>2 DEF Phases, Ended, Controlled, ProcessTyped, CreateBuiltin, CreateFromTemplate, Created
<1>3. CASE RenameNode \/ StopNode
  BY <1>3 DEF Phases, Ended, Controlled, ProcessTyped, RenameNode, StopNode
<1>4. CASE SetAdapters
  BY <1>4 DEF Phases, Ended, Controlled, ProcessTyped, SetAdapters
<1>5. CASE ListLinks \/ EnsureLink \/ LinksDone \/ StartDevice \/ DevicesStarted
  BY <1>5
  DEF Phases, Ended, Controlled, ProcessTyped, ListLinks, EnsureLink, LinksDone, StartDevice, DevicesStarted,
      StartIfNotStarted
<1> QED BY <1>1, <1>2, <1>3, <1>4, <1>5

LEMMA HostControlled ==
  ASSUME ProcessTyped, at \notin Ended,
         \/ WriteInterfaces \/ StartHost \/ AuthorizeKey \/ Install \/ BringUpAddresses
         \/ RelistNodes \/ StartSwitch
  PROVE  Controlled
<1>1. CASE WriteInterfaces \/ RelistNodes
  BY <1>1 DEF Phases, Ended, Controlled, ProcessTyped, WriteInterfaces, RelistNodes
<1>2. CASE AuthorizeKey
  BY <1>2 DEF Phases, Ended, Controlled, ProcessTyped, AuthorizeKey, Typed
<1>3. CASE Install
  BY <1>3 DEF Phases, Ended, Controlled, ProcessTyped, Install, Typed
<1>4. CASE BringUpAddresses
  BY <1>4 DEF Phases, Ended, Controlled, ProcessTyped, BringUpAddresses, Typed
<1>5. CASE StartHost \/ StartSwitch
  BY <1>5 DEF Phases, Ended, Controlled, ProcessTyped, StartHost, StartSwitch, StartIfNotStarted
<1> QED BY <1>1, <1>2, <1>3, <1>4, <1>5

LEMMA DevicesControlled ==
  ASSUME ProcessTyped, at \notin Ended,
         \/ NextDevice \/ AwaitJunos \/ ReachPrompt \/ PushConfig \/ WriteMemory \/ Commit
         \/ ShowIp \/ ReadBack \/ DevicesDone
  PROVE  Controlled
<1>1. CASE NextDevice \/ AwaitJunos \/ ReachPrompt \/ PushConfig
  BY <1>1
  DEF Phases, Ended, Controlled, ProcessTyped, NextDevice, AwaitJunos, ReachPrompt, PushConfig
<1>2. CASE WriteMemory \/ Commit \/ ShowIp \/ ReadBack \/ DevicesDone
  BY <1>2
  DEF Phases, Ended, Controlled, ProcessTyped, WriteMemory, Commit, ShowIp, ReadBack, DevicesDone, DeviceDone,
      Typed
<1> QED BY <1>1, <1>2

LEMMA ChecksControlled ==
  ASSUME ProcessTyped, at \notin Ended,
         Check \/ Verdict \/ Observe \/ Power \/ Proven
  PROVE  Controlled
BY
DEF Phases, Ended, Controlled, ProcessTyped, Check, Verdict, Observe, Power, Proven

(* The verdict of the checks.                                               *)
LEMMA FailuresTyped ==
  ASSUME failures \in BOOLEAN, Program
  PROVE  failures' \in BOOLEAN
<1>1. CASE EnsureProject \/ ListNodes \/ ReuseNode \/ CreateBuiltin \/ CreateFromTemplate
  BY Zenon, <1>1
  DEF EnsureProject, ListNodes, ReuseNode, CreateBuiltin, CreateFromTemplate, Created
<1>2. CASE RenameNode \/ AdaptersRight \/ StopNode \/ SetAdapters \/ ListLinks \/ EnsureLink
  BY Zenon, <1>2 DEF RenameNode, AdaptersRight, StopNode, SetAdapters, ListLinks, EnsureLink
<1>3. CASE LinksDone \/ StartDevice \/ DevicesStarted \/ StartHost \/ StartSwitch
  BY Zenon, <1>3
  DEF LinksDone, StartDevice, DevicesStarted, StartHost, StartSwitch, StartIfNotStarted
<1>4. CASE WriteInterfaces \/ AuthorizeKey \/ Install \/ BringUpAddresses \/ RelistNodes
  BY Zenon, <1>4 DEF WriteInterfaces, AuthorizeKey, Install, BringUpAddresses, RelistNodes, Typed
<1>5. CASE NextDevice \/ AwaitJunos \/ ReachPrompt \/ PushConfig \/ DevicesDone
  BY Zenon, <1>5 DEF NextDevice, AwaitJunos, ReachPrompt, PushConfig, DevicesDone
<1>6. CASE WriteMemory \/ Commit \/ ShowIp \/ ReadBack
  BY Zenon, <1>6 DEF WriteMemory, Commit, ShowIp, ReadBack, DeviceDone, Typed
<1>7. CASE Check \/ Verdict
  BY Zenon, <1>7 DEF Check, Verdict
<1>8. CASE Observe \/ Power \/ Proven
  BY Zenon, <1>8 DEF Observe, Power, Proven
<1> QED
  BY <1>1, <1>2, <1>3, <1>4, <1>5, <1>6, <1>7, <1>8 DEF Program

(* What was taken to be there is of what the host is provided with.          *)
LEMMA AssumedTyped ==
  ASSUME assumed \subseteq Provided, Program
  PROVE  assumed' \subseteq Provided
<1>1. CASE EnsureProject \/ ListNodes \/ ReuseNode \/ CreateBuiltin \/ CreateFromTemplate
  BY <1>1
  DEF EnsureProject, ListNodes, ReuseNode, CreateBuiltin, CreateFromTemplate, Created
<1>2. CASE RenameNode \/ AdaptersRight \/ StopNode \/ SetAdapters \/ ListLinks \/ EnsureLink
  BY <1>2 DEF RenameNode, AdaptersRight, StopNode, SetAdapters, ListLinks, EnsureLink
<1>3. CASE LinksDone \/ StartDevice \/ DevicesStarted \/ StartHost \/ StartSwitch
  BY <1>3
  DEF LinksDone, StartDevice, DevicesStarted, StartHost, StartSwitch, StartIfNotStarted
<1>4. CASE WriteInterfaces \/ AuthorizeKey \/ Install \/ BringUpAddresses \/ RelistNodes
  BY <1>4 DEF Provided, WriteInterfaces, AuthorizeKey, Install, BringUpAddresses, RelistNodes, Typed
<1>5. CASE NextDevice \/ AwaitJunos \/ ReachPrompt \/ PushConfig \/ DevicesDone
  BY <1>5 DEF NextDevice, AwaitJunos, ReachPrompt, PushConfig, DevicesDone
<1>6. CASE WriteMemory \/ Commit \/ ShowIp \/ ReadBack
  BY <1>6 DEF WriteMemory, Commit, ShowIp, ReadBack, DeviceDone, Typed
<1>7. CASE Check \/ Verdict
  BY <1>7 DEF Check, Verdict
<1>8. CASE Observe \/ Power \/ Proven
  BY <1>8 DEF Observe, Power, Proven
<1> QED
  BY <1>1, <1>2, <1>3, <1>4, <1>5, <1>6, <1>7, <1>8 DEF Program

(* ------------------------------------------------------------------------ *)
(* The invariant of the builder.                                            *)

Building == {"nodes", "rename", "adapters", "resize"}

(* One node for a name, one link for its two ends, one key.                 *)
Distinct ==
  /\ \A i, j \in DOMAIN node : node[i].name = node[j].name /\ node[i].name # Stray => i = j
  /\ \A i, j \in DOMAIN link : link[i] = link[j] => i = j
  /\ \A i \in DOMAIN node : node[i].keys <= 1

(* While the nodes are ensured, no node of a declared name is missing from  *)
(* the records; the one being renamed has no name yet, the one being        *)
(* resized is stopped.                                                      *)
Complete ==
  /\ at \in Building =>
       \A i \in DOMAIN node : node[i].name \in Names => node[i].name \in DOMAIN rec
  /\ at \in Building \ {"nodes"} =>
       k <= Len(topo.nodes) /\ Item(topo.nodes) \in DOMAIN rec
  /\ at = "rename" => \A i \in DOMAIN node : node[i].name # Item(topo.nodes)
  /\ at = "resize" => Held(Item(topo.nodes)).status = "stopped"

(* A record is of the node it names, with its adapters, and if it says      *)
(* stopped while the nodes are ensured, the node is.                        *)
RecordsTrue ==
  at \in Building \union {"links"} =>
    \A name \in DOMAIN rec \intersect Names :
      /\ Held(name).adapters = rec[name].adapters
      /\ \/ Held(name).name = name
         \/ at = "rename" /\ name = Item(topo.nodes) /\ Held(name).name = Stray
      /\ at # "links" /\ rec[name].status = "stopped" => Held(name).status = "stopped"

(* The nodes gone through have a record and their adapters.                 *)
Settled ==
  at \in Building \union {"links"} =>
    \A j \in DOMAIN topo.nodes : at = "links" \/ j < k =>
      /\ topo.nodes[j] \in DOMAIN rec
      /\ topo.adapters[topo.nodes[j]] \in {0, rec[topo.nodes[j]].adapters}

(* A link was found, or the run made it.                                    *)
LinksSeen ==
  at = "links" =>
    \A j \in DOMAIN link :
      \/ link[j] \in have
      \/ \E i \in DOMAIN topo.links : i < k /\ link[j] = EndsOf(topo.links[i])

(* Which device is in hand.                                                 *)
PlaceKnown ==
  /\ at \in Ended => only = {}
  /\ at = "switch" => topo.devices = <<>>
  /\ at \in {"reach", "push", "save", "readback"} /\ topo.devices # <<>>
       => k <= Len(topo.devices)

(* A step that creates, renames and resizes no node and makes no link, and  *)
(* whose records are those it had, none, or the server's list.              *)
Quiet ==
  /\ Kept /\ UNCHANGED link /\ project' \in {"absent", "closed", "opened"}
  /\ rec' \in {rec, <<>>, Listed}

LEMMA PlaceNamed ==
  ASSUME ProcessTyped, PlaceKnown
  PROVE  DeviceKnown
<1>1. CASE topo.devices = <<>>
  <2>1. topo.nodes \in Seq(Names) /\ topo.switch \in {topo.nodes[i] : i \in DOMAIN topo.nodes}
    BY Zenon, <1>1, TopologiesAssumption DEF ProcessTyped
  <2>2. topo.switch \in Names
    BY <2>1
  <2> QED BY <1>1, <2>2 DEF DeviceKnown, Device
<1>2. CASE topo.devices # <<>> /\ at \in {"reach", "push", "save", "readback"}
  <2>1. topo.devices \in Seq({topo.nodes[i] : i \in DOMAIN topo.nodes}) /\ topo.nodes \in Seq(Names)
    BY Zenon, TopologiesAssumption DEF ProcessTyped
  <2>2. k \in DOMAIN topo.devices
    BY <1>2, <2>1 DEF PlaceKnown, ProcessTyped
  <2> QED BY <1>2, <2>1, <2>2 DEF DeviceKnown, Device, Item
<1> QED BY <1>1, <1>2 DEF DeviceKnown, PlaceKnown

LEMMA QuietReaders ==
  ASSUME ServerTyped,
         \/ EnsureProject \/ ListNodes \/ ReuseNode \/ AdaptersRight \/ ListLinks \/ LinksDone
         \/ DevicesStarted \/ RelistNodes \/ NextDevice \/ DevicesDone \/ Check \/ Verdict
         \/ Observe \/ Proven \/ StopNode \/ StartDevice \/ StartSwitch \/ Power
  PROVE  Quiet
<1>1. Kept /\ UNCHANGED link
  BY ReadersKeep
<1>2. CASE EnsureProject \/ ListNodes \/ ReuseNode \/ AdaptersRight \/ ListLinks \/ LinksDone
  BY <1>1, <1>2
  DEF Quiet, ServerTyped, EnsureProject, ListNodes, ReuseNode, AdaptersRight, ListLinks, LinksDone
<1>3. CASE DevicesStarted \/ RelistNodes \/ NextDevice \/ DevicesDone \/ Check \/ Verdict
  BY <1>1, <1>3
  DEF Quiet, ServerTyped, DevicesStarted, RelistNodes, NextDevice, DevicesDone, Check, Verdict
<1>4. CASE Observe \/ Proven \/ StopNode \/ StartDevice \/ StartSwitch \/ Power
  BY <1>1, <1>4
  DEF Quiet, ServerTyped, Observe, Proven, StopNode, StartDevice, StartSwitch, Power,
      StartIfNotStarted
<1> QED BY <1>2, <1>3, <1>4

LEMMA QuietHost ==
  ASSUME ServerTyped, WriteInterfaces \/ AuthorizeKey \/ Install \/ BringUpAddresses \/ StartHost
  PROVE  Quiet
<1>1. Kept
  BY HostKeeps
<1>2. CASE WriteInterfaces \/ StartHost
  BY <1>1, <1>2 DEF Quiet, ServerTyped, WriteInterfaces, StartHost, StartIfNotStarted
<1>3. CASE AuthorizeKey
  BY <1>1, <1>3 DEF Quiet, ServerTyped, AuthorizeKey, Typed
<1>4. CASE Install
  BY <1>1, <1>4 DEF Quiet, ServerTyped, Install, Typed
<1>5. CASE BringUpAddresses
  BY <1>1, <1>5 DEF Quiet, ServerTyped, BringUpAddresses, Typed
<1> QED BY <1>2, <1>3, <1>4, <1>5

LEMMA QuietDevices ==
  ASSUME ServerTyped, ProcessTyped, PlaceKnown,
         \/ AwaitJunos \/ ReachPrompt \/ PushConfig \/ WriteMemory \/ Commit \/ ShowIp \/ ReadBack
  PROVE  Quiet
<1>1. Kept /\ UNCHANGED <<project, link>>
  BY DevicesKeep, PlaceNamed
<1>2. rec' \in {rec, <<>>}
  <2>1. CASE AwaitJunos \/ ReachPrompt \/ PushConfig
    BY <2>1 DEF AwaitJunos, ReachPrompt, PushConfig
  <2>2. CASE WriteMemory \/ Commit \/ ShowIp \/ ReadBack
    BY <2>2 DEF WriteMemory, Commit, ShowIp, ReadBack, Typed, DeviceDone
  <2> QED BY <2>1, <2>2
<1> QED BY <1>1, <1>2 DEF Quiet, ServerTyped

LEMMA QuietWorld ==
  ASSUME ServerTyped, World
  PROVE  Quiet
<1>1. Kept /\ UNCHANGED link
  BY WorldKeeps DEF World
<1> QED
  BY <1>1 DEF Quiet, ServerTyped, World, PowerLoss, EditTopology, OperatorPowers, ResetDisk, HardenDevice,
              StartRun

(* ------------------------------------------------------------------------ *)
(* Types.                                                                   *)

LEMMA ListedTrue ==
  ASSUME ServerTyped, NEW name \in DOMAIN Listed
  PROVE  /\ Listed[name] \in RecordSet /\ Listed[name].id \in DOMAIN node
         /\ name = node[Listed[name].id].name /\ name \in Names \union {Stray}
         /\ Listed[name].status = node[Listed[name].id].status
         /\ Listed[name].adapters = node[Listed[name].id].adapters
<1> DEFINE i == CHOOSE i \in Ids(name) : TRUE
<1>1. name \in {node[j].name : j \in DOMAIN node} /\ Listed[name] = Record(i)
  BY DEF Listed
<1>2. i \in DOMAIN node /\ node[i].name = name
  BY <1>1 DEF Ids
<1> HIDE DEF i
<1>3. node[i] \in NodeSet /\ i \in Nat
  BY <1>2, IdsHeld
<1> QED BY <1>1, <1>2, <1>3 DEF Record, RecordSet, NodeSet

LEMMA QuietTypes ==
  ASSUME ServerTyped, RecordsTyped, Quiet
  PROVE  ServerTyped' /\ RecordsTyped'
<1>1. DOMAIN node' = DOMAIN node /\ ServerTyped'
  BY DEF ServerTyped, Quiet, Kept
<1>2. CASE rec' = rec
  BY <1>1, <1>2 DEF RecordsTyped
<1>3. CASE rec' = <<>>
  BY <1>1, <1>3 DEF RecordsTyped
<1>4. CASE rec' = Listed
  <2>1. Listed \in [DOMAIN Listed -> RecordSet]
    BY ListedTrue DEF Listed
  <2> QED BY <1>1, <1>4, <2>1, ListedTrue DEF RecordsTyped
<1> QED BY <1>1, <1>2, <1>3, <1>4 DEF Quiet

(* One node more, and one node changed in its place.                        *)
LEMMA OneMore ==
  ASSUME ServerTyped, NEW n \in NodeSet, node' = Append(node, n), UNCHANGED <<project, link>>
  PROVE  /\ ServerTyped' /\ DOMAIN node' = 1 .. Len(node) + 1 /\ DOMAIN node = 1 .. Len(node)
         /\ Len(node) \in Nat
         /\ node'[Len(node) + 1] = n /\ \A i \in DOMAIN node : node'[i] = node[i]
<1>1. node \in Seq(NodeSet)
  BY DEF ServerTyped
<1>2. /\ DOMAIN node' = 1 .. Len(node) + 1 /\ DOMAIN node = 1 .. Len(node) /\ Len(node) \in Nat
      /\ node'[Len(node) + 1] = n /\ \A i \in DOMAIN node : node'[i] = node[i]
      /\ node' \in Seq(NodeSet)
  BY <1>1
<1>3. DOMAIN node \subseteq DOMAIN node'
  BY <1>2
<1> QED BY <1>2, <1>3 DEF ServerTyped

LEMMA OneChanged ==
  ASSUME ServerTyped, NEW i \in DOMAIN node, NEW n \in NodeSet, node' = [node EXCEPT ![i] = n],
         UNCHANGED <<project, link>>
  PROVE  /\ ServerTyped' /\ DOMAIN node' = DOMAIN node /\ node'[i] = n
         /\ \A j \in DOMAIN node : j # i => node'[j] = node[j]
BY DEF ServerTyped

LEMMA NewTyped ==
  ASSUME NEW name \in Names \union {Stray}, NEW status \in {"started", "stopped"}
  PROVE  /\ NewNode(name, status) \in NodeSet /\ NewNode(name, status).name = name
         /\ NewNode(name, status).status = status /\ NewNode(name, status).adapters = 1
         /\ NewNode(name, status).keys = 0
BY DEF NewNode, NodeSet

LEMMA ItemNamed ==
  ASSUME ProcessTyped, k <= Len(topo.nodes)
  PROVE  /\ k \in DOMAIN topo.nodes /\ Item(topo.nodes) \in Names /\ Item(topo.nodes) # Stray
         /\ topo.adapters[Item(topo.nodes)] \in Nat /\ Item(topo.nodes) = topo.nodes[k]
<1>1. topo.nodes \in Seq(Names) /\ topo.adapters \in [Names -> Nat]
  BY Zenon, TopologiesAssumption DEF ProcessTyped
<1>2. k \in DOMAIN topo.nodes
  BY <1>1 DEF ProcessTyped
<1> QED BY <1>1, <1>2, StrayAssumption DEF Item

(* ------------------------------------------------------------------------ *)
(* The steps that create, rename and resize nodes and make links.           *)

Phased == Complete /\ RecordsTrue /\ Settled /\ LinksSeen
Nodes == ServerTyped /\ RecordsTyped /\ Distinct /\ Phased

(* Outside of the phases that ensure nodes and links nothing is claimed.    *)
LEMMA Unphased ==
  ASSUME at' \notin Building \union {"links"}
  PROVE  Phased'
BY DEF Phased, Complete, RecordsTrue, Settled, LinksSeen, Building

LEMMA EndedUnphased ==
  ASSUME Fails
  PROVE  Phased'
BY Unphased DEF Building

LEMMA RefusedKeeps ==
  ASSUME Nodes, Fails, UNCHANGED server
  PROVE  Nodes'
<1>1. ServerTyped' /\ Distinct'
  BY DEF Nodes, ServerTyped, Distinct
<1>2. RecordsTyped'
  BY DEF RecordsTyped
<1> QED BY <1>1, <1>2, EndedUnphased DEF Nodes

(* A new node is called what no other is called, or after its template.     *)
LEMMA CreationDistinct ==
  ASSUME ServerTyped, Distinct, NEW n \in NodeSet, n.keys = 0,
         n.name = Stray \/ \A i \in DOMAIN node : node[i].name # n.name,
         node' = Append(node, n), UNCHANGED <<project, link>>
  PROVE  ServerTyped' /\ Distinct'
<1>1. /\ ServerTyped' /\ DOMAIN node' = 1 .. Len(node) + 1 /\ DOMAIN node = 1 .. Len(node)
      /\ Len(node) \in Nat
      /\ node'[Len(node) + 1] = n /\ \A i \in DOMAIN node : node'[i] = node[i]
  BY OneMore
<1>2. \A i \in DOMAIN node' : i \in DOMAIN node \/ i = Len(node) + 1
  BY <1>1
<1>3. \A i \in DOMAIN node' : node'[i].keys <= 1
  BY <1>1, <1>2 DEF Distinct
<1>4. \A i, j \in DOMAIN node' : node'[i].name = node'[j].name /\ node'[i].name # Stray => i = j
  BY <1>1, <1>2 DEF Distinct
<1> QED BY <1>1, <1>3, <1>4 DEF Distinct

LEMMA CreationKeeps ==
  ASSUME Nodes, ProcessTyped, UNCHANGED topo, at = "nodes", k <= Len(topo.nodes),
         NEW name, name = Item(topo.nodes), name \notin DOMAIN rec,
         NEW called, NEW where, NEW status \in {"started", "stopped"},
         (called = name /\ where = "adapters") \/ (called = Stray /\ where = "rename"),
         Created(name, where, NewNode(called, status))
  PROVE  Nodes'
<1> DEFINE n == NewNode(called, status)
           r == [id |-> Len(node) + 1, status |-> n.status, adapters |-> 1]
<1>1. /\ k \in DOMAIN topo.nodes /\ name \in Names /\ name # Stray /\ name = topo.nodes[k]
  BY ItemNamed
<1>2. /\ n \in NodeSet /\ n.name = called /\ n.status = status /\ n.adapters = 1 /\ n.keys = 0
  BY <1>1, NewTyped
<1> HIDE DEF n
<1>3. \A i \in DOMAIN node : node[i].name # name
  BY <1>1 DEF Nodes, Phased, Complete, Building
<1>4. CASE UNCHANGED server /\ Fails
  BY <1>4, RefusedKeeps
<1>5. ASSUME node' = Append(node, n), UNCHANGED <<project, link>>
      PROVE  ServerTyped' /\ Distinct'
  BY <1>2, <1>3, <1>5, CreationDistinct DEF Nodes
<1>6. CASE node' = Append(node, n) /\ UNCHANGED <<project, link>> /\ Fails
  <2>1. RecordsTyped'
    BY <1>6 DEF RecordsTyped
  <2> QED BY <1>5, <1>6, <2>1, EndedUnphased DEF Nodes
<1>7. CASE /\ node' = Append(node, n) /\ UNCHANGED <<project, link>>
           /\ rec' = [m \in DOMAIN rec \union {name} |-> IF m = name THEN r ELSE rec[m]]
           /\ at' = where /\ UNCHANGED <<mode, k, have, only, failures>>
  <2>1. /\ ServerTyped' /\ DOMAIN node' = 1 .. Len(node) + 1 /\ DOMAIN node = 1 .. Len(node)
        /\ Len(node) \in Nat
        /\ node'[Len(node) + 1] = n /\ \A i \in DOMAIN node : node'[i] = node[i]
    BY <1>2, <1>7, OneMore DEF Nodes
  <2>2. r \in RecordSet /\ r.id = Len(node) + 1 /\ r.status = n.status /\ r.adapters = 1
    BY <1>2, <2>1 DEF RecordSet
  <2> HIDE DEF r
  <2>3. /\ DOMAIN rec' = DOMAIN rec \union {name} /\ rec'[name] = r
        /\ \A m \in DOMAIN rec : rec'[m] = rec[m]
    BY <1>7
  <2>4. /\ \A m \in DOMAIN rec : rec[m] \in RecordSet /\ rec[m].id \in DOMAIN node
        /\ DOMAIN rec \subseteq Names \union {Stray}
    BY DEF Nodes, RecordsTyped
  <2>5. RecordsTyped'
    <3>1. rec' \in [DOMAIN rec' -> RecordSet]
      BY <1>7, <2>2, <2>3, <2>4
    <3>2. \A m \in DOMAIN rec' : rec'[m].id \in DOMAIN node'
      BY <2>1, <2>2, <2>3, <2>4
    <3> QED BY <1>1, <2>3, <2>4, <3>1, <3>2 DEF RecordsTyped
  <2>6. /\ Item(topo.nodes)' = name /\ topo.nodes' = topo.nodes
        /\ at' \in {"adapters", "rename"} /\ (at' = "rename" <=> called = Stray)
    BY <1>1, <1>7 DEF Item
  <2>7. Complete'
    <3>1. \A i \in DOMAIN node' : i \in DOMAIN node \/ i = Len(node) + 1
      BY <2>1
    <3>2. \A i \in DOMAIN node' : node'[i].name \in Names => node'[i].name \in DOMAIN rec'
      BY <1>2, <2>1, <2>3, <3>1, StrayAssumption DEF Nodes, Phased, Complete, Building
    <3>3. at' = "rename" => \A i \in DOMAIN node' : node'[i].name # name
      BY <1>1, <1>2, <1>3, <2>1, <2>6, <3>1
    <3>4. k' <= Len(topo.nodes') /\ name \in DOMAIN rec'
      BY <1>7, <2>3, <2>6
    <3> QED BY <2>6, <3>2, <3>3, <3>4 DEF Complete
  <2>8. RecordsTrue'
    <3> SUFFICES ASSUME NEW m \in DOMAIN rec' \intersect Names
                 PROVE  /\ node'[rec'[m].id].adapters = rec'[m].adapters
                        /\ \/ node'[rec'[m].id].name = m
                           \/ at' = "rename" /\ m = name /\ node'[rec'[m].id].name = Stray
                        /\ rec'[m].status = "stopped" => node'[rec'[m].id].status = "stopped"
      BY <2>6 DEF RecordsTrue
    <3>1. CASE m = name
      BY <1>1, <1>2, <1>7, <2>1, <2>2, <2>3, <2>6, <3>1
    <3>2. CASE m # name
      <4>1. m \in DOMAIN rec \intersect Names /\ rec'[m] = rec[m] /\ node'[rec[m].id] = node[rec[m].id]
        BY <2>1, <2>3, <2>4, <3>2
      <4> QED BY <4>1 DEF Nodes, Phased, RecordsTrue, Building
    <3> QED BY <3>1, <3>2
  <2>9. Settled'
    BY <1>7, <2>3, <2>6 DEF Nodes, Phased, Settled, Building
  <2>10. LinksSeen'
    BY <2>6 DEF LinksSeen
  <2> QED BY <1>5, <1>7, <2>1, <2>5, <2>7, <2>8, <2>9, <2>10 DEF Nodes, Phased
<1> QED BY <1>4, <1>6, <1>7 DEF Created, n

(* One node changed, its keys no more than they were.                       *)
LEMMA ChangeDistinct ==
  ASSUME ServerTyped, Distinct, NEW i \in DOMAIN node, NEW n \in NodeSet, n.keys = node[i].keys,
         \/ n.name = node[i].name
         \/ \A j \in DOMAIN node : node[j].name # n.name,
         node' = [node EXCEPT ![i] = n], UNCHANGED <<project, link>>
  PROVE  ServerTyped' /\ Distinct'
<1>1. /\ ServerTyped' /\ DOMAIN node' = DOMAIN node /\ node'[i] = n
      /\ \A j \in DOMAIN node : j # i => node'[j] = node[j]
  BY OneChanged
<1>2. \A j, l \in DOMAIN node' : node'[j].name = node'[l].name /\ node'[j].name # Stray => j = l
  BY <1>1 DEF Distinct
<1>3. \A j \in DOMAIN node' : node'[j].keys <= 1
  BY <1>1 DEF Distinct
<1> QED BY <1>1, <1>2, <1>3 DEF Distinct

LEMMA RenameKeeps ==
  ASSUME Nodes, ProcessTyped, RenameNode
  PROVE  Nodes'
<1> DEFINE name == Item(topo.nodes)
           i == rec[name].id
           n == [node[i] EXCEPT !.name = name]
<1>1. /\ at = "rename" /\ k <= Len(topo.nodes) /\ UNCHANGED topo
  BY DEF RenameNode, Ensuring
<1>2. /\ name \in Names /\ name # Stray
  BY <1>1, ItemNamed
<1>3. /\ name \in DOMAIN rec /\ \A j \in DOMAIN node : node[j].name # name
      /\ i \in DOMAIN node
  BY <1>1 DEF Nodes, RecordsTyped, Phased, Complete, Building
<1>4. node[i] \in NodeSet /\ node[i].name = Stray /\ node[i].adapters = rec[name].adapters
      /\ (rec[name].status = "stopped" => node[i].status = "stopped")
  BY <1>1, <1>2, <1>3, IdsHeld DEF Nodes, Phased, RecordsTrue, Building
<1>5. n \in NodeSet /\ n.name = name /\ n.keys = node[i].keys /\ n.adapters = node[i].adapters
      /\ n.status = node[i].status
  BY <1>2, <1>4 DEF NodeSet
<1> HIDE DEF n, i, name
<1>6. CASE UNCHANGED server /\ Fails
  BY <1>6, RefusedKeeps
<1>7. ASSUME node' = [node EXCEPT ![i] = n], UNCHANGED <<project, link>>
      PROVE  /\ ServerTyped' /\ Distinct' /\ DOMAIN node' = DOMAIN node /\ node'[i] = n
             /\ \A j \in DOMAIN node : j # i => node'[j] = node[j]
  BY <1>3, <1>5, <1>7, ChangeDistinct, OneChanged DEF Nodes
<1>8. CASE node' = [node EXCEPT ![i] = n] /\ UNCHANGED <<project, link>> /\ Fails
  <2>1. RecordsTyped'
    BY <1>8 DEF RecordsTyped
  <2> QED BY <1>7, <1>8, <2>1, EndedUnphased DEF Nodes
<1>9. CASE /\ node' = [node EXCEPT ![i] = n] /\ UNCHANGED <<project, link>>
           /\ at' = "adapters" /\ UNCHANGED <<mode, k, rec, have, only, failures>>
  <2>1. ServerTyped' /\ Distinct' /\ DOMAIN node' = DOMAIN node /\ node'[i] = n
        /\ (\A j \in DOMAIN node : j # i => node'[j] = node[j])
    BY <1>7, <1>9
  <2>2. RecordsTyped'
    BY <1>9, <2>1 DEF Nodes, RecordsTyped
  <2>3. Item(topo.nodes)' = name
    BY <1>1, <1>9 DEF Item, name
  <2>4. Complete'
    <3>1. \A j \in DOMAIN node' : node'[j].name \in Names => node'[j].name \in DOMAIN rec'
      BY <1>1, <1>3, <1>5, <1>9, <2>1 DEF Nodes, Phased, Complete, Building
    <3> QED BY <1>1, <1>3, <1>9, <2>3, <3>1 DEF Complete
  <2>5. RecordsTrue'
    <3> SUFFICES ASSUME NEW m \in DOMAIN rec \intersect Names
                 PROVE  /\ node'[rec[m].id].adapters = rec[m].adapters
                        /\ node'[rec[m].id].name = m
                        /\ rec[m].status = "stopped" => node'[rec[m].id].status = "stopped"
      BY <1>9 DEF RecordsTrue
    <3>1. CASE m = name
      BY <1>4, <1>5, <2>1, <3>1 DEF i
    <3>2. CASE m # name
      <4>1. /\ rec[m].id \in DOMAIN node /\ node[rec[m].id].adapters = rec[m].adapters
            /\ node[rec[m].id].name = m
            /\ rec[m].status = "stopped" => node[rec[m].id].status = "stopped"
        BY <1>1, <3>2 DEF Nodes, RecordsTyped, Phased, RecordsTrue, Building, name
      <4>2. rec[m].id # i
        BY <1>4, <4>1, StrayAssumption
      <4> QED BY <2>1, <4>1, <4>2
    <3> QED BY <3>1, <3>2
  <2>6. Settled' /\ LinksSeen'
    BY <1>1, <1>9 DEF Nodes, Phased, Settled, LinksSeen, Building
  <2> QED BY <2>1, <2>2, <2>4, <2>5, <2>6 DEF Nodes, Phased
<1>10. Call(node' = [node EXCEPT ![i] = n] /\ UNCHANGED <<project, link>>,
            at' = "adapters" /\ UNCHANGED <<mode, k, rec, have, only, failures>>)
  BY DEF RenameNode, n, i, name
<1> QED BY <1>6, <1>8, <1>9, <1>10

(* Two names have two nodes.                                                *)
LEMMA IdsDistinct ==
  ASSUME Nodes, at \in {"nodes", "adapters", "resize", "links"},
         NEW m \in DOMAIN rec \intersect Names, NEW name \in DOMAIN rec \intersect Names,
         rec[m].id = rec[name].id
  PROVE  m = name
BY DEF Nodes, Phased, RecordsTrue, Building

(* The node in hand, and that it is stopped when its adapters are set.      *)
LEMMA InHand ==
  ASSUME Nodes, ProcessTyped, at \in {"adapters", "resize"}, k <= Len(topo.nodes),
         NEW name, name = Item(topo.nodes)
  PROVE  /\ name \in DOMAIN rec \intersect Names /\ topo.adapters[name] \in Nat
         /\ rec[name].id \in DOMAIN node /\ node[rec[name].id] \in NodeSet
         /\ node[rec[name].id].name = name /\ rec[name] \in RecordSet
         /\ node[rec[name].id].adapters = rec[name].adapters
         /\ at = "resize" \/ rec[name].status = "stopped" => node[rec[name].id].status = "stopped"
<1>1. /\ name \in DOMAIN rec \intersect Names /\ topo.adapters[name] \in Nat
      /\ rec[name].id \in DOMAIN node /\ rec[name] \in RecordSet
  BY ItemNamed DEF Nodes, RecordsTyped, Phased, Complete, Building
<1>2. node[rec[name].id] \in NodeSet
  BY <1>1, IdsHeld DEF Nodes
<1>3. /\ node[rec[name].id].name = name /\ node[rec[name].id].adapters = rec[name].adapters
      /\ rec[name].status = "stopped" => node[rec[name].id].status = "stopped"
  BY <1>1 DEF Nodes, Phased, RecordsTrue, Building
<1>4. at = "resize" => node[rec[name].id].status = "stopped"
  BY DEF Nodes, Phased, Complete
<1> QED BY <1>1, <1>2, <1>3, <1>4

LEMMA StopKeeps ==
  ASSUME Nodes, ProcessTyped, StopNode
  PROVE  Nodes'
<1> DEFINE name == Item(topo.nodes)
           i == rec[name].id
           n == Stopped(node[i])
<1>1. at = "adapters" /\ k <= Len(topo.nodes) /\ UNCHANGED topo
  BY DEF StopNode, Ensuring
<1>2. /\ name \in DOMAIN rec \intersect Names /\ i \in DOMAIN node /\ node[i] \in NodeSet
      /\ node[i].name = name /\ node[i].adapters = rec[name].adapters
  BY <1>1, InHand
<1>3. /\ n \in NodeSet /\ n.name = node[i].name /\ n.keys = node[i].keys
      /\ n.adapters = node[i].adapters /\ n.status = "stopped"
  BY <1>2, PowerKeeps
<1> HIDE DEF n, i, name
<1>4. CASE UNCHANGED server /\ Fails
  BY <1>4, RefusedKeeps
<1>5. ASSUME node' = [node EXCEPT ![i] = n], UNCHANGED <<project, link>>
      PROVE  /\ ServerTyped' /\ Distinct' /\ DOMAIN node' = DOMAIN node /\ node'[i] = n
             /\ \A j \in DOMAIN node : j # i => node'[j] = node[j]
  BY <1>2, <1>3, <1>5, ChangeDistinct, OneChanged DEF Nodes
<1>6. CASE node' = [node EXCEPT ![i] = n] /\ UNCHANGED <<project, link>> /\ Fails
  <2>1. RecordsTyped'
    BY <1>6 DEF RecordsTyped
  <2> QED BY <1>5, <1>6, <2>1, EndedUnphased DEF Nodes
<1>7. CASE /\ node' = [node EXCEPT ![i] = n] /\ UNCHANGED <<project, link>>
           /\ at' = "resize" /\ UNCHANGED <<mode, k, rec, have, only, failures>>
  <2>1. /\ ServerTyped' /\ Distinct' /\ DOMAIN node' = DOMAIN node /\ node'[i] = n
        /\ \A j \in DOMAIN node : j # i => node'[j] = node[j]
    BY <1>5, <1>7
  <2>2. RecordsTyped'
    BY <1>7, <2>1 DEF Nodes, RecordsTyped
  <2>3. \A j \in DOMAIN node : /\ node'[j].name = node[j].name /\ node'[j].adapters = node[j].adapters
                               /\ node[j].status = "stopped" => node'[j].status = "stopped"
    BY <1>3, <2>1
  <2>4. Complete'
    <3>1. \A j \in DOMAIN node' : node'[j].name \in Names => node'[j].name \in DOMAIN rec'
      BY <1>1, <1>7, <2>1, <2>3 DEF Nodes, Phased, Complete, Building
    <3>2. Item(topo.nodes)' = name /\ topo' = topo
      BY <1>1, <1>7 DEF name, Item
    <3>3. Held(Item(topo.nodes))'.status = "stopped"
      BY <1>3, <1>7, <2>1, <3>2 DEF i
    <3> QED BY <1>1, <1>2, <1>7, <3>1, <3>2, <3>3 DEF Complete
  <2>5. RecordsTrue'
    BY <1>1, <1>7, <2>1, <2>3 DEF Nodes, RecordsTyped, Phased, RecordsTrue, Building
  <2>6. Settled' /\ LinksSeen'
    BY <1>1, <1>7 DEF Nodes, Phased, Settled, LinksSeen, Building
  <2> QED BY <2>1, <2>2, <2>4, <2>5, <2>6 DEF Nodes, Phased
<1>8. Call(node' = [node EXCEPT ![i] = n] /\ UNCHANGED <<project, link>>,
           at' = "resize" /\ UNCHANGED <<mode, k, rec, have, only, failures>>)
  BY DEF StopNode, n, i, name
<1> QED BY <1>4, <1>6, <1>7, <1>8

LEMMA ResizeKeeps ==
  ASSUME Nodes, ProcessTyped, SetAdapters
  PROVE  Nodes'
<1> DEFINE name == Item(topo.nodes)
           i == rec[name].id
           count == topo.adapters[name]
           n == [node[i] EXCEPT !.adapters = count]
           r == [rec[name] EXCEPT !.status = node[i].status, !.adapters = count]
<1>1. at \in {"adapters", "resize"} /\ k <= Len(topo.nodes) /\ UNCHANGED topo
  BY DEF SetAdapters, Ensuring
<1>2. /\ name \in DOMAIN rec \intersect Names /\ i \in DOMAIN node /\ node[i] \in NodeSet
      /\ node[i].name = name /\ count \in Nat /\ rec[name] \in RecordSet
  BY <1>1, InHand
<1>3. /\ n \in NodeSet /\ n.name = node[i].name /\ n.keys = node[i].keys /\ n.adapters = count
      /\ n.status = node[i].status
  BY <1>2 DEF NodeSet
<1>4. r \in RecordSet /\ r.id = i /\ r.status = node[i].status /\ r.adapters = count
  BY <1>2 DEF RecordSet, NodeSet
<1>5. Call(node' = [node EXCEPT ![i] = n] /\ UNCHANGED <<project, link>>,
           /\ rec' = [rec EXCEPT ![name] = r]
           /\ at' = "nodes" /\ k' = k + 1 /\ UNCHANGED <<mode, have, only, failures>>)
  <2>1. [rec EXCEPT ![name].status = node[i].status, ![name].adapters = count]
          = [rec EXCEPT ![name] = r]
    BY <1>2 DEF RecordSet
  <2> QED BY <2>1 DEF SetAdapters
<1>6. name = topo.nodes[k]
  BY DEF Item
<1> HIDE DEF n, i, name, r, count
<1>7. CASE UNCHANGED server /\ Fails
  BY <1>7, RefusedKeeps
<1>8. ASSUME node' = [node EXCEPT ![i] = n], UNCHANGED <<project, link>>
      PROVE  /\ ServerTyped' /\ Distinct' /\ DOMAIN node' = DOMAIN node /\ node'[i] = n
             /\ \A j \in DOMAIN node : j # i => node'[j] = node[j]
  BY <1>2, <1>3, <1>8, ChangeDistinct, OneChanged DEF Nodes
<1>9. CASE node' = [node EXCEPT ![i] = n] /\ UNCHANGED <<project, link>> /\ Fails
  <2>1. RecordsTyped'
    BY <1>9 DEF RecordsTyped
  <2> QED BY <1>8, <1>9, <2>1, EndedUnphased DEF Nodes
<1>10. CASE /\ node' = [node EXCEPT ![i] = n] /\ UNCHANGED <<project, link>>
            /\ rec' = [rec EXCEPT ![name] = r]
            /\ at' = "nodes" /\ k' = k + 1 /\ UNCHANGED <<mode, have, only, failures>>
  <2>1. /\ ServerTyped' /\ Distinct' /\ DOMAIN node' = DOMAIN node /\ node'[i] = n
        /\ \A j \in DOMAIN node : j # i => node'[j] = node[j]
    BY <1>8, <1>10
  <2>2. /\ rec \in [DOMAIN rec -> RecordSet] /\ DOMAIN rec \subseteq Names \union {Stray}
        /\ \A m \in DOMAIN rec : rec[m].id \in DOMAIN node
    BY DEF Nodes, RecordsTyped
  <2>3. /\ DOMAIN rec' = DOMAIN rec /\ rec'[name] = r
        /\ \A m \in DOMAIN rec : m # name => rec'[m] = rec[m]
    BY <1>2, <1>10, <2>2
  <2>4. RecordsTyped'
    <3>1. rec' \in [DOMAIN rec' -> RecordSet]
      BY <1>4, <1>10, <2>2
    <3>2. \A m \in DOMAIN rec' : rec'[m].id \in DOMAIN node'
      BY <1>2, <1>4, <2>1, <2>2, <2>3
    <3> QED BY <2>2, <2>3, <3>1, <3>2 DEF RecordsTyped
  <2>5. Complete'
    <3>1. \A j \in DOMAIN node' : node'[j].name \in Names => node'[j].name \in DOMAIN rec'
      BY <1>1, <1>3, <2>1, <2>3 DEF Nodes, Phased, Complete, Building
    <3> QED BY <1>10, <3>1 DEF Complete, Building
  <2>6. RecordsTrue'
    <3> SUFFICES ASSUME NEW m \in DOMAIN rec \intersect Names
                 PROVE  /\ node'[rec'[m].id].adapters = rec'[m].adapters
                        /\ node'[rec'[m].id].name = m
                        /\ rec'[m].status = "stopped" => node'[rec'[m].id].status = "stopped"
      BY <2>3 DEF RecordsTrue
    <3>1. CASE m = name
      BY <1>2, <1>3, <1>4, <2>1, <2>3, <3>1
    <3>2. CASE m # name
      <4>1. /\ rec[m].id \in DOMAIN node /\ node[rec[m].id].adapters = rec[m].adapters
            /\ node[rec[m].id].name = m
            /\ rec[m].status = "stopped" => node[rec[m].id].status = "stopped"
        BY <1>1, <2>2 DEF Nodes, Phased, RecordsTrue, Building
      <4>2. rec[m].id # i
        BY <1>2, <3>2, <4>1
      <4> QED BY <2>1, <2>3, <3>2, <4>1, <4>2
    <3> QED BY <3>1, <3>2
  <2>7. Settled'
    <3> SUFFICES ASSUME NEW j \in DOMAIN topo.nodes, j < k + 1
                 PROVE  /\ topo.nodes[j] \in DOMAIN rec'
                        /\ topo.adapters[topo.nodes[j]] \in {0, rec'[topo.nodes[j]].adapters}
      BY <1>1, <1>10 DEF Settled
    <3>1. CASE topo.nodes[j] = name
      BY <1>2, <1>4, <2>3, <3>1 DEF count
    <3>2. CASE topo.nodes[j] # name
      <4>1. topo.nodes \in Seq(Names) /\ k \in Nat
        BY Zenon, TopologiesAssumption DEF ProcessTyped
      <4>2. j < k
        BY <1>6, <3>2, <4>1
      <4> QED BY <1>1, <2>3, <3>2, <4>2 DEF Nodes, Phased, Settled, Building
    <3> QED BY <3>1, <3>2
  <2>8. LinksSeen'
    BY <1>10 DEF LinksSeen
  <2> QED BY <2>1, <2>4, <2>5, <2>6, <2>7, <2>8 DEF Nodes, Phased
<1> QED BY <1>5, <1>7, <1>9, <1>10

(* The ends of two links of the file are two.                               *)
LEMMA LinkNamed ==
  ASSUME Nodes, ProcessTyped, at = "links", NEW j \in DOMAIN topo.links, NEW e \in topo.links[j]
  PROVE  /\ e \in Names \X Nat /\ e[1] \in DOMAIN rec \intersect Names /\ rec[e[1]].id \in DOMAIN node
         /\ Held(e[1]).name = e[1] /\ e[1] \in NamesOf(topo)
         /\ topo.adapters[e[1]] \in {0, Held(e[1]).adapters}
<1>1. topo.links \in Seq(SUBSET (Names \X Nat)) /\ \E i \in DOMAIN topo.nodes : topo.nodes[i] = e[1]
  BY Zenon, TopologiesAssumption DEF ProcessTyped
<1>2. e \in Names \X Nat
  BY <1>1
<1>3. /\ e[1] \in DOMAIN rec /\ topo.adapters[e[1]] \in {0, rec[e[1]].adapters}
      /\ e[1] \in NamesOf(topo)
  BY <1>1 DEF Nodes, Phased, Settled, NamesOf
<1>4. Held(e[1]).name = e[1] /\ Held(e[1]).adapters = rec[e[1]].adapters
  BY <1>2, <1>3 DEF Nodes, Phased, RecordsTrue
<1> QED BY <1>2, <1>3, <1>4 DEF Nodes, RecordsTyped

LEMMA EndsInjective ==
  ASSUME Nodes, ProcessTyped, at = "links",
         NEW i \in DOMAIN topo.links, NEW j \in DOMAIN topo.links,
         EndsOf(topo.links[i]) = EndsOf(topo.links[j])
  PROVE  i = j
<1>1. ASSUME NEW a \in DOMAIN topo.links, NEW b \in DOMAIN topo.links,
             EndsOf(topo.links[a]) = EndsOf(topo.links[b]), NEW e \in topo.links[a]
      PROVE  e \in topo.links[b]
  <2>1. <<rec[e[1]].id, e[2]>> \in EndsOf(topo.links[b])
    BY <1>1 DEF EndsOf
  <2>2. PICK f \in topo.links[b] : <<rec[e[1]].id, e[2]>> = <<rec[f[1]].id, f[2]>>
    BY <2>1 DEF EndsOf
  <2>3. /\ e \in Names \X Nat /\ f \in Names \X Nat
        /\ e[1] \in DOMAIN rec \intersect Names /\ f[1] \in DOMAIN rec \intersect Names
    BY <1>1, <2>2, LinkNamed
  <2>4. rec[e[1]].id = rec[f[1]].id /\ e[2] = f[2]
    BY <2>2
  <2>5. e[1] = f[1]
    BY <2>3, <2>4, IdsDistinct
  <2> QED BY <2>2, <2>3, <2>4, <2>5
<1>2. topo.links[i] = topo.links[j]
  BY <1>1
<1> QED BY Zenon, <1>2, TopologiesAssumption DEF ProcessTyped

LEMMA LinkKeeps ==
  ASSUME Nodes, ProcessTyped, EnsureLink
  PROVE  Nodes'
<1> DEFINE ends == EndsOf(Item(topo.links))
<1>1. at = "links" /\ k <= Len(topo.links) /\ UNCHANGED topo
  BY DEF EnsureLink
<1>2. k \in DOMAIN topo.links /\ Item(topo.links) = topo.links[k] /\ k \in Nat
      /\ \A i \in DOMAIN topo.links : i \in Nat
  <2>1. topo.links \in Seq(SUBSET (Names \X Nat)) /\ k \in Nat \ {0}
    BY Zenon, TopologiesAssumption DEF ProcessTyped
  <2> QED BY <1>1, <2>1 DEF Item
<1>3. ends \in SUBSET ((DOMAIN node) \X Nat)
  BY <1>1, <1>2, LinkNamed DEF EndsOf
<1>4. ends \notin have => \A j \in DOMAIN link : link[j] # ends
  <2> SUFFICES ASSUME ends \notin have, NEW j \in DOMAIN link, link[j] = ends
               PROVE  FALSE
    OBVIOUS
  <2>1. PICK i \in DOMAIN topo.links : i < k /\ ends = EndsOf(topo.links[i])
    BY <1>1 DEF Nodes, Phased, LinksSeen
  <2>2. i = k
    BY <1>1, <1>2, <2>1, EndsInjective
  <2> QED BY <1>2, <2>1, <2>2
<1>5. ASSUME NextItem, UNCHANGED <<topo, node, rec>>,
             link' = link \/ link' = Append(link, ends),
             \A j \in DOMAIN link' : link'[j] \in {link[l] : l \in DOMAIN link} \union have \union {ends}
      PROVE  Phased'
  <2>1. Complete'
    BY <1>1, <1>5 DEF Complete, Building
  <2>2. RecordsTrue' /\ Settled'
    BY <1>1, <1>5 DEF Nodes, Phased, RecordsTrue, Settled, Building
  <2>3. LinksSeen'
    <3> SUFFICES ASSUME NEW j \in DOMAIN link'
                 PROVE  \/ link'[j] \in have
                        \/ \E i \in DOMAIN topo.links : i < k + 1 /\ link'[j] = EndsOf(topo.links[i])
      BY <1>5 DEF LinksSeen, EndsOf
    <3>1. CASE link'[j] = ends
      BY <1>2, <3>1
    <3>2. CASE link'[j] \in {link[l] : l \in DOMAIN link}
      <4>1. \/ link'[j] \in have
            \/ \E i \in DOMAIN topo.links : i < k /\ link'[j] = EndsOf(topo.links[i])
        BY <1>1, <3>2 DEF Nodes, Phased, LinksSeen
      <4> QED BY <1>2, <4>1
    <3> QED BY <1>5, <3>1, <3>2
  <2> QED BY <2>1, <2>2, <2>3 DEF Phased
<1>6. ASSUME link' = Append(link, ends), ends \notin have, UNCHANGED <<project, node>>
      PROVE  /\ ServerTyped' /\ Distinct'
             /\ \A j \in DOMAIN link' : link'[j] \in {link[l] : l \in DOMAIN link} \union have \union {ends}
  <2>1. link \in Seq(SUBSET (Nat \X Nat)) /\ ends \in SUBSET (Nat \X Nat)
    <3>1. node \in Seq(NodeSet)
      BY DEF Nodes, ServerTyped
    <3>2. DOMAIN node \subseteq Nat
      BY <3>1
    <3> QED BY <1>3, <3>2 DEF Nodes, ServerTyped
  <2> HIDE DEF ends
  <2>2. /\ DOMAIN link' = 1 .. Len(link) + 1 /\ DOMAIN link = 1 .. Len(link) /\ Len(link) \in Nat
        /\ link'[Len(link) + 1] = ends /\ \A j \in DOMAIN link : link'[j] = link[j]
        /\ link' \in Seq(SUBSET (Nat \X Nat))
    BY <1>6, <2>1
  <2>3. \A j \in DOMAIN link' : j \in DOMAIN link \/ j = Len(link) + 1
    BY <2>2
  <2>4. ServerTyped'
    BY <1>3, <1>6, <2>2, <2>3 DEF Nodes, ServerTyped
  <2>5. Distinct'
    BY <1>4, <1>6, <2>2, <2>3 DEF Nodes, Distinct
  <2> QED BY <2>2, <2>3, <2>4, <2>5
<1>7. CASE ends \in have /\ NextItem /\ UNCHANGED <<server, faults, said>>
  <2>1. RecordsTyped' /\ ServerTyped' /\ Distinct'
    BY <1>7 DEF Nodes, RecordsTyped, ServerTyped, Distinct
  <2>2. rec' = rec /\ \A j \in DOMAIN link' : link'[j] \in {link[l] : l \in DOMAIN link}
    BY <1>7
  <2>3. Phased'
    BY <1>1, <1>5, <1>7, <2>2
  <2> QED BY <2>1, <2>3 DEF Nodes
<1>8. CASE ends \notin have /\ link' = Append(link, ends) /\ UNCHANGED <<project, node>> /\ Fails
  <2>1. RecordsTyped'
    BY <1>8 DEF RecordsTyped
  <2> QED BY <1>6, <1>8, <2>1, EndedUnphased DEF Nodes
<1>9. CASE ends \notin have /\ link' = Append(link, ends) /\ UNCHANGED <<project, node>> /\ NextItem
  <2>1. RecordsTyped'
    BY <1>9 DEF Nodes, RecordsTyped
  <2> QED BY <1>1, <1>5, <1>6, <1>9, <2>1 DEF Nodes
<1>10. CASE UNCHANGED server /\ Fails
  BY <1>10, RefusedKeeps
<1> QED BY <1>7, <1>8, <1>9, <1>10 DEF EnsureLink

(* ------------------------------------------------------------------------ *)
(* Every other step.                                                        *)

LEMMA QuietNodes ==
  ASSUME Nodes, Quiet, Phased'
  PROVE  Nodes'
<1>1. ServerTyped' /\ RecordsTyped'
  BY QuietTypes DEF Nodes
<1>2. DOMAIN node' = DOMAIN node /\ \A i \in DOMAIN node : node'[i].name = node[i].name
  BY DEF Quiet, Kept, Nodes, ServerTyped
<1>3. \A i \in DOMAIN node' : node'[i].keys <= 1
  BY <1>2 DEF Quiet, Kept, Nodes, Distinct
<1>4. Distinct'
  BY <1>2, <1>3 DEF Quiet, Nodes, Distinct
<1> QED BY <1>1, <1>4 DEF Nodes

LEMMA PhasedReaders ==
  ASSUME Nodes, ProcessTyped, ListNodes \/ ReuseNode \/ AdaptersRight \/ ListLinks
  PROVE  Phased'
<1>0. topo.nodes \in Seq(Names) /\ k \in Nat \ {0}
  BY Zenon, TopologiesAssumption DEF ProcessTyped
<1>1. CASE ListNodes
  <2>1. CASE at' = "nodes"
    <3>1. /\ rec' = Listed /\ k' = 1 /\ UNCHANGED <<node, topo>>
      BY <1>1, <2>1 DEF ListNodes
    <3>2. Complete'
      BY <2>1, <3>1 DEF Complete, Building, Listed
    <3>3. RecordsTrue'
      BY <2>1, <3>1, ListedTrue DEF RecordsTrue, Nodes
    <3>4. Settled'
      BY <1>0, <2>1, <3>1 DEF Settled
    <3> QED BY <2>1, <3>2, <3>3, <3>4 DEF Phased, LinksSeen
  <2>2. CASE at' # "nodes"
    BY <1>1, <2>2, Unphased DEF ListNodes, Building
  <2> QED BY <2>1, <2>2
<1>2. CASE ReuseNode
  <2>1. /\ at = "nodes" /\ at' = "adapters" /\ k <= Len(topo.nodes) /\ Item(topo.nodes) \in DOMAIN rec
        /\ UNCHANGED <<topo, node, link, k, rec, have>> /\ Item(topo.nodes)' = Item(topo.nodes)
    BY <1>2 DEF ReuseNode, Ensuring, Item
  <2>2. Complete'
    BY <2>1 DEF Nodes, Phased, Complete, Building
  <2>3. RecordsTrue' /\ Settled' /\ LinksSeen'
    BY <2>1 DEF Nodes, Phased, RecordsTrue, Settled, LinksSeen, Building
  <2> QED BY <2>2, <2>3 DEF Phased
<1>3. CASE AdaptersRight
  <2>1. /\ at = "adapters" /\ at' = "nodes" /\ k <= Len(topo.nodes) /\ ~ Lacks(Item(topo.nodes))
        /\ k' = k + 1 /\ UNCHANGED <<topo, node, link, rec, have>>
    BY <1>3 DEF AdaptersRight, Ensuring
  <2>2. Complete' /\ RecordsTrue' /\ LinksSeen'
    BY <2>1 DEF Nodes, Phased, Complete, RecordsTrue, LinksSeen, Building
  <2>3. Settled'
    <3> SUFFICES ASSUME NEW j \in DOMAIN topo.nodes, j < k + 1
                 PROVE  /\ topo.nodes[j] \in DOMAIN rec
                        /\ topo.adapters[topo.nodes[j]] \in {0, rec[topo.nodes[j]].adapters}
      BY <2>1 DEF Settled
    <3>1. j < k \/ j = k
      BY <1>0
    <3> QED BY <2>1, <3>1, ItemNamed DEF Nodes, Phased, Complete, Settled, Building, Lacks
  <2> QED BY <2>2, <2>3 DEF Phased
<1>4. CASE ListLinks
  <2>1. CASE at' = "links"
    <3>1. /\ at = "nodes" /\ k > Len(topo.nodes) /\ UNCHANGED <<topo, node, link, rec>>
          /\ have' = {link[j] : j \in DOMAIN link}
      BY <1>4, <2>1 DEF ListLinks
    <3>2. Complete' /\ LinksSeen'
      BY <2>1, <3>1 DEF Complete, LinksSeen, Building
    <3>3. RecordsTrue'
      BY <2>1, <3>1 DEF Nodes, Phased, RecordsTrue, Building
    <3>4. \A j \in DOMAIN topo.nodes : j < k
      BY <1>0, <3>1
    <3>5. Settled'
      BY <2>1, <3>1, <3>4 DEF Nodes, Phased, Settled, Building
    <3> QED BY <3>2, <3>3, <3>5 DEF Phased
  <2>2. CASE at' # "links"
    BY <1>4, <2>2, Unphased DEF ListLinks, Building
  <2> QED BY <2>1, <2>2
<1> QED BY <1>1, <1>2, <1>3, <1>4

(* Power lost in the middle of a run leaves what the records say.           *)
LEMMA PowerLossPhased ==
  ASSUME Nodes, PowerLoss
  PROVE  Phased'
<1>1. /\ UNCHANGED <<topo, link, at, k, rec, have>> /\ DOMAIN node' = DOMAIN node
      /\ \A i \in DOMAIN node : node'[i] \in {node[i], Damaged(node[i]), Stopped(node[i])}
  BY PowerLost DEF PowerLoss
<1>2. \A i \in DOMAIN node :
        /\ node'[i].name = node[i].name /\ node'[i].adapters = node[i].adapters
        /\ node[i].status = "stopped" => node'[i].status = "stopped"
  BY <1>1, IdsHeld, PowerKeeps DEF Nodes
<1>3. \A m \in DOMAIN rec : rec[m].id \in DOMAIN node
  BY DEF Nodes, RecordsTyped
<1>4. Item(topo.nodes)' = Item(topo.nodes)
  BY <1>1 DEF Item
<1>5. Complete'
  <2>1. at' \in Building =>
          \A i \in DOMAIN node' : node'[i].name \in Names => node'[i].name \in DOMAIN rec'
    BY <1>1, <1>2 DEF Nodes, Phased, Complete
  <2>2. at' = "rename" => \A i \in DOMAIN node' : node'[i].name # Item(topo.nodes)
    BY <1>1, <1>2 DEF Nodes, Phased, Complete
  <2>3. at' = "resize" => node'[rec[Item(topo.nodes)].id].status = "stopped"
    BY <1>1, <1>2, <1>3 DEF Nodes, Phased, Complete, Building
  <2>4. at' \in Building \ {"nodes"} => k' <= Len(topo.nodes') /\ Item(topo.nodes) \in DOMAIN rec'
    BY <1>1 DEF Nodes, Phased, Complete
  <2> QED BY <1>1, <1>4, <2>1, <2>2, <2>3, <2>4 DEF Complete
<1>6. RecordsTrue'
  BY <1>1, <1>2, <1>3, <1>4 DEF Nodes, Phased, RecordsTrue
<1>7. Settled' /\ LinksSeen'
  BY <1>1 DEF Nodes, Phased, Settled, LinksSeen, EndsOf
<1> QED BY <1>5, <1>6, <1>7 DEF Phased

(* No other step ends among the phases of nodes and links.                  *)
LEMMA ElsewhereUnphased ==
  ASSUME \/ EnsureProject \/ LinksDone \/ StartDevice \/ DevicesStarted
         \/ WriteInterfaces \/ StartHost \/ AuthorizeKey \/ Install \/ BringUpAddresses
         \/ RelistNodes \/ StartSwitch \/ NextDevice \/ DevicesDone
         \/ AwaitJunos \/ ReachPrompt \/ PushConfig \/ WriteMemory \/ Commit \/ ShowIp \/ ReadBack
         \/ Check \/ Verdict \/ Observe \/ Power \/ Proven
  PROVE  Phased'
<1>1. CASE EnsureProject \/ LinksDone \/ StartDevice \/ DevicesStarted
  BY <1>1, Unphased
  DEF EnsureProject, LinksDone, StartDevice, DevicesStarted, StartIfNotStarted, Building, Ended
<1>2. CASE WriteInterfaces \/ StartHost \/ RelistNodes \/ StartSwitch
  BY <1>2, Unphased
  DEF WriteInterfaces, StartHost, RelistNodes, StartSwitch, StartIfNotStarted, Building
<1>3. CASE AuthorizeKey \/ Install \/ BringUpAddresses
  BY <1>3, Unphased DEF AuthorizeKey, Install, BringUpAddresses, Typed, Building
<1>4. CASE NextDevice \/ DevicesDone \/ AwaitJunos \/ ReachPrompt \/ PushConfig
  BY <1>4, Unphased DEF NextDevice, DevicesDone, AwaitJunos, ReachPrompt, PushConfig, Building
<1>5. CASE WriteMemory \/ Commit \/ ShowIp \/ ReadBack
  BY <1>5, Unphased DEF WriteMemory, Commit, ShowIp, ReadBack, Typed, DeviceDone, Building
<1>6. CASE Check \/ Verdict \/ Observe \/ Power \/ Proven
  BY <1>6, Unphased DEF Check, Verdict, Observe, Power, Proven, Building
<1> QED BY <1>1, <1>2, <1>3, <1>4, <1>5, <1>6

LEMMA WorldUnphased ==
  ASSUME World, ~ PowerLoss
  PROVE  Phased'
BY Unphased
DEF World, EditTopology, OperatorPowers, ResetDisk, HardenDevice, StartRun, ByHand, Ended, Building

(* ------------------------------------------------------------------------ *)
(* The invariant.                                                           *)

Inv == Nodes /\ ProcessTyped /\ CountsTyped /\ PlaceKnown /\ said \subseteq Names

LEMMA InitInv ==
  ASSUME Init
  PROVE  Inv
<1>1. node = <<>> /\ link = <<>> /\ rec = <<>> /\ at = "idle"
  BY DEF Init
<1>2. ServerTyped /\ RecordsTyped /\ Distinct
  BY <1>1 DEF Init, ServerTyped, RecordsTyped, Distinct
<1>3. Phased
  BY <1>1 DEF Phased, Complete, RecordsTrue, Settled, LinksSeen, Building
<1>4. failures \in BOOLEAN
  BY Zenon DEF Init
<1>5. ProcessTyped /\ CountsTyped /\ PlaceKnown /\ said \subseteq Names
  BY <1>4, BoundsAssumption, OriginalsAssumption DEF Init, ProcessTyped, CountsTyped, PlaceKnown, Phases, Ended
<1> QED BY <1>2, <1>3, <1>5 DEF Inv, Nodes

LEMMA NodesStep ==
  ASSUME Inv, Next
  PROVE  Nodes'
<1> USE DEF Inv
<1>1. CASE CreateBuiltin
  <2> DEFINE name == Item(topo.nodes)
             status == IF AlwaysOn(name) THEN "started" ELSE "stopped"
  <2>1. /\ at = "nodes" /\ k <= Len(topo.nodes) /\ name \notin DOMAIN rec /\ UNCHANGED topo
        /\ Created(name, "adapters", NewNode(name, status)) /\ status \in {"started", "stopped"}
    BY <1>1 DEF CreateBuiltin, Ensuring
  <2> QED BY <2>1, CreationKeeps
<1>2. CASE CreateFromTemplate
  <2> DEFINE name == Item(topo.nodes)
  <2>1. /\ at = "nodes" /\ k <= Len(topo.nodes) /\ name \notin DOMAIN rec /\ UNCHANGED topo
        /\ \/ Created(name, "adapters", NewNode(name, "stopped"))
           \/ Created(name, "rename", NewNode(Stray, "stopped"))
    BY <1>2 DEF CreateFromTemplate, Ensuring
  <2> QED BY <2>1, CreationKeeps
<1>3. CASE RenameNode \/ StopNode \/ SetAdapters \/ EnsureLink
  BY <1>3, RenameKeeps, StopKeeps, ResizeKeeps, LinkKeeps
<1>4. CASE ListNodes \/ ReuseNode \/ AdaptersRight \/ ListLinks
  BY <1>4, QuietReaders, PhasedReaders, QuietNodes DEF Nodes
<1>5. CASE World
  BY <1>5, QuietWorld, PowerLossPhased, WorldUnphased, QuietNodes DEF Nodes
<1>6. CASE \/ EnsureProject \/ LinksDone \/ StartDevice \/ DevicesStarted
           \/ RelistNodes \/ StartSwitch \/ NextDevice \/ DevicesDone
           \/ Check \/ Verdict \/ Observe \/ Power \/ Proven
  BY <1>6, QuietReaders, ElsewhereUnphased, QuietNodes DEF Nodes
<1>7. CASE WriteInterfaces \/ StartHost \/ AuthorizeKey \/ Install \/ BringUpAddresses
  BY <1>7, QuietHost, ElsewhereUnphased, QuietNodes DEF Nodes
<1>8. CASE AwaitJunos \/ ReachPrompt \/ PushConfig \/ WriteMemory \/ Commit \/ ShowIp \/ ReadBack
  BY <1>8, QuietDevices, ElsewhereUnphased, QuietNodes DEF Nodes
<1> QED
  BY <1>1, <1>2, <1>3, <1>4, <1>5, <1>6, <1>7, <1>8 DEF Next, Program

(* A program acts while it has not ended.                                   *)
LEMMA ProgramRuns ==
  ASSUME Program
  PROVE  at \notin Ended
<1>1. CASE \/ EnsureProject \/ ListNodes \/ ReuseNode \/ CreateBuiltin \/ CreateFromTemplate
           \/ RenameNode \/ AdaptersRight \/ StopNode \/ SetAdapters \/ ListLinks \/ EnsureLink
           \/ LinksDone \/ StartDevice \/ DevicesStarted
  BY <1>1
  DEF Ended, EnsureProject, ListNodes, ReuseNode, CreateBuiltin, CreateFromTemplate, RenameNode,
      AdaptersRight, StopNode, SetAdapters, ListLinks, EnsureLink, LinksDone, StartDevice,
      DevicesStarted, Ensuring
<1>2. CASE \/ WriteInterfaces \/ StartHost \/ AuthorizeKey \/ Install \/ BringUpAddresses
           \/ RelistNodes \/ StartSwitch
  BY <1>2 DEF Ended, WriteInterfaces, StartHost, AuthorizeKey, Install, BringUpAddresses,
              RelistNodes, StartSwitch
<1>3. CASE \/ NextDevice \/ AwaitJunos \/ ReachPrompt \/ PushConfig \/ WriteMemory \/ Commit
           \/ ShowIp \/ ReadBack \/ DevicesDone
  BY <1>3 DEF Ended, NextDevice, AwaitJunos, ReachPrompt, PushConfig, WriteMemory, Commit, ShowIp,
              ReadBack, DevicesDone
<1>4. CASE Check \/ Verdict \/ Observe \/ Power \/ Proven
  BY <1>4 DEF Ended, Check, Verdict, Observe, Power, Proven
<1> QED BY <1>1, <1>2, <1>3, <1>4 DEF Program

LEMMA ProgramControlled ==
  ASSUME ProcessTyped, Program
  PROVE  Controlled
BY ProgramRuns, BuildControlled, HostControlled, DevicesControlled, ChecksControlled DEF Program

(* Where a device is in hand, it is the switch or one of the list.          *)
LEMMA PlaceKept ==
  ASSUME ProcessTyped, PlaceKnown, Next
  PROVE  PlaceKnown'
<1>1. ASSUME Program
      PROVE  UNCHANGED topo /\ (at' \in Ended => only' = {})
  BY <1>1, ProgramControlled DEF Controlled
<1>2. ASSUME at' \notin {"switch", "reach", "push", "save", "readback"}, Program
      PROVE  PlaceKnown'
  BY <1>1, <1>2 DEF PlaceKnown
<1>3. CASE \/ EnsureProject \/ ListNodes \/ ReuseNode \/ CreateBuiltin \/ CreateFromTemplate
           \/ RenameNode \/ AdaptersRight
  <2>1. at' \notin {"switch", "reach", "push", "save", "readback"}
    BY <1>3 DEF EnsureProject, ListNodes, ReuseNode, CreateBuiltin, CreateFromTemplate, Created,
                RenameNode, AdaptersRight
  <2> QED BY <1>2, <1>3, <2>1 DEF Program
<1>4. CASE \/ StopNode \/ SetAdapters \/ ListLinks \/ EnsureLink
           \/ LinksDone \/ StartDevice \/ DevicesStarted
  <2>1. at' \notin {"switch", "reach", "push", "save", "readback"}
    BY <1>4 DEF StopNode, SetAdapters, ListLinks, EnsureLink, LinksDone, StartDevice,
                DevicesStarted, StartIfNotStarted
  <2> QED BY <1>2, <1>4, <2>1 DEF Program
<1>5. CASE \/ WriteInterfaces \/ StartHost \/ AuthorizeKey \/ Install \/ RelistNodes
  <2>1. at' \notin {"switch", "reach", "push", "save", "readback"}
    BY <1>5 DEF WriteInterfaces, StartHost, AuthorizeKey, Install, RelistNodes, StartIfNotStarted,
                Typed
  <2> QED BY <1>2, <1>5, <2>1 DEF Program
<1>6. CASE \/ DevicesDone \/ Commit \/ ShowIp \/ ReadBack
           \/ Check \/ Verdict \/ Observe \/ Power \/ Proven
  <2>1. at' \notin {"switch", "reach", "push", "save", "readback"}
    BY <1>6 DEF DevicesDone, Commit, ShowIp, ReadBack, DeviceDone, Typed, Check, Verdict, Observe,
                Power, Proven
  <2> QED BY <1>2, <1>6, <2>1 DEF Program
<1>7. CASE BringUpAddresses
  BY <1>1, <1>7 DEF BringUpAddresses, Typed, PlaceKnown, Program
<1>8. CASE StartSwitch \/ NextDevice \/ AwaitJunos \/ ReachPrompt \/ PushConfig \/ WriteMemory
  <2>1. UNCHANGED topo /\ (at' \in Ended => only' = {})
    BY <1>1, <1>8 DEF Program
  <2>2. /\ at' # "switch" \/ at' = at
        /\ at' \in {"reach", "push", "save", "readback"} /\ topo.devices # <<>>
             => k' = k /\ (at = "devices" => k <= Len(topo.devices))
                /\ at \in {"reach", "push", "save", "readback", "devices"}
    BY <1>8 DEF StartSwitch, NextDevice, AwaitJunos, ReachPrompt, PushConfig, WriteMemory,
                StartIfNotStarted, Typed, PlaceKnown
  <2> QED BY <2>1, <2>2 DEF PlaceKnown
<1>9. CASE World
  BY <1>9 DEF World, PowerLoss, EditTopology, OperatorPowers, ResetDisk, HardenDevice, StartRun, ByHand,
              PlaceKnown, Ended
<1> QED
  BY <1>3, <1>4, <1>5, <1>6, <1>7, <1>8, <1>9 DEF Next, Program

(* Only the read back says that a device is saved.                          *)
LEMMA SaidBy ==
  ASSUME Next
  PROVE  said' = said \/ (ReadBack /\ said' = said \union {Device})
<1>1. CASE \/ EnsureProject \/ ListNodes \/ ReuseNode \/ CreateBuiltin
           \/ CreateFromTemplate \/ RenameNode
  BY <1>1 DEF EnsureProject, ListNodes, ReuseNode, CreateBuiltin, CreateFromTemplate,
              Created, RenameNode
<1>2. CASE \/ AdaptersRight \/ StopNode \/ SetAdapters \/ ListLinks \/ EnsureLink
           \/ LinksDone \/ StartDevice \/ DevicesStarted
  BY <1>2 DEF AdaptersRight, StopNode, SetAdapters, ListLinks, EnsureLink, LinksDone,
              StartDevice, DevicesStarted, StartIfNotStarted
<1>3. CASE \/ WriteInterfaces \/ StartHost \/ AuthorizeKey \/ Install
           \/ BringUpAddresses \/ RelistNodes \/ StartSwitch
  BY <1>3 DEF WriteInterfaces, StartHost, AuthorizeKey, Install, BringUpAddresses,
              RelistNodes, StartSwitch, StartIfNotStarted, Typed
<1>4. CASE \/ NextDevice \/ AwaitJunos \/ ReachPrompt \/ PushConfig \/ WriteMemory
           \/ Commit \/ ShowIp \/ DevicesDone
  BY <1>4 DEF NextDevice, AwaitJunos, ReachPrompt, PushConfig, WriteMemory, Commit, ShowIp,
              DevicesDone, DeviceDone, Typed
<1>5. CASE Check \/ Verdict \/ Observe \/ Power \/ Proven
  BY <1>5 DEF Check, Verdict, Observe, Power, Proven
<1>6. CASE ReadBack
  BY <1>6 DEF ReadBack
<1>7. CASE World
  BY <1>7 DEF World, PowerLoss, EditTopology, OperatorPowers, ResetDisk, HardenDevice, StartRun
<1> QED BY <1>1, <1>2, <1>3, <1>4, <1>5, <1>6, <1>7 DEF Next, Program

LEMMA ProcessStep ==
  ASSUME Inv, Next
  PROVE  ProcessTyped' /\ CountsTyped' /\ said' \subseteq Names
<1>1. CASE Program
  <2>1. Controlled /\ failures' \in BOOLEAN /\ assumed' \subseteq Provided
    BY <1>1, ProgramControlled, FailuresTyped, AssumedTyped DEF Inv, ProcessTyped
  <2>2. ProcessTyped'
    <3>1. topo' \in Topologies /\ only' \subseteq {topo.devices[i] : i \in DOMAIN topo.devices}'
      BY <2>1 DEF Controlled, Inv, ProcessTyped
    <3>2. /\ mode' \in {"build", "verify", "only", "failover"} /\ at' \in Phases
          /\ k' \in Nat \ {0}
      BY <2>1 DEF Controlled, Inv, ProcessTyped
    <3> QED BY Zenon, <2>1, <3>1, <3>2 DEF ProcessTyped
  <2>3. CountsTyped'
    BY <2>1, BoundsAssumption DEF Controlled, Inv, CountsTyped
  <2>4. said' \subseteq Names
    BY <1>1, SaidBy, PlaceNamed DEF ReadBack, Inv, DeviceKnown, Next
  <2> QED BY <2>2, <2>3, <2>4
<1>2. CASE World
  <2>5. assumed' \subseteq Provided
    BY <1>2
    DEF World, PowerLoss, EditTopology, OperatorPowers, ResetDisk, HardenDevice, StartRun, Inv, ProcessTyped
  <2>1. failures' \in BOOLEAN
    BY Zenon, <1>2
    DEF World, PowerLoss, EditTopology, OperatorPowers, ResetDisk, HardenDevice, StartRun, Inv, ProcessTyped
  <2>2. CASE PowerLoss \/ EditTopology
    <3>1. /\ topo' \in Topologies /\ only' = only /\ (topo' # topo => only = {})
          /\ UNCHANGED <<mode, at, k>>
      BY <2>2 DEF PowerLoss, EditTopology, ByHand, Inv, ProcessTyped, PlaceKnown
    <3>2. ProcessTyped'
      BY Zenon, <2>1, <2>5, <3>1 DEF Inv, ProcessTyped
    <3>3. CountsTyped' /\ said' = said
      BY <2>2, BoundsAssumption DEF PowerLoss, EditTopology, ByHand, Inv, CountsTyped
    <3> QED BY <3>2, <3>3 DEF Inv
  <2>3. ASSUME NEW i \in DOMAIN node, OperatorPowers(i) \/ ResetDisk(i) \/ HardenDevice(i)
        PROVE  ProcessTyped' /\ CountsTyped' /\ said' \subseteq Names
    <3>1. UNCHANGED <<topo, mode, at, k, only, failures, assumed, said>>
      BY <2>3 DEF OperatorPowers, ResetDisk, HardenDevice
    <3>2. hands < MaxHands /\ hands' = hands + 1 /\ UNCHANGED <<runs, faults>>
      BY <2>3 DEF OperatorPowers, ResetDisk, HardenDevice, ByHand
    <3>3. CountsTyped'
      BY <3>2, BoundsAssumption DEF Inv, CountsTyped
    <3> QED BY <3>1, <3>3 DEF Inv, ProcessTyped
  <2>4. ASSUME NEW m \in {"build", "verify", "only", "failover"}, NEW names, StartRun(m, names)
        PROVE  ProcessTyped' /\ CountsTyped' /\ said' \subseteq Names
    <3>1. /\ UNCHANGED <<topo, said>> /\ mode' \in {"build", "verify", "only", "failover"}
          /\ at' \in Phases /\ k' \in Nat \ {0} /\ topo' \in Topologies
      BY <2>4 DEF StartRun, Phases, Inv, ProcessTyped
    <3>2. only' \subseteq {topo.devices[i] : i \in DOMAIN topo.devices}
      BY <2>4 DEF StartRun
    <3>3. ProcessTyped'
      BY Zenon, <2>1, <2>5, <3>1, <3>2 DEF ProcessTyped
    <3>4. CountsTyped'
      BY <2>4, BoundsAssumption DEF StartRun, Inv, CountsTyped
    <3> QED BY <3>1, <3>3, <3>4 DEF Inv
  <2> QED BY <1>2, <2>2, <2>3, <2>4 DEF World
<1> QED BY <1>1, <1>2 DEF Next

LEMMA InvStep ==
  ASSUME Inv, [Next]_vars
  PROVE  Inv'
<1>1. CASE Next
  BY <1>1, NodesStep, ProcessStep, PlaceKept DEF Inv
<1>2. CASE UNCHANGED vars
  <2> USE <1>2 DEF vars
  <2>1. UNCHANGED <<topo, project, node, link, mode, at, k, rec, have, only, failures, assumed, said,
                    runs, faults, hands>>
    OBVIOUS
  <2>2. ServerTyped' /\ RecordsTyped' /\ Distinct'
    BY <2>1 DEF Inv, Nodes, ServerTyped, RecordsTyped, Distinct
  <2>3. Complete' /\ RecordsTrue' /\ Settled' /\ LinksSeen'
    BY <2>1 DEF Inv, Nodes, Phased, Complete, RecordsTrue, Settled, LinksSeen, EndsOf, Item
  <2>4. ProcessTyped' /\ CountsTyped' /\ PlaceKnown'
    BY <2>1 DEF Inv, ProcessTyped, CountsTyped, PlaceKnown
  <2> QED BY <2>1, <2>2, <2>3, <2>4 DEF Inv, Nodes, Phased
<1> QED BY <1>1, <1>2

(* The invariant holds of every lab, however often and wherever its builds  *)
(* are cut off.                                                             *)
THEOREM LabInvariant == Spec => []Inv
<1>1. Init => Inv
  BY InitInv
<1>2. Inv /\ [Next]_vars => Inv'
  BY InvStep
<1> QED BY <1>1, <1>2, PTL DEF Spec

(* Every value keeps its type: nodes, links and records refer to nodes the  *)
(* server has (ensure_nodes, ensure_links).                                 *)
THEOREM LabTypes == Spec => []TypeOK
<1>1. ASSUME Inv
      PROVE  TypeOK
  <2>1. /\ project \in {"absent", "closed", "opened"}
        /\ \A j \in DOMAIN link : link[j] \subseteq (DOMAIN node) \X Nat
        /\ \A name \in DOMAIN rec : rec[name].id \in DOMAIN node
    BY <1>1 DEF Inv, Nodes, ServerTyped, RecordsTyped
  <2>2. \A i \in DOMAIN node :
          /\ node[i].name \in Names \union {Stray}
          /\ node[i].status \in {"started", "stopped"} /\ node[i].adapters \in Nat
    BY <1>1, IdsHeld DEF Inv, Nodes, NodeSet
  <2> QED BY Zenon, <1>1, <2>1, <2>2 DEF TypeOK, Inv, ProcessTyped, CountsTyped
<1> QED BY <1>1, LabInvariant, PTL

(* `A re-run converges instead of duplicating': whatever call failed, or    *)
(* succeeded unheard, no declared name is on two nodes, no link is made     *)
(* twice and no key authorised twice (ensure_nodes, ensure_links).          *)
THEOREM LabNoDuplicates == Spec => []NoDuplicates
<1>1. Inv => NoDuplicates
  BY DEF Inv, Nodes, Distinct, NoDuplicates
<1> QED BY <1>1, LabInvariant, PTL

(* `Adapter count only changes while the node is stopped' (ensure_nodes):    *)
(* what the record said of a node's power is still so when its count is set. *)
THEOREM LabAdaptersChangedStopped == Spec => AdaptersChangedStopped
<1>1. ASSUME Inv, [Next]_vars
      PROVE  [\A i \in DOMAIN node : node'[i].adapters # node[i].adapters
                 => node[i].status = "stopped"]_vars
  <2>1. CASE UNCHANGED vars
    BY <2>1
  <2>2. CASE Quiet
    BY <2>2 DEF Quiet, Kept
  <2>3. CASE CreateBuiltin \/ CreateFromTemplate \/ EnsureLink
    <3>1. node' = node \/ \E n : node' = Append(node, n)
      BY <2>3 DEF CreateBuiltin, CreateFromTemplate, Created, EnsureLink
    <3>2. node \in Seq(NodeSet)
      BY <1>1 DEF Inv, Nodes, ServerTyped
    <3>3. \A i \in DOMAIN node : node'[i] = node[i]
      BY <3>1, <3>2
    <3> QED BY <3>3
  <2>4. CASE RenameNode
    <3> DEFINE i == rec[Item(topo.nodes)].id
    <3>1. node' = node \/ node' = [node EXCEPT ![i] = [node[i] EXCEPT !.name = Item(topo.nodes)]]
      BY <2>4 DEF RenameNode
    <3> HIDE DEF i
    <3>2. \A j \in DOMAIN node : node'[j].adapters = node[j].adapters
      BY <1>1, <3>1, IdsHeld DEF Inv, Nodes, NodeSet
    <3> QED BY <3>2
  <2>5. CASE SetAdapters
    <3> DEFINE i == rec[Item(topo.nodes)].id
    <3>1. node[i].status = "stopped"
      BY <1>1, <2>5, InHand DEF SetAdapters, Ensuring, Inv
    <3>2. \/ node' = node
          \/ node' = [node EXCEPT ![i] = [node[i] EXCEPT !.adapters = topo.adapters[Item(topo.nodes)]]]
      BY <2>5 DEF SetAdapters
    <3> HIDE DEF i
    <3>3. \A j \in DOMAIN node : j # i => node'[j] = node[j]
      BY <3>2
    <3> QED BY <3>1, <3>3
  <2>6. CASE Next
    BY <1>1, <2>2, <2>3, <2>4, <2>5, <2>6, QuietReaders, QuietHost, QuietDevices, QuietWorld
    DEF Next, Program, Inv, Nodes
  <2> QED BY <1>1, <2>1, <2>6
<1> QED BY <1>1, LabInvariant, PTL DEF Spec, AdaptersChangedStopped

(* A link is made when both of its ends have the adapters the file gives    *)
(* them (ensure_links after ensure_nodes), a node that was found with       *)
(* others, and one found running, included.                                 *)
THEOREM LabLinksAtDeclaredCount == Spec => LinksAtDeclaredCount
<1>1. ASSUME Inv, [Next]_vars
      PROVE  [Len(link') > Len(link) =>
                \A e \in link'[Len(link')] :
                  LET n == node[e[1]] IN
                  n.name \in NamesOf(topo) /\ topo.adapters[n.name] \in {0, n.adapters}]_vars
  <2> DEFINE Declared(e) == /\ node[e[1]].name \in NamesOf(topo)
                            /\ topo.adapters[node[e[1]].name] \in {0, node[e[1]].adapters}
  <2>1. ASSUME UNCHANGED link
        PROVE  ~ Len(link') > Len(link)
    <3>1. Len(link) \in Nat
      BY <1>1 DEF Inv, Nodes, ServerTyped
    <3> QED BY <2>1, <3>1
  <2>2. CASE UNCHANGED vars
    BY <2>1, <2>2 DEF vars
  <2>3. CASE Quiet \/ CreateBuiltin \/ CreateFromTemplate \/ RenameNode \/ SetAdapters
    <3>1. UNCHANGED link
      BY <2>3 DEF Quiet, CreateBuiltin, CreateFromTemplate, Created, RenameNode, SetAdapters
    <3> QED BY <2>1, <3>1
  <2>4. CASE EnsureLink
    <3> DEFINE spec == topo.links[k]
               ends == EndsOf(spec)
    <3>1. link' = link \/ link' = Append(link, ends)
      BY <2>4 DEF EnsureLink, Item
    <3>2. k \in DOMAIN topo.links
      <4>1. topo.links \in Seq(SUBSET (Names \X Nat)) /\ k \in Nat \ {0}
        BY Zenon, <1>1, TopologiesAssumption DEF Inv, ProcessTyped
      <4> QED BY <2>4, <4>1 DEF EnsureLink
    <3>3. \A e \in ends : Declared(e)
      <4> SUFFICES ASSUME NEW f \in spec
                   PROVE  Declared(<<rec[f[1]].id, f[2]>>)
        BY DEF EndsOf
      <4>1. /\ Held(f[1]).name = f[1] /\ f[1] \in NamesOf(topo)
            /\ topo.adapters[f[1]] \in {0, Held(f[1]).adapters}
        BY <1>1, <2>4, <3>2, LinkNamed DEF Inv, EnsureLink
      <4> QED BY <4>1
    <3> HIDE DEF ends, Declared
    <3>4. CASE link' = Append(link, ends)
      <4>1. link'[Len(link')] = ends
        BY <1>1, <3>4 DEF Inv, Nodes, ServerTyped
      <4> QED BY <3>3, <4>1 DEF Declared
    <3> QED BY <2>1, <3>1, <3>4
  <2>5. CASE Next
    BY <1>1, <2>3, <2>4, <2>5, QuietReaders, QuietHost, QuietDevices, QuietWorld
    DEF Next, Program, Inv, Nodes
  <2> QED BY <1>1, <2>2, <2>5
<1> QED BY <1>1, LabInvariant, PTL DEF Spec, LinksAtDeclaredCount

(* ------------------------------------------------------------------------ *)
(* The nodes left with their template's name.  The one being renamed is      *)
(* counted with the running program, unless the project was closed behind    *)
(* it: then the power loss pays for it, for the renaming will be refused.    *)
Strays == {i \in DOMAIN node : node[i].name = Stray}
Pending == IF at = "rename" /\ project = "opened" THEN 1 ELSE 0
StraysPaidFor == Cardinality(Strays) <= faults + Pending

LEMMA StraysFinite ==
  ASSUME ServerTyped
  PROVE  IsFiniteSet(Strays) /\ Cardinality(Strays) \in Nat
<1>1. DOMAIN node = 1 .. Len(node) /\ Len(node) \in Nat
  BY DEF ServerTyped
<1>2. IsFiniteSet(1 .. Len(node))
  BY <1>1, FS_Interval
<1>3. Strays \in SUBSET (1 .. Len(node))
  BY <1>1 DEF Strays
<1>4. IsFiniteSet(Strays)
  BY <1>2, <1>3, FS_Subset
<1> QED BY <1>4, FS_CardinalityType

(* A step that gives no node another name, and is paid for.                 *)
LEMMA StraysSame ==
  ASSUME ServerTyped, CountsTyped, StraysPaidFor, DOMAIN node' = DOMAIN node,
         \A i \in DOMAIN node : node'[i].name = node[i].name,
         faults' \in {faults, faults + 1},
         at = "rename" => faults' = faults + 1
  PROVE  StraysPaidFor'
<1>1. Strays' = Strays
  BY DEF Strays
<1>2. Cardinality(Strays) \in Nat /\ faults \in Nat
  BY StraysFinite, BoundsAssumption DEF CountsTyped
<1> QED BY <1>1, <1>2 DEF StraysPaidFor, Pending

LEMMA StraysCreated ==
  ASSUME Inv, StraysPaidFor, CreateBuiltin \/ CreateFromTemplate
  PROVE  StraysPaidFor'
<1> DEFINE name == Item(topo.nodes)
<1>1. /\ at = "nodes" /\ k <= Len(topo.nodes) /\ name # Stray /\ name \in Names
  BY ItemNamed DEF Inv, CreateBuiltin, CreateFromTemplate, Ensuring
<1>2. /\ faults \in Nat /\ IsFiniteSet(Strays) /\ Cardinality(Strays) \in Nat
      /\ Cardinality(Strays) <= faults
  BY <1>1, StraysFinite, BoundsAssumption DEF Inv, Nodes, CountsTyped, StraysPaidFor, Pending
<1>3. \E called \in {name, Stray}, where \in {"adapters", "rename"},
         status \in {"started", "stopped"} :
        /\ called = Stray => where = "rename"
        /\ Created(name, where, NewNode(called, status))
  <2>1. CASE CreateBuiltin
    <3>1. Created(name, "adapters", NewNode(name, IF AlwaysOn(name) THEN "started" ELSE "stopped"))
      BY <2>1, Zenon DEF CreateBuiltin
    <3>2. (IF AlwaysOn(name) THEN "started" ELSE "stopped") \in {"started", "stopped"}
      OBVIOUS
    <3> QED BY <1>1, <3>1, <3>2, Zenon
  <2>2. CASE CreateFromTemplate
    <3>1. \/ Created(name, "adapters", NewNode(name, "stopped"))
          \/ Created(name, "rename", NewNode(Stray, "stopped"))
      BY <2>2, Zenon DEF CreateFromTemplate
    <3> QED BY <1>1, <3>1, Zenon
  <2> QED BY <2>1, <2>2
<1>4. PICK called \in {name, Stray}, where \in {"adapters", "rename"},
            status \in {"started", "stopped"} :
        /\ called = Stray => where = "rename"
        /\ Created(name, where, NewNode(called, status))
  BY <1>3, Zenon
<1> DEFINE n == NewNode(called, status)
<1>5. n \in NodeSet /\ n.name = called
  BY <1>1, <1>4, NewTyped
<1> HIDE DEF n, name
<1>6. CASE UNCHANGED server
  <2>1. faults' \in {faults, faults + 1}
    BY <1>4, <1>6 DEF Created
  <2> QED BY <1>1, <1>6, <2>1, StraysSame DEF server, Inv, Nodes
<1>7. ASSUME node' = Append(node, n), UNCHANGED <<project, link>>
      PROVE  /\ called # Stray => Strays' = Strays
             /\ called = Stray => Cardinality(Strays') = Cardinality(Strays) + 1
  <2>1. /\ DOMAIN node' = 1 .. Len(node) + 1 /\ DOMAIN node = 1 .. Len(node) /\ Len(node) \in Nat
        /\ node'[Len(node) + 1] = n /\ \A i \in DOMAIN node : node'[i] = node[i]
    BY <1>5, <1>7, OneMore DEF Inv, Nodes
  <2>2. called # Stray => Strays' = Strays
    BY <1>5, <2>1 DEF Strays
  <2>3. called = Stray => Strays' = Strays \cup {Len(node) + 1} /\ Len(node) + 1 \notin Strays
    BY <1>5, <2>1 DEF Strays
  <2> QED BY <1>2, <2>2, <2>3, FS_AddElement
<1>8. CASE node' = Append(node, n) /\ UNCHANGED <<project, link>> /\ Fault /\ Fails
  <2>1. Cardinality(Strays') <= Cardinality(Strays) + 1
    BY <1>2, <1>4, <1>7, <1>8
  <2> QED BY <1>2, <1>8, <2>1, <1>7, <1>4 DEF StraysPaidFor, Pending, Fault
<1>9. CASE /\ node' = Append(node, n) /\ UNCHANGED <<project, link>> /\ project = "opened"
           /\ at' = where /\ UNCHANGED faults
  <2>1. called # Stray => Cardinality(Strays') = Cardinality(Strays)
    BY <1>7, <1>9
  <2>2. called = Stray => Cardinality(Strays') = Cardinality(Strays) + 1 /\ at' = "rename"
    BY <1>1, <1>4, <1>7, <1>9
  <2> QED BY <1>2, <1>9, <2>1, <2>2 DEF StraysPaidFor, Pending
<1> QED BY <1>4, <1>6, <1>8, <1>9 DEF Created, Call, n, server

LEMMA StraysRenamed ==
  ASSUME Inv, StraysPaidFor, RenameNode
  PROVE  StraysPaidFor'
<1> DEFINE name == Item(topo.nodes)
           i == rec[name].id
           n == [node[i] EXCEPT !.name = name]
<1>1. /\ at = "rename" /\ k <= Len(topo.nodes) /\ name \in Names /\ name # Stray
  BY ItemNamed DEF Inv, RenameNode, Ensuring
<1>2. /\ name \in DOMAIN rec /\ (\A j \in DOMAIN node : node[j].name # name) /\ i \in DOMAIN node
  BY <1>1 DEF Inv, Nodes, RecordsTyped, Phased, Complete, Building
<1>3. node[i] \in NodeSet /\ node[i].name = Stray
  BY <1>1, <1>2, IdsHeld DEF Inv, Nodes, Phased, RecordsTrue, Building
<1>4. n.name = name
  BY <1>3 DEF NodeSet
<1>5. /\ faults \in Nat /\ IsFiniteSet(Strays) /\ Cardinality(Strays) \in Nat
  BY StraysFinite, BoundsAssumption DEF Inv, Nodes, CountsTyped
<1>6. Call(node' = [node EXCEPT ![i] = n] /\ UNCHANGED <<project, link>>,
           at' = "adapters" /\ UNCHANGED <<mode, k, rec, have, only, failures>>)
  BY DEF RenameNode
<1> HIDE DEF n, i, name
<1>7. CASE /\ node' = [node EXCEPT ![i] = n] /\ faults' \in {faults, faults + 1}
           /\ at' # "rename"
  <2>1. node \in Seq(NodeSet)
    BY DEF Inv, Nodes, ServerTyped
  <2>2. Strays' = Strays \ {i} /\ i \in Strays
    BY <1>1, <1>2, <1>3, <1>4, <1>7, <2>1 DEF Strays
  <2>3. Cardinality(Strays') = Cardinality(Strays) - 1
    BY <1>5, <2>2, FS_RemoveElement
  <2> QED BY <1>5, <1>7, <2>3 DEF StraysPaidFor, Pending
<1>8. CASE UNCHANGED server /\ NoAnswer /\ at' = "failed"
  <2>1. faults' = faults + 1 \/ (project # "opened" /\ faults' = faults)
    BY <1>8 DEF NoAnswer, Fault
  <2>2. Strays' = Strays
    BY <1>8 DEF server, Strays
  <2> QED BY <1>5, <1>8, <2>1, <2>2 DEF StraysPaidFor, Pending
<1> QED BY <1>6, <1>7, <1>8 DEF Call, Fault

LEMMA StraysStep ==
  ASSUME Inv, StraysPaidFor, [Next]_vars
  PROVE  StraysPaidFor'
<1>0. node \in Seq(NodeSet) /\ ServerTyped /\ CountsTyped /\ ProcessTyped
  BY DEF Inv, Nodes, ServerTyped
<1>1. CASE CreateBuiltin \/ CreateFromTemplate \/ RenameNode
  BY <1>1, StraysCreated, StraysRenamed
<1>2. ASSUME Program, Quiet, at # "rename"
      PROVE  StraysPaidFor'
  <2>1. DOMAIN node' = DOMAIN node /\ \A i \in DOMAIN node : node'[i].name = node[i].name
    BY <1>0, <1>2 DEF Quiet, Kept
  <2>2. faults' \in {faults, faults + 1}
    BY <1>0, <1>2, ProgramControlled DEF Controlled
  <2> QED BY <1>0, <1>2, <2>1, <2>2, StraysSame
<1>3. CASE \/ EnsureProject \/ ListNodes \/ ReuseNode \/ AdaptersRight \/ ListLinks \/ LinksDone
           \/ DevicesStarted \/ RelistNodes \/ NextDevice \/ DevicesDone \/ Check \/ Verdict
           \/ Observe \/ Proven \/ StopNode \/ StartDevice \/ StartSwitch \/ Power
  <2>1. at # "rename"
    BY <1>3
    DEF EnsureProject, ListNodes, ReuseNode, AdaptersRight, ListLinks, LinksDone, DevicesStarted,
        RelistNodes, NextDevice, DevicesDone, Check, Verdict, Observe, Proven, StopNode, StartDevice,
        StartSwitch, Power, Ensuring
  <2> QED BY <1>0, <1>2, <1>3, <2>1, QuietReaders DEF Program
<1>4. CASE WriteInterfaces \/ AuthorizeKey \/ Install \/ BringUpAddresses \/ StartHost
  <2>1. at # "rename"
    BY <1>4 DEF WriteInterfaces, AuthorizeKey, Install, BringUpAddresses, StartHost
  <2> QED BY <1>0, <1>2, <1>4, <2>1, QuietHost DEF Program
<1>5. CASE \/ AwaitJunos \/ ReachPrompt \/ PushConfig \/ WriteMemory \/ Commit \/ ShowIp
           \/ ReadBack
  <2>1. at # "rename"
    BY <1>5 DEF AwaitJunos, ReachPrompt, PushConfig, WriteMemory, Commit, ShowIp, ReadBack
  <2> QED BY <1>0, <1>2, <1>5, <2>1, QuietDevices DEF Program, Inv
<1>6. CASE SetAdapters \/ EnsureLink
  <2>1. at # "rename" /\ Program
    BY <1>6 DEF SetAdapters, EnsureLink, Ensuring, Program
  <2>2. faults' \in {faults, faults + 1}
    BY <1>0, <2>1, ProgramControlled DEF Controlled
  <2> DEFINE i == rec[Item(topo.nodes)].id
  <2>3. \/ node' = node
        \/ node' = [node EXCEPT ![i] = [node[i] EXCEPT !.adapters = topo.adapters[Item(topo.nodes)]]]
    BY <1>6 DEF SetAdapters, EnsureLink
  <2> HIDE DEF i
  <2>4. DOMAIN node' = DOMAIN node /\ \A j \in DOMAIN node : node'[j].name = node[j].name
    <3>1. CASE i \in DOMAIN node
      <4>1. node[i] \in NodeSet
        BY <1>0, <3>1
      <4>2. \A a : [node[i] EXCEPT !.adapters = a].name = node[i].name
        BY <4>1 DEF NodeSet
      <4> QED BY <2>3, <4>2
    <3>2. CASE i \notin DOMAIN node
      BY <2>3, <3>2
    <3> QED BY <3>1, <3>2
  <2> QED BY <1>0, <2>1, <2>2, <2>4, StraysSame
<1>7. CASE World
  <2>1. DOMAIN node' = DOMAIN node /\ \A i \in DOMAIN node : node'[i].name = node[i].name
    BY <1>0, <1>7, QuietWorld DEF Quiet, Kept
  <2>2. CASE PowerLoss
    <3>1. faults' = faults + 1
      BY <2>2 DEF PowerLoss, Fault
    <3> QED BY <1>0, <2>1, <3>1, StraysSame
  <2>3. CASE ~ PowerLoss
    <3>1. faults' = faults /\ at # "rename"
      BY <1>7, <2>3
      DEF World, EditTopology, OperatorPowers, ResetDisk, HardenDevice, StartRun, ByHand, Ended
    <3> QED BY <1>0, <2>1, <3>1, StraysSame
  <2> QED BY <2>2, <2>3
<1>8. CASE UNCHANGED vars
  BY <1>8 DEF vars, server, run, StraysPaidFor, Strays, Pending
<1> QED BY <1>1, <1>3, <1>4, <1>5, <1>6, <1>7, <1>8 DEF Next, Program

(* A node that kept its template's name, which no later run finds, is one    *)
(* for every call that failed and no more, but for the one the running       *)
(* program is about to rename (create_from_template).                       *)
THEOREM LabStraysAccounted == Spec => []StraysAccounted
<1>1. Init => StraysPaidFor
  <2> SUFFICES ASSUME Init
               PROVE  StraysPaidFor
    OBVIOUS
  <2>1. Strays = {} /\ faults = 0 /\ at # "rename"
    BY DEF Init, Strays
  <2> QED BY <2>1, FS_EmptySet DEF StraysPaidFor, Pending
<1>2. Inv /\ StraysPaidFor /\ [Next]_vars => StraysPaidFor'
  BY StraysStep
<1>3. Inv /\ StraysPaidFor => StraysAccounted
  <2> SUFFICES ASSUME Inv, StraysPaidFor
               PROVE  StraysAccounted
    OBVIOUS
  <2>1. Cardinality(Strays) \in Nat /\ faults \in Nat
    BY StraysFinite, BoundsAssumption DEF Inv, Nodes, CountsTyped
  <2> QED BY <2>1 DEF StraysPaidFor, Pending, Strays, StraysAccounted
<1> QED BY <1>1, <1>2, <1>3, LabInvariant, PTL DEF Spec

(* ------------------------------------------------------------------------ *)
(* What a device boots from.  The read back looks for the hostname alone,   *)
(* so it has to stand for the whole: a device that boots with its hostname   *)
(* boots with all of a version, and works with its hostname while it runs.   *)
(* A node without a name of its own was never configured.                    *)
Sound(n) ==
  /\ n.name = Stray => "hostname" \notin n.running \union n.startup
  /\ n.name \in Names /\ topo.platform[n.name] = "ios" /\ "hostname" \in n.startup
       => Configured(n.name, n.startup)
  /\ n.status = "started" /\ "hostname" \in n.startup => "hostname" \in n.running
AllSound == \A i \in DOMAIN node : Sound(node[i])

(* What a step may make of a node.                                          *)
Remains(n, m) ==
  /\ m.name = n.name
  /\ topo.platform[n.name] = "ios" /\ "hostname" \in n.startup => "hostname" \in m.startup
Sounding ==
  /\ DOMAIN node' = DOMAIN node
  /\ \A i \in DOMAIN node : Remains(node[i], node'[i]) /\ Sound(node'[i])

LEMMA PowerSound ==
  ASSUME NEW n \in NodeSet, Sound(n)
  PROVE  /\ Sound(Started(n)) /\ Remains(n, Started(n))
         /\ Sound(Stopped(n)) /\ Remains(n, Stopped(n))
         /\ topo.platform[n.name] = "junos" =>
              /\ Sound(Damaged(n)) /\ Remains(n, Damaged(n))
              /\ Sound(Factory(n)) /\ Remains(n, Factory(n))
<1>1. /\ Stopped(n).name = n.name /\ Stopped(n).startup = n.startup /\ Stopped(n).running = {}
      /\ Stopped(n).status = "stopped"
  BY DEF NodeSet, Stopped
<1>2. Sound(Stopped(n)) /\ Remains(n, Stopped(n))
  BY <1>1 DEF Sound, Remains
<1>3. /\ Started(n).name = n.name /\ Started(n).startup = n.startup
      /\ Started(n) = n \/ Started(n).running = n.startup
  BY DEF NodeSet, Started
<1>4. Sound(Started(n)) /\ Remains(n, Started(n))
  BY <1>3 DEF Sound, Remains
<1>5. /\ Damaged(n).name = n.name /\ Damaged(n).startup = {"damage"} /\ Damaged(n).running = {}
      /\ Factory(n).name = n.name /\ Factory(n).startup = {} /\ Factory(n).running = {}
      /\ Damaged(n).status = "stopped"
  BY DEF NodeSet, Stopped, Damaged, Factory
<1>6. ASSUME topo.platform[n.name] = "junos"
      PROVE  /\ Sound(Damaged(n)) /\ Remains(n, Damaged(n))
             /\ Sound(Factory(n)) /\ Remains(n, Factory(n))
  BY <1>5, <1>6 DEF Sound, Remains
<1> QED BY <1>2, <1>4, <1>6

(* A line more on the disk of the container, a key, a prompt, an adapter.   *)
LEMMA ItemSound ==
  ASSUME NEW n \in NodeSet, Sound(n), NEW item \in HostItems
  PROVE  LET m == [n EXCEPT !.startup = @ \union {item}] IN Sound(m) /\ Remains(n, m)
<1> DEFINE m == [n EXCEPT !.startup = @ \union {item}]
<1>1. /\ m.name = n.name /\ m.running = n.running /\ m.status = n.status
      /\ m.startup = n.startup \union {item}
  BY DEF NodeSet
<1>2. item # "hostname"
  BY DEF HostItems
<1> HIDE DEF m
<1>3. Configured(n.name, n.startup) => Configured(n.name, m.startup)
  BY <1>1 DEF Configured
<1>4. Sound(m) /\ Remains(n, m)
  BY <1>1, <1>2, <1>3 DEF Sound, Remains
<1> QED BY <1>4 DEF m

LEMMA UntouchedSound ==
  ASSUME NEW n \in NodeSet, Sound(n), NEW m, m.name = n.name, m.running = n.running,
         m.startup = n.startup, m.status = n.status
  PROVE  Sound(m) /\ Remains(n, m)
BY DEF Sound, Remains

LEMMA TypedSound ==
  ASSUME NEW n \in NodeSet, Sound(n), NEW m, m.name = n.name, m.status = n.status,
         "hostname" \in n.running => "hostname" \in m.running,
         n.name = Stray => "hostname" \notin m.running,
         \/ m.startup = n.startup
         \/ m.startup = m.running /\ topo.platform[n.name] # "ios"
  PROVE  Sound(m) /\ Remains(n, m)
BY DEF Sound, Remains

(* Saved is the whole version that was typed.                               *)
LEMMA SavingSound ==
  ASSUME NEW n \in NodeSet, Sound(n), NEW m, m.name = n.name, m.status = n.status,
         m.startup = n.running, m.running = n.running, n.name \in Names, n.status = "started",
         topo.platform[n.name] = "ios" => Configured(n.name, n.running)
  PROVE  Sound(m) /\ Remains(n, m)
BY StrayAssumption DEF Sound, Remains

LEMMA HardSound ==
  ASSUME NEW n \in NodeSet, Sound(n), NEW m, m.name = n.name, m.status = n.status,
         m.startup = (n.running \ {"login-local"}) \union {"aaa"}, m.running = m.startup,
         n.name \in Names, n.status = "started",
         topo.platform[n.name] = "ios" => Configured(n.name, n.running)
  PROVE  Sound(m) /\ Remains(n, m)
<1>1. Configured(n.name, n.running) => Configured(n.name, m.startup)
  BY DEF Configured, Carried
<1>2. "hostname" \in m.startup <=> "hostname" \in n.running
  OBVIOUS
<1> QED BY <1>1, <1>2, StrayAssumption DEF Sound, Remains

LEMMA OneSound ==
  ASSUME ServerTyped, AllSound, NEW i, NEW m,
         i \in DOMAIN node => Sound(m) /\ Remains(node[i], m), node' = [node EXCEPT ![i] = m]
  PROVE  Sounding
<1>1. \A j \in DOMAIN node : Remains(node[j], node[j])
  BY DEF Remains
<1>2. DOMAIN node' = DOMAIN node
  BY DEF ServerTyped
<1>3. \A j \in DOMAIN node : node'[j] = IF j = i THEN m ELSE node[j]
  BY DEF ServerTyped
<1> QED BY <1>1, <1>2, <1>3 DEF AllSound, Sounding

LEMMA SameSound ==
  ASSUME ServerTyped, AllSound, UNCHANGED node
  PROVE  Sounding
BY DEF AllSound, Sounding, Remains

(* The steps that leave the nodes, or power one.                            *)
LEMMA HeldSound ==
  ASSUME ServerTyped, AllSound, NEW i \in DOMAIN node
  PROVE  node[i] \in NodeSet /\ Sound(node[i])
BY IdsHeld DEF AllSound

LEMMA PowersSound ==
  ASSUME ServerTyped, AllSound, NEW i,
         \/ node' = [node EXCEPT ![i] = Started(node[i])]
         \/ node' = [node EXCEPT ![i] = Stopped(node[i])]
  PROVE  Sounding
<1>1. ASSUME i \in DOMAIN node
      PROVE  /\ Sound(Started(node[i])) /\ Remains(node[i], Started(node[i]))
             /\ Sound(Stopped(node[i])) /\ Remains(node[i], Stopped(node[i]))
  BY <1>1, HeldSound, PowerSound
<1>2. CASE node' = [node EXCEPT ![i] = Started(node[i])]
  BY <1>1, <1>2, OneSound
<1>3. CASE node' = [node EXCEPT ![i] = Stopped(node[i])]
  BY <1>1, <1>3, OneSound
<1> QED BY <1>2, <1>3

LEMMA StartSound ==
  ASSUME ServerTyped, AllSound, NEW name, NEW next, StartIfNotStarted(name, next)
  PROVE  Sounding
BY PowersSound, SameSound DEF StartIfNotStarted

LEMMA ReadersSound ==
  ASSUME ServerTyped, AllSound,
         \/ EnsureProject \/ ListNodes \/ ReuseNode \/ AdaptersRight \/ ListLinks \/ EnsureLink
         \/ LinksDone \/ DevicesStarted \/ RelistNodes \/ NextDevice \/ DevicesDone \/ Check
         \/ Verdict \/ Observe \/ Proven \/ ReachPrompt \/ ShowIp \/ ReadBack
         \/ StopNode \/ StartDevice \/ StartSwitch \/ StartHost \/ Power
  PROVE  Sounding
<1>1. CASE StopNode
  BY <1>1, PowersSound, SameSound DEF StopNode
<1>2. CASE StartDevice \/ StartSwitch \/ StartHost
  BY <1>2, StartSound DEF StartDevice, StartSwitch, StartHost
<1>3. CASE Power
  BY <1>3, PowersSound, SameSound DEF Power
<1>4. CASE EnsureProject \/ ListNodes \/ ReuseNode \/ AdaptersRight \/ ListLinks \/ EnsureLink
  BY <1>4, SameSound DEF EnsureProject, ListNodes, ReuseNode, AdaptersRight, ListLinks, EnsureLink
<1>5. CASE LinksDone \/ DevicesStarted \/ RelistNodes \/ NextDevice \/ DevicesDone \/ Check
  BY <1>5, SameSound DEF LinksDone, DevicesStarted, RelistNodes, NextDevice, DevicesDone, Check
<1>6. CASE Verdict \/ Observe \/ Proven \/ ReachPrompt \/ ShowIp \/ ReadBack
  BY <1>6, SameSound DEF Verdict, Observe, Proven, ReachPrompt, ShowIp, ReadBack, Typed
<1> QED BY <1>1, <1>2, <1>3, <1>4, <1>5, <1>6

LEMMA ResizeSound ==
  ASSUME ServerTyped, AllSound, SetAdapters
  PROVE  Sounding
<1> DEFINE i == rec[Item(topo.nodes)].id
           m == [node[i] EXCEPT !.adapters = topo.adapters[Item(topo.nodes)]]
<1>1. node' = node \/ node' = [node EXCEPT ![i] = m]
  BY DEF SetAdapters
<1>2. ASSUME i \in DOMAIN node
      PROVE  Sound(m) /\ Remains(node[i], m)
  <2>1. node[i] \in NodeSet /\ Sound(node[i])
    BY <1>2, HeldSound
  <2>2. m.name = node[i].name /\ m.running = node[i].running /\ m.startup = node[i].startup
        /\ m.status = node[i].status
    BY <2>1 DEF NodeSet
  <2> QED BY <2>1, <2>2, UntouchedSound
<1> QED BY <1>1, <1>2, OneSound, SameSound

(* The container's file system, its key and its addresses.                  *)
LEMMA HostSound ==
  ASSUME ServerTyped, AllSound, WriteInterfaces \/ AuthorizeKey \/ Install \/ BringUpAddresses
  PROVE  Sounding
<1> DEFINE i == rec[topo.host].id
           n == Held(topo.host)
<1>1. i \in DOMAIN node => n \in NodeSet /\ Sound(n)
  BY HeldSound
<1>2. ASSUME NEW item \in HostItems, HeldBecomes(topo.host, Put(item))
      PROVE  Sounding
  <2>1. i \in DOMAIN node => Sound(Put(item)) /\ Remains(n, Put(item))
    BY <1>1, ItemSound DEF Put
  <2> QED BY <1>2, <2>1, OneSound
<1>3. CASE WriteInterfaces
  BY <1>2, <1>3, SameSound, ContentOf DEF WriteInterfaces
<1>4. CASE Install
  <2>1. Item(HostSteps) \in HostItems
    BY <1>4 DEF Install, HostItems
  <2> QED BY <1>2, <1>4, <2>1, SameSound DEF Install, Typed
<1>5. CASE AuthorizeKey
  <2> DEFINE m == [n EXCEPT !.keys = IF @ = 0 THEN 1 ELSE @]
  <2>1. ASSUME i \in DOMAIN node
        PROVE  Sound(m) /\ Remains(n, m)
    <3>1. m.name = n.name /\ m.running = n.running /\ m.startup = n.startup
          /\ m.status = n.status
      BY <1>1, <2>1 DEF NodeSet
    <3> QED BY <1>1, <2>1, <3>1, UntouchedSound
  <2>2. node' = node \/ node' = [node EXCEPT ![i] = m]
    BY <1>5 DEF AuthorizeKey, Typed
  <2> QED BY <2>1, <2>2, OneSound, SameSound
<1>6. CASE BringUpAddresses
  <2> DEFINE m == [n EXCEPT !.running = @ \union {"interfaces"}]
  <2>1. ASSUME i \in DOMAIN node
        PROVE  Sound(m) /\ Remains(n, m)
    <3>1. m.name = n.name /\ m.running = n.running \union {"interfaces"}
          /\ m.startup = n.startup /\ m.status = n.status
      BY <1>1, <2>1 DEF NodeSet
    <3>2. n.name = Stray => "hostname" \notin m.running
      BY <1>1, <2>1, <3>1 DEF Sound
    <3> HIDE DEF m, n
    <3> QED BY <1>1, <2>1, <3>1, <3>2, TypedSound
  <2>2. node' = node \/ node' = [node EXCEPT ![i] = m]
    BY <1>6 DEF BringUpAddresses, Typed
  <2> QED BY <2>1, <2>2, OneSound, SameSound
<1> QED BY <1>3, <1>4, <1>5, <1>6

(* Between the records and the devices.  The device in hand is found under  *)
(* its name, and what is to be saved on it was typed whole.                 *)
Setting == {"reach", "push", "save", "readback"}
RecordsNamed ==
  \A name \in DOMAIN rec \intersect Names :
    \/ Held(name).name = name
    \/ at = "rename" /\ name = Item(topo.nodes) /\ Held(name).name = Stray
HandKnown ==
  /\ at \in {"start", "host", "switch"} => NamesOf(topo) \subseteq DOMAIN rec
  /\ at \in Setting => Device \in DOMAIN rec
  /\ at = "readback" => topo.platform[Device] = "ios"
ConfigWhole ==
  at = "save" /\ topo.platform[Device] = "ios" /\ Held(Device).status = "started"
    => Carried(topo, Device) \subseteq Held(Device).running

SetUp == Inv /\ AllSound /\ RecordsNamed /\ HandKnown /\ ConfigWhole

LEMMA DeviceInHand ==
  ASSUME SetUp, at \in Setting
  PROVE  /\ Device \in Names /\ Device \in DOMAIN rec /\ rec[Device].id \in DOMAIN node
         /\ Held(Device).name = Device /\ Held(Device) \in NodeSet /\ Sound(Held(Device))
         /\ topo.config[Device] \in Seq(STRING)
<1>1. Device \in Names
  BY PlaceNamed DEF SetUp, Inv, DeviceKnown, Setting
<1>2. Device \in DOMAIN rec
  BY DEF SetUp, HandKnown
<1>3. rec[Device].id \in DOMAIN node
  BY <1>2 DEF SetUp, Inv, Nodes, RecordsTyped
<1>4. Held(Device).name = Device
  BY <1>1, <1>2 DEF SetUp, RecordsNamed, Setting
<1>5. Held(Device) \in NodeSet /\ Sound(Held(Device))
  BY <1>3, HeldSound DEF SetUp, Inv, Nodes
<1>6. topo.config[Device] \in Seq(STRING)
  <2>1. topo.config \in [Names -> Seq(STRING)]
    BY Zenon, TopologiesAssumption DEF SetUp, Inv, ProcessTyped
  <2> QED BY <1>1, <2>1
<1> QED BY <1>1, <1>2, <1>3, <1>4, <1>5, <1>6

(* The steps on a device's console.                                         *)
LEMMA ConsoleSound ==
  ASSUME SetUp, at \in Setting, NEW prompt,
         HeldBecomes(Device, [Held(Device) EXCEPT !.console = prompt])
  PROVE  Sounding
<1> DEFINE i == rec[Device].id
           m == [node[i] EXCEPT !.console = prompt]
<1>1. i \in DOMAIN node /\ node[i] \in NodeSet /\ Sound(node[i])
  BY DeviceInHand
<1>2. m.name = node[i].name /\ m.running = node[i].running /\ m.startup = node[i].startup
      /\ m.status = node[i].status
  BY <1>1 DEF NodeSet
<1>3. node' = [node EXCEPT ![i] = m]
  OBVIOUS
<1> HIDE DEF m, i
<1>4. Sound(m) /\ Remains(node[i], m)
  BY <1>1, <1>2, UntouchedSound
<1> QED BY <1>3, <1>4, OneSound DEF SetUp, Inv, Nodes

LEMMA SaveIsLocal ==
  ASSUME ProcessTyped, NEW d \in Names, "save" \in Lines(topo, d)
  PROVE  topo.platform[d] = "vpcs"
<1>1. PICK i \in DOMAIN Pushed(topo, d) : Pushed(topo, d)[i] = "save"
  BY DEF Lines
<1>2. topo.config[d] \in Seq(STRING)
  <2>1. topo.config \in [Names -> Seq(STRING)]
    BY Zenon, TopologiesAssumption DEF ProcessTyped
  <2> QED BY <2>1
<1>3. i \in DOMAIN topo.config[d] /\ topo.config[d][i] = "save"
  BY <1>1, <1>2 DEF Pushed
<1> QED BY Zenon, <1>3, TopologiesAssumption DEF ProcessTyped

LEMMA AfterSound ==
  ASSUME SetUp, at \in Setting, NEW n \in 0 .. Len(Pushed(topo, Device)),
         HeldBecomes(Device, After(Device, n))
  PROVE  Sounding
<1> DEFINE i == rec[Device].id
           m == After(Device, n)
           typed == {Pushed(topo, Device)[j] :
                       j \in {l \in 1 .. n : Types(Device, Pushed(topo, Device)[l])}}
           live  == Over(node[i].running, typed \ {"save"})
<1>1. /\ i \in DOMAIN node /\ node[i] \in NodeSet /\ Sound(node[i]) /\ node[i].name # Stray
      /\ Device \in Names /\ node[i].name = Device
  BY DeviceInHand, StrayAssumption
<1>2. node' = [node EXCEPT ![i] = m]
  OBVIOUS
<1>3. /\ m.name = node[i].name /\ m.running = live /\ m.status = node[i].status
      /\ m.startup = node[i].startup \/ ("save" \in typed /\ m.startup = live)
  <2>1. m = [node[i] EXCEPT !.running = live,
               !.startup = IF "save" \in typed THEN live ELSE @,
               !.console = IF topo.platform[Device] = "vpcs" THEN @ ELSE "config"]
    BY DEF After
  <2> HIDE DEF typed, live, m
  <2> QED BY <1>1, <2>1 DEF NodeSet
<1>4. typed \subseteq Lines(topo, Device)
  BY <1>1, PushedLines DEF SetUp, Inv, Lines
<1>5. "save" \in typed => topo.platform[Device] # "ios"
  BY <1>1, <1>4, SaveIsLocal DEF SetUp, Inv
<1>6. \A line \in typed : Sets(line) = Sets("hostname") => line = "hostname"
  BY <1>1, <1>4, SetsAssumption DEF SetUp, Inv, ProcessTyped
<1> HIDE DEF m, i, typed
<1>7. "hostname" \in node[i].running => "hostname" \in live
  BY <1>6 DEF Over
<1> HIDE DEF live
<1>8. Sound(m) /\ Remains(node[i], m)
  BY <1>1, <1>3, <1>5, <1>7, TypedSound
<1> QED BY <1>2, <1>8, OneSound DEF SetUp, Inv, Nodes

LEMMA SavedSound ==
  ASSUME SetUp, at = "save", topo.platform[Device] \in {"ios", "junos"},
         Held(Device).status = "started", HeldBecomes(Device, SavedBy(Device))
  PROVE  Sounding
<1> DEFINE i == rec[Device].id
           m == SavedBy(Device)
<1>1. i \in DOMAIN node /\ node[i] \in NodeSet /\ Sound(node[i]) /\ node[i].name = Device
      /\ Device \in Names
  BY DeviceInHand DEF Setting
<1>2. m.name = node[i].name /\ m.running = node[i].running
      /\ m.startup = node[i].running /\ m.status = node[i].status
  BY <1>1 DEF NodeSet, SavedBy
<1>3. topo.platform[node[i].name] = "ios" => Configured(node[i].name, node[i].running)
  BY <1>1 DEF SetUp, ConfigWhole, Configured, Inv, ProcessTyped
<1>4. node' = [node EXCEPT ![i] = m] /\ node[i].status = "started"
  OBVIOUS
<1> HIDE DEF m, i
<1>5. Sound(m) /\ Remains(node[i], m)
  BY <1>1, <1>2, <1>3, <1>4, SavingSound
<1> QED BY <1>4, <1>5, OneSound DEF SetUp, Inv, Nodes

LEMMA DevicesSound ==
  ASSUME SetUp, AwaitJunos \/ PushConfig \/ WriteMemory \/ Commit
  PROVE  Sounding
<1>1. at \in Setting
  BY DEF AwaitJunos, PushConfig, WriteMemory, Commit, Setting
<1>2. UNCHANGED node => Sounding
  BY SameSound DEF SetUp, Inv, Nodes
<1>3. CASE AwaitJunos
  <2>1. \/ UNCHANGED node
        \/ \E prompt : HeldBecomes(Device, [Held(Device) EXCEPT !.console = prompt])
    <3>1. CASE UNCHANGED node
      BY <3>1
    <3>2. CASE HeldBecomes(Device, [Held(Device) EXCEPT !.console = "cli"])
      BY <3>2
    <3>3. CASE HeldBecomes(Device, [Held(Device) EXCEPT
                             !.console = IF Held(Device).status = "started" THEN "shell" ELSE @])
      BY <3>3
    <3> QED BY <1>3, <3>1, <3>2, <3>3 DEF AwaitJunos
  <2> QED BY <1>1, <1>2, <2>1, ConsoleSound
<1>4. CASE PushConfig
  <2>1. Len(Pushed(topo, Device)) \in 0 .. Len(Pushed(topo, Device))
    BY <1>1, DeviceInHand, PushedLines DEF SetUp, Inv
  <2>2. \/ UNCHANGED node
        \/ \E n \in 0 .. Len(Pushed(topo, Device)) : HeldBecomes(Device, After(Device, n))
    BY <1>4, <2>1 DEF PushConfig
  <2> QED BY <1>1, <1>2, <2>2, AfterSound
<1>5. CASE WriteMemory
  <2>1. \/ UNCHANGED node
        \/ HeldBecomes(Device, [Held(Device) EXCEPT !.console = Ready(Device)])
        \/ HeldBecomes(Device, SavedBy(Device)) /\ Held(Device).status = "started"
    BY <1>5 DEF WriteMemory, Typed
  <2>2. at = "save" /\ topo.platform[Device] = "ios"
    BY <1>5 DEF WriteMemory
  <2> QED BY <1>1, <1>2, <2>1, <2>2, ConsoleSound, SavedSound
<1>6. CASE Commit
  <2>1. \/ UNCHANGED node
        \/ HeldBecomes(Device, SavedBy(Device)) /\ Held(Device).status = "started"
    BY <1>6 DEF Commit, Typed
  <2>2. at = "save" /\ topo.platform[Device] = "junos"
    BY <1>6 DEF Commit
  <2> QED BY <1>2, <2>1, <2>2, SavedSound
<1> QED BY <1>3, <1>4, <1>5, <1>6

(* Power lost, and what is done by hand.                                    *)
LEMMA WorldSound ==
  ASSUME Inv, AllSound, World
  PROVE  Sounding
<1>1. ServerTyped
  BY DEF Inv, Nodes
<1>2. CASE PowerLoss
  <2>1. /\ DOMAIN node' = DOMAIN node
        /\ \A i \in DOMAIN node :
             \/ node'[i] \in {node[i], Stopped(node[i])}
             \/ node'[i] = Damaged(node[i]) /\ topo.platform[node[i].name] = "junos"
    BY <1>2, PowerLost DEF Fragile, Juniper
  <2>2. \A i \in DOMAIN node : Remains(node[i], node[i])
    BY DEF Remains
  <2>3. \A i \in DOMAIN node : Remains(node[i], node'[i]) /\ Sound(node'[i])
    <3> SUFFICES ASSUME NEW i \in DOMAIN node
                 PROVE  Remains(node[i], node'[i]) /\ Sound(node'[i])
      OBVIOUS
    <3>1. node[i] \in NodeSet /\ Sound(node[i])
      BY <1>1, HeldSound
    <3> QED BY <2>1, <2>2, <3>1, PowerSound
  <2> QED BY <2>1, <2>3 DEF Sounding
<1>3. ASSUME NEW i \in DOMAIN node, OperatorPowers(i)
      PROVE  Sounding
  <2>1. \/ node' = [node EXCEPT ![i] = Started(node[i])]
        \/ node' = [node EXCEPT ![i] = Stopped(node[i])]
    BY <1>3 DEF OperatorPowers
  <2> QED BY <1>1, <2>1, PowersSound
<1>7. ASSUME NEW i \in DOMAIN node, ResetDisk(i)
      PROVE  Sounding
  <2>1. node' = [node EXCEPT ![i] = Factory(node[i])] /\ topo.platform[node[i].name] = "junos"
    BY <1>7 DEF ResetDisk, Juniper
  <2>2. Sound(Factory(node[i])) /\ Remains(node[i], Factory(node[i]))
    BY <1>1, <2>1, HeldSound, PowerSound
  <2> QED BY <1>1, <2>1, <2>2, OneSound
<1>4. ASSUME NEW i \in DOMAIN node, HardenDevice(i)
      PROVE  Sounding
  <2> DEFINE hard == (node[i].running \ {"login-local"}) \union {"aaa"}
             m == [node[i] EXCEPT !.running = hard, !.startup = hard]
  <2>1. node' = [node EXCEPT ![i] = m] /\ node[i].name \in Names /\ node[i].status = "started"
    BY <1>4, StrayAssumption DEF HardenDevice
  <2>2. topo.platform[node[i].name] = "ios" => Configured(node[i].name, node[i].running)
    BY <1>4 DEF HardenDevice, Active
  <2>3. node[i] \in NodeSet /\ Sound(node[i])
    BY <1>1, HeldSound
  <2>4. m.name = node[i].name /\ m.status = node[i].status /\ m.startup = hard /\ m.running = hard
    BY <2>3 DEF NodeSet
  <2> HIDE DEF m
  <2>5. Sound(m) /\ Remains(node[i], m)
    BY <2>1, <2>2, <2>3, <2>4, HardSound
  <2> QED BY <1>1, <2>1, <2>5, OneSound
<1>5. CASE EditTopology
  BY <1>1, <1>5, SameSound DEF EditTopology
<1>6. ASSUME NEW m, NEW names, StartRun(m, names)
      PROVE  Sounding
  BY <1>1, <1>6, SameSound DEF StartRun
<1> QED BY <1>2, <1>3, <1>4, <1>5, <1>6, <1>7 DEF World

(* ------------------------------------------------------------------------ *)
(* From one state to the next.                                              *)

(* A device that was reported saved is there, and boots with its hostname.  *)
SaidTrue ==
  \A d \in said :
    /\ topo.platform[d] = "ios" /\ Ids(d) # {}
    /\ \A i \in Ids(d) : "hostname" \in node[i].startup

(* A step as seen from the file before it.                                  *)
Onward ==
  /\ \A i \in DOMAIN node' : Sound(node'[i])
  /\ \A d \in said :
       /\ \E i \in DOMAIN node' : node'[i].name = d
       /\ \A i \in DOMAIN node' : node'[i].name = d => "hostname" \in node'[i].startup

LEMMA SoundingOnward ==
  ASSUME SaidTrue, Sounding
  PROVE  Onward
<1>1. \A i \in DOMAIN node' : Sound(node'[i])
  BY DEF Sounding
<1>2. ASSUME NEW d \in said
      PROVE  /\ \E i \in DOMAIN node' : node'[i].name = d
             /\ \A i \in DOMAIN node' : node'[i].name = d => "hostname" \in node'[i].startup
  <2>1. \E i \in DOMAIN node : node[i].name = d
    BY <1>2 DEF SaidTrue, Ids
  <2>2. topo.platform[d] = "ios"
        /\ \A i \in DOMAIN node : node[i].name = d => "hostname" \in node[i].startup
    BY <1>2 DEF SaidTrue, Ids
  <2>3. ASSUME NEW i \in DOMAIN node
        PROVE  /\ node'[i].name = node[i].name
               /\ node[i].name = d => "hostname" \in node'[i].startup
    BY <2>2, <2>3 DEF Sounding, Remains
  <2> QED BY <2>1, <2>3 DEF Sounding
<1> QED BY <1>1, <1>2 DEF Onward

(* A new node has nothing on it, and no name that is taken.                 *)
LEMMA CreationOnward ==
  ASSUME Inv, AllSound, SaidTrue, at = "nodes", k <= Len(topo.nodes),
         NEW name, name = Item(topo.nodes), name \notin DOMAIN rec,
         NEW called \in {name, Stray}, NEW where, NEW status \in {"started", "stopped"},
         Created(name, where, NewNode(called, status))
  PROVE  Onward
<1> DEFINE n == NewNode(called, status)
<1>1. name \in Names /\ name # Stray
  BY ItemNamed DEF Inv
<1>2. n \in NodeSet /\ n.name = called
  BY <1>1, NewTyped
<1>3. n.running = {} /\ n.startup = {}
  BY DEF NewNode
<1>4. Sound(n)
  BY <1>3 DEF Sound
<1> HIDE DEF n
<1>5. \A i \in DOMAIN node : node[i].name # name
  BY <1>1 DEF Inv, Nodes, Phased, Complete, Building
<1>6. called \notin said
  BY <1>5, StrayAssumption DEF SaidTrue, Ids, Inv
<1>7. CASE node' = node
  BY <1>7, SameSound, SoundingOnward DEF Inv, Nodes
<1>8. CASE node' = Append(node, n) /\ UNCHANGED <<project, link>>
  <2>1. /\ DOMAIN node' = 1 .. Len(node) + 1 /\ DOMAIN node = 1 .. Len(node) /\ Len(node) \in Nat
        /\ node'[Len(node) + 1] = n /\ \A i \in DOMAIN node : node'[i] = node[i]
    BY <1>2, <1>8, OneMore DEF Inv, Nodes
  <2>2. \A i \in DOMAIN node' : i \in DOMAIN node \/ i = Len(node) + 1
    BY <2>1
  <2>3. \A i \in DOMAIN node' : Sound(node'[i])
    BY <1>4, <2>1, <2>2 DEF AllSound
  <2>4. ASSUME NEW d \in said
        PROVE  /\ \E i \in DOMAIN node' : node'[i].name = d
               /\ \A i \in DOMAIN node' : node'[i].name = d => "hostname" \in node'[i].startup
    <3>1. \E i \in DOMAIN node : node[i].name = d
      BY <2>4 DEF SaidTrue, Ids
    <3>2. \A i \in DOMAIN node : node[i].name = d => "hostname" \in node[i].startup
      BY <2>4 DEF SaidTrue, Ids
    <3>3. \E i \in DOMAIN node' : node'[i].name = d
      BY <2>1, <3>1
    <3>4. ASSUME NEW i \in DOMAIN node', node'[i].name = d
          PROVE  "hostname" \in node'[i].startup
      <4>1. i # Len(node) + 1
        BY <1>2, <1>6, <2>1, <2>4, <3>4
      <4> QED BY <2>1, <2>2, <3>2, <3>4, <4>1
    <3> QED BY <3>3, <3>4
  <2> QED BY <2>3, <2>4 DEF Onward
<1>9. node' = node \/ (node' = Append(node, n) /\ UNCHANGED <<project, link>>)
  BY DEF Created, n
<1> QED BY <1>7, <1>8, <1>9

(* The node that gets its name was never configured.                        *)
LEMMA RenameOnward ==
  ASSUME Inv, AllSound, SaidTrue, RenameNode
  PROVE  Onward
<1> DEFINE name == Item(topo.nodes)
           i == rec[name].id
           n == [node[i] EXCEPT !.name = name]
<1>1. at = "rename" /\ k <= Len(topo.nodes)
  BY DEF RenameNode, Ensuring
<1>2. name \in Names /\ name # Stray
  BY <1>1, ItemNamed DEF Inv
<1>3. name \in DOMAIN rec /\ i \in DOMAIN node /\ \A j \in DOMAIN node : node[j].name # name
  BY <1>1 DEF Inv, Nodes, RecordsTyped, Phased, Complete, Building
<1>4. node[i] \in NodeSet /\ Sound(node[i])
  BY <1>3, HeldSound DEF Inv, Nodes
<1>5. node[i].name = Stray
  BY <1>1, <1>2, <1>3 DEF Inv, Nodes, Phased, RecordsTrue, Building
<1>6. n.name = name /\ n.running = node[i].running /\ n.startup = node[i].startup
  BY <1>4 DEF NodeSet
<1>7. \/ node' = node
      \/ node' = [node EXCEPT ![i] = n] /\ UNCHANGED <<project, link>>
  BY DEF RenameNode
<1> HIDE DEF n, i, name
<1>8. Sound(n)
  BY <1>2, <1>4, <1>5, <1>6 DEF Sound
<1>9. CASE node' = node
  BY <1>9, SameSound, SoundingOnward DEF Inv, Nodes
<1>10. CASE node' = [node EXCEPT ![i] = n]
  <2>1. DOMAIN node' = DOMAIN node /\ node'[i] = n /\ \A j \in DOMAIN node : j # i => node'[j] = node[j]
    BY <1>3, <1>10 DEF Inv, Nodes, ServerTyped
  <2>2. \A j \in DOMAIN node' : Sound(node'[j])
    BY <1>8, <2>1 DEF AllSound
  <2>3. ASSUME NEW d \in said
        PROVE  /\ \E j \in DOMAIN node' : node'[j].name = d
               /\ \A j \in DOMAIN node' : node'[j].name = d => "hostname" \in node'[j].startup
    <3>1. \E j \in DOMAIN node : node[j].name = d
      BY <2>3 DEF SaidTrue, Ids
    <3>2. \A j \in DOMAIN node : node[j].name = d => "hostname" \in node[j].startup
      BY <2>3 DEF SaidTrue, Ids
    <3>3. d # name /\ d # Stray
      BY <1>3, <2>3, <3>1, StrayAssumption DEF Inv
    <3>4. \E j \in DOMAIN node' : node'[j].name = d
      BY <1>5, <2>1, <3>1, <3>3
    <3>5. \A j \in DOMAIN node' : node'[j].name = d => "hostname" \in node'[j].startup
      BY <1>6, <2>1, <3>2, <3>3
    <3> QED BY <3>4, <3>5
  <2> QED BY <2>2, <2>3 DEF Onward
<1> QED BY <1>7, <1>9, <1>10

LEMMA NextOnward ==
  ASSUME SetUp, SaidTrue, Next
  PROVE  Onward
<1>1. Inv /\ AllSound /\ ServerTyped
  BY DEF SetUp, Inv, Nodes
<1>2. CASE CreateBuiltin
  <2> DEFINE name == Item(topo.nodes)
             status == IF AlwaysOn(name) THEN "started" ELSE "stopped"
  <2>1. /\ at = "nodes" /\ k <= Len(topo.nodes) /\ name \notin DOMAIN rec
        /\ Created(name, "adapters", NewNode(name, status)) /\ status \in {"started", "stopped"}
    BY <1>2 DEF CreateBuiltin, Ensuring
  <2> HIDE DEF status
  <2> QED BY <1>1, <2>1, CreationOnward
<1>3. CASE CreateFromTemplate
  <2> DEFINE name == Item(topo.nodes)
  <2>1. /\ at = "nodes" /\ k <= Len(topo.nodes) /\ name \notin DOMAIN rec
        /\ \/ Created(name, "adapters", NewNode(name, "stopped"))
           \/ Created(name, "rename", NewNode(Stray, "stopped"))
    BY <1>3 DEF CreateFromTemplate, Ensuring
  <2> QED BY <1>1, <2>1, CreationOnward
<1>4. CASE RenameNode
  BY <1>1, <1>4, RenameOnward
<1>5. CASE World
  BY <1>1, <1>5, WorldSound, SoundingOnward
<1>6. CASE AwaitJunos \/ PushConfig \/ WriteMemory \/ Commit
  BY <1>6, DevicesSound, SoundingOnward
<1>7. CASE SetAdapters \/ WriteInterfaces \/ AuthorizeKey \/ Install \/ BringUpAddresses
  BY <1>1, <1>7, ResizeSound, HostSound, SoundingOnward
<1>8. CASE \/ EnsureProject \/ ListNodes \/ ReuseNode \/ AdaptersRight \/ ListLinks \/ EnsureLink
           \/ LinksDone \/ DevicesStarted \/ RelistNodes \/ NextDevice \/ DevicesDone \/ Check
           \/ Verdict \/ Observe \/ Proven \/ ReachPrompt \/ ShowIp \/ ReadBack
           \/ StopNode \/ StartDevice \/ StartSwitch \/ StartHost \/ Power
  BY <1>1, <1>8, ReadersSound, SoundingOnward
<1> QED BY <1>2, <1>3, <1>4, <1>5, <1>6, <1>7, <1>8 DEF Next, Program

(* A new version of the file changes what its names stand for no more.      *)
LEMMA SameVersion ==
  ASSUME Inv, Next
  PROVE  topo' \in Topologies /\ topo'.project = topo.project /\ topo'.platform = topo.platform
<1>1. topo \in Topologies
  BY DEF Inv, ProcessTyped
<1>2. topo' \in Topologies /\ topo'.project = topo.project
  <2>1. CASE Program
    BY <1>1, <2>1, ProgramControlled DEF Controlled, Inv
  <2>2. CASE World
    BY <1>1, <2>2
    DEF World, PowerLoss, EditTopology, OperatorPowers, ResetDisk, HardenDevice, StartRun
  <2> QED BY <2>1, <2>2 DEF Next
<1> QED BY <1>1, <1>2, VersionsAgree

LEMMA SoundStep ==
  ASSUME SetUp, SaidTrue, Next
  PROVE  AllSound' /\ SaidTrue'
<1>1. Onward /\ topo'.project = topo.project /\ topo'.platform = topo.platform
  BY NextOnward, SameVersion DEF SetUp
<1>2. AllSound'
  BY <1>1 DEF Onward, AllSound, Sound, Configured
<1>3. ASSUME UNCHANGED said
      PROVE  SaidTrue'
  BY <1>1, <1>3 DEF Onward, SaidTrue, Ids
<1>4. ASSUME ReadBack, said' = said \union {Device}
      PROVE  SaidTrue'
  <2>1. at = "readback" /\ UNCHANGED <<node, topo>>
    BY <1>4 DEF ReadBack
  <2>2. /\ rec[Device].id \in DOMAIN node /\ Held(Device).name = Device /\ Device # Stray
        /\ topo.platform[Device] = "ios"
    BY <2>1, DeviceInHand, StrayAssumption DEF Setting, SetUp, HandKnown
  <2>3. CASE "hostname" \in Held(Device).startup
    <3>1. \A i \in Ids(Device) : i = rec[Device].id
      BY <2>2 DEF Ids, SetUp, Inv, Nodes, Distinct
    <3>2. rec[Device].id \in Ids(Device)
      BY <2>2 DEF Ids
    <3>3. Ids(Device) # {} /\ \A i \in Ids(Device) : "hostname" \in node[i].startup
      BY <2>3, <3>1, <3>2
    <3>4. \A d \in said : /\ topo.platform[d] = "ios" /\ Ids(d) # {}
                          /\ \A i \in Ids(d) : "hostname" \in node[i].startup
      BY DEF SaidTrue
    <3>5. \A d : Ids(d)' = Ids(d)
      BY <2>1 DEF Ids
    <3> HIDE DEF SetUp
    <3> QED BY <1>4, <2>1, <2>2, <3>3, <3>4, <3>5 DEF SaidTrue
  <2>4. CASE "hostname" \notin Held(Device).startup
    <3>1. UNCHANGED said
      BY <1>4, <2>4 DEF ReadBack
    <3> QED BY <1>3, <3>1
  <2> QED BY <2>3, <2>4
<1>5. said' = said \/ (ReadBack /\ said' = said \union {Device})
  BY SaidBy
<1> QED BY <1>2, <1>3, <1>4, <1>5

(* A node is renamed, or loses power, before anything else is done to it.   *)
LEMMA OnlyRename ==
  ASSUME Next, at = "rename"
  PROVE  RenameNode \/ PowerLoss
<1>1. ~ (\/ EnsureProject \/ ListNodes \/ ReuseNode \/ CreateBuiltin \/ CreateFromTemplate
         \/ AdaptersRight \/ StopNode \/ SetAdapters \/ ListLinks \/ EnsureLink
         \/ LinksDone \/ StartDevice \/ DevicesStarted)
  BY DEF EnsureProject, ListNodes, ReuseNode, CreateBuiltin, CreateFromTemplate,
         AdaptersRight, StopNode, SetAdapters, ListLinks, EnsureLink, LinksDone, StartDevice,
         DevicesStarted, Ensuring
<1>2. ~ (\/ WriteInterfaces \/ StartHost \/ AuthorizeKey \/ Install \/ BringUpAddresses
         \/ RelistNodes \/ StartSwitch)
  BY DEF WriteInterfaces, StartHost, AuthorizeKey, Install, BringUpAddresses,
         RelistNodes, StartSwitch
<1>3. ~ (\/ NextDevice \/ AwaitJunos \/ ReachPrompt \/ PushConfig \/ WriteMemory \/ Commit
         \/ ShowIp \/ ReadBack \/ DevicesDone)
  BY DEF NextDevice, AwaitJunos, ReachPrompt, PushConfig, WriteMemory, Commit, ShowIp,
         ReadBack, DevicesDone
<1>4. ~ (Check \/ Verdict \/ Observe \/ Power \/ Proven)
  BY DEF Check, Verdict, Observe, Power, Proven
<1>5. World => PowerLoss
  BY DEF World, EditTopology, OperatorPowers, ResetDisk, HardenDevice, StartRun, ByHand, Ended
<1> QED BY <1>1, <1>2, <1>3, <1>4, <1>5 DEF Next, Program

LEMMA RecordsNamedStep ==
  ASSUME SetUp, Next, Inv'
  PROVE  RecordsNamed'
<1>1. CASE at' \in Building \union {"links"}
  BY <1>1 DEF Inv, Nodes, Phased, RecordsTrue, RecordsNamed
<1>2. CASE rec' = <<>>
  BY <1>2 DEF RecordsNamed
<1>3. ASSUME at' \notin Building \union {"links"}, rec' # <<>>
      PROVE  RecordsNamed'
  <2>0. ServerTyped /\ ProcessTyped /\ PlaceKnown
    BY DEF SetUp, Inv, Nodes
  <2>1. Quiet
    <3>1. CASE CreateBuiltin \/ CreateFromTemplate \/ RenameNode \/ SetAdapters \/ EnsureLink
      BY <1>3, <3>1
      DEF CreateBuiltin, CreateFromTemplate, Created, RenameNode, SetAdapters, EnsureLink, Building
    <3>2. CASE ~ (CreateBuiltin \/ CreateFromTemplate \/ RenameNode \/ SetAdapters \/ EnsureLink)
      BY <2>0, <3>2, QuietReaders, QuietHost, QuietDevices, QuietWorld DEF Next, Program
    <3> QED BY <3>1, <3>2
  <2>2. at # "rename"
    <3>1. ~ (RenameNode /\ at = "rename")
      BY <1>3 DEF RenameNode, Building
    <3>2. ~ (PowerLoss /\ at = "rename")
      BY <1>3 DEF PowerLoss, Building
    <3> QED BY <3>1, <3>2, OnlyRename
  <2>3. \A i \in DOMAIN node : node'[i].name = node[i].name
    BY <2>1 DEF Quiet, Kept
  <2>4. CASE rec' = rec
    <3>1. \A name \in DOMAIN rec \intersect Names :
            rec[name].id \in DOMAIN node /\ Held(name).name = name
      BY <2>2 DEF SetUp, RecordsNamed, Inv, Nodes, RecordsTyped
    <3> QED BY <2>3, <2>4, <3>1 DEF RecordsNamed
  <2>5. CASE rec' = Listed
    <3>1. \A name \in DOMAIN Listed :
            Listed[name].id \in DOMAIN node /\ name = node[Listed[name].id].name
      BY <2>0, ListedTrue
    <3> QED BY <2>3, <2>5, <3>1 DEF RecordsNamed
  <2> QED BY <1>3, <2>1, <2>4, <2>5 DEF Quiet
<1> QED BY <1>1, <1>2, <1>3

(* Where the host and the devices are set up, they were all found.          *)
Hosting == {"start", "host", "switch"}

LEMMA HandStep ==
  ASSUME SetUp, Next
  PROVE  HandKnown'
<1> USE DEF Hosting, Setting
<1>1. ASSUME at' \notin Hosting \union Setting
      PROVE  HandKnown'
  BY <1>1 DEF HandKnown
<1>2. ASSUME UNCHANGED <<topo, at, k, rec>>
      PROVE  HandKnown'
  BY <1>2 DEF SetUp, HandKnown, NamesOf, Device, Item
<1>3. CASE \/ EnsureProject \/ ListNodes \/ ReuseNode \/ CreateBuiltin \/ CreateFromTemplate
           \/ RenameNode \/ AdaptersRight \/ StopNode \/ SetAdapters \/ ListLinks \/ EnsureLink
  <2>1. CASE EnsureProject \/ ListNodes \/ ReuseNode \/ CreateBuiltin \/ CreateFromTemplate
    BY <1>1, <2>1
    DEF EnsureProject, ListNodes, ReuseNode, CreateBuiltin, CreateFromTemplate, Created
  <2>2. CASE RenameNode \/ AdaptersRight \/ StopNode \/ SetAdapters \/ ListLinks \/ EnsureLink
    BY <1>1, <2>2
    DEF RenameNode, AdaptersRight, StopNode, SetAdapters, ListLinks, EnsureLink
  <2> QED BY <1>3, <2>1, <2>2
<1>4. CASE LinksDone
  <2>1. \A j \in DOMAIN topo.nodes : topo.nodes[j] \in DOMAIN rec
    BY <1>4 DEF LinksDone, SetUp, Inv, Nodes, Phased, Settled
  <2>2. NamesOf(topo) \subseteq DOMAIN rec
    BY <2>1 DEF NamesOf
  <2>3. at' \in {"start", "host"} /\ UNCHANGED <<topo, rec>>
    BY <1>4 DEF LinksDone
  <2>4. NamesOf(topo)' = NamesOf(topo)
    BY <2>3 DEF NamesOf
  <2> QED BY <2>2, <2>3, <2>4 DEF HandKnown
<1>5. CASE \/ StartDevice \/ DevicesStarted
           \/ WriteInterfaces \/ StartHost \/ AuthorizeKey \/ Install \/ BringUpAddresses
  <2>1. /\ at \in Hosting /\ UNCHANGED topo
        /\ (at' \in Hosting /\ UNCHANGED rec) \/ at' \notin Hosting \union Setting
    <3>1. CASE StartDevice \/ DevicesStarted \/ WriteInterfaces \/ StartHost
      BY <3>1 DEF StartDevice, DevicesStarted, WriteInterfaces, StartHost, StartIfNotStarted
    <3>2. CASE AuthorizeKey \/ Install \/ BringUpAddresses
      BY <3>2 DEF AuthorizeKey, Install, BringUpAddresses, Typed
    <3> QED BY <1>5, <3>1, <3>2
  <2>2. NamesOf(topo) \subseteq DOMAIN rec
    BY <2>1 DEF SetUp, HandKnown
  <2>3. NamesOf(topo)' = NamesOf(topo)
    BY <2>1 DEF NamesOf
  <2> QED BY <1>1, <2>1, <2>2, <2>3 DEF HandKnown
<1>6. CASE RelistNodes \/ DevicesDone \/ Commit \/ ShowIp \/ ReadBack
  <2>1. at' \notin Hosting \union Setting
    BY <1>6 DEF RelistNodes, DevicesDone, Commit, ShowIp, ReadBack, Typed, DeviceDone
  <2> QED BY <1>1, <2>1
<1>7. CASE StartSwitch
  <2>1. CASE at' = "reach"
    <3>1. at = "switch" /\ UNCHANGED <<topo, rec>>
      BY <1>7, <2>1 DEF StartSwitch, StartIfNotStarted
    <3>2. topo.devices = <<>> /\ NamesOf(topo) \subseteq DOMAIN rec
      BY <3>1 DEF SetUp, Inv, PlaceKnown, HandKnown
    <3>3. topo.switch \in NamesOf(topo)
      BY Zenon, <3>2, TopologiesAssumption DEF SetUp, Inv, ProcessTyped, NamesOf
    <3>4. Device' = topo.switch
      BY <3>1, <3>2 DEF Device
    <3> QED BY <2>1, <3>1, <3>2, <3>3, <3>4 DEF HandKnown
  <2>2. CASE at' # "reach"
    BY <1>1, <1>7, <2>2 DEF StartSwitch, StartIfNotStarted
  <2> QED BY <2>1, <2>2
<1>8. CASE NextDevice
  <2>1. CASE at' = "reach"
    <3>1. Device \in DOMAIN rec /\ UNCHANGED <<topo, k, rec>>
      BY <1>8, <2>1 DEF NextDevice
    <3>2. Device' = Device
      BY <3>1 DEF Device, Item
    <3> QED BY <2>1, <3>1, <3>2 DEF HandKnown
  <2>2. CASE at' # "reach"
    BY <1>1, <1>8, <2>2 DEF NextDevice
  <2> QED BY <2>1, <2>2
<1>9. CASE AwaitJunos \/ ReachPrompt \/ PushConfig \/ WriteMemory
  <2>1. at \in Setting /\ UNCHANGED topo
        /\ \/ at' \notin Hosting \union Setting
           \/ at' \in Setting /\ UNCHANGED <<k, rec>>
              /\ (at' = "readback" => topo.platform[Device] = "ios")
    BY <1>9 DEF AwaitJunos, ReachPrompt, PushConfig, WriteMemory, Typed
  <2>2. ASSUME UNCHANGED k
        PROVE  Device' = Device
    BY <2>1, <2>2 DEF Device, Item
  <2>3. Device \in DOMAIN rec
    BY <2>1 DEF SetUp, HandKnown
  <2> QED BY <1>1, <2>1, <2>2, <2>3 DEF HandKnown
<1>10. CASE Check \/ Verdict \/ Observe \/ Power \/ Proven
  BY <1>1, <1>10 DEF Check, Verdict, Observe, Power, Proven
<1>11. CASE World
  <2>1. CASE PowerLoss
    BY <1>2, <2>1 DEF PowerLoss
  <2>2. CASE ~ PowerLoss
    BY <1>1, <1>11, <2>2
    DEF World, EditTopology, OperatorPowers, ResetDisk, HardenDevice, StartRun, ByHand, Ended
  <2> QED BY <2>1, <2>2
<1> QED
  BY <1>3, <1>4, <1>5, <1>6, <1>7, <1>8, <1>9, <1>10, <1>11 DEF Next, Program

(* What is typed on a device before it is saved.                            *)
LEMMA OnlyPush ==
  ASSUME Next, at' = "save"
  PROVE  PushConfig \/ PowerLoss
<1>1. ~ (\/ EnsureProject \/ ListNodes \/ ReuseNode \/ CreateBuiltin \/ CreateFromTemplate
         \/ RenameNode \/ AdaptersRight)
  BY DEF EnsureProject, ListNodes, ReuseNode, CreateBuiltin, CreateFromTemplate, Created,
         RenameNode, AdaptersRight
<1>2. ~ (\/ StopNode \/ SetAdapters \/ ListLinks \/ EnsureLink
         \/ LinksDone \/ StartDevice \/ DevicesStarted)
  BY DEF StopNode, SetAdapters, ListLinks, EnsureLink, LinksDone, StartDevice,
         DevicesStarted, StartIfNotStarted
<1>3. ~ (\/ WriteInterfaces \/ StartHost \/ AuthorizeKey \/ Install \/ BringUpAddresses
         \/ RelistNodes \/ StartSwitch)
  BY DEF WriteInterfaces, StartHost, AuthorizeKey, Install, BringUpAddresses, RelistNodes,
         StartSwitch, StartIfNotStarted, Typed
<1>4. ~ (\/ NextDevice \/ AwaitJunos \/ ReachPrompt \/ WriteMemory \/ Commit \/ ShowIp
         \/ ReadBack \/ DevicesDone)
  BY DEF NextDevice, AwaitJunos, ReachPrompt, WriteMemory, Commit, ShowIp, ReadBack,
         DevicesDone, DeviceDone, Typed
<1>5. ~ (Check \/ Verdict \/ Observe \/ Power \/ Proven)
  BY DEF Check, Verdict, Observe, Power, Proven
<1>6. World => PowerLoss
  BY DEF World, EditTopology, OperatorPowers, ResetDisk, HardenDevice, StartRun, ByHand, Ended
<1> QED BY <1>1, <1>2, <1>3, <1>4, <1>5, <1>6 DEF Next, Program

(* Once every line is dealt with, the device carries all it has to: a line   *)
(* that was typed is undone by no other of the file.                        *)
LEMMA AfterWhole ==
  ASSUME ProcessTyped, NEW d \in Names, Held(d) \in NodeSet
  PROVE  Carried(topo, d) \subseteq After(d, Len(Pushed(topo, d))).running
<1> DEFINE lines == Pushed(topo, d)
           typed == {lines[i] : i \in {j \in 1 .. Len(lines) : Types(d, lines[j])}}
           live  == Over(Held(d).running, typed \ {"save"})
<1>1. lines \in Seq(STRING \union {"rsa"}) /\ topo \in Topologies
  BY PushedLines DEF ProcessTyped
<1>2. Carried(topo, d) \subseteq live
  <2> SUFFICES ASSUME NEW line \in Carried(topo, d)
               PROVE  line \in live
    OBVIOUS
  <2>1. line \in Lines(topo, d) /\ line \notin {"login-local", "save"}
    BY DEF Carried
  <2>2. line \in typed \/ (line = "rsa" /\ "rsa" \in Held(d).running)
    BY <1>1, <2>1 DEF Lines, Types
  <2>3. typed \subseteq Lines(topo, d)
    BY <1>1 DEF Lines
  <2>4. \A other \in typed : Sets(other) = Sets(line) => other = line
    BY <1>1, <2>1, <2>3, SetsAssumption
  <2> HIDE DEF typed
  <2> QED BY <2>1, <2>2, <2>4 DEF Over
<1>3. After(d, Len(lines)) =
        [Held(d) EXCEPT !.running = live,
           !.startup = IF "save" \in typed THEN live ELSE @,
           !.console = IF topo.platform[d] = "vpcs" THEN @ ELSE "config"]
  BY DEF After
<1>4. After(d, Len(lines)).running = live
  <2> HIDE DEF typed, live, lines
  <2> QED BY <1>3 DEF NodeSet
<1> QED BY <1>2, <1>4

LEMMA WholeStep ==
  ASSUME SetUp, Next
  PROVE  ConfigWhole'
<1>1. CASE at' # "save"
  BY <1>1 DEF ConfigWhole
<1>2. CASE PushConfig /\ at' = "save"
  <2> DEFINE d == Device
             lines == Pushed(topo, d)
  <2>1. at = "push" /\ UNCHANGED <<topo, k, rec>> /\ HeldBecomes(d, After(d, Len(lines)))
    BY <1>2 DEF PushConfig
  <2>2. Device' = d
    BY <2>1 DEF Device, Item
  <2>3. d \in Names /\ rec[d].id \in DOMAIN node /\ Held(d) \in NodeSet
    BY <2>1, DeviceInHand DEF Setting
  <2>4. Carried(topo, d) \subseteq After(d, Len(lines)).running
    BY <2>3, AfterWhole DEF SetUp, Inv
  <2>5. node'[rec[d].id] = After(d, Len(lines))
    BY <2>1, <2>3 DEF SetUp, Inv, Nodes, ServerTyped
  <2>6. Carried(topo, Device)' = Carried(topo, d)
    BY <2>1, <2>2 DEF Carried, Lines, Pushed
  <2>7. Held(Device)' = After(d, Len(lines))
    BY <2>1, <2>2, <2>5
  <2> HIDE DEF d, lines
  <2> QED BY <2>4, <2>6, <2>7 DEF ConfigWhole
<1>3. CASE PowerLoss /\ at' = "save"
  <2>1. at = "save" /\ UNCHANGED <<topo, k, rec>>
        /\ \A i \in DOMAIN node : node'[i] \in {node[i], Damaged(node[i]), Stopped(node[i])}
    BY <1>3, PowerLost DEF PowerLoss
  <2>2. Device' = Device
    BY <2>1 DEF Device, Item
  <2>3. rec[Device].id \in DOMAIN node /\ Held(Device) \in NodeSet
    BY <2>1, DeviceInHand DEF Setting
  <2>4. Stopped(Held(Device)).status = "stopped" /\ Damaged(Held(Device)).status = "stopped"
    BY <2>3, PowerKeeps
  <2>5. node'[rec[Device].id].status = "started" => node'[rec[Device].id] = Held(Device)
    BY <2>1, <2>3, <2>4
  <2>6. Carried(topo, Device)' = Carried(topo, Device)
    BY <2>1, <2>2 DEF Carried, Lines, Pushed
  <2> QED BY <2>1, <2>2, <2>5, <2>6 DEF SetUp, ConfigWhole
<1> QED BY <1>1, <1>2, <1>3, OnlyPush

LEMMA SetUpInit ==
  ASSUME Init
  PROVE  SetUp /\ SaidTrue
<1>1. node = <<>> /\ rec = <<>> /\ at = "idle" /\ said = {}
  BY DEF Init
<1>2. AllSound /\ RecordsNamed /\ HandKnown /\ ConfigWhole /\ SaidTrue
  BY <1>1 DEF AllSound, RecordsNamed, HandKnown, ConfigWhole, SaidTrue, Setting
<1> QED BY <1>2, InitInv DEF SetUp

LEMMA SetUpStep ==
  ASSUME SetUp, SaidTrue, [Next]_vars
  PROVE  (SetUp /\ SaidTrue)'
<1>1. Inv'
  BY InvStep DEF SetUp
<1>2. CASE Next
  BY <1>1, <1>2, SoundStep, RecordsNamedStep, HandStep, WholeStep DEF SetUp
<1>3. CASE UNCHANGED vars
  <2>1. UNCHANGED <<topo, node, at, k, rec, said>>
    BY <1>3 DEF vars
  <2>2. AllSound' /\ SaidTrue'
    BY <2>1 DEF SetUp, AllSound, Sound, Configured, SaidTrue, Ids
  <2>3. RecordsNamed' /\ HandKnown' /\ ConfigWhole'
    BY <2>1 DEF SetUp, RecordsNamed, HandKnown, ConfigWhole, NamesOf, Carried, Lines, Pushed, Device, Item
  <2> QED BY <1>1, <2>2, <2>3 DEF SetUp
<1> QED BY <1>2, <1>3

(* `Saved to startup-config (verified by reading it back)': the hostname    *)
(* stands for the whole of what the read back was to show, whatever was cut  *)
(* off, edited, hardened or lost since (configure_switch, configure_ios).    *)
THEOREM LabSavedBoots == Spec => []SavedBoots
<1>1. Init => SetUp /\ SaidTrue
  BY SetUpInit
<1>2. SetUp /\ SaidTrue /\ [Next]_vars => (SetUp /\ SaidTrue)'
  BY SetUpStep
<1>3. SetUp /\ SaidTrue => SavedBoots
  BY DEF SetUp, Inv, AllSound, Sound, SaidTrue, SavedBoots, Ids
<1> QED BY <1>1, <1>2, <1>3, PTL DEF Spec

(* ------------------------------------------------------------------------ *)
(* What a build has laid by the time it gets to a place, as long as no      *)
(* power loss has closed the project under it.                              *)

Late == {"links", "start", "host", "relist", "switch", "devices", "pings"} \union Setting

Sized ==
  \A name \in NamesOf(topo) : \E i \in Ids(name) : topo.adapters[name] \in {0, node[i].adapters}

(* The container with these steps of its provisioning behind it, and with   *)
(* what they brought, or were taken to find there.                          *)
OnDisk == {"interfaces", "sshd", "git", "repo", "packages"}
HostLaid(gone) ==
  \A i \in Ids(topo.host) :
    /\ (gone \intersect OnDisk) \ assumed \subseteq node[i].startup
    /\ "key" \in gone => "key" \in assumed \/ node[i].keys = 1
    /\ "addresses" \in gone => node[i].status = "started" /\ "interfaces" \in node[i].running
Gone == CASE at = "host" -> {HostSteps[j] : j \in 1 .. k - 1}
          [] at \in {"links", "start"} -> {}
          [] OTHER -> HostItems

(* A device that runs with all of its lines; and one that is done with.      *)
Carries(d) ==
  \A i \in Ids(d) : node[i].status = "started" /\ Carried(topo, d) \subseteq node[i].running
Laid(d) ==
  /\ Carries(d)
  /\ topo.platform[d] = "junos" => \A i \in Ids(d) : Carried(topo, d) \subseteq node[i].startup
  /\ topo.platform[d] = "ios" => d \in said

Cabled ==
  /\ at = "links" => have \subseteq {link[j] : j \in DOMAIN link}
  /\ \A j \in DOMAIN topo.links : at # "links" \/ j < k => Linked(topo.links[j])
Furnished ==
  /\ at = "host" => k <= Len(HostSteps)
  /\ at \in {"relist", "devices"} => topo.devices # <<>>
  /\ at \in Setting \union {"devices"} =>
       \A j \in DOMAIN topo.devices : j < k => Laid(topo.devices[j])
  /\ at \in {"save", "readback"} => Carries(Device)
  /\ at = "pings" => \A d \in Devices(topo) : Laid(d)
Raised ==
  mode = "build" /\ project = "opened" /\ at \in Late =>
    Sized /\ Cabled /\ HostLaid(Gone) /\ Furnished

(* A project that was closed under a build has nothing on that can be off.   *)
Dark ==
  mode = "build" /\ at \notin Ended \union {"project"} /\ project # "opened" =>
    \A i \in DOMAIN node : AlwaysOn(node[i].name) \/ node[i].status = "stopped"

OnlyBuild == mode = "build" => only = {}

(* What the file wants of a node's configuration.                           *)
Due(name) == IF name \in Devices(topo) THEN Carried(topo, name) ELSE HostItems

(* What a step of a build may make of the nodes: nothing that runs stops or  *)
(* loses a line it is due, and of these what a device boots from is at least *)
(* what it was or what it runs.                                             *)
Adds(n, m) ==
  LET due == Due(n.name) IN
  /\ m.name = n.name /\ m.adapters = n.adapters
  /\ n.status = "started" => m.status = "started" /\ n.running \intersect due \subseteq m.running
  /\ n.keys = 1 => m.keys = 1
  /\ \/ n.startup \intersect due \subseteq m.startup
     \/ n.name \in Devices(topo) /\ n.running \intersect due \subseteq m.startup
Adding ==
  /\ UNCHANGED topo /\ DOMAIN node' = DOMAIN node
  /\ \A i \in DOMAIN node : Adds(node[i], node'[i])

LEMMA OneAdds ==
  ASSUME ServerTyped, UNCHANGED topo, NEW i, NEW m, i \in DOMAIN node => Adds(node[i], m),
         node' = [node EXCEPT ![i] = m]
  PROVE  Adding
<1>1. \A j \in DOMAIN node : Adds(node[j], node[j])
  BY DEF Adds
<1>2. DOMAIN node' = DOMAIN node /\ \A j \in DOMAIN node : node'[j] = IF j = i THEN m ELSE node[j]
  BY DEF ServerTyped
<1> QED BY <1>1, <1>2 DEF Adding

LEMMA SameAdds ==
  ASSUME UNCHANGED <<topo, node>>
  PROVE  Adding
BY DEF Adding, Adds

(* The container is no device.                                              *)
LEMMA HostApart ==
  ASSUME ProcessTyped
  PROVE  /\ topo.host \notin Devices(topo) /\ ~ AlwaysOn(topo.host)
         /\ topo.host \in NamesOf(topo) /\ Devices(topo) \subseteq NamesOf(topo)
         /\ NamesOf(topo) \subseteq Names
<1>1. topo \in Topologies
  BY DEF ProcessTyped
<1>2. topo.host \notin topo.builtin /\ topo.host \notin Devices(topo)
  BY <1>1, ChecksAssumption DEF Devices
<1>3. topo.host \in NamesOf(topo)
  BY Zenon, <1>1, TopologiesAssumption DEF NamesOf
<1>4. topo.devices \in Seq(NamesOf(topo)) /\ (topo.devices = <<>> => topo.switch \in NamesOf(topo))
  BY Zenon, <1>1, TopologiesAssumption DEF NamesOf
<1>5. Devices(topo) \subseteq NamesOf(topo)
  BY <1>4 DEF Devices
<1>6. topo.nodes \in Seq(Names)
  BY Zenon, <1>1, TopologiesAssumption
<1>7. NamesOf(topo) \subseteq Names
  BY <1>6 DEF NamesOf
<1> QED BY <1>2, <1>3, <1>5, <1>7 DEF AlwaysOn

(* What was laid stays.                                                     *)
LEMMA AddingKeeps ==
  ASSUME ServerTyped, ProcessTyped, Adding
  PROVE  /\ \A d : Ids(d)' = Ids(d)
         /\ Sized => Sized'
         /\ \A d \in Devices(topo) : Carries(d) => Carries(d)'
         /\ said \subseteq said' => \A d \in Devices(topo) : Laid(d) => Laid(d)'
         /\ assumed \subseteq assumed' => \A gone : HostLaid(gone) => HostLaid(gone)'
<1>1. \A d : Ids(d)' = Ids(d)
  BY DEF Ids, Adding, Adds
<1>2. ASSUME Sized
      PROVE  Sized'
  BY <1>1, <1>2 DEF Sized, Adding, Adds, NamesOf, Ids
<1>3. ASSUME NEW d \in Devices(topo), Carries(d)
      PROVE  Carries(d)'
  <2>1. Carried(topo, d)' = Carried(topo, d)
    BY DEF Adding, Carried, Lines, Pushed
  <2>2. Due(d) = Carried(topo, d)
    BY DEF Due
  <2>3. ASSUME NEW i \in Ids(d)
        PROVE  node'[i].status = "started" /\ Carried(topo, d) \subseteq node'[i].running
    <3>1. node[i].status = "started" /\ Carried(topo, d) \subseteq node[i].running
      BY <1>3 DEF Carries
    <3>2. Adds(node[i], node'[i]) /\ node[i].name = d
      BY DEF Adding, Ids
    <3> QED BY <2>2, <3>1, <3>2 DEF Adds
  <2> QED BY <1>1, <2>1, <2>3 DEF Carries
<1>4. ASSUME NEW d \in Devices(topo), Laid(d), said \subseteq said'
      PROVE  Laid(d)'
  <2>1. Carried(topo, d)' = Carried(topo, d) /\ topo' = topo
    BY DEF Adding, Carried, Lines, Pushed
  <2>2. Carries(d) /\ Carries(d)'
    BY <1>3, <1>4 DEF Laid
  <2>3. ASSUME topo.platform[d] = "junos", NEW i \in Ids(d)
        PROVE  Carried(topo, d) \subseteq node'[i].startup
    <3>1. Carried(topo, d) \subseteq node[i].running \intersect node[i].startup
      BY <1>4, <2>2, <2>3 DEF Laid, Carries
    <3>2. Adds(node[i], node'[i]) /\ node[i].name = d
      BY DEF Adding, Ids
    <3>3. Due(d) = Carried(topo, d)
      BY DEF Due
    <3> QED BY <3>1, <3>2, <3>3 DEF Adds
  <2> QED BY <1>1, <1>4, <2>1, <2>2, <2>3 DEF Laid
<1>5. ASSUME NEW gone, HostLaid(gone), assumed \subseteq assumed'
      PROVE  HostLaid(gone)'
  <2>1. ASSUME NEW i \in Ids(topo.host)
        PROVE  /\ node[i].startup \intersect HostItems \subseteq node'[i].startup
               /\ node[i].keys = 1 => node'[i].keys = 1
               /\ node[i].status = "started" =>
                    /\ node'[i].status = "started"
                    /\ node[i].running \intersect HostItems \subseteq node'[i].running
    <3>1. Due(topo.host) = HostItems /\ topo.host \notin Devices(topo)
      BY HostApart DEF Due
    <3>2. Adds(node[i], node'[i]) /\ node[i].name = topo.host
      BY DEF Adding, Ids
    <3> QED BY <3>1, <3>2 DEF Adds
  <2>2. Ids(topo.host)' = Ids(topo.host) /\ topo' = topo
    BY <1>1 DEF Adding
  <2>3. OnDisk \subseteq HostItems /\ "interfaces" \in HostItems
    BY DEF OnDisk, HostItems
  <2> QED BY <1>5, <2>1, <2>2, <2>3 DEF HostLaid
<1> QED BY <1>1, <1>2, <1>3, <1>4, <1>5

(* Links stay between the names they were made between.                     *)
LEMMA LinkedStays ==
  ASSUME ServerTyped, Adding, UNCHANGED link, NEW ends, Linked(ends)
  PROVE  Linked(ends)'
<1>1. PICK j \in DOMAIN link : {<<node[e[1]].name, e[2]>> : e \in link[j]} = ends
  BY DEF Linked
<1>2. \A e \in link[j] : e[1] \in DOMAIN node /\ node'[e[1]].name = node[e[1]].name
  BY <1>1 DEF ServerTyped, Adding, Adds
<1>3. {<<node'[e[1]].name, e[2]>> : e \in link[j]} = ends
  BY <1>1, <1>2
<1> QED BY <1>1, <1>3 DEF Linked

LEMMA OnlyBuildStep ==
  ASSUME ProcessTyped, OnlyBuild, Next
  PROVE  OnlyBuild'
<1>1. CASE Program
  BY <1>1, ProgramControlled DEF Controlled, OnlyBuild
<1>2. CASE World
  BY <1>2 DEF World, PowerLoss, EditTopology, OperatorPowers, ResetDisk, HardenDevice, StartRun, OnlyBuild
<1> QED BY <1>1, <1>2 DEF Next

(* ------------------------------------------------------------------------ *)
(* The steps that lead on, once the nodes are ensured.                      *)
Linking == ListLinks \/ EnsureLink \/ LinksDone
Starting == StartDevice \/ DevicesStarted
Provisioning == WriteInterfaces \/ StartHost \/ AuthorizeKey \/ Install \/ BringUpAddresses
Listing == RelistNodes \/ StartSwitch \/ NextDevice \/ DevicesDone
Typing == AwaitJunos \/ ReachPrompt \/ PushConfig
Saving == WriteMemory \/ Commit \/ ShowIp \/ ReadBack

LEMMA OnlyLate ==
  ASSUME ProcessTyped, Next, mode' = "build", project' = "opened", at' \in Late
  PROVE  /\ mode = "build" /\ project = "opened" /\ UNCHANGED topo /\ assumed \subseteq assumed'
         /\ Linking \/ Starting \/ Provisioning \/ Listing \/ Typing \/ Saving \/ Check
<1> USE DEF Late, Setting, Ended
<1>1. ~ (\/ EnsureProject \/ ReuseNode \/ CreateBuiltin \/ CreateFromTemplate
         \/ RenameNode \/ AdaptersRight)
  BY DEF EnsureProject, ReuseNode, CreateBuiltin, CreateFromTemplate, Created,
         RenameNode, AdaptersRight
<1>2. ~ (StopNode \/ SetAdapters)
  BY DEF StopNode, SetAdapters
<1>3. ~ ListNodes
  BY DEF ListNodes
<1>4. ~ (Verdict \/ Observe \/ Power \/ Proven)
  <2>1. ~ (Observe /\ at' \in Late) /\ ~ (Power /\ at' \in Late)
    BY DEF Observe, Power
  <2> QED BY <2>1 DEF Verdict, Proven
<1>5. ~ World
  BY DEF World, PowerLoss, EditTopology, OperatorPowers, ResetDisk, HardenDevice, StartRun, ByHand
<1>6. Program /\ (Linking \/ Starting \/ Provisioning \/ Listing \/ Typing \/ Saving \/ Check)
  BY <1>1, <1>2, <1>3, <1>4, <1>5
  DEF Next, Program, Linking, Starting, Provisioning, Listing, Typing, Saving
<1>7. UNCHANGED <<topo, mode>>
  BY <1>6, ProgramControlled DEF Controlled
<1>8. UNCHANGED project
  <2>1. CASE Linking \/ Starting \/ Listing \/ Check
    BY <2>1
    DEF Linking, Starting, Listing, ListLinks, EnsureLink, LinksDone, StartDevice, DevicesStarted,
        RelistNodes, StartSwitch, NextDevice, DevicesDone, Check, StartIfNotStarted
  <2>2. CASE Provisioning
    BY <2>2
    DEF Provisioning, WriteInterfaces, StartHost, AuthorizeKey, Install, BringUpAddresses, Typed,
        StartIfNotStarted
  <2>3. CASE Typing \/ Saving
    BY <2>3
    DEF Typing, Saving, AwaitJunos, ReachPrompt, PushConfig, WriteMemory, Commit, ShowIp, ReadBack,
        Typed
  <2> QED BY <1>6, <2>1, <2>2, <2>3
<1>9. assumed \subseteq assumed'
  <2>1. CASE Linking \/ Starting \/ Listing \/ Check
    BY <2>1
    DEF Linking, Starting, Listing, ListLinks, EnsureLink, LinksDone, StartDevice, DevicesStarted,
        RelistNodes, StartSwitch, NextDevice, DevicesDone, Check, StartIfNotStarted
  <2>2. CASE Provisioning
    BY <2>2
    DEF Provisioning, WriteInterfaces, StartHost, AuthorizeKey, Install, BringUpAddresses, Typed,
        StartIfNotStarted
  <2>3. CASE Typing \/ Saving
    BY <2>3
    DEF Typing, Saving, AwaitJunos, ReachPrompt, PushConfig, WriteMemory, Commit, ShowIp, ReadBack,
        Typed, DeviceDone
  <2> QED BY <1>6, <2>1, <2>2, <2>3
<1> QED BY <1>6, <1>7, <1>8, <1>9

(* ------------------------------------------------------------------------ *)
(* None of them takes anything away.                                        *)
LEMMA StartAdds ==
  ASSUME ServerTyped, UNCHANGED topo, NEW name, NEW next, StartIfNotStarted(name, next)
  PROVE  Adding
<1> DEFINE i == rec[name].id
<1>1. ASSUME i \in DOMAIN node
      PROVE  Adds(node[i], Started(node[i]))
  <2>1. node[i] \in NodeSet
    BY <1>1, IdsHeld
  <2> QED BY <2>1 DEF Adds, Started, NodeSet
<1>2. UNCHANGED node \/ node' = [node EXCEPT ![i] = Started(node[i])]
  BY DEF StartIfNotStarted
<1> QED BY <1>1, <1>2, OneAdds, SameAdds

LEMMA HostAdds ==
  ASSUME ServerTyped, UNCHANGED topo, Provisioning
  PROVE  Adding
<1> DEFINE i == rec[topo.host].id
<1>1. i \in DOMAIN node => node[i] \in NodeSet
  BY IdsHeld
<1>2. ASSUME NEW item, HeldBecomes(topo.host, Put(item))
      PROVE  Adding
  <2>1. i \in DOMAIN node => Adds(node[i], Put(item))
    BY <1>1 DEF Put, Adds, NodeSet
  <2> QED BY <1>2, <2>1, OneAdds
<1>3. CASE WriteInterfaces
  BY <1>2, <1>3, SameAdds DEF WriteInterfaces
<1>4. CASE Install
  BY <1>2, <1>4, SameAdds DEF Install, Typed
<1>5. CASE AuthorizeKey
  <2> DEFINE m == [node[i] EXCEPT !.keys = IF @ = 0 THEN 1 ELSE @]
  <2>1. i \in DOMAIN node => Adds(node[i], m)
    BY <1>1 DEF Adds, NodeSet
  <2>2. UNCHANGED node \/ node' = [node EXCEPT ![i] = m]
    BY <1>5 DEF AuthorizeKey, Typed
  <2> QED BY <2>1, <2>2, OneAdds, SameAdds
<1>6. CASE BringUpAddresses
  <2> DEFINE m == [node[i] EXCEPT !.running = @ \union {"interfaces"}]
  <2>1. i \in DOMAIN node => Adds(node[i], m)
    BY <1>1 DEF Adds, NodeSet
  <2>2. UNCHANGED node \/ node' = [node EXCEPT ![i] = m]
    BY <1>6 DEF BringUpAddresses, Typed
  <2> QED BY <2>1, <2>2, OneAdds, SameAdds
<1>7. CASE StartHost
  BY <1>7, StartAdds DEF StartHost
<1> QED BY <1>3, <1>4, <1>5, <1>6, <1>7 DEF Provisioning

LEMMA DeviceIsOne ==
  ASSUME SetUp, at \in Setting
  PROVE  /\ Device \in Devices(topo) /\ Ids(Device) = {rec[Device].id}
         /\ rec[Device].id \in DOMAIN node /\ Held(Device) \in NodeSet /\ Held(Device).name = Device
<1>1. /\ Device \in Names /\ rec[Device].id \in DOMAIN node /\ Held(Device).name = Device
      /\ Held(Device) \in NodeSet
  BY DeviceInHand
<1>2. \A i \in Ids(Device) : i = rec[Device].id
  BY <1>1, StrayAssumption DEF Ids, SetUp, Inv, Nodes, Distinct
<1>3. Device \in Devices(topo)
  <2>1. CASE topo.devices = <<>>
    BY <2>1 DEF Devices, Device
  <2>2. CASE topo.devices # <<>>
    <3>1. topo.devices \in Seq(NamesOf(topo)) /\ k \in Nat \ {0}
      BY Zenon, TopologiesAssumption DEF SetUp, Inv, ProcessTyped, NamesOf
    <3>2. k <= Len(topo.devices)
      BY <2>2 DEF SetUp, Inv, PlaceKnown, Setting
    <3> QED BY <2>2, <3>1, <3>2 DEF Devices, Device, Item
  <2> QED BY <2>1, <2>2
<1> QED BY <1>1, <1>2, <1>3 DEF Ids

LEMMA DevicesAdd ==
  ASSUME SetUp, UNCHANGED topo, Typing \/ Saving
  PROVE  Adding
<1> DEFINE i == rec[Device].id
           n == node[i]
<1>0. ServerTyped /\ at \in Setting
  BY DEF SetUp, Inv, Nodes, Typing, Saving, AwaitJunos, ReachPrompt, PushConfig, WriteMemory, Commit,
         ShowIp, ReadBack, Setting
<1>1. n \in NodeSet /\ n.name = Device /\ Device \in Devices(topo)
  BY <1>0, DeviceIsOne
<1>2. ASSUME NEW prompt, HeldBecomes(Device, [n EXCEPT !.console = prompt])
      PROVE  Adding
  <2>1. Adds(n, [n EXCEPT !.console = prompt])
    BY <1>1 DEF Adds, NodeSet
  <2> QED BY <1>0, <1>2, <2>1, OneAdds
<1>3. ASSUME NEW prompt, HeldBecomes(Device, [n EXCEPT !.startup = n.running, !.console = prompt])
      PROVE  Adding
  <2>1. Adds(n, [n EXCEPT !.startup = n.running, !.console = prompt])
    BY <1>1 DEF Adds, NodeSet
  <2> QED BY <1>0, <1>3, <2>1, OneAdds
<1>4. ASSUME NEW j \in 0 .. Len(Pushed(topo, Device)), HeldBecomes(Device, After(Device, j))
      PROVE  Adding
  <2> DEFINE lines == Pushed(topo, Device)
             new   == {lines[l] : l \in {l \in 1 .. j : Types(Device, lines[l])}}
             live  == Over(n.running, new \ {"save"})
  <2>1. Device \in Names /\ lines \in Seq(STRING \union {"rsa"}) /\ topo \in Topologies
    BY <1>0, <1>1, DeviceInHand, PushedLines DEF SetUp, Inv, ProcessTyped
  <2>2. n.running \intersect Carried(topo, Device) \subseteq live
    <3> SUFFICES ASSUME NEW line \in n.running \intersect Carried(topo, Device)
                 PROVE  line \in live
      OBVIOUS
    <3>1. line \in Lines(topo, Device) /\ line # "save"
      BY DEF Carried
    <3>2. new \subseteq Lines(topo, Device)
      BY <2>1 DEF Lines
    <3>3. \A other \in new : Sets(other) = Sets(line) => other = line
      BY <2>1, <3>1, <3>2, SetsAssumption
    <3> HIDE DEF new
    <3> QED BY <3>1, <3>3 DEF Over
  <2>3. After(Device, j) =
          [n EXCEPT !.running = live,
             !.startup = IF "save" \in new THEN live ELSE @,
             !.console = IF topo.platform[Device] = "vpcs" THEN @ ELSE "config"]
    BY DEF After
  <2>4. Due(n.name) = Carried(topo, Device)
    BY <1>1 DEF Due
  <2>5. Adds(n, After(Device, j))
    <3> HIDE DEF new, live, n
    <3>1. /\ After(Device, j).name = n.name /\ After(Device, j).adapters = n.adapters
          /\ After(Device, j).keys = n.keys /\ After(Device, j).status = n.status
          /\ After(Device, j).running = live /\ After(Device, j).startup \in {n.startup, live}
      BY <1>1, <2>3 DEF NodeSet
    <3> QED BY <1>1, <2>2, <2>4, <3>1 DEF Adds
  <2> QED BY <1>0, <1>4, <2>5, OneAdds
<1>5. CASE AwaitJunos
  BY <1>2, <1>5, SameAdds DEF AwaitJunos
<1>6. CASE PushConfig
  <2>1. Pushed(topo, Device) \in Seq(STRING \union {"rsa"})
    BY <1>0, DeviceInHand, PushedLines DEF SetUp, Inv
  <2>2. Len(Pushed(topo, Device)) \in 0 .. Len(Pushed(topo, Device))
    BY <2>1
  <2>3. \/ UNCHANGED node
        \/ \E j \in 0 .. Len(Pushed(topo, Device)) : HeldBecomes(Device, After(Device, j))
    BY <1>6, <2>2 DEF PushConfig
  <2> QED BY <1>4, <2>3, SameAdds
<1>7. CASE WriteMemory \/ Commit
  BY <1>2, <1>3, <1>7, SameAdds DEF WriteMemory, Commit, Typed, SavedBy
<1>8. CASE ReachPrompt \/ ShowIp \/ ReadBack
  BY <1>8, SameAdds DEF ReachPrompt, ShowIp, ReadBack, Typed
<1> QED BY <1>5, <1>6, <1>7, <1>8 DEF Typing, Saving

LEMMA LateAdds ==
  ASSUME SetUp, UNCHANGED topo,
         Linking \/ Starting \/ Provisioning \/ Listing \/ Typing \/ Saving \/ Check
  PROVE  Adding
<1>1. ServerTyped
  BY DEF SetUp, Inv, Nodes
<1>2. CASE StartDevice \/ StartSwitch
  BY <1>1, <1>2, StartAdds DEF StartDevice, StartSwitch
<1>3. CASE Linking \/ DevicesStarted \/ RelistNodes \/ NextDevice \/ DevicesDone \/ Check
  BY <1>3, SameAdds DEF Linking, ListLinks, EnsureLink, LinksDone, DevicesStarted, RelistNodes,
                        NextDevice, DevicesDone, Check
<1> QED
  BY <1>1, <1>2, <1>3, HostAdds, DevicesAdd DEF Starting, Listing
(* ------------------------------------------------------------------------ *)
(* What each of them lays.                                                  *)
LEMMA LinkMade ==
  ASSUME Nodes, ProcessTyped, at = "links", NEW i \in DOMAIN topo.links, UNCHANGED node,
         NEW ends, ends = topo.links[i], NEW j \in DOMAIN link', link'[j] = EndsOf(ends)
  PROVE  Linked(ends)'
<1>1. \A e \in ends :
        /\ e \in Names \X Nat /\ rec[e[1]].id \in DOMAIN node /\ node[rec[e[1]].id].name = e[1]
  BY LinkNamed
<1>2. \A e \in ends : <<node[rec[e[1]].id].name, e[2]>> = e
  BY <1>1
<1>3. \A f \in EndsOf(ends) : <<node[f[1]].name, f[2]>> \in ends
  <2> SUFFICES ASSUME NEW e \in ends
               PROVE  <<node[rec[e[1]].id].name, e[2]>> \in ends
    BY DEF EndsOf
  <2> QED BY <1>2
<1>4. \A e \in ends : \E f \in EndsOf(ends) : <<node[f[1]].name, f[2]>> = e
  <2> SUFFICES ASSUME NEW e \in ends
               PROVE  \E f \in EndsOf(ends) : <<node[f[1]].name, f[2]>> = e
    OBVIOUS
  <2> DEFINE f == <<rec[e[1]].id, e[2]>>
  <2>1. f \in EndsOf(ends) /\ f[1] = rec[e[1]].id /\ f[2] = e[2]
    BY DEF EndsOf
  <2>2. <<node[f[1]].name, f[2]>> = e
    BY <1>2, <2>1
  <2> QED BY <2>1, <2>2
<1>5. {<<node[f[1]].name, f[2]>> : f \in EndsOf(ends)} = ends
  BY <1>3, <1>4
<1> QED BY <1>5 DEF Linked

LEMMA Stays ==
  ASSUME SetUp, Sized, HostLaid(Gone), Adding, assumed \subseteq assumed'
  PROVE  /\ Sized'
         /\ Gone' = Gone => HostLaid(Gone)'
<1>0. ServerTyped /\ ProcessTyped
  BY DEF SetUp, Inv, Nodes
<1>1. Sized'
  BY <1>0, AddingKeeps
<1>2. ASSUME Gone' = Gone
      PROVE  HostLaid(Gone)'
  <2>1. PICK gone : gone = Gone
    OBVIOUS
  <2>2. HostLaid(gone)
    BY <2>1
  <2>3. HostLaid(gone)'
    BY <1>0, <2>2, AddingKeeps
  <2> QED BY <1>2, <2>1, <2>3 DEF HostLaid
<1> QED BY <1>1, <1>2

LEMMA NothingGone ==
  ASSUME ServerTyped, Gone = {}
  PROVE  HostLaid(Gone)
BY DEF HostLaid
LEMMA ListRaised ==
  ASSUME SetUp, ListLinks, at' = "links"
  PROVE  Raised'
<1>1. /\ at = "nodes" /\ k > Len(topo.nodes) /\ k' = 1 /\ UNCHANGED <<topo, node, link, rec>>
      /\ have' = {link[j] : j \in DOMAIN link}
  BY DEF ListLinks
<1>2. topo.nodes \in Seq(Names) /\ k \in Nat \ {0} /\ topo.links \in Seq(SUBSET (Names \X Nat))
  BY Zenon, TopologiesAssumption DEF SetUp, Inv, ProcessTyped
<1>3. ASSUME NEW name \in NamesOf(topo)
      PROVE  \E i \in Ids(name) : topo.adapters[name] \in {0, node[i].adapters}
  <2>1. PICK j \in DOMAIN topo.nodes : topo.nodes[j] = name
    BY DEF NamesOf
  <2>2. name \in DOMAIN rec \intersect Names /\ topo.adapters[name] \in {0, rec[name].adapters}
    BY <1>1, <1>2, <2>1 DEF SetUp, Inv, Nodes, Phased, Settled, Building
  <2>3. /\ rec[name].id \in DOMAIN node /\ Held(name).adapters = rec[name].adapters
        /\ Held(name).name = name
    BY <1>1, <2>2 DEF SetUp, Inv, Nodes, RecordsTyped, Phased, RecordsTrue, Building
  <2> QED BY <2>2, <2>3 DEF Ids
<1>4. Sized'
  BY <1>1, <1>3 DEF Sized, NamesOf, Ids
<1>5. Cabled'
  BY <1>1, <1>2 DEF Cabled
<1>6. HostLaid(Gone)'
  BY DEF HostLaid, Gone
<1>7. Furnished'
  BY DEF Furnished, Setting
<1> QED BY <1>4, <1>5, <1>6, <1>7 DEF Raised

LEMMA LinkRaised ==
  ASSUME SetUp, Sized, Cabled, EnsureLink, at' = "links"
  PROVE  Raised'
<1> DEFINE ends == EndsOf(Item(topo.links))
<1>0. Nodes /\ ServerTyped /\ ProcessTyped
  BY DEF SetUp, Inv, Nodes
<1>1. /\ at = "links" /\ k <= Len(topo.links) /\ k' = k + 1 /\ UNCHANGED <<topo, node, rec, have>>
      /\ \/ ends \in have /\ link' = link
         \/ link' = Append(link, ends)
  BY DEF EnsureLink
<1>2. topo.links \in Seq(SUBSET (Names \X Nat)) /\ k \in Nat \ {0}
  BY Zenon, <1>0, TopologiesAssumption DEF ProcessTyped
<1>3. /\ have \subseteq {link'[j] : j \in DOMAIN link'}
      /\ \E j \in DOMAIN link' : link'[j] = ends
      /\ \A j \in DOMAIN link : j \in DOMAIN link' /\ link'[j] = link[j]
  <2>1. have \subseteq {link[j] : j \in DOMAIN link}
    BY <1>1 DEF Cabled
  <2>2. link \in Seq(SUBSET (Nat \X Nat))
    BY <1>0 DEF ServerTyped
  <2>3. CASE ends \in have /\ link' = link
    BY <2>1, <2>3
  <2>4. CASE link' = Append(link, ends)
    <3> HIDE DEF ends
    <3>1. /\ DOMAIN link' = 1 .. Len(link) + 1 /\ DOMAIN link = 1 .. Len(link) /\ Len(link) \in Nat
          /\ link'[Len(link) + 1] = ends /\ \A j \in DOMAIN link : link'[j] = link[j]
      BY <2>2, <2>4
    <3>2. \A j \in DOMAIN link : j \in DOMAIN link' /\ link'[j] = link[j]
      BY <3>1
    <3> QED BY <2>1, <3>1, <3>2
  <2> QED BY <1>1, <2>3, <2>4
<1>4. ASSUME NEW l, Linked(l)
      PROVE  Linked(l)'
  BY <1>1, <1>3, <1>4 DEF Linked
<1>5. ASSUME NEW j \in DOMAIN topo.links, j < k + 1
      PROVE  \A l : l = topo.links[j] => Linked(l)'
  <2> SUFFICES ASSUME NEW l, l = topo.links[j]
               PROVE  Linked(l)'
    OBVIOUS
  <2>1. j < k \/ j = k
    BY <1>2, <1>5
  <2>2. CASE j < k
    BY <1>1, <1>4, <2>2 DEF Cabled
  <2>3. CASE j = k
    <3>1. EndsOf(l) = ends
      BY <2>3 DEF Item
    <3> QED BY <1>0, <1>1, <1>3, <3>1, LinkMade
  <2> QED BY <2>1, <2>2, <2>3
<1>6. Sized'
  BY <1>1 DEF Sized, NamesOf, Ids
<1>7. Cabled'
  <2>1. \A j \in DOMAIN topo'.links : j < k' => Linked(topo.links[j])'
    <3> SUFFICES ASSUME NEW j \in DOMAIN topo'.links, j < k'
                 PROVE  Linked(topo.links[j])'
      OBVIOUS
    <3>1. PICK l : l = topo.links[j]
      OBVIOUS
    <3>2. Linked(l)'
      BY <1>1, <1>5, <3>1
    <3> QED BY <1>1, <3>1, <3>2 DEF Linked
  <2> QED BY <1>1, <1>3, <2>1 DEF Cabled
<1>8. HostLaid(Gone)'
  BY DEF HostLaid, Gone
<1>9. Furnished'
  BY DEF Furnished, Setting
<1> QED BY <1>6, <1>7, <1>8, <1>9 DEF Raised

(* From then on the links stay as they are.                                 *)
AllLinked == \A j \in DOMAIN topo.links : Linked(topo.links[j])

LEMMA LinksStay ==
  ASSUME SetUp, Adding, AllLinked, UNCHANGED link, at' # "links"
  PROVE  Cabled'
<1>1. ServerTyped /\ UNCHANGED topo
  BY DEF SetUp, Inv, Nodes, Adding
<1>2. ASSUME NEW j \in DOMAIN topo'.links
      PROVE  Linked(topo.links[j])'
  <2>1. PICK l : l = topo.links[j]
    OBVIOUS
  <2>2. Linked(l)
    BY <1>1, <2>1 DEF AllLinked
  <2>3. Linked(l)'
    BY <1>1, <2>2, LinkedStays
  <2> QED BY <1>1, <2>1, <2>3 DEF Linked
<1> QED BY <1>2 DEF Cabled

LEMMA DoneRaised ==
  ASSUME SetUp, Sized, Cabled, LinksDone
  PROVE  Raised'
<1>1. /\ at = "links" /\ k > Len(topo.links) /\ UNCHANGED <<topo, node, link>> /\ k' = 1
      /\ at' \in {"start", "host"}
  BY DEF LinksDone
<1>2. topo.links \in Seq(SUBSET (Names \X Nat)) /\ k \in Nat \ {0}
  BY Zenon, TopologiesAssumption DEF SetUp, Inv, ProcessTyped
<1>3. Adding
  BY <1>1, SameAdds
<1>4. Cabled'
  BY <1>1, <1>2, <1>3, LinksStay DEF Cabled, AllLinked
<1>5. Sized'
  BY <1>3, AddingKeeps DEF SetUp, Inv, Nodes
<1>6. HostLaid(Gone)'
  BY <1>1 DEF HostLaid, Gone
<1>7. Furnished'
  BY <1>1 DEF Furnished, Setting, HostSteps
<1> QED BY <1>4, <1>5, <1>6, <1>7 DEF Raised

LEMMA StartRaised ==
  ASSUME SetUp, Sized, Cabled, UNCHANGED topo, Starting, at' \in {"start", "host"}
  PROVE  Raised'
<1>1. at = "start" /\ UNCHANGED link /\ (at' = "host" => k' = 1)
  BY DEF Starting, StartDevice, DevicesStarted, StartIfNotStarted
<1>2. Adding
  BY LateAdds
<1>3. Cabled'
  BY <1>1, <1>2, LinksStay DEF Cabled, AllLinked
<1>4. Sized'
  BY <1>2, AddingKeeps DEF SetUp, Inv, Nodes
<1>5. HostLaid(Gone)'
  BY <1>1 DEF HostLaid, Gone
<1>6. Furnished'
  BY <1>1 DEF Furnished, Setting, HostSteps
<1> QED BY <1>3, <1>4, <1>5, <1>6 DEF Raised

(* The container gains what it is given.                                    *)
LEMMA HostGains ==
  ASSUME ServerTyped, ProcessTyped, Adding, assumed \subseteq assumed',
         NEW before, HostLaid(before), NEW item, NEW now,
         now \subseteq before \union {item}, NEW h, Ids(topo.host) = {h},
         item \in OnDisk => item \in assumed' \union node'[h].startup,
         item = "key" => "key" \in assumed' \/ node'[h].keys = 1,
         item = "addresses" => node'[h].status = "started" /\ "interfaces" \in node'[h].running
  PROVE  HostLaid(now)'
<1>1. HostLaid(before)' /\ Ids(topo.host)' = {h}
  <2>1. UNCHANGED topo
    BY DEF Adding
  <2>2. HostLaid(before)'
    BY AddingKeeps
  <2>3. \A d : Ids(d)' = Ids(d)
    BY AddingKeeps
  <2> QED BY <2>1, <2>2, <2>3 DEF Ids
<1> QED BY <1>1 DEF HostLaid

LEMMA HostIsOne ==
  ASSUME SetUp, at = "host"
  PROVE  /\ Ids(topo.host) = {rec[topo.host].id} /\ rec[topo.host].id \in DOMAIN node
         /\ Held(topo.host) \in NodeSet /\ Held(topo.host).keys \in {0, 1}
<1>1. topo.host \in Names /\ topo.host \in NamesOf(topo)
  BY HostApart DEF SetUp, Inv
<1>2. topo.host \in DOMAIN rec
  BY <1>1 DEF SetUp, HandKnown
<1>3. rec[topo.host].id \in DOMAIN node
  BY <1>2 DEF SetUp, Inv, Nodes, RecordsTyped
<1>4. Held(topo.host).name = topo.host
  BY <1>1, <1>2 DEF SetUp, RecordsNamed
<1>5. Held(topo.host) \in NodeSet
  BY <1>3, IdsHeld DEF SetUp, Inv, Nodes
<1>6. Held(topo.host).keys \in Nat /\ Held(topo.host).keys <= 1
  BY <1>3, <1>5 DEF NodeSet, SetUp, Inv, Nodes, Distinct
<1>7. \A i \in Ids(topo.host) : i = rec[topo.host].id
  BY <1>1, <1>3, <1>4, StrayAssumption DEF Ids, SetUp, Inv, Nodes, Distinct
<1> QED BY <1>3, <1>4, <1>5, <1>6, <1>7 DEF Ids

LEMMA HostRaised ==
  ASSUME SetUp, Sized, Cabled, HostLaid(Gone), Furnished, UNCHANGED topo, Provisioning,
         at' \in Late, assumed \subseteq assumed'
  PROVE  Raised'
<1> DEFINE h == rec[topo.host].id
           item == HostSteps[k]
<1>0. at = "host" /\ k \in 1 .. 8 /\ UNCHANGED link
  <2>1. at = "host"
    BY DEF Provisioning, WriteInterfaces, StartHost, AuthorizeKey, Install, BringUpAddresses
  <2>2. k \in Nat \ {0} /\ Len(HostSteps) = 8
    BY DEF SetUp, Inv, ProcessTyped, HostSteps
  <2>3. UNCHANGED link
    BY DEF Provisioning, WriteInterfaces, StartHost, AuthorizeKey, Install, BringUpAddresses, Typed,
           StartIfNotStarted
  <2> QED BY <2>1, <2>2, <2>3 DEF Furnished
<1>1. ServerTyped /\ ProcessTyped /\ Adding
  BY LateAdds DEF SetUp, Inv, Nodes
<1>2. Ids(topo.host) = {h} /\ h \in DOMAIN node /\ node[h] \in NodeSet /\ node[h].keys \in {0, 1}
  BY <1>0, HostIsOne
<1>3. /\ item # "addresses" => at' = "host" /\ k' = k + 1
      /\ item = "addresses" => at' = (IF topo.devices # <<>> THEN "relist" ELSE "switch")
  BY DEF Provisioning, WriteInterfaces, StartHost, AuthorizeKey, Install, BringUpAddresses, Typed,
         StartIfNotStarted, Item, Late, Setting
<1>4. ASSUME NEW m, HeldBecomes(topo.host, m)
      PROVE  node'[h] = m
  BY <1>1, <1>2, <1>4 DEF ServerTyped
<1>5. item \in OnDisk => item \in assumed' \union node'[h].startup
  <2>1. item \in OnDisk => item \in assumed' \/ HeldBecomes(topo.host, Put(item))
    BY DEF Provisioning, WriteInterfaces, StartHost, AuthorizeKey, Install, BringUpAddresses, Typed,
           Item, Late, Setting, OnDisk
  <2>2. item \in Put(item).startup
    BY <1>2 DEF Put, NodeSet
  <2> QED BY <1>4, <2>1, <2>2
<1>6. item = "key" => "key" \in assumed' \/ node'[h].keys = 1
  <2> DEFINE m == [node[h] EXCEPT !.keys = IF @ = 0 THEN 1 ELSE @]
  <2>1. item = "key" => "key" \in assumed' \/ HeldBecomes(topo.host, m)
    BY DEF Provisioning, WriteInterfaces, StartHost, AuthorizeKey, Install, BringUpAddresses, Typed,
           Item, Late, Setting
  <2>2. m.keys = 1
    BY <1>2 DEF NodeSet
  <2> QED BY <1>4, <2>1, <2>2
<1>7. item = "addresses" => node'[h].status = "started" /\ "interfaces" \in node'[h].running
  <2> DEFINE m == [node[h] EXCEPT !.running = @ \union {"interfaces"}]
  <2>1. item = "addresses" => HeldBecomes(topo.host, m) /\ node[h].status = "started"
    BY DEF Provisioning, WriteInterfaces, StartHost, AuthorizeKey, Install, BringUpAddresses, Typed,
           Item, Late, Setting
  <2>2. m.status = node[h].status /\ "interfaces" \in m.running
    BY <1>2 DEF NodeSet
  <2> QED BY <1>4, <2>1, <2>2
<1>8. Gone' \subseteq Gone \union {item}
  <2>1. Gone = {HostSteps[j] : j \in 1 .. k - 1}
    BY <1>0 DEF Gone
  <2>2. CASE item # "addresses"
    <3>1. Gone' = {HostSteps[j] : j \in 1 .. k}
      BY <1>0, <1>3, <2>2 DEF Gone
    <3> QED BY <1>0, <2>1, <3>1
  <2>3. CASE item = "addresses"
    <3>1. k = 8
      BY <1>0, <2>3 DEF HostSteps
    <3>2. HostItems \subseteq Gone \union {item}
      BY <2>1, <3>1 DEF HostItems, HostSteps
    <3>3. Gone' = HostItems
      BY <1>3, <2>3 DEF Gone
    <3> QED BY <3>2, <3>3
  <2> QED BY <2>2, <2>3
<1>9. HostLaid(Gone)'
  <2> HIDE DEF h, item
  <2>1. PICK before, now : before = Gone /\ now = Gone'
    OBVIOUS
  <2>2. HostLaid(before)
    BY <2>1
  <2>3. HostLaid(now)'
    BY <1>1, <1>2, <1>5, <1>6, <1>7, <1>8, <2>1, <2>2, HostGains
  <2> QED BY <2>1, <2>3 DEF HostLaid
<1>10. Sized'
  BY <1>1, AddingKeeps
<1>11. Cabled'
  BY <1>0, <1>1, <1>3, LinksStay DEF Cabled, AllLinked
<1>12. Furnished'
  <2>1. item # "addresses" => k < 8
    BY <1>0 DEF HostSteps
  <2> QED BY <1>0, <1>3, <2>1 DEF Furnished, Setting, HostSteps
<1> QED BY <1>9, <1>10, <1>11, <1>12 DEF Raised

(* The devices done with stay done with.                                    *)
LEMMA LaidStay ==
  ASSUME SetUp, Next, Adding
  PROVE  /\ \A d \in Devices(topo) : Laid(d) => Laid(d)'
         /\ \A j \in DOMAIN topo.devices : topo.devices[j] \in Devices(topo)
<1>1. said \subseteq said'
  BY SaidBy
<1> QED BY <1>1, AddingKeeps DEF SetUp, Inv, Nodes, Devices

LEMMA SameLaid ==
  ASSUME UNCHANGED topo, NEW j, \A d : d = topo.devices[j] => Laid(d)'
  PROVE  Laid(topo.devices[j])'
<1>1. PICK d : d = topo.devices[j]
  OBVIOUS
<1> QED BY <1>1 DEF Laid, Carries, Carried, Lines, Pushed, Ids

(* Among the devices everything before the device in hand is laid.          *)
Done == \A j \in DOMAIN topo.devices : j < k => Laid(topo.devices[j])

LEMMA DoneStays ==
  ASSUME SetUp, Next, Adding, Done, UNCHANGED k
  PROVE  Done'
<1>1. UNCHANGED topo
  BY DEF Adding
<1> SUFFICES ASSUME NEW j \in DOMAIN topo.devices, j < k
             PROVE  Laid(topo.devices[j])'
  BY <1>1 DEF Done
<1>2. Laid(topo.devices[j]) /\ topo.devices[j] \in Devices(topo)
  BY LaidStay DEF Done
<1> QED BY <1>1, <1>2, LaidStay, SameLaid

(* What stays of all this while devices are set up and checked.             *)
LEMMA RestStays ==
  ASSUME SetUp, Sized, Cabled, HostLaid(Gone), Adding, UNCHANGED link, assumed \subseteq assumed',
         at \in {"relist", "switch", "devices", "pings"} \union Setting,
         at' \in {"relist", "switch", "devices", "pings"} \union Setting, Furnished'
  PROVE  Raised'
<1>1. Cabled'
  BY LinksStay DEF Cabled, AllLinked, Setting
<1>2. Gone' = Gone
  BY DEF Gone, Setting
<1>3. Sized' /\ HostLaid(Gone)'
  BY <1>2, Stays
<1> QED BY <1>1, <1>3 DEF Raised

LEMMA ListingRaised ==
  ASSUME SetUp, Next, OnlyBuild, mode = "build", Sized, Cabled, HostLaid(Gone), Furnished,
         UNCHANGED topo, Listing, at' \in Late, assumed \subseteq assumed'
  PROVE  Raised'
<1>1. Adding
  BY LateAdds
<1>2. topo.devices \in Seq(NamesOf(topo)) /\ k \in Nat \ {0}
  BY Zenon, TopologiesAssumption DEF SetUp, Inv, ProcessTyped, NamesOf
<1>3. CASE RelistNodes
  <2>1. at = "relist" /\ at' = "devices" /\ k' = 1 /\ UNCHANGED link
    BY <1>3 DEF RelistNodes, Late, Setting
  <2>2. Furnished'
    BY <1>2, <2>1 DEF Furnished, Setting
  <2> QED BY <1>1, <2>1, <2>2, RestStays
<1>4. CASE StartSwitch
  <2>1. at = "switch" /\ at' = "reach" /\ k' = 1 /\ UNCHANGED link
    BY <1>4 DEF StartSwitch, StartIfNotStarted, Late, Setting
  <2>2. Furnished'
    BY <1>2, <2>1 DEF Furnished, Setting
  <2> QED BY <1>1, <2>1, <2>2, RestStays DEF Setting
<1>5. CASE NextDevice
  <2>1. at = "devices" /\ at' = "reach" /\ UNCHANGED <<k, link>>
    BY <1>5 DEF NextDevice, OnlyBuild, Late, Setting
  <2>2. Done'
    BY <1>1, <2>1, DoneStays DEF Furnished, Done, Setting
  <2>3. Furnished'
    BY <2>1, <2>2 DEF Furnished, Setting, Done
  <2> QED BY <1>1, <2>1, <2>3, RestStays DEF Setting
<1>6. CASE DevicesDone
  <2>1. at = "devices" /\ at' = "pings" /\ k > Len(topo.devices) /\ UNCHANGED link
    BY <1>6 DEF DevicesDone
  <2>2. topo.devices # <<>> /\ \A j \in DOMAIN topo.devices : Laid(topo.devices[j])
    BY <1>2, <2>1 DEF Furnished, Setting
  <2>3. \A d \in Devices(topo) : Laid(d)
    BY <2>2 DEF Devices
  <2>4. \A d \in Devices(topo) : Laid(d)'
    BY <1>1, <2>3, LaidStay
  <2>5. Furnished'
    BY <2>1, <2>4 DEF Furnished, Setting, Laid, Carries, Carried, Lines, Pushed, Ids, Devices
  <2> QED BY <1>1, <2>1, <2>5, RestStays
<1> QED BY <1>3, <1>4, <1>5, <1>6 DEF Listing

LEMMA TypingRaised ==
  ASSUME SetUp, Next, Sized, Cabled, HostLaid(Gone), Furnished, UNCHANGED topo, Typing, at' \in Late,
         assumed \subseteq assumed'
  PROVE  Raised'
<1>1. Adding
  BY LateAdds
<1>2. CASE AwaitJunos \/ ReachPrompt
  <2>1. at = "reach" /\ at' = "push" /\ UNCHANGED <<k, link>>
    BY <1>2 DEF AwaitJunos, ReachPrompt, Late, Setting
  <2>2. Done'
    BY <1>1, <2>1, DoneStays DEF Furnished, Done, Setting
  <2>3. Furnished'
    BY <2>1, <2>2 DEF Furnished, Setting, Done
  <2> QED BY <1>1, <2>1, <2>3, RestStays DEF Setting
<1>3. CASE PushConfig
  <2> DEFINE d == Device
             lines == Pushed(topo, d)
  <2>1. /\ at = "push" /\ at' = "save" /\ UNCHANGED <<topo, k, rec, link>>
        /\ HeldBecomes(d, After(d, Len(lines))) /\ Held(d).status = "started"
    BY <1>3 DEF PushConfig, Late, Setting
  <2>2. Device' = d
    BY <2>1 DEF Device, Item
  <2>3. /\ rec[d].id \in DOMAIN node /\ Held(d) \in NodeSet /\ Ids(d) = {rec[d].id}
    BY <2>1, DeviceIsOne DEF Setting
  <2>4. Carried(topo, d) \subseteq After(d, Len(lines)).running
    BY <2>1, <2>3, AfterWhole, DeviceInHand DEF Setting, SetUp, Inv
  <2>5. After(d, Len(lines)).status = "started"
    BY <2>1, <2>3 DEF After, NodeSet
  <2>6. node'[rec[d].id] = After(d, Len(lines))
    BY <2>1, <2>3 DEF SetUp, Inv, Nodes, ServerTyped
  <2>7. Carried(topo, Device)' = Carried(topo, d)
    BY <2>1, <2>2 DEF Carried, Lines, Pushed
  <2>8. Ids(Device)' = {rec[d].id}
    <3>1. \A e : Ids(e)' = Ids(e)
      BY <1>1, AddingKeeps DEF SetUp, Inv, Nodes
    <3> QED BY <2>2, <2>3, <3>1 DEF Ids
  <2>9. Carries(Device)'
    <3> HIDE DEF d, lines
    <3> QED BY <2>4, <2>5, <2>6, <2>7, <2>8 DEF Carries
  <2>10. Done'
    BY <1>1, <2>1, DoneStays DEF Furnished, Done, Setting
  <2>11. Furnished'
    BY <2>1, <2>9, <2>10 DEF Furnished, Setting, Done
  <2> QED BY <1>1, <2>1, <2>11, RestStays DEF Setting
<1> QED BY <1>2, <1>3 DEF Typing

LEMMA SavingRaised ==
  ASSUME SetUp, Next, Sized, Cabled, HostLaid(Gone), Furnished, UNCHANGED topo, Saving, at' \in Late,
         assumed \subseteq assumed'
  PROVE  Raised'
<1>1. Adding
  BY LateAdds
<1>2. topo.devices \in Seq(NamesOf(topo)) /\ k \in Nat \ {0}
  BY Zenon, TopologiesAssumption DEF SetUp, Inv, ProcessTyped, NamesOf
<1>3. /\ at \in {"save", "readback"} /\ UNCHANGED <<link, rec>>
  BY DEF Saving, WriteMemory, Commit, ShowIp, ReadBack, Typed, DeviceDone, Late, Setting
<1>4. Carries(Device) /\ Done
  BY <1>3 DEF Furnished, Done, Setting
<1>5. PICK d : d = Device
  OBVIOUS
<1>6. /\ d \in Devices(topo) /\ Ids(d) = {rec[d].id} /\ rec[d].id \in DOMAIN node
      /\ node[rec[d].id] \in NodeSet
  BY <1>3, <1>5, DeviceIsOne DEF Setting
<1>7. Carries(d) /\ Carries(d)'
  BY <1>1, <1>4, <1>5, <1>6, AddingKeeps DEF SetUp, Inv, Nodes
<1>8. CASE WriteMemory
  <2>1. at' = "readback" /\ UNCHANGED k
    BY <1>8 DEF WriteMemory, Typed, Late, Setting
  <2>2. Device' = d
    BY <1>5, <2>1 DEF Device, Item
  <2>3. Carries(Device)'
    BY <1>7, <2>2 DEF Carries, Carried, Lines, Pushed, Ids
  <2>4. Done'
    BY <1>1, <1>4, <2>1, DoneStays
  <2>5. Furnished'
    BY <2>1, <2>3, <2>4 DEF Furnished, Setting, Done
  <2> QED BY <1>1, <1>3, <2>1, <2>5, RestStays DEF Setting
<1>9. ASSUME Commit \/ ShowIp \/ ReadBack
      PROVE  Raised'
  <2>1. DeviceDone
    BY <1>9 DEF Commit, ShowIp, ReadBack, Typed, Late, Setting
  <2>2. topo.platform[d] = "junos" => \A i \in Ids(d) : Carried(topo, d) \subseteq node'[i].startup
    <3> SUFFICES ASSUME topo.platform[d] = "junos"
                 PROVE  Carried(topo, d) \subseteq node'[rec[d].id].startup
      BY <1>6
    <3>1. Commit
      BY <1>3, <1>5, <1>9 DEF ShowIp, ReadBack, SetUp, HandKnown
    <3>2. HeldBecomes(d, SavedBy(d))
      BY <1>5, <3>1 DEF Commit, Typed, Late, Setting
    <3>3. node'[rec[d].id] = SavedBy(d)
      BY <1>6, <3>2 DEF SetUp, Inv, Nodes, ServerTyped
    <3>4. SavedBy(d).startup = node[rec[d].id].running
      BY <1>6 DEF SavedBy, NodeSet
    <3> QED BY <1>6, <1>7, <3>3, <3>4 DEF Carries
  <2>3. topo.platform[d] = "ios" => d \in said'
    BY <1>5, <1>9 DEF Commit, ShowIp, ReadBack, Late, Setting
  <2>4. Laid(d)'
    <3>1. \A e : Ids(e)' = Ids(e)
      BY <1>1, AddingKeeps DEF SetUp, Inv, Nodes
    <3>2. Carried(topo, d)' = Carried(topo, d)
      BY DEF Carried, Lines, Pushed
    <3> QED BY <1>7, <2>2, <2>3, <3>1, <3>2 DEF Laid
  <2>5. CASE topo.devices = <<>>
    <3>1. at' = "pings" /\ Devices(topo) = {d}
      BY <1>5, <2>1, <2>5 DEF DeviceDone, Devices, Device
    <3>2. Devices(topo)' = {d}
      BY <3>1 DEF Devices
    <3>3. (\A e \in Devices(topo) : Laid(e))'
      BY <2>4, <3>2 DEF Laid, Carries, Carried, Lines, Pushed, Ids
    <3>4. Furnished'
      BY <3>1, <3>3 DEF Furnished, Setting
    <3> QED BY <1>1, <1>3, <3>1, <3>4, RestStays DEF Setting
  <2>6. CASE topo.devices # <<>>
    <3>1. at' = "devices" /\ k' = k + 1 /\ topo.devices[k] = d
      BY <1>5, <2>1, <2>6 DEF DeviceDone, Device, Item
    <3>2. ASSUME NEW j \in DOMAIN topo.devices, j < k + 1
          PROVE  Laid(topo.devices[j])'
      <4>1. j < k \/ j = k
        BY <1>2, <3>2
      <4>2. CASE j < k
        <5>1. Laid(topo.devices[j]) /\ topo.devices[j] \in Devices(topo)
          BY <1>1, <1>4, <4>2, LaidStay DEF Done
        <5> QED BY <1>1, <5>1, LaidStay, SameLaid
      <4>3. CASE j = k
        BY <2>4, <3>1, <4>3, SameLaid
      <4> QED BY <4>1, <4>2, <4>3
    <3>3. Furnished'
      BY <2>6, <3>1, <3>2 DEF Furnished, Setting
    <3> QED BY <1>1, <1>3, <3>1, <3>3, RestStays DEF Setting
  <2> QED BY <2>5, <2>6
<1> QED BY <1>8, <1>9 DEF Saving

LEMMA CheckRaised ==
  ASSUME SetUp, Next, Sized, Cabled, HostLaid(Gone), Furnished, Check
  PROVE  Raised'
<1>1. at = "pings" /\ at' = "pings" /\ UNCHANGED <<topo, node, link, assumed>>
  BY DEF Check
<1>2. Adding
  BY <1>1, SameAdds
<1>3. \A d \in Devices(topo) : Laid(d)'
  BY <1>1, <1>2, LaidStay DEF Furnished
<1>4. Furnished'
  BY <1>1, <1>3 DEF Furnished, Setting, Laid, Carries, Carried, Lines, Pushed, Ids, Devices
<1> QED BY <1>1, <1>2, <1>4, RestStays

LEMMA RaisedStep ==
  ASSUME SetUp, OnlyBuild, Raised, Next
  PROVE  Raised'
<1> SUFFICES ASSUME mode' = "build", project' = "opened", at' \in Late
             PROVE  Raised'
  BY DEF Raised
<1>1. /\ mode = "build" /\ project = "opened" /\ UNCHANGED topo /\ assumed \subseteq assumed'
      /\ Linking \/ Starting \/ Provisioning \/ Listing \/ Typing \/ Saving \/ Check
  BY OnlyLate DEF SetUp, Inv
<1>2. CASE ListLinks
  <2>1. at' = "links"
    BY <1>2 DEF ListLinks, Late, Setting
  <2> QED BY <1>2, <2>1, ListRaised
<1>3. ASSUME ~ ListLinks
      PROVE  at \in Late
  BY <1>1, <1>3
  DEF Linking, Starting, Provisioning, Listing, Typing, Saving, EnsureLink, LinksDone, StartDevice,
      DevicesStarted, WriteInterfaces, StartHost, AuthorizeKey, Install, BringUpAddresses,
      RelistNodes, StartSwitch, NextDevice, DevicesDone, AwaitJunos, ReachPrompt, PushConfig,
      WriteMemory, Commit, ShowIp, ReadBack, Check, Late, Setting
<1>4. ASSUME ~ ListLinks
      PROVE  Sized /\ Cabled /\ HostLaid(Gone) /\ Furnished
  BY <1>1, <1>3, <1>4 DEF Raised
<1>5. CASE EnsureLink
  <2>1. at' = "links"
    BY <1>5 DEF EnsureLink, Late, Setting
  <2> QED BY <1>4, <1>5, <2>1, LinkRaised, ListRaised
<1>6. CASE LinksDone /\ ~ ListLinks
  BY <1>4, <1>6, DoneRaised
<1>7. CASE Starting /\ ~ ListLinks
  <2>1. at' \in {"start", "host"}
    BY <1>7 DEF Starting, StartDevice, DevicesStarted, StartIfNotStarted, Late, Setting
  <2> QED BY <1>1, <1>4, <1>7, <2>1, StartRaised
<1>8. CASE ~ ListLinks /\ (Provisioning \/ Listing \/ Typing \/ Saving \/ Check)
  BY <1>1, <1>4, <1>8, HostRaised, ListingRaised, TypingRaised, SavingRaised, CheckRaised
<1> QED BY <1>1, <1>2, <1>5, <1>6, <1>7, <1>8 DEF Linking

(* ------------------------------------------------------------------------ *)
(* A project that was closed is not opened again under the build.           *)

(* With the project closed no node changes under a program, except at the   *)
(* console of one that is on.                                               *)
LEMMA ClosedQuiet ==
  ASSUME Program, ~ EnsureProject, project # "opened", at' \notin Ended
  PROVE  /\ UNCHANGED project /\ at # "project"
         /\ \/ UNCHANGED node
            \/ at = "host" /\ Held(topo.host).status = "started"
            \/ at \in Setting /\ Held(Device).status = "started"
<1> USE DEF Ended
<1>1. CASE \/ ListNodes \/ ReuseNode \/ CreateBuiltin \/ CreateFromTemplate \/ RenameNode
           \/ AdaptersRight \/ StopNode
  BY <1>1 DEF ListNodes, ReuseNode, CreateBuiltin, CreateFromTemplate, Created, RenameNode,
              AdaptersRight, StopNode, Ensuring
<1>2. CASE SetAdapters \/ ListLinks \/ EnsureLink \/ LinksDone \/ StartDevice \/ DevicesStarted
  BY <1>2 DEF SetAdapters, ListLinks, EnsureLink, LinksDone, StartDevice, DevicesStarted,
              StartIfNotStarted, Ensuring
<1>3. CASE WriteInterfaces \/ StartHost \/ AuthorizeKey \/ Install \/ BringUpAddresses
  BY <1>3 DEF WriteInterfaces, StartHost, AuthorizeKey, Install, BringUpAddresses, Typed,
              StartIfNotStarted
<1>4. CASE RelistNodes \/ StartSwitch \/ NextDevice \/ DevicesDone
  BY <1>4 DEF RelistNodes, StartSwitch, NextDevice, DevicesDone, StartIfNotStarted
<1>5. CASE AwaitJunos \/ ReachPrompt \/ PushConfig
  BY <1>5 DEF AwaitJunos, ReachPrompt, PushConfig, Reaches, Setting
<1>6. CASE WriteMemory \/ Commit \/ ShowIp \/ ReadBack
  BY <1>6 DEF WriteMemory, Commit, ShowIp, ReadBack, Typed, DeviceDone, Setting
<1>7. CASE Check \/ Verdict \/ Observe \/ Power \/ Proven
  BY <1>7 DEF Check, Verdict, Observe, Power, Proven
<1> QED BY <1>1, <1>2, <1>3, <1>4, <1>5, <1>6, <1>7 DEF Program

LEMMA DarkStep ==
  ASSUME SetUp, Dark, Next
  PROVE  Dark'
<1>0. ServerTyped /\ ProcessTyped
  BY DEF SetUp, Inv, Nodes
<1> SUFFICES ASSUME mode' = "build", at' \notin Ended \union {"project"}, project' # "opened"
             PROVE  \A i \in DOMAIN node' : AlwaysOn(node[i].name)' \/ node'[i].status = "stopped"
  BY DEF Dark
<1>1. CASE PowerLoss
  <2>1. UNCHANGED topo /\ DOMAIN node' = DOMAIN node
    BY <1>1, PowerLost DEF PowerLoss
  <2>2. \A i \in DOMAIN node :
          Stopped(node[i]).status = "stopped" /\ Damaged(node[i]).status = "stopped"
    BY <1>0, IdsHeld, PowerKeeps
  <2>3. ASSUME NEW i \in DOMAIN node
        PROVE  AlwaysOn(node[i].name)' \/ node'[i].status = "stopped"
    <3>1. CASE node'[i] = node[i]
      BY <1>1, <2>1, <2>2, <3>1, PowerLost DEF AlwaysOn, Devices
    <3>2. CASE node'[i] # node[i]
      BY <1>1, <2>2, <3>2, PowerLost
    <3> QED BY <3>1, <3>2
  <2> QED BY <2>1, <2>3
<1>2. CASE World /\ ~ PowerLoss
  BY <1>2 DEF World, EditTopology, OperatorPowers, ResetDisk, HardenDevice, StartRun, ByHand
<1>3. CASE EnsureProject
  BY <1>3 DEF EnsureProject, Ended
<1>4. CASE Program /\ ~ EnsureProject
  <2>1. UNCHANGED <<topo, mode>> /\ at \notin Ended
    BY <1>0, <1>4, ProgramControlled, ProgramRuns DEF Controlled
  <2>2. project # "opened" /\ at # "project"
    <3>1. CASE project = "opened"
      <4>1. UNCHANGED project
        <5>1. CASE \/ ListNodes \/ ReuseNode \/ CreateBuiltin \/ CreateFromTemplate \/ RenameNode
                   \/ AdaptersRight \/ StopNode \/ SetAdapters \/ Linking \/ Starting
          BY <5>1 DEF ListNodes, ReuseNode, CreateBuiltin, CreateFromTemplate, Created, RenameNode,
                      AdaptersRight, StopNode, SetAdapters, Linking, ListLinks, EnsureLink, LinksDone,
                      Starting, StartDevice, DevicesStarted, StartIfNotStarted
        <5>2. CASE Provisioning \/ Listing
          BY <5>2 DEF Provisioning, WriteInterfaces, StartHost, AuthorizeKey, Install,
                      BringUpAddresses, Typed, StartIfNotStarted, Listing, RelistNodes, StartSwitch,
                      NextDevice, DevicesDone
        <5>3. CASE Typing \/ Saving
          BY <5>3 DEF Typing, AwaitJunos, ReachPrompt, PushConfig, Saving, WriteMemory, Commit,
                      ShowIp, ReadBack, Typed
        <5>4. CASE Check \/ Verdict \/ Observe \/ Power \/ Proven
          BY <5>4 DEF Check, Verdict, Observe, Power, Proven
        <5> QED BY <1>4, <5>1, <5>2, <5>3, <5>4
            DEF Program, Linking, Starting, Provisioning, Listing, Typing, Saving
      <4> QED BY <3>1, <4>1
    <3> QED BY <1>4, <3>1, ClosedQuiet
  <2>3. \A i \in DOMAIN node : AlwaysOn(node[i].name) \/ node[i].status = "stopped"
    BY <2>1, <2>2 DEF Dark
  <2>4. at = "host" => Held(topo.host).status = "stopped"
    <3> SUFFICES ASSUME at = "host"
                 PROVE  Held(topo.host).status = "stopped"
      OBVIOUS
    <3>1. rec[topo.host].id \in Ids(topo.host) /\ ~ AlwaysOn(topo.host)
      BY <1>0, HostIsOne, HostApart
    <3> QED BY <2>3, <3>1 DEF Ids
  <2>5. at \in Setting => Held(Device).status = "stopped"
    <3> SUFFICES ASSUME at \in Setting
                 PROVE  Held(Device).status = "stopped"
      OBVIOUS
    <3>1. /\ rec[Device].id \in DOMAIN node /\ Held(Device).name = Device
          /\ Device \in Devices(topo)
      BY DeviceIsOne
    <3>2. ~ AlwaysOn(Device)
      BY <3>1 DEF AlwaysOn
    <3> QED BY <2>3, <3>1, <3>2
  <2>6. UNCHANGED node
    BY <1>4, <2>2, <2>4, <2>5, ClosedQuiet
  <2> QED BY <2>1, <2>3, <2>6 DEF AlwaysOn
<1> QED BY <1>1, <1>2, <1>3, <1>4 DEF Next

(* ------------------------------------------------------------------------ *)
(* The last check.                                                          *)
LEMMA OnlyCheck ==
  ASSUME Next, at = "pings"
  PROVE  Check \/ Verdict \/ PowerLoss
<1>1. ~ (\/ EnsureProject \/ ListNodes \/ ReuseNode \/ CreateBuiltin \/ CreateFromTemplate
         \/ RenameNode \/ AdaptersRight \/ StopNode \/ SetAdapters)
  BY DEF EnsureProject, ListNodes, ReuseNode, CreateBuiltin, CreateFromTemplate, RenameNode,
         AdaptersRight, StopNode, SetAdapters, Ensuring
<1>2. ~ (Linking \/ Starting \/ Provisioning \/ Listing \/ Typing \/ Saving)
  BY DEF Linking, Starting, Provisioning, Listing, Typing, Saving, ListLinks, EnsureLink, LinksDone,
         StartDevice, DevicesStarted, WriteInterfaces, StartHost, AuthorizeKey, Install,
         BringUpAddresses, RelistNodes, StartSwitch, NextDevice, DevicesDone, AwaitJunos, ReachPrompt,
         PushConfig, WriteMemory, Commit, ShowIp, ReadBack
<1>3. ~ (Observe \/ Power \/ Proven)
  BY DEF Observe, Power, Proven
<1>4. World => PowerLoss
  BY DEF World, EditTopology, OperatorPowers, ResetDisk, HardenDevice, StartRun, ByHand, Ended
<1> QED
  BY <1>1, <1>2, <1>3, <1>4
  DEF Next, Program, Linking, Starting, Provisioning, Listing, Typing, Saving

(* A check that passes finds a device or the container on, so the project   *)
(* is open.                                                                 *)
LEMMA PassedOpen ==
  ASSUME ProcessTyped, Dark, mode = "build", at = "pings", k = Len(topo.pings), k \in Nat \ {0},
         PathUp(Item(topo.pings))
  PROVE  project = "opened"
<1>1. \A i \in DOMAIN topo.pings :
        /\ topo.pings[i].from \in {topo.host} \union {topo.devices[j] : j \in DOMAIN topo.devices}
        /\ topo.pings[i].from \in topo.pings[i].path
  BY ChecksAssumption DEF ProcessTyped
<1>2. PICK d \in Item(topo.pings).path : d = topo.host \/ \E j \in DOMAIN topo.devices : d = topo.devices[j]
  BY <1>1 DEF Item
<1>3. ~ AlwaysOn(d)
  BY <1>2, HostApart DEF AlwaysOn, Devices
<1>4. \E i \in DOMAIN node : node[i].name = d /\ node[i].status = "started"
  BY <1>2 DEF PathUp, Works, Ids
<1> QED BY <1>3, <1>4 DEF Dark, Ended

LEMMA PassedBuilt ==
  ASSUME SetUp, Raised, Dark, mode = "build", at = "pings", k = Len(topo.pings),
         PathUp(Item(topo.pings))
  PROVE  Built
<1>0. ProcessTyped /\ ServerTyped /\ k \in Nat \ {0}
  BY DEF SetUp, Inv, ProcessTyped, Nodes
<1>1. Sized /\ Cabled /\ HostLaid(HostItems) /\ Furnished
  BY <1>0, PassedOpen DEF Raised, Late, Gone, Setting
<1>2. \A name \in NamesOf(topo) : Ids(name) # {}
  BY <1>1 DEF Sized
<1>3. \A j \in DOMAIN topo.links : Linked(topo.links[j])
  BY <1>1 DEF Cabled
<1>4. ASSUME NEW d \in Devices(topo)
      PROVE  \E i \in Ids(d) :
               /\ node[i].status = "started" /\ Carried(topo, d) \subseteq Active(d, node[i])
               /\ topo.platform[d] = "ios" => d \in said
  <2>1. PICK i \in Ids(d) : TRUE
    BY <1>0, <1>2, HostApart
  <2>2. Laid(d)
    BY <1>1 DEF Furnished
  <2> QED BY <2>1, <2>2 DEF Laid, Carries, Active
<1>5. \E i \in Ids(topo.host) :
        /\ Works(topo.host, node[i]) /\ "interfaces" \in node[i].startup
        /\ "key" \in assumed \/ node[i].keys = 1
        /\ Provided \ {"key"} \subseteq node[i].startup \union assumed
  <2>1. PICK i \in Ids(topo.host) : TRUE
    BY <1>0, <1>2, HostApart
  <2>2. /\ OnDisk \subseteq node[i].startup \union assumed
        /\ "key" \in assumed \/ node[i].keys = 1
        /\ node[i].status = "started" /\ "interfaces" \in node[i].running
    BY <1>1, <2>1 DEF HostLaid, HostItems, OnDisk
  <2>3. "interfaces" \in OnDisk \ assumed /\ Provided \ {"key"} \subseteq OnDisk
    BY <1>0 DEF ProcessTyped, Provided, OnDisk
  <2> QED BY <1>0, <2>1, <2>2, <2>3, HostApart DEF Works
<1> QED BY <1>1, <1>3, <1>4, <1>5 DEF Built, Sized

LEMMA RaisedSame ==
  ASSUME Raised, UNCHANGED <<topo, project, node, link, mode, at, k, have, assumed, said>>
  PROVE  Raised'
<1>1. (\A d : Ids(d)' = Ids(d)) /\ NamesOf(topo)' = NamesOf(topo) /\ Devices(topo)' = Devices(topo)
  BY DEF Ids, NamesOf, Devices
<1>2. Sized' = Sized
  BY <1>1 DEF Sized
<1>3. Cabled' = Cabled
  <2>1. \A l : Linked(l)' = Linked(l)
    BY DEF Linked
  <2> QED BY <2>1 DEF Cabled, Linked
<1>4. HostLaid(Gone)' = HostLaid(Gone)
  <2>1. Gone' = Gone
    BY DEF Gone
  <2> QED BY <1>1, <2>1 DEF HostLaid, Ids
<1>5. Furnished' = Furnished
  <2>1. Device' = Device
    BY DEF Device, Item
  <2>2. Carries(Device)' = Carries(Device)
    BY <2>1 DEF Carries, Carried, Lines, Pushed, Ids
  <2>3. \A d : Laid(d)' = Laid(d)
    BY DEF Laid, Carries, Carried, Lines, Pushed, Ids
  <2>4. ASSUME NEW j
        PROVE  Laid(topo.devices[j])' = Laid(topo.devices[j])
    BY DEF Laid, Carries, Carried, Lines, Pushed, Ids
  <2> QED BY <1>1, <2>2, <2>3, <2>4 DEF Furnished
<1> QED BY <1>2, <1>3, <1>4, <1>5 DEF Raised

(* A build whose last check passes with no failure before it leaves all of  *)
(* what the file declares on the server, the devices no check reaches and   *)
(* the steps no check looks at included, except for what it took to be on   *)
(* the container without reading so (rebuild_lab.py, main() to              *)
(* run_verify_pings(), provision_container()).                              *)
THEOREM LabVerifiedIsBuilt == Spec => VerifiedIsBuilt
<1> DEFINE Whole == SetUp /\ SaidTrue /\ Raised /\ Dark /\ OnlyBuild
<1>1. Init => Whole
  <2>1. ASSUME Init
        PROVE  Raised /\ Dark /\ OnlyBuild
    BY <2>1 DEF Init, Raised, Dark, OnlyBuild, Late, Setting, Ended
  <2> QED BY <2>1, SetUpInit
<1>2. Whole /\ [Next]_vars => Whole'
  <2>1. ASSUME Whole, Next
        PROVE  Whole'
    BY <2>1, SetUpStep, RaisedStep, DarkStep, OnlyBuildStep DEF SetUp, Inv
  <2>2. ASSUME Whole, UNCHANGED vars
        PROVE  Whole'
    <3>1. (SetUp /\ SaidTrue)'
      BY <2>2, SetUpStep
    <3>2. UNCHANGED <<topo, project, node, link, mode, at, k, rec, have, only, assumed, said>>
      BY <2>2 DEF vars
    <3>3. Dark' /\ OnlyBuild'
      BY <2>2, <3>2 DEF Dark, OnlyBuild, AlwaysOn
    <3>4. Raised'
      BY <2>2, <3>2, RaisedSame
    <3> QED BY <3>1, <3>3, <3>4
  <2> QED BY <2>1, <2>2
<1>3. Whole /\ [Next]_vars
        => (mode = "build" /\ at = "pings" /\ k = Len(topo.pings) /\ k' = k + 1 /\ ~ failures'
              => Built)
  <2> SUFFICES ASSUME Whole, [Next]_vars, mode = "build", at = "pings", k = Len(topo.pings),
                      k' = k + 1, ~ failures'
               PROVE  Built
    OBVIOUS
  <2>1. k \in Nat
    BY DEF SetUp, Inv, ProcessTyped
  <2>2. Next
    BY <2>1 DEF vars
  <2>3. Check
    <3>1. ~ Verdict /\ ~ PowerLoss
      BY <2>1 DEF Verdict, PowerLoss
    <3> QED BY <2>2, <3>1, OnlyCheck
  <2>4. PathUp(Item(topo.pings))
    BY Zenon, <2>3 DEF Check
  <2> QED BY <2>4, PassedBuilt
<1> HIDE DEF Whole
<1> QED BY <1>1, <1>2, <1>3, PTL DEF Spec, VerifiedIsBuilt
=============================================================================
