-------------------------------- MODULE Lab --------------------------------
(***************************************************************************)
(* Building a GNS3 lab from its topology file: lab/rebuild_lab.py with its *)
(* options --verify and --only, and lab/test_hsrp_failover.py, which works *)
(* on the lab that the builder left.                                       *)
(*                                                                         *)
(* The server keeps the project, its nodes (a sequence: a node's index is  *)
(* its node_id) and its links.  A run is the sequence of the program's     *)
(* calls: each one can be refused, and each one that changes the server    *)
(* can also succeed and lose its answer; either ends the run where it is.  *)
(* The next run finds what the others left.  Between runs the operator     *)
(* powers nodes from the GNS3 window, edits the topology file, hardens a   *)
(* device with the repository's own scripts or resets a disk; the server   *)
(* can lose power at any moment.                                           *)
(***************************************************************************)
EXTENDS Integers, Sequences, FiniteSets

CONSTANTS
  Topologies,  \* the topology files, as load_topology() returns them; two of
               \* the same .project are two versions of one file
  Originals,   \* the versions a lab is begun with
  Names,       \* the names the topology files give to nodes
  Stray,       \* the name GNS3 gives a node made from a template
  Hardenable,  \* the devices the STIG scripts are used on
  Sets(_),     \* what a line sets: it takes the place of one that sets the same
  MaxRuns,     \* bound: how often the operator starts one of the programs
  MaxFaults,   \* bound: refused calls, lost answers, failed saves, power losses
  MaxHands     \* bound: what the operator does by hand between runs

(* A topology: its nodes and links in the order of the file, which nodes   *)
(* are GNS3's own (builtin), the adapters a node must have (0: as the      *)
(* template says), the automation host, the switch of the single-switch    *)
(* lab, the devices of the multi-vendor lab with their platform, the       *)
(* configuration lines of each, the checks of the end state (where each is *)
(* made from, what it passes, what it needs of the automation host) and    *)
(* the two routers of the failover test.                                   *)
ASSUME TopologiesAssumption ==
  \A t \in Topologies :
    /\ t.nodes \in Seq(Names) /\ t.builtin \subseteq Names
    /\ t.adapters \in [Names -> Nat]
    /\ t.links \in Seq(SUBSET (Names \X Nat))
    /\ t.host \in {t.nodes[i] : i \in DOMAIN t.nodes}
    /\ t.devices \in Seq({t.nodes[i] : i \in DOMAIN t.nodes})
    /\ t.devices = <<>> => t.switch \in {t.nodes[i] : i \in DOMAIN t.nodes}
    /\ t.config \in [Names -> Seq(STRING)]
    /\ \A d \in Names : \A i \in DOMAIN t.config[d] :
         t.config[d][i] = "save" => t.platform[d] = "vpcs" /\ i = Len(t.config[d])
    /\ \A i \in DOMAIN t.links : \A e \in t.links[i] :
         \E j \in DOMAIN t.nodes : t.nodes[j] = e[1]
    /\ \A i, j \in DOMAIN t.nodes : t.nodes[i] = t.nodes[j] => i = j
    /\ \A i, j \in DOMAIN t.links : t.links[i] = t.links[j] => i = j
(* Two versions of one file agree on what machine a name stands for: a node *)
(* is found again by its name alone.                                        *)
ASSUME VersionsAgree ==
  \A t, u \in Topologies : t.project = u.project => t.platform = u.platform
(* A check starts at the console of a device or of the container, which is   *)
(* made from a template and is no device (run_verify_pings, verify).         *)
ASSUME ChecksAssumption ==
  \A t \in Topologies :
    /\ t.host \notin t.builtin \union {t.devices[i] : i \in DOMAIN t.devices}
    /\ t.devices = <<>> => t.host # t.switch
    /\ \A i \in DOMAIN t.pings :
         /\ t.pings[i].from \in {t.host} \union {t.devices[j] : j \in DOMAIN t.devices}
         /\ t.pings[i].from \in t.pings[i].path
ASSUME StrayAssumption == Stray \notin Names /\ Hardenable \subseteq Names
ASSUME OriginalsAssumption == Originals \subseteq Topologies
ASSUME BoundsAssumption == MaxRuns \in Nat /\ MaxFaults \in Nat /\ MaxHands \in Nat

VARIABLES
  topo,      \* the topology file as it is now
  project,   \* the project on the server: "absent", "closed" or "opened"
  node,      \* the nodes ever created, by node_id
  link,      \* the links, each the set of its <<node_id, adapter>> ends
  mode,      \* which program runs: "build", "verify", "only" or "failover"
  at,        \* where it is
  k,         \* its place in the list it is going through
  rec,       \* the node records it holds, by name
  have,      \* ensure_links: the links it found
  only,      \* --only: the devices to configure
  failures,  \* some check of the end state failed
  assumed,   \* what the run took to be on the container without having read so
  said,      \* the devices some run reported `saved to startup-config'
  runs, faults, hands

server == <<project, node, link>>
run    == <<mode, at, k, rec, have, only, failures, assumed>>
vars   == <<topo, server, run, said, runs, faults, hands>>

-----------------------------------------------------------------------------
(* The server and what is on it (external).                                *)

NamesOf(t) == {t.nodes[i] : i \in DOMAIN t.nodes}
Devices(t) == IF t.devices = <<>> THEN {t.switch} ELSE {t.devices[i] : i \in DOMAIN t.devices}

(* A builtin that is no device, a cloud or a GNS3 switch, is never off.     *)
AlwaysOn(name) == name \in topo.builtin \ Devices(topo)

(* A node as GNS3 makes it.  `running' is what the device works with, its  *)
(* RSA keys included, `startup' what it boots from (Junos: the candidate   *)
(* and the committed configuration; the container: its live addresses and  *)
(* its disk) and `console' the prompt the last session left it at.         *)
NewNode(name, status) ==
  [name |-> name, status |-> status, adapters |-> 1,
   running |-> {}, startup |-> {}, keys |-> 0, console |-> "boot"]

Started(n) == IF n.status = "started" THEN n
              ELSE [n EXCEPT !.status = "started", !.running = n.startup, !.console = "boot"]
Stopped(n) == [n EXCEPT !.status = "stopped", !.running = {}, !.console = "boot"]

(* GNS3 stops a vJunos by its power button.  One that loses its power can   *)
(* have its disk damaged (lab/images.yaml:42, docs/LAB-ACCESS.md:145) and   *)
(* boots ever after to a CLI where every command fails, until its disk is   *)
(* moved aside and the node boots as it came.                               *)
Damaged(n) == [Stopped(n) EXCEPT !.startup = {"damage"}]
Factory(n) == [n EXCEPT !.status = "started", !.running = {}, !.startup = {}, !.console = "boot"]

(* ensure_nodes: {n['name']: n for n in api.get(...)}; a record is a copy. *)
Ids(name) == {i \in DOMAIN node : node[i].name = name}
Record(i) == [id |-> i, status |-> node[i].status, adapters |-> node[i].adapters]
Listed == [name \in {node[i].name : i \in DOMAIN node} |->
             Record(CHOOSE i \in Ids(name) : TRUE)]

(* The node whose record is held under a name.                             *)
Held(name) == node[rec[name].id]
HeldBecomes(name, n) == node' = [node EXCEPT ![rec[name].id] = n]

Fault == faults < MaxFaults /\ faults' = faults + 1

(* A run that ends forgets its records.                                    *)
Ends(how) == at' = how /\ k' = 1 /\ rec' = <<>> /\ have' = {} /\ only' = {}
             /\ failures' = FALSE /\ assumed' = {} /\ UNCHANGED mode
Fails == Ends("failed") /\ UNCHANGED said

(* A reading is refused, or the project is not open any more.               *)
NoAnswer == Fault \/ (project # "opened" /\ UNCHANGED faults)

(* One call that changes the server: Gns3._call.  It succeeds, it succeeds *)
(* and the answer is lost, or it is refused; every failure ends the run.   *)
Call(effect, answered) ==
  \/ project = "opened" /\ effect /\ answered /\ UNCHANGED <<faults, said>>
  \/ project = "opened" /\ effect /\ Fault /\ Fails
  \/ NoAnswer /\ Fails /\ UNCHANGED server

(* The program goes on.                                                    *)
Goto(where) == at' = where /\ k' = 1 /\ UNCHANGED <<mode, have, only, failures, assumed>>
NextItem == k' = k + 1 /\ UNCHANGED <<mode, at, rec, have, only, failures, assumed>>

-----------------------------------------------------------------------------
(* What a device serves.                                                   *)

(* What is typed at a device: the file's lines and, on IOS, the generation   *)
(* of the RSA keys that SSH needs.                                          *)
Pushed(t, d) == IF t.platform[d] = "ios" THEN Append(t.config[d], "rsa") ELSE t.config[d]
Lines(t, d) == {Pushed(t, d)[i] : i \in DOMAIN Pushed(t, d)}

(* No two lines of a file set the same of a device, and a host name is set   *)
(* to the device's name in every version.                                   *)
ASSUME SetsAssumption ==
  \A t \in Topologies, d \in Names : \A line \in Lines(t, d) :
    /\ \A other \in Lines(t, d) : Sets(line) = Sets(other) => line = other
    /\ Sets(line) = Sets("hostname") => line = "hostname"

(* The lines a device must carry; `login local' is AAA's when AAA is on.   *)
Carried(t, d) == Lines(t, d) \ {"login-local", "save"}

Active(d, n) == IF topo.platform[d] = "junos" THEN n.startup ELSE n.running

(* Every line of some version of the file is there.                         *)
Configured(d, lines) ==
  \E t \in Topologies : t.project = topo.project /\ Carried(t, d) \subseteq lines

Works(d, n) ==
  /\ n.status = "started"
  /\ d = topo.host => "interfaces" \in n.running
  /\ d \in Devices(topo) => Configured(d, Active(d, n))

(* The prompt in front of a session that connects to a device's console.    *)
Prompt(d) ==
  LET n == Held(d) IN
  IF n.console # "boot" THEN n.console
  ELSE CASE topo.platform[d] = "vpcs" -> "vpcs"
         [] topo.platform[d] = "junos" -> "login"
         [] topo.platform[d] = "ios" -> IF "aaa" \in n.startup THEN "username"
                                        ELSE IF "hostname" \in n.startup THEN "return" ELSE "dialog"

Linked(ends) ==
  \E j \in DOMAIN link : {<<node[e[1]].name, e[2]>> : e \in link[j]} = ends

(* A check passes when every node on its path works and is cabled, the      *)
(* automation host has what it needs, and the console it is typed at takes  *)
(* a ping: no prompt for a login, for a dialog or of configuration mode.    *)
PathUp(check) ==
  /\ \A d \in check.path : \E i \in Ids(d) : Works(d, node[i])
  /\ \A i \in DOMAIN topo.links :
       (\A e \in topo.links[i] : e[1] \in check.path) => Linked(topo.links[i])
  /\ \E i \in Ids(topo.host) : check.needs \subseteq node[i].startup
  /\ check.from = topo.host \/ Prompt(check.from) \in {"return", "exec", "privileged", "cli", "vpcs"}

-----------------------------------------------------------------------------
(* main(): options, preflight and the project.                             *)

Ended == {"idle", "failed", "verified", "configured", "proved"}

(* Bug: the names of --only are not looked for in the file.                 *)
StartRunUnchecked(m, names) ==
  /\ at \in Ended /\ runs < MaxRuns
  /\ m = "only" => names # {}
  /\ m # "only" => names = {}
  /\ m = "failover" => topo.pair # <<>>
  /\ mode' = m /\ only' = names /\ runs' = runs + 1
  /\ at' = (IF m = "failover" THEN "list" ELSE "project")
  /\ k' = 1 /\ rec' = <<>> /\ have' = {} /\ failures' = FALSE /\ assumed' = {}
  /\ UNCHANGED <<topo, server, said, faults, hands>>

StartRun(m, names) ==
  /\ at \in Ended /\ runs < MaxRuns
  /\ m = "only" => /\ names # {}
                    /\ names \subseteq {topo.devices[i] : i \in DOMAIN topo.devices}
  /\ m # "only" => names = {}
  /\ m = "failover" => topo.pair # <<>>
  /\ mode' = m /\ only' = names /\ runs' = runs + 1
  /\ at' = (IF m = "failover" THEN "list" ELSE "project")
  /\ k' = 1 /\ rec' = <<>> /\ have' = {} /\ failures' = FALSE /\ assumed' = {}
  /\ UNCHANGED <<topo, server, said, faults, hands>>

(* Every option, --verify too, opens the project or creates it.            *)
EnsureProject ==
  /\ at = "project"
  /\ \/ project' = "opened" /\ Goto("list") /\ UNCHANGED <<node, link, rec, faults, said>>
     \/ project' \in {project, "opened"} /\ Fault /\ Fails /\ UNCHANGED <<node, link>>
  /\ UNCHANGED <<topo, runs, hands>>

(* The nodes as the server lists them, before the steps of each program.   *)
ListNodes ==
  /\ at = "list"
  /\ \/ /\ project = "opened" /\ rec' = Listed /\ UNCHANGED <<faults, said>>
        /\ \/ mode = "build" /\ Goto("nodes")
           \/ mode = "verify" /\ NamesOf(topo) \subseteq DOMAIN Listed /\ Goto("pings")
           \/ mode = "only" /\ Goto("devices")
           \/ mode = "failover" /\ NamesOf(topo) \subseteq DOMAIN Listed /\ Goto("failover")
     \/ /\ \/ Fault
           \/ /\ UNCHANGED faults
              /\ \/ project # "opened"
                 \/ mode \in {"verify", "failover"} /\ ~ NamesOf(topo) \subseteq DOMAIN Listed
        /\ Fails
  /\ UNCHANGED <<topo, server, runs, hands>>

-----------------------------------------------------------------------------
(* ensure_nodes(): one pass over the file's nodes; what a node lacks is     *)
(* judged off the record taken before the pass.                             *)

Item(seq) == seq[k]
Ensuring(where) == at = where /\ k <= Len(topo.nodes)

(* A node of a name the list had is reused; GNS3's own are created by name. *)
ReuseNode ==
  /\ Ensuring("nodes") /\ Item(topo.nodes) \in DOMAIN rec
  /\ at' = "adapters" /\ UNCHANGED <<topo, server, mode, k, rec, have, only, failures,
                                     assumed, said, runs, faults, hands>>

(* What the server answers to a creation is the new node's record.          *)
Created(name, where, n) ==
  Call(/\ node' = Append(node, n) /\ UNCHANGED <<project, link>>,
       /\ rec' = [m \in DOMAIN rec \union {name} |->
                    IF m = name THEN [id |-> Len(node) + 1, status |-> n.status, adapters |-> 1]
                                ELSE rec[m]]
       /\ at' = where /\ UNCHANGED <<mode, k, have, only, failures, assumed>>)

CreateBuiltin ==
  LET name == Item(topo.nodes) IN
  /\ Ensuring("nodes") /\ name \notin DOMAIN rec /\ name \in topo.builtin
  /\ Created(name, "adapters", NewNode(name, IF AlwaysOn(name) THEN "started" ELSE "stopped"))
  /\ UNCHANGED <<topo, runs, hands>>

(* Bug: the answer's name is not looked at, so it is never renamed.         *)
CreateAndForget ==
  LET name == Item(topo.nodes) IN
  /\ Ensuring("nodes") /\ name \notin DOMAIN rec /\ name \notin topo.builtin
  /\ Created(name, "adapters", NewNode(IF name = topo.host THEN name ELSE Stray, "stopped"))
  /\ UNCHANGED <<topo, runs, hands>>

(* A template's node gets the template's own name; another call renames it. *)
CreateFromTemplate ==
  LET name == Item(topo.nodes) IN
  /\ Ensuring("nodes") /\ name \notin DOMAIN rec /\ name \notin topo.builtin
  /\ IF name = topo.host THEN Created(name, "adapters", NewNode(name, "stopped"))
                         ELSE Created(name, "rename", NewNode(Stray, "stopped"))
  /\ UNCHANGED <<topo, runs, hands>>

RenameNode ==
  LET name == Item(topo.nodes) IN
  /\ Ensuring("rename")
  /\ Call(HeldBecomes(name, [Held(name) EXCEPT !.name = name]) /\ UNCHANGED <<project, link>>,
          at' = "adapters" /\ UNCHANGED <<mode, k, rec, have, only, failures, assumed>>)
  /\ UNCHANGED <<topo, runs, hands>>

(* Bug: a running node is left alone.                                       *)
LacksWhenStopped(name) ==
  /\ topo.adapters[name] # 0 /\ rec[name].adapters # topo.adapters[name]
  /\ rec[name].status = "stopped"

Lacks(name) == topo.adapters[name] # 0 /\ rec[name].adapters # topo.adapters[name]

AdaptersRight ==
  /\ Ensuring("adapters") /\ ~ Lacks(Item(topo.nodes))
  /\ at' = "nodes" /\ k' = k + 1
  /\ UNCHANGED <<topo, server, mode, rec, have, only, failures, assumed, said, runs, faults,
                 hands>>

(* Bug: the count is set with the node running.                             *)
LeaveRunning ==
  LET name == Item(topo.nodes) IN
  /\ Ensuring("adapters") /\ Lacks(name) /\ rec[name].status # "stopped"
  /\ at' = "resize" /\ UNCHANGED <<topo, server, mode, k, rec, have, only, failures,
                                   assumed, said, runs, faults, hands>>

(* `Adapter count only changes while the node is stopped.'                  *)
StopNode ==
  LET name == Item(topo.nodes) IN
  /\ Ensuring("adapters") /\ Lacks(name) /\ rec[name].status # "stopped"
  /\ Call(HeldBecomes(name, Stopped(Held(name))) /\ UNCHANGED <<project, link>>,
          at' = "resize" /\ UNCHANGED <<mode, k, rec, have, only, failures, assumed>>)
  /\ UNCHANGED <<topo, runs, hands>>

SetAdapters ==
  LET name == Item(topo.nodes) IN
  /\ \/ Ensuring("adapters") /\ Lacks(name) /\ rec[name].status = "stopped"
     \/ Ensuring("resize")
  /\ Call(/\ HeldBecomes(name, [Held(name) EXCEPT !.adapters = topo.adapters[name]])
          /\ UNCHANGED <<project, link>>,
          /\ rec' = [rec EXCEPT ![name].status = Held(name).status,
                                ![name].adapters = topo.adapters[name]]
          /\ at' = "nodes" /\ k' = k + 1 /\ UNCHANGED <<mode, have, only, failures, assumed>>)
  /\ UNCHANGED <<topo, runs, hands>>

(* Bug: the links of the server are not read.                               *)
ListNoLinks ==
  /\ at = "nodes" /\ k > Len(topo.nodes)
  /\ have' = {} /\ at' = "links" /\ k' = 1
  /\ UNCHANGED <<topo, server, mode, rec, only, failures, assumed, said, runs, faults, hands>>

(* ensure_links() starts from the links there are.                          *)
ListLinks ==
  /\ at = "nodes" /\ k > Len(topo.nodes)
  /\ \/ /\ project = "opened" /\ UNCHANGED <<faults, said, rec>>
        /\ have' = {link[j] : j \in DOMAIN link}
        /\ at' = "links" /\ k' = 1 /\ UNCHANGED <<mode, only, failures, assumed>>
     \/ NoAnswer /\ Fails
  /\ UNCHANGED <<topo, server, runs, hands>>

EndsOf(spec) == {<<rec[e[1]].id, e[2]>> : e \in spec}

EnsureLink ==
  LET ends == EndsOf(Item(topo.links)) IN
  /\ at = "links" /\ k <= Len(topo.links)
  /\ \/ ends \in have /\ NextItem /\ UNCHANGED <<server, faults, said>>
     \/ /\ ends \notin have
        /\ Call(link' = Append(link, ends) /\ UNCHANGED <<project, node>>, NextItem)
  /\ UNCHANGED <<topo, runs, hands>>

-----------------------------------------------------------------------------
(* start_nodes(): whoever the record says is not started.  The multi-vendor *)
(* lab starts its devices here, the single-switch lab its switch later.     *)

LinksDone ==
  /\ at = "links" /\ k > Len(topo.links)
  /\ Goto(IF topo.devices # <<>> THEN "start" ELSE "host")
  /\ UNCHANGED <<topo, server, rec, said, runs, faults, hands>>

StartIfNotStarted(name, next) ==
  \/ rec[name].status = "started" /\ next /\ UNCHANGED <<server, faults, said>>
  \/ /\ rec[name].status # "started"
     /\ Call(HeldBecomes(name, Started(Held(name))) /\ UNCHANGED <<project, link>>, next)

StartDevice ==
  /\ at = "start" /\ k <= Len(topo.devices)
  /\ StartIfNotStarted(Item(topo.devices), NextItem)
  /\ UNCHANGED <<topo, runs, hands>>

DevicesStarted ==
  /\ at = "start" /\ k > Len(topo.devices) /\ Goto("host")
  /\ UNCHANGED <<topo, server, rec, said, runs, faults, hands>>

-----------------------------------------------------------------------------
(* provision_container(): the file, the start, then the console.            *)

(* What the automation host is provided with beside its addresses.          *)
Provided == {"key", "sshd", "git", "repo", "packages"}
HostSteps == <<"interfaces", "start", "key", "sshd", "git", "repo", "packages", "addresses">>

Put(item) == [Held(topo.host) EXCEPT !.startup = @ \union {item}]

WriteInterfaces ==
  /\ at = "host" /\ Item(HostSteps) = "interfaces"
  /\ Call(HeldBecomes(topo.host, Put("interfaces")) /\ UNCHANGED <<project, link>>, NextItem)
  /\ UNCHANGED <<topo, runs, hands>>

StartHost ==
  /\ at = "host" /\ Item(HostSteps) = "start"
  /\ StartIfNotStarted(topo.host, NextItem)
  /\ UNCHANGED <<topo, runs, hands>>

(* A console answers while its node runs; a read can always time out, with  *)
(* or without the typed line having taken effect.                           *)
Typed(name, effect, next) ==
  \/ Held(name).status = "started" /\ effect /\ next /\ UNCHANGED <<faults, said>>
  \/ Held(name).status = "started" /\ effect /\ Fault /\ Fails
  \/ Held(name).status # "started" /\ Fails /\ UNCHANGED <<server, faults>>
  \/ Fault /\ Fails /\ UNCHANGED server

(* A marker is looked for in what the console showed, and the miss alone is *)
(* acted on: a read that shows nothing, lost or of a host that is down, is   *)
(* taken for the hit.                                                       *)
TakenToBeThere(item) ==
  /\ Fault \/ (Held(topo.host).status # "started" /\ UNCHANGED faults)
  /\ assumed' = assumed \union {item} /\ k' = k + 1
  /\ UNCHANGED <<server, mode, at, rec, have, only, failures, said>>

(* grep -qF ... || echo ... >> authorized_keys, and what it answers is not  *)
(* looked at; a console without a shell prompt ends the run before it.      *)
AuthorizeKey ==
  /\ at = "host" /\ Item(HostSteps) = "key"
  /\ \/ Typed(topo.host,
              /\ HeldBecomes(topo.host, [Held(topo.host) EXCEPT !.keys = IF @ = 0 THEN 1 ELSE @])
              /\ UNCHANGED <<project, link>>,
              NextItem)
     \/ TakenToBeThere("key")
  /\ UNCHANGED <<topo, runs, hands>>

(* Looked for, and installed when it is read not to be there; an install    *)
(* that is not seen to succeed ends the run.                                *)
Install ==
  LET item == Item(HostSteps) IN
  /\ at = "host" /\ item \in {"sshd", "git", "repo", "packages"}
  /\ \/ Typed(topo.host, HeldBecomes(topo.host, Put(item)) /\ UNCHANGED <<project, link>>, NextItem)
     \/ TakenToBeThere(item)
  /\ UNCHANGED <<topo, runs, hands>>

(* ifdown, ifup; hostname -I has to show both addresses.                    *)
BringUpAddresses ==
  /\ at = "host" /\ Item(HostSteps) = "addresses"
  /\ Typed(topo.host,
           /\ HeldBecomes(topo.host, [Held(topo.host) EXCEPT !.running = @ \union {"interfaces"}])
           /\ UNCHANGED <<project, link>>,
           Goto(IF topo.devices # <<>> THEN "relist" ELSE "switch") /\ UNCHANGED rec)
  /\ UNCHANGED <<topo, runs, hands>>

(* main() reads the nodes again before it configures the devices.           *)
RelistNodes ==
  /\ at = "relist"
  /\ \/ project = "opened" /\ rec' = Listed /\ Goto("devices") /\ UNCHANGED <<faults, said>>
     \/ NoAnswer /\ Fails
  /\ UNCHANGED <<topo, server, runs, hands>>

-----------------------------------------------------------------------------
(* configure_switch() and configure_devices().                              *)

StartSwitch ==
  /\ at = "switch" /\ StartIfNotStarted(topo.switch, Goto("reach") /\ UNCHANGED rec)
  /\ UNCHANGED <<topo, runs, hands>>

(* The device in hand, and which the program passes over.                   *)
Device == IF topo.devices = <<>> THEN topo.switch ELSE Item(topo.devices)

NextDevice ==
  /\ at = "devices" /\ k <= Len(topo.devices)
  /\ \/ only # {} /\ Device \notin only /\ NextItem /\ UNCHANGED <<rec, said>>
     \/ /\ only = {} \/ Device \in only
        /\ \/ Device \in DOMAIN rec /\ at' = "reach"
              /\ UNCHANGED <<mode, k, rec, have, only, failures, assumed, said>>
           \/ Device \notin DOMAIN rec /\ Fails
  /\ UNCHANGED <<topo, server, runs, faults, hands>>

(* Where a session wants a device's console to be.                          *)
Ready(d) == CASE topo.platform[d] = "ios" -> "privileged" [] topo.platform[d] = "junos" -> "cli"
              [] topo.platform[d] = "vpcs" -> "vpcs"

Prompts == {"dialog", "return", "username", "exec", "privileged", "config", "login", "shell", "cli", "vpcs"}

(* Bug: configuration mode is not looked for.                               *)
CoaxedFromExec(d) ==
  [prompt \in Prompts |->
    CASE prompt = "dialog" -> "return"
      [] prompt \in {"return", "username"} -> "exec"
      [] prompt = "exec" -> "privileged"
      [] prompt = "login" -> "shell"
      [] prompt = "shell" -> "cli"
      [] OTHER -> prompt]

(* What one answer makes of a prompt: `no', a bare return, the credentials, *)
(* `enable', `end' or `exit' out of configuration mode, `cli' from a shell.  *)
Coaxed(d) ==
  [prompt \in Prompts |->
    CASE prompt = "dialog" -> "return"
      [] prompt \in {"return", "username"} -> "exec"
      [] prompt = "exec" -> "privileged"
      [] prompt = "config" -> Ready(d)
      [] prompt = "login" -> "shell"
      [] prompt = "shell" -> "cli"
      [] OTHER -> prompt]

Attempts == 15
Reaches(d) ==
  LET after[n \in 0 .. Attempts] == IF n = 0 THEN Prompt(d) ELSE Coaxed(d)[after[n - 1]]
  IN  /\ Held(d).status = "started" /\ "damage" \notin Held(d).startup
      /\ after[Attempts] = Ready(d)

(* junos_wait_ready(): twice in a row `show version' answers cleanly; a CLI  *)
(* that drops to the shell instead, or whose disk is damaged, is given up   *)
(* on in the end.                                                           *)
AwaitJunos ==
  /\ at = "reach" /\ topo.platform[Device] = "junos"
  /\ \/ /\ Reaches(Device) /\ at' = "push" /\ UNCHANGED <<mode, k, rec, have, only, failures, assumed>>
        /\ HeldBecomes(Device, [Held(Device) EXCEPT !.console = "cli"]) /\ UNCHANGED <<faults, said>>
     \/ ~ Reaches(Device) /\ Fails /\ UNCHANGED <<node, faults>>
     \/ Fault /\ Fails /\ HeldBecomes(Device, [Held(Device) EXCEPT
                                   !.console = IF Held(Device).status = "started" THEN "shell" ELSE @])
  /\ UNCHANGED <<topo, project, link, runs, hands>>

ReachPrompt ==
  /\ at = "reach" /\ topo.platform[Device] # "junos"
  /\ \/ /\ Reaches(Device) /\ at' = "push" /\ UNCHANGED <<mode, k, rec, have, only, failures, assumed>>
        /\ UNCHANGED <<faults, said>>
     \/ /\ Fault \/ (~ Reaches(Device) /\ UNCHANGED faults)
        /\ Fails
  /\ UNCHANGED <<topo, server, runs, hands>>

(* Whether a line is typed.  configure_switch leaves `login local' out when *)
(* AAA is on, the devices of a topology get the file's lines as they are;   *)
(* keys are not generated where `show ip ssh' says SSH is enabled.          *)
Types(d, line) ==
  /\ line = "login-local" => topo.devices # <<>> \/ "aaa" \notin Held(d).running
  /\ line = "rsa" => "rsa" \notin Held(d).running

(* `With AAA active the command is invalid on vty lines.'                   *)
Rejected(d, line) ==
  line = "login-local" /\ Types(d, line) /\ "aaa" \in Held(d).running

(* What lines make of a configuration they are typed over.                  *)
Over(lines, new) == {old \in lines : \A line \in new : Sets(line) # Sets(old)} \union new

(* The device with the first n lines dealt with; a VPCS is told to save in   *)
(* the last one.                                                            *)
After(d, n) ==
  LET typed   == {Pushed(topo, d)[i] : i \in {j \in 1 .. n : Types(d, Pushed(topo, d)[j])}}
      running == Over(Held(d).running, typed \ {"save"})
  IN  [Held(d) EXCEPT !.running = running,
                      !.startup = IF "save" \in typed THEN running ELSE @,
                      !.console = IF topo.platform[d] = "vpcs" THEN @ ELSE "config"]

(* Bug: a prompt that does not come back is passed over.                    *)
PushWithoutWaiting ==
  LET d == Device
      length == Len(Pushed(topo, d))
  IN
  /\ at = "push" /\ Held(d).status = "started" /\ UNCHANGED said
  /\ \E n \in 0 .. length :
       HeldBecomes(d, After(d, n)) /\ ((n = length /\ UNCHANGED faults) \/ Fault)
  /\ at' = "save" /\ UNCHANGED <<mode, k, rec, have, only, failures, assumed>>
  /\ UNCHANGED <<topo, project, link, runs, hands>>

(* Every line is typed; Junos collects them as a candidate.  A rejected      *)
(* line, a prompt that does not come back, or a generation of keys that     *)
(* shows nothing, ends the run with the lines before it on the device.      *)
PushConfig ==
  LET d == Device
      lines == Pushed(topo, d)
  IN
  /\ at = "push"
  /\ \/ /\ Held(d).status = "started" /\ UNCHANGED <<faults, said>>
        /\ \A i \in DOMAIN lines : ~ Rejected(d, lines[i])
        /\ HeldBecomes(d, After(d, Len(lines)))
        /\ at' = "save" /\ UNCHANGED <<mode, k, rec, have, only, failures, assumed>>
     \/ /\ Held(d).status # "started" /\ UNCHANGED <<node, faults>> /\ Fails
     \/ /\ Held(d).status = "started" /\ Fails
        /\ \E n \in 0 .. Len(lines) :
             /\ \A i \in 1 .. n : ~ Rejected(d, lines[i])
             /\ HeldBecomes(d, After(d, n))
             /\ \/ n < Len(lines) /\ Rejected(d, lines[n + 1]) /\ UNCHANGED faults
                \/ Fault
  /\ UNCHANGED <<topo, project, link, runs, hands>>

DeviceDone ==
  IF topo.devices = <<>> THEN Goto("pings") /\ UNCHANGED rec
  ELSE at' = "devices" /\ k' = k + 1 /\ UNCHANGED <<mode, rec, have, only, failures, assumed>>

(* `write memory' answers a prompt whether or not it wrote: only the read   *)
(* back of the hostname tells.                                              *)
SavedBy(d) == [Held(d) EXCEPT !.startup = Held(d).running, !.console = Ready(d)]

WriteMemory ==
  LET on == at' = "readback" /\ UNCHANGED <<mode, k, rec, have, only, failures, assumed>> IN
  /\ at = "save" /\ topo.platform[Device] = "ios"
  /\ \/ Typed(Device, HeldBecomes(Device, SavedBy(Device)) /\ UNCHANGED <<project, link>>, on)
     \/ /\ Held(Device).status = "started" /\ Fault /\ on
        /\ HeldBecomes(Device, [Held(Device) EXCEPT !.console = Ready(Device)])
        /\ UNCHANGED <<project, link, said>>
  /\ UNCHANGED <<topo, runs, hands>>

(* `commit check', `commit and-quit': the candidate takes effect whole.     *)
Commit ==
  /\ at = "save" /\ topo.platform[Device] = "junos"
  /\ Typed(Device, HeldBecomes(Device, SavedBy(Device)) /\ UNCHANGED <<project, link>>, DeviceDone)
  /\ UNCHANGED <<topo, runs, hands>>

(* What a VPCS shows of its address is printed and not looked at.           *)
ShowIp ==
  /\ at = "save" /\ topo.platform[Device] = "vpcs"
  /\ Typed(Device, UNCHANGED server, DeviceDone)
  /\ UNCHANGED <<topo, runs, hands>>

(* Bug: the [OK] of `write memory' is trusted.                              *)
TrustTheBanner ==
  /\ at = "readback" /\ said' = said \union {Device} /\ DeviceDone
  /\ UNCHANGED <<topo, server, runs, faults, hands>>

(* show startup-config | include ^hostname                                  *)
ReadBack ==
  LET d == Device IN
  /\ at = "readback"
  /\ \/ /\ Held(d).status = "started" /\ "hostname" \in Held(d).startup
        /\ said' = said \union {d} /\ DeviceDone /\ UNCHANGED faults
     \/ /\ \/ ~ (Held(d).status = "started" /\ "hostname" \in Held(d).startup) /\ UNCHANGED faults
           \/ Fault
        /\ Fails
  /\ UNCHANGED <<topo, server, runs, hands>>

DevicesDone ==
  /\ at = "devices" /\ k > Len(topo.devices)
  /\ IF mode = "only" THEN Ends("configured") ELSE Goto("pings") /\ UNCHANGED rec
  /\ UNCHANGED <<topo, server, said, runs, faults, hands>>

-----------------------------------------------------------------------------
(* run_verify_pings() and verify(): every check is made, any failure tells. *)

Check ==
  /\ at = "pings" /\ k <= Len(topo.pings)
  /\ \/ PathUp(Item(topo.pings)) /\ failures' = failures /\ UNCHANGED faults
     \/ ~ PathUp(Item(topo.pings)) /\ failures' = TRUE /\ UNCHANGED faults
     \/ Fault /\ failures' = TRUE
  /\ k' = k + 1
  /\ UNCHANGED <<topo, server, mode, at, rec, have, only, assumed, said, runs, hands>>

Verdict ==
  /\ at = "pings" /\ k > Len(topo.pings)
  /\ Ends(IF failures THEN "failed" ELSE "verified")
  /\ UNCHANGED <<topo, server, said, runs, faults, hands>>

-----------------------------------------------------------------------------
(* test_hsrp_failover.py: R1 (first of the pair) is powered off and on.     *)

R1 == topo.pair[1]
R2 == topo.pair[2]
Routes(r) == Works(r, Held(r))

FailoverSteps == <<"standby", "traffic", "off", "takeover", "traffic", "on", "preempt", "standby">>

Expected(step) ==
  CASE step = "standby"  -> Routes(R1) /\ Routes(R2)
    [] step = "traffic"  -> Routes(R1) \/ Routes(R2)
    [] step = "takeover" -> Routes(R2) /\ ~ Routes(R1)
    [] step = "preempt"  -> Routes(R1)

Observe ==
  LET step == Item(FailoverSteps) IN
  /\ at = "failover" /\ k <= Len(FailoverSteps) /\ step \notin {"off", "on"}
  /\ \/ Expected(step) /\ NextItem /\ UNCHANGED <<faults, said>>
     \/ (Fault \/ (~ Expected(step) /\ UNCHANGED faults)) /\ Fails
  /\ UNCHANGED <<topo, server, runs, hands>>

Power ==
  LET step == Item(FailoverSteps) IN
  /\ at = "failover" /\ k <= Len(FailoverSteps) /\ step \in {"off", "on"}
  /\ Call(/\ HeldBecomes(R1, IF step = "off" THEN Stopped(Held(R1)) ELSE Started(Held(R1)))
          /\ UNCHANGED <<project, link>>,
          NextItem /\ UNCHANGED rec)
  /\ UNCHANGED <<topo, runs, hands>>

Proven ==
  /\ at = "failover" /\ k > Len(FailoverSteps) /\ Ends("proved")
  /\ UNCHANGED <<topo, server, said, runs, faults, hands>>

-----------------------------------------------------------------------------
(* What the programs do not do (external).                                  *)

(* The GNS3 VM goes down and comes back: projects closed, nodes stopped,     *)
(* the disk of any running vJunos damaged or not.                           *)
Juniper(i) == node[i].name \in Devices(topo) /\ topo.platform[node[i].name] = "junos"
Fragile == {i \in DOMAIN node : node[i].status = "started" /\ Juniper(i)}
PowerLoss ==
  /\ project = "opened" /\ Fault
  /\ project' = "closed"
  /\ \E hit \in SUBSET Fragile :
       node' = [i \in DOMAIN node |-> CASE AlwaysOn(node[i].name) -> node[i]
                                        [] i \in hit -> Damaged(node[i])
                                        [] OTHER -> Stopped(node[i])]
  /\ UNCHANGED <<topo, link, run, said, runs, hands>>

ByHand == at \in Ended /\ hands < MaxHands /\ hands' = hands + 1

OperatorPowers(i) ==
  /\ ByHand /\ project = "opened" /\ ~ AlwaysOn(node[i].name)
  /\ node' = [node EXCEPT ![i] = IF @.status = "started" THEN Stopped(@) ELSE Started(@)]
  /\ UNCHANGED <<topo, project, link, run, said, runs, faults>>

(* `Recovering a Juniper switch with a damaged disk' (docs/LAB-ACCESS.md).   *)
ResetDisk(i) ==
  /\ ByHand /\ project = "opened" /\ Juniper(i) /\ "damage" \in node[i].startup
  /\ node' = [node EXCEPT ![i] = Factory(@)]
  /\ UNCHANGED <<topo, project, link, run, said, runs, faults>>

(* Another version of the same topology file.                               *)
EditTopology ==
  /\ ByHand /\ topo' \in Topologies /\ topo'.project = topo.project
  /\ UNCHANGED <<server, run, said, runs, faults>>

(* The STIG scripts log in to a device that carries a whole version of its   *)
(* configuration (README: what is assumed), turn AAA on, which takes        *)
(* `login local' off the lines, and save.                                   *)
HardenDevice(i) ==
  LET hard(lines) == (lines \ {"login-local"}) \union {"aaa"} IN
  /\ ByHand /\ node[i].name \in Hardenable /\ node[i].status = "started"
  /\ Configured(node[i].name, Active(node[i].name, node[i]))
  /\ node' = [node EXCEPT ![i].running = hard(@), ![i].startup = hard(node[i].running)]
  /\ UNCHANGED <<topo, project, link, run, said, runs, faults>>

-----------------------------------------------------------------------------
Init ==
  /\ topo \in Originals
  /\ project \in {"absent", "closed"} /\ node = <<>> /\ link = <<>>
  /\ mode = "build" /\ at = "idle" /\ k = 1 /\ rec = <<>> /\ have = {} /\ only = {}
  /\ failures = FALSE /\ assumed = {} /\ said = {} /\ runs = 0 /\ faults = 0 /\ hands = 0

Program ==
  \/ EnsureProject \/ ListNodes
  \/ ReuseNode \/ CreateBuiltin \/ CreateFromTemplate \/ RenameNode
  \/ AdaptersRight \/ StopNode \/ SetAdapters \/ ListLinks \/ EnsureLink \/ LinksDone
  \/ StartDevice \/ DevicesStarted
  \/ WriteInterfaces \/ StartHost \/ AuthorizeKey \/ Install \/ BringUpAddresses \/ RelistNodes
  \/ StartSwitch \/ NextDevice \/ AwaitJunos \/ ReachPrompt \/ PushConfig
  \/ WriteMemory \/ Commit \/ ShowIp \/ ReadBack \/ DevicesDone
  \/ Check \/ Verdict
  \/ Observe \/ Power \/ Proven

World ==
  \/ \E m \in {"build", "verify", "only", "failover"}, names \in SUBSET Names : StartRun(m, names)
  \/ PowerLoss \/ EditTopology
  \/ \E i \in DOMAIN node : OperatorPowers(i) \/ ResetDisk(i) \/ HardenDevice(i)

Next == Program \/ World

Spec == Init /\ [][Next]_vars

(* A program that was started goes on; nobody is bound to start one.        *)
FairSpec == Spec /\ WF_vars(Program)

-----------------------------------------------------------------------------
(* Properties                                                               *)

Phases == Ended \union
  {"project", "list", "nodes", "rename", "adapters", "resize", "links", "start", "host",
   "relist", "switch", "devices", "reach", "push", "save", "readback", "pings", "failover"}

TypeOK ==
  /\ topo \in Topologies
  /\ project \in {"absent", "closed", "opened"}
  /\ \A i \in DOMAIN node :
       /\ node[i].name \in Names \union {Stray}
       /\ node[i].status \in {"started", "stopped"} /\ node[i].adapters \in Nat
  /\ \A j \in DOMAIN link : link[j] \subseteq (DOMAIN node) \X Nat
  /\ mode \in {"build", "verify", "only", "failover"} /\ at \in Phases /\ k \in Nat \ {0}
  /\ \A name \in DOMAIN rec : rec[name].id \in DOMAIN node
  /\ only \subseteq {topo.devices[i] : i \in DOMAIN topo.devices} /\ failures \in BOOLEAN
  /\ assumed \subseteq Provided /\ said \subseteq Names
  /\ runs \in 0 .. MaxRuns /\ faults \in 0 .. MaxFaults /\ hands \in 0 .. MaxHands

(* `Each step checks before it acts, so a re-run converges instead of       *)
(* duplicating' (rebuild_lab.py:18): however many runs were cut off, and at  *)
(* whatever call, no declared name is on two nodes, no link is made twice    *)
(* and the public key is authorised at most once.                           *)
NoDuplicates ==
  /\ \A i, j \in DOMAIN node : node[i].name = node[j].name /\ node[i].name # Stray => i = j
  /\ \A i, j \in DOMAIN link : link[i] = link[j] => i = j
  /\ \A i \in DOMAIN node : node[i].keys <= 1

(* A node made from a template and not yet renamed is not found again.  What *)
(* is left of those is accounted for: one per call that failed, or the one   *)
(* that the running program is about to rename.                             *)
StraysAccounted ==
  Cardinality({i \in DOMAIN node : node[i].name = Stray})
    <= faults + (IF at = "rename" THEN 1 ELSE 0)

(* `Adapter count only changes while the node is stopped; a link made        *)
(* against the old count leaves a stale bridge' (rebuild_lab.py:276).        *)
AdaptersChangedStopped ==
  [][\A i \in DOMAIN node : node'[i].adapters # node[i].adapters => node[i].status = "stopped"]_vars

(* So every link is made when both of its ends have the adapters the file    *)
(* gives them.                                                              *)
LinksAtDeclaredCount ==
  [][Len(link') > Len(link) =>
       \A e \in link'[Len(link')] :
         LET n == node[e[1]] IN
         n.name \in NamesOf(topo) /\ topo.adapters[n.name] \in {0, n.adapters}]_vars

(* `Saved to startup-config (verified by reading it back)': a device some    *)
(* run said this of boots with a complete version of its configuration ever  *)
(* after, whatever was cut off, edited or lost since.                       *)
SavedBoots ==
  \A d \in said : \A i \in Ids(d) : Configured(d, node[i].startup)

(* What the file declares, on the server.                                   *)
Built ==
  /\ \A name \in NamesOf(topo) : \E i \in Ids(name) : topo.adapters[name] \in {0, node[i].adapters}
  /\ \A j \in DOMAIN topo.links : Linked(topo.links[j])
  /\ \A d \in Devices(topo) : \E i \in Ids(d) :
       /\ node[i].status = "started" /\ Carried(topo, d) \subseteq Active(d, node[i])
       /\ topo.platform[d] = "ios" => d \in said
  /\ \E i \in Ids(topo.host) :
       /\ Works(topo.host, node[i]) /\ "interfaces" \in node[i].startup
       /\ "key" \in assumed \/ node[i].keys = 1
       /\ Provided \ {"key"} \subseteq node[i].startup \union assumed

(* A build whose last check passes with no failure before it leaves all of   *)
(* the file on the server, what no check reaches included, although nodes    *)
(* may have gone down since they were set up.  Of the automation host that   *)
(* does not hold for what the build took to be there on a read it did not   *)
(* get (provision_container).                                               *)
VerifiedIsBuilt ==
  [][mode = "build" /\ at = "pings" /\ k = Len(topo.pings) /\ k' = k + 1 /\ ~ failures'
       => Built]_vars

(* From whatever the runs before it left, a build that meets no fault ends   *)
(* with the lab verified; a device with a damaged disk has to be reset first *)
(* (docs/LAB-ACCESS.md:149: `waiting does not fix it').                     *)
Sane == \A d \in Devices(topo) : \A i \in Ids(d) : "damage" \notin node[i].startup
Converges ==
  (at = "project" /\ mode = "build" /\ faults = MaxFaults /\ Sane) ~> at = "verified"
=============================================================================
