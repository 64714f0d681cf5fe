# NetworkAutomation in TLA+

The repository audits and remediates Cisco devices against DISA STIG
benchmarks. Most of its lines are predicates over configuration text, which
unit tests cover well. What tests reach badly is the part around them: an
unattended walk over hundreds of switches that is stopped, killed and started
again; a terminal conversation in which nothing says when, or whether, an
answer comes; pushes to a device that can lock their own host out halfway; nine
scripts that read a switch, decide and push, each on its own reading; an audit
that reads it twice; and a lab builder that is cut off and run again. These
models are about that part.

File names below are relative to `src/`.

## The system

| Component | State it keeps | Operations | Talks to | Hard part | What makes it correct |
|---|---|---|---|---|---|
| Checklist walk `securecrt/capture_l2s_bulk.py` | output folder (checklists, captures, `collected.csv`, STOP file), a run's claims and log | read the index, visit each session, capture, audit, place, index, log; stop, resume | session conversation, audit subprocess, operator | kill or failing write between any two file operations; two switches of one hostname; resume from what is on disk | every session one row; no checklist overwritten or listed twice; the index is true; nothing collected is lost |
| Session conversation `securecrt/capture_l2s.py`, `connect_session` in `capture_l2s_bulk.py` | Synchronous flag, screen, unread output, retry and poll counters | connect with login and option retries, find the prompt, send a command and read to the prompt | SecureCRT, the device | late answers, doubled prompts, banners that look like prompts, drops | answers stay beside their commands; every visit ends; login attempts stay bounded |
| Read-only collection `securecrt/capture_l2s.py` | commands still to ask, outputs | identify, ask, follow templates, refuse | session conversation | truncated, paginated, empty answers | an accepted capture is what the switch said |
| Fleet hardening walk `securecrt/harden_l2s_bulk.py` | push list, rejections, the row | read vty count, push a command at a time, read SSH state | session conversation | rejected sub-mode commands, reads out of step, a push that dies | a way back in at every step; the row is true |
| Fleet access-port walk `securecrt/harden_access_ports_bulk.py` | port classes of one switch, push list, row | read, classify, push | session conversation | configuration read before the push | only the ports it says, only as they are |
| Fleet inventory walk `securecrt/inventory_l2s.py` | rows per switch and stack member | identify, ask, parse, log | session conversation | half a stack, failed visits | one row per member |
| Walk merge `scripts/merge_walk_csvs.py` | none | newest row per key | CSV files of the walks | what the key of a failed visit is | a switch once, its newest row |
| Lockout-sensitive pushes `scripts/*_stig_harden_acl.py`, `*_stig_harden_aaa.py` | the stage of a push; the device's login configuration | push, verify over a second login, revert | `netauto.connect`, the device | session lost at any command; a check over the wrong session; pushing twice | a way back in by reload; no report without a way in |
| Save, backup, diff, push `scripts/save_config.py`, `backup_config.py`, `config_diff.py`, `push_config.py`, `config_loopback.py` | startup configuration, latest and archived backups | save, back up, compare, push | `netauto.connect` | truncated latest copy; saving a bad push | what is saved can be come back to |
| Connections, inventory, push log `scripts/netauto.py` | `inventory.yaml`, `secrets.yaml`, `audit_logs/audit.log` | connect and enable, load, log, redact | everything in `scripts/` | enable failing after login | `None` rather than a half-privileged session |
| Capture format `scripts/capture.py` | none | render, load, refuse | audits | pasted and delimited forms | loads what was rendered |
| STIG audits `scripts/l2_stig_audit.py` | report, recorded capture | read twice over two connections, expand templates, judge every rule, record, write the checklist | capture or device, hardening scripts, checklist | two readings of one switch; what is recorded and what is read; templates that decide a rule | a verdict is one the switch had; a recorded capture gives the same report; what was hardened passes |
| Router and NX-OS audits `scripts/ios_router_audit.py`, `nxos_stig_audit.py`, `ios_xe_rule_map.py` | none | rule predicates | capture or device | regular expressions | a verdict per rule |
| Checklist files `scripts/stig_common.py` | `.cklb` files | resolve name, write verdicts | audits | overwriting a human's verdict | never `not_a_finding` unanswered |
| Port classification and templates `scripts/stig_common.py`, `l2_stig_harden_{access_ports,trunk_ports,ipsg,dai}.py`, `..._device_tracking.py` | the port blocks of the switch, its templates, VLAN database, root port | classify, expand, push per port | device | root port, shut and templated ports; state read earlier; two classifiers | trunk and access fixes never cross; nobody in use is cut off |
| Other Layer 2 hardening scripts `scripts/l2_stig_harden_{global,logging}.py` | none of their own | read VLANs and lines, push one list | device, audit | order within the list; one undoing another | what each is for passes afterwards; nothing that passed fails |
| Router and NX-OS hardening, console quieting | none | build one command list from the inventory, push it | device | - | - |
| Lab rebuild `lab/rebuild_lab.py` | GNS3 project, nodes, links; the devices' running and startup configurations and where their consoles were left (all external) | check, create, rename, resize, link, start, provision, type, save, read back, ping; `--verify`, `--only` | GNS3 REST, consoles | failure between two calls, an answer lost, power lost, re-run over anything | converges; no duplicates; verified means built; saved means boots |
| Template registration `lab/register_templates.py` | GNS3 templates | post the missing ones | GNS3 REST | - | - |
| HSRP failover test `lab/test_hsrp_failover.py` | the lab the builder left | power one router off, observe, power it on | GNS3 REST, consoles | dies between off and on | the next build heals what it left |
| Health check, ARP inventory, show command | none | connect, read, print | device | - | - |
| Sanitiser, PDF reader, YAML subset | none | text in, text out | - | patterns | - |
| Ansible roles | none | declarative tasks | Ansible | external modules | - |

Where they meet: the SecureCRT walks share one conversation (`read_prompt`,
`run_command`, `connect_session`) and one terminal whose `Synchronous` flag
decides where output goes; the checklist walk shares its folder with its own
earlier runs and with the operator; the pushes share the running configuration
with each other and, through save and reload, with every push before; the
hardening scripts and the audit share a switch, the readers of `stig_common.py`
and the inventory; the lab builder shares its server with its own earlier runs,
the failover test, the operator and the hardening scripts.

## Modules

| Module | Models | Used by |
|---|---|---|
| `Shelf` | what the output folder promises its reader (abstract) | refined by `Walk` |
| `Walk` | `main()` and the file operations of `visit_one()` of `capture_l2s_bulk.py` over several runs | `MCWalk`, `WalkProofs` |
| `Console` | `connect_session`, `read_prompt`, `run_command`, the terminal; no specification of its own, its actions are composed by its clients | `Capture`, `Harden` |
| `Capture` | `collect()` of `capture_l2s.py` as a client of `Console` | `MCCapture`, `CaptureProofs` |
| `Harden` | `visit_one()`, `send_config()`, `vty_fixes()`, `ssh_crypto_state()` of `harden_l2s_bulk.py` as a client of `Console`, and the configuration modes of the switch | `MCHarden`, `HardenProofs` |
| `Push` | the ACL and AAA scripts of `scripts/`, `save_config.py`, `netauto.connect`, reload | `MCPush`, `PushProofs` |
| `Switch` | the switch as `stig_common.py` reads it: port blocks, templates and their expansion, classification, user and trunk VLANs; configuration commands and what they do; no specification of its own | `Rules`, `Hardening` |
| `Rules` | the rules of `l2_stig_audit.py`: what each answers for a switch, for both books | `Hardening` |
| `Hardening` | the nine `l2_stig_harden_*` scripts as read, build, send; the audit with its two readings, its recorded capture and its checklist; spanning tree and other people | `MCHardening`, `HardeningProofs` |
| `Lab` | `main()` of `rebuild_lab.py` call by call, with `--verify` and `--only`, and `test_hsrp_failover.py`; the server, the consoles, the operator | `MCLab`, `LabProofs` |
| `WalkProofs`, `PushProofs`, `LabProofs`, `CaptureProofs`, `HardenProofs`, `HardeningProofs` | theorems and proofs | - |
| `ConsoleProofs` | lemmas: what each step of a conversation keeps, whatever is sent and answered | `CaptureProofs`, `HardenProofs` |
| `HardenStepProofs` | theorems about visits that are read in step | - |

Operators that a comment introduces with "Bug:" are not part of a
specification. Each is a variant of the definition below it with one plausible
mistake in it, kept to show that a property notices it.

### Walk

The folder (`files`, `captures`, `index`, `stopFile`) outlives a run; `pc`,
`todo`, `at`, `claimed`, `produced`, `target`, `log` are the run. A session is
its position in the sorted list. One action is one file-system effect of
`visit_one()` or one exchange with the switch: `OpenCapture` truncates the
capture (line 704), `WriteCapture` closes it, `Audit` is the subprocess,
`PlaceChecklist` removes what stands under the target name and `Rename` moves
the new checklist there (two calls on the code's path), `ClearCapture` removes
the capture and claims the name, `AppendIndex` writes the row of
`collected.csv`, `Report` the row of the log. `Killed` can happen between any
two, and inside the append. `Logged` and `LogFails` are `log.record()` and its
one retry as `error`. `StartRun` is `main()` up to the loop: `read_index()`
(`DoneKeys`, `DoneName`; Python's dict keeps the first position and the last
value), the duplicates' and the finished sessions' rows, and the claims the
finished ones seed. With `readable` FALSE it is a *blind* run: `read_index()`
returned `{}` because the file could not be read. `DeleteChecklist` and
`ToggleStop` are the operator.

`collected.csv` is kept as text: `index` has its lines as `read_index()` would
split them, the first included, and `tail` says how the file ends. `open('a')`
makes the file, and only then are header and row written out, so a failed or
killed append leaves nothing, an empty file (`WriteHeader`), part of the header,
or part of the row (`CutAppend`): cut in the key, in the name, right behind the
name, or in the columns that follow. The next append goes on where the file ends
and writes no header (`Grown`): two keys run together (`Merged`), a name that is
no file's, a row behind another. `LiveRows` are the rows below the first line,
whatever that is. A cut right behind the comma before the name counts as one in
the name. `listed` holds the names whose row *lasts*: below the first line, cut
by nothing that an append to come could spoil; `released` those that the operator
deleted or a blind run lost sight of.

Left out: how sessions are found and their names parsed (inputs), what a
checklist says (only whose it is), the dialogs, and a second walk over the same
folder at the same time, which nothing in the code supports.

### Console, Capture, Harden

The device takes what it was sent in order (`inbox`), its output is under way
(`wire`) for as long as it likes, and arrives on the screen while
`Synchronous` is off or in `held`, for `ReadString`, while it is on. Text is a
sequence of tokens, each of a kind (`prompt`, `echo`, `look` - output quoting
the prompt -, `rule` and `mark` - banner lines that pass for prompts -, ...)
and with the command it answers, so that a property can say whose answer stands
where. `SeesPrompt`, `KeepsWaiting` (with its nudge) and `NoPrompt` are one poll
of `read_prompt()`. `Consumes`/`TimesOut` are the two ways `ReadString` ends; a
read may give up at any time its stop text is not there.

`Capture` adds the command queue and the guards of `collect()`; `Harden` adds
the switch's configuration mode, its vty lines and its SSH configuration, and
sends one command at a time. One command stands for each list of global
commands that changes no mode. `NumbersIn` is `highest_vty_line()`: every number
in the text that came back, those of a banner (`TextNumber`), of a hostname in
front of a `#` (`HostNumber`) and of another command's echo included, and the
largest is taken. `line vty` is accepted up to the last line the image has room
for (`MostVty`); one beyond is rejected and leaves the mode where it was. `Earliest`
is the row's column of 300 characters (`harden_l2s_bulk.py:579`): the first `Fits`
rejections. One cut in the middle counts as not fitting.

Left out: parsing of hostname, model and stack (no state), the surroundings of
the visit (that is `Walk`), and the confirmation dialogs of the hardening walk.
Lines that `line vty` creates beyond those a switch began with are not followed:
`transport` has the lines that were there.

Assumed about the devices of `Capture` (its named ASSUMEs): no line of an answer
is the prompt itself or reads as the echo of a command (`NoLineIsAPrompt`); `end`
on a line of its own finishes a Cisco running-config and stands nowhere else
(`OnlyConfigsEnd`), which is what `config_cut_short()` looks for; and an answer
behind the config quotes the prompt never, a `#` only if the config has one too
(`PromptsQuotedInConfig`). The last is where the guards end: the answers after the
config are not checked for their own end (`capture_l2s.py:810-812`), so one that
quotes the prompt would be kept cut off. Of `Harden`'s switches it is assumed that
every image has `end`, the `show` commands, and `line vty` as far as its lines go
(`RejectsTyped`). A command is one token; its words are joined by hyphens
(`"transport-input-none"`), because the proof system's SMT backend fails on
strings with spaces in them.

### Push

One script at a time on one device. `running` and `startup` keep the part of a
configuration that decides logins: the management list in order, whether it is
applied, whose enable secret, `aaa new-model`, and the login list. `pc` is the
stage: `SendCommand` sends the next command of a `send_config_set()`,
`BatchSent` is its end and `log_push()`, `RoundTrip` is
`exit_enable_mode`/`enable`/`check_enable_mode`, `Verifies` and `VerifyFails`
the second connection. `Dies` is any exception out of a batch or a check.
`LetsIn` is `netauto.connect()` seen from outside: the list, the login, the
escalation.

Assumed about the device, from the scripts' own docstrings and comments: a new
entry goes to the end of the list and one already there changes nothing; an
empty list keeps nobody out; `aaa new-model` without its login list admits
nobody (`l2_stig_harden_aaa.py:7-12`); with it, a login needs the enable secret
(`netauto.py:261-268`); a RADIUS server that answers decides, one that is down
leaves the decision to the local account. Also assumed: RADIUS stays as it is
for a behaviour; `secrets.yaml` is complete and does not change; the device
starts without AAA and without the list; a login gets one of the lines the
list is applied to; and an image that takes a command takes its `no` form
(`RevertsTaken`). Commands no login depends on are left out of the batches, so
the Nexus follow-up (accounting, 802.1X) is a batch without effect.

### Switch, Rules, Hardening

`sw` is the switch. A command that is there or not is a member of its `lines`,
a port is a `Block` (what its own lines say; `unsaid` where they say nothing),
and a setting with a value has a field. `Expand` is `expand_interface_templates`:
the template's body spliced in behind the block's lines, so that a search meets
the block's own first, except where a check asks whether a line is anywhere
(`mode trunk`, `shutdown`). `InEffect` is what the switch itself does with the
port, which is not always what the reader sees. `AccessPorts`, `TrunkPorts` and
`ShutAccessPorts` are the shared classifier, `RawAccessPorts` the one the IP
Source Guard and device tracking scripts bring along, `AuditedAsShut` and
`AuditedUserVlans` the audit's own readings.

`Reads(s)` is a script up to its last reading, `Sends` its batch as a whole,
`SessionLost` the same batch lost behind any prefix of it, command by command.
`Commands(s, read)` is the list the script builds. `Discovers` and `Judges` are
the two connections of the audit: the configuration of the second, expanded by
the templates of the first, judged with the VLANs, root ports, VTP, SNMP and
SSH answers of the first (`Judged`). `WritesChecklist` opens the `.cklb` before it writes it. `RootMoves`,
`PortIsRebuilt`, `PortIsEnabled` and `VlanIsCreated` are the world; they fit
between any reading and its push.

`done` is a history variable: what went through whole, on the switch it was built for,
since anybody else touched it. Two scripts leave a part of themselves out, so `Parted`
counts those parts by themselves: DHCP snooping of the global script, and the pruning of
the trunk script, which sends no `allowed vlan` while the database has no VLAN for trunks
to carry (`if allowed_trunk_vlans`). The switch of the runs starts with VLAN 1 alone, so
that this happens.

`IsSwitch` says what is a switch: the parts it has, the parts of each port and each
line to log in on, at least one and finitely many of those, finitely many servers,
groups and policies, one of the answers `show ip ssh` may give (`SshAnswers`), lists of
VLANs that stay inside the VLAN database. Every switch a campaign begins with is one
(`StartAssumption`), with finitely many ports and VLANs numbered from 1
(`InventoryAssumption`); `TypeOK` says that it stays one. What a push of a list of
commands does is `ApplyAll`, a recursive function of the length of the list.

Abstracted: lines no rule and no property tells apart go into a configuration as
one (two services stand for fifteen); an address is inside or outside the
management subnet; an algorithm is approved or not. Rules whose predicate only
repeats another's with another pattern keep their number and share its operator.
`Checks` are the rules the audit has a function for.

### Lab

`node` is the sequence of nodes ever created (its index is the `node_id`), `link`
that of the links, each a set of ends. `rec` is the dict `ensure_nodes()` keeps -
copies, taken when the list was read - and `have` the links `ensure_links()`
found. `at` is the place in the program and `k` the place in the list it goes
through: one action per REST call or console exchange, in the order of the code.
`Call` is `Gns3._call`: it succeeds, it succeeds and the answer is lost, or it is
refused, and both failures end the run there; `Typed` is the same for a console
line. `CreateFromTemplate` and `RenameNode` are two calls (`:269`); `StopNode`
and `SetAdapters` judge off the record; `HostSteps` is `provision_container()`;
`Reaches` walks a console from where the last session left it to the prompt the
push wants, with `Coaxed` for one round of each wait loop; `PushConfig` types
line by line and stops at a rejection; `WriteMemory` may fail behind an answered
prompt, which `ReadBack` is there to notice. `Check` is one ping of the end
state, from a console that takes one: with `--verify`, a device left in
configuration mode does not. `PowerLoss` is the GNS3 VM going down;
`OperatorPowers`, `EditTopology`, `HardenDevice` and `ResetDisk` are done between
runs.

A typed line takes the place of one that sets the same (`Sets`, `Over`): the push of
an edited file that is cut off leaves a mix of two versions, which is neither. The
RSA keys are the last line of an IOS push (`Pushed`), generated unless `show ip ssh`
says they are there; what comes behind them in the code, expects whose result is
ignored, changes nothing. A VPCS gets `save` as its last line
(`topology_multivendor.yaml:531-543`) and comes up with its address again; `ShowIp`
only prints it. `TakenToBeThere` is a marker on the container that was read off a
console that showed nothing: only the miss is acted on (`rebuild_lab.py:359-361`,
`:367-369`, `:390-391`, `:403-405`, `:415-417`), so the step is skipped and the run goes
on; `assumed` remembers it. A vJunos that loses its power may have its disk
`Damaged`: it boots to a CLI where every command fails, `AwaitJunos` gives up on it,
and no run heals it, only `ResetDisk` (`docs/LAB-ACCESS.md:124-151`), after which it
boots as it came (`Factory`).

Assumed: two versions of one topology file agree on the platform of a name
(`VersionsAgree`: the builder finds a node again by its name alone, and would type
one platform's lines on the other); a check passes by a device of the file or by the
container, which is made from a template and is no device (`ChecksAssumption`:
`run_verify_pings()` opens the console of one of them and `verify()` that of the
container, so no check is of clouds and hubs alone); no two lines of a file set the
same of a device, and a hostname is the device's name in every version
(`SetsAssumption`); what is hardened is a device the file names, up and with the whole
of some version on it - a device left with a mix would be saved with it by the STIG
scripts, and `SavedBoots` would not hold of it. Powering a node off in the GNS3 window does it no
damage, for a vJunos is stopped by its power button (`lab/images.yaml:42-60`; a node
older than that setting is not modelled); losing power may. A call is
applied before the next run begins, or never; one program at a time; the operator
acts between runs. A device that serves is one that is up with its lines; the time a
boot takes is not modelled, since every wait of the builder is long enough or ends
the run.

## Runs

| Run | Instance | Checks | States |
|---|---|---|---|
| `walk` | 2 switches of one hostname, 1 duplicate session, 3 runs, 1 delete, both modes, 1 fault (a row of the log, a reading of the index, a cut append) | `TypeOK`, `LogIsCensus`, `CollectionKept`, `IndexTellsTruth`, `ImplementsShelf`, `NothingEndsTheWalk` | 870,575 |
| `capture` | 6 kinds of device, 3 banners, 2 visits, 6 polls with a nudge every 2, 2 login attempts | `TypeOK`, `CaptureIsTrue`, `StrangersLeftAlone`, `AnswerStillComing`, `LoginsBounded`, `VisitEnds` | 253,102 |
| `harden` | 6 kinds of device, 3 banners, 2 visits, 2 of up to 4 vty lines open, numbers in banners and hostnames, 2 rejections to a row | `TypeOK`, `WayBackIn`, `SshClaimTrue`, `RowNamesRejections`, `VtyRowTrueInStep` | 1,414,005 |
| `push` | 3 platforms, 2 hosts, 3 rejectable commands, 3 states of RADIUS, any number of pushes, saves, reloads | `TypeOK`, `EscapeHatch`, `SecretFirst`, `SafetyNetHolds`, `CreatingShutsNobodyOut` | 2,878,196 |
| `hardening` | 4 ports, 6 VLANs, 2 switches (one keeps its port lines in templates, one hardened by hand), 3 scripts or audits, 1 lost session or change from outside | `TypeOK`, `HardenedPasses`, `NothingUnfixed`, `UplinksKeepTheirTrunk`, `ServiceKept`, `VlansCarried`, `ChecklistIsTrue` | 226,281 |
| `lab` | the single-switch lab and two small multi-vendor ones (two routers, in two versions; a VPCS), 3 runs, 2 faults, 1 thing done by hand | `TypeOK`, `NoDuplicates`, `StraysAccounted`, `SavedBoots`, `AdaptersChangedStopped`, `LinksAtDeclaredCount`, `VerifiedIsBuilt`, `Converges` | 545,578 |
| `stale_index` | as `walk`, no fault | `SkippedHaveOwn`, violated | - |
| `torn_index` | as `walk`, no delete | `EveryLineTellsTruth`, violated | - |
| `vty_lockout` | as `harden` | `LinesOpenWhateverIsRead`, violated | - |
| `acl_deny` | one switch, two hosts | `DenyChangesNothing`, violated | - |
| `one_population` | as `hardening`, one script | `OnePopulation`, violated | - |
| `lab_hardened` | the same labs, no fault, R1 hardened between two builds | `Converges`, violated | - |

What they show:

- `LogIsCensus`, `NothingEndsTheWalk`: a run that went through its list and lost
  no log write has one row per session, and no failure of one switch keeps
  another from its row.
- `CollectionKept`: from the moment a run has collected a switch, its capture or
  its checklist is in the folder to the end of that run, on every path, and rows that
  say so are right, an index nobody could read included. It says nothing of a capture
  that an earlier run kept: the next visit truncates it before it has another
  (`capture_l2s_bulk.py:704`).
- `IndexTellsTruth`, `ImplementsShelf`: over kills, lost writes, torn appends and
  restarts, the rows that last name the right file, no listed checklist is replaced by
  anybody but the operator, and no switch is listed twice. Both speak of a checklist
  from its row to its release: a delete, or a run that could not read the index.
- `CaptureIsTrue`, `AnswerStillComing`: an accepted capture has every command
  beside its own complete answer, although nudges, late prompts and banners try
  to shift them; no answer is painted where `ReadString` cannot see it.
- `StrangersLeftAlone`, `LoginsBounded`, `VisitEnds`: what a visit may do to a
  device that is no switch, to a switch that blocks logins, and to the walk.
- `WayBackIn`: `transport input none` reaches none of the open lines at any step
  of a push, one that dies included, and one that goes by a wrong count, as long as
  the image has room for that many lines; what happens beyond is `vty_lockout`.
  `SshClaimTrue`, `RowNamesRejections`, `VtyRowTrueInStep`: what a row claims. The
  latter two hold for reads that began in step (`InStep`), which a banner's edge taken
  for the prompt breaks; and a row names the earliest rejections, as many as fit.
- `EscapeHatch`, `SecretFirst`: the order the pushes and the save are run in
  always leaves a reload as the way back (`docs/DESIGN.md:35`), and
  `aaa new-model` never runs ahead of a known enable secret. `SafetyNetHolds`:
  a push that reports its check leaves a way in. `CreatingShutsNobodyOut`:
  defining the list is harmless on a second run too, when it is already applied.
- `HardenedPasses`, `NothingUnfixed`: the scripts a rule is hardened by make it
  pass, in whatever order they and the others are pushed, whole or in part; and
  no push, however short it was cut, fails a rule that passed. `WithinReach` and
  `MayUnfix` name the exceptions. Out of a script's reach are rules that ask for what the
  inventory does not name (a secret, a second server, the management subnet, the VLAN for
  unused or untagged ports), for ports the switch does not have, for a single user or
  policy where there are more, or for vty lines above 4. A push may unfix the two rules on VLANs by adding
  one to cover, the password rules by a second policy, and the access class by a list
  that lets in a source outside the management subnet, the automation host's or one
  that was there. And it may unfix a VLAN rule if `inventory.yaml`, which nobody
  checks, sets VLAN 1 aside, one VLAN for both kinds of port, or one the other kind
  of port is in already.
- `UplinksKeepTheirTrunk`, `ServiceKept`, `VlansCarried`:
  what no push may do to a port in use, between reading and pushing included.
  Where the world rebuilds a port in that gap, the first is claimed only for
  what the script could still see.
- `ChecklistIsTrue`: a finding is closed or opened on a verdict the switch had at
  some moment of the audit, with one change between its two connections.
- `NoDuplicates`, `StraysAccounted`: whatever calls failed or lost their answers
  over three runs, nothing is made twice, and a node nobody renamed costs one
  fault each. `AdaptersChangedStopped`, `LinksAtDeclaredCount`: the order the
  comment at `lab/rebuild_lab.py:276` asks for, with nodes powered by hand or by
  a power loss in between.
- `SavedBoots`: a device that was reported saved boots configured ever after.
  `VerifiedIsBuilt`: the last check of a build passes only over what the file
  declares, the parts no check reaches included, except the steps of the container
  that were taken to be done on a read that showed nothing. `Converges`: from whatever
  the earlier runs, the operator and two faults left, a build that meets no further
  fault and no damaged disk ends verified - on the single-switch lab hardened since,
  too.

### Bounds

`MaxRuns`, `MaxDeletes`, `MaxFaults` and `MaxCopies` bound `Walk`: a claim, an index
row or a capture left by a first run is misread by a second, and a third shows
that what the second made of it stays so. One cut append is followed by up to five
whole ones, which is what makes a torn line into a merged or a spoilt one; one blind
run is followed by one that sees. Two switches of one name need one collision name and
one spare. One delete opens the only name a second switch can take.

`Polls`, `NudgeEvery`, `LoginAttempts` and `MaxVisits` bound `Console`: six polls at a
nudge every second one gives two nudges, hence two prompts too many; a second
visit sees what the first left in the terminal and in the option flag. In
`Harden` one nudge, hence one prompt too many, already puts every later read out
of step; its switches have vty lines on both sides of `CONCURRENT_SESSIONS`, or
none to close, one has a hostname with a number no line has and one with a number its
image has room for; and `old` rejects more than the two commands that fit a row.
`Push` needs no
bound: lists hold each host once.

In `Hardening`, `MaxRuns` 3 gives two pushes and an audit, or a push that outdates
another and a third that meets both; `MaxFaults` 1 puts one lost session or one
change between any reading and its use (with two, the two readings of an audit
can add up to a verdict the switch never had, see below). Between them the two
switches hold most of the forms of a setting that the rules tell apart. In `Lab`,
two faults cut off the build and the one that repairs it, and `MaxRuns` 3 leaves a
third to converge; one thing done by hand is enough for a node powered, a file
edited, a disk reset or a switch hardened between two of them. The edited version
changes two lines of one router, so that a push cut off between them leaves a mix;
`Originals` begins with the other one only, since either can be edited into the other.
Between them the labs have a switch, a container, a cloud, a VPCS, and an IOS and a
Junos router for the failover test; `Desk` has the VPCS by itself, because what a run
makes of it depends on no router.

### Fairness

Only the program is fair: `WF_vars(Walking)`, `WF_vars(Visiting)` and, in `Lab`,
`WF_vars(Program)`. Each wait
in the code ends by itself - `ReadString` and `Connect` have timeouts,
`read_prompt()` counts its polls, the audit is a subprocess killed after 180
seconds - so a script that can take a step eventually does. The device, the
network and the operator are never obliged to do anything; `VisitEnds` holds for
a device that says nothing at all. In the lab builder every REST call and every
console wait has a timeout, after which the run ends; nobody is obliged to start
one, and `Converges` speaks of a build that was started with its faults used up.
No liveness is claimed for `Harden`, `Hardening` and `Push`. `CHECK_DEADLOCK FALSE`
stands in the configurations of the three walks, the hardening campaign and the
lab, which stop when the last run or visit is over; `Push` never stops.

## What is proved

The theorems hold for every value of the constants that satisfies the named
assumptions, any number of sessions, runs, hosts and rejected commands.

`WalkProofs`:

- `TypeCorrect`: `Spec => []TypeOK`. The hard part is that `ClaimedFrom`, a
  CHOOSE over index rows, stays inside its type.
- `IndexIsTrue`, `WalkImplementsShelf`, `ShelfOnePerSwitch`, with torn appends and
  blind runs at any number and place: the rows that last tell the truth, the walk
  refines `Shelf`, and no switch has two listed checklists, each until a run starts
  that cannot read the index (`Shelf`'s `Forget`). The invariant is `Inductive`:
  `IndexTellsTruth` is not inductive, because nothing in it keeps a visit from placing
  its checklist on a name another switch has listed. What does is that a listed name
  is claimed while a run goes on (`ListedAreClaimed`), that a session still to be
  visited claims none (`WaitingClaimNothing`) and has none listed (`WaitingHaveNone`),
  so a target is never a listed name (`TargetIsFree`); and that the last row of a
  listed switch names its file, lasts, and has no row of the switch behind it
  (`ListedAreIndexed`), so that the next run finds it done (`ListedAreDone`) and its
  claims start complete (`RowsAreListed`, `ClaimedFromSpec`, which is about the dict
  the comprehension builds, merged keys included). What an append leaves of the rows
  before it, wherever it is cut and whatever it goes on behind, is `RowsAfter`. It uses
  `KeysDistinct`, which is what `session_stem()` says of itself.
- `CensusIsComplete`: `[]LogIsCensus`, on any machine. Until a run leaves a session
  behind, the session has no row; from then on it has exactly one, unless a row
  was lost (`Census`).
- `CollectedIsKept`: `[]CollectionKept`, on any machine. While a run goes on, a
  checklist that stands for a collected switch is claimed by that switch, so
  `place_checklist()` of another one picks another name; until the rename the
  capture is whole; the row of a visit is its outcome, or the error that came
  instead (`Collection`).

`PushProofs`:

- `TypeCorrect`: with the stage of a push tied to its script and the queue to
  the stage, so that a permit always names a known host.
- `ReloadIsAWayBack`: `[]EscapeHatch`. A save is reached only over a login from
  where the script runs, and nothing changes the running configuration between.
- `SecretBeforeAaa`: `[]SecretFirst`. The commands of a queue belong to its
  stage, `aaa new-model` only to the one the round trip opens, and no command
  takes the secret back.
- `ReportsAWayIn`: `SafetyNetHolds`. While an ACL push runs, everything but the
  list lets its host in; while a Nexus AAA push runs, the list does (`NetInv`);
  the revert, which the image takes (`RevertsTaken`), removes the other half.
- `CreatingIsHarmless`: `CreatingShutsNobodyOut`. An entry added to a list in force
  shuts somebody out only if the list was empty, and a list in force is empty
  only on an image that takes none of its entries (`ListInv`): the batch that
  makes the list has to have gone through before the next one applies it.

`LabProofs`, for any topology files, names, runs and faults:

- `LabTypes` (`TypeOK`), `LabNoDuplicates`, `LabAdaptersChangedStopped`,
  `LabLinksAtDeclaredCount`, all from `LabInvariant`. None of them is inductive:
  nothing in `NoDuplicates` keeps `RenameNode` from giving a name a second time.
  `Inv` adds what the program knows at each place. While nodes are ensured, the
  records hold every declared name there is (`Complete`), so a name without a
  record has no node; each record is of the node it names, with that node's
  adapters, and `stopped` only if the node is (`RecordsTrue`) - a power loss may
  stop a node behind the record's back, never start one; the nodes gone through
  have their adapters (`Settled`); and once the links were listed, a link on the
  server was found then or made by this run for an earlier item (`LinksSeen`),
  which with distinct items and distinct nodes rules out a second one.
- `LabStraysAccounted`: `StraysAccounted`. A renaming can be refused without a fault of
  its own, when the project was closed behind it: then the power loss has paid
  (`StraysPaidFor`).
- `LabSavedBoots`: `SavedBoots`. The read back looks for the hostname alone, so the
  hostname has to stand for the whole version, whoever saved it and however it was
  edited since. `SetUp` adds to `Inv` that a device boots with its hostname only if
  it boots with all of a version, and then works with its hostname while it runs -
  without that, a save would take back what an earlier one had kept (`AllSound`); a
  line typed over another takes nothing of that away for good, because a cut-off push
  is not saved;
  that a record is of the node of its name at every place, not only while nodes are
  ensured (`RecordsNamed`), and the device in hand has one (`HandKnown`); and that
  what is about to be saved was typed whole, or the device is down (`ConfigWhole`).
  A node created or renamed later cannot stand in for one that was reported
  (`SaidTrue`, with `Complete`).
- `LabVerifiedIsBuilt`: `VerifiedIsBuilt`. No check looks at most of what it says, so it
  has to be laid and stay. `Raised` says what a build has behind it at each place, as
  long as the project is open: every node with its adapters (`Sized`), the links before
  this one (`Cabled`), the container's steps before this one (`HostLaid`), the devices
  before this one running with all of their lines, saved or committed where the platform
  is (`Furnished`) - the container's but for what the run took to be there (`assumed`).
  No later step takes any of that back (`Adding`): nothing that runs is
  stopped or loses a line, and a save keeps at least what runs. A power loss does take it
  back, and closes the project; nothing under the build opens it again, so no node that
  can be off is on from then to its end (`Dark`), and the last check, which needs one,
  fails.

`CaptureProofs`, for any devices, answers, banners, commands and bounds that meet
`Capture`'s assumptions:

- `TypeCorrect`, `LoginsStayBounded`: `Typed` and `VisitShape` say what the pieces of a
  visit are at each place; `LoginsCounted` ties the failures to the attempt counter
  and to the option that is given up once for all visits. That the templates a config
  leads to are commands the script knows is a fact about a recursive function of the
  config's lines (`TemplatesIn`); it is proved by the least line number at which it
  would fail (`LeastNumber`, `CountingUp`), for want of induction.
- `EveryWaitAnswered`: `AnswerStillComing`. What is still to be read (`Stream`: what
  SecureCRT holds, then what is under way) ends in the prompt whenever there is
  anything in it, and while a read waits there is, or the device has yet to act
  (`PromptToCome`).
- `StrangersSparedCommands`, `CapturesAreTrue`: before the config is asked for, nothing
  anywhere holds its end (`NoConfigYet`); while it is read, its `end` is the last line
  of the stream before the prompt (`ConfigUnderWay`), so an answer that shows it and is
  closed by a prompt is the whole of it, and everything sent before has been read:
  whatever nudges and a banner's edge had put out of step is back in step with the
  config, and stays so (`OnceConfigRead`). Until then an answer may be another
  command's; the guards of `collect()` throw such a capture away.

`HardenProofs`, for any switches, images, line counts and bounds:

- `TypeCorrect`, and `LinesStayOpen`: `WayBackIn`, whatever numbers were read. It is
  not inductive: nothing in it keeps a `transport input none` out of the inbox.
  `ShutGuarded` does: wherever one is waiting to be sent or acted on, the command before
  it is a `line vty` that starts at `Sessions` and ends at the number read
  (`Narrows`), and the switch that gets it next is in that range's mode if its image
  has room for that number (`Counted`, `Narrowed`). It holds for every order in
  which the switch catches up with the script, and of a push that dies, for what was
  sent is a prefix of it. Without `Counted` it is false: `vty_lockout`.
- `SshClaimIsTrue`: `SshClaimTrue`. A line that tells of a setting, anywhere on its way,
  is of a setting in force (`ToldTrue`), and nothing takes one back.

`HardenStepProofs`, of reads in step (the prompt was the prompt, and there before the
first nudge):

- `RejectionsNamed`: `RowNamesRejections`, and `ClosedMeansClosed`: `VtyRowTrueInStep`. One
  command is on its way at a time and the stop of its read is the last of its answer
  (`GreetedInStep`, `ReadInStep`), so each read takes all there is; the answer to each
  command and what the switch did with it go together (`Rejected`), so the earliest
  that fit the row are the earliest there were; and the switch is
  as far in the vty block as the script is (`BlockGoesIn`), for any line count against
  any number of sessions to keep open.

`HardeningProofs`, for any ports, VLANs, templates, inventory, book and switches to
begin with:

- `TypeCorrect`: `TypeOK`, from `Inv == TypeOK /\ SnapKept /\ SeenKept` - what a script
  read was a switch with today's templates and a database that has only grown since, and
  what an audit saw were switches. A push is a list
  built by concatenation, a list for each port, out of what was read. All of them are
  made of one alphabet (`Sendable`, of the reading), whatever the order; so it is
  enough to say what one command of it may do. `Onward` is that, as a preorder on
  switches: what no command of any script takes back, port by port, line by line and
  list by list. It holds of every command, hence from any point of a push to any later
  one, cut short or not (`Path` lays the push out as a sequence of switches and
  `CountingUp` goes along it).
- `UplinksStayTrunks`, `ServiceIsKept`, `VlansStayCarried`, the
  action properties of the runs, each from `Inv` and `Onward`. What makes
  the first is that a template that was read is the one in effect, so a port the
  expanded configuration calls an access port is none the switch runs as a trunk; what
  makes the last, that every VLAN of the database a trunk carried is in `TrunkVlans` of
  any database it was already in.
- `ChecklistsAreTrue`: `ChecklistIsTrue`. With one change between the audit's two
  readings, that change is to one part of the switch (`AuditKept`): its ports, its root
  ports or its database. The last two come from the first reading whatever the second
  says, and the ports from the second, so what was judged is one of the two switches
  whole (`JudgedIsSeen`), expanded by templates that are the same for both
  (`SameTemplates`, where the first reading has those of the second's ports:
  `TemplatesCover`).
- `HardenedIsHardened`: `HardenedPasses`, from `Inv /\ DoneKept`. It is not inductive:
  that a rule passes says nothing of the settings it did not have to look at, which the
  next script may need or change. `DoneKept` says what is on the switch for each part in
  `done` (`OnGlobal`, `OnLogging`, `OnAaa`, `OnAcl`, `OnSnooping`, `OnDai` of the switch;
  `OnAccess`, `OnTrunk`, `OnPruning`, `OnSourceGuard` of its ports, templates in place),
  and that a reading under way is of the switch as it is while `done` is not empty. Three
  steps: each command leaves its mark on the switch and no later one of its batch takes
  it back, so a whole push leaves all of them (the `Leaves` lemmas, `PortLinesSent`); no
  command of another script takes one back either, whole or cut short, in any order
  (`GlobalKept`, `PortsKept`); and a rule whose parts are all there passes, as far as it
  is within reach (`BothPass` to `PortsPass`, put together in `PushedPasses`).
- `NothingIsUnfixed`: `NothingUnfixed`, from the same `Onward` along the same path. What
  `Onward` keeps is what most rules read: lines but for those no rule asks for, settings
  at the value a rule wants, lists that only grow (`SettingsStillPass`,
  `ListsStillPass`). The rules on ports need more: that a push leaves every port in its
  population, access, trunk or layer 3, once templates are expanded, so that a rule asks
  no port it did not ask before (`SamePopulations`; a script sets the mode a port is
  seen in, and never the mode of a layer 3 port). The rules on logging in are the ones
  `Onward` says nothing of, because a command may well loosen a line: the logging script
  creates every line of the block it limits (`HighestReached`) and limits it before it
  opens it, and the access list script permits before it applies, so what holds is said
  of its sequence (`LoggingPushed`, `AclPushed`); every command of the other scripts is
  `Tame`: it touches neither lists nor how a line is reached (`PushLogins`). Then rule by
  rule, `GlobalRulesKept` and `PortRulesKept`.

Each of these invariants was checked by TLC on the runs' instances before it was
proved.

The assumptions are the named ASSUMEs of the modules, and TLC evaluates them on every
run: constants are of their types and the placeholders are not values, `KeysDistinct`,
`RevertsTaken`, what a switch is and what its inventory holds (`StartAssumption`,
`InventoryAssumption`), that a topology file names no node and no link twice, and no node as
GNS3 names its own (`TopologiesAssumption`, `StrayAssumption`), `VersionsAgree`,
`ChecksAssumption`, `SetsAssumption`, `OriginalsAssumption`, and those about devices
given with `Capture` and `Harden` above (of `Harden`'s, `NumbersTyped`, `MostTyped` and
`FitsNat` only say what kind of number each is).

Every safety invariant and every action property the runs check is proved. Only
model-checked: liveness (`NothingEndsTheWalk`, `VisitEnds`, `Converges`), which is out of
the proof system's reach, like ENABLED. The disagreements under "Findings" are runs that
find a violation; there is nothing to prove of them.

## Findings

- `stale_index`: `read_index()` takes any file under a row's name for that
  row's checklist. Deleting a checklist asks for its switch again
  (`capture_l2s_bulk.py:81-84`), unless a switch of the same hostname has taken
  the free name by then: the deleted switch is skipped in every later run.
- `torn_index`: `append_index()` writes the header only when there is no file, and
  `open()` makes the file before anything is in it. A run that dies in between leaves
  an empty `collected.csv`, and the first row of the next run is read as the header
  from then on (`capture_l2s_bulk.py:301`, against `:316-318`): its switch is not done,
  its name is nobody's, and the run after that puts another switch's checklist there.
- `vty_lockout`: with the `#` at a banner's left edge for a prompt, the text that is
  searched for vty numbers has the hostname in it (`harden_l2s_bulk.py:276`). On
  `SW9300-1`, `line vty 5 9300` is rejected, the switch stays on the open lines, and
  `transport input none` shuts them (against `:48-57`).
- `acl_deny`: the trailing deny "changes no access decisions"
  (`l2_stig_harden_acl.py:8-10`), until `automation_host` changes: the next
  permit goes behind it.
- `one_population`: an uplink whose `switchport mode trunk` comes from an
  interface template is an access port to `l2_stig_harden_ipsg.py` and the device
  tracking script, and a trunk to the audit; `stig_common.py:1033-1036` says "One
  classifier answers both".
- `lab_hardened`: a device of the multi-vendor lab that was hardened rejects
  `login local`, and no later build ends verified (`rebuild_lab.py:16-18`, `:458-460`).

Seen and not run.

The walks:

- An unreadable `collected.csv` is said to cost a re-collection only
  (`capture_l2s_bulk.py:308-311`). It also forgets the claims, and the next
  checklist of a shared hostname removes the one that stands there. `walk` has such
  starts; what was listed is `released` by them, and no longer promised.
- A row of `collected.csv` that was cut takes the next one with it: they run together
  on one line. One of the two switches, or both, is visited again by the next run,
  and a checklist may be claimed under a key that is no session's.
- A stopped run's dialog says its log accounts for every session in the list
  (`capture_l2s_bulk.py:779-781`, `:406`); those it did not reach have no row.
- Rows of duplicates and of sessions already done are written before the loop,
  outside any handler (`:649`): a failing write there ends the run before the
  first visit.
- With `ACCEPT_HOST_KEYS` off an unknown host key is a dialog nobody answers (`:456`).
- In capture-only mode a capture cut short by a kill counts as done (`:607`), which
  no doc denies; and the capture is kept on `write failed` too, where the docstring
  (`:22-23`) names failed audits only.
- Only `show running-config` is checked for its end; a template's answer that quotes
  the prompt is accepted cut off (`capture_l2s.py:810-812`).
- With a banner's edge for a prompt, the vty read may also take a number of the banner
  or of another command's echo for the highest line, too small a one: lines above it
  stay open, and the row says "closed" (`harden_l2s_bulk.py:269-271`). A read that times out in the middle of a push is
  logged as `refused`, the word for a switch that was never pushed to (`:308`).
- The last dialog says the rejected line is in the row (`harden_l2s_bulk.py:613-614`);
  the row has the first 300 characters of them (`:579`).
- The row of a failed visit has no hostname, and is another key to
  `merge_walk_csvs.py:109` than the row of the switch.

The scripts and the audit:

- The comment on the rules a template can decide says "exactly" those with
  `section ^interface` in their check text (`l2_stig_audit.py:2584-2587`). It is not
  true of V-220645, which a template decides and whose report does not name it; and
  the substring test (`:2517`, `:2592`) also picks V-220644, `section ^interface Vlan`,
  which none decides.
- What `--capture-to` records (`l2_stig_audit.py:2319-2327`) lacks `show ip ssh`, so a
  switch that passes live fails off its own capture, against `:2161-2165`.
- A port that becomes the root port between the reading and the push gets Root Guard:
  `guard root` is decided by the `show spanning-tree` that was read.
- A switch without an access port, or without a trunk, fails the rules about them
  for good; a second common-criteria policy fails V-220589 to V-220594.
- A template the switch does not show, or shows without commands, leaves its port
  as its own block has it: the access script then configures a templated uplink
  as an access port.
- The global and the DAI script exclude the site's non-user VLANs, the audit the
  device's own override; the default access VLAN is created after the list for
  DHCP snooping was read; a VLAN created after the trunk push is not on the trunks.
- Only `line vty 0 4` is configured by the global and the ACL script.
- `spanning-tree bpduguard disable` and `portfast disable` on a port are not looked for.
- The old `.cklb` is truncated before the new one is written, as is the latest
  copy of a backup (`backup_config.py:71`).
- With two changes during an audit, its two readings can add up to a verdict the
  switch never had.
- `log_push()` comes after the batch (`l2_stig_harden_acl.py:59`): commands of a batch
  that died are on the device and not in the log.

The lab:

- `--verify` is said to create and change nothing; it opens the project, and
  creates it if there is none (`rebuild_lab.py:1041`, `:1050`).
- "Verified by reading it back" looks for `^hostname` alone; `verify()` looks for
  `SSH_PORT_OPEN` in an output that has the command's own echo in it.
- A line taken out of the file stays on the device.
- A marker read that times out is taken for the marker (`rebuild_lab.py:359-361` and the
  four like it): a build can end verified without git, the repository or its packages.
- A vJunos damaged by a power loss (`docs/LAB-ACCESS.md:124-151`,
  `topology_multivendor.yaml:473-476`) fails every build until its disk is reset by hand;
  "a re-run converges" (`rebuild_lab.py:16-18`) leaves that out, the documents do not.
- The failover test loses what R1 had not saved, and leaves R1 off if it dies
  between stop and start; the next build starts it.
- A link listed twice in the file would be made twice in one run.

## Not modelled, and why

Router and NX-OS audits, the rule maps, the sanitiser, the PDF and YAML readers
are text processing whose correctness is in patterns; the router and NX-OS
hardening scripts build one list from the inventory and read nothing; Ansible
roles run modules that are not in the repository; the reporting scripts and the
template registration keep no state that a later step reads. Two users of one
output folder, two scripts on one device at once, and two builders on one server,
are outside what the code supports. `PROJECT.json` lists every component with its
status.

## Plan

Left, in this order:

1. `Inventory`: `inventory_l2s.py` as a third client of `Console`, one row per
   stack member, and `merge_walk_csvs.py` over its rows against "one row per
   switch and member, the newest".
2. The fleet access-port walk: `Hardening`'s access commands sent over `Console`.
3. `Backup`: latest and archived backups, pruning, and the diff.
4. The capture format (`capture.py`): what `load()` accepts against what `render()`
   wrote.
5. `ios_router_audit.py` and `nxos_stig_audit.py` on the runner of `Hardening`.
