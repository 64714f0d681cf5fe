-------------------------------- MODULE Push --------------------------------
(***************************************************************************)
(* The scripts that can lock their own host out of a device: the management *)
(* access list and the AAA pushes of scripts/*_stig_harden_acl.py and       *)
(* scripts/*_stig_harden_aaa.py, the save of scripts/save_config.py, and    *)
(* the one way back they all count on - the reload that reverts what was    *)
(* never saved.                                                            *)
(*                                                                         *)
(* One script runs at a time.  Each command of a send_config_set() is a     *)
(* step, for the session can be lost between any two of them.              *)
(***************************************************************************)
EXTENDS Integers, Sequences

CONSTANTS
  Host,        \* source addresses the scripts are, or were, run from
  NoHost,      \* inventory.yaml has no automation_host
  Platform,    \* "switch", "router" or "nexus", as far as they are checked
  Rejectable   \* the commands an image may reject

ASSUME HostsDistinct == NoHost \notin Host
ASSUME PlatformKnown == Platform \subseteq {"switch", "router", "nexus"}
(* An image that took a command takes the `no' form of it.                  *)
ASSUME RevertsTaken == Rejectable \cap {"no access-class", "no login list"} = {}

VARIABLES
  (* The device, and what surrounds it. *)
  platform,
  rejects,     \* the commands this image rejects: send_config_set() does not look
  radius,      \* the RADIUS servers: "down", "accepts" or "rejects" the account
  running, startup,
  (* The operator's side. *)
  inventory,   \* automation_host in inventory.yaml
  here,        \* the address the scripts are run from
  (* The script. *)
  script,      \* "acl", "aaa" or "save"
  pc,          \* "idle", "connect", the batch being sent, or the check being made
  queue,       \* commands of the batch still to be sent
  outcome,
  (* History. *)
  savedFrom    \* the address the startup configuration was saved from

surroundings == <<platform, rejects, radius>>
operator == <<inventory, here>>
process  == <<script, pc, queue, outcome>>
vars == <<surroundings, running, startup, operator, process, savedFrom>>

Deny == "deny any"
Cmd(verb) == [verb |-> verb, host |-> NoHost]
Permit(h) == [verb |-> "permit", host |-> h]

Verbs == {"permit", "deny", "access-class", "no access-class", "enable secret",
          "aaa new-model", "login list", "no login list"}
Command == [verb : Verbs, host : Host \cup {NoHost}]
Config == [acl      : Seq(Host \cup {Deny}),  \* the management list, in order
           applied  : BOOLEAN,                \* `access-class ... in' on the vty lines
           secret   : {"none", "ours", "other"},
           newModel : BOOLEAN,                \* aaa new-model
           login    : BOOLEAN]                \* logins ask the RADIUS group first

Batches == {"acl", "apply", "revert acl", "secret", "aaa", "radius", "auth", "revert aaa",
            "followup"}
Checks  == {"round trip", "verify", "save"}

TypeOK ==
  /\ platform \in Platform /\ rejects \subseteq Rejectable
  /\ radius \in {"down", "accepts", "rejects"}
  /\ running \in Config /\ startup \in Config
  /\ inventory \in Host \cup {NoHost} /\ here \in Host /\ savedFrom \in Host
  /\ script \in {"acl", "aaa", "save"}
  /\ pc \in {"idle", "connect"} \cup Batches \cup Checks
  /\ queue \in Seq(Command)
  /\ outcome \in {"none", "not connected", "aborted", "died", "verified", "reverted",
                  "pushed", "saved", "save failed"}

Init ==
  /\ platform \in Platform /\ rejects \in SUBSET Rejectable
  /\ radius \in {"down", "accepts", "rejects"}
  /\ running \in [acl : {<<>>}, applied : {FALSE}, secret : {"none", "ours", "other"},
                  newModel : {FALSE}, login : {FALSE}]
  /\ startup = running
  /\ inventory \in Host \cup {NoHost} /\ here \in Host /\ savedFrom = here
  /\ script = "save" /\ pc = "idle" /\ queue = <<>> /\ outcome = "none"
-----------------------------------------------------------------------------
(* The device. *)

(* An access list is read from the top, and ends in an implicit deny; one    *)
(* without entries keeps nobody out.                                        *)
Permits(acl, h) ==
  \/ acl = <<>>
  \/ \E i \in DOMAIN acl : acl[i] = h /\ \A j \in 1..(i - 1) : acl[j] # Deny

(* netauto.connect() from h: let through, on a line the access-class is on;   *)
(* logged in; and privileged.  With aaa new-model a login needs its method    *)
(* list and lands in user EXEC, from where only the enable secret leads on;   *)
(* RADIUS servers that are down leave it to the local account, servers that   *)
(* answer decide.                                                            *)
LetsIn(cfg, h) ==
  /\ cfg.applied => Permits(cfg.acl, h)
  /\ cfg.newModel => cfg.login /\ cfg.secret = "ours"
  /\ cfg.login => radius # "rejects"

(* A new entry goes to the end of the list, one it has already nowhere.     *)
WithEntry(acl, e) == IF \E i \in DOMAIN acl : acl[i] = e THEN acl ELSE Append(acl, e)

(* What a command does to the running configuration.  On IOS a login list    *)
(* is not valid syntax before aaa new-model.                                *)
Effect(cfg, c) ==
  IF c.verb \in rejects
  THEN cfg
  ELSE CASE c.verb = "permit"          -> [cfg EXCEPT !.acl = WithEntry(@, c.host)]
         [] c.verb = "deny"            -> [cfg EXCEPT !.acl = WithEntry(@, Deny)]
         [] c.verb = "access-class"    -> [cfg EXCEPT !.applied = TRUE]
         [] c.verb = "no access-class" -> [cfg EXCEPT !.applied = FALSE]
         [] c.verb = "enable secret"   -> [cfg EXCEPT !.secret = "ours"]
         [] c.verb = "aaa new-model"   -> [cfg EXCEPT !.newModel = TRUE]
         [] c.verb = "login list"      -> [cfg EXCEPT !.login = @ \/ cfg.newModel
                                                                  \/ platform = "nexus"]
         [] c.verb = "no login list"   -> [cfg EXCEPT !.login = FALSE]
-----------------------------------------------------------------------------
(* The scripts. *)

(* Bug: the list is applied before it has an entry.                         *)
AclCommandsApplied ==
  <<Cmd("access-class")>>
    \o (IF platform = "nexus" THEN <<Permit(inventory)>> ELSE <<Permit(inventory), Cmd("deny")>>)

(* The commands that decide who is let in, of each batch: definitions that   *)
(* nothing refers to yet, the policies and the 802.1X globals are left out.  *)
AclCommands ==
  IF platform = "nexus" THEN <<Permit(inventory)>> ELSE <<Permit(inventory), Cmd("deny")>>

BatchOf(stage) ==
  CASE stage = "acl"        -> AclCommands
    [] stage = "apply"      -> <<Cmd("access-class")>>
    [] stage = "revert acl" -> <<Cmd("no access-class")>>
    [] stage = "secret"     -> <<Cmd("enable secret")>>
    [] stage = "aaa"        -> <<Cmd("aaa new-model"), Cmd("login list")>>
    [] stage = "auth"       -> <<Cmd("login list")>>
    [] stage = "revert aaa" -> <<Cmd("no login list")>>
    [] OTHER                -> <<>>

Goes(stage) ==
  /\ pc' = stage
  /\ queue' = BatchOf(stage)
  /\ UNCHANGED <<script, outcome>>

Ends(o) ==
  /\ pc' = "idle" /\ queue' = <<>> /\ outcome' = o
  /\ UNCHANGED script

FirstStage ==
  CASE script = "acl" -> "acl"
    [] script = "aaa" -> IF platform = "nexus" THEN "radius" ELSE "secret"
    [] OTHER          -> "save"

(* Bug: an inventory without an automation_host is pushed all the same.      *)
StartScriptUnchecked(s) ==
  /\ pc = "idle"
  /\ pc' = "connect" /\ script' = s /\ outcome' = "none"
  /\ UNCHANGED <<surroundings, running, startup, operator, queue, savedFrom>>

(* Up to netauto.connect(): an ACL push needs an automation_host, an AAA push *)
(* the enable secret and the RADIUS key, which secrets.yaml has.             *)
StartScript(s) ==
  /\ pc = "idle"
  /\ s = "acl" => inventory # NoHost
  /\ pc' = "connect" /\ script' = s /\ outcome' = "none"
  /\ UNCHANGED <<surroundings, running, startup, operator, queue, savedFrom>>

Connects ==
  /\ pc = "connect"
  /\ LetsIn(running, here)
  /\ Goes(FirstStage)
  /\ UNCHANGED <<surroundings, running, startup, operator, savedFrom>>

(* Shut out, or any of the other reasons connect() returns None for.        *)
ConnectFails ==
  /\ pc = "connect"
  /\ Ends("not connected")
  /\ UNCHANGED <<surroundings, running, startup, operator, savedFrom>>

(* send_config_set(), one command after the other; log_push() when all of    *)
(* them are out.                                                            *)
SendCommand ==
  /\ pc \in Batches /\ queue # <<>>
  /\ running' = Effect(running, Head(queue))
  /\ queue' = Tail(queue)
  /\ UNCHANGED <<surroundings, startup, operator, script, pc, outcome, savedFrom>>

AfterBatch ==
  CASE pc = "acl"    -> Goes("apply")
    [] pc = "radius" -> Goes("auth")
    [] pc = "secret" -> Goes("round trip")
    [] pc \in {"apply", "auth"} -> Goes("verify")
    [] pc = "aaa"      -> Ends("pushed")
    [] pc = "followup" -> Ends("verified")
    [] OTHER           -> Ends("reverted")

(* Bug: every push ends with a save.                                        *)
BatchSentAndSaved ==
  /\ pc \in Batches /\ queue = <<>>
  /\ AfterBatch
  /\ startup' = running /\ savedFrom' = here
  /\ UNCHANGED <<surroundings, running, operator>>

BatchSent ==
  /\ pc \in Batches /\ queue = <<>>
  /\ AfterBatch
  /\ UNCHANGED <<surroundings, running, startup, operator, savedFrom>>

(* Bug: enable() did not raise, so it worked.                               *)
RoundTripUnchecked ==
  /\ pc = "round trip"
  /\ Goes("aaa")
  /\ UNCHANGED <<surroundings, running, startup, operator, savedFrom>>

(* exit_enable_mode(), enable(), check_enable_mode(): back at privileged     *)
(* EXEC only if the secret on the device is the one in secrets.yaml.        *)
RoundTrip ==
  /\ pc = "round trip"
  /\ running.secret = "ours"
  /\ Goes("aaa")
  /\ UNCHANGED <<surroundings, running, startup, operator, savedFrom>>

RoundTripFails ==
  /\ pc = "round trip"
  /\ Ends("aborted")
  /\ UNCHANGED <<surroundings, running, startup, operator, savedFrom>>

(* Bug: the session that is open already is asked.                          *)
VerifiesOverPrimary ==
  /\ pc = "verify"
  /\ IF script = "acl" THEN Ends("verified") ELSE Goes("followup")
  /\ UNCHANGED <<surroundings, running, startup, operator, savedFrom>>

(* The second, independent connection: only a fresh login can tell.         *)
Verifies ==
  /\ pc = "verify"
  /\ LetsIn(running, here)
  /\ IF script = "acl" THEN Ends("verified") ELSE Goes("followup")
  /\ UNCHANGED <<surroundings, running, startup, operator, savedFrom>>

VerifyFails ==
  /\ pc = "verify"
  /\ Goes(IF script = "acl" THEN "revert acl" ELSE "revert aaa")
  /\ UNCHANGED <<surroundings, running, startup, operator, savedFrom>>

Save ==
  /\ pc = "save"
  /\ startup' = running /\ savedFrom' = here
  /\ Ends("saved")
  /\ UNCHANGED <<surroundings, running, operator>>

(* save_config() raised: before the copy was made, or after.                *)
SaveFails ==
  /\ pc = "save"
  /\ \/ UNCHANGED <<startup, savedFrom>>
     \/ startup' = running /\ savedFrom' = here
  /\ Ends("save failed")
  /\ UNCHANGED <<surroundings, running, operator>>

(* The session is lost, a read times out, somebody presses Ctrl-C: whatever  *)
(* raises out of a batch or a check ends the script where it stands.        *)
Dies ==
  /\ pc \in Batches \cup Checks
  /\ Ends("died")
  /\ UNCHANGED <<surroundings, running, startup, operator, savedFrom>>
-----------------------------------------------------------------------------
(* The operator. *)

(* A reload brings the saved configuration back and closes every session.   *)
Reload ==
  /\ running' = startup
  /\ IF pc \in Batches \cup Checks THEN Ends("died") ELSE UNCHANGED process
  /\ UNCHANGED <<surroundings, startup, operator, savedFrom>>

(* inventory.yaml is edited, or another host becomes the automation host.   *)
EditInventory ==
  /\ pc = "idle"
  /\ inventory' \in Host \cup {NoHost}
  /\ UNCHANGED <<surroundings, running, startup, here, process, savedFrom>>

Move ==
  /\ pc = "idle"
  /\ here' \in Host
  /\ UNCHANGED <<surroundings, running, startup, inventory, process, savedFrom>>

Scripting == \/ Connects \/ ConnectFails \/ SendCommand \/ BatchSent \/ RoundTrip
             \/ RoundTripFails \/ Verifies \/ VerifyFails \/ Save \/ SaveFails \/ Dies

Next == \/ \E s \in {"acl", "aaa", "save"} : StartScript(s)
        \/ Scripting
        \/ Reload \/ EditInventory \/ Move

Spec == Init /\ [][Next]_vars
-----------------------------------------------------------------------------
(* "If a push locks the automation host out, reloading the device brings it  *)
(* back on the last saved configuration - no console needed": what is saved  *)
(* lets in the host it was saved from, whatever was pushed, half pushed or    *)
(* reverted before.                                                          *)
EscapeHatch == LetsIn(startup, savedFrom)

(* aaa new-model is never in force with an enable secret the scripts do not  *)
(* hold: "the only way back into privileged EXEC once aaa new-model is        *)
(* active".                                                                  *)
SecretFirst ==
  \A cfg \in {running, startup} : cfg.newModel => cfg.secret = "ours"

(* A push that reports its check, passed or failed, leaves the host it was    *)
(* run from a way to log in.                                                 *)
SafetyNetHolds ==
  [][pc # "idle" /\ outcome' \in {"verified", "reverted"} => LetsIn(running', here)]_vars

(* Creating the list "has no effect on anything until it's actually           *)
(* referenced", and where an earlier push had it referenced already, it shuts  *)
(* out nobody that was let in.                                               *)
CreatingShutsNobodyOut ==
  [][pc = "acl" /\ pc' # "idle" =>
       \A h \in Host : LetsIn(running, h) => LetsIn(running', h)]_vars

(* The trailing deny "matches the implicit deny already in effect, so it      *)
(* changes no access decisions, only adds logging".                          *)
DenyChangesNothing ==
  LET undenied == SelectSeq(running.acl, LAMBDA e : e # Deny)
  IN  \A h \in Host : Permits(running.acl, h) = Permits(undenied, h)
=============================================================================
