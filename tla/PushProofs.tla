----------------------------- MODULE PushProofs -----------------------------
(***************************************************************************)
(* Proofs about Push for any addresses, platforms and rejecting images:    *)
(* its types, that what is saved lets its host in, that aaa new-model       *)
(* never runs ahead of the enable secret, that a push that reports its      *)
(* check leaves a way to log in, and that making a list shuts nobody out.   *)
(***************************************************************************)
EXTENDS Push, TLAPS

LEMMA EffectTyped ==
  ASSUME NEW cfg \in Config, NEW c \in Command, c.verb = "permit" => c.host \in Host
  PROVE  Effect(cfg, c) \in Config
<1>1. \A e \in Host \cup {Deny} : WithEntry(cfg.acl, e) \in Seq(Host \cup {Deny})
  BY DEF WithEntry, Config
<1>2. CASE c.verb \in rejects
  BY <1>2 DEF Effect
<1>3. CASE c.verb \notin rejects
  <2>1. c.verb \in Verbs
    BY DEF Command
  <2> QED BY <1>1, <1>3, <2>1 DEF Effect, Config, Verbs
<1> QED BY <1>2, <1>3

(* The types in parts.  A command that permits a host permits a known one:  *)
(* the inventory has an automation_host for as long as an ACL push runs.    *)
Sendable == {c \in Command : c.verb = "permit" => c.host \in Host}
Outcomes == {"none", "not connected", "aborted", "died", "verified", "reverted",
             "pushed", "saved", "save failed"}
AroundTyped ==
  /\ platform \in Platform /\ rejects \subseteq Rejectable
  /\ radius \in {"down", "accepts", "rejects"}
  /\ inventory \in Host \cup {NoHost} /\ here \in Host
ConfigsTyped == running \in Config /\ startup \in Config /\ savedFrom \in Host
ProcessTyped ==
  /\ script \in {"acl", "aaa", "save"}
  /\ pc \in {"idle", "connect"} \cup Batches \cup Checks
  /\ queue \in Seq(Sendable)
  /\ outcome \in Outcomes
HostKnown == script = "acl" /\ pc # "idle" => inventory \in Host

(* Which script is at which stage, and on which platform.                   *)
StageOfScript ==
  /\ pc \in {"acl", "apply", "revert acl"} => script = "acl"
  /\ pc \in {"secret", "round trip", "aaa"} => script = "aaa" /\ platform # "nexus"
  /\ pc \in {"radius", "auth", "revert aaa", "followup"} =>
       script = "aaa" /\ platform = "nexus"
  /\ pc = "verify" => script = "acl" \/ (script = "aaa" /\ platform = "nexus")
  /\ pc = "save" => script = "save"

Typed == AroundTyped /\ ConfigsTyped /\ ProcessTyped /\ HostKnown /\ StageOfScript

LEMMA OneOf == ASSUME NEW S, NEW a \in S
               PROVE  <<a>> \in Seq(S)
OBVIOUS

LEMMA TwoOf == ASSUME NEW S, NEW a \in S, NEW b \in S
               PROVE  <<a, b>> \in Seq(S)
OBVIOUS

LEMMA BatchTyped ==
  ASSUME inventory \in Host \cup {NoHost}, NEW stage, stage = "acl" => inventory \in Host
  PROVE  BatchOf(stage) \in Seq(Sendable)
<1>1. \A v \in Verbs : v # "permit" => Cmd(v) \in Sendable
  BY DEF Cmd, Command, Sendable
<1>2. inventory \in Host => Permit(inventory) \in Sendable
  BY DEF Permit, Command, Verbs, Sendable
<1>3. CASE stage = "acl"
  <2>1. BatchOf(stage) = AclCommands
    BY <1>3 DEF BatchOf
  <2>2. Cmd("deny") \in Sendable
    BY <1>1 DEF Verbs
  <2>3. /\ <<Permit(inventory)>> \in Seq(Sendable)
        /\ <<Permit(inventory), Cmd("deny")>> \in Seq(Sendable)
    BY <1>2, <1>3, <2>2, OneOf, TwoOf
  <2> QED BY <2>1, <2>3 DEF AclCommands
<1>4. CASE stage # "acl"
  <2>1. \A v \in Verbs : v # "permit" => <<Cmd(v)>> \in Seq(Sendable)
    BY <1>1, OneOf
  <2>2. Cmd("aaa new-model") \in Sendable /\ Cmd("login list") \in Sendable
    BY <1>1 DEF Verbs
  <2>3. <<Cmd("aaa new-model"), Cmd("login list")>> \in Seq(Sendable)
    BY <2>2, TwoOf
  <2>4. \/ BatchOf(stage) = <<>>
        \/ BatchOf(stage) = <<Cmd("aaa new-model"), Cmd("login list")>>
        \/ BatchOf(stage) = <<Cmd("access-class")>>
        \/ BatchOf(stage) = <<Cmd("no access-class")>>
        \/ BatchOf(stage) = <<Cmd("enable secret")>>
        \/ BatchOf(stage) = <<Cmd("login list")>>
        \/ BatchOf(stage) = <<Cmd("no login list")>>
    BY <1>4, Zenon DEF BatchOf
  <2>5. <<>> \in Seq(Sendable)
    OBVIOUS
  <2> QED BY <2>1, <2>3, <2>4, <2>5, Zenon DEF Verbs
<1> QED BY <1>3, <1>4

LEMMA GoesTyped ==
  ASSUME ProcessTyped, inventory \in Host \cup {NoHost}, NEW stage \in Batches \cup Checks,
         stage = "acl" => inventory \in Host, Goes(stage)
  PROVE  ProcessTyped'
<1>1. BatchOf(stage) \in Seq(Sendable)
  BY BatchTyped
<1> QED BY <1>1 DEF ProcessTyped, Goes

LEMMA EndsTyped ==
  ASSUME ProcessTyped, NEW o \in Outcomes, Ends(o)
  PROVE  ProcessTyped'
BY DEF ProcessTyped, Ends

LEMMA TypedInit == Init => Typed
<1> SUFFICES ASSUME Init
             PROVE  Typed
  OBVIOUS
<1>1. ConfigsTyped
  <2>1. <<>> \in Seq(Host \cup {Deny}) /\ FALSE \in BOOLEAN
    OBVIOUS
  <2>2. running \in Config
    BY <2>1 DEF Init, Config
  <2> QED BY <2>2 DEF Init, ConfigsTyped
<1>2. AroundTyped
  BY DEF Init, AroundTyped
<1>3. ProcessTyped
  BY DEF Init, ProcessTyped, Outcomes
<1>4. HostKnown /\ StageOfScript
  BY DEF Init, HostKnown, StageOfScript
<1> QED BY <1>1, <1>2, <1>3, <1>4 DEF Typed

(* A step that leaves the configurations alone, and goes on or ends.        *)
LEMMA TypedGoes ==
  ASSUME Typed, UNCHANGED <<surroundings, running, startup, operator, savedFrom>>,
         NEW stage \in Batches \cup Checks, stage = "acl" => inventory \in Host,
         Goes(stage), pc # "idle",
         stage \in {"acl", "apply", "revert acl"} => script = "acl",
         stage \in {"secret", "round trip", "aaa"} => script = "aaa" /\ platform # "nexus",
         stage \in {"radius", "auth", "revert aaa", "followup"} =>
           script = "aaa" /\ platform = "nexus",
         stage = "verify" => script = "acl" \/ (script = "aaa" /\ platform = "nexus"),
         stage = "save" => script = "save"
  PROVE  Typed'
<1>1. ProcessTyped'
  BY GoesTyped DEF Typed, AroundTyped
<1>2. AroundTyped' /\ ConfigsTyped'
  BY DEF Typed, AroundTyped, ConfigsTyped, surroundings, operator
<1>3. HostKnown'
  BY DEF Typed, HostKnown, Goes, operator
<1>4. StageOfScript'
  BY DEF StageOfScript, Goes, surroundings
<1> QED BY <1>1, <1>2, <1>3, <1>4 DEF Typed

LEMMA TypedEnds ==
  ASSUME Typed, UNCHANGED <<surroundings, operator>>, ConfigsTyped',
         NEW o \in Outcomes, Ends(o)
  PROVE  Typed'
<1>1. ProcessTyped'
  BY EndsTyped DEF Typed
<1>2. AroundTyped'
  BY DEF Typed, AroundTyped, surroundings, operator
<1>3. HostKnown' /\ StageOfScript'
  BY DEF HostKnown, StageOfScript, Ends
<1> QED BY <1>1, <1>2, <1>3 DEF Typed

LEMMA TypedStep == Typed /\ [Next]_vars => Typed'
<1> SUFFICES ASSUME Typed, [Next]_vars
             PROVE  Typed'
  OBVIOUS
<1>1. ASSUME NEW s \in {"acl", "aaa", "save"}, StartScript(s)
      PROVE  Typed'
  <2>1. AroundTyped' /\ ConfigsTyped'
    BY <1>1 DEF Typed, AroundTyped, ConfigsTyped, StartScript, surroundings, operator
  <2>2. ProcessTyped'
    BY <1>1 DEF Typed, ProcessTyped, StartScript, Outcomes
  <2>3. HostKnown' /\ StageOfScript'
    BY <1>1 DEF Typed, AroundTyped, HostKnown, StageOfScript, StartScript, operator
  <2> QED BY <2>1, <2>2, <2>3 DEF Typed
<1>2. ASSUME Connects
      PROVE  Typed'
  <2>1. /\ FirstStage \in {"acl", "radius", "secret", "save"}
        /\ FirstStage = "acl" => script = "acl"
        /\ FirstStage = "radius" => script = "aaa" /\ platform = "nexus"
        /\ FirstStage = "secret" => script = "aaa" /\ platform # "nexus"
        /\ FirstStage = "save" => script = "save"
    BY DEF FirstStage, Typed, ProcessTyped
  <2>2. script = "acl" => inventory \in Host
    BY <1>2 DEF Typed, HostKnown, Connects
  <2>3. FirstStage \in Batches \cup Checks
    BY <2>1 DEF Batches, Checks
  <2> QED BY <1>2, <2>1, <2>2, <2>3, TypedGoes DEF Connects
<1>3. ASSUME ConnectFails \/ RoundTripFails \/ Dies
      PROVE  Typed'
  <2>1. \E o \in Outcomes : Ends(o)
    BY <1>3 DEF ConnectFails, RoundTripFails, Dies, Outcomes
  <2>2. UNCHANGED <<surroundings, operator>> /\ ConfigsTyped'
    BY <1>3 DEF ConnectFails, RoundTripFails, Dies, Typed, ConfigsTyped
  <2> QED BY <2>1, <2>2, TypedEnds
<1>4. ASSUME SendCommand
      PROVE  Typed'
  <2>1. Head(queue) \in Sendable /\ Tail(queue) \in Seq(Sendable)
    BY <1>4 DEF SendCommand, Typed, ProcessTyped
  <2>2. running' \in Config
    BY <1>4, <2>1, EffectTyped DEF SendCommand, Typed, ConfigsTyped, Sendable
  <2>3. AroundTyped' /\ ConfigsTyped'
    BY <1>4, <2>2 DEF SendCommand, Typed, AroundTyped, ConfigsTyped, surroundings, operator
  <2>4. ProcessTyped'
    BY <1>4, <2>1 DEF SendCommand, Typed, ProcessTyped
  <2>5. HostKnown' /\ StageOfScript'
    BY <1>4 DEF SendCommand, Typed, HostKnown, StageOfScript, surroundings, operator
  <2> QED BY <2>3, <2>4, <2>5 DEF Typed
<1>5. ASSUME BatchSent
      PROVE  Typed'
  <2>1. UNCHANGED <<surroundings, running, startup, operator, savedFrom>> /\ pc # "idle"
    BY <1>5 DEF BatchSent, Batches
  <2>2. ConfigsTyped'
    BY <2>1 DEF Typed, ConfigsTyped
  <2>3. StageOfScript
    BY DEF Typed
  <2>4. CASE pc = "acl" /\ Goes("apply")
    BY <2>1, <2>3, <2>4, TypedGoes DEF Batches, StageOfScript
  <2>5. CASE pc = "radius" /\ Goes("auth")
    BY <2>1, <2>3, <2>5, TypedGoes DEF Batches, StageOfScript
  <2>6. CASE pc = "secret" /\ Goes("round trip")
    BY <2>1, <2>3, <2>6, TypedGoes DEF Checks, StageOfScript
  <2>7. CASE pc \in {"apply", "auth"} /\ Goes("verify")
    BY <2>1, <2>3, <2>7, TypedGoes DEF Checks, StageOfScript
  <2>8. CASE \E o \in {"pushed", "verified", "reverted"} : Ends(o)
    BY <2>1, <2>2, <2>8, TypedEnds DEF Outcomes
  <2> QED BY <1>5, <2>4, <2>5, <2>6, <2>7, <2>8 DEF BatchSent, AfterBatch
<1>6. ASSUME RoundTrip
      PROVE  Typed'
  BY <1>6, TypedGoes DEF RoundTrip, Typed, StageOfScript, Batches
<1>7. ASSUME Verifies
      PROVE  Typed'
  <2>1. UNCHANGED <<surroundings, running, startup, operator, savedFrom>> /\ pc = "verify"
    BY <1>7 DEF Verifies
  <2>2. CASE script = "acl"
    <3>1. Ends("verified")
      BY <1>7, <2>2 DEF Verifies
    <3>2. ConfigsTyped'
      BY <2>1 DEF Typed, ConfigsTyped
    <3> QED BY <2>1, <3>1, <3>2, TypedEnds DEF Outcomes
  <2>3. CASE script # "acl"
    <3>1. Goes("followup") /\ script = "aaa" /\ platform = "nexus"
      BY <1>7, <2>3 DEF Verifies, Typed, StageOfScript
    <3> QED BY <2>1, <3>1, TypedGoes DEF Batches
  <2> QED BY <2>2, <2>3
<1>8. ASSUME VerifyFails
      PROVE  Typed'
  <2>1. UNCHANGED <<surroundings, running, startup, operator, savedFrom>> /\ pc = "verify"
    BY <1>8 DEF VerifyFails
  <2>2. CASE script = "acl"
    <3>1. Goes("revert acl")
      BY <1>8, <2>2 DEF VerifyFails
    <3> QED BY <2>1, <2>2, <3>1, TypedGoes DEF Batches
  <2>3. CASE script # "acl"
    <3>1. Goes("revert aaa") /\ script = "aaa" /\ platform = "nexus"
      BY <1>8, <2>3 DEF VerifyFails, Typed, StageOfScript
    <3> QED BY <2>1, <3>1, TypedGoes DEF Batches
  <2> QED BY <2>2, <2>3
<1>9. ASSUME Save \/ SaveFails
      PROVE  Typed'
  <2>1. \E o \in Outcomes : Ends(o)
    BY <1>9 DEF Save, SaveFails, Outcomes
  <2>2. UNCHANGED <<surroundings, operator>> /\ ConfigsTyped'
    BY <1>9 DEF Save, SaveFails, Typed, ConfigsTyped, AroundTyped
  <2> QED BY <2>1, <2>2, TypedEnds
<1>10. ASSUME Reload
       PROVE  Typed'
  <2>1. UNCHANGED <<surroundings, operator>> /\ ConfigsTyped'
    BY <1>10 DEF Reload, Typed, ConfigsTyped
  <2>2. CASE Ends("died")
    BY <2>1, <2>2, TypedEnds DEF Outcomes
  <2>3. CASE UNCHANGED process
    BY <2>1, <2>3 DEF Typed, AroundTyped, ProcessTyped, HostKnown, StageOfScript, process,
                      surroundings, operator
  <2> QED BY <1>10, <2>2, <2>3 DEF Reload
<1>11. ASSUME EditInventory \/ Move
       PROVE  Typed'
  BY <1>11 DEF EditInventory, Move, Typed, AroundTyped, ConfigsTyped, ProcessTyped, HostKnown,
               StageOfScript, surroundings, process
<1>12. CASE UNCHANGED vars
  BY <1>12 DEF vars, surroundings, operator, process, Typed, AroundTyped, ConfigsTyped,
               ProcessTyped, HostKnown, StageOfScript
<1> QED BY <1>1, <1>2, <1>3, <1>4, <1>5, <1>6, <1>7, <1>8, <1>9, <1>10, <1>11, <1>12
        DEF Next, Scripting

LEMMA TypedIsTypeOK == Typed => TypeOK
<1>1. ProcessTyped => queue \in Seq(Command)
  BY DEF ProcessTyped, Sendable
<1> QED BY <1>1 DEF Typed, AroundTyped, ConfigsTyped, ProcessTyped, Outcomes, TypeOK

(* Every reachable state of Push is of the declared type.                   *)
THEOREM TypeCorrect == Spec => []TypeOK
BY TypedInit, TypedStep, TypedIsTypeOK, PTL DEF Spec

(* What is saved was the running configuration right after a login from the *)
(* same address, and no other script ran in between.                        *)
HatchInv == EscapeHatch /\ (pc = "save" => LetsIn(running, here))

LEMMA HatchInit == Init => HatchInv
<1> SUFFICES ASSUME Init
             PROVE  HatchInv
  OBVIOUS
<1>1. ~startup.applied /\ ~startup.newModel /\ ~startup.login
  BY DEF Init
<1> QED BY <1>1 DEF Init, HatchInv, EscapeHatch, LetsIn

LEMMA HatchStep == HatchInv /\ [Next]_vars => HatchInv'
<1> SUFFICES ASSUME HatchInv, [Next]_vars
             PROVE  HatchInv'
  OBVIOUS
<1> USE DEF HatchInv, EscapeHatch, LetsIn, surroundings, operator
<1>1. ASSUME NEW s \in {"acl", "aaa", "save"}, StartScript(s)
      PROVE  HatchInv'
  BY <1>1 DEF StartScript
<1>2. ASSUME Connects
      PROVE  HatchInv'
  BY <1>2 DEF Connects, Goes
<1>3. ASSUME ConnectFails \/ RoundTripFails \/ Dies
      PROVE  HatchInv'
  BY <1>3 DEF ConnectFails, RoundTripFails, Dies, Ends
<1>4. ASSUME SendCommand
      PROVE  HatchInv'
  BY <1>4 DEF SendCommand, Batches
<1>5. ASSUME BatchSent
      PROVE  HatchInv'
  <2>1. pc' # "save"
    BY <1>5 DEF BatchSent, AfterBatch, Goes, Ends
  <2> QED BY <1>5, <2>1 DEF BatchSent
<1>6. ASSUME RoundTrip \/ Verifies \/ VerifyFails
      PROVE  HatchInv'
  BY <1>6 DEF RoundTrip, Verifies, VerifyFails, Goes, Ends
<1>7. ASSUME Save \/ SaveFails
      PROVE  HatchInv'
  BY <1>7 DEF Save, SaveFails, Ends
<1>8. ASSUME Reload
      PROVE  HatchInv'
  <2>1. pc' # "save"
    BY <1>8 DEF Reload, Ends, process, Checks
  <2> QED BY <1>8, <2>1 DEF Reload
<1>9. ASSUME EditInventory \/ Move
      PROVE  HatchInv'
  BY <1>9 DEF EditInventory, Move, process
<1>10. CASE UNCHANGED vars
  BY <1>10 DEF vars, process
<1> QED BY <1>1, <1>2, <1>3, <1>4, <1>5, <1>6, <1>7, <1>8, <1>9, <1>10 DEF Next, Scripting

(* Whatever was pushed, half pushed or reverted before, the saved           *)
(* configuration lets in the host it was saved from: a reload undoes every  *)
(* lockout.                                                                 *)
THEOREM ReloadIsAWayBack == Spec => []EscapeHatch
<1>1. HatchInv => EscapeHatch
  BY DEF HatchInv
<1> QED BY <1>1, HatchInit, HatchStep, PTL DEF Spec
-----------------------------------------------------------------------------
(* The commands that may still be waiting at each stage.                    *)
VerbsAt(stage) ==
  CASE stage = "acl"        -> {"permit", "deny"}
    [] stage = "apply"      -> {"access-class"}
    [] stage = "revert acl" -> {"no access-class"}
    [] stage = "secret"     -> {"enable secret"}
    [] stage = "aaa"        -> {"aaa new-model", "login list"}
    [] stage = "auth"       -> {"login list"}
    [] stage = "revert aaa" -> {"no login list"}
    [] OTHER                -> {}
SentAt(stage) == {c \in Command : c.verb \in VerbsAt(stage)}
QueueOfStage == queue \in Seq(SentAt(pc))

LEMMA BatchOfStage ==
  ASSUME inventory \in Host \cup {NoHost}, NEW stage
  PROVE  BatchOf(stage) \in Seq(SentAt(stage))
<1>1. \A v \in Verbs : v \in VerbsAt(stage) => Cmd(v) \in SentAt(stage)
  BY DEF Cmd, Command, SentAt
<1>2. stage = "acl" => Permit(inventory) \in SentAt(stage)
  BY DEF Permit, Command, Verbs, SentAt, VerbsAt
<1>3. <<>> \in Seq(SentAt(stage))
  OBVIOUS
<1>4. CASE stage = "acl"
  <2>1. Cmd("deny") \in SentAt(stage)
    BY <1>1, <1>4 DEF Verbs, VerbsAt
  <2>2. /\ <<Permit(inventory)>> \in Seq(SentAt(stage))
        /\ <<Permit(inventory), Cmd("deny")>> \in Seq(SentAt(stage))
    BY <1>2, <1>4, <2>1, OneOf, TwoOf
  <2> QED BY <1>4, <2>2 DEF BatchOf, AclCommands
<1>5. CASE stage = "aaa"
  <2>1. Cmd("aaa new-model") \in SentAt(stage) /\ Cmd("login list") \in SentAt(stage)
    BY <1>1, <1>5 DEF Verbs, VerbsAt
  <2>2. <<Cmd("aaa new-model"), Cmd("login list")>> \in Seq(SentAt(stage))
    BY <2>1, TwoOf
  <2> QED BY <1>5, <2>2 DEF BatchOf
<1>6. ASSUME NEW v \in Verbs, v \in VerbsAt(stage), BatchOf(stage) = <<Cmd(v)>>
      PROVE  BatchOf(stage) \in Seq(SentAt(stage))
  BY <1>1, <1>6, OneOf
<1>7. CASE stage \in {"apply", "revert acl", "secret", "auth", "revert aaa"}
  <2>1. \E v \in Verbs : v \in VerbsAt(stage) /\ BatchOf(stage) = <<Cmd(v)>>
    <3>1. CASE stage = "apply"
      BY <3>1 DEF Verbs, VerbsAt, BatchOf
    <3>2. CASE stage = "revert acl"
      BY <3>2 DEF Verbs, VerbsAt, BatchOf
    <3>3. CASE stage = "secret"
      BY <3>3 DEF Verbs, VerbsAt, BatchOf
    <3>4. CASE stage = "auth"
      BY <3>4 DEF Verbs, VerbsAt, BatchOf
    <3>5. CASE stage = "revert aaa"
      BY <3>5 DEF Verbs, VerbsAt, BatchOf
    <3> QED BY <1>7, <3>1, <3>2, <3>3, <3>4, <3>5
  <2> QED BY <1>6, <2>1
<1>8. CASE stage \notin {"acl", "aaa", "apply", "revert acl", "secret", "auth", "revert aaa"}
  BY <1>3, <1>8 DEF BatchOf
<1> QED BY <1>4, <1>5, <1>7, <1>8

LEMMA QueueInit == Init => QueueOfStage
BY DEF Init, QueueOfStage

LEMMA QueueStep == Typed /\ QueueOfStage /\ [Next]_vars => QueueOfStage'
<1> SUFFICES ASSUME Typed, QueueOfStage, [Next]_vars
             PROVE  QueueOfStage'
  OBVIOUS
<1>1. ASSUME NEW stage, Goes(stage)
      PROVE  QueueOfStage'
  BY <1>1, BatchOfStage DEF Goes, QueueOfStage, Typed, AroundTyped
<1>2. ASSUME NEW o, Ends(o)
      PROVE  QueueOfStage'
  BY <1>2 DEF Ends, QueueOfStage
<1>3. ASSUME NEW s \in {"acl", "aaa", "save"}, StartScript(s)
      PROVE  QueueOfStage'
  <2>1. SentAt("idle") = SentAt("connect")
    BY DEF SentAt, VerbsAt
  <2> QED BY <1>3, <2>1 DEF StartScript, QueueOfStage
<1>4. ASSUME SendCommand
      PROVE  QueueOfStage'
  BY <1>4 DEF SendCommand, QueueOfStage
<1>5. ASSUME BatchSent
      PROVE  QueueOfStage'
  BY <1>1, <1>2, <1>5 DEF BatchSent, AfterBatch
<1>6. ASSUME Connects \/ RoundTrip \/ Verifies \/ VerifyFails
      PROVE  QueueOfStage'
  BY <1>1, <1>2, <1>6 DEF Connects, RoundTrip, Verifies, VerifyFails
<1>7. ASSUME ConnectFails \/ RoundTripFails \/ Dies \/ Save \/ SaveFails
      PROVE  QueueOfStage'
  BY <1>2, <1>7 DEF ConnectFails, RoundTripFails, Dies, Save, SaveFails
<1>8. CASE UNCHANGED process
  BY <1>8 DEF process, QueueOfStage
<1>9. ASSUME Reload \/ EditInventory \/ Move
      PROVE  QueueOfStage'
  BY <1>2, <1>8, <1>9 DEF Reload, EditInventory, Move
<1> QED BY <1>3, <1>4, <1>5, <1>6, <1>7, <1>8, <1>9 DEF Next, Scripting, vars

(* aaa new-model is sent at the stage the round trip opens, and nothing     *)
(* takes the secret back.                                                   *)
SecretInv == SecretFirst /\ (pc = "aaa" => running.secret = "ours")

LEMMA SecretInit == Init => SecretInv
<1> SUFFICES ASSUME Init
             PROVE  SecretInv
  OBVIOUS
<1>1. ~running.newModel /\ startup = running
  BY DEF Init
<1> QED BY <1>1 DEF Init, SecretInv, SecretFirst

LEMMA EffectOnAaa ==
  ASSUME NEW cfg \in Config, NEW c \in Command
  PROVE  /\ Effect(cfg, c).secret \in {cfg.secret, "ours"}
         /\ c.verb # "aaa new-model" => Effect(cfg, c).newModel = cfg.newModel
<1>1. CASE c.verb \in rejects
  BY <1>1 DEF Effect
<1>2. CASE c.verb \notin rejects
  <2>1. c.verb \in Verbs
    BY DEF Command
  <2> QED BY <1>2, <2>1 DEF Effect, Config, Verbs
<1> QED BY <1>1, <1>2

LEMMA SecretStep == Typed /\ QueueOfStage /\ SecretInv /\ [Next]_vars => SecretInv'
<1> SUFFICES ASSUME Typed, QueueOfStage, SecretInv, [Next]_vars
             PROVE  SecretInv'
  OBVIOUS
<1> USE DEF SecretInv, SecretFirst
<1>1. ASSUME SendCommand
      PROVE  SecretInv'
  <2>1. Head(queue) \in SentAt(pc)
    BY <1>1 DEF SendCommand, QueueOfStage
  <2>2. /\ running'.secret \in {running.secret, "ours"}
        /\ Head(queue).verb # "aaa new-model" => running'.newModel = running.newModel
    BY <1>1, <2>1, EffectOnAaa DEF SendCommand, Typed, ConfigsTyped, SentAt
  <2>3. Head(queue).verb = "aaa new-model" => pc = "aaa"
    BY <2>1 DEF SentAt, VerbsAt
  <2> QED BY <1>1, <2>2, <2>3 DEF SendCommand
<1>2. ASSUME UNCHANGED <<running, startup>>, pc' # "aaa"
      PROVE  SecretInv'
  BY <1>2
<1>3. ASSUME Connects \/ ConnectFails \/ RoundTripFails \/ Dies \/ Verifies \/ VerifyFails
      PROVE  SecretInv'
  BY <1>2, <1>3 DEF Connects, ConnectFails, RoundTripFails, Dies, Verifies, VerifyFails,
                    FirstStage, Goes, Ends
<1>4. ASSUME BatchSent
      PROVE  SecretInv'
  <2>1. pc' # "aaa"
    BY <1>4 DEF BatchSent, AfterBatch, Goes, Ends
  <2> QED BY <1>2, <1>4, <2>1 DEF BatchSent
<1>5. ASSUME RoundTrip
      PROVE  SecretInv'
  BY <1>5 DEF RoundTrip, Goes
<1>6. ASSUME Save \/ SaveFails
      PROVE  SecretInv'
  BY <1>6 DEF Save, SaveFails, Ends
<1>7. ASSUME Reload
      PROVE  SecretInv'
  BY <1>7 DEF Reload, Ends, process, Batches
<1>8. ASSUME EditInventory \/ Move \/ UNCHANGED vars
             \/ \E s \in {"acl", "aaa", "save"} : StartScript(s)
      PROVE  SecretInv'
  BY <1>8 DEF EditInventory, Move, StartScript, process, vars
<1> QED BY <1>1, <1>3, <1>4, <1>5, <1>6, <1>7, <1>8 DEF Next, Scripting

(* aaa new-model never runs, and is never saved, with an enable secret the  *)
(* scripts do not hold.                                                     *)
THEOREM SecretBeforeAaa == Spec => []SecretFirst
<1>1. SecretInv => SecretFirst
  BY DEF SecretInv
<1> QED BY <1>1, TypedInit, TypedStep, QueueInit, QueueStep, SecretInit, SecretStep, PTL
        DEF Spec

-----------------------------------------------------------------------------
(* While a push may still have to revert, what it does not touch lets the    *)
(* host in: the login for an ACL push, the list for an AAA push on a Nexus.  *)
LoginWorks ==
  /\ running.newModel => running.login /\ running.secret = "ours"
  /\ running.login => radius # "rejects"
ListPermits == running.applied => Permits(running.acl, here)

AclRun   == pc \in {"acl", "apply", "revert acl"} \/ (pc = "verify" /\ script = "acl")
NexusRun == pc \in {"radius", "auth", "revert aaa"} \/ (pc = "verify" /\ script = "aaa")

NetInv ==
  /\ platform = "nexus" => ~running.newModel /\ ~startup.newModel
  /\ AclRun => LoginWorks
  /\ NexusRun => ListPermits
  /\ pc = "followup" => LetsIn(running, here)
  /\ pc = "revert acl" /\ queue = <<>> => ~running.applied
  /\ pc = "revert aaa" /\ queue = <<>> => ~running.login
  /\ pc # "idle" => outcome = "none"

LEMMA NetInit == Init => NetInv
<1> SUFFICES ASSUME Init
             PROVE  NetInv
  OBVIOUS
<1>1. ~running.newModel /\ ~startup.newModel
  BY DEF Init
<1> QED BY <1>1 DEF Init, NetInv, AclRun, NexusRun

LEMMA LetsInParts == LetsIn(running, here) <=> LoginWorks /\ ListPermits
BY DEF LetsIn, LoginWorks, ListPermits

LEMMA EffectOnLogin ==
  ASSUME NEW cfg \in Config, NEW c \in Command
  PROVE  /\ c.verb \in {"permit", "deny", "access-class", "no access-class"} =>
              /\ Effect(cfg, c).newModel = cfg.newModel
              /\ Effect(cfg, c).login = cfg.login
              /\ Effect(cfg, c).secret = cfg.secret
         /\ c.verb \in {"login list", "no login list"} =>
              /\ Effect(cfg, c).newModel = cfg.newModel
              /\ Effect(cfg, c).applied = cfg.applied
              /\ Effect(cfg, c).acl = cfg.acl
         /\ c.verb = "no access-class" /\ c.verb \notin rejects => ~Effect(cfg, c).applied
         /\ c.verb = "no login list" /\ c.verb \notin rejects => ~Effect(cfg, c).login
<1>1. CASE c.verb \in rejects
  BY <1>1 DEF Effect
<1>2. CASE c.verb \notin rejects
  BY <1>2 DEF Effect, Config
<1> QED BY <1>1, <1>2

(* One command of a batch.                                                  *)
LEMMA NetSends == Typed /\ QueueOfStage /\ NetInv /\ SendCommand => NetInv'
<1> SUFFICES ASSUME Typed, QueueOfStage, NetInv, SendCommand
             PROVE  NetInv'
  OBVIOUS
<1> DEFINE c == Head(queue)
<1>1. /\ c \in Command /\ c.verb \in VerbsAt(pc) /\ running' = Effect(running, c)
      /\ UNCHANGED <<surroundings, startup, operator, script, pc, outcome>>
      /\ running \in Config /\ pc \in Batches
  BY DEF SendCommand, QueueOfStage, SentAt, Typed, ConfigsTyped
<1>2. c.verb \in {"no access-class", "no login list"} => c.verb \notin rejects
  BY RevertsTaken DEF Typed, AroundTyped
<1>3. c.verb # "aaa new-model" => running'.newModel = running.newModel
  BY <1>1, EffectOnAaa
<1>4. platform = "nexus" => c.verb # "aaa new-model"
  BY <1>1 DEF VerbsAt, Typed, StageOfScript
<1>5. (platform = "nexus" => ~running.newModel /\ ~startup.newModel)'
  BY <1>1, <1>3, <1>4 DEF NetInv, surroundings
<1>6. (AclRun => LoginWorks)'
  <2> SUFFICES ASSUME AclRun'
               PROVE  LoginWorks'
    OBVIOUS
  <2>1. AclRun /\ c.verb \in {"permit", "deny", "access-class", "no access-class"}
    BY <1>1 DEF AclRun, VerbsAt, Batches
  <2>2. /\ running'.newModel = running.newModel /\ running'.login = running.login
        /\ running'.secret = running.secret
    BY <1>1, <2>1, EffectOnLogin
  <2> QED BY <1>1, <2>1, <2>2 DEF NetInv, LoginWorks, surroundings
<1>7. (NexusRun => ListPermits)'
  <2> SUFFICES ASSUME NexusRun'
               PROVE  ListPermits'
    OBVIOUS
  <2>1. NexusRun /\ c.verb \in {"login list", "no login list"}
    BY <1>1 DEF NexusRun, VerbsAt, Batches
  <2>2. running'.applied = running.applied /\ running'.acl = running.acl
    BY <1>1, <2>1, EffectOnLogin
  <2> QED BY <1>1, <2>1, <2>2 DEF NetInv, ListPermits, operator
<1>8. (pc = "followup" => LetsIn(running, here))'
  BY <1>1 DEF VerbsAt
<1>9. /\ (pc = "revert acl" /\ queue = <<>> => ~running.applied)'
      /\ (pc = "revert aaa" /\ queue = <<>> => ~running.login)'
  BY <1>1, <1>2, EffectOnLogin DEF VerbsAt
<1>10. (pc # "idle" => outcome = "none")'
  BY <1>1 DEF NetInv
<1> QED BY <1>5, <1>6, <1>7, <1>8, <1>9, <1>10 DEF NetInv

(* A step from one stage to another over the same configurations.           *)
LEMMA NetGoes ==
  ASSUME NetInv, NEW stage, Goes(stage), pc # "idle",
         UNCHANGED <<surroundings, running, startup, operator>>,
         stage \in {"acl", "apply", "revert acl"} \/ (stage = "verify" /\ script = "acl")
           => LoginWorks,
         stage \in {"radius", "auth", "revert aaa"} \/ (stage = "verify" /\ script = "aaa")
           => ListPermits,
         stage = "followup" => LetsIn(running, here)
  PROVE  NetInv'
<1>1. pc' = stage /\ script' = script /\ outcome' = outcome
  BY DEF Goes
<1>2. LoginWorks' = LoginWorks /\ ListPermits' = ListPermits
  BY DEF LoginWorks, ListPermits, surroundings, operator
<1>3. LetsIn(running, here)' = LetsIn(running, here)
  BY DEF LetsIn, surroundings, operator
<1>4. stage \in {"revert acl", "revert aaa"} => queue' # <<>>
  <2>1. queue' = BatchOf(stage)
    BY DEF Goes
  <2>2. BatchOf("revert acl") = <<Cmd("no access-class")>>
    BY DEF BatchOf
  <2>3. BatchOf("revert aaa") = <<Cmd("no login list")>>
    BY DEF BatchOf
  <2>4. \A command : <<command>> # << >>
    OBVIOUS
  <2> QED BY <2>1, <2>2, <2>3, <2>4, Zenon
<1>5. (platform = "nexus" => ~running.newModel /\ ~startup.newModel)'
  BY DEF NetInv, surroundings
<1>6. (AclRun => LoginWorks)' /\ (NexusRun => ListPermits)'
  BY <1>1, <1>2 DEF AclRun, NexusRun
<1> QED BY <1>1, <1>3, <1>4, <1>5, <1>6 DEF NetInv

LEMMA NetEnds ==
  ASSUME NetInv, NEW o, Ends(o), UNCHANGED surroundings,
         running' \in {running, startup}, startup' \in {running, startup}
  PROVE  NetInv'
<1>1. pc' = "idle"
  BY DEF Ends
<1>2. (platform = "nexus" => ~running.newModel /\ ~startup.newModel)'
  BY DEF NetInv, surroundings
<1> QED BY <1>1, <1>2 DEF NetInv, AclRun, NexusRun

LEMMA NetStep == Typed /\ QueueOfStage /\ NetInv /\ [Next]_vars => NetInv'
<1> SUFFICES ASSUME Typed, QueueOfStage, NetInv, [Next]_vars
             PROVE  NetInv'
  OBVIOUS
<1>1. ASSUME NEW s \in {"acl", "aaa", "save"}, StartScript(s)
      PROVE  NetInv'
  BY <1>1 DEF StartScript, NetInv, AclRun, NexusRun, surroundings
<1>2. ASSUME Connects
      PROVE  NetInv'
  <2>1. LoginWorks /\ ListPermits
    BY <1>2, LetsInParts DEF Connects
  <2>2. FirstStage # "followup"
    BY DEF FirstStage
  <2> QED BY <1>2, <2>1, <2>2, NetGoes DEF Connects
<1>3. ASSUME ConnectFails \/ RoundTripFails \/ Dies \/ Save \/ SaveFails
      PROVE  NetInv'
  BY <1>3, NetEnds DEF ConnectFails, RoundTripFails, Dies, Save, SaveFails
<1>4. CASE SendCommand
  BY <1>4, NetSends
<1>5. ASSUME BatchSent
      PROVE  NetInv'
  <2>1. /\ UNCHANGED <<surroundings, running, startup, operator>>
        /\ pc \in Batches /\ pc # "idle"
    BY <1>5 DEF BatchSent, Batches
  <2>2. CASE pc = "acl" /\ Goes("apply")
    BY <2>1, <2>2, NetGoes DEF NetInv, AclRun
  <2>3. CASE pc = "radius" /\ Goes("auth")
    BY <2>1, <2>3, NetGoes DEF NetInv, NexusRun
  <2>4. CASE pc = "secret" /\ Goes("round trip")
    BY <2>1, <2>4, NetGoes
  <2>5. CASE pc \in {"apply", "auth"} /\ Goes("verify")
    <3>1. /\ pc = "apply" => script = "acl"
          /\ pc = "auth" => script = "aaa"
      BY DEF Typed, StageOfScript
    <3> QED BY <2>1, <2>5, <3>1, NetGoes DEF NetInv, AclRun, NexusRun
  <2>6. CASE \E o : Ends(o)
    BY <2>1, <2>6, NetEnds
  <2> QED BY <1>5, <2>2, <2>3, <2>4, <2>5, <2>6 DEF BatchSent, AfterBatch
<1>6. ASSUME RoundTrip
      PROVE  NetInv'
  BY <1>6, NetGoes DEF RoundTrip
<1>7. ASSUME Verifies
      PROVE  NetInv'
  <2>1. CASE script = "acl"
    BY <1>7, <2>1, NetEnds DEF Verifies
  <2>2. CASE script # "acl"
    BY <1>7, <2>2, NetGoes DEF Verifies
  <2> QED BY <2>1, <2>2
<1>8. ASSUME VerifyFails
      PROVE  NetInv'
  <2>1. CASE script = "acl"
    BY <1>8, <2>1, NetGoes DEF VerifyFails, NetInv, AclRun
  <2>2. CASE script # "acl"
    <3>1. script = "aaa"
      BY <1>8, <2>2 DEF VerifyFails, Typed, StageOfScript
    <3> QED BY <1>8, <2>2, <3>1, NetGoes DEF VerifyFails, NetInv, NexusRun
  <2> QED BY <2>1, <2>2
<1>9. ASSUME Reload
      PROVE  NetInv'
  <2>1. CASE Ends("died")
    BY <1>9, <2>1, NetEnds DEF Reload
  <2>2. CASE UNCHANGED process /\ pc \notin Batches \cup Checks
    BY <1>9, <2>2 DEF Reload, NetInv, AclRun, NexusRun, process, Batches, Checks, surroundings
  <2> QED BY <1>9, <2>1, <2>2 DEF Reload
<1>10. ASSUME EditInventory \/ Move
       PROVE  NetInv'
  BY <1>10 DEF EditInventory, Move, NetInv, AclRun, NexusRun, process, surroundings
<1>11. CASE UNCHANGED vars
  <2>1. LoginWorks' = LoginWorks /\ ListPermits' = ListPermits
    BY <1>11 DEF LoginWorks, ListPermits, vars, surroundings, operator
  <2>2. LetsIn(running, here)' = LetsIn(running, here)
    BY <1>11 DEF LetsIn, vars, surroundings, operator
  <2> QED BY <1>11, <2>1, <2>2 DEF NetInv, AclRun, NexusRun, vars, process, surroundings
<1> QED BY <1>1, <1>2, <1>3, <1>4, <1>5, <1>6, <1>7, <1>8, <1>9, <1>10, <1>11
        DEF Next, Scripting

(* The step that reports a check, passed or failed.                         *)
LEMMA NetReports ==
  ASSUME Typed, NetInv, [Next]_vars, pc # "idle", outcome' \in {"verified", "reverted"}
  PROVE  LetsIn(running', here)
<1>1. outcome = "none"
  BY DEF NetInv
<1>2. ASSUME NEW o, o \notin {"verified", "reverted"}, Ends(o)
      PROVE  FALSE
  BY <1>2 DEF Ends
<1>3. ASSUME outcome' = outcome
      PROVE  FALSE
  BY <1>1, <1>3
<1>4. ASSUME NEW stage, Goes(stage)
      PROVE  FALSE
  BY <1>3, <1>4 DEF Goes
<1>5. CASE BatchSent
  <2>1. running' = running /\ queue = <<>> /\ pc \in Batches
    BY <1>5 DEF BatchSent
  <2>2. CASE pc = "followup"
    BY <2>1, <2>2 DEF NetInv
  <2>3. CASE pc = "revert acl"
    BY <2>1, <2>3, LetsInParts DEF NetInv, AclRun, ListPermits
  <2>4. CASE pc = "revert aaa"
    <3>1. ~running.login /\ ~running.newModel /\ ListPermits
      BY <2>1, <2>4 DEF NetInv, NexusRun, Typed, StageOfScript
    <3> QED BY <2>1, <3>1, LetsInParts DEF LoginWorks
  <2>5. pc \in {"followup", "revert acl", "revert aaa"}
    <3>1. AfterBatch
      BY <1>5 DEF BatchSent
    <3> QED BY <1>2, <1>4, <2>1, <3>1 DEF AfterBatch, Batches
  <2> QED BY <2>2, <2>3, <2>4, <2>5
<1>6. CASE Verifies
  BY <1>6 DEF Verifies
<1>7. CASE Connects \/ RoundTrip \/ VerifyFails
  BY <1>4, <1>7 DEF Connects, RoundTrip, VerifyFails
<1>8. CASE ConnectFails \/ RoundTripFails \/ Dies \/ Save \/ SaveFails
  BY <1>2, <1>8 DEF ConnectFails, RoundTripFails, Dies, Save, SaveFails
<1>9. CASE SendCommand \/ EditInventory \/ Move \/ UNCHANGED vars
  BY <1>3, <1>9 DEF SendCommand, EditInventory, Move, vars, process
<1>10. CASE Reload
  BY <1>2, <1>3, <1>10 DEF Reload, process
<1>11. ASSUME NEW s \in {"acl", "aaa", "save"}, StartScript(s)
       PROVE  FALSE
  BY <1>11 DEF StartScript
<1> QED BY <1>5, <1>6, <1>7, <1>8, <1>9, <1>10, <1>11 DEF Next, Scripting

(* A push that reports its check, passed or failed, leaves the host it ran   *)
(* from a way to log in.                                                    *)
THEOREM ReportsAWayIn == Spec => SafetyNetHolds
<1>1. Typed /\ NetInv /\ [Next]_vars =>
        [pc # "idle" /\ outcome' \in {"verified", "reverted"} => LetsIn(running', here)]_vars
  BY NetReports
<1> QED BY <1>1, TypedInit, TypedStep, QueueInit, QueueStep, NetInit, NetStep, PTL
        DEF Spec, SafetyNetHolds
-----------------------------------------------------------------------------
(* A list is never applied before it has an entry, unless the image takes no *)
(* entry at all - and then no later push can give it one.  That is what      *)
(* keeps the first entry of a list from shutting anybody out.               *)
ListVerbs == IF platform = "nexus" THEN {"permit"} ELSE {"permit", "deny"}
Deaf == ListVerbs \subseteq rejects
Heard(q) == \E i \in DOMAIN q : q[i].verb \notin rejects
ListInv ==
  /\ pc = "acl" => /\ \A i \in DOMAIN queue : queue[i].verb \in ListVerbs
                   /\ running.acl # <<>> \/ Deaf \/ Heard(queue)
  /\ pc = "apply" => running.acl # <<>> \/ Deaf
  /\ \A cfg \in {running, startup} : cfg.applied /\ cfg.acl = <<>> => Deaf

LEMMA ListInit == Init => ListInv
BY DEF Init, ListInv

(* The batch that makes the list.                                           *)
LEMMA ListBatch ==
  LET q == BatchOf("acl")
  IN  (\A i \in DOMAIN q : q[i].verb \in ListVerbs) /\ (Deaf \/ Heard(q))
<1> DEFINE q == BatchOf("acl")
<1>1. q = AclCommands
  BY DEF BatchOf
<1>2. CASE platform = "nexus"
  <2>1. q = <<Permit(inventory)>>
    BY <1>1, <1>2 DEF AclCommands
  <2>2. DOMAIN q = {1} /\ q[1].verb = "permit"
    BY <2>1 DEF Permit
  <2> QED BY <1>2, <2>2 DEF ListVerbs, Deaf, Heard
<1>3. CASE platform # "nexus"
  <2>1. q = <<Permit(inventory), Cmd("deny")>>
    BY <1>1, <1>3 DEF AclCommands
  <2>2. DOMAIN q = {1, 2} /\ q[1].verb = "permit" /\ q[2].verb = "deny"
    BY <2>1 DEF Permit, Cmd
  <2> QED BY <1>3, <2>2 DEF ListVerbs, Deaf, Heard
<1> QED BY <1>2, <1>3

(* An entry goes to the end, so who was permitted stays so.                 *)
LEMMA EntryKeeps ==
  ASSUME NEW acl \in Seq(Host \cup {Deny}), NEW e \in Host \cup {Deny}, acl # <<>>,
         NEW h, Permits(acl, h)
  PROVE  WithEntry(acl, e) # <<>> /\ Permits(WithEntry(acl, e), h)
<1>1. CASE WithEntry(acl, e) = acl
  BY <1>1
<1>2. CASE WithEntry(acl, e) = Append(acl, e)
  <2>1. PICK i \in DOMAIN acl : acl[i] = h /\ \A j \in 1..(i - 1) : acl[j] # Deny
    BY DEF Permits
  <2>2. \A j \in DOMAIN acl : j \in DOMAIN Append(acl, e) /\ Append(acl, e)[j] = acl[j]
    OBVIOUS
  <2>3. \A j \in 1..(i - 1) : Append(acl, e)[j] # Deny
    BY <2>1, <2>2
  <2> QED BY <1>2, <2>1, <2>2, <2>3 DEF Permits
<1> QED BY <1>1, <1>2 DEF WithEntry

LEMMA EntryMade ==
  ASSUME NEW acl \in Seq(Host \cup {Deny}), NEW e
  PROVE  WithEntry(acl, e) # <<>>
<1>1. CASE WithEntry(acl, e) = Append(acl, e)
  BY <1>1
<1>2. CASE \E i \in DOMAIN acl : acl[i] = e
  <2>1. acl # <<>>
    BY <1>2
  <2> QED BY <1>2, <2>1 DEF WithEntry
<1> QED BY <1>1, <1>2 DEF WithEntry

(* What one command does to the list and to its use.                        *)
LEMMA EffectOnList ==
  ASSUME NEW cfg \in Config, NEW c \in Sendable
  PROVE  /\ c.verb \notin {"permit", "deny"} => Effect(cfg, c).acl = cfg.acl
         /\ c.verb # "access-class" /\ Effect(cfg, c).applied => cfg.applied
         /\ c.verb \in rejects => Effect(cfg, c) = cfg
         /\ c.verb \in {"permit", "deny"} /\ c.verb \notin rejects =>
              \E e \in Host \cup {Deny} :
                 Effect(cfg, c) = [cfg EXCEPT !.acl = WithEntry(@, e)]
<1>1. c.verb \in Verbs /\ (c.verb = "permit" => c.host \in Host)
  BY DEF Sendable, Command
<1>2. CASE c.verb \in rejects
  BY <1>2 DEF Effect
<1>3. CASE c.verb \notin rejects
  BY <1>1, <1>3 DEF Effect, Config, Verbs
<1> QED BY <1>2, <1>3

(* One command of a batch.                                                  *)
LEMMA ListSends ==
  ASSUME Typed, QueueOfStage, ListInv, SendCommand
  PROVE  /\ ListInv'
         /\ pc = "acl" => \A h \in Host : LetsIn(running, h) => LetsIn(running', h)
<1> DEFINE c == Head(queue)
<1>1. /\ c \in Sendable /\ c.verb \in VerbsAt(pc) /\ running' = Effect(running, c)
      /\ UNCHANGED <<surroundings, startup, pc>> /\ running \in Config
      /\ queue \in Seq(Sendable) /\ queue # <<>> /\ queue' = Tail(queue) /\ pc \in Batches
  BY DEF SendCommand, QueueOfStage, SentAt, Typed, ConfigsTyped, ProcessTyped
<1>2. ListVerbs' = ListVerbs /\ (Deaf <=> Deaf') /\ platform' = platform /\ rejects' = rejects
      /\ radius' = radius
  BY <1>1 DEF ListVerbs, Deaf, surroundings
<1>3. CASE pc = "acl"
  <2>1. c = queue[1] /\ 1 \in DOMAIN queue
    BY <1>1
  <2>2. c.verb \in ListVerbs /\ c.verb \in {"permit", "deny"}
    BY <1>1, <1>3, <2>1 DEF ListInv, VerbsAt
  <2>3. \A i \in DOMAIN Tail(queue) :
          i + 1 \in DOMAIN queue /\ Tail(queue)[i] = queue[i + 1]
    BY <1>1
  <2>4. \A i \in DOMAIN queue' : queue'[i].verb \in ListVerbs'
    BY <1>1, <1>2, <1>3, <2>3 DEF ListInv
  <2>5. CASE c.verb \in rejects
    <3>1. running' = running
      BY <1>1, <2>5, EffectOnList
    <3>2. Heard(queue) => Heard(queue)'
      <4> SUFFICES ASSUME NEW i \in DOMAIN queue, queue[i].verb \notin rejects
                   PROVE  Heard(queue)'
        BY DEF Heard
      <4>1. i # 1 /\ i - 1 \in DOMAIN Tail(queue) /\ Tail(queue)[i - 1] = queue[i]
        BY <1>1, <2>1, <2>5
      <4> QED BY <1>1, <1>2, <4>1 DEF Heard
    <3>3. ListInv'
      BY <1>1, <1>2, <1>3, <2>4, <3>1, <3>2 DEF ListInv
    <3>4. \A h \in Host : LetsIn(running, h) => LetsIn(running', h)
      BY <3>1
    <3> QED BY <3>3, <3>4
  <2>6. CASE c.verb \notin rejects
    <3>1. PICK e \in Host \cup {Deny} : running' = [running EXCEPT !.acl = WithEntry(@, e)]
      BY <1>1, <2>2, <2>6, EffectOnList
    <3>2. ~Deaf
      BY <2>2, <2>6 DEF Deaf
    <3>3. /\ running'.acl = WithEntry(running.acl, e) /\ running'.applied = running.applied
          /\ running'.newModel = running.newModel /\ running'.login = running.login
          /\ running'.secret = running.secret
          /\ running.acl \in Seq(Host \cup {Deny})
      BY <1>1, <3>1 DEF Config
    <3>4. running'.acl # <<>>
      BY <3>3, EntryMade
    <3>5. ListInv'
      BY <1>1, <1>2, <1>3, <2>4, <3>4 DEF ListInv
    <3>6. running.applied => running.acl # <<>>
      BY <3>2 DEF ListInv
    <3>7. ASSUME NEW h \in Host, LetsIn(running, h)
          PROVE  LetsIn(running', h)
      <4>1. running'.applied => Permits(running'.acl, h)
        BY <3>3, <3>6, <3>7, EntryKeeps DEF LetsIn
      <4> QED BY <3>3, <3>7, <4>1 DEF LetsIn
    <3> QED BY <3>5, <3>7
  <2> QED BY <2>5, <2>6
<1>4. CASE pc = "apply"
  <2>1. running'.acl = running.acl
    BY <1>1, <1>4, EffectOnList DEF VerbsAt
  <2>2. ListInv'
    BY <1>1, <1>2, <1>4, <2>1 DEF ListInv
  <2> QED BY <1>4, <2>2
<1>5. CASE pc \notin {"acl", "apply"}
  <2>1. c.verb \notin {"permit", "deny", "access-class"}
    BY <1>1, <1>5 DEF VerbsAt, Batches
  <2>2. running'.acl = running.acl /\ (running'.applied => running.applied)
    BY <1>1, <2>1, EffectOnList
  <2>3. ListInv'
    BY <1>1, <1>2, <1>5, <2>2 DEF ListInv
  <2> QED BY <1>5, <2>3
<1> QED BY <1>3, <1>4, <1>5

(* A step over configurations the device had already.                       *)
LEMMA ListKeeps ==
  ASSUME ListInv, UNCHANGED surroundings,
         running' \in {running, startup}, startup' \in {running, startup},
         pc' = "acl" => queue' = BatchOf("acl"),
         pc' = "apply" => pc = "acl" /\ queue = <<>> /\ running' = running
  PROVE  ListInv'
<1>1. ListVerbs' = ListVerbs /\ (Deaf <=> Deaf')
  BY DEF ListVerbs, Deaf, surroundings
<1>2. pc' = "acl" => (/\ \A i \in DOMAIN queue : queue[i].verb \in ListVerbs
                      /\ Deaf \/ Heard(queue))'
  BY <1>1, ListBatch DEF Heard, surroundings
<1>3. pc' = "apply" => running'.acl # <<>> \/ Deaf'
  BY <1>1 DEF ListInv, Heard
<1>4. \A cfg \in {running', startup'} : cfg.applied /\ cfg.acl = <<>> => Deaf'
  BY <1>1 DEF ListInv
<1> QED BY <1>2, <1>3, <1>4 DEF ListInv

LEMMA ListStep ==
  ASSUME Typed, QueueOfStage, ListInv, [Next]_vars
  PROVE  /\ ListInv'
         /\ pc = "acl" /\ pc' # "idle" =>
              \A h \in Host : LetsIn(running, h) => LetsIn(running', h)
<1>1. ASSUME UNCHANGED <<surroundings, running>>
      PROVE  \A h \in Host : LetsIn(running, h) => LetsIn(running', h)
  BY <1>1 DEF LetsIn, surroundings
<1>2. CASE SendCommand
  BY <1>2, ListSends
<1>3. CASE Connects \/ ConnectFails \/ RoundTrip \/ RoundTripFails \/ Verifies \/ VerifyFails
             \/ Dies
  <2>1. UNCHANGED <<surroundings, running, startup>> /\ pc' # "apply"
    BY <1>3 DEF Connects, ConnectFails, RoundTrip, RoundTripFails, Verifies, VerifyFails, Dies,
                Goes, Ends, FirstStage
  <2>2. pc' = "acl" => queue' = BatchOf("acl")
    BY <1>3 DEF Connects, ConnectFails, RoundTrip, RoundTripFails, Verifies, VerifyFails, Dies,
                Goes, Ends
  <2> QED BY <1>1, <2>1, <2>2, ListKeeps
<1>4. CASE BatchSent
  <2>1. UNCHANGED <<surroundings, running, startup>> /\ pc' # "acl" /\ queue = <<>>
    BY <1>4 DEF BatchSent, AfterBatch, Goes, Ends
  <2>2. pc' = "apply" => pc = "acl"
    BY <1>4 DEF BatchSent, AfterBatch, Goes, Ends
  <2> QED BY <1>1, <2>1, <2>2, ListKeeps
<1>5. CASE Save \/ SaveFails
  <2>1. UNCHANGED <<surroundings, running>> /\ pc' = "idle" /\ startup' \in {running, startup}
    BY <1>5 DEF Save, SaveFails, Ends
  <2> QED BY <2>1, ListKeeps
<1>6. CASE Reload
  <2>1. UNCHANGED <<surroundings, startup>> /\ running' = startup
    BY <1>6 DEF Reload
  <2>2. pc \in Batches \cup Checks => pc' = "idle"
    BY <1>6 DEF Reload, Ends
  <2>3. pc' \notin {"acl", "apply"}
    BY <1>6, <2>2 DEF Reload, process, Batches
  <2>4. pc = "acl" => pc' = "idle"
    BY <2>2 DEF Batches
  <2> QED BY <2>1, <2>3, <2>4, ListKeeps
<1>7. CASE EditInventory \/ Move \/ \E s \in {"acl", "aaa", "save"} : StartScript(s)
  <2>1. UNCHANGED <<surroundings, running, startup>> /\ pc' \in {"idle", "connect"}
    BY <1>7 DEF EditInventory, Move, StartScript, process
  <2> QED BY <1>1, <2>1, ListKeeps
<1>8. CASE UNCHANGED vars
  <2>1. ListInv'
    BY <1>8 DEF vars, surroundings, process, ListInv, ListVerbs, Deaf, Heard
  <2> QED BY <1>1, <1>8, <2>1 DEF vars
<1> QED BY <1>2, <1>3, <1>4, <1>5, <1>6, <1>7, <1>8 DEF Next, Scripting

(* The batch that makes the management list shuts nobody out, wherever an    *)
(* earlier push had the list applied already.                               *)
THEOREM CreatingIsHarmless == Spec => CreatingShutsNobodyOut
<1>1. Typed /\ QueueOfStage /\ ListInv /\ [Next]_vars => ListInv'
  BY ListStep
<1>2. Typed /\ QueueOfStage /\ ListInv /\ [Next]_vars =>
        [pc = "acl" /\ pc' # "idle" =>
           \A h \in Host : LetsIn(running, h) => LetsIn(running', h)]_vars
  BY ListStep
<1> QED BY <1>1, <1>2, TypedInit, TypedStep, QueueInit, QueueStep, ListInit, PTL
        DEF Spec, CreatingShutsNobodyOut
=============================================================================
