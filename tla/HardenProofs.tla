---------------------------- MODULE HardenProofs ----------------------------
(***************************************************************************)
(* Proofs about Harden for any devices, images, banners and line counts:    *)
(* its types, that no step shuts a line somebody needs, and that a row's    *)
(* claim about SSH is true, whatever is read late or out of step.           *)
(***************************************************************************)
EXTENDS Harden, ConsoleProofs

(* The types: a token is a greeting, an echo, a prompt or what the switch   *)
(* says of a command.                                                       *)
Said == {"echo", "complaint", "error", "vty", "version-2", "version-1.99", "ssh2", "mac", "enc"}
Tokens == Greetings \cup {Token("config", NoCommand)} \cup [kind : Said, of : Commands]
Stages == {"connect", "again", "connected", "poll", "restore", "ready", "identify", "ask-vty",
           "read-vty", "push", "pushed", "ask-ssh", "read-ssh", "ask-ip-ssh", "read-ip-ssh",
           "done"}

Typed ==
  /\ ConsoleTyped(Commands, Tokens)
  /\ TypeOK
  /\ status \in Seq(Tokens)
  /\ pc \in Stages

(* Where a visit stands: nothing is sent or written down before it begins.  *)
Dialling == {"connect", "again"}
Reading  == {"connected", "poll", "restore", "ready", "identify", "ask-vty", "read-vty"}
Pushing  == {"push", "pushed"}
Checking == {"ask-ssh", "read-ssh", "ask-ip-ssh", "read-ip-ssh"}

OnlyShows(s) == \A i \in DOMAIN s : s[i] \in Shows \cup {Nudge}

VisitShape ==
  /\ pc # "done" => row = NoRow
  /\ pc \in Dialling =>
       /\ inbox = <<>> /\ wire = <<>> /\ held = <<>> /\ screen = Blank /\ poll = 0
       /\ push = <<>> /\ status = <<>>
  /\ pc \in Dialling \cup Reading => complaints = <<>> /\ rejected = <<>> /\ readOk = FALSE
  /\ pc \in Reading => mode = "exec" /\ OnlyShows(inbox)
  /\ pc \in {"connected", "poll", "restore", "ready", "identify"} \cup Checking => push = <<>>
  /\ pc \in {"poll", "restore"} => sync = FALSE
  /\ pc \notin {"poll", "restore"} => sync = TRUE
  /\ pc \in {"ask-vty", "read-vty"} => withVty

(* What the way back in rests on: `transport input none' is only ever on    *)
(* its way right behind the range it is meant for, which ends where the      *)
(* script thinks the lines do, or at a switch whose range is already that   *)
(* one - as long as the switch has room for that many lines.                *)
Shut(c) == c # Nudge /\ c.verb = "transport-input-none"
Narrows(c, top) == c # Nudge /\ c.verb = "line-vty" /\ c.lo = Sessions /\ c.hi <= top
Counted == highest <= MostVty[device]
Narrowed == Counted /\ mode = "line" => \A l \in range : l >= Sessions

Guarded(s, top) == \A i \in 2..Len(s) : Shut(s[i]) => Narrows(s[i - 1], top)
HeadGuarded(s) == s # <<>> => (Shut(s[1]) => Narrowed)

ShutGuarded ==
  /\ Guarded(inbox, highest) /\ Guarded(push, highest)
  /\ inbox # <<>> /\ push # <<>> => (Shut(push[1]) => Narrows(inbox[Len(inbox)], highest))
  /\ HeadGuarded(inbox)
  /\ inbox = <<>> => HeadGuarded(push)
  /\ pc \in Reading => highest = 0 /\ \A i \in DOMAIN push : ~Shut(push[i])
  /\ device \notin Switches => mode = "exec"

(* What the SSH claim rests on: whatever the switch was heard to say of its *)
(* SSH is so, of the lines that took effect.                                *)
Tells(t, took) ==
  /\ t.kind \in {"version-2", "ssh2"} => Ssh2 \in took
  /\ t.kind = "mac" => Mac \in took
  /\ t.kind = "enc" => Enc \in took
Told(s, took) == \A i \in DOMAIN s : Tells(s[i], took)
ToldTrue == Told(wire, crypto) /\ Told(held, crypto) /\ Told(status, crypto)

-----------------------------------------------------------------------------
(* Types. *)

SwitchTyped ==
  /\ mode \in {"exec", "config", "archive", "log", "line"}
  /\ range \subseteq Nat
  /\ transport \in [0..HighestVty[device] -> {"all", "ssh", "none"}]
  /\ crypto \subseteq {Ssh2, Mac, Enc}
NotesTyped ==
  /\ highest \in Nat
  /\ push \in Seq(Commands) /\ current \in Commands
  /\ rejected \in Seq(Commands \X Commands)
  /\ complaints \in Seq(Commands)
  /\ row \in [outcome : {"none", "hardened", "hardened-vty-skipped"}, rejecting : BOOLEAN,
              note : {"none", "closed"}, rejections : Seq(Commands \X Commands),
              ssh : {"none", "complete", "incomplete", "not-read"}]
  /\ status \in Seq(Tokens)
AnswersKnown == withVty \in BOOLEAN /\ readOk \in BOOLEAN

LEMMA TypedParts ==
  Typed <=> /\ ConsoleTyped(Commands, Tokens) /\ SwitchTyped /\ NotesTyped /\ AnswersKnown
            /\ pc \in Stages
BY Zenon DEF Typed, TypeOK, SwitchTyped, NotesTyped, AnswersKnown

LEMMA TypedPartsNext ==
  ASSUME ConsoleTyped(Commands, Tokens)', SwitchTyped', NotesTyped', AnswersKnown', pc' \in Stages
  PROVE  Typed'
BY Zenon DEF Typed, TypeOK, SwitchTyped, NotesTyped, AnswersKnown

LEMMA SwitchStays == ASSUME SwitchTyped, UNCHANGED switch, device' = device
                     PROVE  SwitchTyped'
BY DEF SwitchTyped, switch

LEMMA AnswersStay == ASSUME AnswersKnown, withVty' = withVty, readOk' = readOk
                     PROVE  AnswersKnown'
BY Zenon DEF AnswersKnown

LEMMA NotesStay == ASSUME NotesTyped, AnswersKnown, UNCHANGED <<notes, complaints>>
                   PROVE  NotesTyped' /\ AnswersKnown'
BY Zenon DEF NotesTyped, AnswersKnown, notes

(* The commands. *)
LEMMA CmdTyped == \A v \in Verbs : Cmd(v) \in Commands
BY DEF Cmd, Commands

LEMMA VerbsKnown ==
  /\ {"configure-terminal", "end", "line-vty", "session-limit", "exec-timeout",
      "transport-input-ssh", "transport-input-none"} \subseteq Verbs
  /\ \A c \in Shows : c.verb \in Verbs
<1>1. BaseCommands[13].verb = "exec-timeout" /\ 13 \in DOMAIN BaseCommands
  BY DEF BaseCommands, Cmd
<1> QED BY <1>1 DEF Verbs

LEMMA ShowsTyped == Shows \subseteq Commands
<1>1. \A c \in Shows : c = Cmd(c.verb)
  BY DEF Shows, PagingOff, ShowVty, ShowSsh, ShowIpSsh, Cmd
<1> QED BY <1>1, VerbsKnown, CmdTyped

LEMMA LineVtyTyped == \A lo \in Nat, hi \in Nat : LineVty(lo, hi) \in Commands
BY VerbsKnown DEF LineVty, Commands

LEMMA BaseTyped == BaseCommands \in Seq(Commands)
<1> DEFINE V == {"logging-buffered", "login-block-for", "ip-ssh-version-2",
                 "ip-ssh-server-algorithm-mac", "ip-ssh-server-algorithm-encryption",
                 "no-service", "archive", "log-config", "logging-enable", "exit",
                 "line-con-0", "exec-timeout"}
           S == {Cmd(v) : v \in V}
<1>0. \A v \in V : Cmd(v) \in S
  BY Zenon
<1>1. BaseCommands \in Seq(S)
  <2>1. /\ Cmd("logging-buffered") \in S /\ Cmd("login-block-for") \in S /\ Ssh2 \in S
        /\ Mac \in S /\ Enc \in S /\ Cmd("no-service") \in S /\ Cmd("archive") \in S
        /\ Cmd("log-config") \in S /\ Cmd("logging-enable") \in S /\ Cmd("exit") \in S
        /\ Cmd("line-con-0") \in S /\ Cmd("exec-timeout") \in S
    <3> HIDE DEF S
    <3> QED BY <1>0 DEF Ssh2, Mac, Enc
  <2> HIDE DEF S, Cmd, Ssh2, Mac, Enc
  <2> QED BY <2>1 DEF BaseCommands
<1>2. ASSUME NEW i \in 1..Len(BaseCommands)
      PROVE  BaseCommands[i] \in Commands
  <2>1. BaseCommands[i].verb \in Verbs
    BY <1>1 DEF Verbs
  <2>2. BaseCommands[i] \in S
    <3> HIDE DEF S
    <3> QED BY <1>1, ElementOfSeq
  <2>3. PICK v \in V : BaseCommands[i] = Cmd(v)
    BY <2>2, Zenon
  <2>4. BaseCommands[i].verb = v
    BY <2>3 DEF Cmd
  <2>5. v \in Verbs
    BY <2>1, <2>4, Zenon
  <2>6. Cmd(v) \in Commands
    BY <2>5, CmdTyped
  <2> QED BY <2>3, <2>6
<1>3. \A i \in 1..Len(BaseCommands) : BaseCommands[i] \in Commands
  BY <1>2
<1> HIDE DEF S
<1> QED BY <1>1, <1>3

LEMMA FixesTyped == \A h \in Nat : VtyFixes(h) \in Seq(Commands)
<1>1. ASSUME NEW h \in Nat
      PROVE  VtyFixes(h) \in Seq(Commands)
  <2>1. Sessions - 1 \in Nat /\ Sessions \in Nat
    BY SessionsNat
  <2>2. /\ LineVty(0, h) \in Commands /\ LineVty(0, Sessions - 1) \in Commands
        /\ LineVty(Sessions, h) \in Commands
    BY <2>1, LineVtyTyped
  <2>3. /\ Cmd("session-limit") \in Commands /\ Cmd("exec-timeout") \in Commands
        /\ Cmd("transport-input-ssh") \in Commands /\ Cmd("transport-input-none") \in Commands
    BY VerbsKnown, CmdTyped
  <2> HIDE DEF LineVty, Cmd
  <2> QED BY <2>2, <2>3 DEF VtyFixes
<1> QED BY <1>1

LEMMA EndTyped ==
  /\ <<Cmd("end")>> \in Seq(Commands)
  /\ <<Cmd("configure-terminal")>> \o BaseCommands \o <<Cmd("end")>> \in Seq(Commands)
<1>1. Cmd("end") \in Commands /\ Cmd("configure-terminal") \in Commands
  BY VerbsKnown, CmdTyped
<1>2. <<Cmd("configure-terminal")>> \in Seq(Commands) /\ <<Cmd("end")>> \in Seq(Commands)
  BY <1>1
<1> QED BY <1>2, BaseTyped, ConcatProperties

LEMMA GreetingsTyped == Greetings \subseteq Tokens
BY DEF Tokens

LEMMA PromptInTyped == ASSUME device \in Device, NEW m
                       PROVE  <<PromptIn(m)>> \in Seq(Tokens)
<1>1. Prompt(device) \in Tokens
  BY GreetingTokens, GreetingsTyped
<1>2. Token("config", NoCommand) \in Tokens
  BY DEF Tokens
<1>3. PromptIn(m) \in Tokens
  BY <1>1, <1>2 DEF PromptIn
<1> QED BY <1>3

(* What a switch prints before its prompt.                                  *)
Printed(c) == Says(IF Accepted(c) THEN Shown(c) ELSE <<"error">>, c)

LEMMA ShowsDiffer ==
  /\ ShowVty # ShowSsh /\ ShowVty # ShowIpSsh /\ ShowSsh # ShowIpSsh
  /\ PagingOff \notin {ShowVty, ShowSsh, ShowIpSsh}
BY DEF PagingOff, ShowVty, ShowSsh, ShowIpSsh, Cmd

(* The kinds of line a show command may print, as far as they are so.       *)
TrueKinds ==
  {k \in {"vty", "version-2", "version-1.99", "ssh2", "mac", "enc"} :
     /\ k \in {"version-2", "ssh2"} => Ssh2 \in crypto
     /\ k = "mac" => Mac \in crypto
     /\ k = "enc" => Enc \in crypto}

LEMMA ShownTyped ==
  ASSUME NEW c
  PROVE  Shown(c) \in Seq(TrueKinds)
<1>1. <<>> \in Seq(TrueKinds)
  OBVIOUS
<1>2. \A s, t \in Seq(TrueKinds) : s \o t \in Seq(TrueKinds)
  BY ConcatProperties
<1>3. \A k \in TrueKinds : <<k>> \in Seq(TrueKinds)
  OBVIOUS
<1>4. CASE c = ShowVty
  <2>1. Shown(c) = <<"vty">>
    BY <1>4, ShowsDiffer DEF Shown
  <2>2. "vty" \in TrueKinds
    BY DEF TrueKinds
  <2> QED BY <1>3, <2>1, <2>2
<1>5. CASE c # ShowVty /\ c = ShowSsh
  <2>1. Shown(c) = IF Ssh2 \in crypto THEN <<"version-2">> ELSE <<"version-1.99">>
    BY <1>5, ShowsDiffer DEF Shown
  <2>2. /\ Ssh2 \in crypto => "version-2" \in TrueKinds
        /\ "version-1.99" \in TrueKinds
    BY DEF TrueKinds
  <2> QED BY <1>3, <2>1, <2>2, Zenon
<1>6. CASE c # ShowVty /\ c # ShowSsh /\ c = ShowIpSsh
  <2> DEFINE a == IF Ssh2 \in crypto /\ device \in Renders THEN <<"ssh2">> ELSE <<>>
             b == IF Mac \in crypto THEN <<"mac">> ELSE <<>>
             d == IF Enc \in crypto THEN <<"enc">> ELSE <<>>
  <2>1. /\ Ssh2 \in crypto => "ssh2" \in TrueKinds
        /\ Mac \in crypto => "mac" \in TrueKinds
        /\ Enc \in crypto => "enc" \in TrueKinds
    BY DEF TrueKinds
  <2>2. a \in Seq(TrueKinds) /\ b \in Seq(TrueKinds) /\ d \in Seq(TrueKinds)
    BY <1>1, <1>3, <2>1, Zenon
  <2>3. a \o b \o d \in Seq(TrueKinds)
    <3> HIDE DEF a, b, d
    <3> QED BY <1>2, <2>2
  <2>4. Shown(c) = a \o b \o d
    BY <1>6, ShowsDiffer, Zenon DEF Shown
  <2> QED BY <2>3, <2>4
<1>7. CASE c # ShowVty /\ c # ShowSsh /\ c # ShowIpSsh
  BY <1>1, <1>7, Zenon DEF Shown
<1> QED BY <1>4, <1>5, <1>6, <1>7

LEMMA PrintedTyped ==
  ASSUME NEW c \in Commands
  PROVE  /\ Printed(c) \in Seq(Tokens)
         /\ \A i \in DOMAIN Printed(c) :
              Printed(c)[i].of = c /\ Printed(c)[i].kind \in TrueKinds \cup {"error"}
         /\ Accepted(c) => \A i \in DOMAIN Printed(c) : Printed(c)[i].kind \in TrueKinds
         /\ ~Accepted(c) => Printed(c) = <<Token("error", c)>>
<1>1. ASSUME NEW K, K \subseteq Said, NEW ks \in Seq(K)
      PROVE  /\ Says(ks, c) \in Seq(Tokens)
             /\ \A i \in DOMAIN Says(ks, c) : Says(ks, c)[i].of = c /\ Says(ks, c)[i].kind \in K
  <2>1. \A i \in 1..Len(ks) : Token(ks[i], c) \in Tokens
    BY <1>1 DEF Token, Tokens
  <2>2. DOMAIN ks = 1..Len(ks) /\ Len(ks) \in Nat /\ \A i \in 1..Len(ks) : ks[i] \in K
    OBVIOUS
  <2>3. Says(ks, c) = [i \in 1..Len(ks) |-> Token(ks[i], c)]
    BY <2>2 DEF Says
  <2> QED BY <2>1, <2>2, <2>3 DEF Token
<1>2. TrueKinds \subseteq Said /\ {"error"} \subseteq Said
  BY DEF TrueKinds, Said
<1>3. CASE Accepted(c)
  <2>1. Printed(c) = Says(Shown(c), c)
    BY <1>3 DEF Printed
  <2> QED BY <1>1, <1>2, <1>3, <2>1, ShownTyped
<1>4. CASE ~Accepted(c)
  <2>1. Printed(c) = Says(<<"error">>, c) /\ <<"error">> \in Seq({"error"})
    BY <1>4 DEF Printed
  <2>2. Says(<<"error">>, c) = <<Token("error", c)>>
    BY DEF Says
  <2> QED BY <1>1, <1>2, <1>4, <2>1, <2>2
<1> QED BY <1>3, <1>4

LEMMA TakesTyped ==
  ASSUME SwitchTyped, NotesTyped, NEW c \in Commands, Takes(c), device' = device
  PROVE  SwitchTyped' /\ complaints' \in Seq(Commands)
<1>1. mode' \in {"exec", "config", "archive", "log", "line"}
  <2>1. ModeAfter(c) \in {"exec", "config", "archive", "log", "line"}
    BY DEF ModeAfter, SwitchTyped
  <2> QED BY <2>1 DEF Takes, SwitchTyped
<1>2. range' \subseteq Nat
  <2>1. c.lo \in Nat /\ c.hi \in Nat
    BY DEF Commands
  <2>2. c.lo..c.hi \subseteq Nat
    BY <2>1
  <2>3. range' = c.lo..c.hi \/ range' = {} \/ range' = range
    BY Zenon DEF Takes
  <2> QED BY <2>2, <2>3 DEF SwitchTyped
<1>3. transport' \in [0..HighestVty[device] -> {"all", "ssh", "none"}]
  BY DEF Takes, SwitchTyped
<1>4. crypto' \subseteq {Ssh2, Mac, Enc}
  BY DEF Takes, SwitchTyped
<1>5. complaints' \in Seq(Commands)
  <2>1. Append(complaints, c) \in Seq(Commands)
    BY AppendProperties DEF NotesTyped
  <2>2. complaints' = complaints \/ complaints' = Append(complaints, c)
    BY Zenon DEF Takes
  <2> QED BY <2>1, <2>2 DEF NotesTyped
<1> QED BY <1>1, <1>2, <1>3, <1>4, <1>5 DEF SwitchTyped

LEMMA EchoTyped == \A c \in Commands : /\ <<Token("echo", c)>> \in Seq(Tokens)
                                       /\ Token("echo", c) \in Tokens
                                       /\ Token("complaint", c) \in Tokens
BY DEF Token, Tokens, Said

(* What the device is sent is a command or a nudge.                         *)
LEMMA SentTyped ==
  ASSUME ConsoleTyped(Commands, Tokens), inbox # <<>>
  PROVE  /\ Head(inbox) \in Commands \cup {Nudge}
         /\ Head(inbox) # Nudge => Head(inbox) \in Commands
BY DEF ConsoleTyped, StreamsTyped

LEMMA DeviceTyped ==
  ASSUME Typed, DeviceNudged \/ DeviceAnswers \/ DeviceCloses \/ StrangerAnswers
  PROVE  Typed'
<1>1. /\ ConsoleTyped(Commands, Tokens) /\ SwitchTyped /\ NotesTyped /\ AnswersKnown
      /\ pc \in Stages /\ device \in Device
  BY TypedParts DEF ConsoleTyped, StreamsTyped
<1>2. CASE DeviceNudged
  <2>1. ConsoleTyped(Commands, Tokens)'
    BY <1>1, <1>2, PromptInTyped, AnswersTyped DEF DeviceNudged
  <2>2. SwitchTyped' /\ NotesTyped' /\ AnswersKnown' /\ pc' = pc
    BY <1>1, <1>2, SwitchStays, NotesStay DEF DeviceNudged, Answers
  <2> QED BY <1>1, <2>1, <2>2, TypedPartsNext
<1>3. CASE DeviceAnswers
  <2> DEFINE c == Head(inbox)
             reply == <<Token("echo", c)>> \o Printed(c) \o <<PromptIn(mode')>>
  <2>1. c \in Commands
    BY <1>1, <1>3, SentTyped DEF DeviceAnswers
  <2>2. reply \in Seq(Tokens)
    <3>1. <<Token("echo", c)>> \in Seq(Tokens)
      BY <2>1, EchoTyped
    <3>2. Printed(c) \in Seq(Tokens)
      BY <2>1, PrintedTyped
    <3>3. <<PromptIn(mode')>> \in Seq(Tokens)
      BY <1>1, PromptInTyped
    <3> QED BY <3>1, <3>2, <3>3, ConcatProperties
  <2>3. Takes(c) /\ Answers(reply) /\ UNCHANGED notes
    BY <1>3, Zenon DEF DeviceAnswers, Printed
  <2>4. ConsoleTyped(Commands, Tokens)'
    <3> HIDE DEF reply
    <3> QED BY <1>1, <2>2, <2>3, AnswersTyped
  <2>5. device' = device /\ pc' = pc
    BY <2>3, Zenon DEF Answers
  <2>6. SwitchTyped' /\ complaints' \in Seq(Commands)
    <3> HIDE DEF c
    <3> QED BY <1>1, <2>1, <2>3, <2>5, TakesTyped
  <2>7. NotesTyped' /\ AnswersKnown'
    BY <1>1, <2>3, <2>6, Zenon DEF notes, NotesTyped, AnswersKnown
  <2> QED BY <1>1, <2>4, <2>5, <2>6, <2>7, TypedPartsNext
<1>4. CASE DeviceCloses
  <2>1. ConsoleTyped(Commands, Tokens)'
    <3>1. StreamsTyped(Commands, Tokens)' /\ CountersTyped'
      BY <1>1, <1>4 DEF DeviceCloses, ConsoleTyped, StreamsTyped, CountersTyped, script, counts,
                        terminal
    <3>2. SwitchesTyped'
      BY <1>1, <1>4, Zenon DEF DeviceCloses, ConsoleTyped, SwitchesTyped, script, terminal
    <3> QED BY <3>1, <3>2 DEF ConsoleTyped
  <2>2. SwitchTyped' /\ NotesTyped' /\ AnswersKnown' /\ pc' = pc
    BY <1>1, <1>4, SwitchStays, NotesStay DEF DeviceCloses
  <2> QED BY <1>1, <2>1, <2>2, TypedPartsNext
<1>5. CASE StrangerAnswers
  <2> DEFINE c == Head(inbox)
             reply == <<Token("echo", c), Token("complaint", c), Prompt(device)>>
  <2>1. c \in Commands
    BY <1>1, <1>5, SentTyped DEF StrangerAnswers
  <2>2. reply \in Seq(Tokens)
    <3>1. Token("echo", c) \in Tokens /\ Token("complaint", c) \in Tokens
      BY <2>1, EchoTyped
    <3>2. Prompt(device) \in Tokens
      BY <1>1, GreetingTokens, GreetingsTyped
    <3> QED BY <3>1, <3>2
  <2>3. Answers(reply)
    BY <1>5, Zenon DEF StrangerAnswers
  <2>4. ConsoleTyped(Commands, Tokens)'
    <3> HIDE DEF reply
    <3> QED BY <1>1, <2>2, <2>3, AnswersTyped
  <2>5. SwitchTyped' /\ NotesTyped' /\ AnswersKnown' /\ pc' = pc
    BY <1>1, <1>5, SwitchStays, NotesStay DEF StrangerAnswers, Answers
  <2> QED BY <1>1, <2>4, <2>5, TypedPartsNext
<1> QED BY <1>2, <1>3, <1>4, <1>5

(* The numbers in what came back have a highest.                            *)
Numbers(d) == {0, HighestVty[d], HostNumber[d], TextNumber}

LEMMA NumbersAre ==
  ASSUME NEW out
  PROVE  NumbersIn(out) \subseteq Numbers(device) \ {NoNumber}
<1>1. ASSUME NEW i \in DOMAIN out
      PROVE  (CASE out[i].kind = "vty" -> {0, HighestVty[device]}
                [] out[i] = Token("echo", PagingOff) -> {0}
                [] out[i].kind \in {"prompt", "user", "config"} -> {HostNumber[device]}
                [] out[i].kind = "text" -> {TextNumber}
                [] OTHER -> {}) \subseteq Numbers(device)
  <2>1. out[i] = Token("echo", PagingOff) => out[i].kind = "echo"
    BY DEF Token
  <2>2. CASE out[i].kind = "vty"
    BY <2>1, <2>2 DEF Numbers
  <2>3. CASE out[i] = Token("echo", PagingOff)
    BY <2>1, <2>3 DEF Numbers
  <2>4. CASE out[i].kind \in {"prompt", "user", "config"}
    BY <2>1, <2>4 DEF Numbers
  <2>5. CASE out[i].kind = "text"
    BY <2>1, <2>5 DEF Numbers
  <2>6. CASE /\ out[i].kind # "vty" /\ out[i] # Token("echo", PagingOff)
             /\ out[i].kind \notin {"prompt", "user", "config"} /\ out[i].kind # "text"
    <3> HIDE DEF Numbers
    <3> QED BY <2>6, Zenon
  <2> QED BY <2>2, <2>3, <2>4, <2>5, <2>6
<1> QED BY <1>1 DEF NumbersIn

LEMMA NumbersTop ==
  ASSUME device \in Device, NEW out, NumbersIn(out) # {}
  PROVE  LET top == CHOOSE n \in NumbersIn(out) : \A m \in NumbersIn(out) : m <= n
         IN  /\ top \in NumbersIn(out)
             /\ \A m \in NumbersIn(out) : m <= top
             /\ top \in Nat
<1> DEFINE N == NumbersIn(out)
<1>1. N \subseteq Numbers(device) \ {NoNumber}
  BY NumbersAre
<1>2. /\ HighestVty[device] \in Nat /\ HostNumber[device] \in Nat \cup {NoNumber}
      /\ TextNumber \in Nat \cup {NoNumber}
  BY HighestTyped, NumbersTyped
<1> HIDE DEF N
<1>3. N \subseteq Nat
  BY <1>1, <1>2 DEF Numbers
<1>4. \E n \in N : \A m \in N : m <= n
  <2>1. PICK a \in Nat, b \in Nat, c \in Nat, d \in Nat : N \subseteq {a, b, c, d}
    <3> DEFINE nat(x) == IF x \in Nat THEN x ELSE 0
    <3>1. nat(HostNumber[device]) \in Nat /\ nat(TextNumber) \in Nat
      OBVIOUS
    <3>2. N \subseteq {0, HighestVty[device], nat(HostNumber[device]), nat(TextNumber)}
      BY <1>1, <1>2, <1>3 DEF Numbers
    <3> HIDE DEF nat
    <3> QED BY <1>2, <3>1, <3>2
  <2>2. PICK e \in N : TRUE
    BY DEF N
  <2> DEFINE larger(x, y) == IF y \in N /\ y > x THEN y ELSE x
             e1 == larger(e, a)
             e2 == larger(e1, b)
             e3 == larger(e2, c)
             e4 == larger(e3, d)
  <2>3. e1 \in N /\ e1 >= e /\ (a \in N => e1 >= a)
    BY <1>3, <2>2
  <2>4. e2 \in N /\ e2 >= e1 /\ (b \in N => e2 >= b)
    <3> HIDE DEF e1
    <3> QED BY <1>3, <2>3
  <2>5. e3 \in N /\ e3 >= e2 /\ (c \in N => e3 >= c)
    <3> HIDE DEF e2
    <3> QED BY <1>3, <2>4
  <2>6. e4 \in N /\ e4 >= e3 /\ (d \in N => e4 >= d)
    <3> HIDE DEF e3
    <3> QED BY <1>3, <2>5
  <2> HIDE DEF e1, e2, e3, e4
  <2>7. /\ e1 \in Nat /\ e2 \in Nat /\ e3 \in Nat /\ e4 \in Nat
    BY <1>3, <2>3, <2>4, <2>5, <2>6
  <2>8. /\ a \in N => a <= e4
        /\ b \in N => b <= e4
        /\ c \in N => c <= e4
        /\ d \in N => d <= e4
    BY <2>3, <2>4, <2>5, <2>6, <2>7
  <2>9. \A m \in N : m <= e4
    BY <2>1, <2>8
  <2> QED BY <2>6, <2>9
<1> QED BY <1>3, <1>4 DEF N

LEMMA PushedTyped ==
  ASSUME NotesTyped, push # <<>>
  PROVE  Head(push) \in Commands /\ Tail(push) \in Seq(Commands)
BY DEF NotesTyped

(* A step that writes nothing down.                                         *)
LEMMA PlainTyped ==
  ASSUME Typed, ConsoleTyped(Commands, Tokens)', UNCHANGED <<switch, notes, complaints>>,
         device' = device, pc' \in Stages
  PROVE  Typed'
<1>1. SwitchTyped /\ NotesTyped /\ AnswersKnown
  BY TypedParts
<1>2. SwitchTyped' /\ NotesTyped' /\ AnswersKnown'
  BY <1>1, SwitchStays, NotesStay
<1> QED BY <1>2, TypedPartsNext

QuietStep ==
  \/ RefusesUserExec \/ IdentifyTimesOut \/ VtyTimesOut \/ AnswerTimesOut \/ SshTimesOut
  \/ ((OptionRefused \/ LoginRejected \/ ConnectFails) /\ UNCHANGED <<switch, notes, complaints>>)
  \/ (ReadingPrompt /\ UNCHANGED <<switch, notes, complaints>>)
  \/ ((Arrive \/ Drop) /\ UNCHANGED <<switch, notes, complaints>>)
  \/ TurnPagingOff \/ AskVty \/ AskSsh \/ AskIpSsh

LEMMA QuietStepTyped ==
  ASSUME Typed, QuietStep
  PROVE  Typed'
<1>1. ConsoleTyped(Commands, Tokens) /\ pc \in Stages
  BY TypedParts
<1>2. CASE RefusesUserExec \/ IdentifyTimesOut \/ VtyTimesOut \/ AnswerTimesOut \/ SshTimesOut
  <2>1. /\ UNCHANGED <<far, terminal, flag, attempt, poll, prompt, visits, counts>>
        /\ UNCHANGED <<switch, notes, complaints>>
        /\ pc' \in {"done", "push", "ask-ip-ssh"}
    BY <1>2 DEF RefusesUserExec, IdentifyTimesOut, VtyTimesOut, AnswerTimesOut, SshTimesOut,
                TimesOut, Ends, Goes
  <2>2. ConsoleTyped(Commands, Tokens)'
    BY <1>1, <2>1, QuietTyped
  <2>3. device' = device /\ pc' \in Stages
    BY <2>1 DEF far, Stages
  <2> QED BY <2>1, <2>2, <2>3, PlainTyped
<1>3. CASE (OptionRefused \/ LoginRejected \/ ConnectFails)
             /\ UNCHANGED <<switch, notes, complaints>>
  <2>1. ConsoleTyped(Commands, Tokens)'
    BY <1>1, <1>3, ConnectingTyped
  <2>2. device' = device /\ pc' \in {"again", "done", "connect"}
    BY <1>3, Zenon DEF OptionRefused, LoginRejected, ConnectFails, Ends, far
  <2>3. pc' \in Stages
    BY <2>2 DEF Stages
  <2> QED BY <1>3, <2>1, <2>2, <2>3, PlainTyped
<1>4. CASE ReadingPrompt /\ UNCHANGED <<switch, notes, complaints>>
  <2>1. ConsoleTyped(Commands, Tokens)'
    BY <1>1, <1>4, ReadingPromptTyped
  <2>2. device' = device /\ pc' \in {"poll", "restore", "ready", "done"}
    BY <1>4 DEF ReadingPrompt, StartPolling, SeesPrompt, KeepsWaiting, NoPrompt, RestoreSync,
                Ends, far
  <2>3. pc' \in Stages
    BY <2>2 DEF Stages
  <2> QED BY <1>4, <2>1, <2>2, <2>3, PlainTyped
<1>5. CASE (Arrive \/ Drop) /\ UNCHANGED <<switch, notes, complaints>>
  <2>1. ConsoleTyped(Commands, Tokens)'
    BY <1>1, <1>5, ArriveTyped, DropTyped
  <2>2. device' = device /\ pc' = pc
    BY <1>5, Zenon DEF Arrive, Drop
  <2> QED BY <1>1, <1>5, <2>1, <2>2, PlainTyped
<1>6. CASE TurnPagingOff \/ AskVty \/ AskSsh \/ AskIpSsh
  <2>1. PICK c \in Shows : Sends(c)
    BY <1>6 DEF TurnPagingOff, AskVty, AskSsh, AskIpSsh, Shows
  <2>2. ConsoleTyped(Commands, Tokens)'
    BY <1>1, <2>1, ShowsTyped, SendsTyped
  <2>3. device' = device
    BY <2>1 DEF Sends
  <2>4. UNCHANGED <<switch, notes, complaints>>
    BY <1>6, Zenon DEF TurnPagingOff, AskVty, AskSsh, AskIpSsh
  <2>5. pc' \in {"identify", "read-vty", "read-ssh", "read-ip-ssh"}
    BY <1>6 DEF TurnPagingOff, AskVty, AskSsh, AskIpSsh, Goes
  <2>6. pc' \in Stages
    BY <2>5 DEF Stages
  <2> QED BY <2>2, <2>3, <2>4, <2>6, PlainTyped
<1> QED BY <1>2, <1>3, <1>4, <1>5, <1>6 DEF QuietStep

LEMMA ConnectsTyped ==
  ASSUME Typed, Connects
  PROVE  Typed'
<1>1. ConsoleTyped(Commands, Tokens) /\ NotesTyped /\ AnswersKnown
  BY TypedParts
<1>2. ConsoleTyped(Commands, Tokens)'
  BY <1>1, GreetingsTyped, ConnectedTyped DEF Connects
<1>3. SwitchTyped'
  <2>1. /\ mode' = "exec" /\ range' = {} /\ crypto' = {}
        /\ transport' = [l \in 0..HighestVty[device'] |-> "all"]
    BY DEF Connects
  <2>2. transport' \in [0..HighestVty[device'] -> {"all", "ssh", "none"}]
    BY <2>1
  <2> QED BY <2>1, <2>2 DEF SwitchTyped
<1>4. NotesTyped' /\ AnswersKnown'
  BY <1>1, Zenon DEF Connects, NotesTyped, AnswersKnown
<1>5. pc' \in Stages
  BY DEF Connects, Connected, Stages
<1> QED BY <1>2, <1>3, <1>4, <1>5, TypedPartsNext

LEMMA NextSwitchTyped ==
  ASSUME Typed, NextSwitch
  PROVE  Typed'
<1>1. ConsoleTyped(Commands, Tokens) /\ SwitchTyped /\ AnswersKnown
  BY TypedParts
<1>2. ConsoleTyped(Commands, Tokens)'
  BY <1>1, GreetingsTyped, NextVisitTyped DEF NextSwitch
<1>3. SwitchTyped'
  BY <1>1, SwitchStays DEF NextSwitch, NextVisit
<1>4. NotesTyped'
  <2>1. NotesTyped
    BY TypedParts
  <2> QED BY <2>1, ShowsTyped DEF NextSwitch, NotesTyped, NoRow, Shows
<1>5. AnswersKnown'
  BY <1>1, Zenon DEF NextSwitch, AnswersKnown
<1>6. pc' \in Stages
  BY DEF NextSwitch, NextVisit, Stages
<1> QED BY <1>2, <1>3, <1>4, <1>5, <1>6, TypedPartsNext

LEMMA IdentifyTyped ==
  ASSUME Typed, Identify
  PROVE  Typed'
<1>1. ConsoleTyped(Commands, Tokens) /\ SwitchTyped /\ NotesTyped /\ AnswersKnown
  BY TypedParts
<1>2. ConsoleTyped(Commands, Tokens)'
  BY <1>1, ConsumesTyped DEF Identify
<1>3. SwitchTyped'
  BY <1>1, SwitchStays DEF Identify, Consumes
<1>4. /\ push' = push \/ push' = <<Cmd("configure-terminal")>> \o BaseCommands \o <<Cmd("end")>>
      /\ pc' \in {"done", "ask-vty", "push"}
  BY Zenon DEF Identify, Ends
<1>5. push' \in Seq(Commands) /\ pc' \in Stages
  BY <1>1, <1>4, EndTyped DEF NotesTyped, Stages
<1>6. NotesTyped'
  BY <1>1, <1>5 DEF Identify, NotesTyped
<1>7. AnswersKnown'
  BY <1>1, AnswersStay DEF Identify
<1> QED BY <1>2, <1>3, <1>5, <1>6, <1>7, TypedPartsNext

LEMMA ReadVtyTyped ==
  ASSUME Typed, ReadVty
  PROVE  Typed'
<1>1. /\ ConsoleTyped(Commands, Tokens) /\ SwitchTyped /\ NotesTyped /\ AnswersKnown
      /\ device \in Device
  BY TypedParts DEF ConsoleTyped, StreamsTyped
<1>2. ConsoleTyped(Commands, Tokens)'
  BY <1>1, ConsumesTyped DEF ReadVty
<1>3. SwitchTyped'
  BY <1>1, SwitchStays DEF ReadVty, Consumes
<1> DEFINE numbers == NumbersIn(StripEcho(VtyText, ShowVty))
           top == IF numbers = {} THEN 4 ELSE CHOOSE n \in numbers : \A m \in numbers : m <= n
<1>4. top \in Nat
  BY <1>1, NumbersTop
<1>5. /\ highest' = top /\ readOk' = (numbers # {})
      /\ push' = push
         \/ push' = SubSeq(push, 1, Len(push) - 1) \o VtyFixes(top) \o <<Cmd("end")>>
  BY Zenon DEF ReadVty
<1> HIDE DEF top, numbers
<1>6. push' \in Seq(Commands)
  <2>1. SubSeq(push, 1, Len(push) - 1) \in Seq(Commands)
    BY <1>1 DEF NotesTyped
  <2>2. VtyFixes(top) \in Seq(Commands) /\ <<Cmd("end")>> \in Seq(Commands)
    BY <1>4, FixesTyped, EndTyped
  <2>3. SubSeq(push, 1, Len(push) - 1) \o VtyFixes(top) \o <<Cmd("end")>> \in Seq(Commands)
    BY <2>1, <2>2, ConcatProperties
  <2> QED BY <1>1, <1>5, <2>3 DEF NotesTyped
<1>7. NotesTyped'
  BY <1>1, <1>4, <1>5, <1>6 DEF ReadVty, NotesTyped
<1>8. AnswersKnown'
  BY <1>1, <1>5, Zenon DEF ReadVty, AnswersKnown
<1>9. pc' \in Stages
  BY DEF ReadVty, Goes, Stages
<1> QED BY <1>2, <1>3, <1>7, <1>8, <1>9, TypedPartsNext

LEMMA PushCommandTyped ==
  ASSUME Typed, PushCommand
  PROVE  Typed'
<1>1. ConsoleTyped(Commands, Tokens) /\ SwitchTyped /\ NotesTyped /\ AnswersKnown
  BY TypedParts
<1>2. Head(push) \in Commands /\ Tail(push) \in Seq(Commands)
  BY <1>1, PushedTyped DEF PushCommand
<1>3. ConsoleTyped(Commands, Tokens)'
  BY <1>1, <1>2, SendsTyped DEF PushCommand
<1>4. SwitchTyped'
  BY <1>1, SwitchStays DEF PushCommand, Sends
<1>5. NotesTyped'
  BY <1>1, <1>2 DEF PushCommand, NotesTyped
<1>6. AnswersKnown'
  BY <1>1, AnswersStay DEF PushCommand
<1>7. pc' \in Stages
  BY DEF PushCommand, Goes, Stages
<1> QED BY <1>3, <1>4, <1>5, <1>6, <1>7, TypedPartsNext


LEMMA ReadAnswerTyped ==
  ASSUME Typed, ReadAnswer
  PROVE  Typed'
<1>1. ConsoleTyped(Commands, Tokens) /\ SwitchTyped /\ NotesTyped /\ AnswersKnown
  BY TypedParts
<1>2. ConsoleTyped(Commands, Tokens)'
  BY <1>1, ConsumesTyped DEF ReadAnswer
<1>3. SwitchTyped'
  BY <1>1, SwitchStays DEF ReadAnswer, Consumes
<1> DEFINE answer == Got(AnyHash)
           errors == {answer[i].of : i \in {j \in DOMAIN answer : answer[j].kind = "error"}}
<1>4. errors \subseteq Commands
  <2>1. held \in Seq(Tokens) /\ StopAt(AnyHash) # {}
    BY <1>1 DEF ReadAnswer, Consumes, ConsoleTyped, StreamsTyped
  <2>2. PICK i \in 1..Len(held) : answer = SubSeq(held, 1, i - 1)
    BY <2>1, StopsAt
  <2>3. \A j \in DOMAIN answer : answer[j] \in Tokens
    BY <2>1, <2>2
  <2>4. \A t \in Tokens : t.kind = "error" => t.of \in Commands
    BY DEF Tokens, Greetings, Token
  <2> HIDE DEF answer
  <2> QED BY <2>3, <2>4
<1>5. rejected' = rejected \/ \E e \in errors : rejected' = Append(rejected, <<current, e>>)
  BY Zenon DEF ReadAnswer
<1>6. NotesTyped'
  <2>1. \A e \in errors : <<current, e>> \in Commands \X Commands
    BY <1>1, <1>4 DEF NotesTyped
  <2>2. rejected' \in Seq(Commands \X Commands)
    <3> HIDE DEF errors
    <3>1. CASE rejected' = rejected
      BY <1>1, <3>1 DEF NotesTyped
    <3>2. ASSUME NEW e \in errors, rejected' = Append(rejected, <<current, e>>)
          PROVE  rejected' \in Seq(Commands \X Commands)
      <4>1. rejected \in Seq(Commands \X Commands) /\ <<current, e>> \in Commands \X Commands
        BY <1>1, <2>1 DEF NotesTyped
      <4> QED BY <3>2, <4>1, AppendProperties
    <3> QED BY <1>5, <3>1, <3>2
  <2> QED BY <1>1, <2>2 DEF ReadAnswer, NotesTyped
<1>7. AnswersKnown'
  BY <1>1, AnswersStay DEF ReadAnswer
<1>8. pc' \in Stages
  <2>1. pc' = "ask-ssh" \/ pc' = "push"
    BY Zenon DEF ReadAnswer, Goes
  <2> QED BY <2>1 DEF Stages
<1> QED BY <1>2, <1>3, <1>6, <1>7, <1>8, TypedPartsNext

LEMMA ReadSshTyped ==
  ASSUME Typed, ReadSsh
  PROVE  Typed'
<1>1. ConsoleTyped(Commands, Tokens) /\ SwitchTyped /\ NotesTyped /\ AnswersKnown
  BY TypedParts
<1>2. ConsoleTyped(Commands, Tokens)'
  BY <1>1, ConsumesTyped DEF ReadSsh
<1>3. SwitchTyped'
  BY <1>1, SwitchStays DEF ReadSsh, Consumes
<1>4. NotesTyped'
  <2>1. held \in Seq(Tokens) /\ StopAt(Stops(prompt)) # {}
    BY <1>1 DEF ReadSsh, Consumes, ConsoleTyped, StreamsTyped
  <2>2. status' \in Seq(Tokens)
    BY <2>1, ReadsWhatIsHeld DEF ReadSsh
  <2> QED BY <1>1, <2>2 DEF ReadSsh, NotesTyped
<1>5. AnswersKnown'
  BY <1>1, AnswersStay DEF ReadSsh
<1>6. pc' \in Stages
  BY DEF ReadSsh, Goes, Stages
<1> QED BY <1>2, <1>3, <1>4, <1>5, <1>6, TypedPartsNext

LEMMA EarliestTyped ==
  ASSUME NEW S, NEW q \in Seq(S)
  PROVE  Earliest(q) \in Seq(S)
<1>1. Len(q) \in Nat /\ (Len(q) <= Fits => Len(q) <= Len(q)) /\ Fits \in Nat
  BY FitsNat
<1> QED BY <1>1 DEF Earliest

(* The row: what was written down, and what was heard of the SSH.           *)
LEMMA RecordTyped ==
  ASSUME NotesTyped, NEW ssh \in {"complete", "incomplete", "not-read"}, Record(ssh)
  PROVE  /\ row' \in [outcome : {"none", "hardened", "hardened-vty-skipped"},
                      rejecting : BOOLEAN, note : {"none", "closed"},
                      rejections : Seq(Commands \X Commands),
                      ssh : {"none", "complete", "incomplete", "not-read"}]
         /\ row'.outcome # "none" /\ row'.rejections = Earliest(rejected) /\ row'.ssh = ssh
         /\ row'.rejecting = (rejected # <<>>)
         /\ row'.note = "closed" => withVty /\ readOk
<1> DEFINE o == IF withVty /\ ~readOk THEN "hardened-vty-skipped" ELSE "hardened"
           n == IF withVty /\ readOk THEN "closed" ELSE "none"
<1>1. o \in {"hardened", "hardened-vty-skipped"} /\ n \in {"none", "closed"}
      /\ (n = "closed" => withVty /\ readOk)
  OBVIOUS
<1> DEFINE r == (rejected # <<>>)
           e == Earliest(rejected)
<1>2. row' = [outcome |-> o, rejecting |-> r, note |-> n, rejections |-> e, ssh |-> ssh]
  BY Zenon DEF Record
<1>3. e \in Seq(Commands \X Commands)
  BY EarliestTyped DEF NotesTyped
<1>4. r \in BOOLEAN
  BY Zenon
<1> HIDE DEF o, n, r, e
<1>5. row' \in [outcome : {"none", "hardened", "hardened-vty-skipped"},
                rejecting : BOOLEAN, note : {"none", "closed"},
                rejections : Seq(Commands \X Commands),
                ssh : {"none", "complete", "incomplete", "not-read"}]
  BY <1>1, <1>2, <1>3, <1>4
<1>6. /\ row'.outcome = o /\ row'.rejections = e /\ row'.ssh = ssh /\ row'.rejecting = r
      /\ row'.note = n
  BY <1>2
<1>7. o # "none"
  BY <1>1
<1> QED BY <1>1, <1>5, <1>6, <1>7, Zenon DEF r, e

LEMMA EndingTyped ==
  ASSUME Typed, ReadIpSsh \/ IpSshTimesOut
  PROVE  Typed'
<1>1. ConsoleTyped(Commands, Tokens) /\ SwitchTyped /\ NotesTyped /\ AnswersKnown
  BY TypedParts
<1>2. ConsoleTyped(Commands, Tokens)'
  <2>1. CASE ReadIpSsh
    BY <1>1, <2>1, ConsumesTyped DEF ReadIpSsh
  <2>2. CASE IpSshTimesOut
    BY <1>1, <2>2, QuietTyped DEF IpSshTimesOut, TimesOut
  <2> QED BY <2>1, <2>2
<1>3. SwitchTyped'
  BY <1>1, SwitchStays DEF ReadIpSsh, IpSshTimesOut, TimesOut, Consumes, far
<1>4. NotesTyped'
  <2>1. PICK ssh \in {"complete", "incomplete", "not-read"} : Record(ssh)
    <3>1. CASE ReadIpSsh
      BY <3>1 DEF ReadIpSsh
    <3>2. CASE IpSshTimesOut
      BY <3>2 DEF IpSshTimesOut
    <3> QED BY <3>1, <3>2
  <2>2. row' \in [outcome : {"none", "hardened", "hardened-vty-skipped"},
                  rejecting : BOOLEAN, note : {"none", "closed"},
                  rejections : Seq(Commands \X Commands),
                  ssh : {"none", "complete", "incomplete", "not-read"}]
    BY <1>1, <2>1, RecordTyped
  <2>3. UNCHANGED <<highest, push, current, rejected, complaints, status>>
    BY Zenon DEF ReadIpSsh, IpSshTimesOut
  <2> QED BY <1>1, <2>2, <2>3 DEF NotesTyped
<1>5. AnswersKnown'
  BY <1>1, AnswersStay DEF ReadIpSsh, IpSshTimesOut
<1>6. pc' \in Stages
  BY DEF ReadIpSsh, IpSshTimesOut, TimesOut, Ends, Stages
<1> QED BY <1>2, <1>3, <1>4, <1>5, <1>6, TypedPartsNext

LEMMA TypedInit == Init => Typed
<1> SUFFICES ASSUME Init PROVE Typed
  OBVIOUS
<1>1. ConsoleTyped(Commands, Tokens)
  BY GreetingsTyped, ConsoleInitTyped DEF Init
<1>2. SwitchTyped
  BY DEF Init, SwitchTyped
<1>3. NotesTyped
  BY ShowsTyped DEF Init, NotesTyped, NoRow, Shows
<1>4. AnswersKnown
  BY Zenon DEF Init, AnswersKnown
<1>5. pc \in Stages
  BY DEF Init, ConsoleInit, Stages
<1> QED BY <1>1, <1>2, <1>3, <1>4, <1>5, TypedParts

(* The steps, by what they do to what is written down.                      *)
LEMMA NextCases ==
  ASSUME Next
  PROVE  \/ QuietStep \/ Connects \/ NextSwitch \/ Identify \/ ReadVty \/ PushCommand
         \/ ReadAnswer \/ ReadSsh \/ ReadIpSsh \/ IpSshTimesOut
         \/ DeviceNudged \/ DeviceAnswers \/ DeviceCloses \/ StrangerAnswers
BY Zenon DEF Next, Visiting, QuietStep

LEMMA TypedNext == Typed /\ [Next]_vars => Typed'
<1> SUFFICES ASSUME Typed, [Next]_vars PROVE Typed'
  OBVIOUS
<1>1. CASE UNCHANGED vars
  <2>1. /\ UNCHANGED <<far, terminal, flag, attempt, poll, prompt, visits, counts>>
        /\ UNCHANGED <<switch, notes, complaints>> /\ device' = device /\ pc' = pc
    BY <1>1, Zenon DEF vars, console, far, script
  <2> QED BY <2>1, QuietTyped, TypedParts, PlainTyped
<1>2. CASE Next
  BY <1>2, NextCases, QuietStepTyped, ConnectsTyped, NextSwitchTyped, IdentifyTyped,
     ReadVtyTyped, PushCommandTyped, ReadAnswerTyped, ReadSshTyped, EndingTyped, DeviceTyped,
     Zenon
<1> QED BY <1>1, <1>2

(* Types are kept, whatever devices, images, banners and line counts there  *)
(* are: Harden's part and the conversation's.                               *)
THEOREM TypeCorrect == Spec => []TypeOK
<1>1. Typed => TypeOK
  BY DEF Typed
<1> QED BY <1>1, TypedInit, TypedNext, PTL DEF Spec
-----------------------------------------------------------------------------
(* Where a visit stands. *)

LEMMA ShowTaken ==
  ASSUME SwitchTyped, device \in Switches, mode = "exec", NEW c \in Shows, Takes(c)
  PROVE  mode' = "exec" /\ complaints' = complaints /\ transport' = transport
         /\ crypto' = crypto /\ Accepted(c)
<1>1. c \notin Rejects[device]
  BY RejectsTyped
<1>3. c.verb \in {"terminal-length-0", "show-running-config-line-vty", "show-ip-ssh",
                  "show-running-config-ip-ssh"}
  BY DEF Shows, PagingOff, ShowVty, ShowSsh, ShowIpSsh, Cmd
<1>2. Accepted(c)
  BY <1>1, <1>3 DEF Accepted, InConfig
<1>4. ModeAfter(c) = mode
  BY <1>3 DEF ModeAfter
<1>5. c \notin {Ssh2, Mac, Enc}
  BY <1>3 DEF Ssh2, Mac, Enc, Cmd
<1>6. transport' = transport
  <2>1. transport' = [l \in DOMAIN transport |-> transport[l]]
    BY <1>3 DEF Takes
  <2> QED BY <2>1 DEF SwitchTyped
<1> QED BY <1>2, <1>4, <1>5, <1>6 DEF Takes

LEMMA ShowsKnown == /\ PagingOff \in Shows /\ ShowVty \in Shows /\ ShowSsh \in Shows
                    /\ ShowIpSsh \in Shows
BY DEF Shows

LEMMA ShowsAreNoNudges == \A c \in Commands : c # Nudge
BY NudgeIsNoCommand

(* A device step at most takes one thing off what it was sent.              *)
LEMMA DeviceTakes ==
  ASSUME Typed, DeviceNudged \/ DeviceAnswers \/ DeviceCloses \/ StrangerAnswers
  PROVE  /\ inbox # <<>>
         /\ \/ inbox' = Tail(inbox) \/ (inbox' = inbox /\ UNCHANGED switch)
         /\ UNCHANGED <<device, notes, terminal, script, pc, counts>>
<1>1. inbox # <<>>
  BY DEF DeviceNudged, DeviceAnswers, DeviceCloses, StrangerAnswers
<1>2. inbox' = Tail(inbox) \/ (inbox' = inbox /\ UNCHANGED switch)
  BY Zenon DEF DeviceNudged, DeviceAnswers, DeviceCloses, StrangerAnswers, Answers
<1>3. UNCHANGED <<device, notes, terminal, script, pc, counts>>
  BY Zenon DEF DeviceNudged, DeviceAnswers, DeviceCloses, StrangerAnswers, Answers
<1> QED BY <1>1, <1>2, <1>3

LEMMA DeviceShape ==
  ASSUME Typed, VisitShape, DeviceNudged \/ DeviceAnswers \/ DeviceCloses \/ StrangerAnswers
  PROVE  VisitShape'
<1>1. /\ inbox # <<>> /\ (inbox' = Tail(inbox) \/ (inbox' = inbox /\ UNCHANGED switch))
      /\ UNCHANGED <<device, notes, terminal, script, pc, counts>>
  BY DeviceTakes
<1>2. ConsoleTyped(Commands, Tokens) /\ SwitchTyped /\ inbox \in Seq(Commands \cup {Nudge})
  BY TypedParts DEF ConsoleTyped, StreamsTyped
<1>3. pc \notin Dialling
  BY <1>1 DEF VisitShape
<1>4. OnlyShows(inbox) => OnlyShows(inbox')
  BY <1>1, <1>2 DEF OnlyShows
<1>5. pc \in Reading => mode' = "exec" /\ complaints' = <<>>
  <2> SUFFICES ASSUME pc \in Reading
               PROVE  mode' = "exec" /\ complaints' = <<>>
    OBVIOUS
  <2>1. mode = "exec" /\ complaints = <<>> /\ OnlyShows(inbox)
    BY DEF VisitShape
  <2>2. CASE DeviceAnswers
    <3>1. /\ Head(inbox) # Nudge /\ device \in Switches /\ Takes(Head(inbox))
      BY <2>2 DEF DeviceAnswers
    <3>2. Head(inbox) \in Shows
      BY <1>1, <1>2, <2>1, <3>1 DEF OnlyShows
    <3> QED BY <1>2, <2>1, <3>1, <3>2, ShowTaken
  <2>3. CASE DeviceNudged \/ DeviceCloses \/ StrangerAnswers
    BY <2>1, <2>3 DEF DeviceNudged, DeviceCloses, StrangerAnswers, switch
  <2> QED BY <2>2, <2>3
<1> QED BY <1>1, <1>3, <1>4, <1>5 DEF VisitShape, notes, terminal, script, Reading, Dialling

LEMMA QuietShape ==
  ASSUME Typed, VisitShape, QuietStep
  PROVE  VisitShape'
<1>1. inbox \in Seq(Commands \cup {Nudge}) /\ pc \in Stages
  BY TypedParts DEF ConsoleTyped, StreamsTyped
<1>2. UNCHANGED <<switch, notes, complaints>>
  BY Zenon DEF QuietStep, RefusesUserExec, IdentifyTimesOut, VtyTimesOut, AnswerTimesOut,
               SshTimesOut, TurnPagingOff, AskVty, AskSsh, AskIpSsh
<1>3. CASE RefusesUserExec \/ IdentifyTimesOut \/ VtyTimesOut \/ AnswerTimesOut \/ SshTimesOut
  <2>1. /\ UNCHANGED <<far, terminal, poll>>
        /\ \/ pc' = "done" /\ pc \in {"ready", "identify", "pushed"}
           \/ pc = "read-vty" /\ pc' = "push"
           \/ pc = "read-ssh" /\ pc' = "ask-ip-ssh"
    BY <1>3 DEF RefusesUserExec, IdentifyTimesOut, VtyTimesOut, AnswerTimesOut, SshTimesOut,
                TimesOut, Ends, Goes
  <2> QED BY <1>2, <2>1 DEF VisitShape, switch, notes, far, terminal, Dialling, Reading, Checking
<1>4. CASE OptionRefused \/ LoginRejected \/ ConnectFails
  <2>1. /\ UNCHANGED <<far, terminal, poll>> /\ pc \in Dialling
        /\ pc' \in {"connect", "again", "done"}
    BY <1>4 DEF OptionRefused, LoginRejected, ConnectFails, Ends, Dialling
  <2> QED BY <1>2, <2>1 DEF VisitShape, switch, notes, far, terminal, Dialling, Reading, Checking
<1>5. CASE ReadingPrompt
  <2>1. \/ pc = "connected" /\ pc' = "poll" /\ sync' = FALSE
        \/ pc = "poll" /\ pc' = "restore" /\ sync' = sync
        \/ pc = "poll" /\ pc' = "poll" /\ sync' = sync
        \/ pc = "poll" /\ pc' = "done" /\ sync' = TRUE
        \/ pc = "restore" /\ pc' = "ready" /\ sync' = TRUE
    BY <1>5, Zenon DEF ReadingPrompt, StartPolling, SeesPrompt, KeepsWaiting, NoPrompt,
                       RestoreSync, Ends, terminal
  <2>2. inbox' = inbox \/ inbox' = Append(inbox, Nudge)
    BY <1>5, Zenon DEF ReadingPrompt, StartPolling, SeesPrompt, KeepsWaiting, NoPrompt,
                       RestoreSync, far
  <2>3. OnlyShows(inbox) => OnlyShows(inbox')
    BY <1>1, <2>2 DEF OnlyShows
  <2> QED BY <1>2, <2>1, <2>3 DEF VisitShape, switch, notes, Dialling, Reading, Checking
<1>6. CASE Arrive \/ Drop
  <2>1. wire # <<>> \/ UNCHANGED <<wire, held, screen>>
    BY <1>6 DEF Arrive, Drop, terminal
  <2>2. UNCHANGED <<inbox, sync, poll, pc>>
    BY <1>6, Zenon DEF Arrive, Drop, terminal, script
  <2> QED BY <1>2, <2>1, <2>2 DEF VisitShape, switch, notes, Dialling, Reading, Checking
<1>7. CASE TurnPagingOff \/ AskVty \/ AskSsh \/ AskIpSsh
  <2>1. PICK c \in Shows : inbox' = Append(inbox, c)
    BY <1>7, ShowsKnown DEF TurnPagingOff, AskVty, AskSsh, AskIpSsh, Sends
  <2>2. OnlyShows(inbox) => OnlyShows(inbox')
    BY <1>1, <2>1, ShowsTyped DEF OnlyShows
  <2>3. /\ \/ pc = "ready" /\ pc' = "identify"
           \/ pc = "ask-vty" /\ pc' = "read-vty"
           \/ pc = "ask-ssh" /\ pc' = "read-ssh"
           \/ pc = "ask-ip-ssh" /\ pc' = "read-ip-ssh"
        /\ sync' = sync
    BY <1>7, Zenon DEF TurnPagingOff, AskVty, AskSsh, AskIpSsh, Sends, Goes, terminal
  <2> QED BY <1>2, <2>2, <2>3 DEF VisitShape, switch, notes, Dialling, Reading, Checking
<1> QED BY <1>3, <1>4, <1>5, <1>6, <1>7 DEF QuietStep

LEMMA ScriptShape ==
  ASSUME Typed, VisitShape,
         \/ Connects \/ NextSwitch \/ Identify \/ ReadVty \/ PushCommand \/ ReadAnswer
         \/ ReadSsh \/ ReadIpSsh \/ IpSshTimesOut
  PROVE  VisitShape'
<1>1. CASE Connects
  <2>1. pc \in Dialling /\ pc' = "connected"
    BY <1>1 DEF Connects, Connected, Dialling
  <2>2. /\ UNCHANGED <<withVty, readOk, push, rejected, status, row, complaints, inbox>>
        /\ mode' = "exec" /\ sync' = sync
    BY <1>1, Zenon DEF Connects, Connected, terminal
  <2> QED BY <2>1, <2>2 DEF VisitShape, Dialling, Reading, Checking, OnlyShows
<1>2. CASE NextSwitch
  <2>1. pc = "done" /\ pc' = "connect" /\ sync' = sync
    BY <1>2, Zenon DEF NextSwitch, NextVisit
  <2> QED BY <1>2, <2>1 DEF NextSwitch, NextVisit, VisitShape, Dialling, Reading, Checking
<1>3. CASE Identify
  <2>1. /\ pc = "identify" /\ UNCHANGED <<switch, readOk, rejected, status, row, complaints, inbox, sync>>
        /\ \/ pc' = "done"
           \/ pc' = "ask-vty" /\ withVty' = withVty /\ withVty
           \/ pc' = "push"
    BY <1>3, Zenon DEF Identify, Consumes, Ends
  <2>2. withVty' = withVty
    BY <1>3 DEF Identify
  <2> QED BY <2>1, <2>2 DEF VisitShape, switch, Dialling, Reading, Checking
<1>4. CASE ReadVty
  <2>1. /\ pc = "read-vty" /\ pc' = "push" /\ UNCHANGED <<row, sync>>
    BY <1>4, Zenon DEF ReadVty, Goes, Consumes
  <2> QED BY <2>1 DEF VisitShape, Dialling, Reading, Checking
<1>5. CASE PushCommand
  <2>1. /\ pc = "push" /\ pc' = "pushed" /\ UNCHANGED <<row, sync>>
    BY <1>5, Zenon DEF PushCommand, Goes, Sends, terminal
  <2> QED BY <2>1 DEF VisitShape, Dialling, Reading, Checking
<1>6. CASE ReadAnswer
  <2>1. /\ pc = "pushed" /\ UNCHANGED <<row, sync, push>>
        /\ pc' = "push" \/ (pc' = "ask-ssh" /\ push = <<>>)
    BY <1>6, Zenon DEF ReadAnswer, Goes, Consumes
  <2> QED BY <2>1 DEF VisitShape, Dialling, Reading, Checking
<1>7. CASE ReadSsh
  <2>1. /\ pc = "read-ssh" /\ pc' = "ask-ip-ssh" /\ UNCHANGED <<row, sync, push>>
    BY <1>7, Zenon DEF ReadSsh, Goes, Consumes
  <2> QED BY <2>1 DEF VisitShape, Dialling, Reading, Checking
<1>8. CASE ReadIpSsh \/ IpSshTimesOut
  <2>1. pc = "read-ip-ssh" /\ pc' = "done" /\ UNCHANGED sync
    BY <1>8, Zenon DEF ReadIpSsh, IpSshTimesOut, TimesOut, Ends, Consumes, terminal
  <2> QED BY <2>1 DEF VisitShape, Dialling, Reading, Checking
<1> QED BY <1>1, <1>2, <1>3, <1>4, <1>5, <1>6, <1>7, <1>8

LEMMA NothingMoved ==
  ASSUME UNCHANGED vars
  PROVE  UNCHANGED <<device, up, inbox, wire, sync, screen, held, poll, prompt, pc, mode, range,
                     transport, crypto, withVty, highest, readOk, push, current, rejected,
                     status, row, complaints>>
BY Zenon DEF vars, console, far, terminal, script, switch, notes

LEMMA ShapeInit == Init => VisitShape
BY DEF Init, ConsoleInit, VisitShape, Dialling, Reading, Checking, NoRow

LEMMA ShapeNext == Typed /\ VisitShape /\ [Next]_vars => VisitShape'
<1> SUFFICES ASSUME Typed, VisitShape, [Next]_vars PROVE VisitShape'
  OBVIOUS
<1>1. CASE UNCHANGED vars
  BY <1>1, NothingMoved DEF VisitShape, OnlyShows
<1>2. CASE Next
  BY <1>2, NextCases, QuietShape, ScriptShape, DeviceShape, Zenon
<1> QED BY <1>1, <1>2
-----------------------------------------------------------------------------
(* The way back in. *)

(* Nothing is shut by joining what shuts nothing by itself.                 *)
LEMMA GuardedConcat ==
  ASSUME NEW s \in Seq(Commands), NEW t \in Seq(Commands), NEW top, Guarded(s, top), Guarded(t, top),
         t # <<>> => ~Shut(t[1])
  PROVE  Guarded(s \o t, top)
<1> SUFFICES ASSUME NEW i \in 2..Len(s \o t), Shut((s \o t)[i])
             PROVE  Narrows((s \o t)[i - 1], top)
  BY DEF Guarded
<1>1. /\ Len(s \o t) = Len(s) + Len(t) /\ Len(s) \in Nat /\ Len(t) \in Nat
      /\ \A k \in 1..(Len(s) + Len(t)) :
           (s \o t)[k] = IF k <= Len(s) THEN s[k] ELSE t[k - Len(s)]
  BY ConcatProperties
<1>2. CASE i <= Len(s)
  <2>1. (s \o t)[i] = s[i] /\ (s \o t)[i - 1] = s[i - 1]
    BY <1>1, <1>2
  <2> QED BY <1>1, <1>2, <2>1 DEF Guarded
<1>3. CASE i = Len(s) + 1
  <2>1. (s \o t)[i] = t[1] /\ t # <<>>
    BY <1>1, <1>3
  <2> QED BY <2>1
<1>4. CASE i > Len(s) + 1
  <2>1. (s \o t)[i] = t[i - Len(s)] /\ (s \o t)[i - 1] = t[i - Len(s) - 1]
    BY <1>1, <1>4
  <2>2. i - Len(s) \in 2..Len(t)
    BY <1>1, <1>4
  <2> QED BY <2>1, <2>2 DEF Guarded
<1> QED BY <1>1, <1>2, <1>3, <1>4

LEMMA NothingShut ==
  ASSUME NEW s, NEW top, \A i \in DOMAIN s : ~Shut(s[i]), DOMAIN s = 1..Len(s), Len(s) \in Nat
  PROVE  Guarded(s, top)
BY DEF Guarded

(* The vty block shuts the range it has just named.                         *)
LEMMA FixesGuarded ==
  ASSUME NEW h \in Nat
  PROVE  /\ Guarded(VtyFixes(h), h) /\ ~Shut(VtyFixes(h)[1])
         /\ VtyFixes(h) \in Seq(Commands) /\ VtyFixes(h) # <<>>
<1>1. VtyFixes(h) \in Seq(Commands)
  BY FixesTyped
<1>2. CASE Sessions - 1 >= h
  <2>1. VtyFixes(h) = <<LineVty(0, h), Cmd("session-limit"), Cmd("exec-timeout"),
                        Cmd("transport-input-ssh")>>
    BY <1>2 DEF VtyFixes
  <2> QED BY <1>1, <2>1 DEF Guarded, Shut, LineVty, Cmd
<1>3. CASE ~(Sessions - 1 >= h)
  <2>1. VtyFixes(h) = <<LineVty(0, h), Cmd("session-limit"), Cmd("exec-timeout"),
                        LineVty(0, Sessions - 1), Cmd("transport-input-ssh"),
                        LineVty(Sessions, h), Cmd("transport-input-none")>>
    BY <1>3 DEF VtyFixes
  <2>2. Narrows(LineVty(Sessions, h), h)
    <3>1. LineVty(Sessions, h) # Nudge
      BY LineVtyTyped, SessionsNat, NudgeIsNoCommand
    <3> QED BY <3>1 DEF Narrows, LineVty
  <2>3. \A i \in 1..7 : Shut(VtyFixes(h)[i]) => i = 7
    BY <2>1 DEF Shut, LineVty, Cmd
  <2>4. Len(VtyFixes(h)) = 7 /\ VtyFixes(h)[6] = LineVty(Sessions, h) /\ VtyFixes(h) # <<>>
    BY <2>1
  <2> QED BY <1>1, <2>2, <2>3, <2>4 DEF Guarded
<1> QED BY <1>2, <1>3

(* Where nothing moves, what holds goes on holding.                         *)
LEMMA NarrowedStays ==
  ASSUME highest' = highest, device' = device, mode' = mode, range' = range
  PROVE  Narrowed' <=> Narrowed
BY DEF Narrowed, Counted

LEMMA WayStays ==
  ASSUME WayBackIn, highest' = highest, device' = device, transport' = transport
  PROVE  WayBackIn'
BY DEF WayBackIn, LinesOpen

LEMMA ShowsDoNotShut ==
  ASSUME NEW c \in Shows \cup {Nudge}
  PROVE  ~Shut(c)
BY DEF Shut, Shows, PagingOff, ShowVty, ShowSsh, ShowIpSsh, Cmd

(* The switch is where the guard wants it once it has taken the narrow      *)
(* range: in those lines, or, having refused it at EXEC, in none.           *)
LEMMA NarrowTaken ==
  ASSUME SwitchTyped, device \in Switches, NEW c \in Commands, Takes(c), Narrows(c, highest),
         device \in Device, highest \in Nat, UNCHANGED <<device, highest>>
  PROVE  Narrowed'
<1>0. SUFFICES ASSUME Counted PROVE Narrowed'
  BY DEF Narrowed, Counted
<1>6. c.hi <= MostVty[device]
  BY <1>0, MostTyped DEF Counted, Narrows, Commands
<1>1. c.verb = "line-vty" /\ c.lo = Sessions /\ c \notin Rejects[device]
  BY RejectsTyped DEF Narrows
<1>2. c \notin Shows
  BY <1>1 DEF Shows, PagingOff, ShowVty, ShowSsh, ShowIpSsh, Cmd
<1>3. Accepted(c) <=> mode # "exec"
  BY <1>1, <1>2, <1>6 DEF Accepted, InConfig
<1>4. CASE mode = "exec"
  BY <1>3, <1>4 DEF Takes, Narrowed
<1>5. CASE mode # "exec"
  <2>1. range' = Sessions..c.hi
    BY <1>1, <1>3, <1>5 DEF Takes
  <2>2. c.hi \in Nat
    BY DEF Commands
  <2> QED BY <2>1, <2>2, SessionsNat DEF Narrowed
<1> QED BY <1>4, <1>5

LEMMA InboxAdvances ==
  ASSUME Typed, ShutGuarded, inbox # <<>>, inbox' = Tail(inbox), push' = push, pc' = pc,
         highest' = highest, device' = device, device \notin Switches => mode' = "exec",
         Narrows(Head(inbox), highest) => Narrowed'
  PROVE  ShutGuarded'
<1>1. inbox \in Seq(Commands \cup {Nudge}) /\ push \in Seq(Commands)
  BY TypedParts DEF ConsoleTyped, StreamsTyped, NotesTyped
<1>2. /\ Len(Tail(inbox)) = Len(inbox) - 1 /\ Head(inbox) = inbox[1]
      /\ Len(inbox) \in Nat \ {0} /\ \A i \in 1..(Len(inbox) - 1) : Tail(inbox)[i] = inbox[i + 1]
  BY <1>1
<1>3. Guarded(inbox', highest)
  <2> SUFFICES ASSUME NEW i \in 2..Len(inbox'), Shut(inbox'[i])
               PROVE  Narrows(inbox'[i - 1], highest)
    BY DEF Guarded
  <2>1. inbox'[i] = inbox[i + 1] /\ inbox'[i - 1] = inbox[i] /\ i + 1 \in 2..Len(inbox)
    BY <1>2
  <2>2. Shut(inbox[i + 1]) => Narrows(inbox[(i + 1) - 1], highest)
    BY <2>1 DEF ShutGuarded, Guarded
  <2> QED BY <2>1, <2>2
<1>4. HeadGuarded(inbox)'
  <2> SUFFICES ASSUME inbox' # <<>>, Shut(inbox'[1])
               PROVE  Narrowed'
    BY DEF HeadGuarded
  <2>1. Len(inbox) > 1 /\ inbox'[1] = inbox[2]
    BY <1>1, <1>2
  <2>2. Shut(inbox[2]) => Narrows(inbox[2 - 1], highest)
    BY <1>2, <2>1 DEF ShutGuarded, Guarded
  <2> QED BY <1>2, <2>1, <2>2
<1>5. inbox' = <<>> => HeadGuarded(push)'
  <2> SUFFICES ASSUME inbox' = <<>>, push # <<>>, Shut(push[1])
               PROVE  Narrowed'
    BY DEF HeadGuarded
  <2>1. Len(inbox') = 0 /\ Len(inbox') = Len(inbox) - 1
    BY <1>2
  <2>2. Narrows(inbox[Len(inbox)], highest)
    BY DEF ShutGuarded
  <2>3. Narrows(Head(inbox), highest)
    BY <1>2, <2>1, <2>2
  <2> QED BY <2>3
<1>6. inbox' # <<>> /\ push' # <<>> => (Shut(push'[1]) => Narrows(inbox'[Len(inbox')], highest))
  <2> SUFFICES ASSUME inbox' # <<>>, push # <<>>, Shut(push[1])
               PROVE  Narrows(inbox'[Len(inbox')], highest)
    OBVIOUS
  <2>1. inbox'[Len(inbox')] = inbox[Len(inbox)]
    BY <1>1, <1>2
  <2> QED BY <2>1 DEF ShutGuarded
<1>7. device' \notin Switches => mode' = "exec"
  OBVIOUS
<1>8. pc' \in Reading => highest' = 0 /\ \A i \in DOMAIN push' : ~Shut(push'[i])
  BY DEF ShutGuarded
<1>9. Guarded(push', highest')
  BY DEF ShutGuarded
<1>10. HeadGuarded(inbox)' /\ (inbox' = <<>> => HeadGuarded(push)')
  BY <1>4, <1>5
<1>11. Guarded(inbox', highest')
  BY <1>3
<1>12. inbox' # <<>> /\ push' # <<>> =>
         (Shut(push'[1]) => Narrows(inbox'[Len(inbox')], highest'))
  BY <1>6
<1> HIDE DEF Narrows, Guarded, HeadGuarded, Shut, Narrowed
<1> QED BY <1>7, <1>8, <1>9, <1>10, <1>11, <1>12, Zenon DEF ShutGuarded

LEMMA DeviceWay ==
  ASSUME Typed, ShutGuarded, WayBackIn,
         DeviceNudged \/ DeviceAnswers \/ DeviceCloses \/ StrangerAnswers
  PROVE  ShutGuarded' /\ WayBackIn'
<1>1. /\ inbox # <<>> /\ UNCHANGED <<device, notes, pc, highest>> /\ push' = push
      /\ ConsoleTyped(Commands, Tokens) /\ SwitchTyped /\ NotesTyped
  BY DeviceTakes, TypedParts, Zenon DEF notes
<1>2. CASE DeviceNudged
  <2>1. inbox' = Tail(inbox) /\ Head(inbox) = Nudge /\ UNCHANGED switch
    BY <1>2 DEF DeviceNudged, Answers
  <2>2. ~Narrows(Head(inbox), highest)
    BY <2>1 DEF Narrows
  <2>3. device' \notin Switches => mode' = "exec"
    BY <1>1, <2>1 DEF switch, ShutGuarded
  <2>4. WayBackIn'
    BY <1>1, <2>1, WayStays DEF switch
  <2> QED BY <1>1, <2>1, <2>2, <2>3, <2>4, InboxAdvances
<1>3. CASE DeviceAnswers
  <2> DEFINE c == Head(inbox)
  <2>1. /\ inbox' = Tail(inbox) /\ c # Nudge /\ device \in Switches /\ Takes(c)
    BY <1>3 DEF DeviceAnswers, Answers
  <2>2. c \in Commands /\ c = inbox[1]
    BY <1>1, <2>1, SentTyped DEF ConsoleTyped, StreamsTyped
  <2>3. Narrows(c, highest) => Narrowed'
    <3>1. device \in Device /\ highest \in Nat
      BY <1>1 DEF ConsoleTyped, StreamsTyped, NotesTyped
    <3> HIDE DEF c
    <3> QED BY <1>1, <2>1, <2>2, <3>1, NarrowTaken
  <2>4. ShutGuarded'
    BY <1>1, <2>1, <2>3, InboxAdvances
  <2>5. ASSUME Counted, NEW l \in DOMAIN transport, l < Sessions, transport'[l] = "none"
        PROVE  FALSE
    <3>1. transport[l] # "none"
      BY <2>5 DEF WayBackIn, LinesOpen, Counted
    <3>2. Accepted(c) /\ l \in range /\ c.verb = "transport-input-none"
      <4> HIDE DEF c
      <4> QED BY <2>1, <2>5, <3>1 DEF Takes
    <3>3. mode = "line"
      BY <3>2 DEF Accepted, InConfig, Shows, PagingOff, ShowVty, ShowSsh, ShowIpSsh, Cmd
    <3>4. Shut(inbox[1])
      BY <2>1, <2>2, <3>2 DEF Shut
    <3>5. l >= Sessions
      BY <1>1, <2>5, <3>2, <3>3, <3>4 DEF ShutGuarded, HeadGuarded, Narrowed
    <3>6. l \in Nat
      <4>1. DOMAIN transport = 0..HighestVty[device] /\ HighestVty[device] \in Nat
        BY <1>1, HighestTyped DEF SwitchTyped, ConsoleTyped, StreamsTyped
      <4> QED BY <4>1
    <3> QED BY <2>5, <3>5, <3>6, SessionsNat
  <2>6. DOMAIN transport' = DOMAIN transport
    BY <2>1 DEF Takes
  <2>7. Counted' <=> Counted
    BY <1>1 DEF Counted
  <2> QED BY <2>4, <2>5, <2>6, <2>7 DEF WayBackIn, LinesOpen, Counted
<1>4. CASE DeviceCloses
  <2>1. inbox' = inbox /\ UNCHANGED switch
    BY <1>4 DEF DeviceCloses
  <2>2. Narrowed' <=> Narrowed
    BY <1>1, <2>1, NarrowedStays DEF switch
  <2>3. WayBackIn'
    BY <1>1, <2>1, WayStays DEF switch
  <2> QED BY <1>1, <2>1, <2>2, <2>3 DEF switch, ShutGuarded, HeadGuarded
<1>5. CASE StrangerAnswers
  <2>1. inbox' = Tail(inbox) /\ device \notin Switches /\ UNCHANGED switch
    BY <1>5 DEF StrangerAnswers, Answers
  <2>2. mode = "exec" /\ mode' = "exec" /\ transport' = transport
    BY <2>1 DEF ShutGuarded, switch
  <2>3. Narrowed'
    BY <2>2 DEF Narrowed
  <2>4. WayBackIn'
    BY <1>1, <2>2, WayStays
  <2> QED BY <1>1, <2>1, <2>2, <2>3, <2>4, InboxAdvances
<1> QED BY <1>2, <1>3, <1>4, <1>5

(* A quiet step sends nothing, a nudge or a show command.                   *)
LEMMA QuietSends ==
  ASSUME Typed, QuietStep
  PROVE  /\ UNCHANGED <<switch, notes, complaints>> /\ device' = device
         /\ \/ inbox' = inbox /\ (pc' \in Reading => pc \in Reading)
            \/ /\ \E c \in Shows \cup {Nudge} : inbox' = Append(inbox, c)
               /\ pc \in (Reading \cup Checking)
               /\ pc' \in Reading => pc \in Reading
<1>1. UNCHANGED <<switch, notes, complaints>> /\ device' = device
  BY Zenon DEF QuietStep, RefusesUserExec, IdentifyTimesOut, VtyTimesOut, AnswerTimesOut,
               SshTimesOut, TurnPagingOff, AskVty, AskSsh, AskIpSsh, TimesOut, Sends, far,
               OptionRefused, LoginRejected, ConnectFails, ReadingPrompt, StartPolling,
               SeesPrompt, KeepsWaiting, NoPrompt, RestoreSync, Arrive, Drop
<1>2. CASE RefusesUserExec \/ IdentifyTimesOut \/ VtyTimesOut \/ AnswerTimesOut \/ SshTimesOut
  BY <1>1, <1>2 DEF RefusesUserExec, IdentifyTimesOut, VtyTimesOut, AnswerTimesOut, SshTimesOut,
                    TimesOut, Ends, Goes, far, Reading
<1>3. CASE OptionRefused \/ LoginRejected \/ ConnectFails
  BY <1>1, <1>3 DEF OptionRefused, LoginRejected, ConnectFails, Ends, far, Dialling, Reading
<1>4. CASE ReadingPrompt
  <2>1. pc \in {"connected", "poll", "restore"}
    BY <1>4 DEF ReadingPrompt, StartPolling, SeesPrompt, KeepsWaiting, NoPrompt, RestoreSync
  <2>2. inbox' = inbox \/ inbox' = Append(inbox, Nudge)
    BY <1>4, Zenon DEF ReadingPrompt, StartPolling, SeesPrompt, KeepsWaiting, NoPrompt,
                       RestoreSync, far
  <2> QED BY <1>1, <2>1, <2>2 DEF Reading
<1>5. CASE Arrive \/ Drop
  <2>1. inbox' = inbox /\ pc' = pc
    BY <1>5, Zenon DEF Arrive, Drop
  <2> QED BY <1>1, <2>1
<1>6. CASE TurnPagingOff \/ AskVty \/ AskSsh \/ AskIpSsh
  <2>1. \E c \in Shows : inbox' = Append(inbox, c)
    BY <1>6, ShowsKnown DEF TurnPagingOff, AskVty, AskSsh, AskIpSsh, Sends
  <2>2. /\ pc \in {"ready", "ask-vty"} \cup {"ask-ssh", "ask-ip-ssh"}
        /\ pc' \in Reading => pc \in Reading
    BY <1>6 DEF TurnPagingOff, AskVty, AskSsh, AskIpSsh, Goes, Reading
  <2> QED BY <1>1, <2>1, <2>2 DEF Reading, Checking
<1> QED BY <1>2, <1>3, <1>4, <1>5, <1>6, Zenon DEF QuietStep

LEMMA QuietWay ==
  ASSUME Typed, VisitShape, ShutGuarded, WayBackIn, QuietStep
  PROVE  ShutGuarded' /\ WayBackIn'
<1>1. inbox \in Seq(Commands \cup {Nudge}) /\ push \in Seq(Commands)
  BY TypedParts DEF ConsoleTyped, StreamsTyped, NotesTyped
<1>2. /\ mode' = mode /\ range' = range /\ transport' = transport /\ push' = push
      /\ device' = device /\ highest' = highest
  BY QuietSends, Zenon DEF switch, notes
<1>3. (Narrowed' <=> Narrowed) /\ WayBackIn'
  BY <1>2, NarrowedStays, WayStays
<1>4. CASE inbox' = inbox /\ (pc' \in Reading => pc \in Reading)
  BY <1>2, <1>3, <1>4 DEF ShutGuarded, HeadGuarded
<1>5. CASE /\ \E c \in Shows \cup {Nudge} : inbox' = Append(inbox, c)
           /\ pc \in (Reading \cup Checking)
           /\ pc' \in Reading => pc \in Reading
  <2>1. PICK c \in Shows \cup {Nudge} : inbox' = Append(inbox, c)
    BY <1>5
  <2>2. ~Shut(c) /\ c \in Commands \cup {Nudge}
    BY ShowsDoNotShut, ShowsTyped
  <2>3. push = <<>> \/ \A i \in DOMAIN push : ~Shut(push[i])
    BY <1>5 DEF VisitShape, ShutGuarded
  <2>4. push # <<>> => ~Shut(push[1])
    BY <1>1, <2>3
  <2>5. /\ Len(inbox') = Len(inbox) + 1 /\ inbox'[Len(inbox) + 1] = c /\ Len(inbox) \in Nat
        /\ \A i \in 1..Len(inbox) : inbox'[i] = inbox[i]
    BY <1>1, <2>1, <2>2
  <2>6. Guarded(inbox', highest)
    <3> SUFFICES ASSUME NEW i \in 2..Len(inbox'), Shut(inbox'[i])
                 PROVE  Narrows(inbox'[i - 1], highest)
      BY DEF Guarded
    <3>1. i \in 2..Len(inbox)
      BY <2>2, <2>5
    <3>2. Shut(inbox[i]) => Narrows(inbox[i - 1], highest)
      BY <3>1 DEF ShutGuarded, Guarded
    <3> QED BY <2>5, <3>1, <3>2
  <2>7. HeadGuarded(inbox)'
    <3>1. inbox = <<>> => ~Shut(inbox'[1])
      BY <2>2, <2>5
    <3>2. inbox # <<>> => inbox'[1] = inbox[1]
      BY <1>1, <2>5
    <3> QED BY <1>3, <3>1, <3>2 DEF ShutGuarded, HeadGuarded
  <2>8. inbox' # <<>>
    BY <1>1, <2>1
  <2> HIDE DEF Guarded, HeadGuarded
  <2> QED BY <1>2, <1>3, <1>5, <2>3, <2>4, <2>6, <2>7, <2>8 DEF ShutGuarded
<1> QED BY <1>4, <1>5, QuietSends

(* What is prepared before the switch is known: it shuts nothing.           *)
LEMMA FirstPush ==
  LET first == <<Cmd("configure-terminal")>> \o BaseCommands \o <<Cmd("end")>>
  IN  /\ first \in Seq(Commands) /\ first # <<>> /\ first[Len(first)] = Cmd("end")
      /\ \A i \in DOMAIN first : ~Shut(first[i])
<1> DEFINE a == <<Cmd("configure-terminal")>> \o BaseCommands
           z == <<Cmd("end")>>
<1>1. \A i \in 1..Len(BaseCommands) : ~Shut(BaseCommands[i])
  BY DEF BaseCommands, Shut, Cmd, Ssh2, Mac, Enc
<1>2. Cmd("configure-terminal") \in Commands /\ Cmd("end") \in Commands
      /\ ~Shut(Cmd("configure-terminal")) /\ ~Shut(Cmd("end"))
  BY VerbsKnown, CmdTyped DEF Shut, Cmd
<1>3. a \in Seq(Commands) /\ \A i \in 1..Len(a) : ~Shut(a[i])
  <2> DEFINE y == <<Cmd("configure-terminal")>>
  <2>1. y \in Seq(Commands) /\ Len(y) = 1 /\ y[1] = Cmd("configure-terminal")
    BY <1>2
  <2> HIDE DEF y
  <2>2. /\ y \o BaseCommands \in Seq(Commands)
        /\ Len(y \o BaseCommands) = Len(y) + Len(BaseCommands)
        /\ \A i \in 1..(Len(y) + Len(BaseCommands)) :
             (y \o BaseCommands)[i] = IF i <= Len(y) THEN y[i] ELSE BaseCommands[i - Len(y)]
    BY <2>1, BaseTyped, ConcatProperties
  <2>3. Len(BaseCommands) \in Nat
    BY BaseTyped
  <2>4. \A i \in 1..(Len(y) + Len(BaseCommands)) : ~Shut((y \o BaseCommands)[i])
    BY <1>1, <1>2, <2>1, <2>2, <2>3
  <2> QED BY <2>2, <2>4 DEF y
<1>4. z \in Seq(Commands) /\ Len(z) = 1 /\ z[1] = Cmd("end")
  BY <1>2
<1> HIDE DEF a, z
<1>5. /\ a \o z \in Seq(Commands) /\ Len(a \o z) = Len(a) + 1
      /\ \A i \in 1..(Len(a) + 1) : (a \o z)[i] = IF i <= Len(a) THEN a[i] ELSE z[i - Len(a)]
  <2>1. z \in Seq(Commands) /\ a \in Seq(Commands)
    BY <1>3, <1>4
  <2>2. /\ a \o z \in Seq(Commands) /\ Len(a \o z) = Len(a) + Len(z)
        /\ \A i \in 1..(Len(a) + Len(z)) :
             (a \o z)[i] = IF i <= Len(a) THEN a[i] ELSE z[i - Len(a)]
    BY <2>1, ConcatProperties
  <2> QED BY <1>4, <2>2
<1>6. (a \o z)[Len(a \o z)] = Cmd("end") /\ a \o z # <<>>
  BY <1>3, <1>4, <1>5
<1>7. \A i \in DOMAIN (a \o z) : ~Shut((a \o z)[i])
  <2>1. DOMAIN (a \o z) = 1..(Len(a) + 1) /\ Len(a) \in Nat
    BY <1>3, <1>5
  <2>2. \A i \in 1..(Len(a) + 1) : i <= Len(a) \/ i - Len(a) = 1
    BY <2>1
  <2> QED BY <1>2, <1>3, <1>4, <1>5, <2>1, <2>2
<1> QED BY <1>5, <1>6, <1>7 DEF a, z

LEMMA ScriptWay ==
  ASSUME Typed, VisitShape, ShutGuarded, WayBackIn,
         \/ Connects \/ NextSwitch \/ Identify \/ ReadVty \/ PushCommand \/ ReadAnswer
         \/ ReadSsh \/ ReadIpSsh \/ IpSshTimesOut
  PROVE  ShutGuarded' /\ WayBackIn'
<1>1. /\ inbox \in Seq(Commands \cup {Nudge}) /\ push \in Seq(Commands)
      /\ ConsoleTyped(Commands, Tokens) /\ device \in Device
  BY TypedParts DEF ConsoleTyped, StreamsTyped, NotesTyped
<1>2. CASE Connects
  <2>1. /\ inbox = <<>> /\ push = <<>> /\ inbox' = inbox /\ push' = push /\ mode' = "exec"
        /\ highest' = 0
    BY <1>2 DEF Connects, Connected, VisitShape, Dialling
  <2>2. WayBackIn'
    <3>1. transport' = [l \in 0..HighestVty[device'] |-> "all"]
      BY <1>2 DEF Connects
    <3> QED BY <3>1 DEF WayBackIn, LinesOpen
  <2> QED BY <1>1, <2>1, <2>2 DEF ShutGuarded, Guarded, HeadGuarded
<1>3. CASE NextSwitch
  <2>1. /\ inbox' = <<>> /\ push' = <<>> /\ UNCHANGED switch /\ device' = device
        /\ highest' = highest /\ pc' = "connect"
    BY <1>3 DEF NextSwitch, NextVisit
  <2>2. WayBackIn'
    BY <2>1, WayStays DEF switch
  <2> QED BY <2>1, <2>2 DEF ShutGuarded, Guarded, HeadGuarded, switch, Reading
<1>4. CASE Identify
  <2>1. /\ UNCHANGED switch /\ device' = device /\ inbox' = inbox /\ pc = "identify"
        /\ highest' = highest
        /\ push' = push \/ push' = <<Cmd("configure-terminal")>> \o BaseCommands \o <<Cmd("end")>>
    BY <1>4, Zenon DEF Identify, Consumes
  <2>2. push = <<>>
    BY <2>1 DEF VisitShape
  <2>3. \A i \in DOMAIN push' : ~Shut(push'[i])
    <3>1. CASE push' = push
      BY <2>2, <3>1
    <3>2. CASE push' = <<Cmd("configure-terminal")>> \o BaseCommands \o <<Cmd("end")>>
      BY <3>2, FirstPush, Zenon
    <3> QED BY <2>1, <3>1, <3>2
  <2>4. Guarded(push', highest) /\ (push' # <<>> => ~Shut(push'[1]))
    <3>1. push' \in Seq(Commands)
      BY <1>1, <2>1, FirstPush
    <3> QED BY <2>3, <3>1, NothingShut
  <2>5. /\ mode' = mode /\ range' = range /\ transport' = transport
    BY <2>1 DEF switch
  <2>6. (Narrowed' <=> Narrowed) /\ WayBackIn'
    BY <2>1, <2>5, NarrowedStays, WayStays
  <2>7. highest = 0
    BY <2>1 DEF ShutGuarded, Reading
  <2> QED BY <1>1, <2>1, <2>3, <2>4, <2>5, <2>6, <2>7 DEF ShutGuarded, HeadGuarded
<1>5. CASE ReadVty
  <2> DEFINE numbers == NumbersIn(StripEcho(VtyText, ShowVty))
             top == IF numbers = {} THEN 4 ELSE CHOOSE n \in numbers : \A m \in numbers : m <= n
             kept == SubSeq(push, 1, Len(push) - 1)
  <2>1. top \in Nat
    BY <1>1, NumbersTop
  <2>2. /\ push' = push \/ push' = kept \o VtyFixes(top) \o <<Cmd("end")>>
        /\ UNCHANGED switch /\ device' = device /\ inbox' = inbox
        /\ pc = "read-vty" /\ pc' = "push" /\ highest' = top
    BY <1>5, Zenon DEF ReadVty, Goes, Consumes
  <2>3. \A i \in DOMAIN push : ~Shut(push[i])
    BY <2>2 DEF ShutGuarded, Reading
  <2> HIDE DEF top, numbers
  <2>4. Guarded(push', top) /\ push' \in Seq(Commands) /\ (push' # <<>> => ~Shut(push'[1]))
    <3>1. kept \in Seq(Commands) /\ \A i \in DOMAIN kept : kept[i] = push[i] /\ i \in DOMAIN push
      BY <1>1
    <3>2. Guarded(kept, top) /\ (kept # <<>> => ~Shut(kept[1]))
      <4> HIDE DEF kept
      <4>1. \A i \in DOMAIN kept : ~Shut(kept[i])
        BY <2>3, <3>1
      <4>2. DOMAIN kept = 1..Len(kept) /\ Len(kept) \in Nat /\ (kept # <<>> => 1 \in DOMAIN kept)
        BY <3>1
      <4> QED BY <4>1, <4>2, NothingShut
    <3>3. /\ Guarded(VtyFixes(top), top) /\ ~Shut(VtyFixes(top)[1]) /\ VtyFixes(top) \in Seq(Commands)
          /\ VtyFixes(top) # <<>>
      BY <2>1, FixesGuarded
    <3> DEFINE z == <<Cmd("end")>>
    <3>4. z \in Seq(Commands) /\ Guarded(z, top) /\ ~Shut(z[1])
      BY EndTyped DEF Guarded, Shut, Cmd
    <3> HIDE DEF kept, z
    <3>5. Guarded(kept \o VtyFixes(top), top) /\ kept \o VtyFixes(top) \in Seq(Commands)
      BY <3>1, <3>2, <3>3, GuardedConcat
    <3>6. /\ Guarded((kept \o VtyFixes(top)) \o z, top)
          /\ (kept \o VtyFixes(top)) \o z \in Seq(Commands)
      <4> DEFINE u == kept \o VtyFixes(top)
      <4>1. u \in Seq(Commands) /\ Guarded(u, top)
        BY <3>5
      <4> HIDE DEF u
      <4>2. u \o z \in Seq(Commands)
        BY <3>4, <4>1, ConcatProperties
      <4>3. Guarded(u \o z, top)
        BY <3>4, <4>1, GuardedConcat
      <4> QED BY <4>2, <4>3 DEF u
    <3>7. ~Shut(((kept \o VtyFixes(top)) \o z)[1])
      <4> DEFINE v == VtyFixes(top)
      <4>0. /\ Len(kept \o v) = Len(kept) + Len(v) /\ Len(kept) \in Nat /\ Len(v) \in Nat \ {0}
            /\ \A i \in 1..(Len(kept) + Len(v)) :
                 (kept \o v)[i] = IF i <= Len(kept) THEN kept[i] ELSE v[i - Len(kept)]
            /\ (kept # <<>> <=> Len(kept) # 0)
        BY <3>1, <3>3, ConcatProperties
      <4>1. /\ (kept \o v)[1] = (IF kept = <<>> THEN v[1] ELSE kept[1])
            /\ Len(kept \o v) >= 1
        <5> HIDE DEF v
        <5> QED BY <4>0
      <4>2. ((kept \o VtyFixes(top)) \o z)[1] = (kept \o VtyFixes(top))[1]
        BY <3>4, <3>5, <4>1
      <4> QED BY <3>2, <3>3, <4>1, <4>2
    <3>8. Guarded(push, top) /\ (push # <<>> => ~Shut(push[1]))
      BY <1>1, <2>3, NothingShut
    <3> QED BY <1>1, <2>2, <3>6, <3>7, <3>8 DEF z
  <2>5. /\ mode' = mode /\ range' = range /\ transport' = transport
    BY <2>2 DEF switch
  <2>6. \A i \in DOMAIN inbox : ~Shut(inbox[i])
    BY <2>2, ShowsDoNotShut DEF VisitShape, Reading, OnlyShows
  <2>7. Guarded(inbox', top) /\ HeadGuarded(inbox)'
    <3>1. inbox # <<>> => 1 \in DOMAIN inbox
      BY <1>1
    <3>2. Guarded(inbox, top)
      BY <1>1, <2>6, NothingShut
    <3> QED BY <2>2, <2>6, <3>1, <3>2 DEF HeadGuarded
  <2>8. LinesOpen'
    <3>1. highest = 0
      BY <2>2 DEF ShutGuarded, Reading
    <3>2. MostVty[device] \in Nat
      BY <1>1, MostTyped
    <3> QED BY <2>5, <3>1, <3>2 DEF WayBackIn, LinesOpen
  <2>9. device' \notin Switches => mode' = "exec"
    BY <2>2, <2>5 DEF ShutGuarded
  <2> HIDE DEF Guarded
  <2> QED BY <2>2, <2>4, <2>7, <2>8, <2>9 DEF ShutGuarded, WayBackIn, HeadGuarded, Reading
<1>6. CASE PushCommand
  <2>1. /\ push # <<>> /\ inbox' = Append(inbox, Head(push)) /\ push' = Tail(push)
        /\ UNCHANGED switch /\ device' = device /\ pc' = "pushed" /\ highest' = highest
    BY <1>6, Zenon DEF PushCommand, Sends, Goes
  <2>8. (Narrowed' <=> Narrowed) /\ WayBackIn'
    BY <2>1, NarrowedStays, WayStays DEF switch
  <2>2. /\ Head(push) = push[1] /\ push[1] \in Commands
        /\ Len(push') = Len(push) - 1 /\ Len(push) \in Nat \ {0}
        /\ \A i \in 1..(Len(push) - 1) : push'[i] = push[i + 1]
    BY <1>1, <2>1
  <2>3. /\ Len(inbox') = Len(inbox) + 1 /\ inbox'[Len(inbox) + 1] = push[1]
        /\ Len(inbox) \in Nat /\ inbox' # <<>>
        /\ \A i \in 1..Len(inbox) : inbox'[i] = inbox[i]
    BY <1>1, <2>1, <2>2
  <2>4. Guarded(inbox', highest)
    <3> SUFFICES ASSUME NEW i \in 2..Len(inbox'), Shut(inbox'[i])
                 PROVE  Narrows(inbox'[i - 1], highest)
      BY DEF Guarded
    <3>1. CASE i <= Len(inbox)
      <4>1. Shut(inbox[i]) => Narrows(inbox[i - 1], highest)
        BY <2>3, <3>1 DEF ShutGuarded, Guarded
      <4> QED BY <2>3, <3>1, <4>1
    <3>2. CASE i = Len(inbox) + 1
      <4>1. inbox # <<>> /\ inbox'[i - 1] = inbox[Len(inbox)]
        BY <2>3, <3>2
      <4> QED BY <2>1, <2>3, <3>2, <4>1 DEF ShutGuarded
    <3> QED BY <2>3, <3>1, <3>2
  <2>5. Guarded(push', highest)
    <3> SUFFICES ASSUME NEW i \in 2..Len(push'), Shut(push'[i])
                 PROVE  Narrows(push'[i - 1], highest)
      BY DEF Guarded
    <3>1. push'[i] = push[i + 1] /\ push'[i - 1] = push[i] /\ i + 1 \in 2..Len(push)
      BY <2>2
    <3>2. Shut(push[i + 1]) => Narrows(push[(i + 1) - 1], highest)
      BY <3>1 DEF ShutGuarded, Guarded
    <3> QED BY <3>1, <3>2
  <2>6. HeadGuarded(inbox)'
    <3>1. CASE inbox = <<>>
      <4>1. inbox'[1] = push[1]
        BY <2>3, <3>1
      <4> QED BY <2>1, <2>8, <3>1, <4>1 DEF ShutGuarded, HeadGuarded
    <3>2. CASE inbox # <<>>
      <4>1. inbox'[1] = inbox[1]
        BY <1>1, <2>3, <3>2
      <4> QED BY <2>1, <2>8, <3>2, <4>1 DEF ShutGuarded, HeadGuarded
    <3> QED BY <3>1, <3>2
  <2>7. push' # <<>> => (Shut(push'[1]) => Narrows(inbox'[Len(inbox')], highest))
    <3> SUFFICES ASSUME push' # <<>>, Shut(push'[1])
                 PROVE  Narrows(push[1], highest)
      BY <2>3
    <3>1. push' \in Seq(Commands)
      BY <1>1, <2>1
    <3>2. Len(push) > 1 /\ push'[1] = push[2]
      BY <2>2, <3>1
    <3>3. Shut(push[2]) => Narrows(push[2 - 1], highest)
      BY <2>2, <3>2 DEF ShutGuarded, Guarded
    <3> QED BY <3>2, <3>3
  <2> HIDE DEF Guarded, HeadGuarded
  <2> QED BY <2>1, <2>3, <2>4, <2>5, <2>6, <2>7, <2>8 DEF ShutGuarded, Reading, switch
<1>7. CASE ReadAnswer \/ ReadSsh \/ ReadIpSsh \/ IpSshTimesOut
  <2>1. /\ UNCHANGED <<switch, push, highest>> /\ device' = device /\ inbox' = inbox
        /\ pc' \in {"push", "ask-ssh", "ask-ip-ssh", "done"}
    BY <1>7 DEF ReadAnswer, ReadSsh, ReadIpSsh, IpSshTimesOut, Goes, TimesOut, Ends, Consumes, far
  <2>2. (Narrowed' <=> Narrowed) /\ WayBackIn'
    BY <2>1, NarrowedStays, WayStays DEF switch
  <2> QED BY <2>1, <2>2 DEF ShutGuarded, HeadGuarded, Reading, switch
<1> QED BY <1>2, <1>3, <1>4, <1>5, <1>6, <1>7

WayInv == Typed /\ VisitShape /\ ShutGuarded /\ WayBackIn

LEMMA WayInit == Init => WayInv
<1> SUFFICES ASSUME Init PROVE WayInv
  OBVIOUS
<1>1. ShutGuarded /\ WayBackIn
  BY DEF Init, ConsoleInit, ShutGuarded, WayBackIn, LinesOpen, Guarded, HeadGuarded, Reading
<1> QED BY <1>1, TypedInit, ShapeInit DEF WayInv

LEMMA WayNext == WayInv /\ [Next]_vars => WayInv'
<1> SUFFICES ASSUME WayInv, [Next]_vars PROVE WayInv'
  OBVIOUS
<1>1. Typed' /\ VisitShape'
  BY TypedNext, ShapeNext DEF WayInv
<1>2. ShutGuarded' /\ WayBackIn'
  <2>1. CASE UNCHANGED vars
    <3>1. (Narrowed' <=> Narrowed) /\ WayBackIn'
      BY <2>1, NothingMoved, NarrowedStays, WayStays DEF WayInv
    <3> QED BY <2>1, <3>1, NothingMoved DEF WayInv, ShutGuarded, HeadGuarded
  <2>2. CASE Next
    BY <2>2, NextCases, QuietWay, ScriptWay, DeviceWay, Zenon DEF WayInv
  <2> QED BY <2>1, <2>2
<1> QED BY <1>1, <1>2 DEF WayInv

(* No step, and no push that dies half way, shuts one of the first Sessions *)
(* lines, whatever was read for the highest and whatever the image lacks, as *)
(* long as it has room for the line that was taken for the highest:          *)
(* `transport input none' is always right behind the range it is for.       *)
THEOREM LinesStayOpen == Spec => []WayBackIn
<1>1. WayInv => WayBackIn
  BY DEF WayInv
<1> QED BY <1>1, WayInit, WayNext, PTL DEF Spec
-----------------------------------------------------------------------------
(* The SSH claim. *)

LEMMA GreetingsTell == \A t \in Greetings : \A took : Tells(t, took)
BY DEF Greetings, Tells, Token

LEMMA ToldConcat ==
  ASSUME NEW s \in Seq(Tokens), NEW t \in Seq(Tokens), NEW took,
         Told(s, took), Told(t, took)
  PROVE  Told(s \o t, took)
<1>1. /\ DOMAIN (s \o t) = 1..(Len(s) + Len(t)) /\ Len(s) \in Nat /\ Len(t) \in Nat
      /\ \A k \in 1..(Len(s) + Len(t)) :
           (s \o t)[k] = IF k <= Len(s) THEN s[k] ELSE t[k - Len(s)]
  BY ConcatProperties
<1>2. /\ DOMAIN s = 1..Len(s) /\ DOMAIN t = 1..Len(t)
  OBVIOUS
<1> SUFFICES ASSUME NEW i \in 1..(Len(s) + Len(t))
             PROVE  Tells((s \o t)[i], took)
  BY <1>1 DEF Told
<1>3. CASE i <= Len(s)
  BY <1>1, <1>2, <1>3 DEF Told
<1>4. CASE i > Len(s)
  <2>1. i - Len(s) \in 1..Len(t) /\ (s \o t)[i] = t[i - Len(s)]
    BY <1>1, <1>4
  <2> QED BY <1>2, <2>1 DEF Told
<1> QED BY <1>1, <1>3, <1>4

(* What took effect stays, for as long as the visit lasts.                  *)
LEMMA ToldStays ==
  ASSUME NEW s, NEW took, NEW later, Told(s, took), took \subseteq later
  PROVE  Told(s, later)
BY DEF Told, Tells

LEMMA PrintedTold ==
  ASSUME NEW c \in Commands
  PROVE  Told(Printed(c), crypto)
<1>1. \A i \in DOMAIN Printed(c) : Printed(c)[i].kind \in TrueKinds \cup {"error"}
  BY PrintedTyped
<1> QED BY <1>1 DEF Told, Tells, TrueKinds

(* Every step but a new connection keeps what took effect, and what is in   *)
(* flight was in flight or is the switch's own answer.                      *)
LEMMA DeviceTold ==
  ASSUME Typed, ToldTrue, DeviceNudged \/ DeviceAnswers \/ DeviceCloses \/ StrangerAnswers
  PROVE  ToldTrue' /\ crypto \subseteq crypto'
<1>1. /\ ConsoleTyped(Commands, Tokens) /\ SwitchTyped /\ device \in Device
      /\ wire \in Seq(Tokens) /\ UNCHANGED <<held, status>>
  BY TypedParts, DeviceTakes DEF ConsoleTyped, StreamsTyped, terminal, notes
<1>2. crypto \subseteq crypto'
  BY DEF DeviceNudged, DeviceAnswers, DeviceCloses, StrangerAnswers, Takes, switch
<1>3. \A m : Told(<<PromptIn(m)>>, crypto) /\ <<PromptIn(m)>> \in Seq(Tokens)
  <2>1. Tells(Prompt(device), crypto) /\ Tells(Token("config", NoCommand), crypto)
    <3>1. Tells(Prompt(device), crypto)
      BY <1>1, GreetingTokens, GreetingsTell
    <3>2. Tells(Token("config", NoCommand), crypto)
      BY DEF Tells, Token
    <3> QED BY <3>1, <3>2
  <2> QED BY <1>1, <2>1, PromptInTyped DEF PromptIn, Told
<1>4. \E reply \in Seq(Tokens) : Told(reply, crypto) /\ (wire' = wire \o reply \/ wire' = wire)
  <2>1. CASE DeviceNudged
    BY <1>3, <2>1 DEF DeviceNudged, Answers
  <2>2. CASE DeviceAnswers
    <3> DEFINE c == Head(inbox)
               e == <<Token("echo", c)>>
               z == <<PromptIn(mode')>>
    <3>1. c \in Commands /\ wire' = wire \o (e \o Printed(c) \o z)
      BY <1>1, <2>2, SentTyped DEF DeviceAnswers, Answers, Printed
    <3>2. e \in Seq(Tokens) /\ Told(e, crypto)
      <4>1. e \in Seq(Tokens)
        BY <3>1, EchoTyped
      <4>2. Tells(Token("echo", c), crypto)
        BY DEF Tells, Token
      <4> QED BY <4>1, <4>2 DEF Told
    <3>3. Printed(c) \in Seq(Tokens) /\ Told(Printed(c), crypto)
      BY <3>1, PrintedTyped, PrintedTold
    <3>4. z \in Seq(Tokens) /\ Told(z, crypto)
      BY <1>3
    <3> HIDE DEF e, z, c
    <3>5. e \o Printed(c) \in Seq(Tokens) /\ Told(e \o Printed(c), crypto)
      BY <3>2, <3>3, ToldConcat, ConcatProperties
    <3>6. e \o Printed(c) \o z \in Seq(Tokens) /\ Told(e \o Printed(c) \o z, crypto)
      BY <3>4, <3>5, ToldConcat, ConcatProperties
    <3> QED BY <3>1, <3>6
  <2>3. CASE DeviceCloses
    BY <1>3, <2>3 DEF DeviceCloses
  <2>4. CASE StrangerAnswers
    <3> DEFINE c == Head(inbox)
               reply == <<Token("echo", c), Token("complaint", c), Prompt(device)>>
    <3>1. c \in Commands /\ wire' = wire \o reply
      BY <1>1, <2>4, SentTyped DEF StrangerAnswers, Answers
    <3>2. Token("echo", c) \in Tokens /\ Token("complaint", c) \in Tokens
      BY <3>1, EchoTyped
    <3>3. Prompt(device) \in Tokens /\ Tells(Prompt(device), crypto)
      BY <1>1, GreetingTokens, GreetingsTyped, GreetingsTell
    <3>4. Tells(Token("echo", c), crypto) /\ Tells(Token("complaint", c), crypto)
      BY DEF Tells, Token
    <3>5. reply \in Seq(Tokens) /\ Told(reply, crypto)
      BY <3>2, <3>3, <3>4 DEF Told
    <3> HIDE DEF reply
    <3> QED BY <3>1, <3>5
  <2> QED BY <2>1, <2>2, <2>3, <2>4
<1>5. Told(wire', crypto)
  <2>1. PICK reply \in Seq(Tokens) :
               Told(reply, crypto) /\ (wire' = wire \o reply \/ wire' = wire)
    BY <1>4
  <2>2. Told(wire \o reply, crypto)
    BY <1>1, <2>1, ToldConcat DEF ToldTrue
  <2> QED BY <2>1, <2>2 DEF ToldTrue
<1>6. Told(wire', crypto') /\ Told(held, crypto') /\ Told(status, crypto')
  BY <1>2, <1>5, ToldStays DEF ToldTrue
<1> QED BY <1>1, <1>2, <1>6 DEF ToldTrue

(* The script moves text, and cannot change what it says.                   *)
LEMMA QuietTold ==
  ASSUME Typed, ToldTrue, QuietStep
  PROVE  ToldTrue' /\ crypto' = crypto /\ row' = row
<1>1. /\ wire \in Seq(Tokens) /\ held \in Seq(Tokens)
      /\ Told(wire, crypto) /\ Told(held, crypto) /\ Told(status, crypto)
  BY TypedParts DEF ConsoleTyped, StreamsTyped, ToldTrue
<1>2. UNCHANGED <<switch, notes, complaints>>
  BY Zenon DEF QuietStep, RefusesUserExec, IdentifyTimesOut, VtyTimesOut, AnswerTimesOut,
               SshTimesOut, TurnPagingOff, AskVty, AskSsh, AskIpSsh
<1>3. \/ UNCHANGED <<wire, held>>
      \/ wire' = wire /\ held' = <<>>
      \/ wire # <<>> /\ wire' = Tail(wire) /\ (held' = Append(held, Head(wire)) \/ held' = held)
  <2>1. CASE RefusesUserExec \/ IdentifyTimesOut \/ VtyTimesOut \/ AnswerTimesOut \/ SshTimesOut
    BY <2>1, Zenon DEF RefusesUserExec, IdentifyTimesOut, VtyTimesOut, AnswerTimesOut,
                       SshTimesOut, TimesOut, far, terminal
  <2>2. CASE OptionRefused \/ LoginRejected \/ ConnectFails
    BY <2>2, Zenon DEF OptionRefused, LoginRejected, ConnectFails, far, terminal
  <2>3. CASE ReadingPrompt
    BY <2>3, Zenon DEF ReadingPrompt, StartPolling, SeesPrompt, KeepsWaiting, NoPrompt,
                       RestoreSync, far, terminal
  <2>4. CASE Arrive \/ Drop
    BY <2>4 DEF Arrive, Drop, terminal
  <2>5. CASE TurnPagingOff \/ AskVty \/ AskSsh \/ AskIpSsh
    BY <2>5, Zenon DEF TurnPagingOff, AskVty, AskSsh, AskIpSsh, Sends, terminal
  <2> QED BY <2>1, <2>2, <2>3, <2>4, <2>5 DEF QuietStep
<1>4. Told(wire', crypto) /\ Told(held', crypto)
  <2>1. CASE UNCHANGED <<wire, held>> \/ (wire' = wire /\ held' = <<>>)
    BY <1>1, <2>1 DEF Told
  <2>2. CASE wire # <<>> /\ wire' = Tail(wire)
             /\ (held' = Append(held, Head(wire)) \/ held' = held)
    <3>1. Told(Tail(wire), crypto) /\ Tells(Head(wire), crypto)
      <4>1. /\ Len(wire) \in Nat \ {0} /\ Head(wire) = wire[1]
            /\ DOMAIN Tail(wire) = 1..(Len(wire) - 1)
            /\ \A i \in 1..(Len(wire) - 1) : Tail(wire)[i] = wire[i + 1]
            /\ DOMAIN wire = 1..Len(wire)
        BY <1>1, <2>2, HeadTailProperties
      <4> QED BY <1>1, <4>1 DEF Told
    <3>2. Told(Append(held, Head(wire)), crypto)
      <4>1. /\ Len(held) \in Nat /\ DOMAIN held = 1..Len(held)
            /\ DOMAIN Append(held, Head(wire)) = 1..(Len(held) + 1)
            /\ \A i \in 1..Len(held) : Append(held, Head(wire))[i] = held[i]
            /\ Append(held, Head(wire))[Len(held) + 1] = Head(wire)
        BY <1>1, <2>2, AppendProperties
      <4>2. \A i \in 1..(Len(held) + 1) : i \in 1..Len(held) \/ i = Len(held) + 1
        BY <4>1
      <4> QED BY <1>1, <3>1, <4>1, <4>2 DEF Told
    <3> QED BY <1>1, <2>2, <3>1, <3>2
  <2> QED BY <1>3, <2>1, <2>2
<1> QED BY <1>1, <1>2, <1>4 DEF ToldTrue, switch, notes

LEMMA ReadTold ==
  ASSUME Typed, ToldTrue, NEW stops, StopAt(stops) # {}, NEW c
  PROVE  /\ Told(StripEcho(Got(stops), c), crypto)
         /\ Consumes(stops) => Told(held', crypto)
<1>1. held \in Seq(Tokens) /\ Told(held, crypto)
  BY TypedParts DEF ConsoleTyped, StreamsTyped, ToldTrue
<1>2. Told(StripEcho(Got(stops), c), crypto)
  <2>1. \A n \in DOMAIN StripEcho(Got(stops), c) : \E j \in DOMAIN held :
            StripEcho(Got(stops), c)[n] = held[j]
    BY <1>1, ReadsWhatIsHeld
  <2> QED BY <1>1, <2>1 DEF Told
<1>3. ASSUME Consumes(stops)
      PROVE  Told(held', crypto)
  <2>1. PICK i \in 1..Len(held) : held' = SubSeq(held, i + 1, Len(held))
    BY <1>1, <1>3, StopsAt
  <2>2. /\ DOMAIN held' = 1..(Len(held) - i) /\ DOMAIN held = 1..Len(held)
        /\ \A n \in 1..(Len(held) - i) : held'[n] = held[i + n] /\ i + n \in 1..Len(held)
    BY <1>1, <2>1
  <2> QED BY <1>1, <2>2 DEF Told
<1> QED BY <1>2, <1>3

LEMMA ScriptTold ==
  ASSUME Typed, VisitShape, ToldTrue,
         \/ Connects \/ NextSwitch \/ Identify \/ ReadVty \/ PushCommand \/ ReadAnswer
         \/ ReadSsh \/ ReadIpSsh \/ IpSshTimesOut
  PROVE  ToldTrue'
<1>1. Told(wire, crypto) /\ Told(held, crypto) /\ Told(status, crypto)
  BY DEF ToldTrue
<1>2. \A took : Told(<<>>, took)
  BY DEF Told
<1>3. CASE Connects
  <2>1. pc \in Dialling
    BY <1>3 DEF Connects, Connected, Dialling
  <2>2. held = <<>> /\ status = <<>>
    BY <2>1 DEF VisitShape
  <2>3. held' = held /\ status' = status
    BY <1>3, Zenon DEF Connects, Connected, terminal, notes
  <2>4. PICK b \in Banners : /\ device' \in Device
                             /\ wire' = [i \in DOMAIN b |-> Token(b[i], NoCommand)]
                                            \o <<Prompt(device')>>
    BY <1>3, Zenon DEF Connects, Connected
  <2>5. wire' \in Seq(Greetings)
    BY <2>4, GreetingTokens
  <2>6. Told(wire', crypto')
    BY <2>5, GreetingsTell DEF Told
  <2> QED BY <1>2, <2>2, <2>3, <2>6 DEF ToldTrue
<1>4. CASE NextSwitch
  BY <1>2, <1>4 DEF NextSwitch, NextVisit, ToldTrue
<1>5. CASE Identify \/ ReadVty \/ ReadAnswer \/ ReadIpSsh
  <2>1. PICK stops : Consumes(stops)
    BY <1>5, Zenon DEF Identify, ReadVty, ReadAnswer, ReadIpSsh
  <2>2. wire' = wire /\ StopAt(stops) # {}
    BY <2>1 DEF Consumes
  <2>3. status' = status /\ crypto' = crypto
    BY <1>5, Zenon DEF Identify, ReadVty, ReadAnswer, ReadIpSsh, switch
  <2>4. Told(held', crypto)
    BY <2>1, <2>2, ReadTold
  <2> QED BY <1>1, <2>2, <2>3, <2>4 DEF ToldTrue
<1>6. CASE ReadSsh
  <2> DEFINE stops == Stops(prompt)
  <2>1. /\ Consumes(stops) /\ crypto' = crypto
        /\ status' = StripEcho(Got(stops), ShowSsh)
    BY <1>6, Zenon DEF ReadSsh, switch
  <2>2. wire' = wire /\ StopAt(stops) # {}
    BY <2>1 DEF Consumes
  <2> HIDE DEF stops
  <2>3. Told(held', crypto)
    BY <2>1, <2>2, ReadTold
  <2>4. Told(status', crypto)
    BY <2>1, <2>2, ReadTold
  <2> QED BY <1>1, <2>1, <2>2, <2>3, <2>4 DEF ToldTrue
<1>7. CASE PushCommand
  <2>1. UNCHANGED <<wire, held, status, crypto>>
    BY <1>7, Zenon DEF PushCommand, Sends, terminal, switch
  <2> QED BY <1>1, <2>1 DEF ToldTrue
<1>8. CASE IpSshTimesOut
  <2>1. UNCHANGED <<wire, held, status, crypto>>
    BY <1>8, Zenon DEF IpSshTimesOut, TimesOut, far, terminal, switch
  <2> QED BY <1>1, <2>1 DEF ToldTrue
<1> QED BY <1>3, <1>4, <1>5, <1>6, <1>7, <1>8

LEMMA ToldInit == Init => ToldTrue
BY DEF Init, ConsoleInit, ToldTrue, Told

LEMMA ToldNext == Typed /\ VisitShape /\ ToldTrue /\ [Next]_vars => ToldTrue'
<1> SUFFICES ASSUME Typed, VisitShape, ToldTrue, [Next]_vars PROVE ToldTrue'
  OBVIOUS
<1>1. CASE UNCHANGED vars
  BY <1>1, NothingMoved DEF ToldTrue
<1>2. CASE Next
  BY <1>2, NextCases, QuietTold, ScriptTold, DeviceTold, Zenon
<1> QED BY <1>1, <1>2

(* What the two commands say together is enough for the claim.              *)
LEMMA CompleteIsTold ==
  ASSUME NEW state, NEW lines, NEW took, Told(state, took), Told(lines, took),
         ~Incomplete(state, lines)
  PROVE  {Ssh2, Mac, Enc} \subseteq took
<1>1. \A s, k : Told(s, took) /\ k \in KindsIn(s) =>
          /\ k \in {"version-2", "ssh2"} => Ssh2 \in took
          /\ k = "mac" => Mac \in took
          /\ k = "enc" => Enc \in took
  BY DEF Told, Tells, KindsIn
<1>2. "mac" \in KindsIn(lines) /\ "enc" \in KindsIn(lines)
  BY DEF Incomplete
<1>3. "version-2" \in KindsIn(state) \/ "ssh2" \in KindsIn(lines)
  <2>1. CASE "version-2" \notin KindsIn(state) /\ "version-1.99" \in KindsIn(state)
    BY <2>1, Zenon DEF Incomplete
  <2>2. CASE "version-2" \notin KindsIn(state) /\ "version-1.99" \notin KindsIn(state)
    BY <2>2, Zenon DEF Incomplete
  <2> QED BY <2>1, <2>2
<1> QED BY <1>1, <1>2, <1>3

LEMMA SshNext ==
  Typed /\ VisitShape /\ ToldTrue /\ SshClaimTrue /\ [Next]_vars => SshClaimTrue'
<1> SUFFICES ASSUME Typed, VisitShape, ToldTrue, SshClaimTrue, [Next]_vars
             PROVE  SshClaimTrue'
  OBVIOUS
<1>0. crypto \subseteq {Ssh2, Mac, Enc} /\ crypto' \subseteq {Ssh2, Mac, Enc}
  BY TypedNext DEF Typed, TypeOK
<1>1. CASE row' = row /\ crypto \subseteq crypto'
  BY <1>0, <1>1 DEF SshClaimTrue
<1>2. CASE Connects
  <2>1. pc \in Dialling /\ row' = row
    BY <1>2 DEF Connects, Connected, Dialling, notes
  <2> QED BY <2>1 DEF SshClaimTrue, VisitShape, NoRow, Dialling
<1>3. CASE NextSwitch
  BY <1>3 DEF NextSwitch, SshClaimTrue, NoRow
<1>4. CASE IpSshTimesOut
  BY <1>4 DEF IpSshTimesOut, Record, SshClaimTrue
<1>5. CASE ReadIpSsh
  <2> DEFINE stops == Stops(prompt)
             lines == StripEcho(Got(stops), ShowIpSsh)
  <2>1. /\ Consumes(stops) /\ crypto' = crypto
        /\ row'.ssh = IF Incomplete(status, lines) THEN "incomplete" ELSE "complete"
    BY <1>5 DEF ReadIpSsh, switch, Record
  <2>2. StopAt(stops) # {}
    BY <2>1 DEF Consumes
  <2>3. Told(lines, crypto)
    <3> HIDE DEF stops
    <3> QED BY <2>2, ReadTold
  <2>4. row'.ssh = "complete" => ~Incomplete(status, lines)
    BY <2>1
  <2>5. row'.ssh = "complete" => {Ssh2, Mac, Enc} \subseteq crypto
    BY <2>3, <2>4, CompleteIsTold DEF ToldTrue
  <2> QED BY <1>0, <2>1, <2>5 DEF SshClaimTrue
<1>6. CASE UNCHANGED vars
  BY <1>1, <1>6, NothingMoved
<1>7. CASE QuietStep
  BY <1>1, <1>7, QuietTold
<1>8. CASE Identify \/ ReadVty \/ PushCommand \/ ReadAnswer \/ ReadSsh
  BY <1>1, <1>8 DEF Identify, ReadVty, PushCommand, ReadAnswer, ReadSsh, switch
<1>9. CASE DeviceNudged \/ DeviceAnswers \/ DeviceCloses \/ StrangerAnswers
  <2>1. row' = row
    BY <1>9, DeviceTakes DEF notes
  <2>2. crypto \subseteq crypto'
    BY <1>9, DeviceTold
  <2> QED BY <1>1, <2>1, <2>2
<1> QED BY <1>2, <1>3, <1>4, <1>5, <1>6, <1>7, <1>8, <1>9, NextCases

(* A row that says the SSH crypto is complete is true of the switch, for    *)
(* any images and whatever arrives late, out of step or not at all: a line   *)
(* heard is a line that took effect (ssh_crypto_state()).                   *)
THEOREM SshClaimIsTrue == Spec => []SshClaimTrue
<1>1. Init => SshClaimTrue
  BY DEF Init, SshClaimTrue, NoRow
<1> QED BY <1>1, TypedInit, TypedNext, ShapeInit, ShapeNext, ToldInit, ToldNext, SshNext, PTL
        DEF Spec
=============================================================================
