------------------------------- MODULE Harden -------------------------------
(***************************************************************************)
(* visit_one() of securecrt/harden_l2s_bulk.py: the one walk that writes   *)
(* to a switch.  It reads how many vty lines the switch has, pushes its    *)
(* commands one at a time, and asks the switch what SSH it ended up with;  *)
(* the row it leaves behind is what somebody will act on.                  *)
(***************************************************************************)
EXTENDS Console

CONSTANTS
  HighestVty,   \* the last vty line of each device
  MostVty,      \* the last vty line each device's image has room for
  HostNumber,   \* the largest number in each device's hostname, or NoNumber
  TextNumber,   \* the largest number in a banner's text, or NoNumber
  Rejects,      \* the commands each device's image does not have
  Renders,      \* the devices whose running-config shows `ip ssh version 2'
  Switches,     \* the devices that are Cisco switches
  Sessions,     \* CONCURRENT_SESSIONS
  Fits          \* how many rejections fit the 300 characters of a row's column

NoNumber == -1

ASSUME SessionsNat == Sessions \in Nat \ {0}
ASSUME FitsNat == Fits \in Nat \ {0}
ASSUME HighestTyped == HighestVty \in [Device -> Nat]
ASSUME MostTyped == MostVty \in [Device -> Nat] /\ \A d \in Device : HighestVty[d] <= MostVty[d]
ASSUME NumbersTyped ==
  HostNumber \in [Device -> Nat \cup {NoNumber}] /\ TextNumber \in Nat \cup {NoNumber}

(* A command, its words joined, with the line range it opens where it does.  *)
Cmd(verb) == [verb |-> verb, lo |-> 0, hi |-> 0]
LineVty(lo, hi) == [verb |-> "line-vty", lo |-> lo, hi |-> hi]

PagingOff == Cmd("terminal-length-0")
ShowVty   == Cmd("show-running-config-line-vty")
ShowSsh   == Cmd("show-ip-ssh")
ShowIpSsh == Cmd("show-running-config-ip-ssh")
Shows     == {PagingOff, ShowVty, ShowSsh, ShowIpSsh}

Ssh2 == Cmd("ip-ssh-version-2")
Mac  == Cmd("ip-ssh-server-algorithm-mac")
Enc  == Cmd("ip-ssh-server-algorithm-encryption")

(* base_commands(), one command standing for each list that enters no mode. *)
BaseCommands ==
  <<Cmd("logging-buffered"), Cmd("login-block-for"), Ssh2, Mac, Enc, Cmd("no-service"),
    Cmd("archive"), Cmd("log-config"), Cmd("logging-enable"), Cmd("exit"), Cmd("exit"),
    Cmd("line-con-0"), Cmd("exec-timeout")>>

(* Bugs: the closed range starts one line early; it ends one line early.    *)
VtyFixesEarly(highest) ==
  <<LineVty(0, highest), Cmd("session-limit"), Cmd("exec-timeout"),
    LineVty(0, Sessions - 1), Cmd("transport-input-ssh"),
    LineVty(Sessions - 1, highest), Cmd("transport-input-none")>>

VtyFixesShort(highest) ==
  <<LineVty(0, highest), Cmd("session-limit"), Cmd("exec-timeout"),
    LineVty(0, Sessions - 1), Cmd("transport-input-ssh"),
    LineVty(Sessions, highest - 1), Cmd("transport-input-none")>>

(* vty_fixes(): one range where every line is inside the allowed count,     *)
(* otherwise the whole range, the open part, and the closed part.           *)
VtyFixes(highest) ==
  IF Sessions - 1 >= highest
  THEN <<LineVty(0, highest), Cmd("session-limit"), Cmd("exec-timeout"),
         Cmd("transport-input-ssh")>>
  ELSE <<LineVty(0, highest), Cmd("session-limit"), Cmd("exec-timeout"),
         LineVty(0, Sessions - 1), Cmd("transport-input-ssh"),
         LineVty(Sessions, highest), Cmd("transport-input-none")>>

Verbs == {BaseCommands[i].verb : i \in DOMAIN BaseCommands}
           \cup {c.verb : c \in Shows}
           \cup {"configure-terminal", "end", "line-vty", "session-limit",
                 "transport-input-ssh", "transport-input-none"}
Commands == [verb : Verbs, lo : Nat, hi : Nat]

(* An image may lack any command but the four the walk reads with and `end'; *)
(* what it says of `line vty' depends on the lines: see Accepted.            *)
ASSUME RejectsTyped ==
  /\ Switches \subseteq Device
  /\ Rejects \in [Device -> SUBSET Commands]
  /\ \A d \in Switches : \A c \in Rejects[d] : c \notin Shows /\ c.verb \notin {"end", "line-vty"}
ASSUME NudgeIsNoCommand == Nudge \notin Commands

VARIABLES
  (* The switch. *)
  mode,        \* "exec", "config", "archive", "log" or "line"
  range,       \* the vty lines the mode "line" is about
  transport,   \* what each vty line answers to
  crypto,      \* the ip ssh lines that took effect
  (* The script. *)
  withVty,     \* was the vty block asked for, once, before the first switch?
  highest, readOk,
  push,        \* commands still to be sent
  current,     \* the command whose answer is being read
  rejected,    \* <<command, the command the switch complained of>>, in order
  status,      \* what `show ip ssh' returned
  row,         \* the visit's row in the log
  (* History. *)
  complaints   \* the commands of the push the switch rejected

switch == <<mode, range, transport, crypto>>
notes  == <<withVty, highest, readOk, push, current, rejected, status, row>>
vars   == <<console, switch, notes, complaints>>

NoRow == [outcome |-> "none", rejecting |-> FALSE, note |-> "none", rejections |-> <<>>,
          ssh |-> "none"]

Init ==
  /\ ConsoleInit
  /\ mode = "exec" /\ range = {} /\ crypto = {}
  /\ transport = [l \in 0..HighestVty[device] |-> "all"]
  /\ withVty \in BOOLEAN
  /\ highest = 0 /\ readOk = FALSE
  /\ push = <<>> /\ current = PagingOff
  /\ rejected = <<>> /\ status = <<>> /\ row = NoRow
  /\ complaints = <<>>
-----------------------------------------------------------------------------
(* The switch. *)

Says(kinds, c) == [i \in DOMAIN kinds |-> Token(kinds[i], c)]

(* What a show command prints.  An image without SSHv1 does not render its  *)
(* version; one that still answers SSHv1 reports 1.99.                      *)
Shown(c) ==
  CASE c = ShowVty   -> <<"vty">>
    [] c = ShowSsh   -> IF Ssh2 \in crypto THEN <<"version-2">> ELSE <<"version-1.99">>
    [] c = ShowIpSsh -> (IF Ssh2 \in crypto /\ device \in Renders THEN <<"ssh2">> ELSE <<>>)
                          \o (IF Mac \in crypto THEN <<"mac">> ELSE <<>>)
                          \o (IF Enc \in crypto THEN <<"enc">> ELSE <<>>)
    [] OTHER         -> <<>>

(* The modes a command is accepted in: a global command is accepted in any  *)
(* of them but EXEC, and leaves a sub-mode behind.  `line vty' over more     *)
(* lines than the image has room for is rejected, and the mode stays.        *)
InConfig == mode # "exec"
Accepted(c) ==
  /\ c \notin Rejects[device]
  /\ CASE c \in Shows -> ~InConfig
       [] c.verb = "configure-terminal" -> ~InConfig
       [] c.verb = "exit" -> TRUE
       [] c.verb = "line-vty" -> InConfig /\ c.hi <= MostVty[device]
       [] c.verb = "log-config" -> mode = "archive"
       [] c.verb = "logging-enable" -> mode = "log"
       [] c.verb \in {"session-limit", "exec-timeout", "transport-input-ssh",
                      "transport-input-none"} -> mode = "line"
       [] OTHER -> InConfig

ModeAfter(c) ==
  CASE c.verb = "archive" -> "archive"
    [] c.verb = "log-config" -> "log"
    [] c.verb \in {"line-vty", "line-con-0"} -> "line"
    [] c.verb = "end" -> "exec"
    [] c.verb = "exit" -> (CASE mode = "log" -> "archive"
                             [] mode \in {"archive", "line"} -> "config"
                             [] OTHER -> "exec")
    [] c \in Shows \/ c.verb \in {"logging-enable", "session-limit", "exec-timeout",
                                   "transport-input-ssh", "transport-input-none"} -> mode
    [] OTHER -> "config"

(* The switch takes one command: `exit' at EXEC ends the session.           *)
Takes(c) ==
  /\ mode' = IF Accepted(c) THEN ModeAfter(c) ELSE mode
  /\ range' = IF Accepted(c) /\ c.verb = "line-vty" THEN c.lo..c.hi
              ELSE IF Accepted(c) /\ c.verb = "line-con-0" THEN {} ELSE range
  /\ transport' = [l \in DOMAIN transport |->
                     IF Accepted(c) /\ l \in range
                     THEN CASE c.verb = "transport-input-ssh" -> "ssh"
                            [] c.verb = "transport-input-none" -> "none"
                            [] OTHER -> transport[l]
                     ELSE transport[l]]
  /\ crypto' = IF Accepted(c) /\ c \in {Ssh2, Mac, Enc} THEN crypto \cup {c} ELSE crypto
  /\ complaints' = IF Accepted(c) THEN complaints ELSE Append(complaints, c)

PromptIn(m) == IF m = "exec" THEN Prompt(device) ELSE Token("config", NoCommand)

DeviceNudged ==
  /\ inbox # <<>> /\ Head(inbox) = Nudge
  /\ Answers(<<PromptIn(mode)>>)
  /\ UNCHANGED <<switch, notes, complaints>>

DeviceAnswers ==
  /\ inbox # <<>> /\ Head(inbox) # Nudge /\ device \in Switches
  /\ LET c == Head(inbox)
         closes == c.verb = "exit" /\ mode = "exec"
     IN  /\ Takes(c)
         /\ ~closes
         /\ Answers(<<Token("echo", c)>>
                    \o Says(IF Accepted(c) THEN Shown(c) ELSE <<"error">>, c)
                    \o <<PromptIn(mode')>>)
  /\ UNCHANGED notes

DeviceCloses ==
  /\ up /\ inbox # <<>> /\ Head(inbox) = Cmd("exit") /\ mode = "exec" /\ device \in Switches
  /\ up' = FALSE
  /\ UNCHANGED <<device, inbox, wire, terminal, script, pc, counts, switch, notes, complaints>>

(* Not a Cisco switch: a shell complains of everything.                     *)
StrangerAnswers ==
  /\ inbox # <<>> /\ Head(inbox) # Nudge /\ device \notin Switches
  /\ LET c == Head(inbox)
     IN  Answers(<<Token("echo", c), Token("complaint", c), Prompt(device)>>)
  /\ UNCHANGED <<switch, notes, complaints>>
-----------------------------------------------------------------------------
(* visit_one() *)

(* connect_session() reached a switch nobody has configured yet, and whose  *)
(* vty lines nobody has counted.                                            *)
Connects ==
  /\ Connected
  /\ mode' = "exec" /\ range' = {} /\ crypto' = {}
  /\ transport' = [l \in 0..HighestVty[device'] |-> "all"]
  /\ highest' = 0
  /\ UNCHANGED <<withVty, readOk, push, current, rejected, status, row, complaints>>

Goes(from, to) == pc = from /\ pc' = to /\ outcome' = outcome

RefusesUserExec ==
  /\ pc = "ready" /\ prompt.kind = "user"
  /\ Ends("refused")
  /\ UNCHANGED <<far, terminal, flag, attempt, poll, prompt, visits, counts, switch, notes,
                 complaints>>

TurnPagingOff ==
  /\ prompt.kind # "user"
  /\ Goes("ready", "identify")
  /\ Sends(PagingOff)
  /\ UNCHANGED <<switch, notes, complaints>>

(* The push that follows: without the vty block, all that can be prepared.  *)
Identify ==
  /\ pc = "identify"
  /\ Consumes(Stops(prompt))
  /\ LET out == StripEcho(Got(Stops(prompt)), PagingOff)
         complains == \E i \in DOMAIN out : out[i].kind = "complaint"
     IN  IF complains THEN Ends("refused") /\ push' = push
         ELSE /\ outcome' = outcome
              /\ pc' = IF withVty THEN "ask-vty" ELSE "push"
              /\ push' = <<Cmd("configure-terminal")>> \o BaseCommands \o <<Cmd("end")>>
  /\ UNCHANGED <<switch, withVty, highest, readOk, current, rejected, status, row, complaints>>

AskVty ==
  /\ Goes("ask-vty", "read-vty")
  /\ Sends(ShowVty)
  /\ UNCHANGED <<switch, notes, complaints>>

(* highest_vty_line(): every number in what came back, whatever it was: the *)
(* echo of `terminal length 0' has one, and so may a banner's text or the    *)
(* hostname in front of a prompt.                                           *)
NumbersIn(out) ==
  (UNION {CASE out[i].kind = "vty" -> {0, HighestVty[device]}
            [] out[i] = Token("echo", PagingOff) -> {0}
            [] out[i].kind \in {"prompt", "user", "config"} -> {HostNumber[device]}
            [] out[i].kind = "text" -> {TextNumber}
            [] OTHER -> {} : i \in DOMAIN out}) \ {NoNumber}

(* A read to `#' returns what stands in front of it: of a prompt, its name.  *)
VtyText ==
  LET i == CHOOSE i \in StopAt(Stops(prompt)) : TRUE
  IN  SubSeq(held, 1, IF prompt.kind = "mark" THEN i ELSE i - 1)

ReadVty ==
  /\ Goes("read-vty", "push")
  /\ Consumes(Stops(prompt))
  /\ LET numbers == NumbersIn(StripEcho(VtyText, ShowVty))
         top == IF numbers = {} THEN 4 ELSE CHOOSE n \in numbers : \A m \in numbers : m <= n
     IN  /\ highest' = top
         /\ readOk' = (numbers # {})
         /\ push' = IF numbers = {} THEN push
                    ELSE SubSeq(push, 1, Len(push) - 1) \o VtyFixes(top) \o <<Cmd("end")>>
  /\ UNCHANGED <<switch, withVty, current, rejected, status, row, complaints>>

(* A read that raised is a read that failed: the block is skipped.          *)
VtyTimesOut ==
  /\ StopAt(Stops(prompt)) = {}
  /\ Goes("read-vty", "push")
  /\ UNCHANGED <<far, terminal, flag, attempt, poll, prompt, visits, counts, switch, notes,
                 complaints>>

(* send_config(): one command, then a read to the next '#', whatever mode   *)
(* prompted it - so that an answer has one complaint in it at the most.      *)
PushCommand ==
  /\ push # <<>>
  /\ Goes("push", "pushed")
  /\ Sends(Head(push))
  /\ current' = Head(push)
  /\ push' = Tail(push)
  /\ UNCHANGED <<switch, withVty, highest, readOk, rejected, status, row, complaints>>

ReadAnswer ==
  /\ Goes("pushed", IF push = <<>> THEN "ask-ssh" ELSE "push")
  /\ Consumes(AnyHash)
  /\ LET answer == Got(AnyHash)
         errors == {answer[i].of : i \in {j \in DOMAIN answer : answer[j].kind = "error"}}
     IN  \/ errors = {} /\ rejected' = rejected
         \/ \E e \in errors : rejected' = Append(rejected, <<current, e>>)
  /\ UNCHANGED <<switch, withVty, highest, readOk, push, current, status, row, complaints>>

AnswerTimesOut ==
  /\ pc = "pushed"
  /\ TimesOut(AnyHash, "refused")
  /\ UNCHANGED <<switch, notes, complaints>>

(* ssh_crypto_state(): two commands, either of which may fail to be read.   *)
AskSsh ==
  /\ Goes("ask-ssh", "read-ssh")
  /\ Sends(ShowSsh)
  /\ UNCHANGED <<switch, notes, complaints>>

ReadSsh ==
  /\ Goes("read-ssh", "ask-ip-ssh")
  /\ Consumes(Stops(prompt))
  /\ status' = StripEcho(Got(Stops(prompt)), ShowSsh)
  /\ UNCHANGED <<switch, withVty, highest, readOk, push, current, rejected, row, complaints>>

SshTimesOut ==
  /\ StopAt(Stops(prompt)) = {}
  /\ Goes("read-ssh", "ask-ip-ssh")
  /\ UNCHANGED <<far, terminal, flag, attempt, poll, prompt, visits, counts, switch, notes,
                 complaints>>

AskIpSsh ==
  /\ Goes("ask-ip-ssh", "read-ip-ssh")
  /\ Sends(ShowIpSsh)
  /\ UNCHANGED <<switch, notes, complaints>>

KindsIn(out) == {out[i].kind : i \in DOMAIN out}

(* Bug: the ciphers are not looked at.                                      *)
IncompleteMacOnly(state, lines) == "mac" \notin KindsIn(lines)

(* What counts as v2: `show ip ssh' where it answers, else the line itself. *)
Incomplete(state, lines) ==
  \/ CASE "version-2" \in KindsIn(state) -> FALSE
       [] "version-1.99" \in KindsIn(state) -> TRUE
       [] OTHER -> "ssh2" \notin KindsIn(lines)
  \/ ~({"mac", "enc"} \subseteq KindsIn(lines))

(* The row has a column of 300 characters for the rejections: the earliest. *)
Earliest(s) == SubSeq(s, 1, IF Len(s) <= Fits THEN Len(s) ELSE Fits)

(* Bug: the latest rejections are kept.                                     *)
RecordLatest(ssh) ==
  row' = [outcome    |-> IF withVty /\ ~readOk THEN "hardened-vty-skipped" ELSE "hardened",
          rejecting  |-> rejected # <<>>,
          note       |-> IF withVty /\ readOk THEN "closed" ELSE "none",
          rejections |-> SubSeq(rejected, IF Len(rejected) <= Fits THEN 1
                                          ELSE Len(rejected) - Fits + 1, Len(rejected)),
          ssh        |-> ssh]

Record(ssh) ==
  row' = [outcome    |-> IF withVty /\ ~readOk THEN "hardened-vty-skipped" ELSE "hardened",
          rejecting  |-> rejected # <<>>,
          note       |-> IF withVty /\ readOk THEN "closed" ELSE "none",
          rejections |-> Earliest(rejected),
          ssh        |-> ssh]

ReadIpSsh ==
  /\ pc = "read-ip-ssh"
  /\ Consumes(Stops(prompt))
  /\ Ends("hardened")
  /\ LET lines == StripEcho(Got(Stops(prompt)), ShowIpSsh)
     IN  Record(IF Incomplete(status, lines) THEN "incomplete" ELSE "complete")
  /\ UNCHANGED <<switch, withVty, highest, readOk, push, current, rejected, status, complaints>>

IpSshTimesOut ==
  /\ pc = "read-ip-ssh"
  /\ TimesOut(Stops(prompt), "hardened")
  /\ Record("not-read")
  /\ UNCHANGED <<switch, withVty, highest, readOk, push, current, rejected, status, complaints>>

(* A RuntimeError out of run_command() before anything was pushed.          *)
IdentifyTimesOut ==
  /\ pc = "identify"
  /\ TimesOut(Stops(prompt), "error")
  /\ UNCHANGED <<switch, notes, complaints>>

(* A fresh closure of read_prompt() and an empty row for the next session.  *)
NextSwitch ==
  /\ NextVisit
  /\ readOk' = FALSE
  /\ push' = <<>> /\ current' = PagingOff
  /\ rejected' = <<>> /\ status' = <<>> /\ row' = NoRow
  /\ complaints' = <<>>
  /\ UNCHANGED <<switch, withVty, highest>>

Visiting ==
  \/ Connects
  \/ (OptionRefused \/ LoginRejected \/ ConnectFails \/ ReadingPrompt)
       /\ UNCHANGED <<switch, notes, complaints>>
  \/ RefusesUserExec \/ TurnPagingOff \/ Identify \/ IdentifyTimesOut
  \/ AskVty \/ ReadVty \/ VtyTimesOut
  \/ PushCommand \/ ReadAnswer \/ AnswerTimesOut
  \/ AskSsh \/ ReadSsh \/ SshTimesOut \/ AskIpSsh \/ ReadIpSsh \/ IpSshTimesOut

Next ==
  \/ Visiting
  \/ (Arrive \/ Drop) /\ UNCHANGED <<switch, notes, complaints>>
  \/ DeviceNudged \/ DeviceAnswers \/ DeviceCloses \/ StrangerAnswers
  \/ NextSwitch

Spec == Init /\ [][Next]_vars
-----------------------------------------------------------------------------
TypeOK ==
  /\ mode \in {"exec", "config", "archive", "log", "line"}
  /\ range \subseteq Nat
  /\ transport \in [0..HighestVty[device] -> {"all", "ssh", "none"}]
  /\ crypto \subseteq {Ssh2, Mac, Enc}
  /\ withVty \in BOOLEAN /\ highest \in Nat /\ readOk \in BOOLEAN
  /\ push \in Seq(Commands) /\ current \in Commands
  /\ rejected \in Seq(Commands \X Commands)
  /\ complaints \in Seq(Commands)
  /\ row \in [outcome : {"none", "hardened", "hardened-vty-skipped"}, rejecting : BOOLEAN,
              note : {"none", "closed"}, rejections : Seq(Commands \X Commands),
              ssh : {"none", "complete", "incomplete", "not-read"}]

(* The lines somebody needs to get back in keep answering, at every step:   *)
(* `transport input none' never reaches one of the first Sessions lines, a   *)
(* push that dies half way and a count that is wrong included - as long as   *)
(* the number taken for the highest line is one the image has room for.      *)
LinesOpen == \A l \in DOMAIN transport : l < Sessions => transport[l] # "none"
WayBackIn == highest <= MostVty[device] => LinesOpen

(* Whatever was read: "a limit of 5 means vty 0-4 answer".  Not so where the *)
(* `#' at a banner's left edge was taken for the prompt, and the hostname    *)
(* has a number in it larger than any line: the closed part's `line vty' is  *)
(* rejected, and `transport input none' lands on the open part.              *)
LinesOpenWhateverIsRead == LinesOpen

(* A row that says the SSH crypto is complete is true of the switch.        *)
SshClaimTrue ==
  row.ssh = "complete" => crypto = {Ssh2, Mac, Enc}

(* Read in step: the prompt was the prompt, and was there before the first  *)
(* nudge, so that no second prompt is on its way; and no answer came late.  *)
InStep == prompt.kind = "prompt" /\ poll <= NudgeEvery /\ (withVty => readOk)

(* Read in step, a clean outcome means the switch took every line; and the   *)
(* row names the earliest it did not take, as far as they fit, each beside   *)
(* the complaint it drew.                                                   *)
RowNamesRejections ==
  row.outcome # "none" /\ InStep =>
    /\ row.rejecting <=> complaints # <<>>
    /\ row.rejections = Earliest([i \in DOMAIN complaints |-> <<complaints[i], complaints[i]>>])

(* "Closed" without a rejection: every line above the allowed count is shut  *)
(* and every other takes SSH only.                                           *)
ClosedIn(t) == \A l \in DOMAIN t : t[l] = IF l < Sessions THEN "ssh" ELSE "none"
VtyRowTrueInStep ==
  row.note = "closed" /\ ~row.rejecting /\ InStep => ClosedIn(transport)
=============================================================================
