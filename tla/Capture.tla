------------------------------ MODULE Capture ------------------------------
(***************************************************************************)
(* collect() of securecrt/capture_l2s.py: what a read-only visit asks a    *)
(* device, and the guards that decide whether its answers are a capture.   *)
(***************************************************************************)
EXTENDS Console

CONSTANTS
  Asked,      \* COMMANDS, running-config first
  Config,     \* `show running-config'
  Template,   \* template -> the command that shows it
  MayBeEmpty, \* EMPTY_IS_AN_ANSWER
  Ios,        \* the devices that are Cisco switches
  Reply       \* device -> command -> the kinds of line it answers with

PagingOff == "terminal-length-0"
Commands == UNION {DOMAIN Reply[d] : d \in Device}
Kind == {"blank", "prompt", "user", "rule", "mark", "text", "echo"}
          \cup UNION {UNION {{Reply[d][c][i] : i \in DOMAIN Reply[d][c]}
                             : c \in DOMAIN Reply[d]} : d \in Device}
Tokens == [kind : Kind, of : Commands \cup {NoCommand}]
LineKinds(d, c) == {Reply[d][c][i] : i \in DOMAIN Reply[d][c]}

ASSUME CommandsTyped ==
  /\ Asked \in Seq(Commands) /\ PagingOff \in Commands
  /\ \A k \in DOMAIN Template : Template[k] \in Commands \ {Config}
  /\ Nudge \notin Commands /\ Ios \subseteq Device
ASSUME RepliesTyped ==
  \A d \in Device : DOMAIN Reply[d] = Commands /\ \A c \in Commands : Reply[d][c] \in Seq(Kind)
(* COMMANDS asks for the running-config first and once.                     *)
ASSUME ConfigFirst ==
  /\ Asked # <<>> /\ Asked[1] = Config /\ \A i \in 2..Len(Asked) : Asked[i] # Config
  /\ Config # PagingOff /\ Config \notin MayBeEmpty

(* What the guards take for granted of the devices.  No answer has a line   *)
(* that is the prompt, or looks like an echo; `end' on a line of its own is *)
(* how a Cisco running-config finishes and appears nowhere else; and a      *)
(* Cisco switch repeats its prompt in no other answer than its config's,    *)
(* nor shows a '#' in one unless the config (whose descriptions the others  *)
(* quote) has one.                                                          *)
ASSUME NoLineIsAPrompt ==
  \A d \in Device, c \in Commands : LineKinds(d, c) \cap {"prompt", "user", "echo"} = {}
ASSUME OnlyConfigsEnd ==
  \A d \in Device, c \in Commands :
    \A i \in DOMAIN Reply[d][c] :
      Reply[d][c][i] = "end" => d \in Ios /\ c = Config /\ i = Len(Reply[d][c])
ASSUME PromptsQuotedInConfig ==
  \A d \in Ios, c \in Commands :
    c # Config => /\ "look" \notin LineKinds(d, c)
                  /\ LineKinds(d, c) \cap AnyHash # {} => LineKinds(d, Config) \cap AnyHash # {}

VARIABLES
  queue,      \* commands still to be sent
  outputs,    \* what each command returned, in order
  sent        \* history: the commands this visit sent

capture == <<queue, outputs, sent>>
vars == <<console, capture>>

Body(d, c) == [i \in DOMAIN Reply[d][c] |-> Token(Reply[d][c][i], c)]

(* The device's EXEC: a bare carriage return draws a prompt, a command is   *)
(* echoed and answered.                                                     *)
Says(d, c) == IF c = Nudge THEN <<Prompt(d)>>
              ELSE <<Token("echo", c)>> \o Body(d, c) \o <<Prompt(d)>>

Init == ConsoleInit /\ queue = <<>> /\ outputs = <<>> /\ sent = {}

DeviceAnswers ==
  /\ inbox # <<>>
  /\ Answers(Says(device, Head(inbox)))
  /\ UNCHANGED capture

(* The prompt decides first: user EXEC is refused, anything else asked to   *)
(* stop paging.                                                             *)
RefusesUserExec ==
  /\ pc = "ready" /\ prompt.kind = "user"
  /\ Ends("refused")
  /\ UNCHANGED <<far, terminal, flag, attempt, poll, prompt, visits, counts, capture>>

TurnPagingOff ==
  /\ pc = "ready" /\ prompt.kind # "user"
  /\ Sends(PagingOff)
  /\ pc' = "identify"
  /\ sent' = sent \cup {PagingOff}
  /\ UNCHANGED <<queue, outputs>>

Kinds(out) == {out[i].kind : i \in DOMAIN out}

(* not_a_switch(): IOS says nothing, a shell complains.                     *)
NotASwitch(out) == "complaint" \in Kinds(out)

Identify ==
  /\ pc = "identify"
  /\ Consumes(Stops(prompt))
  /\ LET out == StripEcho(Got(Stops(prompt)), PagingOff)
     IN  IF NotASwitch(out)
         THEN Ends("refused") /\ queue' = queue
         ELSE queue' = Asked /\ pc' = "ask" /\ outcome' = outcome
  /\ UNCHANGED <<outputs, sent>>

Ask ==
  /\ pc = "ask" /\ queue # <<>>
  /\ Sends(Head(queue))
  /\ pc' = "read"
  /\ sent' = sent \cup {Head(queue)}
  /\ UNCHANGED <<queue, outputs>>

(* sourced_template_names(): one more command for each template the config  *)
(* uses, in the order they first appear.                                    *)
TemplatesIn(out) ==
  LET names[n \in 0..Len(out)] ==
        IF n = 0 THEN <<>>
        ELSE IF /\ out[n].kind \in DOMAIN Template
                /\ \A j \in 1..(n - 1) : out[j].kind # out[n].kind
             THEN Append(names[n - 1], Template[out[n].kind])
             ELSE names[n - 1]
  IN  names[Len(out)]

(* The guards of the nested collect().                                      *)
Paginated(out) == "more" \in Kinds(out)
NotIosConfig(out) == Kinds(out) \cap {"head", "end"} = {}
(* Bug: any config that came back at all is whole.                          *)
CutShortOnlyEmpty(out) == out = <<>>
CutShort(out) == out = <<>> \/ out[Len(out)].kind # "end"
(* Bug: nobody looks at what `show running-config' returned.                *)
RefusesOnlyEmpty(c, out) == out = <<>> /\ c \notin MayBeEmpty
Refuses(c, out) ==
  \/ out = <<>> /\ c \notin MayBeEmpty
  \/ Paginated(out)
  \/ c = Config /\ (NotIosConfig(out) \/ CutShort(out))

ReadOutput ==
  /\ pc = "read"
  /\ Consumes(Stops(prompt))
  /\ LET c == Head(queue)
         out == StripEcho(Got(Stops(prompt)), c)
     IN  IF Refuses(c, out)
         THEN Ends("refused") /\ UNCHANGED <<queue, outputs>>
         ELSE /\ outputs' = Append(outputs, [command |-> c, text |-> out])
              /\ queue' = Tail(queue) \o (IF c = Config THEN TemplatesIn(out) ELSE <<>>)
              /\ pc' = "ask"
              /\ outcome' = outcome
  /\ UNCHANGED sent

Collected ==
  /\ pc = "ask" /\ queue = <<>>
  /\ Ends("collected")
  /\ UNCHANGED <<far, terminal, flag, attempt, poll, prompt, visits, counts, capture>>

(* RuntimeError out of run_command(): the walk's own handler names it.      *)
CommandTimesOut ==
  /\ pc \in {"identify", "read"}
  /\ TimesOut(Stops(prompt), "error")
  /\ UNCHANGED capture

Visiting == \/ (Connecting \/ ReadingPrompt) /\ UNCHANGED capture
            \/ RefusesUserExec \/ TurnPagingOff \/ Identify \/ Ask \/ ReadOutput
            \/ Collected \/ CommandTimesOut

Next == \/ Visiting
        \/ (Arrive \/ Drop) /\ UNCHANGED capture
        \/ DeviceAnswers
        \/ NextVisit /\ queue' = <<>> /\ outputs' = <<>> /\ sent' = {}

Spec == Init /\ [][Next]_vars

(* The script keeps stepping: each of its waits ends by itself.             *)
FairSpec == Spec /\ WF_vars(Visiting)
-----------------------------------------------------------------------------
TypeOK ==
  /\ device \in Device /\ up \in BOOLEAN
  /\ inbox \in Seq(Commands \cup {Nudge})
  /\ wire \in Seq(Tokens) /\ held \in Seq(Tokens)
  /\ screen \in Tokens /\ prompt \in Tokens
  /\ sync \in BOOLEAN /\ flag \in BOOLEAN
  /\ attempt \in 1..LoginAttempts /\ poll \in 0..(Polls - 1)
  /\ pc \in {"connect", "again", "connected", "poll", "restore", "ready", "identify", "ask",
             "read", "done"}
  /\ outcome \in {"none", "login-rejected", "unreachable", "refused", "error", "collected"}
  /\ visits \in 1..MaxVisits
  /\ rejections \in Nat /\ optionErrors \in Nat
  /\ queue \in Seq(Commands)
  /\ outputs \in Seq([command : Commands, text : Seq(Tokens)])
  /\ sent \subseteq Commands

(* A capture is what the switch said: every command asked, each beside its  *)
(* own whole answer, the templates its config uses among them.  An extra    *)
(* prompt left over from a nudge would put each answer beside the next      *)
(* command; output cut at a prompt it contains would lose its end.          *)
CaptureIsTrue ==
  outcome = "collected" =>
    /\ device \in Ios
    /\ [i \in DOMAIN outputs |-> outputs[i].command]
         = Asked \o TemplatesIn(Body(device, Config))
    /\ \A i \in DOMAIN outputs : outputs[i].text = Body(device, outputs[i].command)

(* A device that is no Cisco switch is sent the paging command and, where   *)
(* its complaint was missed, the one that reads the config; never more.     *)
StrangersLeftAlone ==
  device \notin Ios => sent \subseteq {PagingOff, Config}

(* While a read waits on a live session, the prompt that ends it is still   *)
(* to come: none of it went to the screen, where ReadString cannot see it.  *)
AnswerStillComing ==
  pc \in {"identify", "read"} =>
    \/ inbox # <<>>
    \/ \E i \in DOMAIN wire : wire[i].kind = PromptOf[device]
    \/ \E i \in DOMAIN held : held[i].kind = PromptOf[device]

(* A switch hardened by this project blocks all logins after three failures *)
(* in two minutes: no visit fails more logins than LOGIN_ATTEMPTS, and the  *)
(* refused option costs a run one connect, not one per switch.              *)
LoginsBounded == rejections <= LoginAttempts /\ optionErrors <= 1

(* No visit waits for ever, whatever the device does.                       *)
VisitEnds == pc = "connect" ~> pc = "done"
=============================================================================
