------------------------------ MODULE Console ------------------------------
(***************************************************************************)
(* One visit's conversation with a device, as every SecureCRT walk holds   *)
(* it: connect_session(), read_prompt() and run_command() of securecrt/,   *)
(* over the terminal SecureCRT gives them.                                 *)
(*                                                                         *)
(* The device and the terminal are external.  The device answers what it   *)
(* was sent in order; the terminal paints what arrives while Synchronous   *)
(* is off, and holds it for ReadString while it is on.  Nothing says how   *)
(* long anything takes to arrive.                                          *)
(***************************************************************************)
EXTENDS Integers, Sequences

CONSTANTS
  Device,         \* kinds of device a session may turn out to be
  PromptOf,       \* what each prompts with: "prompt" (enable mode) or "user"
  Banners,        \* login banners: sequences of "text", "rule" and "mark" lines
  Flags,          \* settings of ACCEPT_HOST_KEYS
  OldBuild,       \* does this SecureCRT refuse /ACCEPTHOSTKEYS?
  LoginAttempts,  \* LOGIN_ATTEMPTS
  Polls,          \* how often read_prompt() looks: timeout / PROMPT_POLL_MS
  NudgeEvery,     \* PROMPT_NUDGE_EVERY
  MaxVisits,      \* bound: sessions in one run
  Nudge,          \* a bare carriage return
  NoCommand       \* not a command: what a banner line or a prompt answers

(* A piece of terminal text, and the command it answers.  "look" is output  *)
(* that contains the prompt's own text, "hash" any other with a '#' in it,  *)
(* "rule" a line of '#' signs, "mark" one that reads `#' up to the cursor:   *)
(* the left edge of a box, its padding stripped.                            *)
Token(kind, command) == [kind |-> kind, of |-> command]
Blank  == Token("blank", NoCommand)
Prompt(d) == Token(PromptOf[d], NoCommand)

ASSUME PromptTyped == PromptOf \in [Device -> {"prompt", "user"}]
ASSUME AttemptsNat == LoginAttempts \in Nat \ {0}
ASSUME PollsNat == Polls \in Nat \ {0} /\ NudgeEvery \in Nat \ {0} /\ MaxVisits \in Nat \ {0}
ASSUME FlagsBool == Flags \subseteq BOOLEAN /\ OldBuild \in BOOLEAN
ASSUME BannersTyped == Banners \subseteq Seq({"text", "rule", "mark"})

VARIABLES
  (* The far side. *)
  device, up,
  inbox,       \* what the device was sent and has not acted on
  wire,        \* what it answered and has not arrived
  (* SecureCRT. *)
  sync,        \* crt.Screen.Synchronous
  screen,      \* the cursor's line
  held,        \* what ReadString has not consumed
  (* The script. *)
  flag,        \* connect_state['accept_host_keys']
  attempt, poll, prompt, pc, outcome,
  visits,
  (* History. *)
  rejections,    \* logins this visit had rejected
  optionErrors   \* connects this run lost to the refused option

far      == <<device, up, inbox, wire>>
terminal == <<sync, screen, held>>
script   == <<flag, attempt, poll, prompt, outcome, visits>>
counts   == <<rejections, optionErrors>>
console  == <<far, terminal, script, pc, counts>>

ConsoleInit ==
  /\ device \in Device
  /\ up = FALSE
  /\ inbox = <<>>
  /\ wire = <<>>
  /\ sync = TRUE
  /\ screen = Blank
  /\ held = <<>>
  /\ flag \in Flags
  /\ attempt = 1
  /\ poll = 0
  /\ prompt = Blank
  /\ pc = "connect"
  /\ outcome = "none"
  /\ visits = 1
  /\ rejections = 0
  /\ optionErrors = 0
-----------------------------------------------------------------------------
(* The far side and the terminal. *)

Arrive ==
  /\ up /\ wire # <<>>
  /\ wire' = Tail(wire)
  /\ IF sync
     THEN held' = Append(held, Head(wire)) /\ screen' = screen
     ELSE screen' = Head(wire) /\ held' = held
  /\ UNCHANGED <<device, up, inbox, sync, script, pc, counts>>

(* The device acts on the next thing it was sent: a bare carriage return    *)
(* draws a fresh prompt, a command is echoed and answered.                  *)
Answers(reply) ==
  /\ up /\ inbox # <<>>
  /\ inbox' = Tail(inbox)
  /\ wire' = wire \o reply
  /\ UNCHANGED <<device, up, terminal, script, pc, counts>>

Drop ==
  /\ up
  /\ up' = FALSE
  /\ UNCHANGED <<device, inbox, wire, terminal, script, pc, counts>>
-----------------------------------------------------------------------------
(* connect_session() *)

Ends(o) == pc' = "done" /\ outcome' = o

Connected ==
  /\ pc = "again" \/ (pc = "connect" /\ ~(flag /\ OldBuild))
  /\ up' = TRUE
  /\ device' \in Device
  /\ \E b \in Banners :
       wire' = [i \in DOMAIN b |-> Token(b[i], NoCommand)] \o <<Prompt(device')>>
  /\ pc' = "connected"
  /\ UNCHANGED <<inbox, terminal, script, counts>>

(* An old build refusing the flag is not a switch problem: the flag goes    *)
(* for the rest of the run, and this attempt is made again without it.      *)
OptionRefused ==
  /\ pc = "connect" /\ flag /\ OldBuild
  /\ flag' = FALSE
  /\ optionErrors' = optionErrors + 1
  /\ pc' = "again"
  /\ UNCHANGED <<far, terminal, attempt, poll, prompt, outcome, visits, rejections>>

(* Bug: one attempt too many.                                               *)
LoginRejectedAgain ==
  /\ pc = "again" \/ (pc = "connect" /\ ~(flag /\ OldBuild))
  /\ rejections' = rejections + 1
  /\ IF attempt > LoginAttempts
     THEN Ends("login-rejected") /\ attempt' = attempt
     ELSE attempt' = attempt + 1 /\ pc' = "connect" /\ outcome' = outcome
  /\ UNCHANGED <<far, terminal, flag, poll, prompt, visits, optionErrors>>

LoginRejected ==
  /\ pc = "again" \/ (pc = "connect" /\ ~(flag /\ OldBuild))
  /\ rejections' = rejections + 1
  /\ IF attempt = LoginAttempts
     THEN Ends("login-rejected") /\ attempt' = attempt
     ELSE attempt' = attempt + 1 /\ pc' = "connect" /\ outcome' = outcome
  /\ UNCHANGED <<far, terminal, flag, poll, prompt, visits, optionErrors>>

ConnectFails ==
  /\ pc = "again" \/ (pc = "connect" /\ ~(flag /\ OldBuild))
  /\ Ends("unreachable")
  /\ UNCHANGED <<far, terminal, flag, attempt, poll, prompt, visits, counts>>

(* disconnect(), and the loop goes on to the next session.                  *)
NextVisit ==
  /\ pc = "done"
  /\ visits < MaxVisits
  /\ visits' = visits + 1
  /\ pc' = "connect"
  /\ up' = FALSE
  /\ inbox' = <<>> /\ wire' = <<>>
  /\ screen' = Blank /\ held' = <<>>
  /\ attempt' = 1 /\ poll' = 0 /\ prompt' = Blank /\ outcome' = "none"
  /\ rejections' = 0
  /\ UNCHANGED <<device, sync, flag, optionErrors>>
-----------------------------------------------------------------------------
(* read_prompt() *)

(* Turning Synchronous off lets what was held through to the screen.        *)
StartPolling ==
  /\ pc = "connected"
  /\ sync' = FALSE
  /\ screen' = IF held = <<>> THEN screen ELSE held[Len(held)]
  /\ held' = <<>>
  /\ pc' = "poll"
  /\ UNCHANGED <<far, script, counts>>

(* _looks_like_a_prompt(): one word, ending in '#' or '>'.                  *)
PromptLike == {"prompt", "user", "rule", "mark"}

SeesPrompt ==
  /\ pc = "poll" /\ up
  /\ screen.kind \in PromptLike
  /\ prompt' = screen
  /\ pc' = "restore"
  /\ UNCHANGED <<far, terminal, flag, attempt, poll, outcome, visits, counts>>

(* Bug: the last poll is not the last.                                      *)
KeepsWaitingOnce ==
  /\ pc = "poll" /\ up
  /\ screen.kind \notin PromptLike
  /\ poll < Polls
  /\ poll' = poll + 1
  /\ UNCHANGED <<far, terminal, flag, attempt, prompt, pc, outcome, visits, counts>>

KeepsWaiting ==
  /\ pc = "poll" /\ up
  /\ screen.kind \notin PromptLike
  /\ poll + 1 < Polls
  /\ poll' = poll + 1
  /\ inbox' = IF poll > 0 /\ poll % NudgeEvery = 0 THEN Append(inbox, Nudge) ELSE inbox
  /\ UNCHANGED <<device, up, wire, terminal, flag, attempt, prompt, pc, outcome, visits, counts>>

(* Bug: only a dropped session ends the wait.                               *)
NoPromptUnbounded ==
  /\ pc = "poll" /\ ~up
  /\ sync' = TRUE
  /\ Ends("refused")
  /\ UNCHANGED <<far, screen, held, flag, attempt, poll, prompt, visits, counts>>

(* The session dropped, or no prompt by the last poll: CollectionError,     *)
(* with Synchronous put back on the way out.                                *)
NoPrompt ==
  /\ pc = "poll"
  /\ ~up \/ (screen.kind \notin PromptLike /\ poll + 1 = Polls)
  /\ sync' = TRUE
  /\ Ends("refused")
  /\ UNCHANGED <<far, screen, held, flag, attempt, poll, prompt, visits, counts>>

(* Bug: Synchronous is left off.                                            *)
RestoreSyncForgotten ==
  /\ pc = "restore"
  /\ pc' = "ready"
  /\ UNCHANGED <<far, terminal, script, counts>>

RestoreSync ==
  /\ pc = "restore"
  /\ sync' = TRUE
  /\ pc' = "ready"
  /\ UNCHANGED <<far, screen, held, script, counts>>
-----------------------------------------------------------------------------
(* run_command(): Send, then ReadString up to the prompt.                   *)

Sends(command) ==
  /\ inbox' = Append(inbox, command)
  /\ UNCHANGED <<device, up, wire, terminal, script, counts>>

(* What ends a read up to text p: with `#' taken for the prompt, anything   *)
(* that has one; with a rule taken for it, the next rule.                   *)
AnyHash == {"mark", "rule", "prompt", "config", "look", "hash"}

Stops(p) == CASE p.kind = "mark" -> AnyHash
              [] p.kind = "rule" -> {"rule"}
              [] OTHER -> {"prompt", "look"}

StopAt(stops) == {i \in DOMAIN held : /\ held[i].kind \in stops
                                      /\ \A j \in 1..(i - 1) : held[j].kind \notin stops}

(* ReadString returned: Got is its text, and what follows stays held.       *)
Got(stops) == LET i == CHOOSE i \in StopAt(stops) : TRUE IN SubSeq(held, 1, i - 1)
Consumes(stops) ==
  /\ StopAt(stops) # {}
  /\ \E i \in StopAt(stops) : held' = SubSeq(held, i + 1, Len(held))
  /\ UNCHANGED <<sync, screen, inbox, wire, device, up, flag, attempt, poll, prompt, visits,
                 counts>>

(* strip_echo(): the first line goes only if it is the command's own echo.  *)
StripEcho(out, command) ==
  IF out # <<>> /\ Head(out) = Token("echo", command) THEN Tail(out) ELSE out

(* ReadString gave up, however long it waited.                              *)
TimesOut(stops, o) ==
  /\ StopAt(stops) = {}
  /\ Ends(o)
  /\ UNCHANGED <<far, terminal, flag, attempt, poll, prompt, visits, counts>>

Connecting == Connected \/ OptionRefused \/ LoginRejected \/ ConnectFails
ReadingPrompt == StartPolling \/ SeesPrompt \/ KeepsWaiting \/ NoPrompt \/ RestoreSync
=============================================================================
