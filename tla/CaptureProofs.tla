----------------------------- MODULE CaptureProofs -----------------------------
(***************************************************************************)
(* What holds of a read-only visit for every device, banner and list of     *)
(* commands: a capture that is kept is what the switch said, a device that  *)
(* is no Cisco switch is left alone, and every wait has its answer coming.  *)
(***************************************************************************)
EXTENDS Capture, ConsoleProofs, WellFoundedInduction

(***************************************************************************)
(* The invariants.                                                          *)
(***************************************************************************)
PCs == {"connect", "again", "connected", "poll", "restore", "ready", "identify", "ask", "read",
        "done"}
Outcomes == {"none", "login-rejected", "unreachable", "refused", "error", "collected"}

VisitTyped ==
  /\ pc \in PCs /\ outcome \in Outcomes
  /\ queue \in Seq(Commands)
  /\ outputs \in Seq([command : Commands, text : Seq(Tokens)])
  /\ sent \subseteq Commands

Typed == ConsoleTyped(Commands, Tokens) /\ VisitTyped

(* Before the first command of a visit, and between two visits.             *)
Dialling == {"connect", "again"}
Unasked == Dialling \cup {"connected", "poll", "restore", "ready"}

VisitShape ==
  /\ pc \in Dialling => inbox = <<>> /\ wire = <<>> /\ held = <<>>
  /\ pc \in {"poll", "restore"} => sync = FALSE /\ held = <<>>
  /\ pc \notin {"poll", "restore"} => sync = TRUE
  /\ pc # "done" => outcome = "none"
  /\ pc \in Unasked => queue = <<>> /\ sent = {}
  /\ pc \in Unasked \cup {"identify"} => outputs = <<>>
  /\ pc \in {"ask", "read"} /\ outputs = <<>> => queue = Asked
  /\ pc = "read" => queue # <<>>
  /\ outputs = <<>> => sent \subseteq {PagingOff, Config}

(* Every rejected login moved the visit on to its next attempt, and the     *)
(* refused option is not asked for again.                                   *)
LoginsCounted ==
  /\ rejections <= attempt
  /\ pc \in Dialling => rejections = attempt - 1
  /\ optionErrors = 0 \/ (optionErrors = 1 /\ flag = FALSE)

(* What is still to be read, whichever side of the terminal it is on.       *)
Stream == held \o wire
NoEnd(s) == \A i \in DOMAIN s : s[i].kind # "end"
EndsInPrompt(s) == s # <<>> => s[Len(s)] = Prompt(device)

PromptToCome ==
  /\ EndsInPrompt(Stream)
  /\ pc \in {"identify", "read"} => inbox # <<>> \/ Stream # <<>>

(* Until the running-config is asked for, nothing reads like its end.       *)
NoConfigYet ==
  pc \in Unasked \cup {"identify"} \/ (pc = "ask" /\ outputs = <<>>) =>
    NoEnd(Stream) /\ \A i \in DOMAIN inbox : inbox[i] # Config

(* Once it is, its answer is the last thing to come, behind whatever the    *)
(* nudges left.                                                             *)
ConfigLast ==
  /\ inbox # <<>> /\ inbox[Len(inbox)] = Config
  /\ \A i \in 1..(Len(inbox) - 1) : inbox[i] # Config
  /\ NoEnd(Stream)
ConfigAnswered ==
  /\ inbox = <<>>
  /\ \E p \in Seq(Tokens) : Stream = p \o Says(device, Config) /\ NoEnd(p) /\ EndsInPrompt(p)
ConfigUnderWay ==
  pc = "read" /\ outputs = <<>> => ConfigLast \/ ConfigAnswered

(* A config accepted was the whole of it: from there on every command is    *)
(* answered before the next is sent, and read to the prompt that ends it.   *)
Faithful ==
  /\ device \in Ios /\ PromptOf[device] = "prompt" /\ "prompt" \in Stops(prompt)
  /\ \A c \in Commands : c # Config => LineKinds(device, c) \cap Stops(prompt) = {}
InStep ==
  /\ pc = "ask" => inbox = <<>> /\ Stream = <<>>
  /\ pc = "read" => \/ inbox = <<Head(queue)>> /\ Stream = <<>>
                    \/ inbox = <<>> /\ Stream = Says(device, Head(queue))
AnswersSoFar ==
  /\ \A i \in DOMAIN queue : queue[i] # Config
  /\ \A i \in DOMAIN outputs : outputs[i].text = Body(device, outputs[i].command)
  /\ [i \in DOMAIN outputs |-> outputs[i].command] \o queue
       = Asked \o TemplatesIn(Body(device, Config))
OnceConfigRead ==
  /\ outputs # <<>> => Faithful /\ InStep /\ AnswersSoFar
  /\ outcome = "collected" => outputs # <<>> /\ queue = <<>>
-----------------------------------------------------------------------------
(***************************************************************************)
(* Sequences: only the first occurrence of a name is asked for, and every   *)
(* command a config leads to is a template's.                               *)
(***************************************************************************)

(* A sequence something was appended to is not empty.                       *)
LEMMA AppendsSome ==
  ASSUME NEW S, NEW s \in Seq(S), NEW x
  PROVE  Append(s, x) # <<>>
<1>1. Len(s) \in Nat
  OBVIOUS
<1>2. Len(Append(s, x)) = Len(s) + 1
  OBVIOUS
<1> QED BY <1>1, <1>2

LEMMA LeastNumber ==
  ASSUME NEW S \in SUBSET Nat, S # {}
  PROVE  \E m \in S : \A k \in S : m <= k
<1> DEFINE Less == {ss \in Nat \X Nat : ss[1] < ss[2]}
<1>1. IsWellFoundedOn(Less, Nat)
  BY NatLessThanWellFounded, Zenon DEF OpToRel
<1>2. PICK m \in S : \A k \in S : ~ (<<k, m>> \in Less)
  <2> HIDE DEF Less
  <2> QED BY <1>1, WFMin, Zenon
<1>3. \A k \in S : ~ (k < m)
  BY <1>2
<1> QED BY <1>3

LEMMA CountingUp ==
  ASSUME NEW n \in Nat, NEW S, 0 \in S, \A i \in 1..n : i - 1 \in S => i \in S
  PROVE  \A i \in 0..n : i \in S
<1> DEFINE Missed == {i \in 0..n : i \notin S}
<1> SUFFICES ASSUME Missed # {}
             PROVE  FALSE
  OBVIOUS
<1>1. PICK m \in Missed : \A k \in Missed : m <= k
  <2>1. Missed \in SUBSET Nat
    OBVIOUS
  <2> HIDE DEF Missed
  <2> QED BY <2>1, LeastNumber
<1>2. m \in 1..n /\ m \notin S
  BY <1>1
<1>3. m - 1 \notin Missed
  BY <1>1, <1>2
<1>4. m - 1 \in S
  BY <1>2, <1>3
<1> QED BY <1>2, <1>4

(* A function defined from one number to the next exists, and takes its     *)
(* values where its steps do.                                               *)
LEMMA TemplatesTyped ==
  ASSUME NEW out \in Seq(Tokens)
  PROVE  TemplatesIn(out) \in Seq(Commands \ {Config})
<1> DEFINE L == Len(out)
           Asks == Seq(Commands \ {Config})
           New(n) == /\ out[n].kind \in DOMAIN Template
                     /\ \A j \in 1..(n - 1) : out[j].kind # out[n].kind
           More(names, n) == IF New(n) THEN Append(names, Template[out[n].kind]) ELSE names
           Names(f, n) == IF n = 0 THEN <<>> ELSE More(f[n - 1], n)
<1>1. L \in Nat /\ <<>> \in Asks
  OBVIOUS
<1>2. \A names \in Asks, n \in 1..L : More(names, n) \in Asks
  BY CommandsTyped
<1>3. TemplatesIn(out) = (CHOOSE f : f = [n \in 0..L |-> Names(f, n)])[L]
  BY Zenon DEF TemplatesIn
<1> HIDE DEF L, Asks, More
<1>4. \E g : g = [n \in 0..L |-> Names(g, n)]
  <2> DEFINE Done == {n \in 0..L : \E g \in [0..n -> Asks] : \A i \in 0..n : g[i] = Names(g, i)}
  <2>1. 0 \in Done
    <3> DEFINE g == [i \in 0..0 |-> <<>>]
    <3>1. g \in [0..0 -> Asks] /\ \A i \in 0..0 : g[i] = Names(g, i)
      BY <1>1
    <3> HIDE DEF g
    <3> QED BY <1>1, <3>1
  <2>2. ASSUME NEW n \in 1..L, n - 1 \in Done
        PROVE  n \in Done
    <3>1. PICK g \in [0..(n - 1) -> Asks] : \A i \in 0..(n - 1) : g[i] = Names(g, i)
      BY <2>2
    <3> DEFINE h == [i \in 0..n |-> IF i = n THEN More(g[n - 1], n) ELSE g[i]]
    <3>2. n \in Nat /\ n # 0 /\ n - 1 \in 0..(n - 1)
      BY <1>1
    <3>3. More(g[n - 1], n) \in Asks
      BY <1>2, <3>2
    <3>4. h \in [0..n -> Asks]
      BY <3>2, <3>3
    <3>5. ASSUME NEW i \in 0..n
          PROVE  h[i] = Names(h, i)
      <4>1. CASE i = n
        BY <3>2, <4>1
      <4>2. CASE i = 0
        BY <3>1, <3>2, <4>2
      <4>3. CASE i \in 1..(n - 1)
        <5>1. /\ i \in 0..(n - 1) /\ i - 1 \in 0..n /\ i # n /\ i - 1 # n /\ i # 0
          BY <3>2, <4>3
        <5>2. h[i] = g[i] /\ h[i - 1] = g[i - 1]
          BY <5>1
        <5>3. g[i] = More(g[i - 1], i)
          BY <3>1, <5>1
        <5> QED BY <5>1, <5>2, <5>3
      <4> QED BY <3>2, <4>1, <4>2, <4>3
    <3> HIDE DEF h
    <3> QED BY <3>4, <3>5
  <2> HIDE DEF Done
  <2>3. L \in Done
    BY <1>1, <2>1, <2>2, CountingUp
  <2>4. PICK g \in [0..L -> Asks] : \A i \in 0..L : g[i] = Names(g, i)
    BY <2>3 DEF Done
  <2>5. g = [n \in 0..L |-> Names(g, n)]
    <3> HIDE DEF Names
    <3> QED BY <2>4
  <2> QED BY <2>5
<1> DEFINE names == CHOOSE f : f = [n \in 0..L |-> Names(f, n)]
<1>5. names = [n \in 0..L |-> Names(names, n)]
  <2> HIDE DEF Names
  <2> QED BY <1>4, Zenon
<1> HIDE DEF names
<1> DEFINE Typable == {n \in 0..L : names[n] \in Asks}
<1>6. 0 \in Typable
  BY <1>1, <1>5
<1>7. ASSUME NEW n \in 1..L, n - 1 \in Typable
      PROVE  n \in Typable
  <2>1. n \in 0..L /\ n # 0 /\ names[n - 1] \in Asks
    BY <1>1, <1>7
  <2>2. names[n] = More(names[n - 1], n)
    BY <1>5, <2>1
  <2> QED BY <1>2, <2>1, <2>2
<1> HIDE DEF Typable
<1>8. L \in Typable
  BY <1>1, <1>6, <1>7, CountingUp
<1>9. names[L] \in Asks
  BY <1>8 DEF Typable
<1> QED BY <1>3, <1>9 DEF names, Asks
-----------------------------------------------------------------------------
(***************************************************************************)
(* The types.                                                               *)
(***************************************************************************)

LEMMA Streams ==
  ASSUME Typed
  PROVE  /\ held \in Seq(Tokens) /\ wire \in Seq(Tokens) /\ inbox \in Seq(Commands \cup {Nudge})
         /\ Stream \in Seq(Tokens) /\ device \in Device /\ prompt \in Tokens /\ screen \in Tokens
<1>1. held \in Seq(Tokens) /\ wire \in Seq(Tokens) /\ inbox \in Seq(Commands \cup {Nudge})
  BY DEF Typed, ConsoleTyped, StreamsTyped
<1>2. Stream \in Seq(Tokens)
  BY <1>1, ConcatProperties DEF Stream
<1> QED BY <1>1, <1>2 DEF Typed, ConsoleTyped, StreamsTyped

LEMMA GreetingsAreTokens == Greetings \subseteq Tokens
BY DEF Greetings, Tokens, Token, Kind

LEMMA BodyTyped ==
  ASSUME NEW d \in Device, NEW c \in Commands
  PROVE  /\ Body(d, c) \in Seq(Tokens) /\ Len(Body(d, c)) = Len(Reply[d][c])
         /\ \A i \in 1..Len(Body(d, c)) : Body(d, c)[i] = Token(Reply[d][c][i], c)
         /\ DOMAIN Reply[d][c] = 1..Len(Body(d, c))
         /\ Prompt(d) \in Tokens /\ Token("echo", c) \in Tokens
<1>1. Reply[d][c] \in Seq(Kind)
  BY RepliesTyped
<1>2. DOMAIN Reply[d][c] = 1..Len(Reply[d][c]) /\ Len(Reply[d][c]) \in Nat
      /\ \A i \in 1..Len(Reply[d][c]) : Reply[d][c][i] \in Kind
  BY <1>1
<1>3. \A i \in 1..Len(Reply[d][c]) : Token(Reply[d][c][i], c) \in Tokens
  BY <1>2 DEF Tokens, Token
<1>4. Body(d, c) = [i \in 1..Len(Reply[d][c]) |-> Token(Reply[d][c][i], c)]
  BY <1>2 DEF Body
<1>5. /\ Body(d, c) \in Seq(Tokens) /\ Len(Body(d, c)) = Len(Reply[d][c])
      /\ \A i \in 1..Len(Reply[d][c]) : Body(d, c)[i] = Token(Reply[d][c][i], c)
  BY <1>2, <1>3, <1>4
<1>6. Token("echo", c) \in Tokens
  BY DEF Token, Tokens, Kind
<1> QED BY <1>2, <1>5, <1>6, GreetingTokens, GreetingsAreTokens

LEMMA SaysTyped ==
  ASSUME NEW d \in Device, NEW c \in Commands \cup {Nudge}
  PROVE  /\ Says(d, c) \in Seq(Tokens) /\ Len(Says(d, c)) > 0
         /\ Says(d, c)[Len(Says(d, c))] = Prompt(d)
<1>1. Prompt(d) \in Tokens
  BY GreetingTokens, GreetingsAreTokens
<1>2. CASE c = Nudge
  BY <1>1, <1>2 DEF Says
<1>3. CASE c # Nudge
  <2> DEFINE e == <<Token("echo", c)>>
             b == Body(d, c)
             p == <<Prompt(d)>>
  <2>1. Says(d, c) = (e \o b) \o p
    BY <1>3, BodyTyped DEF Says
  <2>2. e \in Seq(Tokens) /\ b \in Seq(Tokens) /\ p \in Seq(Tokens) /\ Len(p) = 1
        /\ p[1] = Prompt(d)
    BY <1>3, <1>1, BodyTyped
  <2> HIDE DEF e, b, p
  <2>3. e \o b \in Seq(Tokens)
    BY <2>2, ConcatProperties
  <2> DEFINE f == e \o b
  <2>4. f \in Seq(Tokens) /\ Says(d, c) = f \o p
    BY <2>1, <2>3
  <2> HIDE DEF f
  <2>5. /\ f \o p \in Seq(Tokens) /\ Len(f \o p) = Len(f) + Len(p)
        /\ \A i \in 1..(Len(f) + Len(p)) :
             (f \o p)[i] = IF i <= Len(f) THEN f[i] ELSE p[i - Len(f)]
    BY <2>2, <2>4, ConcatProperties
  <2>6. Len(f) \in Nat
    BY <2>4
  <2>7. /\ Len(f) + 1 \in 1..(Len(f) + Len(p)) /\ ~ (Len(f) + 1 <= Len(f))
        /\ (Len(f) + 1) - Len(f) = 1
    BY <2>2, <2>6
  <2> QED BY <2>2, <2>4, <2>5, <2>6, <2>7
<1> QED BY <1>2, <1>3

LEMMA InitTyped == Init => Typed
<1> SUFFICES ASSUME Init
             PROVE  Typed
  OBVIOUS
<1>1. ConsoleTyped(Commands, Tokens)
  BY ConsoleInitTyped, GreetingsAreTokens DEF Init
<1>2. VisitTyped
  BY DEF Init, ConsoleInit, VisitTyped, PCs, Outcomes
<1> QED BY <1>1, <1>2 DEF Typed

(* Where the shared steps leave a visit.                                    *)
LEMMA ConnectingMoves ==
  ASSUME Connecting
  PROVE  /\ pc \in Dialling /\ pc' \in Dialling \cup {"connected", "done"}
         /\ \/ outcome' = outcome /\ pc' # "done"
            \/ pc' = "done" /\ outcome' \in {"login-rejected", "unreachable"}
BY DEF Connecting, Connected, OptionRefused, LoginRejected, ConnectFails, Ends, Dialling, script

LEMMA ReadingMoves ==
  ASSUME ReadingPrompt
  PROVE  /\ pc \in {"connected", "poll", "restore"} /\ pc' \in {"poll", "restore", "ready", "done"}
         /\ \/ outcome' = outcome /\ pc' # "done"
            \/ pc' = "done" /\ outcome' = "refused"
BY Zenon DEF ReadingPrompt, StartPolling, SeesPrompt, KeepsWaiting, NoPrompt, RestoreSync, Ends,
             script

LEMMA ReadTyped ==
  ASSUME Typed, NEW stops, Consumes(stops), NEW c \in Commands
  PROVE  StripEcho(Got(stops), c) \in Seq(Tokens)
<1>1. held \in Seq(Tokens) /\ StopAt(stops) # {}
  BY Streams DEF Consumes
<1> QED BY <1>1, ReadsWhatIsHeld

LEMMA NextTyped ==
  ASSUME Typed, VisitShape, Next
  PROVE  Typed'
<1>1. ConsoleTyped(Commands, Tokens)
  BY DEF Typed
<1>2. CASE (Connecting \/ ReadingPrompt) /\ UNCHANGED capture
  <2>1. ConsoleTyped(Commands, Tokens)'
    <3>1. Connecting => ConsoleTyped(Commands, Tokens)'
      BY <1>1, ConnectedTyped, ConnectingTyped, GreetingsAreTokens DEF Connecting
    <3> QED BY <1>1, <1>2, <3>1, ReadingPromptTyped
  <2>2. pc' \in PCs /\ outcome' \in Outcomes
    <3>1. pc' \in PCs
      BY <1>2, ConnectingMoves, ReadingMoves DEF PCs, Dialling
    <3>2. outcome \in Outcomes
      BY DEF Typed, VisitTyped
    <3>3. outcome' = outcome \/ outcome' \in {"login-rejected", "unreachable", "refused"}
      BY <1>2, ConnectingMoves, ReadingMoves
    <3> QED BY <3>1, <3>2, <3>3 DEF Outcomes
  <2> QED BY <1>2, <2>1, <2>2 DEF Typed, VisitTyped, capture
<1>3. CASE RefusesUserExec \/ Collected
  <2>1. ConsoleTyped(Commands, Tokens)'
    BY <1>1, <1>3, QuietTyped DEF RefusesUserExec, Collected
  <2>2. pc' \in PCs /\ outcome' \in Outcomes
    BY <1>3 DEF RefusesUserExec, Collected, Ends, PCs, Outcomes
  <2> QED BY <1>3, <2>1, <2>2 DEF RefusesUserExec, Collected, Typed, VisitTyped, capture
<1>4. CASE CommandTimesOut
  <2>1. ConsoleTyped(Commands, Tokens)'
    BY <1>1, <1>4, QuietTyped DEF CommandTimesOut, TimesOut
  <2>2. pc' \in PCs /\ outcome' \in Outcomes
    BY <1>4 DEF CommandTimesOut, TimesOut, Ends, PCs, Outcomes
  <2> QED BY <1>4, <2>1, <2>2 DEF CommandTimesOut, Typed, VisitTyped, capture
<1>5. CASE TurnPagingOff
  <2>1. PagingOff \in Commands
    BY CommandsTyped
  <2>2. ConsoleTyped(Commands, Tokens)'
    BY <1>1, <1>5, <2>1, SendsTyped DEF TurnPagingOff
  <2>3. pc' \in PCs /\ outcome' = outcome /\ sent' = sent \cup {PagingOff}
        /\ queue' = queue /\ outputs' = outputs
    BY <1>5 DEF TurnPagingOff, Sends, script, PCs
  <2> QED BY <2>1, <2>2, <2>3 DEF Typed, VisitTyped
<1>6. CASE Ask
  <2>1. queue \in Seq(Commands) /\ queue # <<>> /\ Head(queue) \in Commands
    BY <1>6 DEF Ask, Typed, VisitTyped
  <2>2. ConsoleTyped(Commands, Tokens)'
    BY <1>1, <1>6, <2>1, SendsTyped DEF Ask
  <2>3. pc' \in PCs /\ outcome' = outcome /\ sent' = sent \cup {Head(queue)}
        /\ queue' = queue /\ outputs' = outputs
    BY <1>6 DEF Ask, Sends, script, PCs
  <2> QED BY <2>1, <2>2, <2>3 DEF Typed, VisitTyped
<1>7. CASE Identify
  <2>1. ConsoleTyped(Commands, Tokens)'
    BY <1>1, <1>7, ConsumesTyped DEF Identify
  <2>2. /\ pc' \in PCs /\ outcome' \in Outcomes \cup {outcome} /\ queue' \in {queue, Asked}
        /\ outputs' = outputs /\ sent' = sent
    BY <1>7, Zenon DEF Identify, Ends, PCs, Outcomes
  <2> QED BY <2>1, <2>2, CommandsTyped DEF Typed, VisitTyped
<1>8. CASE ReadOutput
  <2>1. ConsoleTyped(Commands, Tokens)'
    BY <1>1, <1>8, ConsumesTyped DEF ReadOutput
  <2> DEFINE c == Head(queue)
             out == StripEcho(Got(Stops(prompt)), c)
             more == IF c = Config THEN TemplatesIn(out) ELSE <<>>
  <2>2. queue \in Seq(Commands) /\ c \in Commands /\ Tail(queue) \in Seq(Commands)
    BY <1>8 DEF ReadOutput, VisitShape, Typed, VisitTyped
  <2>3. out \in Seq(Tokens)
    BY <1>8, <2>2, ReadTyped DEF ReadOutput
  <2>4. more \in Seq(Commands)
    <3>1. TemplatesIn(out) \in Seq(Commands \ {Config})
      BY <2>3, TemplatesTyped
    <3>2. TemplatesIn(out) \in Seq(Commands)
      BY <3>1, SeqMonotonic
    <3> QED BY <3>2
  <2>5. sent' = sent /\ \/ /\ pc' = "done" /\ outcome' = "refused"
                           /\ queue' = queue /\ outputs' = outputs
                        \/ /\ pc' = "ask" /\ outcome' = outcome
                           /\ outputs' = Append(outputs, [command |-> c, text |-> out])
                           /\ queue' = Tail(queue) \o more
    BY <1>8, Zenon DEF ReadOutput, Ends
  <2> HIDE DEF c, out, more
  <2>6. [command |-> c, text |-> out] \in [command : Commands, text : Seq(Tokens)]
    BY <2>2, <2>3
  <2>7. outputs \in Seq([command : Commands, text : Seq(Tokens)])
    BY DEF Typed, VisitTyped
  <2>8. outputs' \in Seq([command : Commands, text : Seq(Tokens)])
    <3> DEFINE o == [command |-> c, text |-> out]
               Kept == [command : Commands, text : Seq(Tokens)]
    <3>1. outputs' = outputs \/ outputs' = Append(outputs, o)
      BY <2>5
    <3>2. o \in Kept /\ outputs \in Seq(Kept)
      BY <2>6, <2>7
    <3> HIDE DEF o, Kept
    <3>3. Append(outputs, o) \in Seq(Kept)
      BY <3>2, AppendProperties
    <3>4. outputs' \in Seq(Kept)
      BY <3>1, <3>2, <3>3
    <3> QED BY <3>4 DEF Kept
  <2>9. queue' \in Seq(Commands)
    BY <2>2, <2>4, <2>5, ConcatProperties
  <2>10. pc' \in PCs /\ outcome' \in Outcomes
    BY <2>5 DEF PCs, Outcomes, Typed, VisitTyped
  <2> QED BY <2>1, <2>5, <2>8, <2>9, <2>10 DEF Typed, VisitTyped
<1>9. CASE (Arrive \/ Drop) /\ UNCHANGED capture
  <2>1. ConsoleTyped(Commands, Tokens)'
    BY <1>1, <1>9, ArriveTyped, DropTyped
  <2>2. pc' = pc /\ outcome' = outcome
    BY <1>9 DEF Arrive, Drop, script
  <2> QED BY <1>9, <2>1, <2>2 DEF Typed, VisitTyped, capture
<1>10. CASE DeviceAnswers
  <2>1. inbox # <<>> /\ Head(inbox) \in Commands \cup {Nudge} /\ device \in Device
    BY <1>10, Streams DEF DeviceAnswers
  <2>2. ConsoleTyped(Commands, Tokens)'
    BY <1>1, <1>10, <2>1, SaysTyped, AnswersTyped DEF DeviceAnswers
  <2>3. pc' = pc /\ outcome' = outcome /\ UNCHANGED capture
    BY <1>10 DEF DeviceAnswers, Answers, script
  <2> QED BY <2>2, <2>3 DEF Typed, VisitTyped, capture
<1>11. CASE NextVisit /\ queue' = <<>> /\ outputs' = <<>> /\ sent' = {}
  <2>1. ConsoleTyped(Commands, Tokens)'
    BY <1>1, <1>11, NextVisitTyped, GreetingsAreTokens
  <2>2. pc' \in PCs /\ outcome' \in Outcomes
    BY <1>11 DEF NextVisit, PCs, Outcomes
  <2> QED BY <1>11, <2>1, <2>2 DEF Typed, VisitTyped
<1> QED BY <1>2, <1>3, <1>4, <1>5, <1>6, <1>7, <1>8, <1>9, <1>10, <1>11 DEF Next, Visiting

LEMMA StutterTyped == Typed /\ UNCHANGED vars => Typed'
BY Zenon DEF Typed, ConsoleTyped, StreamsTyped, CountersTyped, SwitchesTyped, VisitTyped, vars,
             console, capture, far, terminal, script, counts
-----------------------------------------------------------------------------
(***************************************************************************)
(* The shape of a visit, and the logins it has made.                        *)
(***************************************************************************)

LEMMA InitShape == Init => VisitShape /\ LoginsCounted
BY DEF Init, ConsoleInit, VisitShape, LoginsCounted, Dialling, Unasked

LEMMA NextShape ==
  ASSUME Typed, VisitShape, Next
  PROVE  VisitShape'
<1>1. CASE Connecting /\ UNCHANGED capture
  <2>1. /\ pc' \in Dialling => UNCHANGED <<inbox, wire, held>>
        /\ sync' = sync
    BY <1>1, Zenon DEF Connecting, Connected, OptionRefused, LoginRejected, ConnectFails, Ends,
                       Dialling, far, terminal
  <2> QED BY <1>1, <2>1, ConnectingMoves DEF VisitShape, Dialling, Unasked, capture
<1>2. CASE ReadingPrompt /\ UNCHANGED capture
  <2>1. pc' \notin {"poll", "restore"} => sync' = TRUE
    BY <1>2, Zenon DEF ReadingPrompt, StartPolling, SeesPrompt, KeepsWaiting, NoPrompt, RestoreSync
  <2>2. pc' \in {"poll", "restore"} =>
          (sync' = FALSE /\ held' = <<>>) \/ (pc \in {"poll", "restore"} /\ UNCHANGED terminal)
    BY <1>2 DEF ReadingPrompt, StartPolling, SeesPrompt, KeepsWaiting, NoPrompt, RestoreSync, Ends
  <2> QED BY <1>2, <2>1, <2>2, ReadingMoves DEF VisitShape, Dialling, Unasked, capture, terminal
<1>3. CASE RefusesUserExec \/ Collected \/ CommandTimesOut
  <2>1. pc' = "done" /\ sync' = sync /\ UNCHANGED capture
        /\ pc \in {"ready", "ask", "identify", "read"}
    BY <1>3 DEF RefusesUserExec, Collected, CommandTimesOut, TimesOut, Ends, terminal
  <2> QED BY <2>1 DEF VisitShape, Dialling, Unasked, capture
<1>4. CASE TurnPagingOff
  BY <1>4 DEF TurnPagingOff, Sends, terminal, script, VisitShape, Dialling, Unasked
<1>5. CASE Ask
  <2>1. /\ pc = "ask" /\ pc' = "read" /\ sync' = sync /\ outcome' = outcome /\ queue # <<>>
        /\ queue' = queue /\ outputs' = outputs /\ sent' = sent \cup {Head(queue)}
    BY <1>5 DEF Ask, Sends, terminal, script
  <2>2. Head(Asked) = Config
    BY ConfigFirst
  <2> QED BY <2>1, <2>2 DEF VisitShape, Dialling, Unasked
<1>6. CASE Identify
  <2>1. /\ pc = "identify" /\ sync' = sync /\ outputs' = outputs /\ sent' = sent
        /\ pc' = "done" \/ (pc' = "ask" /\ queue' = Asked /\ outcome' = outcome)
    BY <1>6 DEF Identify, Consumes, Ends
  <2> QED BY <2>1 DEF VisitShape, Dialling, Unasked
<1>7. CASE ReadOutput
  <2> DEFINE o == [command |-> Head(queue),
                   text    |-> StripEcho(Got(Stops(prompt)), Head(queue))]
  <2>1. /\ pc = "read" /\ sync' = sync /\ sent' = sent
        /\ \/ pc' = "done" /\ outputs' = outputs
           \/ pc' = "ask" /\ outputs' = Append(outputs, o) /\ outcome' = outcome
    BY <1>7 DEF ReadOutput, Consumes, Ends
  <2> HIDE DEF o
  <2>2. Append(outputs, o) # <<>>
    <3>1. outputs \in Seq([command : Commands, text : Seq(Tokens)])
      BY DEF Typed, VisitTyped
    <3> QED BY <3>1, AppendsSome
  <2>3. CASE pc' = "done" /\ outputs' = outputs
    BY <2>1, <2>3 DEF VisitShape, Dialling, Unasked
  <2>4. CASE pc' = "ask" /\ outputs' = Append(outputs, o) /\ outcome' = outcome
    <3>1. outputs' # <<>>
      BY <2>2, <2>4
    <3> QED BY <2>1, <2>4, <3>1 DEF VisitShape, Dialling, Unasked
  <2> QED BY <2>1, <2>3, <2>4
<1>8. CASE (Arrive \/ Drop) /\ UNCHANGED capture
  <2>1. UNCHANGED <<pc, sync, outcome>> /\ (wire = <<>> => Drop)
        /\ (sync = FALSE => held' = held)
    BY <1>8 DEF Arrive, Drop, script, terminal
  <2>2. pc \in Dialling => UNCHANGED <<inbox, wire, held>>
    BY <1>8, <2>1 DEF Drop, VisitShape, terminal
  <2> QED BY <1>8, <2>1, <2>2 DEF VisitShape, capture
<1>9. CASE DeviceAnswers
  <2>1. UNCHANGED <<pc, sync, outcome, held>> /\ UNCHANGED capture /\ inbox # <<>>
    BY <1>9 DEF DeviceAnswers, Answers, script, terminal
  <2> QED BY <2>1 DEF VisitShape, capture
<1>10. CASE NextVisit /\ queue' = <<>> /\ outputs' = <<>> /\ sent' = {}
  BY <1>10 DEF NextVisit, VisitShape, Dialling, Unasked
<1> QED BY <1>1, <1>2, <1>3, <1>4, <1>5, <1>6, <1>7, <1>8, <1>9, <1>10 DEF Next, Visiting

LEMMA StutterShape == VisitShape /\ UNCHANGED vars => VisitShape'
BY DEF VisitShape, vars, console, capture, far, terminal, script

LEMMA NextLogins ==
  ASSUME Typed, LoginsCounted, Next
  PROVE  LoginsCounted'
<1>1. rejections \in Nat /\ attempt \in Nat /\ optionErrors \in Nat
  BY AttemptsNat DEF Typed, ConsoleTyped, CountersTyped
<1>2. CASE OptionRefused
  <2>1. /\ pc = "connect" /\ flag = TRUE /\ flag' = FALSE /\ optionErrors' = optionErrors + 1
        /\ pc' = "again" /\ attempt' = attempt /\ rejections' = rejections
    BY <1>2, Zenon DEF OptionRefused, Typed, ConsoleTyped, SwitchesTyped
  <2>2. optionErrors = 0
    BY <2>1, Zenon DEF LoginsCounted
  <2> QED BY <1>1, <2>1, <2>2 DEF LoginsCounted, Dialling
<1>3. CASE LoginRejected
  <2>1. /\ pc \in Dialling /\ rejections' = rejections + 1
        /\ \/ pc' = "done" /\ attempt' = attempt
           \/ attempt' = attempt + 1
        /\ optionErrors' = optionErrors /\ flag' = flag
    BY <1>3 DEF LoginRejected, Ends, Dialling
  <2>2. rejections' <= attempt' /\ (pc' \in Dialling => rejections' = attempt' - 1)
    BY <1>1, <2>1 DEF LoginsCounted, Dialling
  <2> QED BY <2>1, <2>2, Zenon DEF LoginsCounted
<1>4. CASE \/ Connected \/ ConnectFails \/ ReadingPrompt \/ RefusesUserExec \/ TurnPagingOff
           \/ Identify \/ Ask \/ ReadOutput \/ Collected \/ CommandTimesOut
           \/ Arrive \/ Drop \/ DeviceAnswers
  <2>1. UNCHANGED <<attempt, rejections, optionErrors, flag>>
    <3>1. CASE Connected \/ ConnectFails \/ ReadingPrompt
      BY <3>1, Zenon DEF Connected, ConnectFails, ReadingPrompt, StartPolling, SeesPrompt,
                         KeepsWaiting, NoPrompt, RestoreSync, script, counts
    <3>2. CASE RefusesUserExec \/ TurnPagingOff \/ Identify \/ Ask \/ ReadOutput
      BY <3>2, Zenon DEF RefusesUserExec, TurnPagingOff, Identify, Ask, ReadOutput, Sends,
                         Consumes, script, counts
    <3>3. CASE Collected \/ CommandTimesOut \/ Arrive \/ Drop \/ DeviceAnswers
      BY <3>3, Zenon DEF Collected, CommandTimesOut, TimesOut, Arrive, Drop, DeviceAnswers,
                         Answers, script, counts
    <3> QED BY <1>4, <3>1, <3>2, <3>3
  <2>2. pc' \in Dialling => pc' = pc
    <3>1. CASE Connected \/ ConnectFails
      BY <3>1 DEF Connected, ConnectFails, Ends, Dialling
    <3>2. CASE ReadingPrompt
      BY <3>2, ReadingMoves DEF Dialling
    <3>3. CASE RefusesUserExec \/ TurnPagingOff \/ Identify \/ Ask \/ ReadOutput
      BY <3>3 DEF RefusesUserExec, TurnPagingOff, Identify, Ask, ReadOutput, Ends, Dialling
    <3>4. CASE Collected \/ CommandTimesOut \/ Arrive \/ Drop \/ DeviceAnswers
      BY <3>4 DEF Collected, CommandTimesOut, TimesOut, Arrive, Drop, DeviceAnswers, Answers,
                  Ends, Dialling
    <3> QED BY <1>4, <3>1, <3>2, <3>3, <3>4
  <2> QED BY <2>1, <2>2, Zenon DEF LoginsCounted
<1>5. CASE NextVisit
  <2>1. attempt' = 1 /\ rejections' = 0 /\ optionErrors' = optionErrors /\ flag' = flag
    BY <1>5 DEF NextVisit
  <2>2. rejections' <= attempt' /\ rejections' = attempt' - 1
    BY <2>1
  <2> QED BY <2>1, <2>2, Zenon DEF LoginsCounted
<1> QED BY <1>2, <1>3, <1>4, <1>5, Zenon DEF Next, Visiting, Connecting

LEMMA StutterLogins == LoginsCounted /\ UNCHANGED vars => LoginsCounted'
BY Zenon DEF LoginsCounted, vars, console, script, counts
-----------------------------------------------------------------------------
(***************************************************************************)
(* The stream: a step takes it as it is, reads some of its front, or adds   *)
(* what the device says to its end.                                         *)
(***************************************************************************)

RestOf(t, s) == \E i \in 0..Len(s) : t = SubSeq(s, i + 1, Len(s))

LEMMA RestProperties ==
  ASSUME NEW s \in Seq(Tokens), NEW i \in 0..Len(s)
  PROVE  LET t == SubSeq(s, i + 1, Len(s))
         IN  /\ t \in Seq(Tokens) /\ Len(t) = Len(s) - i /\ DOMAIN t = 1..(Len(s) - i)
             /\ \A j \in 1..(Len(s) - i) : t[j] = s[j + i]
OBVIOUS

LEMMA RestKeeps ==
  ASSUME NEW s \in Seq(Tokens), NEW t, RestOf(t, s)
  PROVE  /\ t \in Seq(Tokens)
         /\ NoEnd(s) => NoEnd(t)
         /\ EndsInPrompt(s) => EndsInPrompt(t)
<1>1. PICK i \in 0..Len(s) : t = SubSeq(s, i + 1, Len(s))
  BY DEF RestOf
<1> DEFINE n == Len(s)
<1>2. /\ t \in Seq(Tokens) /\ Len(t) = n - i /\ DOMAIN t = 1..(n - i)
      /\ \A j \in 1..(n - i) : t[j] = s[j + i]
  BY <1>1, RestProperties
<1>3. n \in Nat /\ DOMAIN s = 1..n /\ i \in 0..n
  OBVIOUS
<1> HIDE DEF n
<1>4. \A j \in 1..(n - i) : j + i \in 1..n
  BY <1>3
<1>5. t # <<>> => n - i \in 1..(n - i) /\ (n - i) + i = n /\ n > 0
  BY <1>2, <1>3
<1>6. NoEnd(s) => NoEnd(t)
  BY <1>2, <1>3, <1>4 DEF NoEnd
<1>7. t # <<>> => t[Len(t)] = s[n] /\ s # <<>>
  BY <1>2, <1>3, <1>5
<1>8. EndsInPrompt(s) => EndsInPrompt(t)
  BY <1>7 DEF EndsInPrompt, n
<1> QED BY <1>2, <1>6, <1>8

LEMMA WholeIsRest ==
  ASSUME NEW s \in Seq(Tokens)
  PROVE  RestOf(s, s) /\ RestOf(<<>>, s)
<1>1. 0 \in 0..Len(s) /\ s = SubSeq(s, 0 + 1, Len(s))
  OBVIOUS
<1>2. Len(s) \in 0..Len(s) /\ <<>> = SubSeq(s, Len(s) + 1, Len(s))
  OBVIOUS
<1> QED BY <1>1, <1>2 DEF RestOf

LEMMA TokensConcat ==
  ASSUME NEW a \in Seq(Tokens), NEW b \in Seq(Tokens)
  PROVE  /\ a \o b \in Seq(Tokens) /\ Len(a \o b) = Len(a) + Len(b)
         /\ \A j \in 1..(Len(a) + Len(b)) :
               (a \o b)[j] = IF j <= Len(a) THEN a[j] ELSE b[j - Len(a)]
BY ConcatProperties

(* Cutting the front of one side cuts the front of the whole.               *)
LEMMA RestOfConcat ==
  ASSUME NEW h \in Seq(Tokens), NEW w \in Seq(Tokens), NEW i \in 0..Len(h)
  PROVE  SubSeq(h, i + 1, Len(h)) \o w = SubSeq(h \o w, i + 1, Len(h \o w))
<1> DEFINE t == SubSeq(h, i + 1, Len(h))
           s == h \o w
           r == SubSeq(s, i + 1, Len(s))
           n == Len(h)
           m == Len(w)
<1>1. /\ t \in Seq(Tokens) /\ Len(t) = n - i /\ \A j \in 1..(n - i) : t[j] = h[j + i]
      /\ n \in Nat /\ m \in Nat /\ i \in 0..n
  BY RestProperties
<1>2. /\ s \in Seq(Tokens) /\ Len(s) = n + m
      /\ \A j \in 1..(n + m) : s[j] = IF j <= n THEN h[j] ELSE w[j - n]
  BY ConcatProperties
<1>3. i \in 0..Len(s)
  BY <1>1, <1>2
<1>4. /\ r \in Seq(Tokens) /\ Len(r) = Len(s) - i
      /\ \A j \in 1..(Len(s) - i) : r[j] = s[j + i]
  <2> HIDE DEF s
  <2> QED BY <1>2, <1>3, RestProperties
<1> HIDE DEF t, s, r
<1>5. /\ t \o w \in Seq(Tokens) /\ Len(t \o w) = Len(t) + m
      /\ \A j \in 1..(Len(t) + m) : (t \o w)[j] = IF j <= Len(t) THEN t[j] ELSE w[j - Len(t)]
  <2>1. t \in Seq(Tokens) /\ w \in Seq(Tokens)
    BY <1>1
  <2>2. /\ t \o w \in Seq(Tokens) /\ Len(t \o w) = Len(t) + Len(w)
        /\ \A j \in 1..(Len(t) + Len(w)) :
              (t \o w)[j] = IF j <= Len(t) THEN t[j] ELSE w[j - Len(t)]
    BY <2>1, TokensConcat
  <2> QED BY <2>2
<1> HIDE DEF n, m
<1>6. Len(t \o w) = (n + m) - i /\ Len(r) = (n + m) - i
  <2>1. (n - i) + m = (n + m) - i
    BY <1>1
  <2> QED BY <1>1, <1>2, <1>4, <1>5, <2>1
<1>7. ASSUME NEW j \in 1..((n + m) - i)
      PROVE  (t \o w)[j] = r[j]
  <2>1. r[j] = s[j + i] /\ j + i \in 1..(n + m)
    <3>1. n \in Nat /\ m \in Nat /\ i \in 0..n
      BY <1>1
    <3>2. j + i \in 1..(n + m)
      BY <3>1
    <3>3. \A k \in 1..((n + m) - i) : r[k] = s[k + i]
      BY <1>2, <1>4
    <3> QED BY <3>2, <3>3
  <2>2. CASE j <= n - i
    <3>1. j \in 1..(n - i) /\ j + i <= n /\ j \in 1..((n - i) + m)
      BY <1>1, <2>2
    <3>2. (t \o w)[j] = t[j] /\ t[j] = h[j + i]
      BY <1>1, <1>5, <3>1
    <3> QED BY <1>2, <2>1, <3>1, <3>2
  <2>3. CASE ~ (j <= n - i)
    <3>1. ~ (j + i <= n) /\ j - (n - i) = (j + i) - n /\ j \in 1..((n - i) + m)
      BY <1>1, <2>3
    <3>2. (t \o w)[j] = w[j - (n - i)]
      BY <1>1, <1>5, <2>3, <3>1
    <3>3. s[j + i] = w[(j + i) - n]
      BY <1>2, <2>1, <3>1
    <3> QED BY <2>1, <3>1, <3>2, <3>3
  <2> QED BY <2>2, <2>3
<1>8. t \o w = r
  BY <1>4, <1>5, <1>6, <1>7, SeqEqual
<1> QED BY <1>8 DEF t, s, r

(* What leaves the front of one sequence for the end of another.            *)
LEMMA MoveHead ==
  ASSUME NEW S, NEW s \in Seq(S), NEW q \in Seq(S), q # <<>>
  PROVE  Append(s, Head(q)) \o Tail(q) = s \o q
<1> DEFINE x == q[1]
           r == SubSeq(q, 2, Len(q))
           n == Len(q)
<1>1. x \in S /\ Head(q) = x /\ Tail(q) = r /\ 1 \in 1..n /\ n \in 1..n /\ r \in Seq(S)
  <2>1. Head(q) \in S /\ Head(q) = x /\ Tail(q) \in Seq(S)
    BY HeadTailProperties
  <2>2. Tail(q) = r
    BY TailIsSubSeq
  <2>3. n \in Nat /\ n # 0
    BY EmptySeq
  <2> QED BY <2>1, <2>2, <2>3
<1>2. q = <<x>> \o r
  <2>1. SubSeq(q, 1, n) = <<x>> \o SubSeq(q, 1 + 1, n)
    <3> HIDE DEF n
    <3> QED BY <1>1, SubSeqRecursiveFirst DEF n
  <2> QED BY <2>1, SubSeqFull
<1>3. Append(s, x) = s \o <<x>> /\ <<x>> \in Seq(S)
  <2>1. x \in S
    BY <1>1
  <2> HIDE DEF x
  <2>2. <<x>> \in Seq(S)
    BY <2>1
  <2> QED BY <2>1, <2>2, AppendIsConcat
<1> HIDE DEF x, r
<1>4. (s \o <<x>>) \o r = s \o (<<x>> \o r)
  BY <1>1, <1>3, ConcatAssociative
<1> QED BY <1>1, <1>2, <1>3, <1>4

LEMMA ArriveStream ==
  ASSUME Typed, Arrive, sync = TRUE
  PROVE  Stream' = Stream
<1>1. wire # <<>> /\ wire' = Tail(wire) /\ held' = Append(held, Head(wire))
  BY DEF Arrive
<1>2. held \in Seq(Tokens) /\ wire \in Seq(Tokens)
  BY Streams
<1> QED BY <1>1, <1>2, MoveHead DEF Stream

LEMMA ConsumesStream ==
  ASSUME Typed, NEW stops, Consumes(stops)
  PROVE  RestOf(Stream', Stream)
<1>1. held \in Seq(Tokens) /\ wire \in Seq(Tokens) /\ StopAt(stops) # {}
  BY Streams DEF Consumes
<1>2. PICK i \in 1..Len(held) : held' = SubSeq(held, i + 1, Len(held))
  BY <1>1, StopsAt
<1>3. wire' = wire /\ i \in 0..Len(held)
  BY <1>2 DEF Consumes
<1>4. Stream' = SubSeq(Stream, i + 1, Len(Stream))
  BY <1>1, <1>2, <1>3, RestOfConcat DEF Stream
<1>5. i \in 0..Len(Stream)
  <2>1. Len(Stream) = Len(held) + Len(wire) /\ Len(held) \in Nat /\ Len(wire) \in Nat
    BY <1>1, ConcatProperties DEF Stream
  <2> QED BY <1>3, <2>1
<1> QED BY <1>4, <1>5 DEF RestOf

LEMMA AnswersStream ==
  ASSUME Typed, NEW r \in Seq(Tokens), Answers(r)
  PROVE  Stream' = Stream \o r
<1>1. held' = held /\ wire' = wire \o r
  BY DEF Answers, terminal
<1>2. held \in Seq(Tokens) /\ wire \in Seq(Tokens)
  BY Streams
<1>3. held \o (wire \o r) = (held \o wire) \o r
  BY <1>2, ConcatAssociative
<1> QED BY <1>1, <1>3 DEF Stream

(* Every step but the connection and the device's own answers.              *)
Reads == \/ /\ \/ OptionRefused \/ LoginRejected \/ ConnectFails \/ ReadingPrompt
               \/ Arrive \/ Drop
            /\ UNCHANGED capture
         \/ RefusesUserExec \/ TurnPagingOff \/ Identify \/ Ask \/ ReadOutput \/ Collected
         \/ CommandTimesOut
         \/ NextVisit /\ queue' = <<>> /\ outputs' = <<>> /\ sent' = {}

LEMMA ReadsStream ==
  ASSUME Typed, VisitShape, Reads
  PROVE  RestOf(Stream', Stream) /\ device' = device
<1>1. /\ held \in Seq(Tokens) /\ wire \in Seq(Tokens) /\ Stream \in Seq(Tokens)
      /\ RestOf(Stream, Stream) /\ RestOf(<<>>, Stream)
  BY Streams, WholeIsRest
<1>2. UNCHANGED <<held, wire>> => Stream' = Stream
  BY DEF Stream
<1>3. CASE OptionRefused \/ LoginRejected \/ ConnectFails \/ SeesPrompt \/ KeepsWaiting
           \/ NoPrompt \/ RestoreSync \/ RefusesUserExec \/ TurnPagingOff
  <2>1. UNCHANGED <<held, wire, device>>
    BY <1>3, Zenon DEF OptionRefused, LoginRejected, ConnectFails, SeesPrompt, KeepsWaiting,
                       NoPrompt, RestoreSync, RefusesUserExec, TurnPagingOff, Sends, far, terminal
  <2> QED BY <1>1, <1>2, <2>1
<1>4. CASE Ask \/ Collected \/ CommandTimesOut \/ Drop
  <2>1. UNCHANGED <<held, wire, device>>
    BY <1>4, Zenon DEF Ask, Sends, Collected, CommandTimesOut, TimesOut, Drop, far, terminal
  <2> QED BY <1>1, <1>2, <2>1
<1>5. CASE StartPolling
  <2>1. held' = <<>> /\ wire' = wire /\ device' = device
    BY <1>5 DEF StartPolling, far
  <2>2. Len(held) \in 0..Len(held) /\ SubSeq(held, Len(held) + 1, Len(held)) = <<>>
    BY <1>1
  <2>3. <<>> \o wire = SubSeq(Stream, Len(held) + 1, Len(Stream))
    BY <1>1, <2>2, RestOfConcat DEF Stream
  <2>4. Len(held) \in 0..Len(Stream)
    <3>1. Len(Stream) = Len(held) + Len(wire) /\ Len(held) \in Nat /\ Len(wire) \in Nat
      BY <1>1, ConcatProperties DEF Stream
    <3> QED BY <3>1
  <2>5. Stream' = <<>> \o wire
    BY <2>1 DEF Stream
  <2> QED BY <2>1, <2>3, <2>4, <2>5 DEF RestOf
<1>6. CASE Identify \/ ReadOutput
  <2>1. Consumes(Stops(prompt)) /\ device' = device
    BY <1>6 DEF Identify, ReadOutput, Consumes
  <2> QED BY <2>1, ConsumesStream
<1>7. CASE Arrive
  <2>1. device' = device /\ wire # <<>> /\ wire' = Tail(wire)
    BY <1>7 DEF Arrive
  <2>2. CASE sync = TRUE
    BY <1>1, <1>7, <2>1, <2>2, ArriveStream
  <2>3. CASE sync = FALSE
    <3>1. held = <<>> /\ held' = <<>>
      BY <1>7, <2>3 DEF Arrive, VisitShape
    <3>2. Stream = wire /\ Stream' = Tail(wire)
      BY <1>1, <2>1, <3>1, ConcatEmptySeq, HeadTailProperties DEF Stream
    <3>3. Tail(wire) = SubSeq(wire, 1 + 1, Len(wire)) /\ 1 \in 0..Len(wire)
      BY <1>1, <2>1, TailIsSubSeq
    <3> QED BY <2>1, <3>2, <3>3 DEF RestOf
  <2>4. sync \in BOOLEAN
    BY Zenon DEF Typed, ConsoleTyped, SwitchesTyped
  <2> QED BY <2>2, <2>3, <2>4, Zenon
<1>8. CASE NextVisit
  <2>1. held' = <<>> /\ wire' = <<>> /\ device' = device
    BY <1>8 DEF NextVisit
  <2>2. Stream' = <<>>
    BY <2>1 DEF Stream
  <2> QED BY <1>1, <2>1, <2>2
<1> QED BY <1>3, <1>4, <1>5, <1>6, <1>7, <1>8, Zenon DEF Reads, ReadingPrompt

LEMMA ConnectedStream ==
  ASSUME Typed, VisitShape, Connected
  PROVE  /\ inbox' = <<>> /\ pc' = "connected"
         /\ Stream' \in Seq(Tokens) /\ NoEnd(Stream') /\ EndsInPrompt(Stream)'
<1>1. inbox = <<>> /\ held = <<>> /\ inbox' = inbox /\ held' = held /\ pc' = "connected"
      /\ device' \in Device
  BY DEF Connected, VisitShape, Dialling, terminal
<1>2. PICK b \in Banners :
        wire' = [i \in DOMAIN b |-> Token(b[i], NoCommand)] \o <<Prompt(device')>>
  BY DEF Connected
<1> DEFINE g == [i \in DOMAIN b |-> Token(b[i], NoCommand)]
           p == <<Prompt(device')>>
           n == Len(g)
<1>3. g \in Seq(Greetings) /\ Prompt(device') \in Greetings
  BY <1>1, GreetingTokens
<1>4. /\ g \in Seq(Greetings) /\ p \in Seq(Greetings) /\ Len(p) = 1 /\ p[1] = Prompt(device')
      /\ n \in Nat
  BY <1>3
<1>5. wire' = g \o p
  BY <1>2
<1> HIDE DEF g, p
<1>6. /\ wire' \in Seq(Greetings) /\ Len(wire') = n + Len(p)
      /\ \A i \in 1..(n + Len(p)) : wire'[i] = IF i <= n THEN g[i] ELSE p[i - n]
  BY <1>4, <1>5, ConcatProperties
<1>7. Stream' = wire'
  BY <1>1, <1>6, ConcatEmptySeq DEF Stream
<1>8. wire'[Len(wire')] = Prompt(device')
  <2> HIDE DEF n
  <2>1. n + Len(p) \in 1..(n + Len(p)) /\ ~ (n + Len(p) <= n) /\ (n + Len(p)) - n = 1
    BY <1>4
  <2> QED BY <1>4, <1>6, <2>1
<1>9. \A i \in DOMAIN wire' : wire'[i].kind # "end"
  <2>1. \A t \in Greetings : t.kind # "end"
    BY DEF Greetings, Token
  <2>2. \A i \in DOMAIN wire' : wire'[i] \in Greetings
    BY <1>6
  <2> QED BY <2>1, <2>2
<1>10. wire' \in Seq(Tokens)
  BY <1>6, GreetingsAreTokens, SeqMonotonic
<1> QED BY <1>1, <1>7, <1>8, <1>9, <1>10 DEF NoEnd, EndsInPrompt

LEMMA ConfigAsked == Config \in Commands /\ Config # Nudge
<1>1. 1 \in 1..Len(Asked)
  BY ConfigFirst, CommandsTyped
<1>2. Asked[1] \in Commands
  BY <1>1, CommandsTyped
<1> QED BY <1>2, ConfigFirst, CommandsTyped

(* An answer: the echo, its lines, the prompt.                              *)
LEMMA SaysParts ==
  ASSUME NEW d \in Device, NEW c \in Commands
  PROVE  LET b == Body(d, c)
             a == Says(d, c)
         IN  /\ a \in Seq(Tokens) /\ b \in Seq(Tokens) /\ Len(b) \in Nat /\ Len(a) = Len(b) + 2
             /\ a[1] = Token("echo", c) /\ \A j \in 1..Len(b) : a[j + 1] = b[j]
             /\ a[Len(b) + 2] = Prompt(d)
<1> DEFINE e == <<Token("echo", c)>>
           b == Body(d, c)
           p == <<Prompt(d)>>
           n == Len(b)
<1>1. Says(d, c) = (e \o b) \o p
  BY CommandsTyped, BodyTyped DEF Says
<1>2. /\ e \in Seq(Tokens) /\ b \in Seq(Tokens) /\ p \in Seq(Tokens) /\ Len(p) = 1 /\ Len(e) = 1
      /\ p[1] = Prompt(d) /\ e[1] = Token("echo", c) /\ n \in Nat
  BY BodyTyped
<1> HIDE DEF e, b, p
<1> DEFINE f == e \o b
<1>3. /\ f \in Seq(Tokens) /\ Len(f) = Len(e) + Len(b)
      /\ \A i \in 1..(Len(e) + Len(b)) : f[i] = IF i <= Len(e) THEN e[i] ELSE b[i - Len(e)]
  <2>1. e \in Seq(Tokens) /\ b \in Seq(Tokens)
    BY <1>2
  <2> QED BY <2>1, ConcatProperties
<1> HIDE DEF f
<1>4. /\ f \o p \in Seq(Tokens) /\ Len(f \o p) = Len(f) + Len(p)
      /\ \A i \in 1..(Len(f) + Len(p)) :
           (f \o p)[i] = IF i <= Len(f) THEN f[i] ELSE p[i - Len(f)]
  <2>1. f \in Seq(Tokens) /\ p \in Seq(Tokens)
    BY <1>2, <1>3
  <2> QED BY <2>1, ConcatProperties
<1>5. Says(d, c) = f \o p
  BY <1>1 DEF f
<1> DEFINE a == f \o p
<1> HIDE DEF a, n
<1>6. Len(e) = 1 /\ Len(b) = n /\ Len(f) = n + 1 /\ Len(p) = 1 /\ Len(a) = n + 2 /\ n \in Nat
  BY <1>2, <1>3, <1>4 DEF a, n
<1>7. /\ \A i \in 1..(n + 1) : f[i] = IF i <= 1 THEN e[i] ELSE b[i - 1]
      /\ \A i \in 1..(n + 2) : a[i] = IF i <= n + 1 THEN f[i] ELSE p[i - (n + 1)]
  <2>1. \A i \in 1..(n + 1) : f[i] = IF i <= 1 THEN e[i] ELSE b[i - 1]
    BY <1>3, <1>6
  <2>2. \A i \in 1..((n + 1) + 1) : a[i] = IF i <= n + 1 THEN f[i] ELSE p[i - (n + 1)]
    BY <1>4, <1>6 DEF a
  <2> QED BY <1>6, <2>1, <2>2
<1>8. a[1] = e[1]
  BY <1>6, <1>7
<1>9. \A j \in 1..n : a[j + 1] = b[j]
  <2> SUFFICES ASSUME NEW j \in 1..n
               PROVE  a[j + 1] = b[j]
    OBVIOUS
  <2>1. /\ j + 1 \in 1..(n + 1) /\ j + 1 \in 1..(n + 2) /\ j + 1 <= n + 1 /\ ~ (j + 1 <= 1)
        /\ (j + 1) - 1 = j
    BY <1>6
  <2> QED BY <1>7, <2>1
<1>10. a[n + 2] = p[1]
  <2>1. n + 2 \in 1..(n + 2) /\ ~ (n + 2 <= n + 1) /\ (n + 2) - (n + 1) = 1
    BY <1>6
  <2> QED BY <1>7, <2>1
<1>11. a \in Seq(Tokens)
  BY <1>4 DEF a
<1> QED BY <1>2, <1>5, <1>6, <1>8, <1>9, <1>10, <1>11 DEF a, b, n

LEMMA SaysNoEnd ==
  ASSUME NEW d \in Device, NEW c \in Commands \cup {Nudge}, c # Config
  PROVE  NoEnd(Says(d, c))
<1>0. Prompt(d).kind # "end"
  BY PromptTyped DEF Prompt, Token
<1>1. CASE c = Nudge
  BY <1>0, <1>1 DEF Says, NoEnd
<1>2. CASE c \in Commands
  <2> DEFINE b == Body(d, c)
             a == Says(d, c)
             n == Len(b)
  <2>1. /\ a \in Seq(Tokens) /\ n \in Nat /\ Len(a) = n + 2 /\ a[1] = Token("echo", c)
        /\ \A j \in 1..n : a[j + 1] = b[j]
        /\ a[n + 2] = Prompt(d)
    BY <1>2, SaysParts
  <2>2. ASSUME NEW j \in 1..n
        PROVE  b[j].kind # "end"
    <3>1. b[j] = Token(Reply[d][c][j], c) /\ j \in DOMAIN Reply[d][c]
      BY <1>2, BodyTyped
    <3>2. Reply[d][c][j] # "end"
      BY <1>2, <3>1, OnlyConfigsEnd
    <3>3. b[j].kind = Reply[d][c][j]
      <4> HIDE DEF b
      <4> QED BY <3>1 DEF Token
    <3> QED BY <3>2, <3>3
  <2> HIDE DEF a, b, n
  <2>3. ASSUME NEW i \in 1..(n + 2)
        PROVE  a[i].kind # "end"
    <3>1. CASE i = 1
      BY <2>1, <3>1 DEF Token
    <3>2. CASE i = n + 2
      BY <1>0, <2>1, <3>2
    <3>3. CASE i \in 2..(n + 1)
      <4>1. i - 1 \in 1..n /\ (i - 1) + 1 = i
        BY <2>1, <3>3
      <4> QED BY <2>1, <2>2, <4>1
    <3> QED BY <2>1, <3>1, <3>2, <3>3
  <2>4. DOMAIN a = 1..(n + 2)
    BY <2>1
  <2> QED BY <2>3, <2>4 DEF NoEnd, a
<1> QED BY <1>1, <1>2

LEMMA JoinKeeps ==
  ASSUME NEW s \in Seq(Tokens), NEW r \in Seq(Tokens), Len(r) > 0
  PROVE  /\ s \o r \in Seq(Tokens) /\ s \o r # <<>>
         /\ (s \o r)[Len(s \o r)] = r[Len(r)]
         /\ NoEnd(s) /\ NoEnd(r) => NoEnd(s \o r)
<1> DEFINE n == Len(s)
           m == Len(r)
           t == s \o r
<1>1. /\ t \in Seq(Tokens) /\ Len(t) = n + m
      /\ \A i \in 1..(n + m) : t[i] = IF i <= n THEN s[i] ELSE r[i - n]
  BY ConcatProperties
<1>2. n \in Nat /\ m \in Nat /\ m > 0 /\ DOMAIN s = 1..n /\ DOMAIN r = 1..m
  OBVIOUS
<1>3. DOMAIN t = 1..(n + m) /\ (t = <<>> => n + m = 0)
  BY <1>1
<1> HIDE DEF n, m, t
<1>4. t # <<>>
  BY <1>2, <1>3
<1>5. t[n + m] = r[m]
  <2>1. n + m \in 1..(n + m) /\ ~ (n + m <= n) /\ (n + m) - n = m
    BY <1>2
  <2> QED BY <1>1, <2>1
<1>6. ASSUME NoEnd(s), NoEnd(r)
      PROVE  NoEnd(t)
  <2> SUFFICES ASSUME NEW i \in 1..(n + m)
               PROVE  t[i].kind # "end"
    BY <1>3 DEF NoEnd
  <2>1. CASE i <= n
    <3>1. i \in 1..n
      BY <1>2, <2>1
    <3> QED BY <1>1, <1>2, <1>6, <2>1, <3>1 DEF NoEnd
  <2>2. CASE ~ (i <= n)
    <3>1. i - n \in 1..m
      BY <1>2, <2>2
    <3> QED BY <1>1, <1>2, <1>6, <2>2, <3>1 DEF NoEnd
  <2> QED BY <2>1, <2>2
<1> QED BY <1>1, <1>4, <1>5, <1>6 DEF t, n, m

LEMMA DeviceSpeaks ==
  ASSUME Typed, DeviceAnswers
  PROVE  /\ inbox # <<>> /\ Head(inbox) \in Commands \cup {Nudge} /\ inbox' = Tail(inbox)
         /\ Stream' = Stream \o Says(device, Head(inbox)) /\ Stream' # <<>>
         /\ UNCHANGED <<device, pc, prompt, outcome, queue, outputs, sent>>
         /\ EndsInPrompt(Stream)'
         /\ NoEnd(Stream) /\ Head(inbox) # Config => NoEnd(Stream')
<1>1. /\ inbox # <<>> /\ inbox' = Tail(inbox) /\ Answers(Says(device, Head(inbox)))
      /\ UNCHANGED <<device, pc, prompt, outcome, queue, outputs, sent>>
  BY DEF DeviceAnswers, Answers, script, capture
<1>2. Head(inbox) \in Commands \cup {Nudge} /\ Stream \in Seq(Tokens) /\ device \in Device
  BY <1>1, Streams
<1> DEFINE r == Says(device, Head(inbox))
<1>3. r \in Seq(Tokens) /\ Len(r) > 0 /\ r[Len(r)] = Prompt(device)
  BY <1>2, SaysTyped
<1>4. Stream' = Stream \o r
  BY <1>1, <1>3, AnswersStream
<1>5. Head(inbox) # Config => NoEnd(r)
  BY <1>2, SaysNoEnd
<1> HIDE DEF r
<1> DEFINE s == Stream
           t == s \o r
<1>6. /\ t # <<>> /\ t[Len(t)] = r[Len(r)]
      /\ NoEnd(s) /\ NoEnd(r) => NoEnd(t)
  <2>1. s \in Seq(Tokens)
    BY <1>2
  <2> HIDE DEF s
  <2> QED BY <1>3, <2>1, JoinKeeps
<1>7. Stream' = t
  BY <1>4
<1> HIDE DEF t
<1> QED BY <1>1, <1>2, <1>3, <1>4, <1>5, <1>6, <1>7 DEF EndsInPrompt, r

LEMMA NextSteps ==
  Next => (Connected /\ UNCHANGED capture) \/ DeviceAnswers \/ Reads
BY Zenon DEF Next, Visiting, Connecting, Reads

LEMMA StutterStream ==
  UNCHANGED vars => UNCHANGED <<Stream, inbox, device, pc, prompt, outcome, queue, outputs, sent>>
BY Zenon DEF Stream, vars, console, capture, far, terminal, script
-----------------------------------------------------------------------------
(***************************************************************************)
(* Reading an answer.                                                       *)
(***************************************************************************)

LEMMA WhatStops ==
  ASSUME Typed
  PROVE  /\ {"user", "echo", "end"} \cap Stops(prompt) = {}
         /\ Stops(prompt) \in {AnyHash, {"rule"}, {"prompt", "look"}}
         /\ prompt.kind # "mark" /\ "prompt" \in Stops(prompt) => Stops(prompt) = {"prompt", "look"}
         /\ prompt.kind = "mark" => Stops(prompt) = AnyHash
BY DEF Stops, AnyHash

(* The stop that ends a read, in the stream.                                *)
LEMMA StopInStream ==
  ASSUME Typed, NEW stops, Consumes(stops)
  PROVE  \E i \in 1..Len(Stream) :
           /\ i \in 1..Len(held) /\ Stream[i].kind \in stops
           /\ \A j \in 1..(i - 1) : Stream[j].kind \notin stops
           /\ Got(stops) = SubSeq(held, 1, i - 1)
           /\ Got(stops) \in Seq(Tokens) /\ Len(Got(stops)) = i - 1
           /\ \A j \in 1..(i - 1) : Got(stops)[j] = Stream[j]
           /\ i = Len(Stream) => Stream' = <<>> /\ held' = <<>> /\ wire' = <<>>
<1>1. held \in Seq(Tokens) /\ wire \in Seq(Tokens) /\ StopAt(stops) # {}
  BY Streams DEF Consumes
<1>2. PICK i \in 1..Len(held) :
           /\ held[i].kind \in stops
           /\ \A j \in 1..(i - 1) : held[j].kind \notin stops
           /\ Got(stops) = SubSeq(held, 1, i - 1)
           /\ Consumes(stops) => held' = SubSeq(held, i + 1, Len(held))
  BY <1>1, StopsAt, Zenon
<1> DEFINE n == Len(held)
           m == Len(wire)
<1>3. /\ Stream \in Seq(Tokens) /\ Len(Stream) = n + m
      /\ \A j \in 1..(n + m) : Stream[j] = IF j <= n THEN held[j] ELSE wire[j - n]
  BY <1>1, ConcatProperties DEF Stream
<1>4. n \in Nat /\ m \in Nat /\ i \in 1..n
  BY <1>1, <1>2
<1>5. /\ Got(stops) \in Seq(Tokens) /\ Len(Got(stops)) = i - 1
      /\ \A j \in 1..(i - 1) : Got(stops)[j] = held[j]
  BY <1>1, <1>2
<1>6. m = 0 => wire = <<>>
  BY <1>1
<1>7. i = n => held' = <<>>
  BY <1>1, <1>2
<1>8. wire' = wire
  BY DEF Consumes
<1> HIDE DEF n, m
<1>9. /\ i \in 1..(n + m) /\ i <= n
      /\ \A j \in 1..(i - 1) : j \in 1..(n + m) /\ j <= n
  BY <1>4
<1>10. \A j \in 1..i : Stream[j] = held[j]
  BY <1>3, <1>4, <1>9
<1>11. \A j \in 1..(i - 1) : Stream[j] = held[j]
  BY <1>4, <1>10
<1>12. i \in 1..i
  BY <1>4
<1>13. ASSUME i = n + m
       PROVE  Stream' = <<>> /\ held' = <<>> /\ wire' = <<>>
  <2>1. m = 0 /\ i = n
    BY <1>4, <1>13
  <2>2. held' = <<>> /\ wire' = <<>>
    BY <1>6, <1>7, <1>8, <2>1
  <2> QED BY <2>2 DEF Stream
<1>14. Stream[i].kind \in stops
  BY <1>2, <1>10, <1>12
<1>15. \A j \in 1..(i - 1) : Stream[j].kind \notin stops
  BY <1>2, <1>11
<1>16. \A j \in 1..(i - 1) : Got(stops)[j] = Stream[j]
  BY <1>5, <1>11
<1>17. i \in 1..Len(held)
  BY <1>2
<1> QED BY <1>2, <1>3, <1>5, <1>9, <1>13, <1>14, <1>15, <1>16, <1>17

(* Read to the prompt that ends it, an answer is the body and nothing else. *)
LEMMA ReadsAnswer ==
  ASSUME Typed, NEW c \in Commands, Stream = Says(device, c),
         NEW stops, Consumes(stops), Len(Got(stops)) = Len(Stream) - 1
  PROVE  /\ StripEcho(Got(stops), c) = Body(device, c)
         /\ Stream' = <<>> /\ held' = <<>> /\ wire' = <<>>
         /\ PromptOf[device] \in stops
         /\ LineKinds(device, c) \cap stops = {}
<1> DEFINE a == Stream
           b == Body(device, c)
           n == Len(b)
           g == Got(stops)
<1>1. device \in Device
  BY Streams
<1>2. /\ a \in Seq(Tokens) /\ b \in Seq(Tokens) /\ n \in Nat /\ Len(a) = n + 2
      /\ a[1] = Token("echo", c) /\ \A j \in 1..n : a[j + 1] = b[j]
      /\ a[n + 2] = Prompt(device)
  BY <1>1, SaysParts
<1>3. PICK i \in 1..Len(a) :
           /\ a[i].kind \in stops
           /\ \A j \in 1..(i - 1) : a[j].kind \notin stops
           /\ g \in Seq(Tokens) /\ Len(g) = i - 1
           /\ \A j \in 1..(i - 1) : g[j] = a[j]
           /\ i = Len(a) => Stream' = <<>> /\ held' = <<>> /\ wire' = <<>>
  BY StopInStream
<1>4. Len(g) = Len(a) - 1
  OBVIOUS
<1>5. /\ \A j \in 1..n : b[j] = Token(Reply[device][c][j], c)
      /\ DOMAIN Reply[device][c] = 1..n
  BY <1>1, BodyTyped
<1> HIDE DEF a, b, n, g
<1>6. i = n + 2 /\ Len(a) = n + 2 /\ Len(g) = n + 1 /\ n \in Nat
  BY <1>2, <1>3, <1>4
<1>7. /\ a[n + 2].kind \in stops
      /\ \A j \in 1..(n + 1) : a[j].kind \notin stops /\ g[j] = a[j]
  BY <1>3, <1>6
<1>8. PromptOf[device] \in stops
  BY <1>2, <1>7 DEF Prompt, Token
<1>9. LineKinds(device, c) \cap stops = {}
  <2> SUFFICES ASSUME NEW j \in 1..n
               PROVE  Reply[device][c][j] \notin stops
    BY <1>5 DEF LineKinds
  <2>1. j + 1 \in 1..(n + 1)
    BY <1>6
  <2>2. b[j].kind \notin stops
    BY <1>2, <1>7, <2>1
  <2>3. b[j].kind = Reply[device][c][j]
    <3>1. b[j] = Token(Reply[device][c][j], c)
      BY <1>5
    <3> QED BY <3>1 DEF Token
  <2> QED BY <2>2, <2>3
<1>10. Tail(g) = b
  <2>1. g \in Seq(Tokens) /\ g # <<>> /\ 1 \in 1..(n + 1)
    BY <1>3, <1>6
  <2>2. /\ Tail(g) \in Seq(Tokens) /\ Len(Tail(g)) = n
        /\ \A j \in 1..Len(Tail(g)) : Tail(g)[j] = g[j + 1]
    BY <1>6, <2>1, HeadTailProperties
  <2>3. ASSUME NEW j \in 1..n
        PROVE  Tail(g)[j] = b[j]
    <3>1. j + 1 \in 1..(n + 1)
      BY <1>6
    <3> QED BY <1>2, <1>7, <2>2, <3>1
  <2>4. b \in Seq(Tokens) /\ Len(b) = n
    BY <1>2 DEF n
  <2> QED BY <2>2, <2>3, <2>4, SeqEqual
<1>11. g # <<>> /\ Head(g) = Token("echo", c)
  <2>1. g \in Seq(Tokens) /\ g # <<>> /\ 1 \in 1..(n + 1)
    BY <1>3, <1>6
  <2> QED BY <1>2, <1>7, <2>1
<1>12. StripEcho(g, c) = b
  BY <1>10, <1>11 DEF StripEcho
<1> QED BY <1>3, <1>6, <1>8, <1>9, <1>12 DEF g, b

(* In step: an answer with no stop in it is read whole.                     *)
LEMMA ReadsInStep ==
  ASSUME Typed, NEW c \in Commands, Stream = Says(device, c),
         NEW stops, Consumes(stops), "echo" \notin stops, LineKinds(device, c) \cap stops = {}
  PROVE  /\ StripEcho(Got(stops), c) = Body(device, c)
         /\ Stream' = <<>> /\ held' = <<>> /\ wire' = <<>>
<1> DEFINE b == Body(device, c)
           n == Len(b)
           g == Got(stops)
           a == Stream
<1>1. device \in Device
  BY Streams
<1>2. /\ n \in Nat /\ Len(a) = n + 2
      /\ a[1] = Token("echo", c) /\ \A j \in 1..n : a[j + 1] = b[j]
  BY <1>1, SaysParts
<1>3. PICK i \in 1..Len(a) : a[i].kind \in stops /\ Len(g) = i - 1
  BY StopInStream
<1>4. \A j \in 1..n : b[j] = Token(Reply[device][c][j], c) /\ j \in DOMAIN Reply[device][c]
  BY <1>1, BodyTyped
<1> HIDE DEF a, b, n, g
<1>5. i # 1
  BY <1>2, <1>3 DEF Token
<1>6. i \notin 2..(n + 1)
  <2> SUFFICES ASSUME i \in 2..(n + 1)
               PROVE  FALSE
    OBVIOUS
  <2>1. i - 1 \in 1..n /\ (i - 1) + 1 = i
    BY <1>2
  <2>2. a[i] = Token(Reply[device][c][i - 1], c) /\ i - 1 \in DOMAIN Reply[device][c]
    BY <1>2, <1>4, <2>1
  <2>3. Reply[device][c][i - 1] \in stops
    BY <1>3, <2>2 DEF Token
  <2>4. Reply[device][c][i - 1] \in LineKinds(device, c)
    BY <2>2 DEF LineKinds
  <2> QED BY <2>3, <2>4
<1>7. Len(g) = Len(a) - 1
  BY <1>2, <1>3, <1>5, <1>6
<1> QED BY <1>7, ReadsAnswer DEF g, a

(* A config that was not refused finishes with its own `end'.               *)
LEMMA AcceptedEnds ==
  ASSUME Typed, NEW stops, Consumes(stops), NEW c \in Commands,
         ~ Refuses(Config, StripEcho(Got(stops), c))
  PROVE  Got(stops) # <<>> /\ Got(stops)[Len(Got(stops))].kind = "end"
<1> DEFINE g == Got(stops)
           out == StripEcho(g, c)
<1>1. out # <<>> /\ out[Len(out)].kind = "end"
  BY DEF Refuses, CutShort
<1>2. g \in Seq(Tokens)
  BY StopInStream
<1>3. out = g \/ (g # <<>> /\ out = Tail(g))
  BY DEF StripEcho
<1> HIDE DEF g, out
<1>4. CASE out = g
  BY <1>1, <1>4 DEF g
<1>5. CASE g # <<>> /\ out = Tail(g)
  <2>1. /\ Tail(g) \in Seq(Tokens) /\ Len(Tail(g)) = Len(g) - 1 /\ Len(g) \in Nat
        /\ \A j \in 1..Len(Tail(g)) : Tail(g)[j] = g[j + 1]
    BY <1>2, <1>5, HeadTailProperties
  <2>2. Len(Tail(g)) \in 1..Len(Tail(g)) /\ Len(Tail(g)) + 1 = Len(g)
    BY <1>1, <1>5, <2>1
  <2>3. Tail(g)[Len(Tail(g))] = g[Len(g)]
    BY <2>1, <2>2
  <2> QED BY <1>1, <1>5, <2>3 DEF g
<1> QED BY <1>3, <1>4, <1>5

(* So it was read behind nothing and before nothing: the nudges' answers    *)
(* would have stopped the read before its `end', and what is asked after    *)
(* the config is not sent yet.                                              *)
LEMMA ConfigAccepted ==
  ASSUME Typed, ConfigAnswered, NEW stops, Consumes(stops), stops = Stops(prompt),
         ~ Refuses(Config, StripEcho(Got(stops), Config))
  PROVE  /\ Stream = Says(device, Config) /\ device \in Ios
         /\ Len(Got(stops)) = Len(Stream) - 1
         /\ PromptOf[device] = "prompt" /\ "prompt" \in stops
<1> DEFINE s == Stream
           g == Got(stops)
           a == Says(device, Config)
           b == Body(device, Config)
           n == Len(b)
<1>1. device \in Device /\ Config \in Commands /\ s \in Seq(Tokens)
  BY Streams, ConfigAsked
<1>2. PICK p \in Seq(Tokens) : s = p \o a /\ NoEnd(p) /\ EndsInPrompt(p)
  BY DEF ConfigAnswered
<1>3. PICK i \in 1..Len(s) :
           /\ s[i].kind \in stops
           /\ \A j \in 1..(i - 1) : s[j].kind \notin stops
           /\ Len(g) = i - 1
           /\ \A j \in 1..(i - 1) : g[j] = s[j]
  BY StopInStream
<1>4. g # <<>> /\ g \in Seq(Tokens) /\ g[Len(g)].kind = "end"
  BY <1>1, AcceptedEnds, StopInStream
<1>5. /\ a \in Seq(Tokens) /\ n \in Nat /\ Len(a) = n + 2
      /\ a[1] = Token("echo", Config) /\ \A j \in 1..n : a[j + 1] = b[j]
      /\ a[n + 2] = Prompt(device)
  BY <1>1, SaysParts
<1>6. \A j \in 1..n : b[j] = Token(Reply[device][Config][j], Config)
  BY <1>1, BodyTyped
<1>7. DOMAIN Reply[device][Config] = 1..n /\ Len(Reply[device][Config]) = n
  BY <1>1, BodyTyped
<1> DEFINE k == Len(p)
<1>8. /\ Len(p \o a) = k + Len(a) /\ k \in Nat
      /\ \A j \in 1..(k + Len(a)) : (p \o a)[j] = IF j <= k THEN p[j] ELSE a[j - k]
  <2>1. a \in Seq(Tokens) /\ p \in Seq(Tokens) /\ k \in Nat
    BY <1>5
  <2> HIDE DEF a
  <2> QED BY <2>1, ConcatProperties
<1>9. DOMAIN p = 1..k /\ (p # <<>> <=> k > 0)
  OBVIOUS
<1> HIDE DEF s, g, a, b, n, k
<1>10. Len(s) = k + (n + 2) /\ \A j \in 1..(k + (n + 2)) : s[j] = IF j <= k THEN p[j] ELSE a[j - k]
  BY <1>2, <1>5, <1>8
<1>11. i \in 2..(k + (n + 2)) /\ s[i - 1].kind = "end" /\ n \in Nat /\ k \in Nat
  <2>1. i \in 1..(k + (n + 2)) /\ n \in Nat /\ k \in Nat
    BY <1>3, <1>5, <1>8, <1>10
  <2>2. Len(g) # 0
    BY <1>4
  <2>3. i - 1 \in 1..(i - 1)
    BY <1>3, <2>1, <2>2
  <2> QED BY <1>3, <1>4, <2>1, <2>3
<1>12. i - 1 > k
  <2> SUFFICES ASSUME i - 1 <= k
               PROVE  FALSE
    BY <1>11
  <2>1. i - 1 \in 1..k /\ i - 1 \in 1..(k + (n + 2))
    BY <1>11
  <2>2. s[i - 1] = p[i - 1]
    BY <1>10, <2>1
  <2> QED BY <1>2, <1>9, <1>11, <2>1, <2>2 DEF NoEnd
<1> DEFINE m == (i - 1) - k
<1>13. /\ m \in 1..(n + 1) /\ i - 1 \in 1..(k + (n + 2)) /\ ~ (i - 1 <= k)
       /\ i = (m + 1) + k /\ i - 1 = m + k
  BY <1>11, <1>12
<1>14. a[m].kind = "end"
  BY <1>10, <1>11, <1>13
<1> HIDE DEF m
<1>15. m # 1
  BY <1>5, <1>14 DEF Token
<1>16. m - 1 \in 1..n /\ (m - 1) + 1 = m
  BY <1>11, <1>13, <1>15
<1>17. Reply[device][Config][m - 1] = "end"
  <2>1. a[m] = Token(Reply[device][Config][m - 1], Config)
    BY <1>5, <1>6, <1>16
  <2> QED BY <1>14, <2>1 DEF Token
<1>18. device \in Ios /\ m - 1 = n
  <2>1. m - 1 \in DOMAIN Reply[device][Config]
    BY <1>7, <1>16
  <2> QED BY <1>1, <1>7, <1>17, <2>1, OnlyConfigsEnd
<1>19. i = k + (n + 2) /\ i - k = n + 2 /\ ~ (i <= k) /\ i \in 1..(k + (n + 2))
  BY <1>11, <1>13, <1>16, <1>18
<1>20. s[i] = Prompt(device)
  BY <1>5, <1>10, <1>19
<1>21. PromptOf[device] \in stops
  BY <1>3, <1>20 DEF Prompt, Token
<1>22. PromptOf[device] = "prompt" /\ "prompt" \in stops
  <2>1. PromptOf[device] \in {"prompt", "user"} /\ "user" \notin stops
    BY <1>1, PromptTyped, WhatStops
  <2> QED BY <1>21, <2>1
<1>23. p = <<>>
  <2> SUFFICES ASSUME p # <<>>
               PROVE  FALSE
    OBVIOUS
  <2>1. k \in 1..(i - 1) /\ k \in 1..(k + (n + 2)) /\ k <= k
    BY <1>9, <1>11, <1>12
  <2>2. s[k] = Prompt(device)
    BY <1>2, <1>10, <2>1 DEF EndsInPrompt, k
  <2>3. s[k].kind = "prompt"
    BY <1>22, <2>2 DEF Prompt, Token
  <2> QED BY <1>3, <1>22, <2>1, <2>3
<1>24. s = a
  BY <1>2, <1>5, <1>23, ConcatEmptySeq
<1>25. Len(g) = Len(s) - 1
  BY <1>3, <1>10, <1>19
<1> QED BY <1>18, <1>22, <1>24, <1>25 DEF s, g, a

(* And before it is answered there is nothing in the stream to accept.      *)
LEMMA NothingToAccept ==
  ASSUME Typed, NoEnd(Stream), NEW stops, Consumes(stops)
  PROVE  Refuses(Config, StripEcho(Got(stops), Config))
<1> SUFFICES ASSUME ~ Refuses(Config, StripEcho(Got(stops), Config))
             PROVE  FALSE
  OBVIOUS
<1> DEFINE s == Stream
           g == Got(stops)
<1>1. g # <<>> /\ g[Len(g)].kind = "end"
  BY ConfigAsked, AcceptedEnds
<1>2. PICK i \in 1..Len(s) : /\ g \in Seq(Tokens) /\ Len(g) = i - 1
                             /\ \A j \in 1..(i - 1) : g[j] = s[j]
  BY StopInStream
<1>3. DOMAIN s = 1..Len(s)
  BY Streams
<1> HIDE DEF s, g
<1>4. i - 1 \in 1..(i - 1) /\ i - 1 \in 1..Len(s)
  BY <1>1, <1>2
<1> QED BY <1>1, <1>2, <1>3, <1>4 DEF NoEnd, s

(* The config that was accepted holds the prompt's text nowhere, and where  *)
(* any '#' would have ended the read, no '#': nor does what follows.        *)
LEMMA FaithfulFrom ==
  ASSUME Typed, device \in Ios, PromptOf[device] = "prompt", "prompt" \in Stops(prompt),
         LineKinds(device, Config) \cap Stops(prompt) = {}
  PROVE  Faithful
<1> SUFFICES ASSUME NEW c \in Commands, c # Config
             PROVE  LineKinds(device, c) \cap Stops(prompt) = {}
  BY DEF Faithful
<1>1. "look" \notin LineKinds(device, c) /\ "prompt" \notin LineKinds(device, c)
  BY Streams, PromptsQuotedInConfig, NoLineIsAPrompt
<1>2. CASE prompt.kind = "mark"
  <2>1. Stops(prompt) = AnyHash
    BY <1>2, WhatStops
  <2>2. LineKinds(device, c) \cap AnyHash # {} => LineKinds(device, Config) \cap AnyHash # {}
    BY PromptsQuotedInConfig
  <2> QED BY <2>1, <2>2
<1>3. CASE prompt.kind # "mark"
  <2>1. Stops(prompt) = {"prompt", "look"}
    BY <1>3, WhatStops
  <2> QED BY <1>1, <2>1
<1> QED BY <1>2, <1>3
-----------------------------------------------------------------------------
(***************************************************************************)
(* The prompt that ends a read is still to come.                            *)
(***************************************************************************)

LEMMA InitStream == Init => PromptToCome /\ NoConfigYet /\ ConfigUnderWay /\ OnceConfigRead
<1> SUFFICES ASSUME Init
             PROVE  PromptToCome /\ NoConfigYet /\ ConfigUnderWay /\ OnceConfigRead
  OBVIOUS
<1>1. /\ pc = "connect" /\ inbox = <<>> /\ outcome = "none" /\ outputs = <<>>
      /\ held = <<>> /\ wire = <<>>
  BY DEF Init, ConsoleInit
<1>2. Stream = <<>>
  BY <1>1 DEF Stream
<1> QED BY <1>1, <1>2 DEF PromptToCome, EndsInPrompt, NoConfigYet, NoEnd, ConfigUnderWay,
                          OnceConfigRead

(* Waiting for an answer, only the wire moves.                              *)
LEMMA WaitMoves ==
  ASSUME Typed, VisitShape, Reads, pc' \in {"identify", "read"}
  PROVE  \/ /\ pc' = pc /\ Stream' = Stream
            /\ UNCHANGED <<inbox, device, prompt, queue, outputs, outcome>>
         \/ TurnPagingOff /\ pc' = "identify"
         \/ Ask /\ pc' = "read"
<1>1. CASE (Arrive \/ Drop) /\ UNCHANGED capture
  <2>1. UNCHANGED <<pc, inbox, device, prompt, outcome>> /\ (Drop => UNCHANGED <<held, wire>>)
    BY <1>1 DEF Arrive, Drop, script, terminal
  <2>2. sync = TRUE
    BY <2>1 DEF VisitShape
  <2>3. Stream' = Stream
    BY <1>1, <2>1, <2>2, ArriveStream DEF Stream
  <2> QED BY <1>1, <2>1, <2>3 DEF capture
<1>2. CASE OptionRefused \/ LoginRejected \/ ConnectFails
  BY <1>2, ConnectingMoves DEF Connecting, Dialling
<1>3. CASE ReadingPrompt
  BY <1>3, ReadingMoves
<1>4. CASE RefusesUserExec \/ Identify \/ ReadOutput \/ Collected \/ CommandTimesOut
  BY <1>4 DEF RefusesUserExec, Identify, ReadOutput, Collected, CommandTimesOut, TimesOut, Ends
<1>5. CASE NextVisit
  BY <1>5 DEF NextVisit
<1>6. CASE TurnPagingOff \/ Ask
  BY <1>6 DEF TurnPagingOff, Ask
<1> QED BY <1>1, <1>2, <1>3, <1>4, <1>5, <1>6, Zenon DEF Reads

LEMMA Sending ==
  ASSUME Typed, NEW c \in Commands, Sends(c)
  PROVE  /\ inbox' # <<>> /\ inbox' = Append(inbox, c) /\ Stream' = Stream
         /\ UNCHANGED <<device, prompt, outcome>>
<1>1. inbox' = Append(inbox, c) /\ UNCHANGED <<held, wire, device, prompt, outcome>>
  BY DEF Sends, terminal, script
<1>2. Append(inbox, c) # <<>>
  BY Streams, AppendsSome
<1>3. Stream' = Stream
  BY <1>1 DEF Stream
<1> QED BY <1>1, <1>2, <1>3

LEMMA NextToCome ==
  ASSUME Typed, VisitShape, PromptToCome, Next
  PROVE  PromptToCome'
<1>1. CASE Connected
  BY <1>1, ConnectedStream DEF PromptToCome
<1>2. CASE DeviceAnswers
  BY <1>2, DeviceSpeaks DEF PromptToCome
<1>3. CASE Reads
  <2>1. EndsInPrompt(Stream)'
    <3>1. RestOf(Stream', Stream) /\ device' = device /\ Stream \in Seq(Tokens)
      BY <1>3, ReadsStream, Streams
    <3>2. EndsInPrompt(Stream')
      BY <3>1, RestKeeps DEF PromptToCome
    <3> QED BY <3>1, <3>2 DEF EndsInPrompt
  <2>2. ASSUME pc' \in {"identify", "read"}
        PROVE  inbox' # <<>> \/ Stream' # <<>>
    <3>1. CASE TurnPagingOff
      BY <3>1, Sending, CommandsTyped DEF TurnPagingOff
    <3>2. CASE Ask
      <4>1. Head(queue) \in Commands /\ Sends(Head(queue))
        BY <3>2 DEF Ask, Typed, VisitTyped
      <4> QED BY <4>1, Sending
    <3>3. CASE pc' = pc /\ Stream' = Stream /\ inbox' = inbox
      BY <2>2, <3>3 DEF PromptToCome
    <3> QED BY <1>3, <2>2, <3>1, <3>2, <3>3, WaitMoves
  <2> QED BY <2>1, <2>2 DEF PromptToCome
<1> QED BY <1>1, <1>2, <1>3, NextSteps

LEMMA StutterToCome == PromptToCome /\ UNCHANGED vars => PromptToCome'
BY StutterStream DEF PromptToCome, EndsInPrompt

-----------------------------------------------------------------------------
(***************************************************************************)
(* The running-config is asked for once, and its answer is last to come.    *)
(***************************************************************************)

(* Before it is asked for: the steps that lead here, and what they send.    *)
Early == Unasked \cup {"identify"}

LEMMA EarlyMoves ==
  ASSUME Typed, VisitShape, Reads, pc' \in Early \/ (pc' = "ask" /\ outputs' = <<>>)
  PROVE  \/ inbox' = <<>> /\ Stream' = <<>>
         \/ /\ pc \in Early \/ (pc = "ask" /\ outputs = <<>>)
            /\ \/ inbox' = inbox
               \/ inbox' = Append(inbox, Nudge)
               \/ inbox' = Append(inbox, PagingOff)
<1>1. CASE (OptionRefused \/ LoginRejected \/ ConnectFails \/ ReadingPrompt) /\ UNCHANGED capture
  <2>1. inbox' = inbox \/ inbox' = Append(inbox, Nudge)
    BY <1>1, Zenon DEF OptionRefused, LoginRejected, ConnectFails, ReadingPrompt, StartPolling,
                       SeesPrompt, KeepsWaiting, NoPrompt, RestoreSync, far
  <2>2. pc \in Early
    BY <1>1, ConnectingMoves, ReadingMoves DEF Early, Unasked, Dialling, Connecting
  <2> QED BY <2>1, <2>2
<1>2. CASE (Arrive \/ Drop) /\ UNCHANGED capture
  <2>1. inbox' = inbox /\ pc' = pc /\ outputs' = outputs
    BY <1>2 DEF Arrive, Drop, capture
  <2> QED BY <2>1
<1>3. CASE RefusesUserExec \/ Collected \/ CommandTimesOut \/ Ask
  BY <1>3 DEF RefusesUserExec, Collected, CommandTimesOut, TimesOut, Ask, Ends, Early, Unasked,
              Dialling
<1>4. CASE TurnPagingOff
  BY <1>4 DEF TurnPagingOff, Sends, Early, Unasked
<1>5. CASE Identify
  BY <1>5 DEF Identify, Consumes, Early, Unasked
<1>6. CASE ReadOutput
  <2>1. pc' = "done" \/ \E o : outputs' = Append(outputs, o)
    BY <1>6, Zenon DEF ReadOutput, Ends
  <2>2. \A o : Append(outputs, o) # <<>>
    BY DEF Typed, VisitTyped
  <2>3. pc' # "done" /\ outputs' = <<>>
    BY <1>6 DEF Early, Unasked, Dialling, ReadOutput, Ends
  <2> QED BY <2>1, <2>2, <2>3
<1>7. CASE NextVisit
  <2>1. inbox' = <<>> /\ held' = <<>> /\ wire' = <<>>
    BY <1>7 DEF NextVisit
  <2> QED BY <2>1 DEF Stream
<1> QED BY <1>1, <1>2, <1>3, <1>4, <1>5, <1>6, <1>7 DEF Reads

LEMMA NextNoConfig ==
  ASSUME Typed, VisitShape, NoConfigYet, Next
  PROVE  NoConfigYet'
<1> SUFFICES ASSUME pc' \in Early \/ (pc' = "ask" /\ outputs' = <<>>)
             PROVE  NoEnd(Stream') /\ \A i \in DOMAIN inbox' : inbox'[i] # Config
  BY DEF NoConfigYet, NoEnd, Early
<1> DEFINE Clear(q) == \A i \in DOMAIN q : q[i] # Config
<1>1. inbox \in Seq(Commands \cup {Nudge}) /\ Stream \in Seq(Tokens)
  BY Streams
<1>2. CASE Connected
  BY <1>2, ConnectedStream
<1>3. CASE DeviceAnswers
  <2>1. /\ inbox # <<>> /\ inbox' = Tail(inbox) /\ pc' = pc /\ outputs' = outputs
        /\ NoEnd(Stream) /\ Head(inbox) # Config => NoEnd(Stream')
    BY <1>3, DeviceSpeaks
  <2>2. NoEnd(Stream) /\ Clear(inbox)
    BY <2>1 DEF NoConfigYet, Early
  <2>3. Head(inbox) # Config
    BY <1>1, <2>1, <2>2
  <2>4. Clear(inbox')
    <3>1. /\ Tail(inbox) \in Seq(Commands \cup {Nudge}) /\ Len(Tail(inbox)) = Len(inbox) - 1
          /\ \A i \in 1..Len(Tail(inbox)) : Tail(inbox)[i] = inbox[i + 1]
      BY <1>1, <2>1, HeadTailProperties
    <3>2. /\ DOMAIN Tail(inbox) = 1..(Len(inbox) - 1) /\ DOMAIN inbox = 1..Len(inbox)
          /\ Len(inbox) \in Nat
      BY <1>1, <3>1
    <3>3. \A i \in 1..(Len(inbox) - 1) : i + 1 \in 1..Len(inbox)
      BY <3>2
    <3> QED BY <2>1, <2>2, <3>1, <3>2, <3>3
  <2> QED BY <2>1, <2>2, <2>3, <2>4
<1>4. CASE Reads
  <2>1. RestOf(Stream', Stream)
    BY <1>4, ReadsStream
  <2>2. CASE inbox' = <<>> /\ Stream' = <<>>
    BY <2>2 DEF NoEnd
  <2>3. CASE pc \in Early \/ (pc = "ask" /\ outputs = <<>>)
    <3>1. NoEnd(Stream) /\ Clear(inbox)
      BY <2>3 DEF NoConfigYet, Early
    <3>2. NoEnd(Stream')
      BY <1>1, <2>1, <3>1, RestKeeps
    <3>3. Nudge # Config /\ PagingOff # Config /\ PagingOff \in Commands
      BY ConfigAsked, ConfigFirst, CommandsTyped
    <3>4. \A c \in {Nudge, PagingOff} : Clear(Append(inbox, c))
      <4> SUFFICES ASSUME NEW c \in {Nudge, PagingOff}
                   PROVE  Clear(Append(inbox, c))
        OBVIOUS
      <4>1. /\ Len(Append(inbox, c)) = Len(inbox) + 1 /\ DOMAIN inbox = 1..Len(inbox)
            /\ DOMAIN Append(inbox, c) = 1..(Len(inbox) + 1) /\ Len(inbox) \in Nat
            /\ \A i \in 1..Len(inbox) : Append(inbox, c)[i] = inbox[i]
            /\ Append(inbox, c)[Len(inbox) + 1] = c
        BY <1>1
      <4>2. c # Config
        BY <3>3
      <4> QED BY <3>1, <4>1, <4>2
    <3>5. Clear(inbox')
      <4>1. CASE inbox' = <<>> /\ Stream' = <<>>
        BY <4>1
      <4>2. CASE inbox' = inbox
        BY <3>1, <4>2
      <4>3. CASE inbox' = Append(inbox, Nudge) \/ inbox' = Append(inbox, PagingOff)
        BY <3>4, <4>3
      <4> QED BY <1>4, <4>1, <4>2, <4>3, EarlyMoves
    <3> QED BY <3>2, <3>5
  <2> QED BY <1>4, <2>2, <2>3, EarlyMoves
<1> QED BY <1>2, <1>3, <1>4, NextSteps

LEMMA StutterNoConfig == NoConfigYet /\ UNCHANGED vars => NoConfigYet'
BY StutterStream DEF NoConfigYet, NoEnd

LEMMA NextUnderWay ==
  ASSUME Typed, VisitShape, PromptToCome, NoConfigYet, ConfigUnderWay, Next
  PROVE  ConfigUnderWay'
<1> SUFFICES ASSUME pc' = "read", outputs' = <<>>
             PROVE  ConfigLast' \/ ConfigAnswered'
  BY DEF ConfigUnderWay
<1>1. inbox \in Seq(Commands \cup {Nudge}) /\ Stream \in Seq(Tokens)
  BY Streams
<1>2. CASE Connected
  BY <1>2, ConnectedStream
<1>3. CASE DeviceAnswers
  <2>1. /\ inbox # <<>> /\ inbox' = Tail(inbox) /\ pc = "read" /\ outputs = <<>>
        /\ device' = device /\ Stream' = Stream \o Says(device, Head(inbox))
        /\ NoEnd(Stream) /\ Head(inbox) # Config => NoEnd(Stream')
    BY <1>3, DeviceSpeaks
  <2>2. ConfigLast
    BY <2>1 DEF ConfigUnderWay, ConfigAnswered
  <2> DEFINE n == Len(inbox)
  <2>3. /\ n \in Nat \ {0} /\ inbox[n] = Config /\ \A i \in 1..(n - 1) : inbox[i] # Config
        /\ NoEnd(Stream) /\ Head(inbox) = inbox[1]
    BY <1>1, <2>1, <2>2 DEF ConfigLast
  <2>4. /\ Tail(inbox) \in Seq(Commands \cup {Nudge}) /\ Len(Tail(inbox)) = n - 1
        /\ \A i \in 1..(n - 1) : Tail(inbox)[i] = inbox[i + 1]
        /\ n - 1 = 0 => Tail(inbox) = <<>>
        /\ n - 1 # 0 => Tail(inbox) # <<>>
    <3> DEFINE t == Tail(inbox)
               C == Commands \cup {Nudge}
    <3>1. inbox \in Seq(C) /\ inbox # <<>>
      BY <1>1, <2>1
    <3> HIDE DEF C
    <3>2. /\ t \in Seq(C) /\ Len(t) = n - 1
          /\ \A i \in 1..(n - 1) : t[i] = inbox[i + 1]
      BY <3>1, HeadTailProperties
    <3> HIDE DEF t
    <3>3. n - 1 = 0 <=> t = <<>>
      BY <3>2
    <3> QED BY <3>2, <3>3 DEF t, C
  <2> HIDE DEF n
  <2>5. CASE n = 1
    <3>1. inbox' = <<>> /\ Stream' = Stream \o Says(device, Config)
      <4>1. Head(inbox) = Config /\ n - 1 = 0
        BY <2>3, <2>5
      <4> QED BY <2>1, <2>4, <4>1
    <3>2. NoEnd(Stream) /\ EndsInPrompt(Stream)
      BY <2>3 DEF PromptToCome
    <3>3. \E p \in Seq(Tokens) :
            /\ Stream' = p \o Says(device', Config) /\ NoEnd(p)
            /\ p # <<>> => p[Len(p)] = Prompt(device')
      BY <1>1, <2>1, <3>1, <3>2 DEF EndsInPrompt
    <3> QED BY <3>1, <3>3 DEF ConfigAnswered, EndsInPrompt
  <2>6. CASE n # 1
    <3>1. 1 \in 1..(n - 1) /\ n - 1 \in 1..(n - 1) /\ (n - 1) + 1 = n /\ n - 1 # 0
      BY <2>3, <2>6
    <3>2. Head(inbox) # Config /\ inbox' # <<>> /\ Len(inbox') = n - 1
      BY <2>1, <2>3, <2>4, <3>1
    <3>3. inbox'[n - 1] = Config
      BY <2>1, <2>3, <2>4, <3>1
    <3>4. \A i \in 1..((n - 1) - 1) : inbox'[i] # Config
      <4> SUFFICES ASSUME NEW i \in 1..((n - 1) - 1)
                   PROVE  inbox'[i] # Config
        OBVIOUS
      <4>1. i \in 1..(n - 1) /\ i + 1 \in 1..(n - 1)
        BY <2>3
      <4> QED BY <2>1, <2>3, <2>4, <4>1
    <3>5. NoEnd(Stream')
      BY <2>1, <2>3, <3>2
    <3> QED BY <3>2, <3>3, <3>4, <3>5 DEF ConfigLast, NoEnd
  <2> QED BY <2>5, <2>6
<1>4. CASE Reads
  <2>1. CASE pc' = pc /\ Stream' = Stream /\ UNCHANGED <<inbox, device, outputs>>
    <3>1. ConfigLast \/ ConfigAnswered
      BY <2>1 DEF ConfigUnderWay
    <3>2. ConfigLast => ConfigLast'
      BY <2>1 DEF ConfigLast, NoEnd
    <3>3. ConfigAnswered => ConfigAnswered'
      BY <2>1 DEF ConfigAnswered, EndsInPrompt
    <3> QED BY <3>1, <3>2, <3>3
  <2>2. CASE Ask
    <3>1. /\ pc = "ask" /\ outputs = <<>> /\ Sends(Head(queue)) /\ queue = Asked
      BY <2>2 DEF Ask, VisitShape
    <3>2. Head(queue) = Config /\ Config \in Commands
      BY <3>1, ConfigFirst, CommandsTyped, ConfigAsked
    <3>3. inbox' = Append(inbox, Config) /\ Stream' = Stream
      BY <3>1, <3>2, Sending
    <3>4. NoEnd(Stream) /\ \A i \in DOMAIN inbox : inbox[i] # Config
      BY <3>1 DEF NoConfigYet
    <3>5. /\ DOMAIN inbox = 1..Len(inbox) /\ Len(inbox) \in Nat
          /\ Len(inbox') = Len(inbox) + 1 /\ inbox' # <<>>
          /\ \A i \in 1..Len(inbox) : inbox'[i] = inbox[i]
          /\ inbox'[Len(inbox) + 1] = Config
      BY <1>1, <3>2, <3>3
    <3>6. (Len(inbox) + 1) - 1 = Len(inbox)
      BY <3>5
    <3>7. NoEnd(Stream')
      BY <3>3, <3>4
    <3> QED BY <3>4, <3>5, <3>6, <3>7 DEF ConfigLast, NoEnd
  <2> QED BY <1>4, <2>1, <2>2, WaitMoves
<1> QED BY <1>2, <1>3, <1>4, NextSteps

LEMMA StutterUnderWay == ConfigUnderWay /\ UNCHANGED vars => ConfigUnderWay'
BY StutterStream DEF ConfigUnderWay, ConfigLast, ConfigAnswered, NoEnd, EndsInPrompt
-----------------------------------------------------------------------------
(***************************************************************************)
(* Once the config is read, every answer is the next command's own.         *)
(***************************************************************************)

(* The commands answered so far, then those still to be asked.              *)
Answered == [i \in DOMAIN outputs |-> outputs[i].command]

LEMMA OneMoreAnswer ==
  ASSUME Typed, queue # <<>>, NEW text \in Seq(Tokens),
         outputs' = Append(outputs, [command |-> Head(queue), text |-> text])
  PROVE  /\ Answered \in Seq(Commands) /\ Answered' = Append(Answered, Head(queue))
         /\ Answered' \o Tail(queue) = Answered \o queue
         /\ \A i \in DOMAIN outputs' :
              \/ i \in DOMAIN outputs /\ outputs'[i] = outputs[i]
              \/ outputs'[i] = [command |-> Head(queue), text |-> text]
<1> DEFINE R == [command : Commands, text : Seq(Tokens)]
           o == [command |-> Head(queue), text |-> text]
           n == Len(outputs)
<1>1. queue \in Seq(Commands) /\ Head(queue) \in Commands /\ outputs \in Seq(R)
  BY DEF Typed, VisitTyped
<1>2. o \in R /\ o.command = Head(queue)
  BY <1>1
<1>3. outputs' = Append(outputs, o)
  OBVIOUS
<1>4. \A r \in R : r.command \in Commands
  OBVIOUS
<1> HIDE DEF R, o
<1>5. /\ n \in Nat /\ DOMAIN outputs = 1..n /\ DOMAIN outputs' = 1..(n + 1)
      /\ \A i \in 1..n : outputs'[i] = outputs[i] /\ outputs[i] \in R
      /\ outputs'[n + 1] = o
  BY <1>1, <1>2, <1>3
<1> HIDE DEF n
<1>6. Answered = [i \in 1..n |-> outputs[i].command]
      /\ Answered' = [i \in 1..(n + 1) |-> outputs'[i].command]
  BY <1>5 DEF Answered
<1>7. Answered \in Seq(Commands) /\ Len(Answered) = n
  <2>1. \A i \in 1..n : outputs[i].command \in Commands
    BY <1>4, <1>5
  <2> QED BY <1>5, <1>6, <2>1
<1>8. Answered' = Append(Answered, Head(queue))
  <2> DEFINE a == Append(Answered, Head(queue))
  <2>1. /\ a \in Seq(Commands) /\ Len(a) = n + 1
        /\ \A i \in 1..n : a[i] = Answered[i]
        /\ a[n + 1] = Head(queue)
    BY <1>1, <1>7, AppendProperties
  <2>2. \A i \in 1..(n + 1) : Answered'[i] = a[i]
    <3> HIDE DEF a
    <3>1. \A i \in 1..n : i \in 1..(n + 1) /\ Answered'[i] = outputs'[i].command
      BY <1>5, <1>6
    <3>2. \A i \in 1..n : Answered'[i] = a[i]
      BY <1>5, <1>6, <2>1, <3>1
    <3>3. Answered'[n + 1] = a[n + 1]
      <4>1. n + 1 \in 1..(n + 1)
        BY <1>5
      <4> QED BY <1>2, <1>5, <1>6, <2>1, <4>1
    <3> QED BY <1>5, <3>2, <3>3
  <2>3. Answered' \in Seq(Commands) /\ Len(Answered') = n + 1
    <3>1. \A i \in 1..(n + 1) : outputs'[i].command \in Commands
      BY <1>2, <1>4, <1>5
    <3> QED BY <1>5, <1>6, <3>1
  <2> HIDE DEF a
  <2>4. Answered' = a
    BY <2>1, <2>2, <2>3, SeqEqual
  <2> QED BY <2>4 DEF a
<1>9. Answered' \o Tail(queue) = Answered \o queue
  BY <1>1, <1>7, <1>8, MoveHead
<1>10. \A i \in 1..(n + 1) : (i \in 1..n /\ outputs'[i] = outputs[i]) \/ outputs'[i] = o
  BY <1>5
<1> QED BY <1>5, <1>7, <1>8, <1>9, <1>10 DEF o

LEMMA FirstAnswer ==
  ASSUME Typed, VisitShape, outputs = <<>>, queue = Asked,
         outputs' = Append(outputs, [command |-> Config, text |-> Body(device, Config)]),
         queue' = Tail(queue) \o TemplatesIn(Body(device, Config)), device' = device
  PROVE  AnswersSoFar'
<1> DEFINE b == Body(device, Config)
           t == TemplatesIn(b)
<1>1. device \in Device /\ Config \in Commands /\ b \in Seq(Tokens)
  BY Streams, ConfigAsked, BodyTyped
<1>2. t \in Seq(Commands \ {Config})
  BY <1>1, TemplatesTyped
<1>3. t \in Seq(Commands)
  <2> HIDE DEF t
  <2> QED BY <1>2, SeqMonotonic
<1>4. Asked \in Seq(Commands) /\ Asked # <<>> /\ Head(Asked) = Config
  BY CommandsTyped, ConfigFirst
<1> HIDE DEF b, t
<1>5. /\ Tail(Asked) \in Seq(Commands) /\ Len(Tail(Asked)) = Len(Asked) - 1
      /\ \A i \in 1..(Len(Asked) - 1) : Tail(Asked)[i] = Asked[i + 1]
  BY <1>4, HeadTailProperties
<1> DEFINE r == Tail(Asked)
<1>6. /\ r \in Seq(Commands) /\ \A i \in 1..Len(r) : r[i] # Config
  <2>1. \A i \in 1..(Len(Asked) - 1) : i + 1 \in 2..Len(Asked)
    BY <1>4
  <2> QED BY <1>5, <2>1, ConfigFirst
<1>7. queue' = r \o t
  BY DEF b, t
<1>8. \A i \in DOMAIN queue' : queue'[i] # Config
  <2> HIDE DEF r
  <2>1. /\ r \o t \in Seq(Commands) /\ Len(r \o t) = Len(r) + Len(t)
        /\ \A i \in 1..(Len(r) + Len(t)) : (r \o t)[i] = IF i <= Len(r) THEN r[i] ELSE t[i - Len(r)]
    <3>1. r \in Seq(Commands) /\ t \in Seq(Commands)
      BY <1>3, <1>6
    <3> QED BY <3>1, ConcatProperties
  <2>2. Len(r) \in Nat /\ Len(t) \in Nat /\ \A i \in 1..Len(t) : t[i] # Config
    BY <1>2, <1>6
  <2>3. DOMAIN queue' = 1..(Len(r) + Len(t))
    <3>1. queue' \in Seq(Commands) /\ Len(queue') = Len(r) + Len(t)
      BY <1>7, <2>1
    <3> QED BY <3>1, LenProperties
  <2>4. ASSUME NEW i \in 1..(Len(r) + Len(t))
        PROVE  queue'[i] # Config
    <3>1. CASE i <= Len(r)
      <4>1. i \in 1..Len(r)
        BY <2>2, <3>1
      <4> QED BY <1>6, <1>7, <2>1, <3>1, <4>1
    <3>2. CASE ~ (i <= Len(r))
      <4>1. i - Len(r) \in 1..Len(t)
        BY <2>2, <3>2
      <4> QED BY <1>7, <2>1, <2>2, <3>2, <4>1
    <3> QED BY <3>1, <3>2
  <2> QED BY <2>3, <2>4
<1>9. outputs' = Append(outputs, [command |-> Head(queue), text |-> b])
  BY <1>4 DEF b
<1>10. /\ Answered' = Append(Answered, Head(queue)) /\ Answered' \o r = Answered \o queue
       /\ \A i \in DOMAIN outputs' :
            \/ i \in DOMAIN outputs /\ outputs'[i] = outputs[i]
            \/ outputs'[i] = [command |-> Head(queue), text |-> b]
       /\ Answered \in Seq(Commands)
  BY <1>1, <1>4, <1>9, OneMoreAnswer
<1>11. \A i \in DOMAIN outputs' : outputs'[i].text = Body(device', outputs'[i].command)
  <2>1. \A i \in DOMAIN outputs' : outputs'[i] = [command |-> Config, text |-> b]
    BY <1>4, <1>10
  <2> QED BY <2>1 DEF b
<1>12. Answered' \o queue' = Asked \o t
  <2>1. Answered = <<>>
    <3>1. DOMAIN outputs = {}
      OBVIOUS
    <3> QED BY <3>1 DEF Answered
  <2>2. Answered' \in Seq(Commands)
    BY <1>4, <1>10
  <2>3. Answered' \o r = Asked
    <3>1. Answered' \o r = <<>> \o Asked
      BY <1>10, <2>1
    <3> QED BY <1>4, <3>1, ConcatEmptySeq
  <2> HIDE DEF r
  <2>4. (Answered' \o r) \o t = Answered' \o (r \o t)
    BY <1>3, <1>6, <2>2, ConcatAssociative
  <2> QED BY <1>7, <2>3, <2>4
<1> QED BY <1>8, <1>11, <1>12 DEF AnswersSoFar, Answered, t, b

LEMMA FurtherAnswer ==
  ASSUME Typed, AnswersSoFar, queue # <<>>,
         outputs' = Append(outputs, [command |-> Head(queue),
                                     text    |-> Body(device, Head(queue))]),
         queue' = Tail(queue), device' = device
  PROVE  AnswersSoFar'
<1> DEFINE c == Head(queue)
           b == Body(device, c)
<1>1. queue \in Seq(Commands) /\ c \in Commands /\ device \in Device
  BY Streams DEF Typed, VisitTyped
<1>2. b \in Seq(Tokens)
  BY <1>1, BodyTyped
<1> HIDE DEF b
<1>3. outputs' = Append(outputs, [command |-> Head(queue), text |-> b])
  BY DEF b
<1>4. /\ Answered' \o queue' = Answered \o queue
      /\ \A i \in DOMAIN outputs' :
           \/ i \in DOMAIN outputs /\ outputs'[i] = outputs[i]
           \/ outputs'[i] = [command |-> c, text |-> b]
  BY <1>2, <1>3, OneMoreAnswer
<1>5. \A i \in DOMAIN queue' : queue'[i] # Config
  <2>1. /\ Len(queue') = Len(queue) - 1 /\ DOMAIN queue' = 1..(Len(queue) - 1)
        /\ DOMAIN queue = 1..Len(queue) /\ Len(queue) \in Nat
        /\ \A i \in 1..(Len(queue) - 1) : queue'[i] = queue[i + 1]
    BY <1>1, HeadTailProperties
  <2>2. \A i \in 1..(Len(queue) - 1) : i + 1 \in 1..Len(queue)
    BY <2>1
  <2> QED BY <2>1, <2>2 DEF AnswersSoFar
<1>6. \A i \in DOMAIN outputs' : outputs'[i].text = Body(device', outputs'[i].command)
  <2> SUFFICES ASSUME NEW i \in DOMAIN outputs'
               PROVE  outputs'[i].text = Body(device, outputs'[i].command)
    OBVIOUS
  <2>1. CASE i \in DOMAIN outputs /\ outputs'[i] = outputs[i]
    BY <2>1 DEF AnswersSoFar
  <2>2. CASE outputs'[i] = [command |-> c, text |-> b]
    <3>1. outputs'[i].command = c /\ outputs'[i].text = b
      BY <2>2
    <3> QED BY <3>1 DEF b
  <2> QED BY <1>4, <2>1, <2>2
<1> QED BY <1>4, <1>5, <1>6 DEF AnswersSoFar, Answered

LEMMA ReadsOn ==
  ASSUME Typed, VisitShape, NoConfigYet, ConfigUnderWay, OnceConfigRead, ReadOutput
  PROVE  OnceConfigRead'
<1> DEFINE c == Head(queue)
           stops == Stops(prompt)
           out == StripEcho(Got(stops), c)
<1>1. /\ pc = "read" /\ Consumes(stops) /\ queue # <<>> /\ outcome = "none"
      /\ inbox' = inbox /\ device' = device /\ prompt' = prompt
  BY DEF ReadOutput, Consumes, VisitShape
<1>2. queue \in Seq(Commands) /\ c \in Commands
  BY <1>1 DEF Typed, VisitTyped
<1>3. CASE Refuses(c, out)
  <2>1. pc' = "done" /\ outcome' = "refused" /\ UNCHANGED <<queue, outputs>>
    BY <1>3 DEF ReadOutput, Ends
  <2> QED BY <1>1, <2>1 DEF OnceConfigRead, Faithful, InStep, AnswersSoFar
<1>4. CASE ~ Refuses(c, out)
  <2>1. /\ outputs' = Append(outputs, [command |-> c, text |-> out])
        /\ queue' = Tail(queue) \o (IF c = Config THEN TemplatesIn(out) ELSE <<>>)
        /\ pc' = "ask" /\ outcome' = outcome
    BY <1>4 DEF ReadOutput
  <2>2. outcome' # "collected"
    BY <1>1, <2>1
  <2>3. CASE outputs = <<>>
    <3>1. queue = Asked /\ c = Config
      BY <1>1, <2>3, ConfigFirst, CommandsTyped DEF VisitShape
    <3>2. ~ Refuses(Config, StripEcho(Got(stops), Config))
      BY <1>4, <3>1
    <3>3. ConfigAnswered
      BY <1>1, <2>3, <3>2, NothingToAccept DEF ConfigUnderWay, ConfigLast
    <3>4. /\ Stream = Says(device, Config) /\ device \in Ios
          /\ Len(Got(stops)) = Len(Stream) - 1
          /\ PromptOf[device] = "prompt" /\ "prompt" \in stops
      BY <1>1, <3>2, <3>3, ConfigAccepted
    <3>5. /\ StripEcho(Got(stops), Config) = Body(device, Config) /\ Stream' = <<>>
          /\ LineKinds(device, Config) \cap stops = {}
      BY <1>1, <3>4, ConfigAsked, ReadsAnswer
    <3>6. Faithful'
      <4>1. Faithful
        BY <3>4, <3>5, FaithfulFrom
      <4> QED BY <1>1, <4>1 DEF Faithful
    <3>7. InStep'
      BY <1>1, <2>1, <3>3, <3>5 DEF InStep, ConfigAnswered
    <3>8. AnswersSoFar'
      BY <1>1, <2>1, <2>3, <3>1, <3>5, FirstAnswer
    <3> QED BY <2>2, <3>6, <3>7, <3>8 DEF OnceConfigRead
  <2>4. CASE outputs # <<>>
    <3>1. Faithful /\ InStep /\ AnswersSoFar
      BY <2>4 DEF OnceConfigRead
    <3>2. Stream # <<>>
      <4>1. PICK i \in 1..Len(Stream) : TRUE
        BY <1>1, StopInStream
      <4> QED BY <4>1, Streams
    <3>3. inbox = <<>> /\ Stream = Says(device, c)
      BY <1>1, <3>1, <3>2 DEF InStep
    <3>4. c # Config
      BY <1>1, <1>2, <3>1 DEF AnswersSoFar
    <3>5. LineKinds(device, c) \cap stops = {} /\ "echo" \notin stops
      BY <1>2, <3>1, <3>4, WhatStops DEF Faithful
    <3>6. out = Body(device, c) /\ Stream' = <<>>
      BY <1>1, <1>2, <3>3, <3>5, ReadsInStep
    <3>7. queue' = Tail(queue)
      <4>1. Tail(queue) \in Seq(Commands)
        BY <1>1, <1>2
      <4> QED BY <2>1, <3>4, <4>1, ConcatEmptySeq
    <3>8. AnswersSoFar'
      BY <1>1, <2>1, <3>1, <3>6, <3>7, FurtherAnswer
    <3>9. Faithful' /\ InStep'
      BY <1>1, <2>1, <3>1, <3>3, <3>6 DEF Faithful, InStep
    <3> QED BY <2>2, <3>8, <3>9 DEF OnceConfigRead
  <2> QED BY <2>3, <2>4
<1> QED BY <1>3, <1>4

LEMMA NextOnceRead ==
  ASSUME Typed, VisitShape, NoConfigYet, ConfigUnderWay, OnceConfigRead, Next
  PROVE  OnceConfigRead'
<1>1. CASE (Connecting \/ ReadingPrompt) /\ UNCHANGED capture
  <2>1. outputs' = <<>> /\ outcome' # "collected"
    BY <1>1, ConnectingMoves, ReadingMoves DEF VisitShape, Unasked, Dialling, capture
  <2> QED BY <2>1 DEF OnceConfigRead
<1>2. CASE RefusesUserExec \/ TurnPagingOff \/ Identify
  <2>1. outputs' = <<>> /\ outcome' # "collected"
    BY <1>2 DEF RefusesUserExec, TurnPagingOff, Identify, Sends, Ends, script, capture, VisitShape,
                Unasked
  <2> QED BY <2>1 DEF OnceConfigRead
<1>3. CASE CommandTimesOut
  <2>1. pc' = "done" /\ outcome' = "error" /\ UNCHANGED <<queue, outputs, device, prompt>>
    BY <1>3 DEF CommandTimesOut, TimesOut, Ends, capture, far
  <2> QED BY <2>1 DEF OnceConfigRead, Faithful, InStep, AnswersSoFar
<1>4. CASE Collected
  <2>1. /\ pc = "ask" /\ queue = <<>> /\ pc' = "done"
        /\ UNCHANGED <<queue, outputs, device, prompt>>
    BY <1>4 DEF Collected, Ends, capture, far
  <2>2. outputs # <<>>
    BY <2>1, ConfigFirst DEF VisitShape
  <2> QED BY <2>1, <2>2 DEF OnceConfigRead, Faithful, InStep, AnswersSoFar
<1>5. CASE Ask
  <2>1. /\ pc = "ask" /\ pc' = "read" /\ Sends(Head(queue)) /\ Head(queue) \in Commands
        /\ UNCHANGED <<queue, outputs>> /\ outcome' # "collected"
    BY <1>5 DEF Ask, Sends, script, VisitShape, Typed, VisitTyped
  <2>2. /\ inbox' = Append(inbox, Head(queue)) /\ Stream' = Stream
        /\ UNCHANGED <<device, prompt>>
    BY <2>1, Sending
  <2>3. ASSUME outputs # <<>>
        PROVE  InStep'
    <3>1. inbox = <<>> /\ Stream = <<>>
      BY <2>1, <2>3 DEF OnceConfigRead, InStep
    <3>2. Append(<<>>, Head(queue)) = <<Head(queue)>>
      BY <2>1
    <3> QED BY <2>1, <2>2, <3>1, <3>2 DEF InStep
  <2> QED BY <2>1, <2>2, <2>3 DEF OnceConfigRead, Faithful, AnswersSoFar
<1>6. CASE ReadOutput
  BY <1>6, ReadsOn
<1>7. CASE (Arrive \/ Drop) /\ UNCHANGED capture
  <2>1. UNCHANGED <<pc, inbox, device, prompt, outcome, queue, outputs>>
        /\ (Drop => UNCHANGED <<held, wire>>)
    BY <1>7 DEF Arrive, Drop, script, terminal, capture
  <2>2. pc \in {"ask", "read"} => Stream' = Stream
    <3>1. pc \in {"ask", "read"} => sync = TRUE
      BY DEF VisitShape
    <3> QED BY <1>7, <2>1, <3>1, ArriveStream DEF Stream
  <2> QED BY <2>1, <2>2 DEF OnceConfigRead, Faithful, InStep, AnswersSoFar
<1>8. CASE DeviceAnswers
  <2>1. /\ inbox # <<>> /\ inbox' = Tail(inbox) /\ Stream' = Stream \o Says(device, Head(inbox))
        /\ UNCHANGED <<device, pc, prompt, outcome, queue, outputs>>
        /\ Head(inbox) \in Commands \cup {Nudge} /\ device \in Device
    BY <1>8, DeviceSpeaks, Streams
  <2>2. ASSUME outputs # <<>>
        PROVE  InStep'
    <3>1. pc = "ask" => FALSE
      BY <2>1, <2>2 DEF OnceConfigRead, InStep
    <3>2. ASSUME pc = "read"
          PROVE  inbox' = <<>> /\ Stream' = Says(device, Head(queue))
      <4>1. inbox = <<Head(queue)>> /\ Stream = <<>>
        BY <2>1, <2>2, <3>2 DEF OnceConfigRead, InStep
      <4>2. Head(inbox) = Head(queue) /\ Tail(inbox) = <<>>
        BY <4>1
      <4>3. Says(device, Head(inbox)) \in Seq(Tokens)
        BY <2>1, SaysTyped
      <4> QED BY <2>1, <4>1, <4>2, <4>3, ConcatEmptySeq
    <3> QED BY <2>1, <3>1, <3>2 DEF InStep
  <2> QED BY <2>1, <2>2 DEF OnceConfigRead, Faithful, AnswersSoFar
<1>9. CASE NextVisit /\ queue' = <<>> /\ outputs' = <<>> /\ sent' = {}
  BY <1>9 DEF NextVisit, OnceConfigRead
<1> QED BY <1>1, <1>2, <1>3, <1>4, <1>5, <1>6, <1>7, <1>8, <1>9 DEF Next, Visiting

LEMMA StutterOnceRead == OnceConfigRead /\ UNCHANGED vars => OnceConfigRead'
BY StutterStream DEF OnceConfigRead, Faithful, InStep, AnswersSoFar
-----------------------------------------------------------------------------
(***************************************************************************)
(* The theorems.                                                            *)
(***************************************************************************)

VisitInv == Typed /\ VisitShape
CaptureInv == VisitInv /\ PromptToCome /\ NoConfigYet /\ ConfigUnderWay /\ OnceConfigRead

LEMMA VisitInvariant == Spec => []VisitInv
<1>1. Init => VisitInv
  BY InitTyped, InitShape DEF VisitInv
<1>2. VisitInv /\ [Next]_vars => VisitInv'
  BY NextTyped, NextShape, StutterTyped, StutterShape DEF VisitInv
<1> QED BY <1>1, <1>2, PTL DEF Spec

LEMMA CaptureInvariant == Spec => []CaptureInv
<1>1. Init => CaptureInv
  BY InitTyped, InitShape, InitStream DEF CaptureInv, VisitInv
<1>2. CaptureInv /\ [Next]_vars => CaptureInv'
  <2>1. CaptureInv /\ Next => CaptureInv'
    BY NextTyped, NextShape, NextToCome, NextNoConfig, NextUnderWay, NextOnceRead
    DEF CaptureInv, VisitInv
  <2>2. CaptureInv /\ UNCHANGED vars => CaptureInv'
    BY StutterTyped, StutterShape, StutterToCome, StutterNoConfig, StutterUnderWay,
       StutterOnceRead
    DEF CaptureInv, VisitInv
  <2> QED BY <2>1, <2>2
<1> QED BY <1>1, <1>2, PTL DEF Spec

(* Whatever a device says, every variable of a read-only visit of           *)
(* capture_l2s.py keeps its type: only commands the script knows are ever   *)
(* queued or sent, the template commands a config leads to among them.      *)
THEOREM TypeCorrect == Spec => []TypeOK
<1>1. VisitInv => TypeOK
  <2> SUFFICES ASSUME VisitInv
               PROVE  TypeOK
    OBVIOUS
  <2>1. /\ device \in Device /\ inbox \in Seq(Commands \cup {Nudge})
        /\ wire \in Seq(Tokens) /\ held \in Seq(Tokens)
        /\ screen \in Tokens /\ prompt \in Tokens
        /\ attempt \in 1..LoginAttempts /\ poll \in 0..(Polls - 1)
        /\ visits \in 1..MaxVisits /\ rejections \in Nat /\ optionErrors \in Nat
    BY DEF VisitInv, Typed, ConsoleTyped, StreamsTyped, CountersTyped
  <2>2. up \in BOOLEAN /\ sync \in BOOLEAN /\ flag \in BOOLEAN
    BY Zenon DEF VisitInv, Typed, ConsoleTyped, SwitchesTyped
  <2>3. VisitTyped
    BY DEF VisitInv, Typed
  <2> QED BY <2>1, <2>2, <2>3, Zenon DEF TypeOK, VisitTyped, PCs, Outcomes
<1> QED BY <1>1, VisitInvariant, PTL

(* connect_session() never fails more logins than LOGIN_ATTEMPTS on one     *)
(* switch, which would lock it, and gives the refused /ACCEPTHOSTKEYS up    *)
(* for the rest of the run the first time it is refused.                    *)
THEOREM LoginsStayBounded == Spec => []LoginsBounded
<1>1. Init => VisitInv /\ LoginsCounted
  BY InitTyped, InitShape DEF VisitInv
<1>2. (VisitInv /\ LoginsCounted) /\ [Next]_vars => LoginsCounted'
  BY NextLogins, StutterLogins DEF VisitInv
<1>3. VisitInv /\ LoginsCounted => LoginsBounded
  <2> SUFFICES ASSUME VisitInv, LoginsCounted
               PROVE  rejections <= LoginAttempts /\ optionErrors <= 1
    BY DEF LoginsBounded
  <2>1. attempt \in 1..LoginAttempts /\ rejections \in Nat /\ rejections <= attempt
    BY DEF VisitInv, Typed, ConsoleTyped, CountersTyped, LoginsCounted
  <2>2. optionErrors = 0 \/ optionErrors = 1
    BY Zenon DEF LoginsCounted
  <2>3. rejections <= LoginAttempts
    BY <2>1, AttemptsNat
  <2> QED BY <2>2, <2>3
<1> QED BY <1>1, <1>2, <1>3, VisitInvariant, PTL DEF Spec

(* While run_command() waits in ReadString, the prompt that will end the    *)
(* wait is still on its way: read_prompt() let none of it through to the    *)
(* screen, and no earlier read consumed it.                                 *)
THEOREM EveryWaitAnswered == Spec => []AnswerStillComing
<1>1. CaptureInv => AnswerStillComing
  <2> SUFFICES ASSUME CaptureInv, pc \in {"identify", "read"}, inbox = <<>>
               PROVE  \/ \E i \in DOMAIN wire : wire[i].kind = PromptOf[device]
                      \/ \E i \in DOMAIN held : held[i].kind = PromptOf[device]
    BY DEF AnswerStillComing
  <2>1. Typed /\ Stream # <<>> /\ Stream[Len(Stream)] = Prompt(device)
    BY DEF CaptureInv, VisitInv, PromptToCome, EndsInPrompt
  <2>2. held \in Seq(Tokens) /\ wire \in Seq(Tokens)
    BY <2>1, Streams
  <2> DEFINE n == Len(held)
             m == Len(wire)
  <2>3. /\ Stream \in Seq(Tokens) /\ Len(Stream) = n + m
        /\ \A j \in 1..(n + m) : Stream[j] = IF j <= n THEN held[j] ELSE wire[j - n]
    BY <2>2, ConcatProperties DEF Stream
  <2>4. n \in Nat /\ m \in Nat /\ DOMAIN held = 1..n /\ DOMAIN wire = 1..m
    BY <2>2
  <2>5. n + m > 0
    BY <2>1, <2>3, <2>4
  <2> HIDE DEF n, m
  <2>6. Stream[n + m].kind = PromptOf[device]
    BY <2>1, <2>3 DEF Prompt, Token
  <2>7. CASE m = 0
    <3>1. n + m = n /\ n \in 1..n /\ n \in 1..(n + m) /\ n <= n
      BY <2>4, <2>5, <2>7
    <3>2. held[n].kind = PromptOf[device]
      BY <2>3, <2>6, <3>1
    <3> QED BY <2>4, <3>1, <3>2
  <2>8. CASE m # 0
    <3>1. n + m \in 1..(n + m) /\ ~ (n + m <= n) /\ (n + m) - n = m /\ m \in 1..m
      BY <2>4, <2>8
    <3>2. wire[m].kind = PromptOf[device]
      BY <2>3, <2>6, <3>1
    <3> QED BY <2>4, <3>1, <3>2
  <2> QED BY <2>7, <2>8
<1> QED BY <1>1, CaptureInvariant, PTL

(* collect() sends a device that is no Cisco switch the paging command and  *)
(* the running-config's, and nothing further: config_cut_short() refuses    *)
(* what not_a_switch() let by.                                              *)
THEOREM StrangersSparedCommands == Spec => []StrangersLeftAlone
<1>1. CaptureInv => StrangersLeftAlone
  BY DEF CaptureInv, VisitInv, VisitShape, OnceConfigRead, Faithful, StrangersLeftAlone
<1> QED BY <1>1, CaptureInvariant, PTL

(* What collect() returns is what the switch said: every command it was to  *)
(* ask, the config's templates among them, each beside its own whole answer *)
(* - whatever read_prompt()'s carriage returns left in the stream before    *)
(* the config, and whatever line of the banner it took for the prompt.      *)
THEOREM CapturesAreTrue == Spec => []CaptureIsTrue
<1>1. CaptureInv => CaptureIsTrue
  <2> SUFFICES ASSUME CaptureInv, outcome = "collected"
               PROVE  /\ device \in Ios
                      /\ [i \in DOMAIN outputs |-> outputs[i].command]
                           = Asked \o TemplatesIn(Body(device, Config))
                      /\ \A i \in DOMAIN outputs :
                           outputs[i].text = Body(device, outputs[i].command)
    BY DEF CaptureIsTrue
  <2>1. Faithful /\ AnswersSoFar /\ queue = <<>>
    BY DEF CaptureInv, OnceConfigRead
  <2>2. [i \in DOMAIN outputs |-> outputs[i].command] \in Seq(Commands)
    <3>1. outputs \in Seq([command : Commands, text : Seq(Tokens)])
      BY DEF CaptureInv, VisitInv, Typed, VisitTyped
    <3> DEFINE Answer == [command : Commands, text : Seq(Tokens)]
    <3>2. \A a \in Answer : a.command \in Commands
      OBVIOUS
    <3>3. outputs \in Seq(Answer)
      BY <3>1
    <3> HIDE DEF Answer
    <3>4. /\ DOMAIN outputs = 1..Len(outputs) /\ Len(outputs) \in Nat
          /\ \A i \in 1..Len(outputs) : outputs[i] \in Answer
      BY <3>3
    <3>5. \A i \in 1..Len(outputs) : outputs[i].command \in Commands
      BY <3>2, <3>4
    <3> QED BY <3>4, <3>5
  <2> QED BY <2>1, <2>2, ConcatEmptySeq DEF Faithful, AnswersSoFar
<1> QED BY <1>1, CaptureInvariant, PTL
=============================================================================
