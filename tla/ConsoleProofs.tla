--------------------------- MODULE ConsoleProofs ---------------------------
(***************************************************************************)
(* What every step of a visit's conversation keeps, for whatever commands   *)
(* are sent and whatever lines the device answers with: lemmas the proofs   *)
(* about the walks rest on.                                                 *)
(***************************************************************************)
EXTENDS Console, SequenceTheorems, TLAPS

(* The types, of commands in C and tokens in T.                             *)
StreamsTyped(C, T) ==
  /\ device \in Device
  /\ inbox \in Seq(C \cup {Nudge})
  /\ wire \in Seq(T) /\ held \in Seq(T)
  /\ screen \in T /\ prompt \in T
CountersTyped ==
  /\ attempt \in 1..LoginAttempts /\ poll \in 0..(Polls - 1)
  /\ visits \in 1..MaxVisits
  /\ rejections \in Nat /\ optionErrors \in Nat
SwitchesTyped == up \in BOOLEAN /\ sync \in BOOLEAN /\ flag \in BOOLEAN

ConsoleTyped(C, T) == StreamsTyped(C, T) /\ CountersTyped /\ SwitchesTyped

(* What a terminal shows before anything is asked.                          *)
Greetings == {Token(k, NoCommand) : k \in {"blank", "prompt", "user", "rule", "mark", "text"}}

LEMMA GreetingTokens ==
  /\ Blank \in Greetings
  /\ \A d \in Device : Prompt(d) \in Greetings
  /\ \A b \in Banners : [i \in DOMAIN b |-> Token(b[i], NoCommand)] \in Seq(Greetings)
<1>1. Blank \in Greetings
  BY DEF Blank, Greetings
<1>2. \A d \in Device : Prompt(d) \in Greetings
  BY PromptTyped DEF Prompt, Greetings
<1>3. ASSUME NEW b \in Banners
      PROVE  [i \in DOMAIN b |-> Token(b[i], NoCommand)] \in Seq(Greetings)
  <2>1. b \in Seq({"text", "rule", "mark"})
    BY BannersTyped
  <2>2. \A i \in 1..Len(b) : b[i] \in {"text", "rule", "mark"}
    BY <2>1
  <2>3. \A i \in 1..Len(b) : Token(b[i], NoCommand) \in Greetings
    BY <2>2 DEF Greetings
  <2>4. DOMAIN b = 1..Len(b) /\ Len(b) \in Nat
    BY <2>1
  <2> QED BY <2>3, <2>4
<1> QED BY <1>1, <1>2, <1>3

LEMMA ConsoleInitTyped ==
  ASSUME NEW C, NEW T, Greetings \subseteq T, ConsoleInit
  PROVE  ConsoleTyped(C, T)
<1>1. StreamsTyped(C, T)
  BY GreetingTokens DEF ConsoleInit, StreamsTyped
<1>2. CountersTyped
  BY AttemptsNat, PollsNat DEF ConsoleInit, CountersTyped
<1>3. SwitchesTyped
  BY FlagsBool DEF ConsoleInit, SwitchesTyped
<1> QED BY <1>1, <1>2, <1>3 DEF ConsoleTyped

(* Connecting: only Connected touches the streams.                          *)
LEMMA ConnectedTyped ==
  ASSUME NEW C, NEW T, Greetings \subseteq T, ConsoleTyped(C, T), Connected
  PROVE  ConsoleTyped(C, T)'
<1>1. StreamsTyped(C, T)'
  <2>1. PICK b \in Banners :
          wire' = [i \in DOMAIN b |-> Token(b[i], NoCommand)] \o <<Prompt(device')>>
    BY DEF Connected
  <2>2. device' \in Device
    BY DEF Connected
  <2>3. [i \in DOMAIN b |-> Token(b[i], NoCommand)] \in Seq(T)
    BY GreetingTokens, SeqMonotonic
  <2>4. <<Prompt(device')>> \in Seq(T)
    BY <2>2, GreetingTokens
  <2>5. wire' \in Seq(T)
    BY <2>1, <2>3, <2>4, ConcatProperties
  <2> QED BY <2>2, <2>5 DEF Connected, ConsoleTyped, StreamsTyped, terminal, script
<1>2. CountersTyped'
  BY DEF Connected, ConsoleTyped, CountersTyped, script, counts
<1>3. SwitchesTyped'
  BY DEF Connected, ConsoleTyped, SwitchesTyped, script, terminal
<1> QED BY <1>1, <1>2, <1>3 DEF ConsoleTyped

LEMMA ConnectingTyped ==
  ASSUME NEW C, NEW T, ConsoleTyped(C, T), OptionRefused \/ LoginRejected \/ ConnectFails
  PROVE  ConsoleTyped(C, T)'
<1>1. StreamsTyped(C, T)'
  BY DEF OptionRefused, LoginRejected, ConnectFails, ConsoleTyped, StreamsTyped, far, terminal
<1>2. CountersTyped'
  <2>1. /\ attempt' = attempt \/ (attempt' = attempt + 1 /\ attempt # LoginAttempts)
        /\ poll' = poll /\ visits' = visits
        /\ rejections' = rejections \/ rejections' = rejections + 1
        /\ optionErrors' = optionErrors \/ optionErrors' = optionErrors + 1
    BY Zenon DEF OptionRefused, LoginRejected, ConnectFails, counts
  <2> QED BY <2>1, AttemptsNat DEF ConsoleTyped, CountersTyped
<1>3. SwitchesTyped'
  <2>1. up' = up /\ sync' = sync /\ (flag' = flag \/ flag' = FALSE)
    BY Zenon DEF OptionRefused, LoginRejected, ConnectFails, far, terminal
  <2> QED BY <2>1, Zenon DEF ConsoleTyped, SwitchesTyped
<1> QED BY <1>1, <1>2, <1>3 DEF ConsoleTyped

LEMMA NextVisitTyped ==
  ASSUME NEW C, NEW T, Greetings \subseteq T, ConsoleTyped(C, T), NextVisit
  PROVE  ConsoleTyped(C, T)'
<1>1. StreamsTyped(C, T)'
  BY GreetingTokens DEF NextVisit, ConsoleTyped, StreamsTyped
<1>2. CountersTyped'
  BY AttemptsNat, PollsNat DEF NextVisit, ConsoleTyped, CountersTyped
<1>3. SwitchesTyped'
  BY Zenon DEF NextVisit, ConsoleTyped, SwitchesTyped
<1> QED BY <1>1, <1>2, <1>3 DEF ConsoleTyped

(* Reading the prompt: a nudge is all that is sent.                         *)
LEMMA ReadingPromptTyped ==
  ASSUME NEW C, NEW T, ConsoleTyped(C, T), ReadingPrompt
  PROVE  ConsoleTyped(C, T)'
<1>1. StreamsTyped(C, T)'
  <2>1. CASE StartPolling
    <3>1. held # <<>> => held[Len(held)] \in T
      BY DEF ConsoleTyped, StreamsTyped
    <3> QED BY <2>1, <3>1 DEF StartPolling, ConsoleTyped, StreamsTyped, far, script
  <2>2. CASE KeepsWaiting
    <3>1. Append(inbox, Nudge) \in Seq(C \cup {Nudge})
      BY DEF ConsoleTyped, StreamsTyped
    <3>2. inbox' \in Seq(C \cup {Nudge})
      BY <2>2, <3>1, Zenon DEF KeepsWaiting, ConsoleTyped, StreamsTyped
    <3> QED BY <2>2, <3>2, Zenon DEF KeepsWaiting, ConsoleTyped, StreamsTyped, terminal
  <2>3. CASE SeesPrompt \/ NoPrompt \/ RestoreSync
    BY <2>3 DEF SeesPrompt, NoPrompt, RestoreSync, ConsoleTyped, StreamsTyped, far, terminal,
                script
  <2> QED BY <2>1, <2>2, <2>3 DEF ReadingPrompt
<1>2. CountersTyped'
  <2>1. CASE KeepsWaiting
    <3>1. poll' = poll + 1 /\ poll + 1 < Polls
      BY <2>1, Zenon DEF KeepsWaiting
    <3>2. attempt' = attempt /\ visits' = visits /\ rejections' = rejections
          /\ optionErrors' = optionErrors
      BY <2>1, Zenon DEF KeepsWaiting, counts
    <3> QED BY <3>1, <3>2, PollsNat DEF ConsoleTyped, CountersTyped
  <2>2. CASE StartPolling \/ SeesPrompt \/ NoPrompt \/ RestoreSync
    BY <2>2 DEF StartPolling, SeesPrompt, NoPrompt, RestoreSync, ConsoleTyped, CountersTyped,
                script, counts
  <2> QED BY <2>1, <2>2 DEF ReadingPrompt
<1>3. SwitchesTyped'
  <2>1. up' = up /\ flag' = flag /\ (sync' = sync \/ sync' = TRUE \/ sync' = FALSE)
    BY Zenon DEF ReadingPrompt, StartPolling, SeesPrompt, KeepsWaiting, NoPrompt, RestoreSync,
                 far, script, terminal
  <2> QED BY <2>1, Zenon DEF ConsoleTyped, SwitchesTyped
<1> QED BY <1>1, <1>2, <1>3 DEF ConsoleTyped

LEMMA ArriveTyped ==
  ASSUME NEW C, NEW T, ConsoleTyped(C, T), Arrive
  PROVE  ConsoleTyped(C, T)'
<1>1. StreamsTyped(C, T)'
  <2>1. wire # <<>> /\ wire' = Tail(wire)
    BY DEF Arrive
  <2>2. Head(wire) \in T /\ Tail(wire) \in Seq(T)
    BY <2>1 DEF ConsoleTyped, StreamsTyped
  <2>3. \/ held' = Append(held, Head(wire)) /\ screen' = screen
        \/ held' = held /\ screen' = Head(wire)
    BY Zenon DEF Arrive
  <2>4. held' \in Seq(T) /\ screen' \in T
    BY <2>2, <2>3 DEF ConsoleTyped, StreamsTyped
  <2> QED BY <2>1, <2>2, <2>4 DEF Arrive, ConsoleTyped, StreamsTyped, script
<1>2. CountersTyped'
  BY DEF Arrive, ConsoleTyped, CountersTyped, script, counts
<1>3. SwitchesTyped'
  BY Zenon DEF Arrive, ConsoleTyped, SwitchesTyped, script
<1> QED BY <1>1, <1>2, <1>3 DEF ConsoleTyped

LEMMA DropTyped ==
  ASSUME NEW C, NEW T, ConsoleTyped(C, T), Drop
  PROVE  ConsoleTyped(C, T)'
<1>1. StreamsTyped(C, T)' /\ CountersTyped'
  BY DEF Drop, ConsoleTyped, StreamsTyped, CountersTyped, script, counts, terminal
<1>2. SwitchesTyped'
  BY Zenon DEF Drop, ConsoleTyped, SwitchesTyped, script, terminal
<1> QED BY <1>1, <1>2 DEF ConsoleTyped

LEMMA AnswersTyped ==
  ASSUME NEW C, NEW T, ConsoleTyped(C, T), NEW reply \in Seq(T), Answers(reply)
  PROVE  ConsoleTyped(C, T)'
<1>1. StreamsTyped(C, T)'
  <2>1. wire \o reply \in Seq(T) /\ (inbox # <<>> => Tail(inbox) \in Seq(C \cup {Nudge}))
    BY DEF ConsoleTyped, StreamsTyped
  <2> QED BY <2>1 DEF Answers, ConsoleTyped, StreamsTyped, script, terminal
<1>2. CountersTyped'
  BY DEF Answers, ConsoleTyped, CountersTyped, script, counts
<1>3. SwitchesTyped'
  BY Zenon DEF Answers, ConsoleTyped, SwitchesTyped, script, terminal
<1> QED BY <1>1, <1>2, <1>3 DEF ConsoleTyped

LEMMA SendsTyped ==
  ASSUME NEW C, NEW T, ConsoleTyped(C, T), NEW c \in C, Sends(c)
  PROVE  ConsoleTyped(C, T)'
<1>1. StreamsTyped(C, T)'
  <2>1. Append(inbox, c) \in Seq(C \cup {Nudge})
    BY DEF ConsoleTyped, StreamsTyped
  <2> QED BY <2>1 DEF Sends, ConsoleTyped, StreamsTyped, script, terminal
<1>2. CountersTyped'
  BY DEF Sends, ConsoleTyped, CountersTyped, script, counts
<1>3. SwitchesTyped'
  BY Zenon DEF Sends, ConsoleTyped, SwitchesTyped, script, terminal
<1> QED BY <1>1, <1>2, <1>3 DEF ConsoleTyped

(* What a read leaves held came after the stop, what it returns before it.  *)
LEMMA StopsAt ==
  ASSUME NEW T, held \in Seq(T), NEW stops, StopAt(stops) # {}
  PROVE  \E i \in 1..Len(held) :
           /\ held[i].kind \in stops
           /\ \A j \in 1..(i - 1) : held[j].kind \notin stops
           /\ StopAt(stops) = {i}
           /\ Got(stops) = SubSeq(held, 1, i - 1)
           /\ Consumes(stops) => held' = SubSeq(held, i + 1, Len(held))
<1>1. PICK i \in StopAt(stops) : TRUE
  OBVIOUS
<1>2. /\ i \in 1..Len(held) /\ held[i].kind \in stops
      /\ \A j \in 1..(i - 1) : held[j].kind \notin stops
  BY <1>1 DEF StopAt
<1>3. StopAt(stops) = {i}
  <2>1. ASSUME NEW k \in StopAt(stops)
        PROVE  k = i
    <3>1. /\ k \in 1..Len(held) /\ held[k].kind \in stops
          /\ \A j \in 1..(k - 1) : held[j].kind \notin stops
      BY DEF StopAt
    <3> QED BY <1>2, <3>1
  <2> QED BY <1>1, <2>1
<1>4. Got(stops) = SubSeq(held, 1, i - 1)
  BY <1>3 DEF Got
<1>5. Consumes(stops) => held' = SubSeq(held, i + 1, Len(held))
  BY <1>3 DEF Consumes
<1> QED BY <1>2, <1>3, <1>4, <1>5

LEMMA ConsumesTyped ==
  ASSUME NEW C, NEW T, ConsoleTyped(C, T), NEW stops, Consumes(stops)
  PROVE  ConsoleTyped(C, T)'
<1>1. StreamsTyped(C, T)'
  <2>1. held \in Seq(T) /\ StopAt(stops) # {}
    BY DEF ConsoleTyped, StreamsTyped, Consumes
  <2>2. PICK i \in 1..Len(held) : held' = SubSeq(held, i + 1, Len(held))
    BY <2>1, StopsAt
  <2>3. held' \in Seq(T)
    BY <2>1, <2>2
  <2> QED BY <2>3 DEF Consumes, ConsoleTyped, StreamsTyped
<1>2. CountersTyped'
  BY DEF Consumes, ConsoleTyped, CountersTyped, counts
<1>3. SwitchesTyped'
  BY Zenon DEF Consumes, ConsoleTyped, SwitchesTyped
<1> QED BY <1>1, <1>2, <1>3 DEF ConsoleTyped

(* A step of the script's own that leaves the conversation alone.           *)
LEMMA QuietTyped ==
  ASSUME NEW C, NEW T, ConsoleTyped(C, T),
         UNCHANGED <<far, terminal, flag, attempt, poll, prompt, visits, counts>>
  PROVE  ConsoleTyped(C, T)'
BY Zenon DEF ConsoleTyped, StreamsTyped, CountersTyped, SwitchesTyped, far, terminal, counts

(* Every line a read returns was held.                                      *)
LEMMA ReadsWhatIsHeld ==
  ASSUME NEW T, held \in Seq(T), NEW stops, StopAt(stops) # {}, NEW c
  PROVE  LET out == StripEcho(Got(stops), c)
         IN  /\ out \in Seq(T)
             /\ \A n \in DOMAIN out : \E j \in DOMAIN held :
                  out[n] = held[j] /\ held[j].kind \notin stops
<1>1. PICK i \in 1..Len(held) :
           /\ \A j \in 1..(i - 1) : held[j].kind \notin stops
           /\ Got(stops) = SubSeq(held, 1, i - 1)
  BY StopsAt
<1>2. Got(stops) \in Seq(T) /\ Len(Got(stops)) = i - 1
      /\ \A n \in 1..(i - 1) : Got(stops)[n] = held[n]
  BY <1>1
<1>3. CASE Got(stops) # <<>> /\ Head(Got(stops)) = Token("echo", c)
  <2>1. StripEcho(Got(stops), c) = Tail(Got(stops))
    BY <1>3 DEF StripEcho
  <2>2. Tail(Got(stops)) \in Seq(T) /\ Len(Tail(Got(stops))) = i - 2
        /\ \A n \in 1..(i - 2) : Tail(Got(stops))[n] = held[n + 1]
    BY <1>2, <1>3, HeadTailProperties
  <2>3. DOMAIN Tail(Got(stops)) = 1..(i - 2) /\ DOMAIN held = 1..Len(held)
    BY <2>2
  <2>4. \A n \in 1..(i - 2) : n + 1 \in 1..(i - 1) /\ n + 1 \in 1..Len(held)
    OBVIOUS
  <2>5. ASSUME NEW n \in 1..(i - 2)
        PROVE  \E j \in DOMAIN held : /\ Tail(Got(stops))[n] = held[j]
                                     /\ held[j].kind \notin stops
    <3>1. Tail(Got(stops))[n] = held[n + 1] /\ n + 1 \in DOMAIN held
          /\ held[n + 1].kind \notin stops
      BY <1>1, <2>2, <2>3, <2>4
    <3> QED BY <3>1
  <2> QED BY <2>1, <2>2, <2>3, <2>5
<1>4. CASE ~(Got(stops) # <<>> /\ Head(Got(stops)) = Token("echo", c))
  <2>1. StripEcho(Got(stops), c) = Got(stops)
    BY <1>4 DEF StripEcho
  <2>2. DOMAIN Got(stops) = 1..(i - 1) /\ DOMAIN held = 1..Len(held)
    BY <1>2
  <2> QED BY <1>1, <1>2, <2>1, <2>2
<1> QED BY <1>3, <1>4
=============================================================================
