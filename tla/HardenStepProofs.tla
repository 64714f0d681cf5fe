-------------------------- MODULE HardenStepProofs --------------------------
(***************************************************************************)
(* Proofs about a visit of Harden that is read in step: the prompt was the  *)
(* prompt, it was there before the first nudge, and no answer came late.    *)
(* Such a visit's rejections, and its word that the vty lines are closed,   *)
(* are the switch's own.  The argument: one command is in flight at a time, *)
(* the stop of its read is the last of its answer, so each read takes all   *)
(* there is, and the push and the switch advance together.                  *)
(***************************************************************************)
EXTENDS HardenProofs

(* Read in step.  The stop of a read is the last thing on its way, and      *)
(* nothing is behind it: one answer for one command.                        *)
Clean == prompt.kind = "prompt" /\ poll <= NudgeEvery
Quiet == inbox = <<>> /\ wire = <<>> /\ held = <<>>
LastOf(s, stops) == \A i \in DOMAIN s : s[i].kind \in stops => i = Len(s)
Coming(stops) ==
  /\ LastOf(wire, stops) /\ LastOf(held, stops)
  /\ \A i \in DOMAIN held : held[i].kind \in stops => wire = <<>>
Awaiting(c, stops) ==
  \/ inbox = <<c>> /\ wire = <<>> /\ held = <<>>
  \/ inbox = <<>> /\ Coming(stops)
HasKind(s, k) == \E i \in DOMAIN s : s[i].kind = k
NoneOf(s, t) == \A i \in DOMAIN s : s[i] # t
Listing(s) ==
  /\ NoneOf(s, Token("echo", PagingOff))
  /\ \A k \in {"user", "config", "text"} : ~HasKind(s, k)

GreetedInStep ==
  /\ pc = "connected" => screen = Blank
  /\ pc = "poll" => held = <<>>
  /\ pc \in {"connected", "poll"} /\ poll <= NudgeEvery =>
       /\ inbox = <<>> /\ Coming({"prompt"})
       /\ HasKind(wire, "prompt") \/ HasKind(held, "prompt") \/ screen.kind = "prompt" =>
            PromptOf[device] = "prompt"
       /\ screen.kind = "prompt" => wire = <<>>
  /\ pc \in {"restore", "ready"} \cup {"identify", "ask-vty", "read-vty"} /\ Clean =>
       PromptOf[device] = "prompt"
  /\ pc \in {"restore", "ready"} /\ Clean => Quiet

InStepSoFar == Clean /\ (withVty => readOk)
Answer == {"prompt", "look"}

ReadInStep ==
  /\ pc = "identify" /\ Clean =>
       /\ Awaiting(PagingOff, Answer)
       /\ inbox = <<>> /\ device \notin Switches =>
            HasKind(wire, "complaint") \/ HasKind(held, "complaint")
  /\ pc \in {"ask-vty", "read-vty"} /\ Clean => device \in Switches
  /\ pc = "ask-vty" /\ Clean => Quiet
  /\ pc = "read-vty" /\ Clean =>
       /\ Awaiting(ShowVty, Answer)
       /\ Listing(wire) /\ Listing(held)
  /\ pc \in Pushing /\ InStepSoFar => device \in Switches
  /\ pc = "push" /\ InStepSoFar => Quiet
  /\ pc = "pushed" /\ InStepSoFar => Awaiting(current, AnyHash)

(* The push ends with `end', which leaves the switch where a show command   *)
(* is an answer and not one more rejection.                                 *)
EndsWithEnd ==
  /\ pc \in {"ask-vty", "read-vty", "push"} => push # <<>>
  /\ pc \in {"ask-vty", "read-vty"} \cup Pushing /\ push # <<>> => push[Len(push)] = Cmd("end")
  /\ pc = "pushed" /\ push = <<>> => current = Cmd("end")
  /\ pc = "pushed" /\ push = <<>> /\ inbox = <<>> /\ InStepSoFar => mode = "exec"
  /\ pc \in Checking /\ InStepSoFar => device \in Switches /\ mode = "exec" /\ OnlyShows(inbox)
  /\ pc = "done" /\ row.outcome # "none" /\ InStepSoFar =>
       device \in Switches /\ mode = "exec" /\ OnlyShows(inbox)

(* Every complaint is beside its command, or still on its way as the answer *)
(* to the one just sent.                                                    *)
Beside(cs) == [i \in DOMAIN cs |-> <<cs[i], cs[i]>>]
Errors(s) == {s[i].of : i \in {j \in DOMAIN s : s[j].kind = "error"}}
OneLeft(e) ==
  \/ e = {} /\ Beside(complaints) = rejected
  \/ e = {current} /\ Beside(complaints) = Append(rejected, <<current, current>>)
Rejected ==
  /\ pc \in {"push"} \cup Checking /\ InStepSoFar => rejected = Beside(complaints)
  /\ pc = "pushed" /\ InStepSoFar => OneLeft(Errors(wire) \cup Errors(held))
  /\ pc = "done" /\ row.outcome # "none" /\ InStepSoFar =>
       /\ row.rejections = Earliest(Beside(complaints))
       /\ row.rejecting <=> Beside(complaints) # <<>>

(* The vty block as it goes in: Left commands before the end of the push.   *)
Block == VtyFixes(HighestVty[device]) \o <<Cmd("end")>>
Left == Len(inbox) + Len(push)
Aligned(s) ==
  \A i \in 1..Len(s) : LET k == Len(Block) - Len(s) + i IN k >= 1 => s[i] = Block[k]
OpenUse == \A l \in DOMAIN transport : l < Sessions => transport[l] = "ssh"
Effects ==
  IF Sessions - 1 >= HighestVty[device]
  THEN /\ Left \in 2..4 => range = 0..HighestVty[device]
       /\ Left \in 0..1 => ClosedIn(transport)
  ELSE /\ Left = 4 => range = 0..(Sessions - 1)
       /\ Left \in 0..3 => OpenUse
       /\ Left = 2 => range = Sessions..HighestVty[device]
       /\ Left \in 0..1 => ClosedIn(transport)

Blocked == withVty /\ InStepSoFar
BlockGoesIn ==
  /\ pc \in Pushing /\ Blocked => Aligned(push)
  /\ pc = "pushed" /\ Blocked /\ inbox # <<>> /\ Len(push) < Len(Block) =>
       current = Block[Len(Block) - Len(push)]
  /\ pc \in Pushing /\ Blocked /\ complaints = <<>> => Effects
  /\ pc \in Checking /\ Blocked /\ complaints = <<>> => ClosedIn(transport)
  /\ pc = "done" /\ row.outcome # "none" /\ Blocked /\ complaints = <<>> => ClosedIn(transport)
  /\ row.note = "closed" => withVty /\ row.outcome # "none"

-----------------------------------------------------------------------------
(* Reading in step. *)

LEMMA StreamsKnown ==
  ASSUME Typed
  PROVE  /\ inbox \in Seq(Commands \cup {Nudge}) /\ wire \in Seq(Tokens) /\ held \in Seq(Tokens)
         /\ device \in Device /\ push \in Seq(Commands) /\ current \in Commands
         /\ poll \in Nat /\ screen \in Tokens /\ prompt \in Tokens
BY TypedParts DEF ConsoleTyped, StreamsTyped, CountersTyped, NotesTyped

(* A piece of text that arrives behind what is held.                        *)
LEMMA Arrivals ==
  ASSUME Typed, Arrive, sync = TRUE
  PROVE  /\ wire # <<>> /\ inbox' = inbox /\ screen' = screen
         /\ \A stops : Coming(stops) => Coming(stops)'
         /\ \A k : HasKind(wire', k) \/ HasKind(held', k) <=> HasKind(wire, k) \/ HasKind(held, k)
         /\ \A t : NoneOf(wire, t) /\ NoneOf(held, t) => NoneOf(wire', t) /\ NoneOf(held', t)
         /\ Errors(wire') \cup Errors(held') = Errors(wire) \cup Errors(held)
<1>1. /\ wire # <<>> /\ wire' = Tail(wire) /\ held' = Append(held, Head(wire))
      /\ inbox' = inbox /\ screen' = screen
  BY DEF Arrive
<1> DEFINE n == Len(wire)
           m == Len(held)
<1>2. /\ n \in Nat \ {0} /\ DOMAIN wire = 1..n /\ DOMAIN wire' = 1..(n - 1) /\ Len(wire') = n - 1
      /\ \A i \in 1..(n - 1) : wire'[i] = wire[i + 1]
  BY <1>1, StreamsKnown, HeadTailProperties
<1>3. /\ m \in Nat /\ DOMAIN held = 1..m /\ DOMAIN held' = 1..(m + 1) /\ Len(held') = m + 1
      /\ \A i \in 1..m : held'[i] = held[i]
      /\ held'[m + 1] = wire[1]
  <2>1. held \in Seq(Tokens) /\ wire[1] \in Tokens /\ Head(wire) = wire[1]
    BY <1>2, StreamsKnown
  <2> DEFINE t == Head(wire)
  <2>2. t \in Tokens /\ t = wire[1] /\ held' = Append(held, t)
    BY <1>1, <2>1
  <2> HIDE DEF t
  <2>3. /\ Len(held') = m + 1 /\ held' \in Seq(Tokens)
        /\ \A i \in 1..m : held'[i] = held[i]
        /\ held'[m + 1] = t
    BY <2>1, <2>2, AppendProperties
  <2> QED BY <2>1, <2>2, <2>3
<1>4. n = 1 => wire' = <<>>
  BY <1>1, StreamsKnown
<1> HIDE DEF n, m
<1>5. ASSUME NEW stops, Coming(stops)
      PROVE  Coming(stops)'
  <2>1. /\ \A i \in 1..n : wire[i].kind \in stops => i = n
        /\ \A i \in 1..m : held[i].kind \notin stops
    BY <1>1, <1>2, <1>3, <1>5 DEF Coming, LastOf, n
  <2>2. LastOf(wire', stops)
    <3> SUFFICES ASSUME NEW i \in 1..(n - 1), wire'[i].kind \in stops
                 PROVE  i = n - 1
      BY <1>2 DEF LastOf
    <3> QED BY <1>2, <2>1
  <2>3. \A i \in 1..(m + 1) : held'[i].kind \in stops => i = m + 1 /\ wire' = <<>>
    <3> SUFFICES ASSUME NEW i \in 1..(m + 1), held'[i].kind \in stops
                 PROVE  i = m + 1 /\ wire' = <<>>
      OBVIOUS
    <3>1. i = m + 1
      BY <1>3, <2>1
    <3>2. n = 1
      BY <1>2, <1>3, <2>1, <3>1
    <3> QED BY <1>4, <3>1, <3>2
  <2> QED BY <1>3, <2>2, <2>3 DEF Coming, LastOf
<1>6. /\ \A i \in DOMAIN wire' : \E j \in DOMAIN wire : wire'[i] = wire[j]
      /\ \A i \in DOMAIN held' : \/ \E j \in DOMAIN held : held'[i] = held[j]
                                \/ \E j \in DOMAIN wire : held'[i] = wire[j]
  <2>1. \A i \in 1..(n - 1) : i + 1 \in 1..n
    BY <1>2
  <2>2. \A i \in 1..(m + 1) : i \in 1..m \/ i = m + 1
    BY <1>3
  <2>3. 1 \in 1..n
    BY <1>2
  <2> QED BY <1>2, <1>3, <2>1, <2>2, <2>3
<1>7. /\ \A j \in DOMAIN held : \E i \in DOMAIN held' : held'[i] = held[j]
      /\ \A j \in DOMAIN wire : \/ \E i \in DOMAIN held' : held'[i] = wire[j]
                               \/ \E i \in DOMAIN wire' : wire'[i] = wire[j]
  <2>1. \A j \in 1..m : j \in 1..(m + 1)
    BY <1>3
  <2>2. ASSUME NEW j \in 1..n
        PROVE  \/ \E i \in 1..(m + 1) : held'[i] = wire[j]
               \/ \E i \in 1..(n - 1) : wire'[i] = wire[j]
    <3>1. CASE j = 1
      <4>1. m + 1 \in 1..(m + 1)
        BY <1>3
      <4> QED BY <1>3, <3>1, <4>1
    <3>2. CASE j # 1
      <4>1. j - 1 \in 1..(n - 1) /\ (j - 1) + 1 = j
        BY <1>2, <3>2
      <4>2. wire'[j - 1] = wire[j]
        BY <1>2, <4>1
      <4> QED BY <4>1, <4>2
    <3> QED BY <3>1, <3>2
  <2> QED BY <1>2, <1>3, <2>1, <2>2
<1>8. \A k : HasKind(wire', k) \/ HasKind(held', k) <=> HasKind(wire, k) \/ HasKind(held, k)
  BY <1>6, <1>7 DEF HasKind
<1>9. \A t : NoneOf(wire, t) /\ NoneOf(held, t) => NoneOf(wire', t) /\ NoneOf(held', t)
  BY <1>6 DEF NoneOf
<1>10. Errors(wire') \cup Errors(held') = Errors(wire) \cup Errors(held)
  <2>1. \A s, e : e \in Errors(s) <=> \E i \in DOMAIN s : s[i].kind = "error" /\ e = s[i].of
    BY DEF Errors
  <2>2. \A e : e \in Errors(wire') \cup Errors(held') => e \in Errors(wire) \cup Errors(held)
    BY <1>6, <2>1
  <2>3. \A e : e \in Errors(wire) \cup Errors(held) => e \in Errors(wire') \cup Errors(held')
    BY <1>7, <2>1
  <2> QED BY <2>2, <2>3
<1> QED BY <1>1, <1>5, <1>8, <1>9, <1>10

(* A read in step takes everything: nothing is left for the next, and no    *)
(* line but the echo and the prompt is lost.                                *)
LEMMA ReadInFull ==
  ASSUME Typed, NEW stops, Coming(stops), StopAt(stops) # {}, NEW c
  PROVE  /\ Consumes(stops) => inbox' = inbox /\ wire' = <<>> /\ held' = <<>>
         /\ \A j \in DOMAIN held :
              held[j].kind \notin stops \cup {"echo"} =>
                /\ \E n \in DOMAIN Got(stops) : Got(stops)[n] = held[j]
                /\ \E n \in DOMAIN StripEcho(Got(stops), c) : StripEcho(Got(stops), c)[n] = held[j]
         /\ \A n \in DOMAIN Got(stops) : \E j \in DOMAIN held : Got(stops)[n] = held[j]
<1>1. PICK i \in 1..Len(held) :
           /\ held[i].kind \in stops
           /\ \A j \in 1..(i - 1) : held[j].kind \notin stops
           /\ Got(stops) = SubSeq(held, 1, i - 1)
           /\ Consumes(stops) => held' = SubSeq(held, i + 1, Len(held))
  <2>1. held \in Seq(Tokens)
    BY StreamsKnown
  <2> QED BY <2>1, StopsAt, Zenon
<1>2. held \in Seq(Tokens) /\ DOMAIN held = 1..Len(held) /\ Len(held) \in Nat
  BY StreamsKnown
<1>3. i = Len(held) /\ wire = <<>>
  BY <1>1, <1>2 DEF Coming, LastOf
<1>4. Consumes(stops) => inbox' = inbox /\ wire' = wire /\ held' = <<>>
  <2>1. SubSeq(held, i + 1, Len(held)) = <<>>
    BY <1>2, <1>3
  <2> QED BY <1>1, <2>1 DEF Consumes
<1>5. /\ Got(stops) \in Seq(Tokens) /\ DOMAIN Got(stops) = 1..(i - 1)
      /\ \A n \in 1..(i - 1) : Got(stops)[n] = held[n]
  BY <1>1, <1>2
<1>6. ASSUME NEW j \in DOMAIN held, held[j].kind \notin stops \cup {"echo"}
      PROVE  /\ \E n \in DOMAIN Got(stops) : Got(stops)[n] = held[j]
             /\ \E n \in DOMAIN StripEcho(Got(stops), c) : StripEcho(Got(stops), c)[n] = held[j]
  <2>1. j \in 1..(i - 1) /\ Got(stops)[j] = held[j]
    BY <1>1, <1>2, <1>3, <1>5, <1>6
  <2>2. CASE Got(stops) # <<>> /\ Head(Got(stops)) = Token("echo", c)
    <3>1. StripEcho(Got(stops), c) = Tail(Got(stops))
      BY <2>2 DEF StripEcho
    <3>2. Head(Got(stops)) = Got(stops)[1] /\ Token("echo", c).kind = "echo"
      BY <1>5, <2>2 DEF Token
    <3>3. j # 1
      BY <1>6, <2>1, <2>2, <3>2
    <3>4. /\ DOMAIN Tail(Got(stops)) = 1..(i - 2)
          /\ \A n \in 1..(i - 2) : Tail(Got(stops))[n] = Got(stops)[n + 1]
      BY <1>5, <2>2, HeadTailProperties
    <3>5. j - 1 \in 1..(i - 2) /\ (j - 1) + 1 = j
      BY <2>1, <3>3
    <3>6. Tail(Got(stops))[j - 1] = held[j]
      BY <2>1, <3>4, <3>5
    <3> QED BY <1>5, <2>1, <3>1, <3>4, <3>5, <3>6
  <2>3. CASE ~(Got(stops) # <<>> /\ Head(Got(stops)) = Token("echo", c))
    <3>1. StripEcho(Got(stops), c) = Got(stops)
      BY <2>3 DEF StripEcho
    <3> QED BY <1>5, <2>1, <3>1
  <2> QED BY <2>2, <2>3
<1>7. \A n \in DOMAIN Got(stops) : \E j \in DOMAIN held : Got(stops)[n] = held[j]
  <2>1. \A n \in 1..(i - 1) : n \in 1..Len(held)
    BY <1>2, <1>3
  <2> QED BY <1>2, <1>5, <2>1
<1> QED BY <1>3, <1>4, <1>6, <1>7

(* Every kind of line an answer has, short of the prompt that ends it.      *)
LEMMA KindsApart == Said \cap Answer = {} /\ Said \cap AnyHash = {} /\ "error" \in Said
BY DEF Said, Answer, AnyHash

(* One command in flight and nothing else: the device answers it, and the   *)
(* prompt is the last of the answer; or it closes the session.              *)
LEMMA DeviceInStep ==
  ASSUME Typed, NEW c \in Commands, NEW stops, stops \cap Said = {}, Awaiting(c, stops),
         DeviceNudged \/ DeviceAnswers \/ DeviceCloses \/ StrangerAnswers
  PROVE  /\ inbox = <<c>> /\ wire = <<>> /\ held = <<>> /\ held' = <<>>
         /\ \/ inbox' = inbox /\ wire' = <<>> /\ UNCHANGED <<switch, complaints>>
            \/ /\ inbox' = <<>> /\ Awaiting(c, stops)'
               /\ \/ /\ device \in Switches /\ Takes(c)
                     /\ Errors(wire') = IF Accepted(c) THEN {} ELSE {c}
                     /\ \A t : t.kind = "echo" /\ t # Token("echo", c) => NoneOf(wire', t)
                     /\ \A k : k \notin Said /\ k # PromptIn(mode').kind => ~HasKind(wire', k)
                  \/ /\ device \notin Switches /\ HasKind(wire', "complaint")
<1>1. /\ inbox # <<>>
      /\ inbox' = Tail(inbox) \/ inbox' = inbox
      /\ UNCHANGED held
  BY DeviceTakes DEF terminal
<1>2. inbox = <<c>> /\ wire = <<>> /\ held = <<>>
  BY <1>1 DEF Awaiting
<1>3. Head(inbox) = c /\ Tail(inbox) = <<>> /\ c # Nudge
  BY <1>2, ShowsAreNoNudges
<1>4. CASE DeviceNudged
  BY <1>3, <1>4 DEF DeviceNudged
<1>5. CASE DeviceCloses
  BY <1>1, <1>2, <1>5 DEF DeviceCloses
<1>6. CASE DeviceAnswers
  <2> DEFINE e == <<Token("echo", c)>>
             y == Printed(c)
             z == <<PromptIn(mode')>>
             n == Len(y)
  <2>1. /\ device \in Switches /\ Takes(c) /\ inbox' = <<>>
        /\ wire' = <<>> \o (e \o y \o z)
    BY <1>2, <1>3, <1>6 DEF DeviceAnswers, Answers, Printed
  <2>2. y \in Seq(Tokens) /\ e \in Seq(Tokens) /\ z \in Seq(Tokens) /\ Len(e) = 1 /\ Len(z) = 1
        /\ e[1] = Token("echo", c) /\ z[1] = PromptIn(mode')
    BY PrintedTyped, EchoTyped, PromptInTyped, StreamsKnown
  <2>3. /\ \A i \in 1..n : y[i].of = c /\ y[i].kind \in Said \ {"echo"}
        /\ Errors(y) = IF Accepted(c) THEN {} ELSE {c}
    <3>1. DOMAIN y = 1..n /\ n \in Nat
      BY <2>2
    <3>2. \A i \in 1..n : y[i].of = c /\ y[i].kind \in TrueKinds \cup {"error"}
      BY <3>1, PrintedTyped
    <3>3. TrueKinds \cup {"error"} \subseteq Said \ {"echo"} /\ "error" \notin TrueKinds
      BY DEF TrueKinds, Said
    <3>4. CASE Accepted(c)
      <4>1. \A i \in 1..n : y[i].kind \in TrueKinds
        BY <3>1, <3>4, PrintedTyped
      <4> QED BY <3>1, <3>2, <3>3, <3>4, <4>1 DEF Errors
    <3>5. CASE ~Accepted(c)
      <4>1. y = <<Token("error", c)>>
        BY <3>5, PrintedTyped
      <4>2. DOMAIN y = {1} /\ y[1].kind = "error" /\ y[1].of = c
        BY <4>1 DEF Token
      <4>3. Errors(y) = {c}
        BY <4>2 DEF Errors
      <4> QED BY <3>2, <3>3, <3>5, <4>3
    <3> QED BY <3>4, <3>5
  <2>4. PromptIn(mode').kind \notin Said
    BY StreamsKnown, PromptTyped DEF PromptIn, Prompt, Token, Said
  <2> HIDE DEF e, y, z, n
  <2>5. /\ n \in Nat /\ DOMAIN wire' = 1..(n + 2) /\ Len(wire') = n + 2
        /\ wire'[1] = Token("echo", c) /\ wire'[n + 2] = PromptIn(mode')
        /\ \A i \in 2..(n + 1) : wire'[i] = y[i - 1]
    <3>1. /\ e \o y \in Seq(Tokens) /\ Len(e \o y) = n + 1 /\ n \in Nat
          /\ (e \o y)[1] = Token("echo", c)
          /\ \A i \in 2..(n + 1) : (e \o y)[i] = y[i - 1]
      <4>1. /\ e \o y \in Seq(Tokens) /\ Len(e \o y) = Len(e) + Len(y) /\ Len(y) \in Nat
            /\ \A i \in 1..(Len(e) + Len(y)) :
                  (e \o y)[i] = IF i <= Len(e) THEN e[i] ELSE y[i - Len(e)]
        <5>1. e \in Seq(Tokens) /\ y \in Seq(Tokens)
          BY <2>2
        <5> QED BY <5>1, ConcatProperties
      <4>2. 1 \in 1..(1 + Len(y)) /\ \A i \in 2..(Len(y) + 1) : i \in 1..(1 + Len(y)) /\ ~(i <= 1)
        BY <4>1
      <4>3. 1 + Len(y) = Len(y) + 1
        BY <4>1
      <4> QED BY <2>2, <4>1, <4>2, <4>3 DEF n
    <3>2. /\ (e \o y) \o z \in Seq(Tokens) /\ Len((e \o y) \o z) = Len(e \o y) + Len(z)
          /\ \A i \in 1..(Len(e \o y) + Len(z)) :
                ((e \o y) \o z)[i] = IF i <= Len(e \o y) THEN (e \o y)[i] ELSE z[i - Len(e \o y)]
      <4>1. e \o y \in Seq(Tokens) /\ z \in Seq(Tokens)
        BY <2>2, <3>1
      <4> QED BY <4>1, ConcatProperties
    <3>3. wire' = (e \o y) \o z
      BY <2>1, <3>2
    <3>4. Len(wire') = n + 2
      BY <2>2, <3>1, <3>2, <3>3
    <3>5. \A i \in 1..(n + 2) : wire'[i] = IF i <= n + 1 THEN (e \o y)[i] ELSE z[i - (n + 1)]
      BY <2>2, <3>1, <3>2, <3>3
    <3>6. 1 \in 1..(n + 2) /\ 1 <= n + 1 /\ n + 2 \in 1..(n + 2) /\ ~(n + 2 <= n + 1)
          /\ (n + 2) - (n + 1) = 1 /\ \A i \in 2..(n + 1) : i \in 1..(n + 2) /\ i <= n + 1
      BY <3>1
    <3>7. wire'[1] = Token("echo", c)
      BY <3>1, <3>5, <3>6
    <3>8. wire'[n + 2] = PromptIn(mode')
      BY <2>2, <3>5, <3>6
    <3>9. \A i \in 2..(n + 1) : wire'[i] = y[i - 1]
      BY <3>1, <3>5, <3>6
    <3>10. DOMAIN wire' = 1..(n + 2)
      BY <3>2, <3>3, <3>4
    <3> QED BY <3>1, <3>4, <3>7, <3>8, <3>9, <3>10
  <2>6. \A i \in 1..(n + 2) : i = 1 \/ i = n + 2 \/ (i \in 2..(n + 1) /\ i - 1 \in 1..n)
    BY <2>5
  <2>7. LastOf(wire', stops)
    <3> SUFFICES ASSUME NEW i \in 1..(n + 2), wire'[i].kind \in stops
                 PROVE  i = n + 2
      BY <2>5 DEF LastOf
    <3>1. Token("echo", c).kind \in Said
      BY DEF Token, Said
    <3> QED BY <2>3, <2>5, <2>6, <3>1
  <2>8. Awaiting(c, stops)'
    BY <1>1, <1>2, <2>1, <2>7 DEF Awaiting, Coming, LastOf
  <2>9. Errors(wire') = Errors(y)
    <3>1. \A s, x : x \in Errors(s) <=> \E i \in DOMAIN s : s[i].kind = "error" /\ x = s[i].of
      BY DEF Errors
    <3>2. DOMAIN y = 1..n /\ \A i \in 1..n : i + 1 \in 2..(n + 1) /\ (i + 1) - 1 = i /\ i + 1 \in 1..(n + 2)
      BY <2>2, <2>5 DEF n
    <3>3. Token("echo", c).kind # "error" /\ PromptIn(mode').kind # "error"
      BY <2>4, KindsApart DEF Token
    <3>4. ASSUME NEW x, x \in Errors(wire')
          PROVE  x \in Errors(y)
      <4>1. PICK i \in 1..(n + 2) : wire'[i].kind = "error" /\ x = wire'[i].of
        BY <2>5, <3>1, <3>4
      <4>2. i # 1 /\ i # n + 2
        BY <2>5, <3>3, <4>1
      <4>3. i \in 2..(n + 1) /\ i - 1 \in 1..n
        BY <2>6, <4>2
      <4> QED BY <2>5, <3>1, <3>2, <4>1, <4>3
    <3>5. ASSUME NEW x, x \in Errors(y)
          PROVE  x \in Errors(wire')
      <4>0. PICK i \in DOMAIN y : y[i].kind = "error" /\ x = y[i].of
        BY <3>1, <3>5
      <4>1. i \in 1..n /\ y[i].kind = "error" /\ x = y[i].of
        BY <3>2, <4>0
      <4>2. wire'[i + 1] = y[i]
        BY <2>5, <3>2
      <4> QED BY <2>5, <3>1, <3>2, <4>1, <4>2
    <3> QED BY <3>4, <3>5
  <2>10. ASSUME NEW t, t.kind = "echo", t # Token("echo", c)
         PROVE  NoneOf(wire', t)
    <3> SUFFICES ASSUME NEW i \in 1..(n + 2), wire'[i] = t
                 PROVE  FALSE
      BY <2>5 DEF NoneOf
    <3>1. "echo" \in Said
      BY DEF Said
    <3> QED BY <2>3, <2>4, <2>5, <2>6, <2>10, <3>1
  <2>11. ASSUME NEW k, k \notin Said, k # PromptIn(mode').kind
         PROVE  ~HasKind(wire', k)
    <3> SUFFICES ASSUME NEW i \in 1..(n + 2), wire'[i].kind = k
                 PROVE  FALSE
      BY <2>5 DEF HasKind
    <3>1. Token("echo", c).kind \in Said
      BY DEF Token, Said
    <3> QED BY <2>3, <2>5, <2>6, <2>11, <3>1
  <2> QED BY <1>1, <1>2, <2>1, <2>3, <2>8, <2>9, <2>10, <2>11
<1>7. CASE StrangerAnswers
  <2> DEFINE reply == <<Token("echo", c), Token("complaint", c), Prompt(device)>>
  <2>1. device \notin Switches /\ inbox' = <<>> /\ wire' = <<>> \o reply
    BY <1>2, <1>3, <1>7 DEF StrangerAnswers, Answers
  <2>2. reply \in Seq(Tokens)
    BY EchoTyped, GreetingTokens, GreetingsTyped, StreamsKnown
  <2>3. wire' = reply
    <3> HIDE DEF reply
    <3> QED BY <2>1, <2>2, ConcatProperties
  <2>4. Token("echo", c).kind \in Said /\ Token("complaint", c).kind \in Said
        /\ Token("complaint", c).kind = "complaint"
    BY DEF Token, Said
  <2>5. Len(wire') = 3 /\ wire'[1] = Token("echo", c) /\ wire'[2] = Token("complaint", c)
        /\ DOMAIN wire' = 1..3
    BY <2>3
  <2>6. LastOf(wire', stops)
    BY <2>4, <2>5 DEF LastOf
  <2>7. HasKind(wire', "complaint")
    BY <2>4, <2>5 DEF HasKind
  <2>8. Awaiting(c, stops)'
    BY <1>1, <1>2, <2>1, <2>6 DEF Awaiting, Coming, LastOf
  <2> QED BY <1>1, <1>2, <2>1, <2>7, <2>8
<1> QED BY <1>4, <1>5, <1>6, <1>7

(* The greeting ends with the one prompt a new session draws, and before    *)
(* the first nudge there is no other.                                       *)
LEMMA GreetedKept ==
  ASSUME GreetedInStep, UNCHANGED <<device, poll, prompt>>,
         \/ pc' \notin {"connected", "poll", "restore", "ready", "identify", "ask-vty", "read-vty"}
         \/ pc' \in {"identify", "ask-vty", "read-vty"} /\
              pc \in {"restore", "ready", "identify", "ask-vty", "read-vty"}
         \/ pc' \in {"restore", "ready"} /\ pc \in {"restore", "ready"} /\
              (Clean => UNCHANGED <<inbox, wire, held>>)
  PROVE  GreetedInStep'
BY DEF GreetedInStep, Clean, Quiet

LEMMA GreetedQuiet ==
  ASSUME Typed, VisitShape, GreetedInStep, QuietStep
  PROVE  GreetedInStep'
<1>1. CASE RefusesUserExec \/ IdentifyTimesOut \/ VtyTimesOut \/ AnswerTimesOut \/ SshTimesOut
  <2>1. /\ UNCHANGED <<device, poll, prompt>>
        /\ pc' \in {"done", "push", "ask-ip-ssh"}
    BY <1>1 DEF RefusesUserExec, IdentifyTimesOut, VtyTimesOut, AnswerTimesOut, SshTimesOut,
                TimesOut, Ends, Goes, far
  <2> QED BY <2>1, GreetedKept
<1>2. CASE OptionRefused \/ LoginRejected \/ ConnectFails
  <2>1. UNCHANGED <<device, poll, prompt>> /\ pc' \in {"connect", "again", "done"}
    BY <1>2 DEF OptionRefused, LoginRejected, ConnectFails, Ends, far
  <2> QED BY <2>1, GreetedKept
<1>3. CASE NoPrompt
  <2>1. UNCHANGED <<device, poll, prompt>> /\ pc' = "done"
    BY <1>3 DEF NoPrompt, Ends, far
  <2> QED BY <2>1, GreetedKept
<1>4. CASE RestoreSync
  <2>1. UNCHANGED <<device, poll, prompt, inbox, wire, held>> /\ pc = "restore" /\ pc' = "ready"
    BY <1>4 DEF RestoreSync, far, script
  <2> QED BY <2>1, GreetedKept
<1>5. CASE TurnPagingOff \/ AskVty \/ AskSsh \/ AskIpSsh
  <2>1. /\ UNCHANGED <<device, poll, prompt>>
        /\ \/ pc = "ready" /\ pc' = "identify"
           \/ pc = "ask-vty" /\ pc' = "read-vty"
           \/ pc' \in {"read-ssh", "read-ip-ssh"}
    BY <1>5 DEF TurnPagingOff, AskVty, AskSsh, AskIpSsh, Sends, Goes, script
  <2> QED BY <2>1, GreetedKept
<1>6. CASE StartPolling
  <2>1. /\ pc = "connected" /\ pc' = "poll" /\ UNCHANGED <<device, inbox, wire, poll>>
        /\ held' = <<>> /\ screen' = IF held = <<>> THEN screen ELSE held[Len(held)]
    BY <1>6 DEF StartPolling, far, script
  <2>2. held # <<>> => Len(held) \in DOMAIN held
    BY StreamsKnown
  <2>3. poll <= NudgeEvery =>
          /\ inbox' = <<>> /\ Coming({"prompt"})'
          /\ HasKind(wire', "prompt") \/ HasKind(held', "prompt") \/ screen'.kind = "prompt" =>
               PromptOf[device'] = "prompt"
          /\ screen'.kind = "prompt" => wire' = <<>>
    BY <2>1, <2>2 DEF GreetedInStep, Coming, LastOf, HasKind
  <2> QED BY <2>1, <2>3 DEF GreetedInStep
<1>7. CASE SeesPrompt
  <2>1. /\ pc = "poll" /\ pc' = "restore" /\ UNCHANGED <<device, inbox, wire, held, poll>>
        /\ prompt' = screen
    BY <1>7 DEF SeesPrompt, far, terminal
  <2> QED BY <2>1 DEF GreetedInStep, Clean, Quiet
<1>8. CASE KeepsWaiting
  <2>1. /\ pc = "poll" /\ pc' = "poll" /\ UNCHANGED <<device, wire, held, screen>>
        /\ poll' = poll + 1
        /\ inbox' = IF poll > 0 /\ poll % NudgeEvery = 0 THEN Append(inbox, Nudge) ELSE inbox
    BY <1>8 DEF KeepsWaiting, terminal
  <2>2. poll' <= NudgeEvery => poll <= NudgeEvery /\ inbox' = inbox
    <3> SUFFICES ASSUME poll + 1 <= NudgeEvery PROVE poll <= NudgeEvery /\ inbox' = inbox
      BY <2>1
    <3>1. poll \in Nat /\ NudgeEvery \in Nat \ {0} /\ poll < NudgeEvery
      BY StreamsKnown, PollsNat
    <3>2. poll % NudgeEvery = poll
      BY <3>1
    <3> QED BY <2>1, <3>1, <3>2
  <2> QED BY <2>1, <2>2 DEF GreetedInStep, Coming
<1>9. CASE Drop
  <2>1. UNCHANGED <<device, inbox, wire, held, screen, poll, prompt, pc>>
    BY <1>9 DEF Drop, terminal, script
  <2> QED BY <2>1 DEF GreetedInStep, Coming, Clean, Quiet
<1>10. CASE Arrive
  <2>1. /\ UNCHANGED <<device, inbox, poll, prompt, pc, sync>>
        /\ wire # <<>> /\ wire' = Tail(wire)
        /\ ~sync => screen' = Head(wire) /\ held' = held
    BY <1>10 DEF Arrive, script
  <2>2. CASE sync = TRUE
    <3>1. pc # "poll"
      BY <2>2 DEF VisitShape
    <3>2. /\ screen' = screen
          /\ \A stops : Coming(stops) => Coming(stops)'
          /\ \A k : HasKind(wire', k) \/ HasKind(held', k) => HasKind(wire, k) \/ HasKind(held, k)
      BY <1>10, <2>2, Arrivals
    <3>3. pc \in {"restore", "ready"} => ~Clean
      BY <2>1 DEF GreetedInStep, Quiet
    <3> QED BY <2>1, <3>1, <3>2, <3>3 DEF GreetedInStep, Clean, Quiet
  <2>3. CASE sync = FALSE
    <3>1. pc \in {"poll", "restore"}
      BY <2>3 DEF VisitShape
    <3>2. pc = "restore" => ~Clean
      BY <2>1 DEF GreetedInStep, Quiet
    <3>3. ASSUME pc = "poll", poll <= NudgeEvery
          PROVE  /\ inbox' = <<>> /\ Coming({"prompt"})'
                 /\ HasKind(wire', "prompt") \/ HasKind(held', "prompt") \/ screen'.kind = "prompt" =>
                      PromptOf[device'] = "prompt"
                 /\ screen'.kind = "prompt" => wire' = <<>>
      <4>1. /\ Len(wire) \in Nat \ {0} /\ DOMAIN wire = 1..Len(wire)
            /\ DOMAIN wire' = 1..(Len(wire) - 1) /\ Len(wire') = Len(wire) - 1
            /\ \A i \in 1..(Len(wire) - 1) : wire'[i] = wire[i + 1]
            /\ Head(wire) = wire[1] /\ (Len(wire) = 1 => wire' = <<>>)
        <5>1. wire \in Seq(Tokens)
          BY StreamsKnown
        <5> QED BY <2>1, <5>1, HeadTailProperties
      <4>2. held = <<>> /\ held' = <<>> /\ inbox = <<>> /\ inbox' = <<>> /\ screen' = wire[1]
        BY <2>1, <2>3, <3>3, <4>1 DEF GreetedInStep
      <4>3. /\ \A i \in 1..Len(wire) : wire[i].kind = "prompt" => i = Len(wire)
            /\ (\E i \in 1..Len(wire) : wire[i].kind = "prompt") => PromptOf[device] = "prompt"
        BY <3>3, <4>1 DEF GreetedInStep, Coming, LastOf, HasKind
      <4>4. LastOf(wire', {"prompt"})
        <5> DEFINE n == Len(wire)
        <5>1. /\ n \in Nat /\ DOMAIN wire' = 1..(n - 1) /\ Len(wire') = n - 1
              /\ \A i \in 1..(n - 1) : wire'[i] = wire[i + 1]
          BY <4>1
        <5>2. \A i \in 1..n : wire[i].kind = "prompt" => i = n
          BY <4>3
        <5> HIDE DEF n
        <5>3. \A i \in 1..(n - 1) : i + 1 \in 1..n /\ (i + 1 = n => i = n - 1)
          BY <5>1
        <5>4. \A i \in 1..(n - 1) : wire'[i].kind = "prompt" => i = n - 1
          BY <5>1, <5>2, <5>3, Zenon
        <5> QED BY <5>1, <5>4 DEF LastOf
      <4>5. screen'.kind = "prompt" => wire' = <<>> /\ PromptOf[device] = "prompt"
        <5>1. 1 \in 1..Len(wire)
          BY <4>1
        <5> QED BY <4>1, <4>2, <4>3, <5>1
      <4>6. HasKind(wire', "prompt") => PromptOf[device] = "prompt"
        <5>1. \A i \in 1..(Len(wire) - 1) : wire'[i] = wire[i + 1] /\ i + 1 \in 1..Len(wire)
          BY <4>1
        <5>2. ASSUME NEW i \in 1..(Len(wire) - 1), wire'[i].kind = "prompt"
              PROVE  PromptOf[device] = "prompt"
          <6>1. wire[i + 1].kind = "prompt" /\ i + 1 \in 1..Len(wire)
            BY <5>1, <5>2
          <6> QED BY <4>3, <6>1
        <5> QED BY <4>1, <5>2 DEF HasKind
      <4>7. Coming({"prompt"})' /\ ~HasKind(held', "prompt")
        BY <4>2, <4>4 DEF Coming, LastOf, HasKind
      <4> QED BY <2>1, <4>2, <4>5, <4>6, <4>7
    <3>4. pc = "poll" => held' = <<>>
      BY <2>1, <2>3 DEF GreetedInStep
    <3> QED BY <2>1, <3>1, <3>2, <3>3, <3>4 DEF GreetedInStep, Clean
  <2>4. sync \in BOOLEAN
    BY TypedParts DEF ConsoleTyped, SwitchesTyped
  <2> QED BY <2>2, <2>3, <2>4
<1> QED BY <1>1, <1>2, <1>3, <1>4, <1>5, <1>6, <1>7, <1>8, <1>9, <1>10 DEF QuietStep, ReadingPrompt

LEMMA GreetedScript ==
  ASSUME Typed, VisitShape, GreetedInStep,
         \/ Connects \/ NextSwitch \/ Identify \/ ReadVty \/ PushCommand \/ ReadAnswer
         \/ ReadSsh \/ ReadIpSsh \/ IpSshTimesOut
  PROVE  GreetedInStep'
<1>1. CASE Connects
  <2>1. pc \in Dialling /\ pc' = "connected"
    BY <1>1 DEF Connects, Connected, Dialling
  <2>2. inbox' = <<>> /\ held' = <<>> /\ screen' = Blank
    <3>1. UNCHANGED <<inbox, held, screen>>
      BY <1>1 DEF Connects, Connected, terminal
    <3> QED BY <2>1, <3>1 DEF VisitShape
  <2>3. PICK b \in Banners : /\ device' \in Device
                             /\ wire' = [i \in DOMAIN b |-> Token(b[i], NoCommand)]
                                            \o <<Prompt(device')>>
    BY <1>1, Zenon DEF Connects, Connected
  <2> DEFINE y == [i \in DOMAIN b |-> Token(b[i], NoCommand)]
             z == <<Prompt(device')>>
  <2>4. /\ y \in Seq(Tokens) /\ DOMAIN y = 1..Len(y) /\ Len(y) \in Nat
        /\ \A i \in 1..Len(y) : y[i].kind # "prompt"
    <3>1. b \in Seq({"text", "rule", "mark"}) /\ DOMAIN b = 1..Len(b) /\ Len(b) \in Nat
      BY BannersTyped
    <3>2. \A i \in 1..Len(b) : b[i] \in {"text", "rule", "mark"}
      BY <3>1
    <3>3. y = [i \in 1..Len(b) |-> Token(b[i], NoCommand)]
      BY <3>1
    <3>4. \A i \in 1..Len(b) : Token(b[i], NoCommand) \in Tokens /\ Token(b[i], NoCommand).kind # "prompt"
      BY <3>2 DEF Tokens, Greetings, Token
    <3>5. y \in Seq(Tokens) /\ Len(y) = Len(b)
      BY <3>1, <3>3, <3>4
    <3> QED BY <3>1, <3>3, <3>4, <3>5
  <2>5. z \in Seq(Tokens) /\ Len(z) = 1 /\ z[1].kind = PromptOf[device']
    BY <2>3, GreetingTokens, GreetingsTyped DEF Prompt, Token
  <2> HIDE DEF y, z
  <2>6. /\ DOMAIN wire' = 1..(Len(y) + 1) /\ Len(wire') = Len(y) + 1
        /\ \A i \in 1..(Len(y) + 1) : wire'[i].kind = "prompt" =>
             i = Len(y) + 1 /\ PromptOf[device'] = "prompt"
    <3>1. /\ y \o z \in Seq(Tokens) /\ Len(y \o z) = Len(y) + Len(z)
          /\ \A i \in 1..(Len(y) + Len(z)) :
                (y \o z)[i] = IF i <= Len(y) THEN y[i] ELSE z[i - Len(y)]
      <4>1. y \in Seq(Tokens) /\ z \in Seq(Tokens)
        BY <2>4, <2>5
      <4> QED BY <4>1, ConcatProperties
    <3>2. wire' = y \o z
      BY <2>3 DEF y, z
    <3>3. DOMAIN wire' = 1..(Len(y) + 1) /\ Len(wire') = Len(y) + 1
      BY <2>5, <3>1, <3>2
    <3>4. \A i \in 1..(Len(y) + 1) : wire'[i] = IF i <= Len(y) THEN y[i] ELSE z[i - Len(y)]
      BY <2>5, <3>1, <3>2
    <3>5. \A i \in 1..(Len(y) + 1) :
             \/ i \in 1..Len(y) /\ i <= Len(y)
             \/ i = Len(y) + 1 /\ ~(i <= Len(y)) /\ i - Len(y) = 1
      <4>1. Len(y) \in Nat
        BY <2>4
      <4> QED BY <4>1
    <3> QED BY <2>4, <2>5, <3>3, <3>4, <3>5
  <2>7. /\ LastOf(wire', {"prompt"})
        /\ HasKind(wire', "prompt") => PromptOf[device'] = "prompt"
    BY <2>6 DEF LastOf, HasKind
  <2>8. screen'.kind # "prompt"
    BY <2>2 DEF Blank, Token
  <2> QED BY <2>1, <2>2, <2>7, <2>8 DEF GreetedInStep, Coming, LastOf, HasKind
<1>2. CASE NextSwitch
  <2>1. pc' = "connect"
    BY <1>2 DEF NextSwitch, NextVisit
  <2> QED BY <2>1 DEF GreetedInStep
<1>3. CASE Identify
  <2>1. UNCHANGED <<device, poll, prompt>> /\ pc = "identify" /\ pc' \in {"done", "ask-vty", "push"}
    BY <1>3 DEF Identify, Consumes, Ends
  <2> QED BY <2>1, GreetedKept
<1>4. CASE ReadVty \/ PushCommand \/ ReadAnswer \/ ReadSsh \/ ReadIpSsh \/ IpSshTimesOut
  <2>1. pc' \in {"push", "pushed", "ask-ssh", "ask-ip-ssh", "done"}
    BY <1>4 DEF ReadVty, PushCommand, ReadAnswer, ReadSsh, ReadIpSsh, IpSshTimesOut, Goes, Ends,
                TimesOut
  <2> QED BY <2>1 DEF GreetedInStep
<1> QED BY <1>1, <1>2, <1>3, <1>4

LEMMA GreetedDevice ==
  ASSUME Typed, VisitShape, GreetedInStep,
         DeviceNudged \/ DeviceAnswers \/ DeviceCloses \/ StrangerAnswers
  PROVE  GreetedInStep'
<1>1. inbox # <<>> /\ UNCHANGED <<device, held, screen, poll, prompt, pc>>
  BY DeviceTakes DEF terminal, script
<1>2. /\ pc \in {"connected", "poll"} => ~(poll <= NudgeEvery)
      /\ pc \in {"restore", "ready"} => ~Clean
  BY <1>1 DEF GreetedInStep, Quiet
<1> QED BY <1>1, <1>2 DEF GreetedInStep, Clean

LEMMA GreetedInit == Init => GreetedInStep
BY DEF Init, ConsoleInit, GreetedInStep

LEMMA GreetedNext == Typed /\ VisitShape /\ GreetedInStep /\ [Next]_vars => GreetedInStep'
<1> SUFFICES ASSUME Typed, VisitShape, GreetedInStep, [Next]_vars PROVE GreetedInStep'
  OBVIOUS
<1>1. CASE UNCHANGED vars
  BY <1>1, NothingMoved DEF GreetedInStep, Coming, Clean, Quiet
<1>2. CASE Next
  BY <1>2, NextCases, GreetedQuiet, GreetedScript, GreetedDevice, Zenon
<1> QED BY <1>1, <1>2

LEMMA CleanStops == ASSUME Clean
                    PROVE  Stops(prompt) = Answer
BY DEF Clean, Stops, Answer

LEMMA ReadKept ==
  ASSUME ReadInStep,
         \/ pc' \notin {"identify", "ask-vty", "read-vty", "push", "pushed"}
         \/ /\ pc' = pc /\ UNCHANGED <<device, prompt, poll, withVty, readOk, current>>
            /\ UNCHANGED <<inbox, wire, held>>
  PROVE  ReadInStep'
<1>1. CASE pc' \notin {"identify", "ask-vty", "read-vty", "push", "pushed"}
  BY <1>1 DEF ReadInStep, Pushing
<1>2. CASE /\ pc' = pc /\ UNCHANGED <<device, prompt, poll, withVty, readOk, current>>
           /\ UNCHANGED <<inbox, wire, held>>
  BY <1>2 DEF ReadInStep, Awaiting, Coming, Clean, Quiet, InStepSoFar
<1> QED BY <1>1, <1>2

LEMMA AwaitingArrives ==
  ASSUME Typed, Arrive, sync = TRUE, NEW c, NEW stops, Awaiting(c, stops)
  PROVE  Awaiting(c, stops)'
<1>1. wire # <<>> /\ inbox' = inbox /\ (Coming(stops) => Coming(stops)')
  BY Arrivals
<1> QED BY <1>1 DEF Awaiting

LEMMA ReadQuiet ==
  ASSUME Typed, VisitShape, GreetedInStep, ReadInStep, QuietStep
  PROVE  ReadInStep'
<1>1. CASE RefusesUserExec \/ IdentifyTimesOut \/ AnswerTimesOut \/ SshTimesOut
           \/ OptionRefused \/ LoginRejected \/ ConnectFails \/ ReadingPrompt
           \/ AskSsh \/ AskIpSsh
  <2>1. pc' \notin {"identify", "ask-vty", "read-vty", "push", "pushed"}
    BY <1>1, Zenon DEF RefusesUserExec, IdentifyTimesOut, AnswerTimesOut, SshTimesOut,
                TimesOut, Ends, Goes, OptionRefused, LoginRejected, ConnectFails, ReadingPrompt,
                StartPolling, SeesPrompt, KeepsWaiting, NoPrompt, RestoreSync, AskSsh, AskIpSsh
  <2> QED BY <2>1, ReadKept
<1>2. CASE VtyTimesOut
  <2>1. /\ pc = "read-vty" /\ pc' = "push" /\ withVty' = withVty /\ readOk' = readOk
    BY <1>2 DEF VtyTimesOut, Goes, notes
  <2>2. withVty /\ readOk = FALSE
    BY <2>1 DEF VisitShape, Reading
  <2> QED BY <2>1, <2>2 DEF ReadInStep, InStepSoFar, Pushing
<1>3. CASE TurnPagingOff
  <2>1. /\ pc = "ready" /\ pc' = "identify" /\ UNCHANGED <<device, prompt, poll, wire, held>>
        /\ inbox' = Append(inbox, PagingOff)
    BY <1>3 DEF TurnPagingOff, Goes, Sends, script, terminal
  <2>2. Clean' => Awaiting(PagingOff, Answer)' /\ inbox' # <<>>
    BY <2>1 DEF GreetedInStep, Quiet, Clean, Awaiting
  <2> QED BY <2>1, <2>2 DEF ReadInStep, Pushing
<1>4. CASE AskVty
  <2>1. /\ pc = "ask-vty" /\ pc' = "read-vty" /\ UNCHANGED <<device, prompt, poll, wire, held>>
        /\ inbox' = Append(inbox, ShowVty)
    BY <1>4 DEF AskVty, Goes, Sends, script, terminal
  <2>2. Clean' => /\ Awaiting(ShowVty, Answer)' /\ device' \in Switches
                  /\ Listing(wire') /\ Listing(held')
    BY <2>1 DEF ReadInStep, Quiet, Clean, Awaiting, NoneOf, Listing, HasKind
  <2> QED BY <2>1, <2>2 DEF ReadInStep, Pushing
<1>5. CASE Arrive \/ Drop
  <2> SUFFICES ASSUME pc \in {"identify", "ask-vty", "read-vty", "push", "pushed"}
               PROVE  ReadInStep'
    <3>1. pc' = pc
      BY <1>5 DEF Arrive, Drop
    <3> QED BY <3>1, ReadKept
  <2>1. UNCHANGED <<device, prompt, poll, withVty, readOk, current, pc, inbox>>
    <3>1. UNCHANGED <<switch, notes, complaints>>
      BY <1>5, Zenon DEF QuietStep, RefusesUserExec, IdentifyTimesOut, VtyTimesOut, AnswerTimesOut,
               SshTimesOut, TurnPagingOff, AskVty, AskSsh, AskIpSsh
    <3> QED BY <1>5, <3>1 DEF Arrive, Drop, script, notes
  <2>2. CASE Drop
    <3>1. UNCHANGED <<wire, held>>
      BY <2>2 DEF Drop, terminal
    <3> QED BY <2>1, <3>1, ReadKept
  <2>3. CASE Arrive
    <3>1. sync = TRUE
      BY DEF VisitShape
    <3>2. /\ wire # <<>>
          /\ \A k : HasKind(wire', k) \/ HasKind(held', k) <=> HasKind(wire, k) \/ HasKind(held, k)
          /\ \A t : NoneOf(wire, t) /\ NoneOf(held, t) => NoneOf(wire', t) /\ NoneOf(held', t)
      BY <2>3, <3>1, Arrivals
    <3>3. \A c, stops : Awaiting(c, stops) => Awaiting(c, stops)'
      BY <2>3, <3>1, AwaitingArrives
    <3>4. ~Quiet
      BY <3>2 DEF Quiet
    <3>5. (Clean' <=> Clean) /\ (InStepSoFar' <=> InStepSoFar)
      BY <2>1 DEF Clean, InStepSoFar
    <3>6. CASE pc = "identify"
      BY <2>1, <3>2, <3>3, <3>5, <3>6 DEF ReadInStep, Pushing
    <3>7. CASE pc = "ask-vty" \/ pc = "push"
      BY <2>1, <3>4, <3>5, <3>7 DEF ReadInStep, Pushing
    <3>8. CASE pc = "read-vty"
      <4>1. Listing(wire) /\ Listing(held) => Listing(wire') /\ Listing(held')
        BY <3>2, Zenon DEF Listing
      <4> QED BY <2>1, <3>3, <3>5, <3>8, <4>1 DEF ReadInStep, Pushing
    <3>9. CASE pc = "pushed"
      <4>1. InStepSoFar => Awaiting(current, AnyHash)'
        <5>1. InStepSoFar => Awaiting(current, AnyHash)
          BY <3>9 DEF ReadInStep
        <5>2. inbox' = inbox /\ current' = current
          BY <2>1
        <5>3. wire # <<>> /\ (Coming(AnyHash) => Coming(AnyHash)')
          BY <2>3, <3>1, Arrivals
        <5> QED BY <5>1, <5>2, <5>3 DEF Awaiting
      <4> QED BY <2>1, <3>5, <3>9, <4>1 DEF ReadInStep, Pushing
    <3> QED BY <3>6, <3>7, <3>8, <3>9
  <2> QED BY <1>5, <2>2, <2>3
<1> QED BY <1>1, <1>2, <1>3, <1>4, <1>5 DEF QuietStep

(* The read that ends a step in step.                                       *)
LEMMA ReadAll ==
  ASSUME Typed, NEW c, NEW stops, Awaiting(c, stops), Consumes(stops)
  PROVE  /\ inbox = <<>> /\ inbox' = <<>> /\ wire = <<>> /\ wire' = <<>> /\ held' = <<>>
         /\ Coming(stops) /\ StopAt(stops) # {}
         /\ UNCHANGED <<device, prompt, poll>>
<1>1. StopAt(stops) # {} /\ UNCHANGED <<device, prompt, poll>>
  BY DEF Consumes
<1>2. held # <<>>
  BY <1>1 DEF StopAt
<1>3. inbox = <<>> /\ Coming(stops)
  BY <1>2 DEF Awaiting
<1>4. inbox' = inbox /\ wire' = <<>> /\ held' = <<>>
  BY <1>1, <1>3, ReadInFull
<1>5. wire' = wire
  BY DEF Consumes
<1> QED BY <1>1, <1>3, <1>4, <1>5

LEMMA ReadScript ==
  ASSUME Typed, VisitShape, GreetedInStep, ReadInStep,
         \/ Connects \/ NextSwitch \/ Identify \/ ReadVty \/ PushCommand \/ ReadAnswer
         \/ ReadSsh \/ ReadIpSsh \/ IpSshTimesOut
  PROVE  ReadInStep'
<1>1. CASE Connects \/ NextSwitch \/ ReadSsh \/ ReadIpSsh \/ IpSshTimesOut
  <2>1. pc' \in {"connected", "connect", "ask-ip-ssh", "done"}
    BY <1>1 DEF Connects, Connected, NextSwitch, NextVisit, ReadSsh, ReadIpSsh, IpSshTimesOut, Goes,
                Ends, TimesOut
  <2> QED BY <2>1, ReadKept
<1>2. CASE Identify
  <2> DEFINE out == StripEcho(Got(Stops(prompt)), PagingOff)
  <2>1. /\ pc = "identify" /\ Consumes(Stops(prompt)) /\ withVty' = withVty
        /\ \/ pc' = "done"
           \/ /\ ~(\E i \in DOMAIN out : out[i].kind = "complaint")
              /\ pc' = IF withVty THEN "ask-vty" ELSE "push"
    BY <1>2, Zenon DEF Identify, Ends
  <2>2. CASE pc' = "done"
    BY <2>2, ReadKept
  <2>3. CASE pc' # "done"
    <3>1. Clean' => Clean
      BY <2>1 DEF Clean, Consumes
    <3>2. ASSUME Clean
          PROVE  Quiet' /\ device' \in Switches
      <4>1. Stops(prompt) = Answer
        BY <3>2, CleanStops
      <4>2. /\ Awaiting(PagingOff, Answer)
            /\ inbox = <<>> /\ device \notin Switches =>
                 HasKind(wire, "complaint") \/ HasKind(held, "complaint")
        BY <2>1, <3>2 DEF ReadInStep
      <4>3. /\ inbox = <<>> /\ inbox' = <<>> /\ wire = <<>> /\ wire' = <<>> /\ held' = <<>>
            /\ Coming(Answer) /\ StopAt(Answer) # {} /\ device' = device
        BY <2>1, <4>1, <4>2, ReadAll
      <4>4. device \in Switches
        <5> SUFFICES ASSUME device \notin Switches PROVE FALSE
          OBVIOUS
        <5>1. PICK j \in DOMAIN held : held[j].kind = "complaint"
          BY <4>2, <4>3 DEF HasKind
        <5>2. held[j].kind \notin Answer \cup {"echo"}
          BY <5>1 DEF Answer
        <5>3. \E n \in DOMAIN out : out[n] = held[j]
          BY <4>1, <4>3, <5>2, ReadInFull
        <5> QED BY <2>1, <2>3, <5>1, <5>3
      <4> QED BY <4>3, <4>4 DEF Quiet
    <3>3. CASE pc' = "ask-vty"
      BY <3>1, <3>2, <3>3 DEF ReadInStep, Pushing
    <3>4. CASE pc' = "push"
      BY <3>1, <3>2, <3>4 DEF ReadInStep, Pushing, InStepSoFar
    <3> QED BY <2>1, <2>3, <3>3, <3>4
  <2> QED BY <2>2, <2>3
<1>3. CASE ReadVty
  <2>1. /\ pc = "read-vty" /\ pc' = "push" /\ Consumes(Stops(prompt))
    BY <1>3 DEF ReadVty, Goes
  <2>2. InStepSoFar' => Clean
    BY <2>1 DEF InStepSoFar, Clean, Consumes
  <2>3. ASSUME Clean
        PROVE  Quiet' /\ device' \in Switches
    <3>1. Stops(prompt) = Answer /\ Awaiting(ShowVty, Answer) /\ device \in Switches
      BY <2>1, <2>3, CleanStops DEF ReadInStep
    <3>2. inbox' = <<>> /\ wire' = <<>> /\ held' = <<>> /\ device' = device
      BY <2>1, <3>1, ReadAll
    <3> QED BY <3>1, <3>2 DEF Quiet
  <2> QED BY <2>1, <2>2, <2>3 DEF ReadInStep, Pushing
<1>4. CASE PushCommand
  <2>1. /\ pc = "push" /\ pc' = "pushed" /\ inbox' = Append(inbox, Head(push))
        /\ current' = Head(push)
        /\ UNCHANGED <<device, wire, held, prompt, poll, withVty, readOk>>
    BY <1>4 DEF PushCommand, Goes, Sends, script, terminal
  <2>2. (InStepSoFar' => InStepSoFar) /\ (InStepSoFar => Quiet /\ device \in Switches)
    BY <2>1 DEF InStepSoFar, Clean, ReadInStep, Pushing
  <2>3. Quiet => Awaiting(current, AnyHash)'
    BY <2>1 DEF Quiet, Awaiting
  <2> QED BY <2>1, <2>2, <2>3 DEF ReadInStep, Pushing
<1>5. CASE ReadAnswer
  <2>1. /\ pc = "pushed" /\ pc' \in {"push", "ask-ssh"} /\ Consumes(AnyHash)
        /\ UNCHANGED <<withVty, readOk>>
    BY <1>5 DEF ReadAnswer, Goes
  <2>2. InStepSoFar' => InStepSoFar
    BY <2>1 DEF InStepSoFar, Clean, Consumes
  <2>3. ASSUME InStepSoFar
        PROVE  Quiet' /\ device' \in Switches
    <3>1. Awaiting(current, AnyHash) /\ device \in Switches
      BY <2>1, <2>3 DEF ReadInStep, Pushing
    <3>2. inbox' = <<>> /\ wire' = <<>> /\ held' = <<>> /\ device' = device
      BY <2>1, <3>1, ReadAll
    <3> QED BY <3>1, <3>2 DEF Quiet
  <2> QED BY <2>1, <2>2, <2>3 DEF ReadInStep, Pushing
<1> QED BY <1>1, <1>2, <1>3, <1>4, <1>5

LEMMA ReadDevice ==
  ASSUME Typed, VisitShape, GreetedInStep, ReadInStep,
         DeviceNudged \/ DeviceAnswers \/ DeviceCloses \/ StrangerAnswers
  PROVE  ReadInStep'
<1>1. /\ inbox # <<>> /\ UNCHANGED <<device, prompt, poll, pc, withVty, readOk, current>>
  BY DeviceTakes DEF notes, script
<1>2. (Clean' <=> Clean) /\ (InStepSoFar' <=> InStepSoFar) /\ ~Quiet
  BY <1>1 DEF Clean, InStepSoFar, Quiet
<1>3. CASE pc \notin {"identify", "read-vty", "pushed"}
  BY <1>1, <1>2, <1>3 DEF ReadInStep, Pushing
<1>4. PagingOff \in Commands /\ ShowVty \in Commands /\ current \in Commands
  BY ShowsKnown, ShowsTyped, StreamsKnown
<1>5. CASE pc = "identify"
  <2> SUFFICES ASSUME Clean
               PROVE  /\ Awaiting(PagingOff, Answer)'
                      /\ inbox' = <<>> /\ device' \notin Switches => HasKind(wire', "complaint")
    BY <1>1, <1>2, <1>5 DEF ReadInStep, Pushing
  <2>1. Awaiting(PagingOff, Answer)
    BY <1>5 DEF ReadInStep
  <2>2. /\ inbox = <<PagingOff>> /\ held' = <<>>
        /\ \/ inbox' = inbox /\ wire' = <<>>
           \/ inbox' = <<>> /\ Awaiting(PagingOff, Answer)'
                /\ (device \in Switches \/ HasKind(wire', "complaint"))
    BY <1>4, <2>1, KindsApart, DeviceInStep
  <2>3. inbox # <<>>
    BY <2>2
  <2> QED BY <1>1, <2>2, <2>3 DEF Awaiting
<1>6. CASE pc = "read-vty"
  <2> SUFFICES ASSUME Clean
               PROVE  /\ Awaiting(ShowVty, Answer)'
                      /\ Listing(wire') /\ Listing(held')
    BY <1>1, <1>2, <1>6 DEF ReadInStep, Pushing
  <2>1. Awaiting(ShowVty, Answer) /\ device \in Switches
    BY <1>6 DEF ReadInStep
  <2>2. Token("echo", PagingOff).kind = "echo" /\ Token("echo", PagingOff) # Token("echo", ShowVty)
    BY ShowsDiffer DEF Token
  <2>3. /\ inbox = <<ShowVty>> /\ held' = <<>>
        /\ \/ inbox' = inbox /\ wire' = <<>>
           \/ /\ inbox' = <<>> /\ Awaiting(ShowVty, Answer)'
              /\ NoneOf(wire', Token("echo", PagingOff))
              /\ \A k : k \notin Said /\ k # PromptIn(mode').kind => ~HasKind(wire', k)
    BY <1>4, <2>1, <2>2, KindsApart, DeviceInStep
  <2>4. PromptIn(mode').kind = "prompt"
    <3>1. pc' \in Reading /\ VisitShape'
      BY <1>1, <1>6, DeviceShape DEF Reading
    <3>2. mode' = "exec"
      BY <3>1 DEF VisitShape
    <3>3. PromptOf[device] = "prompt"
      BY <1>6 DEF GreetedInStep
    <3> QED BY <3>2, <3>3 DEF PromptIn, Prompt, Token
  <2>5. "user" \notin Said /\ "config" \notin Said /\ "text" \notin Said
    BY DEF Said
  <2>6. Listing(<<>>)
    BY DEF Listing, NoneOf, HasKind
  <2>7. inbox' = inbox \/ Listing(wire')
    BY <2>3, <2>4, <2>5 DEF Listing
  <2> QED BY <2>3, <2>6, <2>7 DEF Awaiting
<1>7. CASE pc = "pushed"
  <2> SUFFICES ASSUME InStepSoFar
               PROVE  Awaiting(current, AnyHash)'
    BY <1>1, <1>2, <1>7 DEF ReadInStep, Pushing
  <2>1. Awaiting(current, AnyHash)
    BY <1>7 DEF ReadInStep
  <2> DEFINE c == current
  <2>2. c \in Commands /\ Awaiting(c, AnyHash) /\ current' = c
    BY <1>1, <1>4, <2>1
  <2> HIDE DEF c
  <2>3. /\ inbox = <<c>> /\ held' = <<>>
        /\ \/ inbox' = inbox /\ wire' = <<>>
           \/ inbox' = <<>> /\ ((inbox' = <<c>> /\ wire' = <<>> /\ held' = <<>>) \/ Coming(AnyHash)')
    BY <2>2, KindsApart, DeviceInStep DEF Awaiting
  <2> QED BY <2>2, <2>3 DEF Awaiting
<1> QED BY <1>3, <1>5, <1>6, <1>7

LEMMA ReadInit == Init => ReadInStep
BY DEF Init, ConsoleInit, ReadInStep, Pushing

LEMMA ReadNext ==
  Typed /\ VisitShape /\ GreetedInStep /\ ReadInStep /\ [Next]_vars => ReadInStep'
<1> SUFFICES ASSUME Typed, VisitShape, GreetedInStep, ReadInStep, [Next]_vars PROVE ReadInStep'
  OBVIOUS
<1>1. CASE UNCHANGED vars
  BY <1>1, NothingMoved, ReadKept
<1>2. CASE Next
  BY <1>2, NextCases, ReadQuiet, ReadScript, ReadDevice, Zenon
<1> QED BY <1>1, <1>2

(* `end' leaves the switch at EXEC, whether it takes it or is there already. *)
LEMMA EndTaken ==
  ASSUME SwitchTyped, device \in Switches, Takes(Cmd("end"))
  PROVE  mode' = "exec"
<1>1. Cmd("end").verb = "end" /\ Cmd("end") \notin Rejects[device]
  <2>1. Cmd("end").verb = "end"
    BY DEF Cmd
  <2> QED BY <2>1, RejectsTyped
<1>2. Cmd("end") \notin Shows
  BY DEF Cmd, Shows, PagingOff, ShowVty, ShowSsh, ShowIpSsh
<1>3. Accepted(Cmd("end")) <=> mode # "exec"
  BY <1>1, <1>2 DEF Accepted, InConfig
<1>4. ModeAfter(Cmd("end")) = "exec"
  BY <1>1, <1>2 DEF ModeAfter
<1> QED BY <1>3, <1>4 DEF Takes

(* Show commands at EXEC change nothing and draw no complaint.              *)
LEMMA ShowsAnswered ==
  ASSUME Typed, OnlyShows(inbox), mode = "exec", device \in Switches,
         DeviceNudged \/ DeviceAnswers \/ DeviceCloses \/ StrangerAnswers
  PROVE  /\ OnlyShows(inbox') /\ mode' = "exec"
         /\ complaints' = complaints /\ transport' = transport
<1>1. /\ inbox # <<>> /\ (inbox' = Tail(inbox) \/ (inbox' = inbox /\ UNCHANGED switch))
      /\ inbox \in Seq(Commands \cup {Nudge}) /\ SwitchTyped
  BY DeviceTakes, StreamsKnown, TypedParts
<1>2. OnlyShows(inbox')
  BY <1>1 DEF OnlyShows
<1>3. CASE DeviceAnswers
  <2>1. Head(inbox) # Nudge /\ Takes(Head(inbox))
    BY <1>3 DEF DeviceAnswers
  <2>2. Head(inbox) \in Shows
    BY <1>1, <2>1 DEF OnlyShows
  <2> QED BY <1>1, <1>2, <2>1, <2>2, ShowTaken
<1>4. CASE DeviceNudged \/ DeviceCloses \/ StrangerAnswers
  BY <1>2, <1>4 DEF DeviceNudged, DeviceCloses, StrangerAnswers, switch
<1> QED BY <1>3, <1>4

LEMMA LastIsEnd ==
  ASSUME NEW x \in Seq(Commands)
  PROVE  LET y == x \o <<Cmd("end")>> IN y # <<>> /\ y[Len(y)] = Cmd("end")
<1> DEFINE z == <<Cmd("end")>>
<1>1. z \in Seq(Commands) /\ Len(z) = 1 /\ z[1] = Cmd("end")
  BY EndTyped
<1> HIDE DEF z
<1>2. z \in Seq(Commands)
  BY <1>1
<1>3. /\ x \o z \in Seq(Commands) /\ Len(x \o z) = Len(x) + Len(z) /\ Len(x) \in Nat
      /\ \A i \in 1..(Len(x) + Len(z)) : (x \o z)[i] = IF i <= Len(x) THEN x[i] ELSE z[i - Len(x)]
  BY <1>2, ConcatProperties
<1>4. Len(x) + 1 \in 1..(Len(x) + 1) /\ ~(Len(x) + 1 <= Len(x)) /\ (Len(x) + 1) - Len(x) = 1
  BY <1>3
<1>5. (x \o z)[Len(x \o z)] = Cmd("end") /\ Len(x \o z) # 0
  BY <1>1, <1>3, <1>4
<1>6. x \o z # <<>>
  BY <1>3, <1>5
<1> QED BY <1>5, <1>6 DEF z

LEMMA EndsQuiet ==
  ASSUME Typed, VisitShape, ReadInStep, EndsWithEnd, QuietStep
  PROVE  EndsWithEnd'
<1>0. UNCHANGED <<switch, notes, complaints>>
  BY Zenon DEF QuietStep, RefusesUserExec, IdentifyTimesOut, VtyTimesOut, AnswerTimesOut,
               SshTimesOut, TurnPagingOff, AskVty, AskSsh, AskIpSsh
<1>1. UNCHANGED <<mode, push, current, row, withVty, readOk>>
  BY <1>0 DEF switch, notes
<1>2. CASE RefusesUserExec \/ IdentifyTimesOut \/ AnswerTimesOut
           \/ OptionRefused \/ LoginRejected \/ ConnectFails \/ ReadingPrompt \/ TurnPagingOff
  <2>1. /\ pc # "done"
        /\ pc' \in {"done", "connect", "again", "poll", "restore", "ready", "identify"}
    BY <1>2, Zenon DEF RefusesUserExec, IdentifyTimesOut, AnswerTimesOut,
                TimesOut, Ends, Goes, OptionRefused, LoginRejected, ConnectFails, ReadingPrompt,
                StartPolling, SeesPrompt, KeepsWaiting, NoPrompt, RestoreSync, TurnPagingOff
  <2>2. row'.outcome = "none"
    BY <1>1, <2>1 DEF VisitShape, NoRow
  <2> QED BY <2>1, <2>2 DEF EndsWithEnd, Pushing, Checking
<1>3. CASE VtyTimesOut
  <2>1. pc = "read-vty" /\ pc' = "push"
    BY <1>3 DEF VtyTimesOut, Goes
  <2> QED BY <1>1, <2>1 DEF EndsWithEnd, Pushing, Checking
<1>4. CASE AskVty
  <2>1. pc = "ask-vty" /\ pc' = "read-vty"
    BY <1>4 DEF AskVty, Goes
  <2> QED BY <1>1, <2>1 DEF EndsWithEnd, Pushing, Checking
<1>5. CASE SshTimesOut \/ AskSsh \/ AskIpSsh
  <2>1. /\ pc \in Checking /\ pc' \in Checking /\ UNCHANGED <<device, prompt, poll>>
        /\ inbox' = inbox \/ \E c \in Shows : inbox' = Append(inbox, c)
    BY <1>5, ShowsKnown DEF SshTimesOut, AskSsh, AskIpSsh, Goes, Sends, Checking, far, script
  <2>2. OnlyShows(inbox) => OnlyShows(inbox')
    <3>1. CASE inbox' = inbox
      BY <3>1
    <3>2. ASSUME NEW c \in Shows, inbox' = Append(inbox, c)
          PROVE  OnlyShows(inbox) => OnlyShows(inbox')
      <4>1. /\ inbox \in Seq(Commands \cup {Nudge}) /\ c \in Commands \cup {Nudge}
        BY StreamsKnown, ShowsTyped
      <4>2. /\ Len(inbox) \in Nat /\ DOMAIN inbox = 1..Len(inbox)
            /\ DOMAIN inbox' = 1..(Len(inbox) + 1) /\ inbox'[Len(inbox) + 1] = c
            /\ \A i \in 1..Len(inbox) : inbox'[i] = inbox[i]
        BY <3>2, <4>1, AppendProperties
      <4>3. \A i \in 1..(Len(inbox) + 1) : i \in 1..Len(inbox) \/ i = Len(inbox) + 1
        BY <4>2
      <4> QED BY <4>2, <4>3 DEF OnlyShows
    <3> QED BY <2>1, <3>1, <3>2
  <2> QED BY <1>1, <2>1, <2>2 DEF EndsWithEnd, Pushing, Checking, InStepSoFar, Clean
<1>6. CASE Arrive \/ Drop
  <2>1. UNCHANGED <<device, prompt, poll, inbox, pc>>
    BY <1>6 DEF Arrive, Drop, script
  <2> QED BY <1>1, <2>1 DEF EndsWithEnd, InStepSoFar, Clean
<1> QED BY <1>2, <1>3, <1>4, <1>5, <1>6 DEF QuietStep

LEMMA EndsScript ==
  ASSUME Typed, VisitShape, ReadInStep, EndsWithEnd,
         \/ Connects \/ NextSwitch \/ Identify \/ ReadVty \/ PushCommand \/ ReadAnswer
         \/ ReadSsh \/ ReadIpSsh \/ IpSshTimesOut
  PROVE  EndsWithEnd'
<1>1. CASE Connects \/ NextSwitch
  <2>1. pc' \in {"connected", "connect"}
    BY <1>1 DEF Connects, Connected, NextSwitch, NextVisit
  <2> QED BY <2>1 DEF EndsWithEnd, Pushing, Checking
<1>2. CASE Identify
  <2>1. /\ pc = "identify" /\ row' = row
        /\ \/ pc' = "done"
           \/ /\ pc' \in {"ask-vty", "push"}
              /\ push' = (<<Cmd("configure-terminal")>> \o BaseCommands) \o <<Cmd("end")>>
    BY <1>2, Zenon DEF Identify, Ends
  <2>2. row'.outcome = "none"
    BY <2>1 DEF VisitShape, NoRow
  <2>3. <<Cmd("configure-terminal")>> \o BaseCommands \in Seq(Commands)
    <3>1. <<Cmd("configure-terminal")>> \in Seq(Commands)
      BY VerbsKnown, CmdTyped
    <3> QED BY <3>1, BaseTyped, ConcatProperties
  <2>4. pc' # "done" => push' # <<>> /\ push'[Len(push')] = Cmd("end")
    BY <2>1, <2>3, LastIsEnd
  <2> QED BY <2>1, <2>2, <2>4 DEF EndsWithEnd, Pushing, Checking
<1>3. CASE ReadVty
  <2>1. /\ pc = "read-vty" /\ pc' = "push"
        /\ \/ push' = push
           \/ \E top : push' = (SubSeq(push, 1, Len(push) - 1) \o VtyFixes(top)) \o <<Cmd("end")>>
                         /\ top \in Nat
    <3> DEFINE numbers == NumbersIn(StripEcho(VtyText, ShowVty))
               top == IF numbers = {} THEN 4 ELSE CHOOSE n \in numbers : \A m \in numbers : m <= n
    <3>1. /\ pc = "read-vty" /\ pc' = "push" /\ highest' = top
          /\ push' = IF numbers = {} THEN push
                     ELSE SubSeq(push, 1, Len(push) - 1) \o VtyFixes(top) \o <<Cmd("end")>>
      BY <1>3 DEF ReadVty, Goes
    <3>2. highest' \in Nat
      BY <1>3, ReadVtyTyped DEF Typed, TypeOK
    <3> QED BY <3>1, <3>2
  <2>2. push # <<>> /\ push[Len(push)] = Cmd("end")
    BY <2>1 DEF EndsWithEnd, Pushing
  <2>3. ASSUME NEW top \in Nat
        PROVE  SubSeq(push, 1, Len(push) - 1) \o VtyFixes(top) \in Seq(Commands)
    <3>1. SubSeq(push, 1, Len(push) - 1) \in Seq(Commands)
      BY <2>2, StreamsKnown
    <3> QED BY <3>1, FixesTyped, ConcatProperties
  <2>4. push' # <<>> /\ push'[Len(push')] = Cmd("end")
    BY <2>1, <2>2, <2>3, LastIsEnd
  <2> QED BY <2>1, <2>4 DEF EndsWithEnd, Pushing, Checking
<1>4. CASE PushCommand
  <2>1. /\ pc = "push" /\ pc' = "pushed" /\ push # <<>> /\ inbox' = Append(inbox, Head(push))
        /\ current' = Head(push) /\ push' = Tail(push)
    BY <1>4 DEF PushCommand, Goes, Sends
  <2>2. push[Len(push)] = Cmd("end") /\ Len(push) \in Nat \ {0}
    BY <2>1, StreamsKnown DEF EndsWithEnd, Pushing
  <2>3. /\ push' # <<>> => push'[Len(push')] = Cmd("end")
        /\ push' = <<>> => current' = Cmd("end")
    <3>1. push \in Seq(Commands)
      BY StreamsKnown
    <3>2. /\ Head(push) = push[1] /\ Len(Tail(push)) = Len(push) - 1
          /\ \A i \in 1..(Len(push) - 1) : Tail(push)[i] = push[i + 1]
      BY <2>1, <3>1
    <3>3. ASSUME Tail(push) # <<>>
          PROVE  Tail(push)[Len(Tail(push))] = Cmd("end")
      <4>1. Len(push) - 1 \in 1..(Len(push) - 1) /\ (Len(push) - 1) + 1 = Len(push)
        BY <2>2, <3>1, <3>2, <3>3
      <4> QED BY <2>2, <3>2, <4>1
    <3>4. Tail(push) = <<>> => Len(push) = 1
      BY <2>2, <3>2
    <3> QED BY <2>1, <2>2, <3>2, <3>3, <3>4
  <2>4. inbox' # <<>>
    <3>1. inbox \in Seq(Commands \cup {Nudge}) /\ Head(push) \in Commands \cup {Nudge}
      BY <2>1, StreamsKnown
    <3> QED BY <2>1, <3>1, AppendProperties
  <2> QED BY <2>1, <2>3, <2>4 DEF EndsWithEnd, Pushing, Checking
<1>5. CASE ReadAnswer
  <2>1. /\ pc = "pushed" /\ pc' = IF push = <<>> THEN "ask-ssh" ELSE "push"
        /\ Consumes(AnyHash)
        /\ UNCHANGED <<withVty, readOk, push, mode>>
    BY <1>5 DEF ReadAnswer, Goes, switch
  <2>2. InStepSoFar' => InStepSoFar
    BY <2>1 DEF InStepSoFar, Clean, Consumes
  <2>3. CASE push # <<>>
    <3>1. push' # <<>> /\ push'[Len(push')] = Cmd("end")
      BY <2>1, <2>3 DEF EndsWithEnd, Pushing
    <3> QED BY <2>1, <2>3, <3>1 DEF EndsWithEnd, Pushing, Checking
  <2>4. CASE push = <<>>
    <3>1. ASSUME InStepSoFar
          PROVE  device' \in Switches /\ mode' = "exec" /\ OnlyShows(inbox')
      <4>1. Awaiting(current, AnyHash) /\ device \in Switches
        BY <2>1, <3>1 DEF ReadInStep, Pushing
      <4>2. inbox = <<>> /\ inbox' = <<>> /\ device' = device
        BY <2>1, <4>1, ReadAll
      <4>3. mode = "exec"
        BY <2>1, <2>4, <3>1, <4>2 DEF EndsWithEnd
      <4> QED BY <2>1, <4>1, <4>2, <4>3 DEF OnlyShows
    <3> QED BY <2>1, <2>2, <2>4, <3>1 DEF EndsWithEnd, Pushing, Checking
  <2> QED BY <2>3, <2>4
<1>6. CASE ReadSsh \/ ReadIpSsh \/ IpSshTimesOut
  <2>1. /\ pc \in Checking /\ pc' \in {"ask-ip-ssh", "done"}
        /\ UNCHANGED <<device, prompt, poll, withVty, readOk, mode, inbox>>
    BY <1>6 DEF ReadSsh, ReadIpSsh, IpSshTimesOut, Goes, Ends, TimesOut, Consumes, Checking, far,
                switch
  <2> QED BY <2>1 DEF EndsWithEnd, Pushing, Checking, InStepSoFar, Clean
<1> QED BY <1>1, <1>2, <1>3, <1>4, <1>5, <1>6

LEMMA EndsDevice ==
  ASSUME Typed, VisitShape, ReadInStep, EndsWithEnd,
         DeviceNudged \/ DeviceAnswers \/ DeviceCloses \/ StrangerAnswers
  PROVE  EndsWithEnd'
<1>1. /\ inbox # <<>>
      /\ UNCHANGED <<device, prompt, poll, pc, withVty, readOk, current, push, row>>
  BY DeviceTakes DEF notes, script
<1>2. InStepSoFar' <=> InStepSoFar
  BY <1>1 DEF Clean, InStepSoFar
<1>3. ASSUME pc = "pushed", push = <<>>, InStepSoFar, inbox' = <<>>
      PROVE  mode' = "exec"
  <2>1. current = Cmd("end") /\ Awaiting(Cmd("end"), AnyHash) /\ device \in Switches
    BY <1>3 DEF EndsWithEnd, ReadInStep, Pushing
  <2>2. Cmd("end") \in Commands
    BY <2>1, StreamsKnown
  <2>3. inbox = <<Cmd("end")>> /\ (inbox' = inbox \/ Takes(Cmd("end")))
    BY <2>1, <2>2, KindsApart, DeviceInStep
  <2>4. SwitchTyped
    BY TypedParts
  <2> QED BY <1>1, <1>3, <2>1, <2>3, <2>4, EndTaken
<1>4. ASSUME device \in Switches, mode = "exec", OnlyShows(inbox)
      PROVE  mode' = "exec" /\ OnlyShows(inbox')
  BY <1>4, ShowsAnswered
<1> QED BY <1>1, <1>2, <1>3, <1>4 DEF EndsWithEnd

LEMMA EndsInit == Init => EndsWithEnd
BY DEF Init, ConsoleInit, EndsWithEnd, Pushing, Checking

LEMMA EndsNext == Typed /\ VisitShape /\ ReadInStep /\ EndsWithEnd /\ [Next]_vars => EndsWithEnd'
<1> SUFFICES ASSUME Typed, VisitShape, ReadInStep, EndsWithEnd, [Next]_vars PROVE EndsWithEnd'
  OBVIOUS
<1>1. CASE UNCHANGED vars
  BY <1>1, NothingMoved DEF EndsWithEnd, InStepSoFar, Clean
<1>2. CASE Next
  BY <1>2, NextCases, EndsQuiet, EndsScript, EndsDevice, Zenon
<1> QED BY <1>1, <1>2

LEMMA BesideNone ==
  /\ Beside(<<>>) = <<>> /\ Errors(<<>>) = {}
  /\ complaints \in Seq(Commands) => (Beside(complaints) = <<>> <=> complaints = <<>>)
<1>1. Beside(<<>>) = <<>> /\ Errors(<<>>) = {}
  BY DEF Beside, Errors
<1>2. ASSUME complaints \in Seq(Commands), Beside(complaints) = <<>>
      PROVE  complaints = <<>>
  <2>1. DOMAIN Beside(complaints) = DOMAIN complaints
    BY DEF Beside
  <2> QED BY <1>2, <2>1
<1> QED BY <1>1, <1>2

LEMMA BesideOneMore ==
  ASSUME NEW cs \in Seq(Commands), NEW c \in Commands
  PROVE  Beside(Append(cs, c)) = Append(Beside(cs), <<c, c>>)
<1> DEFINE n == Len(cs)
           x == Append(cs, c)
           P == Commands \X Commands
<1>1. /\ n \in Nat /\ DOMAIN cs = 1..n /\ DOMAIN x = 1..(n + 1)
      /\ \A i \in 1..n : x[i] = cs[i]
      /\ x[n + 1] = c
  BY AppendProperties
<1>2. /\ Beside(cs) \in Seq(P) /\ Len(Beside(cs)) = n
      /\ \A i \in 1..n : Beside(cs)[i] = <<cs[i], cs[i]>>
  <2>1. Beside(cs) = [i \in 1..n |-> <<cs[i], cs[i]>>]
    BY <1>1 DEF Beside
  <2>2. \A i \in 1..n : <<cs[i], cs[i]>> \in P
    BY <1>1
  <2> QED BY <1>1, <2>1, <2>2
<1> HIDE DEF n, x
<1>3. /\ Append(Beside(cs), <<c, c>>) \in Seq(P)
      /\ Len(Append(Beside(cs), <<c, c>>)) = n + 1
      /\ \A i \in 1..n : Append(Beside(cs), <<c, c>>)[i] = Beside(cs)[i]
      /\ Append(Beside(cs), <<c, c>>)[n + 1] = <<c, c>>
  <2>1. <<c, c>> \in P
    OBVIOUS
  <2> QED BY <1>2, <2>1, AppendProperties
<1>4. Beside(x) = [i \in 1..(n + 1) |-> <<x[i], x[i]>>]
  BY <1>1 DEF Beside
<1>5. Append(Beside(cs), <<c, c>>) = [i \in 1..(n + 1) |-> Append(Beside(cs), <<c, c>>)[i]]
  <2> DEFINE y == Append(Beside(cs), <<c, c>>)
  <2>1. y \in Seq(P) /\ Len(y) = n + 1
    BY <1>3
  <2> HIDE DEF y
  <2>2. y = [i \in 1..(n + 1) |-> y[i]]
    BY <2>1
  <2> QED BY <2>2 DEF y
<1>6. \A i \in 1..(n + 1) : Append(Beside(cs), <<c, c>>)[i] = <<x[i], x[i]>>
  <2>1. \A i \in 1..(n + 1) : i \in 1..n \/ i = n + 1
    BY <1>1
  <2> QED BY <1>1, <1>2, <1>3, <2>1
<1> QED BY <1>4, <1>5, <1>6 DEF x

LEMMA RejectedQuiet ==
  ASSUME Typed, VisitShape, Rejected, QuietStep
  PROVE  Rejected'
<1>0. UNCHANGED <<switch, notes, complaints>>
  BY Zenon DEF QuietStep, RefusesUserExec, IdentifyTimesOut, VtyTimesOut, AnswerTimesOut,
               SshTimesOut, TurnPagingOff, AskVty, AskSsh, AskIpSsh
<1>1. UNCHANGED <<current, rejected, row, withVty, readOk, complaints>>
  BY <1>0 DEF notes
<1>2. CASE RefusesUserExec \/ IdentifyTimesOut \/ AnswerTimesOut \/ AskVty
           \/ OptionRefused \/ LoginRejected \/ ConnectFails \/ ReadingPrompt \/ TurnPagingOff
  <2>1. /\ pc # "done"
        /\ pc' \in {"done", "connect", "again", "poll", "restore", "ready", "identify", "read-vty"}
    BY <1>2, Zenon DEF RefusesUserExec, IdentifyTimesOut, AnswerTimesOut, AskVty,
                TimesOut, Ends, Goes, OptionRefused, LoginRejected, ConnectFails, ReadingPrompt,
                StartPolling, SeesPrompt, KeepsWaiting, NoPrompt, RestoreSync, TurnPagingOff
  <2>2. row'.outcome = "none"
    BY <1>1, <2>1 DEF VisitShape, NoRow
  <2> QED BY <2>1, <2>2 DEF Rejected, Checking
<1>3. CASE VtyTimesOut
  <2>1. /\ pc = "read-vty" /\ pc' = "push"
    BY <1>3 DEF VtyTimesOut, Goes
  <2>2. withVty /\ readOk = FALSE
    BY <2>1 DEF VisitShape, Reading
  <2> QED BY <1>1, <2>1, <2>2 DEF Rejected, Checking, InStepSoFar
<1>4. CASE SshTimesOut \/ AskSsh \/ AskIpSsh
  <2>1. /\ pc \in Checking /\ pc' \in Checking /\ UNCHANGED <<prompt, poll>>
    BY <1>4 DEF SshTimesOut, AskSsh, AskIpSsh, Goes, Sends, Checking, script
  <2> QED BY <1>1, <2>1 DEF Rejected, Checking, InStepSoFar, Clean
<1>5. CASE Arrive \/ Drop
  <2>1. UNCHANGED <<prompt, poll, pc>>
    BY <1>5 DEF Arrive, Drop, script
  <2>2. pc = "pushed" => Errors(wire') \cup Errors(held') = Errors(wire) \cup Errors(held)
    <3>1. CASE Drop
      BY <3>1 DEF Drop, terminal
    <3>2. CASE Arrive
      <4>1. pc = "pushed" => sync = TRUE
        BY DEF VisitShape
      <4> QED BY <3>2, <4>1, Arrivals
    <3> QED BY <1>5, <3>1, <3>2
  <2>3. InStepSoFar' <=> InStepSoFar
    BY <1>1, <2>1 DEF InStepSoFar, Clean
  <2>4. ASSUME pc = "pushed", OneLeft(Errors(wire) \cup Errors(held))
        PROVE  OneLeft(Errors(wire) \cup Errors(held))'
    <3>1. Errors(wire') \cup Errors(held') = Errors(wire) \cup Errors(held)
      BY <2>2, <2>4
    <3>2. PICK e : e = Errors(wire) \cup Errors(held)
      OBVIOUS
    <3>3. e = {} \/ e = {current}
      BY <2>4, <3>2 DEF OneLeft
    <3>4. /\ e = {} => Beside(complaints) = rejected
          /\ e = {current} /\ e # {} =>
               Beside(complaints) = Append(rejected, <<current, current>>)
      BY <2>4, <3>2 DEF OneLeft
    <3>5. (Errors(wire) \cup Errors(held))' = e
      BY <3>1, <3>2
    <3>6. CASE e = {}
      BY <1>1, <3>4, <3>5, <3>6 DEF OneLeft
    <3>7. CASE e = {current} /\ e # {}
      BY <1>1, <3>4, <3>5, <3>7 DEF OneLeft
    <3> QED BY <3>3, <3>6, <3>7
  <2> QED BY <1>1, <2>1, <2>3, <2>4 DEF Rejected
<1> QED BY <1>2, <1>3, <1>4, <1>5 DEF QuietStep

LEMMA RejectedScript ==
  ASSUME Typed, VisitShape, ReadInStep, Rejected,
         \/ Connects \/ NextSwitch \/ Identify \/ ReadVty \/ PushCommand \/ ReadAnswer
         \/ ReadSsh \/ ReadIpSsh \/ IpSshTimesOut
  PROVE  Rejected'
<1>1. CASE Connects \/ NextSwitch
  <2>1. pc' \in {"connected", "connect"}
    BY <1>1 DEF Connects, Connected, NextSwitch, NextVisit
  <2> QED BY <2>1 DEF Rejected, Checking
<1>2. CASE Identify \/ ReadVty
  <2>1. /\ pc \in {"identify", "read-vty"} /\ pc' \in {"done", "ask-vty", "push"}
        /\ UNCHANGED <<row, rejected, complaints>>
    BY <1>2, Zenon DEF Identify, ReadVty, Goes, Ends
  <2>2. row'.outcome = "none" /\ rejected = <<>> /\ complaints = <<>>
    BY <2>1 DEF VisitShape, NoRow, Reading
  <2> QED BY <2>1, <2>2, BesideNone DEF Rejected, Checking
<1>3. CASE PushCommand
  <2>1. /\ pc = "push" /\ pc' = "pushed"
        /\ UNCHANGED <<wire, held, prompt, poll, withVty, readOk, rejected, complaints>>
    BY <1>3 DEF PushCommand, Goes, Sends, script, terminal
  <2>2. (InStepSoFar' <=> InStepSoFar) /\ (InStepSoFar => wire = <<>> /\ held = <<>>)
    BY <2>1 DEF InStepSoFar, Clean, ReadInStep, Quiet
  <2>3. InStepSoFar => OneLeft(Errors(wire) \cup Errors(held))'
    <3> SUFFICES ASSUME InStepSoFar PROVE OneLeft(Errors(wire) \cup Errors(held))'
      OBVIOUS
    <3>1. Errors(wire') \cup Errors(held') = {}
      BY <2>1, <2>2, BesideNone
    <3>2. Beside(complaints') = rejected'
      BY <2>1 DEF Rejected
    <3> QED BY <3>1, <3>2 DEF OneLeft
  <2> QED BY <2>1, <2>2, <2>3 DEF Rejected, Checking
<1>4. CASE ReadAnswer
  <2> DEFINE answer == Got(AnyHash)
  <2>1. /\ pc = "pushed" /\ pc' \in {"push", "ask-ssh"} /\ Consumes(AnyHash)
        /\ \/ Errors(answer) = {} /\ rejected' = rejected
           \/ \E e \in Errors(answer) : rejected' = Append(rejected, <<current, e>>)
        /\ UNCHANGED <<withVty, readOk, complaints>>
    BY <1>4 DEF ReadAnswer, Goes, Errors
  <2>2. InStepSoFar' => InStepSoFar
    BY <2>1 DEF InStepSoFar, Clean, Consumes
  <2>3. ASSUME InStepSoFar
        PROVE  rejected' = Beside(complaints)
    <3>1. Awaiting(current, AnyHash)
      BY <2>1, <2>3 DEF ReadInStep
    <3>2. wire = <<>> /\ Coming(AnyHash) /\ StopAt(AnyHash) # {}
      BY <2>1, <3>1, ReadAll
    <3>3. Errors(answer) = Errors(held)
      <4>1. \A s, e : e \in Errors(s) <=> \E i \in DOMAIN s : s[i].kind = "error" /\ e = s[i].of
        BY DEF Errors
      <4>2. /\ \A j \in DOMAIN held : held[j].kind \notin AnyHash \cup {"echo"} =>
                 \E n \in DOMAIN answer : answer[n] = held[j]
            /\ \A n \in DOMAIN answer : \E j \in DOMAIN held : answer[n] = held[j]
        BY <3>2, ReadInFull
      <4>3. "error" \notin AnyHash \cup {"echo"}
        BY DEF AnyHash
      <4> HIDE DEF answer
      <4>4. \A e : e \in Errors(answer) => e \in Errors(held)
        BY <4>1, <4>2
      <4>5. \A e : e \in Errors(held) => e \in Errors(answer)
        BY <4>1, <4>2, <4>3
      <4> QED BY <4>4, <4>5
    <3>4. OneLeft(Errors(wire) \cup Errors(held))
      BY <2>1, <2>3 DEF Rejected
    <3>5. Errors(wire) \cup Errors(held) = Errors(answer)
      BY <3>2, <3>3, BesideNone
    <3> HIDE DEF answer
    <3> QED BY <2>1, <3>4, <3>5 DEF OneLeft
  <2> QED BY <2>1, <2>2, <2>3 DEF Rejected
<1>5. CASE ReadSsh
  <2>1. /\ pc \in Checking /\ pc' = "ask-ip-ssh"
        /\ UNCHANGED <<prompt, poll, withVty, readOk, rejected, complaints>>
    BY <1>5 DEF ReadSsh, Goes, Consumes, Checking
  <2> QED BY <2>1 DEF Rejected, Checking, InStepSoFar, Clean
<1>6. CASE ReadIpSsh \/ IpSshTimesOut
  <2>1. /\ pc \in Checking /\ pc' = "done"
        /\ UNCHANGED <<prompt, poll, withVty, readOk, complaints>>
    BY <1>6 DEF ReadIpSsh, IpSshTimesOut, Ends, TimesOut, Consumes, Checking
  <2>2. row'.rejections = Earliest(rejected) /\ row'.rejecting = (rejected # <<>>)
    <3>1. NotesTyped
      BY TypedParts
    <3>2. \E ssh \in {"complete", "incomplete", "not-read"} : Record(ssh)
      BY <1>6, Zenon DEF ReadIpSsh, IpSshTimesOut
    <3> QED BY <3>1, <3>2, RecordTyped
  <2> QED BY <2>1, <2>2 DEF Rejected, Checking, InStepSoFar, Clean
<1> QED BY <1>1, <1>2, <1>3, <1>4, <1>5, <1>6

LEMMA RejectedDevice ==
  ASSUME Typed, VisitShape, ReadInStep, EndsWithEnd, Rejected,
         DeviceNudged \/ DeviceAnswers \/ DeviceCloses \/ StrangerAnswers
  PROVE  Rejected'
<1>1. /\ inbox # <<>> /\ held' = held
      /\ UNCHANGED <<device, prompt, poll, pc, withVty, readOk, current, row, rejected>>
  BY DeviceTakes DEF notes, script, terminal
<1>2. InStepSoFar' <=> InStepSoFar
  BY <1>1 DEF Clean, InStepSoFar
<1>3. CASE pc = "pushed"
  <2> DEFINE c == current
  <2> SUFFICES ASSUME InStepSoFar
               PROVE  OneLeft(Errors(wire) \cup Errors(held))'
    BY <1>1, <1>2, <1>3 DEF Rejected, Checking
  <2>1. c \in Commands /\ c = current /\ Awaiting(c, AnyHash) /\ device \in Switches
        /\ complaints \in Seq(Commands)
    BY <1>3, StreamsKnown, TypedParts DEF ReadInStep, Pushing, NotesTyped
  <2>2. OneLeft(Errors(wire) \cup Errors(held))
    BY <1>3 DEF Rejected
  <2> HIDE DEF c
  <2>3. /\ wire = <<>> /\ held = <<>> /\ held' = <<>>
        /\ \/ wire' = <<>> /\ complaints' = complaints
           \/ Takes(c) /\ Errors(wire') = IF Accepted(c) THEN {} ELSE {c}
    BY <2>1, KindsApart, DeviceInStep
  <2>4. rejected = Beside(complaints)
    BY <2>2, <2>3, BesideNone DEF OneLeft
  <2>5. CASE wire' = <<>> /\ complaints' = complaints
    BY <1>1, <2>3, <2>4, <2>5, BesideNone DEF OneLeft
  <2>6. CASE Takes(c) /\ Errors(wire') = IF Accepted(c) THEN {} ELSE {c}
    <3>1. complaints' = IF Accepted(c) THEN complaints ELSE Append(complaints, c)
      BY <2>6 DEF Takes
    <3>2. Beside(Append(complaints, c)) = Append(Beside(complaints), <<c, c>>)
      BY <2>1, BesideOneMore
    <3>3. Errors(wire') \cup Errors(held') = IF Accepted(c) THEN {} ELSE {c}
      BY <2>3, <2>6, BesideNone
    <3>4. Beside(complaints') = IF Accepted(c) THEN rejected ELSE Append(rejected, <<c, c>>)
      BY <2>4, <3>1, <3>2
    <3> QED BY <1>1, <2>1, <3>3, <3>4 DEF OneLeft
  <2> QED BY <2>3, <2>5, <2>6
<1>4. CASE pc = "push"
  <2>1. ~InStepSoFar
    BY <1>1, <1>4 DEF ReadInStep, Quiet
  <2> QED BY <1>1, <1>2, <1>4, <2>1 DEF Rejected, Checking
<1>5. CASE pc \in Checking \/ pc = "done"
  <2>1. InStepSoFar /\ (pc = "done" => row.outcome # "none") => complaints' = complaints
    BY <1>5, ShowsAnswered DEF EndsWithEnd
  <2> QED BY <1>1, <1>2, <1>5, <2>1 DEF Rejected, Checking
<1>6. CASE pc \notin {"pushed", "push", "done"} \cup Checking
  BY <1>1, <1>6 DEF Rejected
<1> QED BY <1>3, <1>4, <1>5, <1>6

LEMMA RejectedInit == Init => Rejected
BY DEF Init, ConsoleInit, Rejected, Checking

LEMMA RejectedNext ==
  Typed /\ VisitShape /\ ReadInStep /\ EndsWithEnd /\ Rejected /\ [Next]_vars => Rejected'
<1> SUFFICES ASSUME Typed, VisitShape, ReadInStep, EndsWithEnd, Rejected, [Next]_vars
             PROVE  Rejected'
  OBVIOUS
<1>1. CASE UNCHANGED vars
  BY <1>1, NothingMoved DEF Rejected, OneLeft, InStepSoFar, Clean
<1>2. CASE Next
  BY <1>2, NextCases, RejectedQuiet, RejectedScript, RejectedDevice, Zenon
<1> QED BY <1>1, <1>2

StepInv == Typed /\ VisitShape /\ GreetedInStep /\ ReadInStep /\ EndsWithEnd /\ Rejected

LEMMA StepInit == Init => StepInv
BY TypedInit, ShapeInit, GreetedInit, ReadInit, EndsInit, RejectedInit DEF StepInv

LEMMA StepNext == StepInv /\ [Next]_vars => StepInv'
BY TypedNext, ShapeNext, GreetedNext, ReadNext, EndsNext, RejectedNext, Zenon DEF StepInv

(* Read in step, a row names a rejection exactly if the switch complained,  *)
(* and the ones it has room for are the first the switch complained of, in   *)
(* order, each beside the command that drew it (send_config()), for any      *)
(* images that lack any commands and any number that fits.                  *)
THEOREM RejectionsNamed == Spec => []RowNamesRejections
<1>1. StepInv => RowNamesRejections
  <2> SUFFICES ASSUME StepInv, row.outcome # "none", InStep
               PROVE  /\ row.rejecting <=> complaints # <<>>
                      /\ row.rejections = Earliest(Beside(complaints))
    BY DEF RowNamesRejections, Beside
  <2>1. pc = "done"
    BY DEF StepInv, VisitShape, NoRow
  <2>2. InStepSoFar
    BY DEF InStep, InStepSoFar, Clean
  <2>3. complaints \in Seq(Commands)
    BY TypedParts DEF StepInv, NotesTyped
  <2> QED BY <2>1, <2>2, <2>3, BesideNone DEF StepInv, Rejected
<1> QED BY <1>1, StepInit, StepNext, PTL DEF Spec
-----------------------------------------------------------------------------
(* The vty block. *)

LEMMA FixesPlaces ==
  ASSUME NEW h \in Nat
  PROVE  /\ Sessions - 1 >= h =>
              /\ Len(VtyFixes(h)) = 4
              /\ VtyFixes(h)[1] = LineVty(0, h) /\ VtyFixes(h)[2] = Cmd("session-limit")
              /\ VtyFixes(h)[3] = Cmd("exec-timeout")
              /\ VtyFixes(h)[4] = Cmd("transport-input-ssh")
         /\ ~(Sessions - 1 >= h) =>
              /\ Len(VtyFixes(h)) = 7
              /\ VtyFixes(h)[1] = LineVty(0, h) /\ VtyFixes(h)[2] = Cmd("session-limit")
              /\ VtyFixes(h)[3] = Cmd("exec-timeout") /\ VtyFixes(h)[4] = LineVty(0, Sessions - 1)
              /\ VtyFixes(h)[5] = Cmd("transport-input-ssh")
              /\ VtyFixes(h)[6] = LineVty(Sessions, h)
              /\ VtyFixes(h)[7] = Cmd("transport-input-none")
BY DEF VtyFixes

LEMMA BlockPlaces ==
  ASSUME device \in Device
  PROVE  LET h == HighestVty[device]
         IN  /\ Block \in Seq(Commands) /\ h \in Nat
             /\ Len(Block) = Len(VtyFixes(h)) + 1
             /\ \A k \in 1..Len(VtyFixes(h)) : Block[k] = VtyFixes(h)[k]
             /\ Block[Len(Block)] = Cmd("end")
<1> DEFINE h == HighestVty[device]
           x == VtyFixes(h)
           z == <<Cmd("end")>>
<1>1. h \in Nat
  BY HighestTyped
<1>2. x \in Seq(Commands) /\ Len(x) \in Nat
  BY <1>1, FixesTyped
<1>3. z \in Seq(Commands) /\ Len(z) = 1 /\ z[1] = Cmd("end")
  BY EndTyped
<1>4. Block = x \o z
  BY DEF Block
<1> HIDE DEF h, x, z
<1>5. /\ x \o z \in Seq(Commands) /\ Len(x \o z) = Len(x) + Len(z)
      /\ \A i \in 1..(Len(x) + Len(z)) : (x \o z)[i] = IF i <= Len(x) THEN x[i] ELSE z[i - Len(x)]
  <2>1. z \in Seq(Commands)
    BY <1>3
  <2> QED BY <1>2, <2>1, ConcatProperties
<1>6. Len(x) + 1 \in 1..(Len(x) + 1) /\ ~(Len(x) + 1 <= Len(x)) /\ (Len(x) + 1) - Len(x) = 1
      /\ \A k \in 1..Len(x) : k \in 1..(Len(x) + 1) /\ k <= Len(x)
  BY <1>2
<1>7. Block \in Seq(Commands) /\ Len(Block) = Len(x) + 1
  BY <1>3, <1>4, <1>5
<1>8. Block[Len(Block)] = Cmd("end")
  BY <1>3, <1>4, <1>5, <1>6, <1>7
<1>9. \A k \in 1..Len(x) : Block[k] = x[k]
  BY <1>3, <1>4, <1>5, <1>6
<1> QED BY <1>1, <1>7, <1>8, <1>9 DEF h, x

(* What an accepted command of the block does.                              *)
LEMMA TookPlain ==
  ASSUME SwitchTyped, NEW c, Takes(c), Accepted(c),
         c.verb \in {"session-limit", "exec-timeout", "end"}
  PROVE  range' = range /\ transport' = transport
<1>1. range' = range
  BY DEF Takes
<1>2. transport' = [l \in DOMAIN transport |-> transport[l]]
  BY DEF Takes
<1> QED BY <1>1, <1>2 DEF SwitchTyped

LEMMA TookRange ==
  ASSUME SwitchTyped, NEW lo, NEW hi, Takes(LineVty(lo, hi)), Accepted(LineVty(lo, hi))
  PROVE  range' = lo..hi /\ transport' = transport
<1>0. LineVty(lo, hi).verb = "line-vty" /\ LineVty(lo, hi).lo = lo /\ LineVty(lo, hi).hi = hi
  BY DEF LineVty
<1>1. range' = lo..hi
  BY <1>0 DEF Takes
<1>2. transport' = [l \in DOMAIN transport |-> transport[l]]
  BY <1>0 DEF Takes
<1> QED BY <1>1, <1>2 DEF SwitchTyped

LEMMA TookTransport ==
  ASSUME SwitchTyped, NEW w \in {"ssh", "none"}, NEW c,
         c = Cmd(IF w = "ssh" THEN "transport-input-ssh" ELSE "transport-input-none"),
         Takes(c), Accepted(c)
  PROVE  /\ range' = range /\ DOMAIN transport' = DOMAIN transport
         /\ \A l \in DOMAIN transport : transport'[l] = IF l \in range THEN w ELSE transport[l]
<1>1. CASE w = "ssh"
  <2>1. c.verb = "transport-input-ssh"
    BY <1>1 DEF Cmd
  <2> QED BY <1>1, <2>1 DEF Takes
<1>2. CASE w = "none"
  <2>1. c.verb = "transport-input-none"
    BY <1>2 DEF Cmd
  <2> QED BY <1>2, <2>1 DEF Takes
<1> QED BY <1>1, <1>2

(* One more command of the block, and the effects are those of one more.    *)
LEMMA BlockTaken ==
  ASSUME Typed, device' = device, inbox = <<current>>, inbox' = <<>>, push' = push,
         NEW c \in Commands, c = current, Takes(c), Accepted(c), Effects,
         Len(push) < Len(Block) => c = Block[Len(Block) - Len(push)]
  PROVE  Effects'
<1> DEFINE h == HighestVty[device]
           p == Len(push)
<1>1. /\ p \in Nat /\ h \in Nat /\ SwitchTyped /\ device \in Device
      /\ DOMAIN transport = 0..h /\ DOMAIN transport' = 0..h
  BY StreamsKnown, TypedParts, HighestTyped DEF SwitchTyped, Takes
<1>2. Left = p + 1 /\ Left' = p
  BY <1>1 DEF Left
<1>3. Sessions \in Nat \ {0} /\ HighestVty[device'] = h
  BY SessionsNat
<1> HIDE DEF h, p
<1>4. CASE Sessions - 1 >= h
  <2>0. /\ Len(Block) = 5
        /\ p = 4 => c = LineVty(0, h)
        /\ p \in {2, 3} => c.verb \in {"session-limit", "exec-timeout"}
        /\ p = 1 => c = Cmd("transport-input-ssh")
        /\ p = 0 => c.verb = "end"
    <3>1. /\ Len(Block) = 5 /\ Block[1] = LineVty(0, h) /\ Block[2] = Cmd("session-limit")
          /\ Block[3] = Cmd("exec-timeout") /\ Block[4] = Cmd("transport-input-ssh")
          /\ Block[5] = Cmd("end")
      <4>1. /\ Len(VtyFixes(h)) = 4 /\ VtyFixes(h)[1] = LineVty(0, h)
            /\ VtyFixes(h)[2] = Cmd("session-limit") /\ VtyFixes(h)[3] = Cmd("exec-timeout")
            /\ VtyFixes(h)[4] = Cmd("transport-input-ssh")
        BY <1>1, <1>4, FixesPlaces
      <4>2. /\ Len(Block) = Len(VtyFixes(h)) + 1
            /\ \A k \in 1..Len(VtyFixes(h)) : Block[k] = VtyFixes(h)[k]
            /\ Block[Len(Block)] = Cmd("end")
        BY <1>1, BlockPlaces DEF h
      <4> QED BY <4>1, <4>2
    <3>2. /\ Cmd("session-limit").verb = "session-limit" /\ Cmd("exec-timeout").verb = "exec-timeout"
          /\ Cmd("end").verb = "end"
      BY DEF Cmd
    <3>3. p < 5 => c = Block[5 - p]
      BY <3>1 DEF p
    <3> QED BY <3>1, <3>2, <3>3
  <2>1. /\ p + 1 \in 2..4 => range = 0..h
        /\ p + 1 \in 0..1 => ClosedIn(transport)
    BY <1>2, <1>4 DEF Effects, h
  <2>2. /\ p \in 2..4 => range' = 0..h
        /\ p \in 0..1 => ClosedIn(transport')
    <3>1. CASE p = 4
      BY <1>1, <2>0, <3>1, TookRange
    <3>2. CASE p \in {2, 3}
      <4>1. range' = range
        BY <1>1, <2>0, <3>2, TookPlain
      <4> QED BY <2>1, <3>2, <4>1
    <3>3. CASE p = 1
      <4>1. \A l \in DOMAIN transport : transport'[l] = IF l \in range THEN "ssh" ELSE transport[l]
        BY <1>1, <2>0, <3>3, TookTransport
      <4>2. range = 0..h
        BY <2>1, <3>3
      <4> QED BY <1>1, <1>3, <1>4, <3>3, <4>1, <4>2 DEF ClosedIn
    <3>4. CASE p = 0
      <4>1. transport' = transport
        BY <1>1, <2>0, <3>4, TookPlain
      <4> QED BY <2>1, <3>4, <4>1
    <3>5. CASE p > 4
      BY <1>1, <3>5
    <3> QED BY <1>1, <3>1, <3>2, <3>3, <3>4, <3>5
  <2> QED BY <1>2, <1>3, <1>4, <2>2 DEF Effects
<1>5. CASE ~(Sessions - 1 >= h)
  <2>0. /\ Len(Block) = 8
        /\ p = 4 => c = LineVty(0, Sessions - 1)
        /\ p = 3 => c = Cmd("transport-input-ssh")
        /\ p = 2 => c = LineVty(Sessions, h)
        /\ p = 1 => c = Cmd("transport-input-none")
        /\ p = 0 => c.verb = "end"
    <3>1. /\ Len(Block) = 8 /\ Block[4] = LineVty(0, Sessions - 1)
          /\ Block[5] = Cmd("transport-input-ssh") /\ Block[6] = LineVty(Sessions, h)
          /\ Block[7] = Cmd("transport-input-none") /\ Block[8] = Cmd("end")
      <4>1. /\ Len(VtyFixes(h)) = 7 /\ VtyFixes(h)[4] = LineVty(0, Sessions - 1)
            /\ VtyFixes(h)[5] = Cmd("transport-input-ssh")
            /\ VtyFixes(h)[6] = LineVty(Sessions, h)
            /\ VtyFixes(h)[7] = Cmd("transport-input-none")
        BY <1>1, <1>5, FixesPlaces
      <4>2. /\ Len(Block) = Len(VtyFixes(h)) + 1
            /\ \A k \in 1..Len(VtyFixes(h)) : Block[k] = VtyFixes(h)[k]
            /\ Block[Len(Block)] = Cmd("end")
        BY <1>1, BlockPlaces DEF h
      <4> QED BY <4>1, <4>2
    <3>2. Cmd("end").verb = "end"
      BY DEF Cmd
    <3>3. p < 8 => c = Block[8 - p]
      BY <3>1 DEF p
    <3> QED BY <3>1, <3>2, <3>3
  <2>1. /\ p + 1 = 4 => range = 0..(Sessions - 1)
        /\ p + 1 \in 0..3 => OpenUse
        /\ p + 1 = 2 => range = Sessions..h
        /\ p + 1 \in 0..1 => ClosedIn(transport)
    BY <1>2, <1>5 DEF Effects, h
  <2>2. /\ p = 4 => range' = 0..(Sessions - 1)
        /\ p \in 0..3 => OpenUse'
        /\ p = 2 => range' = Sessions..h
        /\ p \in 0..1 => ClosedIn(transport')
    <3>1. CASE p = 4
      BY <1>1, <2>0, <3>1, TookRange
    <3>2. CASE p = 3
      <4>1. \A l \in DOMAIN transport : transport'[l] = IF l \in range THEN "ssh" ELSE transport[l]
        BY <1>1, <2>0, <3>2, TookTransport
      <4>2. range = 0..(Sessions - 1)
        BY <2>1, <3>2
      <4> QED BY <1>1, <1>3, <3>2, <4>1, <4>2 DEF OpenUse
    <3>3. CASE p = 2
      <4>1. range' = Sessions..h /\ transport' = transport
        BY <1>1, <2>0, <3>3, TookRange
      <4>2. OpenUse
        BY <2>1, <3>3
      <4> QED BY <3>3, <4>1, <4>2 DEF OpenUse
    <3>4. CASE p = 1
      <4>1. \A l \in DOMAIN transport : transport'[l] = IF l \in range THEN "none" ELSE transport[l]
        BY <1>1, <2>0, <3>4, TookTransport
      <4>2. range = Sessions..h /\ OpenUse
        BY <2>1, <3>4
      <4> QED BY <1>1, <1>3, <3>4, <4>1, <4>2 DEF OpenUse, ClosedIn
    <3>5. CASE p = 0
      <4>1. transport' = transport
        BY <1>1, <2>0, <3>5, TookPlain
      <4>2. OpenUse /\ ClosedIn(transport)
        BY <2>1, <3>5
      <4> QED BY <3>5, <4>1, <4>2 DEF OpenUse
    <3>6. CASE p > 4
      BY <1>1, <3>6
    <3> QED BY <1>1, <3>1, <3>2, <3>3, <3>4, <3>5, <3>6
  <2> QED BY <1>2, <1>3, <1>5, <2>2 DEF Effects
<1> QED BY <1>4, <1>5

LEMMA BlockJoined ==
  ASSUME device \in Device, NEW x \in Seq(Commands)
  PROVE  LET s == (x \o VtyFixes(HighestVty[device])) \o <<Cmd("end")>>
         IN  Aligned(s) /\ Len(s) \in Nat /\ Len(s) >= Len(Block)
<1> DEFINE y == VtyFixes(HighestVty[device])
           z == <<Cmd("end")>>
           s == (x \o y) \o z
<1>1. /\ y \in Seq(Commands) /\ Len(x) \in Nat /\ Len(y) \in Nat
      /\ Len(Block) = Len(y) + 1 /\ Block[Len(Block)] = Cmd("end")
      /\ \A k \in 1..Len(y) : Block[k] = y[k]
  <2>1. HighestVty[device] \in Nat
    BY HighestTyped
  <2>2. y \in Seq(Commands)
    BY <2>1, FixesTyped
  <2>3. /\ Len(Block) = Len(y) + 1 /\ Block[Len(Block)] = Cmd("end")
        /\ \A k \in 1..Len(y) : Block[k] = y[k]
    BY BlockPlaces
  <2> HIDE DEF y
  <2> QED BY <2>2, <2>3
<1>2. z \in Seq(Commands) /\ Len(z) = 1 /\ z[1] = Cmd("end")
  BY EndTyped
<1>3. z \in Seq(Commands) /\ y \in Seq(Commands)
  BY <1>1, <1>2
<1> HIDE DEF y, z
<1>4. /\ x \o y \in Seq(Commands) /\ Len(x \o y) = Len(x) + Len(y)
      /\ \A i \in 1..(Len(x) + Len(y)) : (x \o y)[i] = IF i <= Len(x) THEN x[i] ELSE y[i - Len(x)]
  BY <1>3, ConcatProperties
<1>5. x \o y \in Seq(Commands)
  BY <1>4
<1>6. /\ Len(s) = Len(x \o y) + Len(z)
      /\ \A i \in 1..(Len(x \o y) + Len(z)) :
            s[i] = IF i <= Len(x \o y) THEN (x \o y)[i] ELSE z[i - Len(x \o y)]
  BY <1>3, <1>5, ConcatProperties
<1> DEFINE m == Len(x)
           n == Len(y)
<1>7. /\ m \in Nat /\ n \in Nat /\ Len(s) = m + n + 1 /\ Len(Block) = n + 1
  BY <1>1, <1>2, <1>4, <1>6
<1>8. /\ \A i \in (m + 1)..(m + n) : s[i] = y[i - m]
      /\ s[m + n + 1] = Cmd("end")
  <2>1. Len(x \o y) = m + n /\ Len(x \o y) + Len(z) = m + n + 1
    BY <1>2, <1>4
  <2>2. \A i \in (m + 1)..(m + n) : /\ i \in 1..(m + n + 1) /\ i <= m + n /\ ~(i <= m)
                                   /\ i \in 1..(m + n)
    BY <1>7
  <2>3. m + n + 1 \in 1..(m + n + 1) /\ ~(m + n + 1 <= m + n) /\ (m + n + 1) - (m + n) = 1
    BY <1>7
  <2>4. s[m + n + 1] = Cmd("end")
    BY <1>2, <1>6, <2>1, <2>3
  <2>5. \A i \in (m + 1)..(m + n) : s[i] = (x \o y)[i]
    BY <1>6, <2>1, <2>2
  <2>6. \A i \in (m + 1)..(m + n) : (x \o y)[i] = y[i - m]
    BY <1>4, <2>2
  <2> QED BY <2>4, <2>5, <2>6
<1> HIDE DEF s, m
<1>9. Aligned(s)
  <2> SUFFICES ASSUME NEW i \in 1..Len(s), Len(Block) - Len(s) + i >= 1
               PROVE  s[i] = Block[Len(Block) - Len(s) + i]
    BY DEF Aligned
  <2>1. Len(Block) - Len(s) + i = i - m /\ i - m \in 1..(n + 1) /\ i \in (m + 1)..(m + n + 1)
    BY <1>7
  <2>2. CASE i = m + n + 1
    <3>1. i - m = n + 1
      BY <1>7, <2>2
    <3> QED BY <1>1, <1>7, <1>8, <2>1, <2>2, <3>1
  <2>3. CASE i # m + n + 1
    <3>1. i \in (m + 1)..(m + n) /\ i - m \in 1..n
      BY <1>7, <2>1, <2>3
    <3> QED BY <1>1, <1>8, <2>1, <3>1
  <2> QED BY <2>2, <2>3
<1>10. Len(s) \in Nat /\ Len(s) >= Len(Block)
  BY <1>7
<1> QED BY <1>9, <1>10 DEF s, y, z

LEMMA AlignedTail ==
  ASSUME Typed, push # <<>>, Aligned(push)
  PROVE  /\ Aligned(Tail(push))
         /\ Len(Tail(push)) < Len(Block) => Head(push) = Block[Len(Block) - Len(Tail(push))]
<1>1. /\ push \in Seq(Commands) /\ Len(push) \in Nat \ {0} /\ Len(Block) \in Nat
      /\ Head(push) = push[1] /\ Len(Tail(push)) = Len(push) - 1
      /\ \A i \in 1..(Len(push) - 1) : Tail(push)[i] = push[i + 1]
  <2>1. Block \in Seq(Commands)
    BY StreamsKnown, BlockPlaces
  <2> QED BY <2>1, StreamsKnown
<1>2. Aligned(Tail(push))
  <2> SUFFICES ASSUME NEW i \in 1..(Len(push) - 1), Len(Block) - (Len(push) - 1) + i >= 1
               PROVE  Tail(push)[i] = Block[Len(Block) - (Len(push) - 1) + i]
    BY <1>1 DEF Aligned
  <2>1. /\ i + 1 \in 1..Len(push)
        /\ Len(Block) - Len(push) + (i + 1) = Len(Block) - (Len(push) - 1) + i
        /\ Len(Block) - Len(push) + (i + 1) >= 1
    BY <1>1
  <2>2. push[i + 1] = Block[Len(Block) - Len(push) + (i + 1)]
    BY <2>1 DEF Aligned
  <2> QED BY <1>1, <2>1, <2>2
<1>3. ASSUME Len(Tail(push)) < Len(Block)
      PROVE  Head(push) = Block[Len(Block) - Len(Tail(push))]
  <2>1. /\ 1 \in 1..Len(push) /\ Len(Block) - Len(push) + 1 >= 1
        /\ Len(Block) - Len(push) + 1 = Len(Block) - Len(Tail(push))
    BY <1>1, <1>3
  <2> QED BY <1>1, <2>1 DEF Aligned
<1> QED BY <1>2, <1>3

LEMMA BlockQuiet ==
  ASSUME Typed, VisitShape, BlockGoesIn, QuietStep
  PROVE  BlockGoesIn'
<1>0. UNCHANGED <<switch, notes, complaints>>
  BY Zenon DEF QuietStep, RefusesUserExec, IdentifyTimesOut, VtyTimesOut, AnswerTimesOut,
               SshTimesOut, TurnPagingOff, AskVty, AskSsh, AskIpSsh
<1>1. UNCHANGED <<push, current, row, withVty, readOk, complaints, transport, range>>
  BY <1>0 DEF notes, switch
<1>2. CASE RefusesUserExec \/ IdentifyTimesOut \/ AnswerTimesOut \/ AskVty
           \/ OptionRefused \/ LoginRejected \/ ConnectFails \/ ReadingPrompt \/ TurnPagingOff
  <2>1. /\ pc # "done"
        /\ pc' \in {"done", "connect", "again", "poll", "restore", "ready", "identify", "read-vty"}
    BY <1>2, Zenon DEF RefusesUserExec, IdentifyTimesOut, AnswerTimesOut, AskVty,
                TimesOut, Ends, Goes, OptionRefused, LoginRejected, ConnectFails, ReadingPrompt,
                StartPolling, SeesPrompt, KeepsWaiting, NoPrompt, RestoreSync, TurnPagingOff
  <2>2. row'.outcome = "none"
    BY <1>1, <2>1 DEF VisitShape, NoRow
  <2> QED BY <1>1, <2>1, <2>2 DEF BlockGoesIn, Checking, Pushing
<1>3. CASE VtyTimesOut
  <2>1. /\ pc = "read-vty" /\ pc' = "push"
    BY <1>3 DEF VtyTimesOut, Goes
  <2>2. withVty /\ readOk = FALSE
    BY <2>1 DEF VisitShape, Reading
  <2>3. ~Blocked'
    BY <1>1, <2>2 DEF Blocked, InStepSoFar
  <2> QED BY <1>1, <2>1, <2>3 DEF BlockGoesIn, Checking
<1>4. CASE SshTimesOut \/ AskSsh \/ AskIpSsh
  <2>1. /\ pc \in Checking /\ pc' \in Checking /\ UNCHANGED <<prompt, poll>>
    BY <1>4 DEF SshTimesOut, AskSsh, AskIpSsh, Goes, Sends, Checking, script
  <2> QED BY <1>1, <2>1 DEF BlockGoesIn, Checking, Pushing, Blocked, InStepSoFar, Clean
<1>5. CASE Arrive \/ Drop
  <2>1. UNCHANGED <<device, inbox, prompt, poll, pc>>
    BY <1>5 DEF Arrive, Drop, script
  <2>2. (Blocked' <=> Blocked) /\ (Effects' <=> Effects) /\ Block' = Block
        /\ (Aligned(push)' <=> Aligned(push))
    <3>1. Blocked' <=> Blocked
      BY <1>1, <2>1 DEF Blocked, InStepSoFar, Clean
    <3>2. Block' = Block
      BY <2>1 DEF Block
    <3>3. Effects' <=> Effects
      BY <1>1, <2>1 DEF Effects, Left, OpenUse
    <3>4. Aligned(push)' <=> Aligned(push)
      BY <1>1, <3>2 DEF Aligned
    <3> QED BY <3>1, <3>2, <3>3, <3>4
  <2> QED BY <1>1, <2>1, <2>2 DEF BlockGoesIn
<1> QED BY <1>2, <1>3, <1>4, <1>5 DEF QuietStep

LEMMA BlockScript ==
  ASSUME Typed, VisitShape, ReadInStep, BlockGoesIn,
         \/ Connects \/ NextSwitch \/ Identify \/ ReadVty \/ PushCommand \/ ReadAnswer
         \/ ReadSsh \/ ReadIpSsh \/ IpSshTimesOut
  PROVE  BlockGoesIn'
<1>1. CASE Connects
  <2>1. pc \in Dialling /\ pc' = "connected" /\ row' = row
    BY <1>1 DEF Connects, Connected, Dialling
  <2>2. row.note # "closed"
    BY <2>1 DEF VisitShape, NoRow, Dialling
  <2> QED BY <2>1, <2>2 DEF BlockGoesIn, Checking, Pushing
<1>2. CASE NextSwitch
  <2>1. pc' = "connect" /\ row'.note = "none"
    BY <1>2 DEF NextSwitch, NextVisit, NoRow
  <2> QED BY <2>1 DEF BlockGoesIn, Checking, Pushing
<1>3. CASE Identify
  <2>1. /\ pc = "identify" /\ pc' \in {"done", "ask-vty", "push"} /\ row' = row
        /\ pc' = "push" => ~withVty'
    BY <1>3, Zenon DEF Identify, Ends
  <2>2. row.outcome = "none" /\ row.note = "none"
    BY <2>1 DEF VisitShape, NoRow
  <2> QED BY <2>1, <2>2 DEF BlockGoesIn, Checking, Pushing, Blocked
<1>4. CASE ReadVty
  <2> DEFINE out == StripEcho(VtyText, ShowVty)
             numbers == NumbersIn(out)
             top == IF numbers = {} THEN 4 ELSE CHOOSE n \in numbers : \A m \in numbers : m <= n
  <2>1. /\ pc = "read-vty" /\ pc' = "push" /\ Consumes(Stops(prompt)) /\ row' = row
        /\ readOk' = (numbers # {})
        /\ push' = IF numbers = {} THEN push
                   ELSE SubSeq(push, 1, Len(push) - 1) \o VtyFixes(top) \o <<Cmd("end")>>
    BY <1>4, Zenon DEF ReadVty, Goes
  <2>2. row.outcome = "none" /\ row.note = "none" /\ push \in Seq(Commands) /\ device \in Device
    BY <2>1, StreamsKnown DEF VisitShape, NoRow
  <2>3. Blocked' => Clean /\ numbers # {}
    BY <2>1 DEF Blocked, InStepSoFar, Clean, Consumes
  <2>4. ASSUME Clean, numbers # {}
        PROVE  /\ Aligned(push)' /\ Effects'
    <3>1. /\ Stops(prompt) = Answer /\ Awaiting(ShowVty, Answer)
          /\ Listing(held)
      BY <2>1, <2>4, CleanStops DEF ReadInStep
    <3>2. /\ inbox' = <<>> /\ device' = device /\ StopAt(Answer) # {}
      BY <2>1, <3>1, ReadAll
    <3>3. \A n \in DOMAIN out :
            /\ \E j \in DOMAIN held : out[n] = held[j]
            /\ out[n].kind \notin Answer
      <4>1. held \in Seq(Tokens)
        BY StreamsKnown
      <4>2. VtyText = Got(Answer)
        BY <2>4, <3>1 DEF VtyText, Got, Clean
      <4> QED BY <3>1, <3>2, <4>1, <4>2, ReadsWhatIsHeld
    <3>4. numbers = {0, HighestVty[device]}
      <4>1. ASSUME NEW i \in DOMAIN out
            PROVE  /\ out[i] # Token("echo", PagingOff)
                   /\ out[i].kind \notin {"prompt", "user", "config"} /\ out[i].kind # "text"
        BY <3>1, <3>3 DEF Listing, NoneOf, HasKind, Answer
      <4> DEFINE n(i) == IF out[i].kind = "vty" THEN {0, HighestVty[device]} ELSE {}
      <4>2. numbers = (UNION {n(i) : i \in DOMAIN out}) \ {NoNumber}
        <5>1. ASSUME NEW i \in DOMAIN out
              PROVE  (CASE out[i].kind = "vty" -> {0, HighestVty[device]}
                        [] out[i] = Token("echo", PagingOff) -> {0}
                        [] out[i].kind \in {"prompt", "user", "config"} -> {HostNumber[device]}
                        [] out[i].kind = "text" -> {TextNumber}
                        [] OTHER -> {}) = n(i)
          BY <4>1
        <5> HIDE DEF n, out
        <5> QED BY <5>1 DEF NumbersIn
      <4>3. HighestVty[device] \in Nat /\ NoNumber \notin Nat
        BY <2>2, HighestTyped DEF NoNumber
      <4>4. PICK i \in DOMAIN out : n(i) # {}
        BY <2>4, <4>2
      <4>5. \A j \in DOMAIN out : n(j) \subseteq {0, HighestVty[device]}
        OBVIOUS
      <4>6. n(i) = {0, HighestVty[device]}
        BY <4>4
      <4>7. 0 \in Nat
        OBVIOUS
      <4> HIDE DEF numbers, n, out
      <4> QED BY <4>2, <4>3, <4>5, <4>6, <4>7
    <3>5. top = HighestVty[device]
      <4>1. /\ top \in numbers /\ \A m \in numbers : m <= top
        BY <2>2, <2>4, NumbersTop
      <4>2. HighestVty[device] \in Nat
        BY <2>2, HighestTyped
      <4> HIDE DEF numbers, top
      <4> QED BY <3>4, <4>1, <4>2
    <3> HIDE DEF numbers, top, out
    <3>6. SubSeq(push, 1, Len(push) - 1) \in Seq(Commands)
      BY <2>2
    <3> DEFINE s == (SubSeq(push, 1, Len(push) - 1) \o VtyFixes(HighestVty[device])) \o <<Cmd("end")>>
    <3>7. push' = s
      BY <2>1, <2>4, <3>5
    <3>8. Aligned(s) /\ Len(s) \in Nat /\ Len(s) >= Len(Block)
      BY <2>2, <3>6, BlockJoined
    <3> HIDE DEF s
    <3>9. Aligned(push)'
      BY <3>2, <3>7, <3>8 DEF Aligned, Block
    <3>10. Left' = Len(s)
      BY <3>2, <3>7, <3>8 DEF Left
    <3>11. /\ Sessions - 1 >= HighestVty[device] => Len(Block) = 5
           /\ ~(Sessions - 1 >= HighestVty[device]) => Len(Block) = 8
      <4>1. HighestVty[device] \in Nat /\ Len(Block) = Len(VtyFixes(HighestVty[device])) + 1
        BY <2>2, BlockPlaces
      <4> DEFINE h == HighestVty[device]
      <4> HIDE DEF h
      <4>2. /\ Sessions - 1 >= h => Len(VtyFixes(h)) = 4
            /\ ~(Sessions - 1 >= h) => Len(VtyFixes(h)) = 7
        <5>1. h \in Nat
          BY <4>1 DEF h
        <5> QED BY <5>1, FixesPlaces
      <4>3. Len(Block) = Len(VtyFixes(h)) + 1
        BY <4>1 DEF h
      <4>4. /\ Sessions - 1 >= h => Len(Block) = 5
            /\ ~(Sessions - 1 >= h) => Len(Block) = 8
        <5>1. 4 + 1 = 5 /\ 7 + 1 = 8
          OBVIOUS
        <5> QED BY <4>2, <4>3, <5>1, Zenon
      <4> QED BY <4>4 DEF h
    <3>12. Effects'
      <4>1. /\ Sessions - 1 >= HighestVty[device] => Len(s) >= 5
            /\ ~(Sessions - 1 >= HighestVty[device]) => Len(s) >= 8
        BY <3>8, <3>11
      <4> QED BY <3>2, <3>8, <3>10, <4>1 DEF Effects
    <3> QED BY <3>9, <3>12
  <2>5. Blocked' => Aligned(push)' /\ Effects'
    BY <2>3, <2>4
  <2>6. /\ pc' = "push" /\ row'.note = "none"
    BY <2>1, <2>2
  <2> HIDE DEF out, numbers, top
  <2> QED BY <2>5, <2>6 DEF BlockGoesIn, Checking, Pushing
<1>5. CASE PushCommand
  <2>1. /\ pc = "push" /\ pc' = "pushed" /\ push # <<>> /\ inbox' = Append(inbox, Head(push))
        /\ current' = Head(push) /\ push' = Tail(push)
        /\ UNCHANGED <<device, prompt, poll, withVty, readOk, row, complaints, transport, range>>
    BY <1>5 DEF PushCommand, Goes, Sends, script, switch
  <2>2. (Blocked' <=> Blocked) /\ Block' = Block
    BY <2>1 DEF Blocked, InStepSoFar, Clean, Block
  <2>3. Blocked => Aligned(push) /\ inbox = <<>>
    BY <2>1 DEF BlockGoesIn, Blocked, ReadInStep, Pushing, Quiet
  <2>4. Aligned(push) =>
          /\ Aligned(Tail(push))
          /\ Len(Tail(push)) < Len(Block) => Head(push) = Block[Len(Block) - Len(Tail(push))]
    BY <2>1, AlignedTail
  <2>5. Aligned(Tail(push)) => Aligned(push)'
    BY <2>1, <2>2 DEF Aligned
  <2>6. inbox = <<>> => (Effects => Effects')
    <3> SUFFICES ASSUME inbox = <<>> PROVE Effects => Effects'
      OBVIOUS
    <3>1. Left' = Left
      <4>1. Len(inbox) = 0 /\ Len(inbox') = 1 /\ Len(push') = Len(push) - 1 /\ Len(push) \in Nat
        BY <2>1, StreamsKnown
      <4> QED BY <4>1 DEF Left
    <3> QED BY <2>1, <3>1 DEF Effects, OpenUse
  <2> QED BY <2>1, <2>2, <2>3, <2>4, <2>5, <2>6 DEF BlockGoesIn, Checking, Pushing
<1>6. CASE ReadAnswer
  <2>1. /\ pc = "pushed" /\ pc' = IF push = <<>> THEN "ask-ssh" ELSE "push"
        /\ Consumes(AnyHash)
        /\ UNCHANGED <<withVty, readOk, push, row, complaints, transport, range>>
    BY <1>6 DEF ReadAnswer, Goes, switch
  <2>2. UNCHANGED <<device, prompt, poll, inbox>>
    BY <2>1 DEF Consumes
  <2>3. (Blocked' <=> Blocked) /\ Block' = Block
    BY <2>1, <2>2 DEF Blocked, InStepSoFar, Clean, Block
  <2>4. Blocked => inbox = <<>>
    <3> SUFFICES ASSUME Blocked PROVE inbox = <<>>
      OBVIOUS
    <3>1. Awaiting(current, AnyHash)
      BY <2>1 DEF ReadInStep, Blocked
    <3> QED BY <2>1, <3>1, ReadAll
  <2>5. (Effects' <=> Effects) /\ (Aligned(push)' <=> Aligned(push))
    BY <2>1, <2>2, <2>3 DEF Effects, Left, OpenUse, Aligned
  <2>6. push = <<>> /\ inbox = <<>> /\ Effects => ClosedIn(transport)
    BY DEF Effects, Left
  <2> QED BY <2>1, <2>3, <2>4, <2>5, <2>6 DEF BlockGoesIn, Checking, Pushing
<1>7. CASE ReadSsh
  <2>1. /\ pc \in Checking /\ pc' = "ask-ip-ssh"
        /\ UNCHANGED <<prompt, poll, withVty, readOk, row, complaints, transport>>
    BY <1>7 DEF ReadSsh, Goes, Consumes, Checking, switch
  <2> QED BY <2>1 DEF BlockGoesIn, Checking, Pushing, Blocked, InStepSoFar, Clean
<1>8. CASE ReadIpSsh \/ IpSshTimesOut
  <2>1. /\ pc \in Checking /\ pc' = "done"
        /\ row'.note = (IF withVty /\ readOk THEN "closed" ELSE "none") /\ row'.outcome # "none"
        /\ UNCHANGED <<prompt, poll, withVty, readOk, complaints, transport>>
    BY <1>8 DEF ReadIpSsh, IpSshTimesOut, Ends, TimesOut, Consumes, Checking, Record, switch
  <2> QED BY <2>1 DEF BlockGoesIn, Checking, Pushing, Blocked, InStepSoFar, Clean
<1> QED BY <1>1, <1>2, <1>3, <1>4, <1>5, <1>6, <1>7, <1>8

LEMMA BlockDevice ==
  ASSUME Typed, VisitShape, ReadInStep, EndsWithEnd, BlockGoesIn,
         DeviceNudged \/ DeviceAnswers \/ DeviceCloses \/ StrangerAnswers
  PROVE  BlockGoesIn'
<1>1. /\ inbox # <<>>
      /\ UNCHANGED <<device, prompt, poll, pc, withVty, readOk, current, push, row>>
  BY DeviceTakes DEF notes, script
<1>2. (Blocked' <=> Blocked) /\ (Blocked => InStepSoFar) /\ Block' = Block
      /\ (Aligned(push)' <=> Aligned(push))
  <2>1. Block' = Block
    BY <1>1 DEF Block
  <2> QED BY <1>1, <2>1 DEF Clean, InStepSoFar, Blocked, Aligned
<1>3. CASE pc = "pushed"
  <2> DEFINE c == current
  <2> SUFFICES ASSUME Blocked
               PROVE  /\ inbox' # <<>> /\ Len(push) < Len(Block) =>
                           c = Block[Len(Block) - Len(push)]
                      /\ complaints' = <<>> => Effects'
    BY <1>1, <1>2, <1>3 DEF BlockGoesIn, Checking, Pushing
  <2>1. c \in Commands /\ c = current /\ Awaiting(c, AnyHash) /\ device \in Switches
    BY <1>2, <1>3, StreamsKnown DEF ReadInStep, Pushing
  <2>2. /\ Len(push) < Len(Block) => c = Block[Len(Block) - Len(push)]
        /\ complaints = <<>> => Effects
    BY <1>1, <1>3 DEF BlockGoesIn, Pushing
  <2> HIDE DEF c
  <2>3. /\ inbox = <<c>>
        /\ \/ inbox' = inbox /\ UNCHANGED <<switch, complaints>>
           \/ inbox' = <<>> /\ Takes(c)
    BY <2>1, KindsApart, DeviceInStep
  <2>4. CASE inbox' = inbox /\ UNCHANGED <<switch, complaints>>
    BY <1>1, <2>2, <2>4 DEF Effects, Left, OpenUse, switch
  <2>5. CASE inbox' = <<>> /\ Takes(c)
    <3>1. complaints' = IF Accepted(c) THEN complaints ELSE Append(complaints, c)
      BY <2>5 DEF Takes
    <3>4. Append(complaints, c) # <<>>
      <4>1. complaints \in Seq(Commands)
        BY TypedParts DEF NotesTyped
      <4> QED BY <2>1, <4>1, AppendProperties
    <3>2. complaints' = <<>> => Accepted(c) /\ Effects
      BY <2>2, <3>1, <3>4
    <3>3. complaints' = <<>> => Effects'
      BY <1>1, <2>1, <2>2, <2>3, <2>5, <3>2, BlockTaken
    <3> QED BY <2>5, <3>3
  <2> QED BY <2>3, <2>4, <2>5
<1>4. CASE pc = "push"
  <2>1. ~Blocked
    BY <1>1, <1>2, <1>4 DEF ReadInStep, Quiet
  <2> QED BY <1>1, <1>2, <1>4, <2>1 DEF BlockGoesIn, Checking
<1>5. CASE pc \in Checking \/ pc = "done"
  <2>1. InStepSoFar /\ (pc = "done" => row.outcome # "none") =>
          complaints' = complaints /\ transport' = transport
    BY <1>5, ShowsAnswered DEF EndsWithEnd
  <2> QED BY <1>1, <1>2, <1>5, <2>1 DEF BlockGoesIn, Checking, Pushing
<1>6. CASE pc \notin {"pushed", "push", "done"} \cup Checking
  BY <1>1, <1>6 DEF BlockGoesIn, Pushing
<1> QED BY <1>3, <1>4, <1>5, <1>6

LEMMA BlockInit == Init => BlockGoesIn
BY DEF Init, ConsoleInit, BlockGoesIn, Checking, Pushing, NoRow

LEMMA BlockNext ==
  Typed /\ VisitShape /\ ReadInStep /\ EndsWithEnd /\ BlockGoesIn /\ [Next]_vars => BlockGoesIn'
<1> SUFFICES ASSUME Typed, VisitShape, ReadInStep, EndsWithEnd, BlockGoesIn, [Next]_vars
             PROVE  BlockGoesIn'
  OBVIOUS
<1>1. CASE UNCHANGED vars
  <2>1. Blocked' = Blocked
    BY <1>1, NothingMoved DEF Blocked, InStepSoFar, Clean
  <2>2. Block' = Block /\ Left' = Left
    BY <1>1, NothingMoved, Zenon DEF Block, Left
  <2>3. Effects' = Effects
    BY <1>1, <2>2, NothingMoved, Zenon DEF Effects, OpenUse, ClosedIn
  <2>4. Aligned(push)' = Aligned(push)
    BY <1>1, <2>2, NothingMoved, Zenon DEF Aligned
  <2>5. ClosedIn(transport)' = ClosedIn(transport)
    BY <1>1, NothingMoved, Zenon DEF ClosedIn
  <2> QED BY <1>1, <2>1, <2>2, <2>3, <2>4, <2>5, NothingMoved, Zenon DEF BlockGoesIn
<1>2. CASE Next
  BY <1>2, NextCases, BlockQuiet, BlockScript, BlockDevice, Zenon
<1> QED BY <1>1, <1>2

(* Read in step, a row that says the vty lines are closed and names no       *)
(* rejection is true of the switch, whatever its line count: every line      *)
(* above the allowed ones is shut and every other takes SSH only             *)
(* (vty_fixes(), visit_one()).                                              *)
THEOREM ClosedMeansClosed == Spec => []VtyRowTrueInStep
<1>1. StepInv /\ BlockGoesIn => VtyRowTrueInStep
  <2> SUFFICES ASSUME StepInv, BlockGoesIn, row.note = "closed", ~row.rejecting, InStep
               PROVE  ClosedIn(transport)
    BY DEF VtyRowTrueInStep
  <2>1. withVty /\ row.outcome # "none"
    BY DEF BlockGoesIn
  <2>2. pc = "done"
    BY <2>1 DEF StepInv, VisitShape, NoRow
  <2>3. Blocked /\ InStepSoFar
    BY <2>1 DEF InStep, Blocked, InStepSoFar, Clean
  <2>4. Beside(complaints) = <<>>
    BY <2>1, <2>2, <2>3 DEF StepInv, Rejected
  <2>5. complaints = <<>>
    <3>1. complaints \in Seq(Commands)
      BY TypedParts DEF StepInv, NotesTyped
    <3> QED BY <2>4, <3>1, BesideNone
  <2> QED BY <2>1, <2>2, <2>3, <2>5 DEF BlockGoesIn
<1>2. StepInv /\ BlockGoesIn /\ [Next]_vars => BlockGoesIn'
  BY BlockNext, Zenon DEF StepInv
<1> QED BY <1>1, <1>2, StepInit, StepNext, BlockInit, PTL DEF Spec
=============================================================================
