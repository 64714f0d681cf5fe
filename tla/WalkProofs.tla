----------------------------- MODULE WalkProofs -----------------------------
(***************************************************************************)
(* Proofs about Walk for any number of sessions, hostnames, runs, kills    *)
(* and deletions, and any number of reads and writes that fail: its types,  *)
(* the truth of the index, that the output folder implements Shelf, that    *)
(* the log is a census and that what was collected is kept.                 *)
(***************************************************************************)
EXTENDS Walk, TLAPS, SequenceTheorems, WellFoundedInduction

(* A nonempty set of naturals has a least element.                         *)
LEMMA LeastExists ==
  ASSUME NEW T \in SUBSET Nat, T # {}
  PROVE  \E x \in T : \A y \in T : x <= y
<1>1. PICK x \in T : \A y \in T : ~ (<<y, x>> \in OpToRel(<, Nat))
  BY NatLessThanWellFounded, WFMin
<1>2. ASSUME NEW y \in T
      PROVE  x <= y
  <2>1. y \in Nat /\ x \in Nat
    OBVIOUS
  <2>2. y < x => <<y, x>> \in OpToRel(<, Nat)
    BY <2>1 DEF OpToRel
  <2>3. ~ (y < x)
    BY <1>1, <2>2, Zenon
  <2> QED BY <2>1, <2>3
<1> QED BY <1>2

(* A nonempty bounded set of naturals has a greatest element: the distance *)
(* to the bound has a least.                                               *)
LEMMA GreatestExists ==
  ASSUME NEW T \in SUBSET Nat, T # {}, NEW b \in Nat, \A x \in T : x <= b
  PROVE  \E x \in T : \A y \in T : y <= x
<1> DEFINE R == {n \in Nat : \E x \in T : n = b - x}
<1>1. PICK t \in T : TRUE
  OBVIOUS
<1>2. b - t \in R
  OBVIOUS
<1>3. PICK n \in R : \A m \in R : n <= m
  BY <1>2, LeastExists
<1>4. PICK x \in T : n = b - x
  BY <1>3
<1>5. \A y \in T : b - y \in R
  OBVIOUS
<1> QED BY <1>3, <1>4, <1>5

(* A done key entered the dict at one of its own rows.                     *)
LEMMA DoneSinceIsRow ==
  ASSUME TypeOK, NEW k \in DoneKeys
  PROVE  DoneSince(k) \in LiveRowsOf(k)
<1>1. LiveRowsOf(k) \in SUBSET Nat /\ LiveRowsOf(k) # {}
  BY DEF TypeOK, DoneKeys, LiveRowsOf, LiveRows
<1>2. \E i \in LiveRowsOf(k) : \A j \in LiveRowsOf(k) : i <= j
  BY <1>1, LeastExists
<1> QED BY <1>2 DEF DoneSince, FirstOf

(* claimed, as a run that reads the index starts with it: a name is claimed *)
(* by a done key, by two keys run together, or by none, and by one of the   *)
(* former if some done key holds it.                                       *)
LEMMA ClaimedFromSpec ==
  ASSUME TypeOK
  PROVE  /\ ClaimedFrom \in [Name -> Key \cup {NoKey, Merged}]
         /\ \A n \in Name : ClaimedFrom[n] \in DoneKeys \cup {NoKey, Merged}
         /\ \A k \in DoneKeys : DoneName(k) \in Name => ClaimedFrom[DoneName(k)] # NoKey
<1>1. ASSUME NEW n \in Name, ClaimsOn(n) # {}
      PROVE  ClaimedFrom[n] \in DoneKeys \cup {Merged}
  <2>1. ASSUME NEW i \in ClaimsOn(n)
        PROVE  i \in LiveRows /\ index[i].key \in DoneKeys \cup {Merged}
    <3>1. CASE i \in LiveRowsOf(Merged)
      BY <3>1 DEF LiveRowsOf
    <3>2. CASE i \notin LiveRowsOf(Merged)
      <4>1. PICK k \in DoneKeys : i = DoneSince(k)
        BY <2>1, <3>2 DEF ClaimsOn
      <4> QED BY <4>1, DoneSinceIsRow DEF LiveRowsOf
    <3> QED BY <3>1, <3>2
  <2>2. LiveRows \in SUBSET Nat /\ Len(index) \in Nat /\ \A i \in LiveRows : i <= Len(index)
    BY DEF LiveRows, TypeOK
  <2>3. \E i \in ClaimsOn(n) : \A j \in ClaimsOn(n) : j <= i
    BY <1>1, <2>1, <2>2, GreatestExists
  <2>4. LastOf(ClaimsOn(n)) \in ClaimsOn(n)
    BY <2>3 DEF LastOf
  <2>5. ClaimedFrom[n] = index[LastOf(ClaimsOn(n))].key
    BY <1>1 DEF ClaimedFrom
  <2> QED BY <2>1, <2>4, <2>5
<1>2. \A n \in Name : ClaimsOn(n) = {} => ClaimedFrom[n] = NoKey
  BY DEF ClaimedFrom
<1>3. DoneKeys \subseteq Key
  BY DEF DoneKeys
<1>4. ClaimedFrom = [n \in Name |-> ClaimedFrom[n]]
  BY DEF ClaimedFrom
<1>5. ASSUME NEW k \in DoneKeys, DoneName(k) \in Name
      PROVE  ClaimedFrom[DoneName(k)] # NoKey
  <2>1. DoneSince(k) \in ClaimsOn(DoneName(k))
    BY DEF ClaimsOn
  <2> QED BY <1>1, <1>3, <1>5, <2>1, NotValues
<1> QED BY <1>1, <1>2, <1>3, <1>4, <1>5

(* What an append, whole or cut short, does to the index.                   *)
Written == [key |-> KeyOf[at], checklist |-> target]

Appends == \/ UNCHANGED rows
           \/ WriteHeader
           \/ \E upto \in Tails \ {"none"} : WriteRow(upto)

LEMMA RowTyped ==
  ASSUME TypeOK, VisitShape, pc = "append"
  PROVE  /\ Written \in Line /\ NoRow \in Line /\ Written.key \in Key
         /\ [Written EXCEPT !.key = Merged] \in Line
         /\ at \in Unique /\ at \in Session /\ target \in Name
BY KeyTyped DEF VisitShape, Unique, Written, NoRow, Line

LEMMA AppendsTyped ==
  ASSUME TypeOK, VisitShape, pc = "append", Appends
  PROVE  /\ index' \in Seq(Line) /\ tail' \in Tails /\ listed' \in SUBSET Name
         /\ tail' = "none" => index' = <<>>
         /\ tail' \notin {"none", "line"} => index' # <<>>
<1>0. index \in Seq(Line) /\ tail \in Tails /\ listed \in SUBSET Name
  BY DEF TypeOK
<1>1. CASE UNCHANGED rows
  BY <1>0, <1>1 DEF rows, VisitShape, OwnLine
<1>2. CASE WriteHeader
  <2>1. /\ listed' = listed /\ tail' \in {"line", "name"}
        /\ (index' = <<>> /\ tail' = "line") \/ index' = <<NoRow>>
    BY <1>2 DEF WriteHeader
  <2>2. <<>> \in Seq(Line) /\ <<NoRow>> \in Seq(Line) /\ <<NoRow>> # <<>>
    BY RowTyped
  <2> QED BY <1>0, <2>1, <2>2 DEF Tails
<1>3. ASSUME NEW upto \in Tails \ {"none"}, WriteRow(upto)
      PROVE  /\ index' \in Seq(Line) /\ tail' \in Tails \ {"none"} /\ listed' \in SUBSET Name
             /\ index' # <<>>
  <2>1. /\ index' = Grown(Written, upto) /\ tail' = GrownTail(upto)
        /\ listed' \in {listed, listed \cup {target}}
    BY <1>3 DEF WriteRow, Written
  <2>2. tail' \in Tails \ {"none"}
    BY <2>1 DEF GrownTail, Tails
  <2>3. CASE OwnLine
    <3>1. Before \in Seq(Line)
      BY <1>0, RowTyped DEF Before
    <3>2. Reads(Written, upto) \in Line
      BY RowTyped DEF Reads
    <3>3. index' = Append(Before, Reads(Written, upto))
      BY <2>1, <2>3 DEF Grown
    <3> QED BY <1>0, <2>1, <2>2, <3>1, <3>2, <3>3, RowTyped, AppendProperties
  <2>4. CASE ~OwnLine
    <3> DEFINE last == CASE tail = "rest" -> index[Len(index)]
                         [] tail = "key"  -> Reads([Written EXCEPT !.key = Merged], upto)
                         [] OTHER         -> NoRow
    <3>1. index' = [index EXCEPT ![Len(index)] = last]
      BY <2>1, <2>4 DEF Grown
    <3>2. index # <<>> /\ Len(index) \in 1..Len(index)
      BY <1>0, <2>4 DEF VisitShape
    <3>3. last \in Line
      BY <1>0, <3>2, RowTyped DEF Reads
    <3> HIDE DEF last
    <3>4. index' \in Seq(Line) /\ Len(index') = Len(index)
      BY <1>0, <3>1, <3>2, <3>3, ExceptSeq
    <3> QED BY <1>0, <2>1, <2>2, <3>2, <3>4, RowTyped
  <2> QED BY <2>3, <2>4
<1> QED BY <1>0, <1>1, <1>2, <1>3 DEF Appends

(* Every action keeps every variable in its declared set, and a visit knows *)
(* its session, its checklist and its target at the steps that use them.    *)
Typed == TypeOK /\ VisitShape

(* A visit that is over, whatever became of its row in the log.             *)
Back(o) == /\ BackInLoop
           /\ Logged(o) \/ LogFails
           /\ faults' \in {faults, faults + 1}

LEMMA LeavesIsBack == \A o : Leaves(o) => Back(o)
BY DEF Leaves, Back, Fault

LEMMA AppendFailsIsBack ==
  AppendFails => /\ Back("failed") /\ pc = "append" /\ Appends
                 /\ UNCHANGED <<files, captures, stopFile, collected>>
BY LeavesIsBack DEF AppendFails, Appends, CutAppend, Back, Fault, rows

LEMMA TypedInit == Init => Typed
<1> SUFFICES ASSUME Init PROVE Typed
  OBVIOUS
<1>1. captures \in [Key -> {"none", "cut", "whole"}] /\ pc \in Stage
  BY DEF Init, Stage
<1>2. index \in Seq(Line) /\ log \in [Session -> Seq(Outcome)]
  BY DEF Init
<1>3. VisitShape /\ tail \in Tails
  BY DEF Init, VisitShape, Tails, OwnLine
<1> QED BY <1>1, <1>2, <1>3 DEF Init, TypeOK, Typed, NoClaims

LEMMA TypedStep == Typed /\ [Next]_vars => Typed'
<1> SUFFICES ASSUME Typed, [Next]_vars PROVE Typed'
  OBVIOUS
<1> USE DEF Typed
<1>1. CASE Start
  <2>1. PICK audits \in Modes, readable \in BOOLEAN :
          StartRun(audits, readable) /\ (UNCHANGED faults \/ Fault)
    BY <1>1 DEF Start
  <2>2. audits \in BOOLEAN
    BY SwitchesBool
  <2>3. claimed' \in [Name -> Key \cup {NoKey, Merged}]
    <3>1. claimed' = IF audits /\ readable THEN ClaimedFrom ELSE NoClaims
      BY <2>1 DEF StartRun
    <3> QED BY <3>1, ClaimedFromSpec DEF NoClaims
  <2>4. log' \in [Session -> Seq(Outcome)]
    <3>1. \A s \in Session : log'[s] \in {<<>>, <<"duplicate">>, <<"already done">>}
      BY <2>1 DEF StartRun
    <3>2. {<<>>, <<"duplicate">>, <<"already done">>} \subseteq Seq(Outcome)
      BY DEF Outcome
    <3>3. log' = [s \in Session |-> log'[s]]
      BY <2>1 DEF StartRun
    <3> QED BY <3>1, <3>2, <3>3
  <2>5. todo' \in SUBSET Unique
    BY <2>1 DEF StartRun
  <2>6. runs' \in Nat /\ pc' \in Stage /\ faults' \in Nat
    <3>1. runs' = runs + 1 /\ pc' = "loop" /\ faults' \in {faults, faults + 1}
      BY <2>1 DEF StartRun, Fault
    <3> QED BY <3>1 DEF TypeOK, Stage
  <2>7. VisitShape' /\ UNCHANGED folder
    BY <2>1 DEF StartRun, VisitShape, folder, OwnLine
  <2>8. listed' \in SUBSET Name /\ released' \in SUBSET Name
    BY <2>1 DEF StartRun, TypeOK
  <2> QED BY <2>1, <2>2, <2>3, <2>4, <2>5, <2>6, <2>7, <2>8 DEF StartRun, TypeOK, folder
<1>2. CASE NextSwitch
  BY <1>2 DEF TypeOK, VisitShape, NextSwitch, Stage, folder, history, OwnLine
<1>3. CASE Complete \/ Stopped \/ Killed
  <2>1. /\ \E how \in {"complete", "stopped", "killed"} : Ends(how)
        /\ UNCHANGED <<files, captures, stopFile>>
        /\ faults' \in {faults, faults + 1}
        /\ UNCHANGED rows \/ (pc = "append" /\ Appends)
    BY <1>3 DEF Complete, Stopped, Killed, CutAppend, Fault, folder, rows, Appends
  <2>2. /\ index' \in Seq(Line) /\ tail' \in Tails /\ listed' \in SUBSET Name
        /\ tail' = "none" => index' = <<>>
        /\ tail' \notin {"none", "line"} => index' # <<>>
    BY <2>1, AppendsTyped DEF rows, TypeOK, VisitShape, OwnLine
  <2> QED BY <2>1, <2>2 DEF TypeOK, VisitShape, Ends, Stage, OwnLine, NoClaims
<1>4. CASE Visit
  <2>1. ASSUME NEW o \in Outcome, Back(o), UNCHANGED <<files, stopFile>>,
               UNCHANGED rows \/ (pc = "append" /\ Appends),
               captures' \in [Key -> {"none", "cut", "whole"}],
               collected' \in SUBSET Unique
        PROVE  Typed'
    <3>1. log' \in [Session -> Seq(Outcome)] /\ lost' \in BOOLEAN
      <4>1. "failed" \in Outcome
        BY DEF Outcome
      <4>2. \A x \in Outcome :
              [log EXCEPT ![at] = Append(@, x)] \in [Session -> Seq(Outcome)]
        BY AppendProperties DEF TypeOK
      <4>3. lost' \in BOOLEAN
        BY <2>1 DEF Back, Logged, LogFails, TypeOK
      <4>4. \/ log' = log
            \/ \E x \in Outcome : log' = [log EXCEPT ![at] = Append(@, x)]
        BY <2>1, <4>1 DEF Back, Logged, LogFails
      <4> QED BY <4>2, <4>3, <4>4 DEF TypeOK
    <3>2. /\ index' \in Seq(Line) /\ tail' \in Tails /\ listed' \in SUBSET Name
          /\ tail' = "none" => index' = <<>>
          /\ tail' \notin {"none", "line"} => index' # <<>>
      BY <2>1, AppendsTyped DEF rows, TypeOK, VisitShape, OwnLine
    <3>3. VisitShape'
      BY <2>1, <3>2 DEF Back, BackInLoop, VisitShape, OwnLine
    <3> QED BY <2>1, <3>1, <3>2, <3>3 DEF Back, BackInLoop, TypeOK, Stage
  <2>2. ASSUME NEW from \in Stage, NEW to \in Stage, Moves(from, to),
               files' \in [Name -> Key \cup {NoKey}],
               captures' \in [Key -> {"none", "cut", "whole"}],
               index' \in Seq(Line), tail' \in Tails, UNCHANGED stopFile,
               claimed' \in [Name -> Key \cup {NoKey, Merged}],
               produced' \in Base \cup {NoBase}, target' \in Name \cup {NoKey},
               listed' \in SUBSET Name, collected' \in SUBSET Unique
        PROVE  TypeOK'
    BY <2>2 DEF Moves, TypeOK
  <2>3. /\ {"captured", "audit failed", "checklisted", "failed"} \subseteq Outcome
        /\ {"collect", "writing", "audit", "place", "rename", "clear", "append",
            "report"} \subseteq Stage
    BY DEF Outcome, Stage
  <2>4. pc \notin {"idle", "loop"} => at \in Unique /\ KeyOf[at] \in Key
    BY KeyTyped DEF Unique, VisitShape
  <2>5. CASE VisitFails \/ OpenFails \/ WriteFails \/ AuditFails \/ PlaceFails
             \/ AppendFails \/ Report
    <3>1. \E o \in Outcome : Back(o)
      BY <2>3, <2>5, LeavesIsBack, AppendFailsIsBack DEF VisitFails, OpenFails, WriteFails,
           AuditFails, PlaceFails, Report
    <3>2. CASE AppendFails
      BY <2>1, <3>1, <3>2, AppendFailsIsBack DEF TypeOK
    <3>3. CASE ~AppendFails
      <4>1. UNCHANGED <<files, captures, stopFile, collected, index, tail, listed>>
        BY <2>5, <3>3 DEF VisitFails, OpenFails, WriteFails, AuditFails, PlaceFails, Report,
             folder
      <4>2. UNCHANGED rows
        BY <4>1 DEF rows
      <4> QED BY <2>1, <3>1, <4>1, <4>2 DEF TypeOK
    <3> QED BY <3>2, <3>3
  <2>6. CASE KeepCapture
    <3>1. Back("captured") /\ UNCHANGED <<files, stopFile>> /\ UNCHANGED rows
      BY <2>6, LeavesIsBack DEF KeepCapture
    <3>2. captures' \in [Key -> {"none", "cut", "whole"}]
      BY <2>6 DEF KeepCapture, TypeOK
    <3>3. collected' \in SUBSET Unique
      BY <2>4, <2>6 DEF KeepCapture, TypeOK
    <3> QED BY <2>1, <2>3, <3>1, <3>2, <3>3
  <2>7. CASE OpenCapture
    <3>1. VisitShape'
      BY <2>7 DEF OpenCapture, Moves, VisitShape, OwnLine, rows
    <3> QED BY <2>2, <2>3, <2>7, <3>1 DEF OpenCapture, TypeOK, rows
  <2>8. CASE WriteCapture
    <3>1. VisitShape'
      BY <2>8 DEF WriteCapture, Moves, VisitShape, OwnLine, rows
    <3>2. at \in Unique
      BY <2>4, <2>8 DEF WriteCapture, Moves
    <3> QED BY <2>2, <2>3, <2>8, <3>1, <3>2 DEF WriteCapture, TypeOK, rows
  <2>9. CASE Audit
    <3>1. produced' \in Base
      BY <2>4, <2>9, BasesTyped DEF Audit, Moves, Unique
    <3>2. VisitShape'
      BY <2>9, <3>1 DEF Audit, Moves, VisitShape, OwnLine, folder
    <3> QED BY <2>2, <2>3, <2>9, <3>1, <3>2 DEF Audit, TypeOK, folder, rows
  <2>10. CASE PlaceChecklist
    <3>1. produced \in Base /\ KeyOf[at] \in Key
      BY <2>4, <2>10 DEF PlaceChecklist, Moves, VisitShape, OwnLine, rows
    <3>2. Targets(KeyOf[at], produced) \subseteq Name
      BY <3>1, CopiesNat DEF Targets, Plain, Name, Copies
    <3>3. PICK n \in Name : /\ target' = n /\ files' = [files EXCEPT ![n] = NoKey]
                            /\ listed' = listed \ {n}
      BY <2>10, <3>2 DEF PlaceChecklist
    <3>4. VisitShape'
      BY <2>10, <3>3 DEF PlaceChecklist, Moves, VisitShape, OwnLine, rows
    <3> QED BY <2>2, <2>3, <2>10, <3>3, <3>4 DEF PlaceChecklist, TypeOK
  <2>11. CASE Rename
    <3>1. VisitShape'
      BY <2>11 DEF Rename, Moves, VisitShape, OwnLine, rows
    <3>2. KeyOf[at] \in Key
      BY <2>4, <2>11 DEF Rename, Moves
    <3> QED BY <2>2, <2>3, <2>11, <3>1, <3>2 DEF Rename, TypeOK, rows
  <2>12. CASE ClearCapture
    <3>1. VisitShape'
      BY <2>12 DEF ClearCapture, Moves, VisitShape, OwnLine, rows
    <3>2. KeyOf[at] \in Key
      BY <2>4, <2>12 DEF ClearCapture, Moves
    <3> QED BY <2>2, <2>3, <2>12, <3>1, <3>2 DEF ClearCapture, TypeOK, rows
  <2>13. CASE AppendIndex
    <3>1. Appends /\ pc = "append" /\ Moves("append", "report")
      BY <2>13 DEF AppendIndex, Appends, Moves, Tails
    <3>2. /\ index' \in Seq(Line) /\ tail' \in Tails /\ listed' \in SUBSET Name
          /\ tail' = "none" => index' = <<>>
          /\ tail' \notin {"none", "line"} => index' # <<>>
      BY <3>1, AppendsTyped
    <3>3. VisitShape'
      BY <2>13, <3>1, <3>2 DEF AppendIndex, Moves, VisitShape, OwnLine
    <3> QED BY <2>2, <2>3, <2>13, <3>1, <3>2, <3>3 DEF AppendIndex, TypeOK
  <2> QED BY <1>4, <2>5, <2>6, <2>7, <2>8, <2>9, <2>10, <2>11, <2>12, <2>13 DEF Visit
<1>5. CASE \E n \in Name : DeleteChecklist(n)
  BY <1>5 DEF TypeOK, VisitShape, DeleteChecklist, run, OwnLine
<1>6. CASE ToggleStop
  BY <1>6 DEF TypeOK, VisitShape, ToggleStop, run, history, OwnLine
<1>7. CASE UNCHANGED vars
  BY <1>7 DEF TypeOK, VisitShape, vars, folder, run, history, OwnLine
<1> QED BY <1>1, <1>2, <1>3, <1>4, <1>5, <1>6, <1>7 DEF Next, Walking

THEOREM TypeCorrect == Spec => []TypeOK
<1>1. Typed => TypeOK
  BY DEF Typed
<1> QED BY <1>1, TypedInit, TypedStep, PTL DEF Spec

(* The keys read_index() returns are the keys of the listed checklists and   *)
(* more; each listed checklist is the one its key is done with.             *)
LEMMA ListedAreDone ==
  ASSUME TypeOK, ListedAreIndexed, NEW n \in listed
  PROVE  n \in Name /\ files[n] \in DoneKeys /\ DoneName(files[n]) = n
<1> DEFINE k == files[n]
<1>1. n \in Name /\ k \in Key
  BY DEF TypeOK, ListedAreIndexed
<1>2. PICK i \in DOMAIN index :
        /\ Lasting(i)
        /\ index[i] = [key |-> k, checklist |-> n]
        /\ \A j \in DOMAIN index : i < j => index[j].key # k
  BY DEF ListedAreIndexed
<1>3. i \in LiveRowsOf(k)
  BY <1>1, <1>2, NotValues DEF LiveRowsOf, LiveRows, Lasting
<1>4. LiveRowsOf(k) \subseteq DOMAIN index /\ LiveRowsOf(k) \subseteq Nat
  BY DEF LiveRowsOf, LiveRows, TypeOK
<1>5. \A j \in LiveRowsOf(k) : j <= i
  BY <1>2, <1>4 DEF LiveRowsOf, TypeOK
<1>6. LastOf(LiveRowsOf(k)) = i
  <2>1. \A j \in LiveRowsOf(k) : (\A m \in LiveRowsOf(k) : m <= j) => j = i
    BY <1>3, <1>4, <1>5
  <2> QED BY <1>3, <1>5, <2>1 DEF LastOf
<1> QED BY <1>1, <1>2, <1>3, <1>6 DEF DoneKeys, DoneName

(* What the folder promises survives every start: one that reads the index  *)
(* claims what is listed, and one that cannot promises nothing.             *)
LEMMA InductiveStart ==
  ASSUME Inductive, NEW audits \in BOOLEAN, NEW readable \in BOOLEAN, StartRun(audits, readable),
         audits \/ readable
  PROVE  /\ ListedAreClaimed' /\ WaitingClaimNothing' /\ WaitingHaveNone'
         /\ ListedAreIndexed' /\ TargetIsFree' /\ RowsAreListed'
<1>1. TypeOK /\ ListedAreIndexed /\ RowsAreListed
  BY DEF Inductive
<1>2. /\ pc' = "loop" /\ auditing' = audits /\ UNCHANGED <<files, index, tail, target>>
      /\ claimed' = IF audits /\ readable THEN ClaimedFrom ELSE NoClaims
  BY DEF StartRun, folder
<1>3. \A s \in todo' : /\ KeyOf[s] \in Key
                       /\ audits /\ readable => KeyOf[s] \notin DoneKeys
  BY KeyTyped DEF StartRun, Unique
<1>4. Waiting(Placing)' = todo' /\ Waiting(Placing \cup {"append"})' = todo'
  BY <1>2 DEF Waiting, Placing
<1>5. WaitingClaimNothing'
  <2> SUFFICES ASSUME NEW s \in todo', NEW n \in Name PROVE claimed'[n] # KeyOf[s]
    BY <1>4 DEF WaitingClaimNothing
  <2>1. CASE audits /\ readable
    BY <1>1, <1>2, <1>3, <2>1, ClaimedFromSpec, NotValues
  <2>2. CASE ~(audits /\ readable)
    BY <1>2, <1>3, <2>2, NotValues DEF NoClaims
  <2> QED BY <2>1, <2>2
<1>6. \A i : Lasting(i)' <=> Lasting(i)
  BY <1>2 DEF Lasting
<1>7. TargetIsFree'
  BY <1>2 DEF TargetIsFree
<1>8. CASE readable
  <2>1. UNCHANGED <<listed, released>>
    BY <1>8 DEF StartRun
  <2>2. ListedAreClaimed'
    <3> SUFFICES ASSUME audits, NEW n \in listed PROVE claimed'[n] # NoKey
      BY <1>2, <2>1 DEF ListedAreClaimed
    <3> QED BY <1>1, <1>2, <1>8, ListedAreDone, ClaimedFromSpec
  <2>3. WaitingHaveNone'
    BY <1>1, <1>2, <1>3, <1>4, <1>8, <2>1, ListedAreDone DEF WaitingHaveNone
  <2>4. ListedAreIndexed' /\ RowsAreListed'
    BY <1>1, <1>2, <1>6, <2>1 DEF ListedAreIndexed, RowsAreListed
  <2> QED BY <1>5, <1>7, <2>2, <2>3, <2>4
<1>9. CASE ~readable
  <2>1. listed' = {} /\ released' = released \cup listed
    BY <1>9 DEF StartRun
  <2>2. ListedAreClaimed' /\ WaitingHaveNone' /\ ListedAreIndexed'
    BY <2>1 DEF ListedAreClaimed, WaitingHaveNone, ListedAreIndexed
  <2>3. RowsAreListed'
    BY <1>1, <1>2, <1>6, <2>1 DEF RowsAreListed
  <2> QED BY <1>5, <1>7, <2>2, <2>3
<1> QED BY <1>8, <1>9

(* Two frames the steps below share: what a step does not touch stays true. *)
LEMMA IndexFrame ==
  ASSUME ListedAreIndexed, RowsAreListed, UNCHANGED <<index, tail, listed, released>>,
         \A n \in listed : files'[n] = files[n]
  PROVE  ListedAreIndexed' /\ RowsAreListed'
<1>0. \A i : Lasting(i)' <=> Lasting(i)
  BY DEF Lasting
<1>1. ListedAreIndexed'
  BY <1>0 DEF ListedAreIndexed
<1>2. RowsAreListed'
  BY <1>0 DEF RowsAreListed
<1> QED BY <1>1, <1>2

LEMMA WaitingFrame ==
  ASSUME WaitingClaimNothing, WaitingHaveNone, UNCHANGED <<listed, claimed>>,
         auditing' => auditing, \A n \in listed : files'[n] = files[n],
         Waiting(Placing)' \subseteq Waiting(Placing),
         Waiting(Placing \cup {"append"})' \subseteq Waiting(Placing \cup {"append"})
  PROVE  WaitingClaimNothing' /\ WaitingHaveNone'
<1>1. WaitingClaimNothing'
  BY DEF WaitingClaimNothing
<1>2. WaitingHaveNone'
  BY DEF WaitingHaveNone
<1> QED BY <1>1, <1>2

(* A way out of a visit touches no checklist, no claim and no row.          *)
LEMMA InductiveLeaves ==
  ASSUME Inductive, pc # "idle", NEW o, Back(o), UNCHANGED <<files, index, tail, listed>>
  PROVE  /\ ListedAreClaimed' /\ WaitingClaimNothing' /\ WaitingHaveNone'
         /\ ListedAreIndexed' /\ TargetIsFree' /\ RowsAreListed'
<1>1. /\ pc' = "loop"
      /\ UNCHANGED <<auditing, todo, claimed, released>>
  BY DEF Back, BackInLoop
<1>2. /\ Waiting(Placing)' = todo /\ todo \subseteq Waiting(Placing)
      /\ Waiting(Placing \cup {"append"})' = todo
      /\ todo \subseteq Waiting(Placing \cup {"append"})
  BY <1>1 DEF Waiting, Placing
<1>3. ListedAreIndexed' /\ RowsAreListed' /\ WaitingClaimNothing' /\ WaitingHaveNone'
  BY <1>1, <1>2, IndexFrame, WaitingFrame DEF Inductive
<1> QED BY <1>1, <1>3 DEF Inductive, ListedAreClaimed, TargetIsFree

(* A step of a visit that leaves checklists, claims and rows alone.         *)
LEMMA InductiveMoves ==
  ASSUME Inductive, NEW from \in {"collect", "writing", "audit"}, NEW to \in Placing,
         to \notin {"rename", "clear"}, Moves(from, to),
         UNCHANGED <<files, index, tail, listed, claimed>>
  PROVE  /\ ListedAreClaimed' /\ WaitingClaimNothing' /\ WaitingHaveNone'
         /\ ListedAreIndexed' /\ TargetIsFree' /\ RowsAreListed'
<1>1. /\ pc = from /\ pc' = to
      /\ UNCHANGED <<auditing, todo, at, released>>
  BY DEF Moves
<1>2. /\ Waiting(Placing)' = Waiting(Placing)
      /\ Waiting(Placing \cup {"append"})' = Waiting(Placing \cup {"append"})
  BY <1>1 DEF Waiting, Placing
<1>3. ListedAreIndexed' /\ RowsAreListed' /\ WaitingClaimNothing' /\ WaitingHaveNone'
  BY <1>1, <1>2, IndexFrame, WaitingFrame DEF Inductive
<1> QED BY <1>1, <1>3 DEF Inductive, ListedAreClaimed, TargetIsFree, Placing

(* place_checklist() never takes a listed name: one it finds unclaimed is   *)
(* not listed, and one it picks itself is not there at all.                 *)
LEMMA PlacesOnFreeName ==
  ASSUME Inductive, PlaceChecklist
  PROVE  \E n \in Name \ listed : /\ target' = n /\ files' = [files EXCEPT ![n] = NoKey]
                                  /\ listed' = listed
<1>1. /\ pc = "place" /\ at \in Waiting(Placing) /\ auditing /\ produced \in Base
      /\ at \in Unique /\ KeyOf[at] \in Key
  BY KeyTyped DEF PlaceChecklist, Moves, Inductive, VisitShape, Waiting, Placing, Unique
<1>2. PICK n \in Targets(KeyOf[at], produced) :
        /\ target' = n /\ files' = [files EXCEPT ![n] = NoKey] /\ listed' = listed \ {n}
  BY DEF PlaceChecklist
<1>3. n \in Name
  BY <1>1, <1>2, CopiesNat DEF Targets, Plain, Name, Copies
<1>4. CASE Collided(KeyOf[at], produced)
  <2>1. files[n] = NoKey
    BY <1>2, <1>4 DEF Targets
  <2>2. n \notin listed
    BY <2>1 DEF Inductive, ListedAreIndexed
  <2> QED BY <1>2, <1>3, <2>2
<1>5. CASE ~Collided(KeyOf[at], produced)
  <2>1. n = Plain(produced)
    BY <1>2, <1>5 DEF Targets
  <2>2. claimed[n] = NoKey
    <3>1. claimed[n] \in {NoKey, KeyOf[at]}
      BY <1>5, <2>1 DEF Collided
    <3>2. claimed[n] # KeyOf[at]
      BY <1>1, <1>3 DEF Inductive, WaitingClaimNothing
    <3> QED BY <3>1, <3>2
  <2>3. n \notin listed
    BY <1>1, <2>2 DEF Inductive, ListedAreClaimed
  <2> QED BY <1>2, <1>3, <2>3
<1> QED BY <1>4, <1>5

(* The append, whole or cut short, behind which the visit or the run is      *)
(* over: rows that last go on lasting; a row that is listed now does, and    *)
(* its session is the only one of its key.                                  *)
LEMMA RowsAfter ==
  ASSUME Typed, pc = "append", Appends
  PROVE  /\ \A i : Lasting(i) => Lasting(i)' /\ index'[i] = index[i]
         /\ \A j \in DOMAIN index' : \/ j \in DOMAIN index /\ index'[j] = index[j]
                                     \/ index'[j].key \notin Key
                                     \/ index'[j] = Written
         /\ \A i : Lasting(i)' => \/ Lasting(i)
                                  \/ index'[i] = Written /\ (files[target] = KeyOf[at] => target \in listed')
         /\ \/ listed' = listed
            \/ /\ listed' = listed \cup {target} /\ files[target] = KeyOf[at]
               /\ \E i \in DOMAIN index' :
                    /\ Lasting(i)' /\ index'[i] = Written
                    /\ \A j \in DOMAIN index' : ~(i < j)
<1> USE DEF Typed
<1>0. /\ index \in Seq(Line) /\ Len(index) \in Nat /\ DOMAIN index = 1..Len(index)
      /\ NoRow \in Line /\ Written \in Line /\ Written.key \in Key
      /\ NoRow.key \notin Key /\ [Written EXCEPT !.key = Merged] \in Line
      /\ [Written EXCEPT !.key = Merged].key \notin Key
  BY RowTyped, NotValues DEF TypeOK, NoRow, Written
<1>1. CASE UNCHANGED rows
  BY <1>1 DEF rows, Lasting
<1>2. CASE WriteHeader
  <2>1. /\ listed' = listed /\ index = <<>> /\ index' \in {<<>>, <<NoRow>>}
    BY <1>2 DEF WriteHeader, VisitShape
  <2>2. \A i : ~Lasting(i) /\ ~Lasting(i)'
    BY <2>1 DEF Lasting
  <2>3. \A j \in DOMAIN index' : index'[j] = NoRow
    BY <2>1
  <2> QED BY <1>0, <2>1, <2>2, <2>3
<1>3. ASSUME NEW upto \in Tails \ {"none"}, WriteRow(upto), OwnLine
      PROVE  /\ \A i : Lasting(i) => Lasting(i)' /\ index'[i] = index[i]
             /\ \A j \in DOMAIN index' : \/ j \in DOMAIN index /\ index'[j] = index[j]
                                         \/ index'[j].key \notin Key
                                         \/ index'[j] = Written
             /\ \A i : Lasting(i)' => \/ Lasting(i)
                                      \/ index'[i] = Written /\ (files[target] = KeyOf[at] => target \in listed')
             /\ \/ listed' = listed
                \/ /\ listed' = listed \cup {target} /\ files[target] = KeyOf[at]
                   /\ \E i \in DOMAIN index' :
                        /\ Lasting(i)' /\ index'[i] = Written
                        /\ \A j \in DOMAIN index' : ~(i < j)
  <2> DEFINE new == Reads(Written, upto)
  <2>1. /\ index' = Append(Before, new) /\ tail' = upto
        /\ listed' = IF /\ Before # <<>> /\ upto \in {"rest", "line"}
                        /\ files[target] = KeyOf[at]
                     THEN listed \cup {target} ELSE listed
    <3>1. /\ index' = Grown(Written, upto) /\ tail' = GrownTail(upto)
          /\ listed' = IF /\ OwnLine /\ Before # <<>> /\ upto \in {"rest", "line"}
                          /\ files[target] = KeyOf[at]
                       THEN listed \cup {target} ELSE listed
      BY <1>3 DEF WriteRow, Written
    <3>2. Grown(Written, upto) = Append(Before, new)
      BY <1>3 DEF Grown
    <3>3. GrownTail(upto) = upto
      BY <1>3 DEF GrownTail, OwnLine
    <3> QED BY <1>3, <3>1, <3>2, <3>3
  <2>2. new \in {Written, NoRow} /\ (upto \in {"rest", "line"} => new = Written)
    BY DEF Reads
  <2> HIDE DEF new
  <2>3. Before \in Seq(Line) /\ Len(Before) \in Nat /\ DOMAIN Before = 1..Len(Before)
    <3>1. <<NoRow>> \in Seq(Line)
      BY <1>0
    <3>2. Before \in Seq(Line)
      BY <1>0, <3>1 DEF Before
    <3> QED BY <3>2
  <2>4. /\ DOMAIN index' = 1..(Len(Before) + 1) /\ Len(index') = Len(Before) + 1
        /\ index'[Len(Before) + 1] = new
        /\ \A i \in 1..Len(Before) : index'[i] = Before[i]
    BY <1>0, <2>1, <2>2, <2>3, AppendProperties
  <2>5. \/ Before = index /\ tail = "line"
        \/ Before = <<NoRow>> /\ index = <<>>
    BY <1>3 DEF Before, OwnLine, VisitShape
  <2>6. ASSUME NEW i, Lasting(i)
        PROVE  Lasting(i)' /\ index'[i] = index[i]
    BY <1>0, <2>4, <2>5, <2>6 DEF Lasting
  <2>7. ASSUME NEW j \in DOMAIN index'
        PROVE  \/ j \in DOMAIN index /\ index'[j] = index[j]
               \/ index'[j].key \notin Key
               \/ index'[j] = Written
    <3>1. CASE j = Len(Before) + 1
      BY <1>0, <2>2, <2>4, <3>1
    <3>2. CASE j \in 1..Len(Before) /\ Before = index
      BY <1>0, <2>4, <3>2
    <3>3. CASE j \in 1..Len(Before) /\ Before = <<NoRow>>
      BY <1>0, <2>4, <3>3
    <3> QED BY <2>3, <2>4, <2>5, <3>1, <3>2, <3>3
  <2>8. ASSUME NEW i, Lasting(i)'
        PROVE  \/ Lasting(i)
               \/ index'[i] = Written /\ (files[target] = KeyOf[at] => target \in listed')
    <3>1. i \in 2..(Len(Before) + 1) /\ index'[i].key \in Key
          /\ (i < Len(Before) + 1 \/ upto \in {"line", "rest"})
      BY <2>1, <2>4, <2>8 DEF Lasting
    <3>2. CASE i = Len(Before) + 1
      <4>1. Before # <<>> /\ upto \in {"line", "rest"}
        BY <2>3, <3>1, <3>2
      <4> QED BY <2>1, <2>2, <2>4, <3>2, <4>1
    <3>3. CASE i # Len(Before) + 1
      <4>1. i \in 2..Len(Before) /\ index'[i] = Before[i]
        BY <2>3, <2>4, <3>1, <3>3
      <4> QED BY <1>0, <2>5, <3>1, <4>1 DEF Lasting
    <3> QED BY <3>2, <3>3
  <2>9. ASSUME listed' # listed
        PROVE  /\ listed' = listed \cup {target} /\ files[target] = KeyOf[at]
               /\ \E i \in DOMAIN index' :
                    /\ Lasting(i)' /\ index'[i] = Written
                    /\ \A j \in DOMAIN index' : ~(i < j)
    <3>1. /\ Before # <<>> /\ upto \in {"rest", "line"} /\ files[target] = KeyOf[at]
          /\ listed' = listed \cup {target}
      BY <2>1, <2>9
    <3>2. Len(Before) # 0
      BY <2>3, <3>1, EmptySeq
    <3>3. /\ index'[Len(index')] = Written /\ Len(index') = Len(Before) + 1
          /\ Len(Before) \in Nat \ {0}
      BY <2>2, <2>3, <2>4, <3>1, <3>2
    <3>4. PICK m : m = Len(Before) + 1
      OBVIOUS
    <3>5. Lasting(m)' /\ index'[m] = Written
      BY <1>0, <2>1, <3>1, <3>3, <3>4 DEF Lasting
    <3> QED BY <2>3, <2>4, <3>1, <3>3, <3>4, <3>5
  <2> QED BY <2>6, <2>7, <2>8, <2>9
<1>4. ASSUME NEW upto \in Tails \ {"none"}, WriteRow(upto), ~OwnLine
      PROVE  /\ \A i : Lasting(i) => Lasting(i)' /\ index'[i] = index[i]
             /\ \A j \in DOMAIN index' : \/ j \in DOMAIN index /\ index'[j] = index[j]
                                         \/ index'[j].key \notin Key
             /\ \A i : Lasting(i)' => Lasting(i)
             /\ listed' = listed
  <2> DEFINE last == CASE tail = "rest" -> index[Len(index)]
                       [] tail = "key"  -> Reads([Written EXCEPT !.key = Merged], upto)
                       [] OTHER         -> NoRow
  <2>1. /\ index' = [index EXCEPT ![Len(index)] = last] /\ listed' = listed
        /\ tail = "rest" => tail' \in {"rest", "line"}
    BY <1>4 DEF WriteRow, Grown, GrownTail, Written, OwnLine
  <2>2. index # <<>> /\ Len(index) \in 1..Len(index)
    BY <1>0, <1>4 DEF VisitShape
  <2>3. last \in Line /\ (tail # "rest" => last.key \notin Key)
                      /\ (tail = "rest" => last = index[Len(index)])
    BY <1>0, <2>2 DEF Reads
  <2> HIDE DEF last
  <2>4. /\ Len(index') = Len(index) /\ DOMAIN index' = 1..Len(index)
        /\ \A j \in 1..Len(index) : index'[j] = IF j = Len(index) THEN last ELSE index[j]
    BY <1>0, <2>1, <2>2, <2>3, ExceptSeq
  <2>5. ASSUME NEW i, Lasting(i)
        PROVE  Lasting(i)' /\ index'[i] = index[i]
    <3>1. /\ i \in 2..Len(index) /\ index[i].key \in Key /\ i \in 1..Len(index)
          /\ i < Len(index) \/ tail \in {"line", "rest"}
      BY <1>0, <2>5 DEF Lasting
    <3>2. tail # "line"
      BY <1>4 DEF OwnLine
    <3>3. index'[i] = index[i]
      BY <1>0, <2>3, <2>4, <3>1, <3>2
    <3>4. i < Len(index) \/ tail' \in {"line", "rest"}
      BY <2>1, <3>1, <3>2
    <3> QED BY <2>4, <3>1, <3>3, <3>4 DEF Lasting
  <2>6. ASSUME NEW i, Lasting(i)'
        PROVE  Lasting(i)
    <3>1. /\ i \in 2..Len(index) /\ index'[i].key \in Key /\ i \in 1..Len(index)
      BY <1>0, <2>4, <2>6 DEF Lasting
    <3>2. CASE i = Len(index)
      <4>1. tail = "rest" /\ index'[i] = index[i]
        BY <2>3, <2>4, <3>1, <3>2
      <4> QED BY <3>1, <4>1 DEF Lasting
    <3>3. CASE i # Len(index)
      BY <1>0, <2>4, <3>1, <3>3 DEF Lasting
    <3> QED BY <3>2, <3>3
  <2>7. ASSUME NEW j \in DOMAIN index'
        PROVE  \/ j \in DOMAIN index /\ index'[j] = index[j]
               \/ index'[j].key \notin Key
    BY <1>0, <2>3, <2>4
  <2> QED BY <2>1, <2>5, <2>6, <2>7
<1> QED BY <1>1, <1>2, <1>3, <1>4 DEF Appends

LEMMA ListedAfter ==
  ASSUME Appends
  PROVE  \/ listed' = listed
         \/ listed' = listed \cup {target} /\ files[target] = KeyOf[at]
BY DEF Appends, rows, WriteHeader, WriteRow

LEMMA InductiveAppends ==
  ASSUME Inductive, pc = "append", Appends, pc' \in {"report", "loop", "idle"},
         UNCHANGED <<files, auditing, released>>, todo' \subseteq todo,
         pc' = "idle" => todo' = {}, pc' # "idle" => UNCHANGED claimed
  PROVE  /\ ListedAreClaimed' /\ WaitingClaimNothing' /\ WaitingHaveNone'
         /\ ListedAreIndexed' /\ TargetIsFree' /\ RowsAreListed'
<1>0. Typed
  BY DEF Inductive, Typed
<1>1. /\ target \in Name \ listed /\ at \in Unique /\ at \notin todo /\ auditing
      /\ KeyOf[at] \in Key /\ claimed[target] = KeyOf[at]
      /\ files[target] = KeyOf[at] \/ target \in released
      /\ Written = [key |-> KeyOf[at], checklist |-> target]
  BY KeyTyped DEF Inductive, VisitShape, TargetIsFree, Unique, Written
<1>2. /\ Waiting(Placing)' = todo' /\ todo' \subseteq Waiting(Placing)
      /\ Waiting(Placing \cup {"append"})' = todo'
      /\ todo' \subseteq Waiting(Placing \cup {"append"})
      /\ at \in Waiting(Placing \cup {"append"})
  BY DEF Waiting, Placing
<1>3. \A n \in listed : files[n] # KeyOf[at]
  BY <1>1, <1>2 DEF Inductive, WaitingHaveNone
<1>4. \A s \in todo' : KeyOf[s] # KeyOf[at]
  BY <1>1, KeysDistinct DEF Inductive, TypeOK
<1>5. \A n \in listed' : n \in listed \/ (n = target /\ files[target] = KeyOf[at])
  BY ListedAfter
<1>6. ListedAreClaimed'
  BY <1>1, <1>5, NotValues DEF Inductive, ListedAreClaimed
<1>7. WaitingClaimNothing'
  <2>1. CASE pc' = "idle"
    BY <1>2, <2>1 DEF WaitingClaimNothing
  <2>2. CASE pc' # "idle"
    BY <1>2, <2>2 DEF Inductive, WaitingClaimNothing
  <2> QED BY <2>1, <2>2
<1>8. WaitingHaveNone'
  BY <1>1, <1>2, <1>4, <1>5 DEF Inductive, WaitingHaveNone
<1>9. ListedAreIndexed'
  <2>1. ASSUME NEW n \in listed
        PROVE  /\ files[n] # NoKey
               /\ \E i \in DOMAIN index' :
                    /\ Lasting(i)' /\ index'[i] = [key |-> files[n], checklist |-> n]
                    /\ \A j \in DOMAIN index' : i < j => index'[j].key # files[n]
    <3>1. PICK i \in DOMAIN index :
            /\ Lasting(i) /\ index[i] = [key |-> files[n], checklist |-> n]
            /\ \A j \in DOMAIN index : i < j => index[j].key # files[n]
      BY DEF Inductive, ListedAreIndexed
    <3>2. files[n] \in Key /\ files[n] # NoKey /\ files[n] # KeyOf[at]
      BY <1>3 DEF Inductive, ListedAreIndexed, TypeOK
    <3>3. Lasting(i)' /\ index'[i] = index[i] /\ i \in DOMAIN index'
      <4>1. Lasting(i)' /\ index'[i] = index[i] /\ index' \in Seq(Line)
        BY <1>0, <3>1, RowsAfter, AppendsTyped DEF Typed
      <4> QED BY <4>1 DEF Lasting
    <3>4. ASSUME NEW j \in DOMAIN index', i < j
          PROVE  index'[j].key # files[n]
      <4>1. \/ j \in DOMAIN index /\ index'[j] = index[j]
            \/ index'[j].key \notin Key
            \/ index'[j] = Written
        BY <1>0, RowsAfter
      <4> QED BY <1>1, <3>1, <3>2, <3>4, <4>1
    <3> QED BY <3>1, <3>2, <3>3, <3>4
  <2>2. ASSUME target \in listed'
        PROVE  /\ files[target] # NoKey
               /\ \E i \in DOMAIN index' :
                    /\ Lasting(i)' /\ index'[i] = [key |-> files[target], checklist |-> target]
                    /\ \A j \in DOMAIN index' : i < j => index'[j].key # files[target]
    <3>1. listed' # listed /\ files[target] = KeyOf[at]
      BY <1>1, <1>5, <2>2
    <3>2. PICK i \in DOMAIN index' : /\ Lasting(i)' /\ index'[i] = Written
                                     /\ \A j \in DOMAIN index' : ~(i < j)
      BY <1>0, <3>1, RowsAfter
    <3> QED BY <1>1, <3>1, <3>2, NotValues
  <2> QED BY <1>5, <2>1, <2>2 DEF ListedAreIndexed
<1>10. TargetIsFree'
  BY DEF TargetIsFree
<1>11. RowsAreListed'
  <2> SUFFICES ASSUME NEW i \in DOMAIN index', Lasting(i)', index'[i].checklist \notin released
               PROVE  /\ index'[i].checklist \in listed'
                      /\ files[index'[i].checklist] = index'[i].key
    BY DEF RowsAreListed
  <2>1. CASE Lasting(i)
    <3>1. i \in DOMAIN index /\ index'[i] = index[i]
      BY <1>0, <2>1, RowsAfter DEF Lasting, Typed, TypeOK
    <3>2. listed \subseteq listed'
      BY <1>0, RowsAfter
    <3> QED BY <2>1, <3>1, <3>2 DEF Inductive, RowsAreListed
  <2>2. CASE ~Lasting(i)
    <3>1. index'[i] = Written /\ (files[target] = KeyOf[at] => target \in listed')
      BY <1>0, <2>2, RowsAfter
    <3> QED BY <1>1, <3>1
  <2> QED BY <2>1, <2>2
<1> QED BY <1>6, <1>7, <1>8, <1>9, <1>10, <1>11

LEMMA InductiveStep == Inductive /\ [Next]_vars => Inductive'
<1> SUFFICES ASSUME Inductive, [Next]_vars PROVE Inductive'
  OBVIOUS
<1>1. (TypeOK /\ VisitShape)'
  BY TypedStep DEF Inductive, Typed
<1>2. SUFFICES /\ ListedAreClaimed' /\ WaitingClaimNothing' /\ WaitingHaveNone'
               /\ ListedAreIndexed' /\ TargetIsFree' /\ RowsAreListed'
  BY <1>1 DEF Inductive
<1> USE DEF Inductive
<1>3. CASE Start
  <2>1. \E audits \in BOOLEAN, readable \in BOOLEAN :
          StartRun(audits, readable) /\ (audits \/ readable)
    BY <1>3, SwitchesBool DEF Start
  <2> QED BY <2>1, InductiveStart
<1>4. CASE NextSwitch
  <2>1. /\ pc' = "collect" /\ at' \in todo /\ todo' = todo \ {at'}
        /\ UNCHANGED <<files, index, tail, listed, claimed, auditing, released, target>>
    BY <1>4 DEF NextSwitch, folder, history
  <2>2. /\ Waiting(Placing)' \subseteq Waiting(Placing)
        /\ Waiting(Placing \cup {"append"})' \subseteq Waiting(Placing \cup {"append"})
    BY <2>1 DEF Waiting, Placing
  <2>3. pc # "idle"
    BY <1>4 DEF NextSwitch
  <2>4. ListedAreIndexed' /\ RowsAreListed' /\ WaitingClaimNothing' /\ WaitingHaveNone'
    BY <2>1, <2>2, IndexFrame, WaitingFrame
  <2> QED BY <2>1, <2>3, <2>4 DEF ListedAreClaimed, TargetIsFree
<1>5. CASE Complete \/ Stopped \/ Killed
  <2>1. /\ pc' = "idle" /\ todo' = {} /\ UNCHANGED <<files, auditing, released>>
        /\ UNCHANGED rows \/ (pc = "append" /\ Appends)
    BY <1>5 DEF Complete, Stopped, Killed, Ends, folder, Appends, CutAppend
  <2>2. CASE UNCHANGED rows
    <3>1. Waiting(Placing)' = {} /\ Waiting(Placing \cup {"append"})' = {}
      BY <2>1 DEF Waiting, Placing
    <3>2. ListedAreIndexed' /\ RowsAreListed'
      BY <2>1, <2>2, IndexFrame DEF rows
    <3> QED BY <2>1, <3>1, <3>2 DEF ListedAreClaimed, WaitingClaimNothing, WaitingHaveNone,
              TargetIsFree
  <2>3. CASE pc = "append" /\ Appends
    BY <2>1, <2>3, InductiveAppends
  <2> QED BY <2>1, <2>2, <2>3
<1>6. CASE VisitFails \/ OpenFails \/ WriteFails \/ KeepCapture \/ AuditFails \/ PlaceFails
           \/ Report
  <2>1. \E o \in Outcome : Back(o)
    BY <1>6, LeavesIsBack DEF VisitFails, OpenFails, WriteFails, KeepCapture, AuditFails,
         PlaceFails, Report, Outcome
  <2>2. pc # "idle" /\ UNCHANGED <<files, index, tail, listed>>
    BY <1>6 DEF VisitFails, OpenFails, WriteFails, KeepCapture, AuditFails, PlaceFails,
         Report, folder, rows
  <2> QED BY <2>1, <2>2, InductiveLeaves
<1>7. CASE OpenCapture \/ WriteCapture \/ Audit
  <2>1. \/ Moves("collect", "writing")
        \/ Moves("writing", "audit")
        \/ Moves("audit", "place")
    BY <1>7 DEF OpenCapture, WriteCapture, Audit
  <2>2. UNCHANGED <<files, index, tail, listed, claimed>>
    BY <1>7 DEF OpenCapture, WriteCapture, Audit, folder, rows
  <2> QED BY <2>1, <2>2, InductiveMoves DEF Placing
<1>8. CASE PlaceChecklist
  <2>1. PICK n \in Name \ listed :
          target' = n /\ files' = [files EXCEPT ![n] = NoKey] /\ listed' = listed
    BY <1>8, PlacesOnFreeName
  <2>2. /\ pc = "place" /\ pc' = "rename"
        /\ UNCHANGED <<index, tail, claimed, auditing, todo, at, released>>
    BY <1>8 DEF PlaceChecklist, Moves
  <2>3. /\ Waiting(Placing)' = Waiting(Placing)
        /\ Waiting(Placing \cup {"append"})' = Waiting(Placing \cup {"append"})
    BY <2>2 DEF Waiting, Placing
  <2>4. \A m \in listed : files'[m] = files[m]
    BY <2>1 DEF TypeOK
  <2>5. ListedAreIndexed' /\ RowsAreListed' /\ WaitingClaimNothing' /\ WaitingHaveNone'
    BY <2>1, <2>2, <2>3, <2>4, IndexFrame, WaitingFrame
  <2> QED BY <2>1, <2>2, <2>5 DEF ListedAreClaimed, TargetIsFree
<1>9. CASE Rename
  <2>1. /\ pc = "rename" /\ pc' = "clear" /\ target \notin listed /\ target \in Name
        /\ files' = [files EXCEPT ![target] = KeyOf[at]]
        /\ UNCHANGED <<index, tail, claimed, auditing, todo, at, released, listed, target>>
    BY <1>9 DEF Rename, Moves, TargetIsFree, VisitShape, rows
  <2>2. /\ Waiting(Placing)' = Waiting(Placing)
        /\ Waiting(Placing \cup {"append"})' = Waiting(Placing \cup {"append"})
    BY <2>1 DEF Waiting, Placing
  <2>3. (\A m \in listed : files'[m] = files[m]) /\ files'[target] = KeyOf[at]
    BY <2>1 DEF TypeOK
  <2>4. ListedAreIndexed' /\ RowsAreListed' /\ WaitingClaimNothing' /\ WaitingHaveNone'
    BY <2>1, <2>2, <2>3, IndexFrame, WaitingFrame
  <2> QED BY <2>1, <2>3, <2>4 DEF ListedAreClaimed, TargetIsFree
<1>10. CASE ClearCapture
  <2>1. /\ pc = "clear" /\ pc' = "append" /\ target \in Name /\ at \in Unique
        /\ at \notin todo /\ claimed' = [claimed EXCEPT ![target] = KeyOf[at]]
        /\ UNCHANGED <<files, index, tail, auditing, todo, at, released, listed, target>>
    BY <1>10 DEF ClearCapture, Moves, VisitShape, rows
  <2>2. /\ Waiting(Placing)' = todo /\ todo \subseteq Waiting(Placing)
        /\ Waiting(Placing \cup {"append"})' = Waiting(Placing \cup {"append"})
    BY <2>1 DEF Waiting, Placing
  <2>3. \A n \in Name : claimed'[n] = IF n = target THEN KeyOf[at] ELSE claimed[n]
    BY <2>1 DEF TypeOK
  <2>4. \A s \in todo : KeyOf[s] # KeyOf[at]
    BY <2>1, KeysDistinct DEF TypeOK
  <2>5. WaitingClaimNothing'
    BY <2>1, <2>2, <2>3, <2>4 DEF WaitingClaimNothing
  <2>6. ListedAreClaimed'
    BY <2>1, <2>3 DEF ListedAreClaimed, TargetIsFree, TypeOK
  <2>7. ListedAreIndexed' /\ RowsAreListed'
    BY <2>1, IndexFrame
  <2>8. WaitingHaveNone'
    BY <2>1, <2>2 DEF WaitingHaveNone
  <2>9. TargetIsFree'
    BY <2>1, <2>3 DEF TargetIsFree
  <2> QED BY <2>5, <2>6, <2>7, <2>8, <2>9
<1>11. CASE AppendIndex \/ AppendFails
  <2>1. /\ pc = "append" /\ Appends /\ pc' \in {"report", "loop"}
        /\ UNCHANGED <<files, auditing, released, todo, claimed>>
    BY <1>11, AppendFailsIsBack DEF AppendIndex, Moves, Appends, Back, BackInLoop, Tails
  <2> QED BY <2>1, InductiveAppends
<1>12. CASE \E n \in Name : DeleteChecklist(n)
  <2>1. PICK n \in Name : DeleteChecklist(n)
    BY <1>12
  <2>2. /\ files' = [files EXCEPT ![n] = NoKey] /\ listed' = listed \ {n}
        /\ released' = released \cup {n}
        /\ UNCHANGED <<index, tail, pc, auditing, todo, at, claimed, target>>
    BY <2>1 DEF DeleteChecklist, run
  <2>0. \A i : Lasting(i)' <=> Lasting(i)
    BY <2>2 DEF Lasting
  <2>3. /\ Waiting(Placing)' = Waiting(Placing)
        /\ Waiting(Placing \cup {"append"})' = Waiting(Placing \cup {"append"})
    BY <2>2 DEF Waiting
  <2>4. \A m \in Name : m # n => files'[m] = files[m]
    BY <2>2 DEF TypeOK
  <2>5. TargetIsFree'
    BY <2>2, <2>4 DEF TargetIsFree, VisitShape
  <2>6. RowsAreListed'
    <3> SUFFICES ASSUME NEW i \in DOMAIN index, Lasting(i), index[i].checklist \notin released'
                 PROVE  /\ index[i].checklist \in listed'
                        /\ files'[index[i].checklist] = index[i].key
      BY <2>0, <2>2 DEF RowsAreListed
    <3>1. index[i].checklist \in listed /\ files[index[i].checklist] = index[i].key
      BY <2>2 DEF RowsAreListed
    <3> QED BY <2>2, <2>4, <3>1 DEF TypeOK
  <2>7. ListedAreIndexed'
    <3>1. \A m \in listed' : m \in listed /\ files'[m] = files[m]
      BY <2>2, <2>4 DEF TypeOK
    <3> QED BY <2>0, <2>2, <3>1 DEF ListedAreIndexed
  <2>8. WaitingHaveNone'
    <3>1. \A m \in listed' : m \in listed /\ files'[m] = files[m]
      BY <2>2, <2>4 DEF TypeOK
    <3> QED BY <2>2, <2>3, <3>1 DEF WaitingHaveNone
  <2>9. ListedAreClaimed' /\ WaitingClaimNothing'
    BY <2>2, <2>3 DEF ListedAreClaimed, WaitingClaimNothing
  <2> QED BY <2>5, <2>6, <2>7, <2>8, <2>9
<1>13. CASE ToggleStop \/ UNCHANGED vars
  <2>1. UNCHANGED <<files, index, tail, run, listed, released>>
    BY <1>13 DEF ToggleStop, vars, folder, history
  <2>2. ListedAreIndexed' /\ RowsAreListed'
    BY <2>1, IndexFrame
  <2> QED BY <2>1, <2>2 DEF run, Waiting, ListedAreClaimed, WaitingClaimNothing,
            WaitingHaveNone, TargetIsFree
<1> QED BY <1>3, <1>4, <1>5, <1>6, <1>7, <1>8, <1>9, <1>10, <1>11, <1>12, <1>13
     DEF Next, Walking, Visit

LEMMA InductiveInit == Init => Inductive
<1> SUFFICES ASSUME Init PROVE Inductive
  OBVIOUS
<1>1. TypeOK /\ VisitShape
  BY TypedInit DEF Typed
<1>2. index = <<>> /\ listed = {} /\ todo = {} /\ pc = "idle"
  BY DEF Init
<1> QED BY <1>1, <1>2 DEF Inductive, ListedAreClaimed, WaitingClaimNothing,
     WaitingHaveNone, ListedAreIndexed, TargetIsFree, RowsAreListed, Waiting, Placing

(* What the index says of a checklist nobody deleted is true: the file is   *)
(* there and holds that switch's verdicts, whatever was stopped, killed,    *)
(* lost or cut short - for every row that lasts: not the first line, and    *)
(* not a last one the next append could run into.                           *)
THEOREM IndexIsTrue == Spec => []IndexTellsTruth
<1>1. Inductive => IndexTellsTruth
  BY DEF Inductive, RowsAreListed, IndexTellsTruth
<1> QED BY <1>1, InductiveInit, InductiveStep, PTL DEF Spec

LEMMA ShelfFrame ==
  ASSUME UNCHANGED <<listed, released>>, \A n \in listed : files'[n] = files[n]
  PROVE  UNCHANGED <<Shelved, released>>
BY DEF Shelved

LEMMA ShelfInit == Init => Folder!Init
BY DEF Init, Folder!Init, Shelved

LEMMA ShelfStep ==
  ASSUME Inductive, [Next]_vars
  PROVE  [Folder!Next]_<<Shelved, released>>
<1> USE DEF Inductive
<1>1. CASE Start
  <2>1. PICK audits \in BOOLEAN, readable \in BOOLEAN : StartRun(audits, readable)
    BY <1>1, SwitchesBool DEF Start
  <2>2. CASE audits /\ ~readable
    <3>1. UNCHANGED files /\ listed' = {} /\ released' = released \cup listed
      BY <2>1, <2>2 DEF StartRun, folder
    <3>2. Shelved' = [n \in Name |-> NoKey]
      BY <3>1 DEF Shelved
    <3>3. {n \in Name : Shelved[n] # NoKey} = listed
      BY DEF Shelved, ListedAreIndexed, TypeOK
    <3> QED BY <3>1, <3>2, <3>3 DEF Folder!Next, Folder!Forget
  <2>3. CASE ~(audits /\ ~readable)
    <3>1. UNCHANGED <<files, listed, released>>
      BY <2>1, <2>3 DEF StartRun, folder
    <3> QED BY <3>1, ShelfFrame
  <2> QED BY <2>2, <2>3
<1>2. CASE NextSwitch \/ Complete \/ Stopped \/ ToggleStop \/ UNCHANGED vars
  <2>1. UNCHANGED <<files, listed, released>>
    BY <1>2 DEF NextSwitch, Complete, Stopped, Ends, ToggleStop, vars, folder, history, rows
  <2> QED BY <2>1, ShelfFrame
<1>3. CASE VisitFails \/ OpenCapture \/ OpenFails \/ WriteCapture \/ WriteFails \/ KeepCapture
           \/ Audit \/ AuditFails \/ PlaceFails \/ ClearCapture \/ Report
  <2>1. UNCHANGED <<files, listed, released>>
    BY <1>3 DEF VisitFails, OpenCapture, OpenFails, WriteCapture, WriteFails, KeepCapture,
         Audit, AuditFails, PlaceFails, ClearCapture, Report, folder, rows, Moves, Leaves,
         BackInLoop
  <2> QED BY <2>1, ShelfFrame
<1>4. CASE PlaceChecklist
  <2>1. PICK n \in Name \ listed : files' = [files EXCEPT ![n] = NoKey] /\ UNCHANGED <<listed, released>>
    BY <1>4, PlacesOnFreeName DEF PlaceChecklist, Moves
  <2>2. \A m \in listed : files'[m] = files[m]
    BY <2>1 DEF TypeOK
  <2> QED BY <2>1, <2>2, ShelfFrame
<1>5. CASE Rename
  <2>1. target \notin listed /\ UNCHANGED <<listed, released>> /\ files' = [files EXCEPT ![target] = KeyOf[at]]
    BY <1>5 DEF Rename, Moves, TargetIsFree, rows
  <2>2. \A m \in listed : files'[m] = files[m]
    BY <2>1 DEF TypeOK
  <2> QED BY <2>1, <2>2, ShelfFrame
<1>6. CASE AppendIndex \/ AppendFails \/ Killed
  <2>1. /\ UNCHANGED <<files, released>>
        /\ UNCHANGED rows \/ (pc = "append" /\ Appends)
    BY <1>6, AppendFailsIsBack DEF AppendIndex, Killed, Ends, Moves, Appends, CutAppend, Tails,
         Back, BackInLoop
  <2>2. CASE UNCHANGED listed
    BY <2>1, <2>2, ShelfFrame
  <2>3. CASE listed' # listed
    <3>1. pc = "append" /\ Appends
      BY <2>1, <2>3 DEF rows
    <3>2. listed' = listed \cup {target} /\ files[target] = KeyOf[at]
      BY <2>3, <3>1, RowsAfter DEF Typed
    <3>3. /\ target \in Name \ listed /\ KeyOf[at] \in Key
          /\ auditing /\ at \in Waiting(Placing \cup {"append"})
      BY <3>1, KeyTyped DEF VisitShape, TargetIsFree, Unique, Waiting
    <3>4. Shelved[target] = NoKey
      BY <3>3 DEF Shelved
    <3>5. \A m \in Name : Shelved[m] # KeyOf[at]
      BY <3>3, NotValues DEF Shelved, WaitingHaveNone
    <3>6. Shelved' = [Shelved EXCEPT ![target] = KeyOf[at]]
      BY <2>1, <3>2 DEF Shelved
    <3> QED BY <2>1, <3>3, <3>4, <3>5, <3>6 DEF Folder!Next, Folder!Put
  <2> QED BY <2>2, <2>3
<1>7. CASE \E n \in Name : DeleteChecklist(n)
  <2>1. PICK n \in Name : DeleteChecklist(n)
    BY <1>7
  <2>2. /\ files' = [files EXCEPT ![n] = NoKey] /\ listed' = listed \ {n}
        /\ released' = released \cup {n}
    BY <2>1 DEF DeleteChecklist
  <2>3. Shelved' = [Shelved EXCEPT ![n] = NoKey]
    BY <2>2 DEF Shelved, TypeOK
  <2> QED BY <2>2, <2>3 DEF Folder!Next, Folder!Discard
<1> QED BY <1>1, <1>2, <1>3, <1>4, <1>5, <1>6, <1>7 DEF Next, Walking, Visit

(* The output folder implements Shelf: no step of any run replaces or       *)
(* removes a listed checklist, and no switch is ever listed twice - until a  *)
(* run starts that cannot read collected.csv.                               *)
THEOREM WalkImplementsShelf == Spec => ImplementsShelf
<1>1. Inductive /\ [Next]_vars => [Folder!Next]_<<Shelved, released>>
  BY ShelfStep
<1> QED BY <1>1, InductiveInit, InductiveStep, ShelfInit, PTL
        DEF Spec, ImplementsShelf, Folder!Spec

(* No switch has two listed checklists, so a fleet report counts each once. *)
THEOREM ShelfOnePerSwitch == Spec => []Folder!OnePerSwitch
<1>1. Init => Folder!OnePerSwitch
  BY DEF Init, Folder!OnePerSwitch, Shelved
<1>2. Folder!OnePerSwitch /\ [Folder!Next]_<<Shelved, released>> => Folder!OnePerSwitch'
  <2> SUFFICES ASSUME Folder!OnePerSwitch, [Folder!Next]_<<Shelved, released>>
               PROVE  Folder!OnePerSwitch'
    OBVIOUS
  <2>1. Shelved = [n \in Name |-> Shelved[n]]
    BY DEF Shelved
  <2>2. CASE Folder!Next
    <3>0. CASE Folder!Forget
      BY <3>0 DEF Folder!Forget, Folder!OnePerSwitch
    <3>1. ASSUME ~Folder!Forget
          PROVE  \E n \in Name : Folder!Discard(n) \/ \E k \in Key : Folder!Put(n, k)
      BY <2>2, <3>1 DEF Folder!Next
    <3>2. ASSUME NEW n \in Name, Folder!Discard(n)
          PROVE  Folder!OnePerSwitch'
      BY <2>1, <3>2 DEF Folder!Discard, Folder!OnePerSwitch
    <3>3. ASSUME NEW n \in Name, NEW k \in Key, Folder!Put(n, k)
          PROVE  Folder!OnePerSwitch'
      BY <2>1, <3>3 DEF Folder!Put, Folder!OnePerSwitch
    <3> QED BY <3>0, <3>1, <3>2, <3>3
  <2>3. CASE UNCHANGED <<Shelved, released>>
    BY <2>3 DEF Folder!OnePerSwitch
  <2> QED BY <2>2, <2>3
<1>3. Inductive /\ [Next]_vars => [Folder!Next]_<<Shelved, released>>
  BY ShelfStep
<1> QED BY <1>1, <1>2, <1>3, InductiveInit, InductiveStep, PTL DEF Spec
-----------------------------------------------------------------------------
(* The log of a run.  Until a session is left behind it has no row, and     *)
(* from then on, unless a row was lost, exactly one.                        *)
Ahead == Waiting(Stage \ {"idle", "loop"})

RowsSoFar ==
  pc # "idle" =>
    \A s \in Session : /\ s \in Ahead => log[s] = <<>>
                       /\ s \notin Ahead /\ ~lost => Len(log[s]) = 1

Census == RowsSoFar /\ LogIsCensus

(* Nothing but the end of a visit touches the log.                          *)
LEMMA CensusFrame ==
  ASSUME Census, UNCHANGED <<log, lost, ended>>, pc # "idle" <=> pc' # "idle",
         Ahead' = Ahead
  PROVE  Census'
BY DEF Census, RowsSoFar, LogIsCensus

LEMMA CensusStart ==
  ASSUME NEW audits, NEW readable, StartRun(audits, readable)
  PROVE  Census'
<1> DEFINE finished(s) == IF audits THEN readable /\ KeyOf[s] \in DoneKeys
                          ELSE captures[KeyOf[s]] # "none"
<1>1. /\ pc' = "loop" /\ ended' = "none"
      /\ todo' = {s \in Unique : ~finished(s)}
      /\ log' = [s \in Session |-> IF s \notin Unique THEN <<"duplicate">>
                                   ELSE IF finished(s) THEN <<"already done">> ELSE <<>>]
  BY DEF StartRun
<1>2. Ahead' = todo'
  BY <1>1 DEF Ahead, Waiting, Stage
<1> HIDE DEF finished
<1>3. ASSUME NEW s \in Session
      PROVE  /\ s \in todo' => log'[s] = <<>>
             /\ s \notin todo' => Len(log'[s]) = 1
  BY <1>1
<1> QED BY <1>1, <1>2, <1>3 DEF Census, RowsSoFar, LogIsCensus

(* The row a visit ends with is the only one its session gets.              *)
LEMMA CensusLeaves ==
  ASSUME Typed, Census, pc \notin {"idle", "loop"}, NEW o, Back(o)
  PROVE  Census'
<1>1. /\ pc' = "loop" /\ UNCHANGED todo /\ at \in Unique /\ at \in Session /\ at \notin todo
      /\ log \in [Session -> Seq(Outcome)]
  BY DEF Back, BackInLoop, Typed, TypeOK, VisitShape, Unique
<1>2. Ahead' = todo /\ Ahead = todo \cup {at}
  BY <1>1 DEF Ahead, Waiting, Stage, Typed, TypeOK
<1>3. log[at] = <<>>
  BY <1>1, <1>2 DEF Census, RowsSoFar
<1>4. \/ lost' = lost /\ \E x : log' = [log EXCEPT ![at] = <<x>>]
      \/ log' = log /\ lost' = TRUE
  BY <1>3 DEF Back, Logged, LogFails
<1>5. ASSUME NEW s \in Session
      PROVE  /\ s \in todo => log'[s] = <<>>
             /\ s \notin todo /\ ~lost' => Len(log'[s]) = 1
  <2>1. CASE s = at
    BY <1>1, <1>4, <2>1
  <2>2. CASE s # at
    BY <1>1, <1>2, <1>4, <2>2 DEF Census, RowsSoFar
  <2> QED BY <2>1, <2>2
<1> QED BY <1>1, <1>2, <1>5 DEF Census, RowsSoFar, LogIsCensus

LEMMA CensusStep == Typed /\ Census /\ [Next]_vars => Census'
<1> SUFFICES ASSUME Typed, Census, [Next]_vars PROVE Census'
  OBVIOUS
<1>1. CASE Start
  BY <1>1, CensusStart DEF Start
<1>2. CASE NextSwitch
  <2>1. /\ pc = "loop" /\ pc' = "collect" /\ at' \in todo /\ todo' = todo \ {at'}
        /\ UNCHANGED <<log, lost, ended>>
    BY <1>2 DEF NextSwitch, history
  <2>2. Ahead' = Ahead
    BY <2>1 DEF Ahead, Waiting, Stage
  <2> QED BY <2>1, <2>2, CensusFrame
<1>3. CASE Complete
  <2>1. /\ pc = "loop" /\ todo = {} /\ pc' = "idle" /\ UNCHANGED <<log, lost>>
    BY <1>3 DEF Complete, Ends
  <2>2. Ahead = {}
    BY <2>1 DEF Ahead, Waiting
  <2> QED BY <2>1, <2>2 DEF Census, RowsSoFar, LogIsCensus
<1>4. CASE Stopped \/ Killed
  <2>1. pc' = "idle" /\ ended' # "complete"
    BY <1>4 DEF Stopped, Killed, Ends
  <2> QED BY <2>1 DEF Census, RowsSoFar, LogIsCensus
<1>5. CASE VisitFails \/ OpenFails \/ WriteFails \/ KeepCapture \/ AuditFails \/ PlaceFails
           \/ AppendFails \/ Report
  <2>1. pc \notin {"idle", "loop"} /\ \E o \in Outcome : Back(o)
    BY <1>5, LeavesIsBack, AppendFailsIsBack DEF VisitFails, OpenFails, WriteFails,
         KeepCapture, AuditFails, PlaceFails, Report, Outcome
  <2> QED BY <2>1, CensusLeaves
<1>6. CASE OpenCapture \/ WriteCapture \/ Audit \/ PlaceChecklist \/ Rename \/ ClearCapture
           \/ AppendIndex
  <2>1. \E from, to \in Stage \ {"idle", "loop"} : Moves(from, to)
    BY <1>6 DEF OpenCapture, WriteCapture, Audit, PlaceChecklist, Rename, ClearCapture,
         AppendIndex, Stage
  <2>2. /\ UNCHANGED <<log, lost, ended, todo, at>>
        /\ pc \in Stage \ {"idle", "loop"} /\ pc' \in Stage \ {"idle", "loop"}
    BY <2>1 DEF Moves
  <2>3. Ahead' = Ahead
    BY <2>2 DEF Ahead, Waiting
  <2> QED BY <2>2, <2>3, CensusFrame
<1>7. CASE (\E n \in Name : DeleteChecklist(n)) \/ ToggleStop \/ UNCHANGED vars
  <2>1. UNCHANGED <<log, lost, ended, todo, at, pc>>
    BY <1>7 DEF DeleteChecklist, ToggleStop, vars, run, history
  <2>2. Ahead' = Ahead
    BY <2>1 DEF Ahead, Waiting
  <2> QED BY <2>1, <2>2, CensusFrame
<1> QED BY <1>1, <1>2, <1>3, <1>4, <1>5, <1>6, <1>7 DEF Next, Walking, Visit

(* A run that went through its whole list, and lost no row, has one row for *)
(* each saved session, whatever happened to each of them.                   *)
THEOREM CensusIsComplete == Spec => []LogIsCensus
<1>1. Init => Typed /\ Census
  <2>1. Init => Census
    BY DEF Init, Census, RowsSoFar, LogIsCensus
  <2> QED BY <2>1, TypedInit
<1>2. Typed /\ Census /\ [Next]_vars => (Typed /\ Census)'
  BY TypedStep, CensusStep
<1>3. Census => LogIsCensus
  BY DEF Census
<1> QED BY <1>1, <1>2, <1>3, PTL DEF Spec
-----------------------------------------------------------------------------
(* What a run has collected.  While the run goes on, a checklist that       *)
(* stands for a collected switch is claimed by it, which is what keeps      *)
(* place_checklist() of every other switch away from its name; until then   *)
(* the switch has its capture.                                              *)
Standing(n, s) == files[n] = KeyOf[s] /\ (pc # "idle" => claimed[n] = KeyOf[s])
Says(s, o) == o \in {log[s][i] : i \in DOMAIN log[s]}

Kept(s) ==
  /\ captures[KeyOf[s]] = "whole" \/ \E n \in Name : Standing(n, s)
  /\ Says(s, "captured") \/ Says(s, "audit failed") => captures[KeyOf[s]] = "whole"
  /\ Says(s, "checklisted") => \E n \in Name : Standing(n, s)

UnderWay ==
  /\ pc \in {"audit", "place", "rename", "clear"} => captures[KeyOf[at]] = "whole"
  /\ pc = "rename" => files[target] = NoKey
  /\ pc = "clear" => /\ files[target] \in {NoKey, KeyOf[at]}
                     /\ at \in collected => files[target] = KeyOf[at]
  /\ pc \in {"append", "report"} /\ at \in collected => Standing(target, at)

NotYet == Waiting({"collect", "writing"})

Collection ==
  /\ \A s \in NotYet : s \notin collected
  /\ UnderWay
  /\ \A s \in collected : Kept(s)

Collecting == Typed /\ Census /\ Collection

(* A step keeps what it does not touch.                                     *)
LEMMA KeptFrame ==
  ASSUME NEW s, Kept(s), captures'[KeyOf[s]] = captures[KeyOf[s]], log'[s] = log[s],
         pc' # "idle" => pc # "idle",
         \A n \in Name : Standing(n, s) =>
           files'[n] = files[n] /\ (pc' # "idle" => claimed'[n] = claimed[n])
  PROVE  Kept(s)'
<1>1. \A n \in Name : Standing(n, s) => Standing(n, s)'
  BY DEF Standing
<1>2. \A o : Says(s, o)' <=> Says(s, o)
  BY DEF Says
<1> QED BY <1>1, <1>2 DEF Kept

(* Two sessions that are visited have different keys.                       *)
LEMMA OthersKey ==
  ASSUME Typed, pc \notin {"idle", "loop"}, NEW s \in collected, s # at
  PROVE  /\ KeyOf[s] \in Key /\ KeyOf[at] \in Key /\ KeyOf[s] # KeyOf[at]
         /\ KeyOf[s] # NoKey
<1>1. s \in Unique /\ at \in Unique
  BY DEF Typed, TypeOK, VisitShape
<1>2. Unique \subseteq Session
  BY DEF Unique
<1> QED BY <1>1, <1>2, KeyTyped, KeysDistinct, NotValues

LEMMA AheadOf ==
  ASSUME Typed
  PROVE  /\ pc \in {"idle", "loop"} => Ahead = todo
         /\ pc \notin {"idle", "loop"} => Ahead = todo \cup {at}
         /\ pc \in {"collect", "writing"} => NotYet = todo \cup {at}
         /\ pc \notin {"collect", "writing"} => NotYet = todo
         /\ NotYet \subseteq Ahead
<1>1. pc \in Stage
  BY DEF Typed, TypeOK
<1>2. pc \in {"idle", "loop"} => Ahead = todo
  BY DEF Ahead, Waiting
<1>3. pc \notin {"idle", "loop"} => Ahead = todo \cup {at}
  BY <1>1 DEF Ahead, Waiting
<1>4. pc \in {"collect", "writing"} => NotYet = todo \cup {at}
  BY DEF NotYet, Waiting
<1>5. pc \notin {"collect", "writing"} => NotYet = todo
  BY DEF NotYet, Waiting
<1>6. NotYet \subseteq Ahead
  BY <1>2, <1>3, <1>4, <1>5
<1> QED BY <1>2, <1>3, <1>4, <1>5, <1>6

(* The end of a visit: its session is behind, with its one row.             *)
LEMMA CollectionLeaves ==
  ASSUME Collecting, pc \notin {"idle", "loop"},
         NEW o, Back(o), UNCHANGED files,
         \A k \in Key : k # KeyOf[at] => captures'[k] = captures[k],
         collected' \in {collected, collected \cup {at}},
         NEW a, a = at, a \in collected' => Kept(a)'
  PROVE  Collection'
<1>1. /\ pc' = "loop" /\ UNCHANGED <<todo, claimed>> /\ at \in Unique /\ at \notin todo
      /\ log \in [Session -> Seq(Outcome)] /\ collected \in SUBSET Unique
  BY DEF Back, BackInLoop, Collecting, Typed, TypeOK, VisitShape
<1>2. NotYet' = todo /\ todo \subseteq NotYet
  BY <1>1, AheadOf DEF Collecting, NotYet, Waiting
<1>3. \A s \in NotYet' : s \notin collected'
  BY <1>1, <1>2 DEF Collecting, Collection
<1>4. UnderWay'
  BY <1>1 DEF UnderWay
<1>5. ASSUME NEW s \in collected'
      PROVE  Kept(s)'
  <2>1. CASE s = at
    BY <1>5, <2>1
  <2>2. CASE s # at
    <3>1. s \in collected /\ s \in Session /\ Kept(s)
      BY <1>1, <1>5, <2>2 DEF Collecting, Collection, Unique
    <3>2. captures'[KeyOf[s]] = captures[KeyOf[s]]
      BY <2>2, <3>1, OthersKey DEF Collecting
    <3>3. log'[s] = log[s]
      BY <1>1, <2>2, <3>1 DEF Back, Logged, LogFails
    <3> QED BY <1>1, <3>1, <3>2, <3>3, KeptFrame
  <2> QED BY <2>1, <2>2
<1> QED BY <1>2, <1>3, <1>4, <1>5 DEF Collection

(* The row of a visit is its outcome, or the failure that stood in for it.  *)
LEMMA RowLeft ==
  ASSUME Collecting, pc \notin {"idle", "loop"}, NEW o, Back(o), NEW a, a = at
  PROVE  \A x : Says(a, x)' => x = o \/ x = "failed"
<1>1. at \in Session /\ at \in Ahead /\ log \in [Session -> Seq(Outcome)]
  BY AheadOf DEF Collecting, Typed, TypeOK, VisitShape, Unique
<1>2. log[at] = <<>>
  BY <1>1 DEF Collecting, Census, RowsSoFar
<1>3. log'[a] \in {<<>>, <<o>>, <<"failed">>}
  BY <1>1, <1>2 DEF Back, Logged, LogFails
<1>4. ASSUME NEW x, Says(a, x)'
      PROVE  x = o \/ x = "failed"
  BY <1>3, <1>4 DEF Says
<1> QED BY <1>4

LEMMA CollectionFails ==
  ASSUME Collecting,
         VisitFails \/ OpenFails \/ WriteFails \/ KeepCapture \/ AuditFails \/ PlaceFails
           \/ AppendFails \/ Report
  PROVE  Collection'
<1>1. pc \notin {"idle", "loop"}
  BY DEF VisitFails, OpenFails, WriteFails, KeepCapture, AuditFails, PlaceFails,
         AppendFails, Report
<1>2. PICK a : a = at
  OBVIOUS
<1>3. /\ a \in Unique /\ KeyOf[a] \in Key /\ captures \in [Key -> {"none", "cut", "whole"}]
      /\ pc \in {"append", "report"} => target \in Name
  BY <1>1, <1>2, KeyTyped DEF Collecting, Typed, TypeOK, VisitShape, Unique
<1> USE DEF Collecting
<1>4. CASE VisitFails \/ OpenFails \/ WriteFails
  <2>1. /\ pc \in {"collect", "writing"} /\ UNCHANGED <<files, captures, collected>>
        /\ \E o : Back(o)
    BY <1>4, LeavesIsBack DEF VisitFails, OpenFails, WriteFails, folder
  <2>2. a \notin collected'
    BY <1>2, <2>1, AheadOf DEF Collection
  <2> QED BY <1>1, <1>2, <2>1, <2>2, CollectionLeaves
<1>5. CASE KeepCapture
  <2>1. /\ Back("captured") /\ UNCHANGED files /\ collected' = collected \cup {at}
        /\ captures' = [captures EXCEPT ![KeyOf[at]] = "whole"]
    BY <1>5, LeavesIsBack DEF KeepCapture
  <2>2. captures'[KeyOf[a]] = "whole" /\ \A k \in Key : k # KeyOf[at] => captures'[k] = captures[k]
    BY <1>2, <1>3, <2>1
  <2>3. ~ Says(a, "checklisted")'
    BY <1>1, <1>2, <2>1, RowLeft
  <2>4. Kept(a)'
    BY <2>2, <2>3 DEF Kept
  <2> QED BY <1>1, <1>2, <2>1, <2>2, <2>4, CollectionLeaves
<1>6. CASE AuditFails \/ PlaceFails
  <2>1. PICK o \in {"audit failed", "failed"} : Back(o)
    BY <1>6, LeavesIsBack DEF AuditFails, PlaceFails
  <2>2. /\ pc \in {"audit", "place", "rename"} /\ UNCHANGED <<files, captures, collected>>
    BY <1>6 DEF AuditFails, PlaceFails, folder
  <2>3. captures'[KeyOf[a]] = "whole"
    BY <1>2, <2>2 DEF Collection, UnderWay
  <2>4. ~ Says(a, "checklisted")'
    <3>1. Says(a, "checklisted")' => "checklisted" = o \/ "checklisted" = "failed"
      BY <1>1, <1>2, <2>1, RowLeft
    <3> QED BY <2>1, <3>1
  <2>5. Kept(a)'
    BY <2>3, <2>4 DEF Kept
  <2> QED BY <1>1, <1>2, <2>1, <2>2, <2>5, CollectionLeaves
<1>7. CASE AppendFails \/ Report
  <2>1. PICK o \in {"failed", "checklisted"} :
          Back(o)
    BY <1>7, LeavesIsBack, AppendFailsIsBack DEF Report
  <2>2. /\ pc \in {"append", "report"} /\ UNCHANGED <<files, captures, collected>>
        /\ pc' = "loop" /\ UNCHANGED claimed
    BY <1>7, <2>1, AppendFailsIsBack DEF Report, folder, Back, BackInLoop
  <2>3. PICK n : n = target
    OBVIOUS
  <2>4. ASSUME a \in collected'
        PROVE  Kept(a)'
    <3>1. Standing(n, a)'
      BY <1>2, <2>2, <2>3, <2>4 DEF Collection, UnderWay, Standing
    <3>2. ~ Says(a, "captured")' /\ ~ Says(a, "audit failed")'
      <4>1. /\ Says(a, "captured")' => "captured" = o \/ "captured" = "failed"
            /\ Says(a, "audit failed")' => "audit failed" = o \/ "audit failed" = "failed"
        BY <1>1, <1>2, <2>1, RowLeft
      <4> QED BY <2>1, <4>1
    <3> QED BY <1>3, <2>2, <2>3, <3>1, <3>2 DEF Kept
  <2> QED BY <1>1, <1>2, <2>1, <2>2, <2>4, CollectionLeaves
<1> QED BY <1>4, <1>5, <1>6, <1>7

(* A switch whose visit is not over is kept by its capture or checklist.    *)
LEMMA KeptInHand ==
  ASSUME NEW s, log'[s] = <<>>,
         captures'[KeyOf[s]] = "whole" \/ \E n \in Name : Standing(n, s)'
  PROVE  Kept(s)'
<1>1. DOMAIN (log'[s]) = {}
  OBVIOUS
<1>2. \A o : ~ Says(s, o)'
  BY <1>1 DEF Says
<1> QED BY <1>2 DEF Kept

(* A step of a visit that leaves the folder's checklists and the claims.    *)
LEMMA CollectionStages ==
  ASSUME Collecting, OpenCapture \/ WriteCapture \/ Audit
  PROVE  Collection'
<1> USE DEF Collecting
<1>1. /\ pc \notin {"idle", "loop"} /\ at \in Unique /\ at \notin todo /\ KeyOf[at] \in Key
      /\ captures \in [Key -> {"none", "cut", "whole"}]
  BY KeyTyped DEF OpenCapture, WriteCapture, Audit, Moves, Typed, TypeOK, VisitShape, Unique
<1>2. /\ pc' \notin {"idle", "loop", "rename", "clear", "append", "report"}
      /\ UNCHANGED <<files, claimed, log, todo, at>>
  BY DEF OpenCapture, WriteCapture, Audit, Moves, folder
<1>3. ASSUME NEW s \in collected, s # at, \A k \in Key : k # KeyOf[at] => captures'[k] = captures[k]
      PROVE  Kept(s)'
  <2>1. captures'[KeyOf[s]] = captures[KeyOf[s]] /\ Kept(s)
    BY <1>1, <1>3, OthersKey DEF Collection
  <2> QED BY <1>1, <1>2, <2>1, KeptFrame
<1>4. log[at] = <<>>
  BY <1>1, AheadOf DEF Census, RowsSoFar, Unique
<1>5. CASE OpenCapture
  <2>1. /\ pc = "collect" /\ pc' = "writing" /\ collected' = collected
        /\ captures' = [captures EXCEPT ![KeyOf[at]] = "cut"]
    BY <1>5 DEF OpenCapture, Moves
  <2>2. at \notin collected /\ NotYet' = NotYet
    BY <1>2, <2>1, AheadOf DEF Collection, NotYet, Waiting
  <2> QED BY <1>1, <1>3, <2>1, <2>2 DEF Collection, UnderWay
<1>6. CASE WriteCapture
  <2>1. /\ pc = "writing" /\ pc' = "audit" /\ collected' = collected \cup {at}
        /\ captures' = [captures EXCEPT ![KeyOf[at]] = "whole"]
    BY <1>6 DEF WriteCapture, Moves
  <2>2. NotYet' = todo /\ todo \subseteq NotYet
    BY <1>2, <2>1, AheadOf DEF NotYet, Waiting
  <2>3. captures'[KeyOf[at]] = "whole" /\ \A k \in Key : k # KeyOf[at] => captures'[k] = captures[k]
    BY <1>1, <2>1
  <2>4. ASSUME NEW s \in collected', s = at
        PROVE  Kept(s)'
    BY <1>2, <1>4, <2>3, <2>4, KeptInHand
  <2>5. \A s \in collected' : Kept(s)'
    BY <1>3, <2>1, <2>3, <2>4
  <2>6. UnderWay'
    BY <1>2, <2>1, <2>3 DEF UnderWay
  <2> QED BY <1>1, <2>1, <2>2, <2>5, <2>6 DEF Collection
<1>7. CASE Audit
  <2>1. pc = "audit" /\ pc' = "place" /\ UNCHANGED <<collected, captures>>
    BY <1>7 DEF Audit, Moves, folder
  <2>2. NotYet' = NotYet
    BY <1>2, <2>1 DEF NotYet, Waiting
  <2>3. UnderWay'
    BY <1>2, <2>1 DEF Collection, UnderWay
  <2>4. ASSUME NEW s \in collected
        PROVE  Kept(s)'
    <3>1. Kept(s)
      BY DEF Collection
    <3> QED BY <1>1, <1>2, <2>1, <3>1, KeptFrame
  <2> QED BY <2>1, <2>2, <2>3, <2>4 DEF Collection
<1> QED BY <1>5, <1>6, <1>7

(* place_checklist() takes a name no collected switch stands under: a name  *)
(* that is taken is claimed by its own switch, and one it picks is free.    *)
LEMMA PlacesElsewhere ==
  ASSUME Collecting, PlaceChecklist, NEW s \in collected, s # at,
         NEW n \in Targets(KeyOf[at], produced)
  PROVE  ~ Standing(n, s)
<1>1. /\ pc = "place" /\ produced \in Base
      /\ KeyOf[s] # KeyOf[at] /\ KeyOf[s] # NoKey
  BY OthersKey DEF PlaceChecklist, Moves, Collecting, Typed, VisitShape
<1>2. CASE Collided(KeyOf[at], produced)
  <2>1. files[n] = NoKey
    BY <1>2 DEF Targets
  <2> QED BY <1>1, <2>1 DEF Standing
<1>3. CASE ~ Collided(KeyOf[at], produced)
  <2>1. claimed[n] \in {NoKey, KeyOf[at]}
    BY <1>3 DEF Targets, Collided
  <2> QED BY <1>1, <2>1 DEF Standing
<1> QED BY <1>2, <1>3

LEMMA CollectionPlaces ==
  ASSUME Collecting, PlaceChecklist \/ Rename \/ ClearCapture \/ AppendIndex
  PROVE  Collection'
<1> USE DEF Collecting
<1>1. /\ pc \in {"place", "rename", "clear", "append"} /\ at \in Unique /\ at \notin todo
      /\ KeyOf[at] \in Key /\ captures \in [Key -> {"none", "cut", "whole"}]
      /\ files \in [Name -> Key \cup {NoKey}]
      /\ claimed \in [Name -> Key \cup {NoKey, Merged}] /\ collected \in SUBSET Unique
      /\ pc # "place" => target \in Name
  BY KeyTyped DEF PlaceChecklist, Rename, ClearCapture, AppendIndex, Moves, Typed, TypeOK,
       VisitShape, Unique
<1>2. /\ pc' \in {"rename", "clear", "append", "report"}
      /\ UNCHANGED <<log, todo, at, collected>>
  BY DEF PlaceChecklist, Rename, ClearCapture, AppendIndex, Moves
<1>3. NotYet' = todo /\ \A s \in NotYet' : s \notin collected'
  <2>1. NotYet' = todo
    BY <1>2 DEF NotYet, Waiting
  <2>2. NotYet = todo
    BY <1>1 DEF NotYet, Waiting
  <2> QED BY <1>2, <2>1, <2>2 DEF Collection
<1>4. log[at] = <<>>
  BY <1>1, AheadOf DEF Census, RowsSoFar, Unique
<1>5. CASE PlaceChecklist
  <2>1. PICK n \in Targets(KeyOf[at], produced) :
          target' = n /\ files' = [files EXCEPT ![n] = NoKey]
    BY <1>5 DEF PlaceChecklist
  <2>2. /\ n \in Name /\ pc = "place" /\ pc' = "rename" /\ UNCHANGED <<captures, claimed>>
    <3>1. produced \in Base
      BY <1>5 DEF PlaceChecklist, Moves, Typed, VisitShape
    <3>2. Targets(KeyOf[at], produced) \subseteq Name
      BY <1>1, <3>1, CopiesNat DEF Targets, Plain, Name, Copies
    <3> QED BY <1>5, <2>1, <3>2 DEF PlaceChecklist, Moves
  <2>3. UnderWay'
    BY <1>1, <1>2, <2>1, <2>2 DEF Collection, UnderWay
  <2>4. ASSUME NEW s \in collected
        PROVE  Kept(s)'
    <3>1. CASE s = at
      BY <1>2, <1>4, <2>2, <3>1, KeptInHand DEF Collection, UnderWay
    <3>2. CASE s # at
      <4>1. Kept(s) /\ \A m \in Name : Standing(m, s) => m # n
        BY <1>5, <3>2, PlacesElsewhere DEF Collection
      <4> QED BY <1>1, <1>2, <2>1, <2>2, <4>1, KeptFrame
    <3> QED BY <3>1, <3>2
  <2> QED BY <1>2, <1>3, <2>3, <2>4 DEF Collection
<1>6. CASE Rename
  <2>1. /\ pc = "rename" /\ pc' = "clear" /\ UNCHANGED <<captures, claimed, target>>
        /\ files' = [files EXCEPT ![target] = KeyOf[at]]
    BY <1>6 DEF Rename, Moves
  <2>2. UnderWay'
    BY <1>1, <1>2, <2>1 DEF Collection, UnderWay
  <2>3. ASSUME NEW s \in collected
        PROVE  Kept(s)'
    <3>1. CASE s = at
      BY <1>2, <1>4, <2>1, <3>1, KeptInHand DEF Collection, UnderWay
    <3>2. CASE s # at
      <4>1. KeyOf[s] # NoKey /\ files[target] = NoKey
        BY <1>1, <2>1, <3>2, OthersKey DEF Collection, UnderWay
      <4>2. Kept(s) /\ \A m \in Name : Standing(m, s) => m # target
        BY <4>1 DEF Collection, Standing
      <4> QED BY <1>1, <1>2, <2>1, <4>2, KeptFrame
    <3> QED BY <3>1, <3>2
  <2> QED BY <1>2, <1>3, <2>2, <2>3 DEF Collection
<1>7. CASE ClearCapture
  <2>1. /\ pc = "clear" /\ pc' = "append" /\ UNCHANGED <<files, target>>
        /\ claimed' = [claimed EXCEPT ![target] = KeyOf[at]]
        /\ captures' = [captures EXCEPT ![KeyOf[at]] = "none"] \/ captures' = captures
    BY <1>7 DEF ClearCapture, Moves
  <2>2. /\ claimed'[target] = KeyOf[at] /\ target \in Name
        /\ \A m \in Name : m # target => claimed'[m] = claimed[m]
        /\ \A k \in Key : k # KeyOf[at] => captures'[k] = captures[k]
    BY <1>1, <2>1
  <2>3. at \in collected => files'[target] = KeyOf[at]
    BY <2>1 DEF Collection, UnderWay
  <2>4. UnderWay'
    BY <1>2, <2>1, <2>2, <2>3 DEF UnderWay, Standing
  <2>5. ASSUME NEW s \in collected
        PROVE  Kept(s)'
    <3>1. CASE s = at
      <4>1. PICK n \in Name : n = target
        BY <2>2
      <4>2. Standing(n, s)'
        BY <2>2, <2>1, <2>3, <3>1, <4>1 DEF Standing
      <4> QED BY <1>2, <1>4, <3>1, <4>2, KeptInHand
    <3>2. CASE s # at
      <4>1. /\ KeyOf[s] \in Key /\ KeyOf[s] # NoKey /\ KeyOf[s] # KeyOf[at]
            /\ files[target] \in {NoKey, KeyOf[at]}
        BY <1>1, <2>1, <3>2, OthersKey DEF Collection, UnderWay
      <4>2. Kept(s) /\ \A m \in Name : Standing(m, s) => m # target
        BY <4>1 DEF Collection, Standing
      <4> QED BY <1>1, <1>2, <2>1, <2>2, <4>1, <4>2, KeptFrame
    <3> QED BY <3>1, <3>2
  <2> QED BY <1>2, <1>3, <2>4, <2>5 DEF Collection
<1>8. CASE AppendIndex
  <2>1. /\ pc = "append" /\ pc' = "report" /\ UNCHANGED <<files, captures, claimed, target>>
    BY <1>8 DEF AppendIndex, Moves
  <2>2. UnderWay'
    BY <1>2, <2>1 DEF Collection, UnderWay, Standing
  <2>3. ASSUME NEW s \in collected
        PROVE  Kept(s)'
    <3>1. Kept(s)
      BY DEF Collection
    <3> QED BY <1>1, <1>2, <2>1, <3>1, KeptFrame
  <2> QED BY <1>2, <1>3, <2>2, <2>3 DEF Collection
<1> QED BY <1>5, <1>6, <1>7, <1>8

LEMMA CollectionRun ==
  ASSUME Collecting, NextSwitch \/ Complete \/ Stopped \/ Killed
  PROVE  Collection'
<1> USE DEF Collecting
<1>1. UNCHANGED <<files, captures, log, collected>>
  BY DEF NextSwitch, Complete, Stopped, Killed, Ends, folder, history
<1>2. /\ pc' \in {"collect", "idle"} /\ pc # "idle"
      /\ pc' # "idle" => UNCHANGED claimed
      /\ NotYet' \subseteq todo
  BY DEF NextSwitch, Complete, Stopped, Killed, Ends, NotYet, Waiting
<1>3. UnderWay' /\ \A s \in NotYet' : s \notin collected'
  BY <1>1, <1>2, AheadOf DEF UnderWay, Collection, NotYet, Waiting
<1>4. ASSUME NEW s \in collected
      PROVE  Kept(s)'
  <2>1. Kept(s)
    BY DEF Collection
  <2> QED BY <1>1, <1>2, <2>1, KeptFrame
<1> QED BY <1>1, <1>3, <1>4 DEF Collection

(* The operator's delete takes the switch out of the collected.             *)
LEMMA CollectionDelete ==
  ASSUME Collecting, NEW n \in Name, DeleteChecklist(n)
  PROVE  Collection'
<1> USE DEF Collecting
<1>1. /\ files' = [files EXCEPT ![n] = NoKey]
      /\ collected' = {s \in collected : KeyOf[s] # files[n]}
      /\ UNCHANGED <<captures, pc, todo, at, claimed, target, log>>
  BY DEF DeleteChecklist, run
<1>2. /\ files \in [Name -> Key \cup {NoKey}] 
      /\ pc \in {"rename", "clear", "append", "report"} => target \in Name
  BY DEF Typed, TypeOK, VisitShape
<1>3. \A s \in NotYet' : s \notin collected'
  BY <1>1 DEF Collection, NotYet, Waiting
<1>4. UnderWay'
  BY <1>1, <1>2 DEF Collection, UnderWay, Standing
<1>5. ASSUME NEW s \in collected'
      PROVE  Kept(s)'
  <2>1. Kept(s) /\ \A m \in Name : Standing(m, s) => m # n
    BY <1>1, <1>5 DEF Collection, Standing
  <2> QED BY <1>1, <1>2, <2>1, KeptFrame
<1> QED BY <1>3, <1>4, <1>5 DEF Collection

LEMMA CollectingStep == Collecting /\ [Next]_vars => Collecting'
<1> SUFFICES ASSUME Collecting, [Next]_vars PROVE Collecting'
  OBVIOUS
<1>1. Typed' /\ Census'
  BY TypedStep, CensusStep DEF Collecting
<1>2. CASE Start
  <2>1. pc' = "loop" /\ collected' = {}
    BY <1>2 DEF Start, StartRun
  <2>2. Collection'
    BY <2>1 DEF Collection, UnderWay
  <2> QED BY <1>1, <2>2 DEF Collecting
<1>3. CASE NextSwitch \/ Complete \/ Stopped \/ Killed
  BY <1>1, <1>3, CollectionRun DEF Collecting
<1>4. CASE VisitFails \/ OpenFails \/ WriteFails \/ KeepCapture \/ AuditFails \/ PlaceFails
           \/ AppendFails \/ Report
  BY <1>1, <1>4, CollectionFails DEF Collecting
<1>5. CASE OpenCapture \/ WriteCapture \/ Audit
  BY <1>1, <1>5, CollectionStages DEF Collecting
<1>6. CASE PlaceChecklist \/ Rename \/ ClearCapture \/ AppendIndex
  BY <1>1, <1>6, CollectionPlaces DEF Collecting
<1>7. CASE \E n \in Name : DeleteChecklist(n)
  BY <1>1, <1>7, CollectionDelete DEF Collecting
<1>8. CASE ToggleStop \/ UNCHANGED vars
  <2>1. UNCHANGED <<files, captures, log, collected, pc, todo, at, claimed, target>>
    BY <1>8 DEF ToggleStop, vars, folder, run, history
  <2>2. NotYet' = NotYet /\ UnderWay'
    BY <2>1 DEF Collecting, Collection, UnderWay, Standing, NotYet, Waiting
  <2>3. ASSUME NEW s \in collected
        PROVE  Kept(s)'
    <3>1. Kept(s)
      BY DEF Collecting, Collection, Typed, TypeOK
    <3> QED BY <2>1, <3>1, KeptFrame
  <2>4. Collection'
    BY <2>1, <2>2, <2>3 DEF Collecting, Collection
  <2> QED BY <1>1, <2>4 DEF Collecting
<1> QED BY <1>2, <1>3, <1>4, <1>5, <1>6, <1>7, <1>8 DEF Next, Walking, Visit

(* What a run has collected stays in the folder, as a capture or as a       *)
(* checklist, at every step from one to the other, and a row that says so   *)
(* is right - whatever is killed, lost or unreadable.                       *)
THEOREM CollectedIsKept == Spec => []CollectionKept
<1>1. Init => Collecting
  <2>1. Init => Census /\ Collection
    BY DEF Init, Census, RowsSoFar, LogIsCensus, Collection, UnderWay
  <2> QED BY <2>1, TypedInit DEF Collecting
<1>2. Collecting => CollectionKept
  <2> SUFFICES ASSUME Collecting, NEW s \in collected
               PROVE  /\ captures[KeyOf[s]] = "whole" \/ \E n \in Name : files[n] = KeyOf[s]
                      /\ Says(s, "captured") \/ Says(s, "audit failed") => captures[KeyOf[s]] = "whole"
                      /\ Says(s, "checklisted") => \E n \in Name : files[n] = KeyOf[s]
    BY DEF CollectionKept, Says
  <2> QED BY DEF Collecting, Collection, Kept, Standing
<1> QED BY <1>1, <1>2, CollectingStep, PTL DEF Spec
=============================================================================
