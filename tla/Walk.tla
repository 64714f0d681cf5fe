-------------------------------- MODULE Walk --------------------------------
(***************************************************************************)
(* The unattended checklist walk of securecrt/capture_l2s_bulk.py: which   *)
(* saved sessions a run visits, what each visit leaves in the output       *)
(* folder, and what the next run makes of that folder after the first was  *)
(* stopped, was killed, or lost a write.                                   *)
(*                                                                         *)
(* A session is its position in the sorted list find_sessions() returns,   *)
(* so the loop over `pending' always takes the least one.  One action is   *)
(* one file-system effect, or one exchange with the switch, of visit_one:  *)
(* the script can be killed between any two of them.                       *)
(***************************************************************************)
EXTENDS Integers, Sequences

CONSTANTS
  Session,        \* positions in the sorted session list
  Key,            \* session keys: <address>.capture, as in the index
  Base,           \* <hostname>_<date>_<STIG versions>: what the audit names a file
  Hosts,          \* values of a saved session's Hostname field
  HostOf,         \* the Hostname of each session, NoHost where it has none
  KeyOf,          \* capture_name(): the flattened address, or session path
  BasesOf,        \* the names a session's switch may give its checklist
  Modes,          \* may this machine audit?  TRUE, FALSE: what find_audit() finds
  MaxCopies,      \* bound: how far unused_path() counts
  MaxRuns,        \* bound: how often the script is started
  MaxDeletes,     \* bound: how many checklists the operator deletes
  MaxFaults,      \* bound: how many accesses to the log or collected.csv fail
  NoKey, NoBase, NoHost,
  Merged          \* two keys run together on one line of the index

Copies == 1..MaxCopies
Name == [base : Base, key : Key \cup {NoKey}, copy : Copies]

(* dedupe_by_host(): the first session of each address; a session without  *)
(* an address is never collapsed.                                          *)
Unique == {s \in Session :
             HostOf[s] = NoHost \/ \A r \in Session : r < s => HostOf[r] # HostOf[s]}

ASSUME SessionsNat == Session \subseteq Nat \ {0}
ASSUME KeyTyped == KeyOf \in [Session -> Key]
ASSUME HostTyped == HostOf \in [Session -> Hosts \cup {NoHost}]
ASSUME BasesTyped == BasesOf \in [Session -> SUBSET Base]
ASSUME NotValues == 
  /\ NoKey \notin Key /\ NoBase \notin Base /\ NoHost \notin Hosts
  /\ Merged \notin Key \cup {NoKey}
ASSUME CopiesNat == MaxCopies \in Nat \ {0}
ASSUME BoundsNat == MaxRuns \in Nat /\ MaxDeletes \in Nat /\ MaxFaults \in Nat
ASSUME SwitchesBool == Modes \subseteq BOOLEAN
(* session_stem(): "unique across the list".                               *)
ASSUME KeysDistinct == \A r, s \in Unique : KeyOf[r] = KeyOf[s] => r = s

VARIABLES
  (* The output folder, which outlives a run. *)
  files,      \* files[n]: the key whose capture checklist n was made from, or NoKey
  captures,   \* captures[k]: "none", "cut" (half written) or "whole"
  index,      \* the lines of collected.csv, as read_index() would split them
  tail,       \* how that file ends: see Tails
  stopFile,   \* is there a file named STOP?
  (* The run. *)
  pc, auditing, todo, at, claimed, produced, target,
  log,        \* log[s]: the outcomes this run's log has for session s
  (* History, read by the properties and never by an action. *)
  listed,     \* the names whose present file has a row of its own that lasts
  released,   \* the names deleted by the operator, or forgotten by a blind run
  collected,  \* sessions collected in this run and not deleted since
  lost,       \* did a row of this run's log fail to be written?
  ended,      \* how the last run ended: "none", "complete", "stopped", "killed"
  runs, deletes, faults

rows    == <<index, tail, listed>>
folder  == <<files, captures, index, tail, stopFile>>
run     == <<pc, auditing, todo, at, claimed, produced, target, log>>
history == <<listed, released, collected, lost, ended, runs, deletes, faults>>
vars    == <<folder, run, history>>

Plain(b) == [base |-> b, key |-> NoKey, copy |-> 1]
Line     == [key : Key \cup {NoKey, Merged}, checklist : Name \cup {NoKey}]

(* How collected.csv ends: there is none; it is empty or ends in a newline; *)
(* or its last line was cut in the key, in the name or right behind it (one *)
(* more character spoils the name), or in the columns that follow.          *)
Tails    == {"none", "line", "key", "name", "named", "rest"}

(* What a row of the run log says of a session.  "failed" stands for every  *)
(* outcome of a switch that gave nothing: unreachable, login rejected,      *)
(* refused, write failed, error.                                            *)
Outcome  == {"duplicate", "already done", "captured", "audit failed", "checklisted",
             "failed"}
Stage    == {"idle", "loop", "collect", "writing", "audit", "place", "rename",
             "clear", "append", "report"}

TypeOK ==
  /\ files \in [Name -> Key \cup {NoKey}]
  /\ captures \in [Key -> {"none", "cut", "whole"}]
  /\ index \in Seq(Line)
  /\ tail \in Tails
  /\ stopFile \in BOOLEAN
  /\ pc \in Stage
  /\ auditing \in BOOLEAN
  /\ todo \in SUBSET Unique
  /\ at \in Unique \cup {0}
  /\ claimed \in [Name -> Key \cup {NoKey, Merged}]
  /\ produced \in Base \cup {NoBase}
  /\ target \in Name \cup {NoKey}
  /\ log \in [Session -> Seq(Outcome)]
  /\ listed \in SUBSET Name
  /\ released \in SUBSET Name
  /\ collected \in SUBSET Unique
  /\ lost \in BOOLEAN
  /\ ended \in {"none", "complete", "stopped", "killed"}
  /\ runs \in Nat
  /\ deletes \in Nat
  /\ faults \in Nat

Init ==
  /\ files = [n \in Name |-> NoKey]
  /\ captures = [k \in Key |-> "none"]
  /\ index = <<>>
  /\ tail = "none"
  /\ stopFile = FALSE
  /\ pc = "idle"
  /\ auditing = FALSE
  /\ todo = {}
  /\ at = 0
  /\ claimed = [n \in Name |-> NoKey]
  /\ produced = NoBase
  /\ target = NoKey
  /\ log = [s \in Session |-> <<>>]
  /\ listed = {}
  /\ released = {}
  /\ collected = {}
  /\ lost = FALSE
  /\ ended = "none"
  /\ runs = 0
  /\ deletes = 0
  /\ faults = 0
-----------------------------------------------------------------------------
(* read_index(): below the first line, whatever that is, the rows whose     *)
(* file is still in the folder.  A later row of the same key overwrites the *)
(* earlier in the dict, which keeps the position of the earlier: DoneName   *)
(* and DoneSince.                                                           *)
LiveRows == {i \in 2..Len(index) : /\ index[i].checklist \in Name
                                   /\ files[index[i].checklist] # NoKey}
LiveRowsOf(k) == {i \in LiveRows : index[i].key = k}

LastOf(S)  == CHOOSE i \in S : \A j \in S : j <= i
FirstOf(S) == CHOOSE i \in S : \A j \in S : i <= j

DoneKeys == {k \in Key : LiveRowsOf(k) # {}}
DoneName(k) == index[LastOf(LiveRowsOf(k))].checklist
DoneSince(k) == FirstOf(LiveRowsOf(k))

NoClaims == [n \in Name |-> NoKey]

(* Bug: the claims of earlier runs are not seeded.                          *)
ClaimedFromNothing == NoClaims

(* claimed = dict((checklist, key) for key, checklist in done.items()): of *)
(* the entries that hold one name, the one the dict holds last.  An entry   *)
(* is named by the row that made it; a merged key is one of its own.        *)
ClaimsOn(n) == {DoneSince(k) : k \in {j \in DoneKeys : DoneName(j) = n}}
               \cup {i \in LiveRowsOf(Merged) : index[i].checklist = n}
ClaimedFrom ==
  [n \in Name |-> IF ClaimsOn(n) = {} THEN NoKey ELSE index[LastOf(ClaimsOn(n))].key]

(* Bugs: the list is not deduplicated; the duplicates get no row.           *)
StartRunUndeduped(audits, readable) ==
  LET finished(s) == IF audits THEN readable /\ KeyOf[s] \in DoneKeys
                     ELSE captures[KeyOf[s]] # "none"
  IN  /\ pc = "idle" /\ runs < MaxRuns
      /\ pc' = "loop" /\ auditing' = audits /\ runs' = runs + 1
      /\ todo' = {s \in Session : ~finished(s)}
      /\ claimed' = IF audits /\ readable THEN ClaimedFrom ELSE NoClaims
      /\ log' = [s \in Session |-> IF finished(s) THEN <<"already done">> ELSE <<>>]
      /\ collected' = {} /\ lost' = FALSE /\ ended' = "none"
      /\ UNCHANGED <<folder, at, produced, target, listed, released, deletes>>

StartRunSilently(audits, readable) ==
  LET finished(s) == IF audits THEN readable /\ KeyOf[s] \in DoneKeys
                     ELSE captures[KeyOf[s]] # "none"
  IN  /\ pc = "idle" /\ runs < MaxRuns
      /\ pc' = "loop" /\ auditing' = audits /\ runs' = runs + 1
      /\ todo' = {s \in Unique : ~finished(s)}
      /\ claimed' = IF audits /\ readable THEN ClaimedFrom ELSE NoClaims
      /\ log' = [s \in Session |->
                   IF s \in Unique /\ finished(s) THEN <<"already done">> ELSE <<>>]
      /\ collected' = {} /\ lost' = FALSE /\ ended' = "none"
      /\ UNCHANGED <<folder, at, produced, target, listed, released, deletes>>

(* main() up to the loop.  read_index() finds nothing when the index cannot *)
(* be read: that run is blind, and what stood in the folder is no longer    *)
(* promised.  A run that only collects captures does not ask, and resumes   *)
(* by the capture files instead.  (An exception while the first rows are    *)
(* logged ends main(): a Killed that follows at once.)                      *)
StartRun(audits, readable) ==
  LET finished(s) == IF audits THEN readable /\ KeyOf[s] \in DoneKeys
                     ELSE captures[KeyOf[s]] # "none"
      pending == {s \in Unique : ~finished(s)}
      blind   == audits /\ ~readable
  IN  /\ pc = "idle"
      /\ runs < MaxRuns
      /\ runs' = runs + 1
      /\ pc' = "loop"
      /\ auditing' = audits
      /\ todo' = pending
      /\ claimed' = IF audits /\ readable THEN ClaimedFrom ELSE NoClaims
      /\ log' = [s \in Session |->
                   IF s \notin Unique THEN <<"duplicate">>
                   ELSE IF finished(s) THEN <<"already done">> ELSE <<>>]
      /\ listed' = IF blind THEN {} ELSE listed
      /\ released' = IF blind THEN released \cup listed ELSE released
      /\ collected' = {}
      /\ lost' = FALSE
      /\ ended' = "none"
      /\ UNCHANGED <<folder, at, produced, target, deletes>>

(* A read or a write of collected.csv or the run log that fails.            *)
Fault == faults < MaxFaults /\ faults' = faults + 1

Start ==
  \E audits \in Modes :
    \/ StartRun(audits, TRUE) /\ UNCHANGED faults
    \/ audits /\ StartRun(audits, FALSE) /\ Fault

(* The end of main(): the loop ran out of sessions, or met the STOP file.  *)
Ends(how) ==
  /\ pc' = "idle"
  /\ ended' = how
  /\ todo' = {}
  /\ at' = 0
  /\ claimed' = NoClaims
  /\ produced' = NoBase
  /\ target' = NoKey
  /\ UNCHANGED <<auditing, log, released, collected, lost, runs, deletes>>

Complete ==
  /\ pc = "loop" /\ todo = {} /\ Ends("complete")
  /\ UNCHANGED <<folder, rows, faults>>

Stopped ==
  /\ pc = "loop" /\ todo # {} /\ stopFile /\ Ends("stopped")
  /\ UNCHANGED <<folder, rows, faults>>

(* The head of the loop body: no STOP file, so the next switch.            *)
NextSwitch ==
  /\ pc = "loop"
  /\ ~stopFile
  /\ \E s \in todo :
       /\ \A r \in todo : s <= r
       /\ at' = s
       /\ todo' = todo \ {s}
  /\ pc' = "collect"
  /\ UNCHANGED <<folder, auditing, claimed, produced, target, log, history>>
-----------------------------------------------------------------------------
(* log.record(): a write that fails raises into the loop's handler, which  *)
(* tries once more, as a failure, and swallows a second exception.         *)
Logged(outcome) == log' = [log EXCEPT ![at] = Append(@, outcome)] /\ lost' = lost
LogFails == \/ Logged("failed")
            \/ log' = log /\ lost' = TRUE

(* Every way out of visit_one: a row, then disconnect(), then the loop.    *)
BackInLoop ==
  /\ pc' = "loop"
  /\ at' = 0
  /\ produced' = NoBase
  /\ target' = NoKey
  /\ UNCHANGED <<auditing, todo, claimed, released, ended, runs, deletes>>

Leaves(outcome) ==
  /\ BackInLoop
  /\ \/ Logged(outcome) /\ UNCHANGED faults
     \/ LogFails /\ Fault

Moves(from, to) ==
  /\ pc = from
  /\ pc' = to
  /\ UNCHANGED <<auditing, todo, at, log, released, lost, ended, runs, deletes, faults>>

(* Bug: what goes wrong with one switch ends main().                        *)
VisitFailsLoudly ==
  /\ pc = "collect"
  /\ Ends("complete")
  /\ UNCHANGED <<folder, rows, faults>>

(* connect_session() gave up, collect() refused, or something raised that  *)
(* only the loop's catch-all names - a command that timed out, say.        *)
VisitFails ==
  /\ pc = "collect"
  /\ Leaves("failed")
  /\ UNCHANGED <<folder, listed, collected>>

(* The capture file: opened, which truncates it, then written and closed.  *)
OpenCapture ==
  /\ Moves("collect", "writing")
  /\ captures' = [captures EXCEPT ![KeyOf[at]] = "cut"]
  /\ UNCHANGED <<files, stopFile, claimed, produced, target, collected, rows>>

OpenFails ==
  /\ pc = "collect"
  /\ Leaves("failed")
  /\ UNCHANGED <<folder, listed, collected>>

WriteCapture ==
  /\ auditing
  /\ Moves("writing", "audit")
  /\ captures' = [captures EXCEPT ![KeyOf[at]] = "whole"]
  /\ collected' = collected \cup {at}
  /\ UNCHANGED <<files, stopFile, claimed, produced, target, rows>>

WriteFails ==
  /\ pc = "writing"
  /\ Leaves("failed")
  /\ UNCHANGED <<folder, listed, collected>>

(* Without an audit on this machine the capture is the product.            *)
KeepCapture ==
  /\ pc = "writing"
  /\ ~auditing
  /\ Leaves("captured")
  /\ captures' = [captures EXCEPT ![KeyOf[at]] = "whole"]
  /\ collected' = collected \cup {at}
  /\ UNCHANGED <<files, stopFile, rows>>
-----------------------------------------------------------------------------
(* Bug: the capture goes as soon as the audit has read it.                  *)
AuditConsumes ==
  /\ Moves("audit", "place")
  /\ \E b \in BasesOf[at] : produced' = b
  /\ captures' = [captures EXCEPT ![KeyOf[at]] = "none"]
  /\ UNCHANGED <<files, stopFile, claimed, target, collected, rows>>

(* run_audit(): a checklist in .work, named by the audit.                  *)
Audit ==
  /\ Moves("audit", "place")
  /\ \E b \in BasesOf[at] : produced' = b
  /\ UNCHANGED <<folder, claimed, target, listed, collected>>

AuditFails ==
  /\ pc = "audit"
  /\ Leaves("audit failed")
  /\ UNCHANGED <<folder, listed, collected>>

(* place_checklist(): a name another key claims gets this one's address    *)
(* folded in and an unused number; any other is taken as it is, and what   *)
(* stands there is removed first.                                          *)
Collided(k, b) == claimed[Plain(b)] \notin {NoKey, k}

Targets(k, b) ==
  IF Collided(k, b)
  THEN {n \in Name :
          /\ n.base = b /\ n.key = k /\ files[n] = NoKey
          /\ \A c \in 1..(n.copy - 1) : files[[n EXCEPT !.copy = c]] # NoKey}
  ELSE {Plain(b)}

PlaceChecklist ==
  /\ Moves("place", "rename")
  /\ \E n \in Targets(KeyOf[at], produced) :
       /\ target' = n
       /\ files' = [files EXCEPT ![n] = NoKey]
       /\ listed' = listed \ {n}
  /\ UNCHANGED <<captures, index, tail, stopFile, claimed, produced, collected>>

Rename ==
  /\ Moves("rename", "clear")
  /\ files' = [files EXCEPT ![target] = KeyOf[at]]
  /\ UNCHANGED <<captures, stopFile, claimed, produced, target, collected, rows>>

(* os.remove() or os.rename() raising OSError.                             *)
PlaceFails ==
  /\ pc \in {"place", "rename"}
  /\ Leaves("failed")
  /\ UNCHANGED <<folder, listed, collected>>

(* Bug: the claim is forgotten.                                             *)
ClearCaptureUnclaimed ==
  /\ Moves("clear", "append")
  /\ captures' = [captures EXCEPT ![KeyOf[at]] = "none"]
  /\ UNCHANGED <<files, stopFile, claimed, produced, target, collected, rows>>

(* remove_file(), which swallows its failure, and then the claim.          *)
ClearCapture ==
  /\ Moves("clear", "append")
  /\ \/ captures' = [captures EXCEPT ![KeyOf[at]] = "none"]
     \/ captures' = captures
  /\ claimed' = [claimed EXCEPT ![target] = KeyOf[at]]
  /\ UNCHANGED <<files, stopFile, produced, target, collected, rows>>

(* A row on a line of its own reads as the row once its name is whole.  The *)
(* header, and a line cut before that, reads as no row.                     *)
NoRow == [key |-> NoKey, checklist |-> NoKey]
Reads(row, upto) == IF upto \in {"named", "rest", "line"} THEN row ELSE NoRow

(* append_index() writes at the end of what is there, under a header only   *)
(* if there was no file.  Behind a line that was cut, the text runs on: two  *)
(* keys in one, a name that is no file's, or more columns nobody reads.     *)
(* (A cut right behind the comma before the name is one in the name.)       *)
OwnLine == tail \in {"none", "line"}
Before  == IF tail = "none" THEN <<NoRow>> ELSE index

Grown(row, upto) ==
  IF OwnLine THEN Append(Before, Reads(row, upto))
  ELSE [index EXCEPT ![Len(index)] =
          CASE tail = "rest" -> @
            [] tail = "key"  -> Reads([row EXCEPT !.key = Merged], upto)
            [] OTHER         -> NoRow]

GrownTail(upto) ==
  CASE OwnLine \/ tail = "key" \/ upto = "line" -> upto
    [] tail = "rest" -> "rest"
    [] OTHER         -> "name"

(* The row of this visit, written as far as upto.  What is listed has a row *)
(* below the first line that no later append can spoil.                     *)
WriteRow(upto) ==
  /\ index' = Grown([key |-> KeyOf[at], checklist |-> target], upto)
  /\ tail' = GrownTail(upto)
  /\ listed' = IF /\ OwnLine /\ Before # <<>> /\ upto \in {"rest", "line"}
                  /\ files[target] = KeyOf[at]
               THEN listed \cup {target} ELSE listed

(* open() makes the file, close() writes header and row out: cut short, the *)
(* append leaves nothing, an empty file, some of the header, or some of the *)
(* row.                                                                     *)
WriteHeader ==
  /\ tail = "none"
  /\ \/ index' = <<>> /\ tail' = "line"
     \/ index' = <<NoRow>> /\ tail' \in {"name", "line"}
  /\ UNCHANGED listed

CutAppend == Fault /\ (WriteHeader \/ \E upto \in Tails \ {"none"} : WriteRow(upto))

AppendIndex ==
  /\ Moves("append", "report")
  /\ WriteRow("line")
  /\ UNCHANGED <<files, captures, stopFile, claimed, produced, target, collected>>

(* The share dropped: the exception reaches the loop's handler.            *)
AppendFails ==
  /\ pc = "append"
  /\ \/ UNCHANGED rows /\ Leaves("failed")
     \/ CutAppend /\ LogFails /\ BackInLoop
  /\ UNCHANGED <<files, captures, stopFile, collected>>

Report ==
  /\ pc = "report"
  /\ Leaves("checklisted")
  /\ UNCHANGED <<folder, listed, collected>>
-----------------------------------------------------------------------------
(* The operator and the machine. *)

(* SecureCRT is closed, or the machine goes down, between two steps.       *)
Killed ==
  /\ pc # "idle"
  /\ Ends("killed")
  /\ \/ UNCHANGED <<rows, faults>>
     \/ pc = "append" /\ CutAppend
  /\ UNCHANGED <<files, captures, stopFile>>

(* "Removing a checklist is how you ask for that switch again."            *)
DeleteChecklist(n) ==
  /\ files[n] # NoKey
  /\ deletes < MaxDeletes
  /\ deletes' = deletes + 1
  /\ files' = [files EXCEPT ![n] = NoKey]
  /\ listed' = listed \ {n}
  /\ released' = released \cup {n}
  /\ collected' = {s \in collected : KeyOf[s] # files[n]}
  /\ UNCHANGED <<captures, index, tail, stopFile, run, lost, ended, runs, faults>>

(* Looked for at the head of the loop, and toggled only there: elsewhere   *)
(* nobody sees it come or go.                                              *)
ToggleStop ==
  /\ pc = "loop"
  /\ stopFile' = ~stopFile
  /\ UNCHANGED <<files, captures, index, tail, run, history>>

Visit == \/ VisitFails \/ OpenCapture \/ OpenFails \/ WriteCapture \/ WriteFails
         \/ KeepCapture \/ Audit \/ AuditFails \/ PlaceChecklist \/ Rename
         \/ PlaceFails \/ ClearCapture \/ AppendIndex \/ AppendFails \/ Report

Walking == NextSwitch \/ Complete \/ Stopped \/ Visit

Next == \/ Start
        \/ Walking
        \/ Killed
        \/ \E n \in Name : DeleteChecklist(n)
        \/ ToggleStop

Spec == Init /\ [][Next]_vars

(* A started run keeps stepping: every wait in it ends, with an answer or   *)
(* with a timeout.  Nobody is obliged to start, stop or delete anything.    *)
FairSpec == Spec /\ WF_vars(Walking)
-----------------------------------------------------------------------------
(* A run that visited its whole list, and lost no row to a failing write,  *)
(* has exactly one row for each saved session: "every run's file is a       *)
(* complete account of the whole list".                                    *)
LogIsCensus ==
  pc = "idle" /\ ended = "complete" /\ ~lost => \A s \in Session : Len(log[s]) = 1

(* A row that says `checklisted' or `audit failed' is backed by the folder *)
(* for as long as nobody deletes from it, and a switch that was collected  *)
(* in this run keeps its capture or its checklist at every step on the way *)
(* from one to the other: the connection is the part that cannot be        *)
(* repeated cheaply.                                                       *)
CollectionKept ==
  \A s \in collected :
    LET captured    == captures[KeyOf[s]] = "whole"
        shelved     == \E n \in Name : files[n] = KeyOf[s]
        says(o)     == o \in {log[s][i] : i \in DOMAIN log[s]}
    IN  /\ captured \/ shelved
        /\ says("captured") \/ says("audit failed") => captured
        /\ says("checklisted") => shelved

(* What a row of the index that can be read, now and after any append to    *)
(* come, says of a checklist nobody has deleted is true: the file is there  *)
(* and holds that switch's verdicts, not its neighbour's.                   *)
Lasting(i) ==
  /\ i \in 2..Len(index)
  /\ index[i].key \in Key
  /\ i < Len(index) \/ tail \in {"line", "rest"}

IndexTellsTruth ==
  \A i \in DOMAIN index :
    Lasting(i) /\ index[i].checklist \notin released =>
      files[index[i].checklist] = index[i].key

(* The same of every whole line, the first included: nobody else's verdicts *)
(* stand under the name.  They do after a run that died between making the  *)
(* file and writing it out, which leaves one without a header: the first    *)
(* switch of the next run is written where read_index() looks for the       *)
(* header, and in the run after that its name is free for a neighbour.      *)
EveryLineTellsTruth ==
  \A i \in DOMAIN index :
    /\ index[i].key \in Key
    /\ i < Len(index) \/ tail = "line"
    /\ index[i].checklist \notin released
    => files[index[i].checklist] \in {NoKey, index[i].key}

(* Why, and why no listed checklist is replaced.  Every listed name is      *)
(* claimed; a session still to be visited claims no name and has none       *)
(* listed, so place_checklist() can only take a name that is not listed;    *)
(* and the last row of a listed switch names its checklist, so that the     *)
(* next run's read_index() finds it.                                        *)
Placing == {"collect", "writing", "audit", "place", "rename", "clear"}
Waiting(stages) == todo \cup (IF pc \in stages THEN {at} ELSE {})

VisitShape ==
  /\ pc \notin {"idle", "loop"} => at \in Unique /\ at \notin todo
  /\ pc \in {"audit", "place", "rename", "clear", "append", "report"} => auditing
  /\ pc = "place" => produced \in Base
  /\ pc \in {"rename", "clear", "append", "report"} => target \in Name
  /\ tail = "none" => index = <<>>
  /\ ~OwnLine => index # <<>>

ListedAreClaimed ==
  pc # "idle" /\ auditing => \A n \in listed : claimed[n] # NoKey

WaitingClaimNothing ==
  \A s \in Waiting(Placing) : \A n \in Name : claimed[n] # KeyOf[s]

WaitingHaveNone ==
  auditing => \A s \in Waiting(Placing \cup {"append"}) :
                \A n \in listed : files[n] # KeyOf[s]

ListedAreIndexed ==
  \A n \in listed :
    /\ files[n] # NoKey
    /\ \E i \in DOMAIN index :
         /\ Lasting(i)
         /\ index[i] = [key |-> files[n], checklist |-> n]
         /\ \A j \in DOMAIN index : i < j => index[j].key # files[n]

TargetIsFree ==
  /\ pc \in {"rename", "clear", "append"} => target \notin listed
  /\ pc \in {"clear", "append"} => files[target] = KeyOf[at] \/ target \in released
  /\ pc = "append" => claimed[target] = KeyOf[at]

RowsAreListed ==
  \A i \in DOMAIN index :
    Lasting(i) /\ index[i].checklist \notin released =>
      /\ index[i].checklist \in listed
      /\ files[index[i].checklist] = index[i].key

Inductive ==
  /\ TypeOK /\ VisitShape /\ ListedAreClaimed /\ WaitingClaimNothing
  /\ WaitingHaveNone /\ ListedAreIndexed /\ TargetIsFree /\ RowsAreListed

(* The folder as its reader sees it implements Shelf: no step of any run    *)
(* replaces or removes a listed checklist - only its reader does - and no   *)
(* switch is listed twice.                                                  *)
Shelved == [n \in Name |-> IF n \in listed THEN files[n] ELSE NoKey]
Folder == INSTANCE Shelf WITH shelf <- Shelved
ImplementsShelf == Folder!Spec

(* A session a run skips as already done has its own checklist in the      *)
(* folder: "a row whose checklist has since been deleted from the folder    *)
(* is treated as not done".                                                *)
SkippedHaveOwn ==
  [][pc = "idle" /\ pc' = "loop" /\ auditing' =>
       \A s \in Unique : log'[s] # <<>> => \E n \in Name : files[n] = KeyOf[s]]_vars

(* Nothing that happens to one switch ends the walk: a session waiting in  *)
(* a run is answered for in that run's log, unless the run is stopped by    *)
(* the STOP file, is killed, or the log itself fails.                       *)
NothingEndsTheWalk ==
  \A s \in Session :
    s \in todo ~> (log[s] # <<>> \/ lost \/ ended \in {"stopped", "killed"})
=============================================================================
