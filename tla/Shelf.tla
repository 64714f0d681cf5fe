------------------------------- MODULE Shelf -------------------------------
(***************************************************************************)
(* What the output folder of a checklist walk promises its reader: a       *)
(* listed checklist belongs to one switch, a switch has at most one, and   *)
(* nothing takes one off the shelf but the reader's own delete, or a run    *)
(* that cannot read the list of what stands there.                         *)
(*                                                                         *)
(* Walk.tla implements this: its shelf is the set of checklists whose      *)
(* index row was written, whole enough and low enough to be read.          *)
(***************************************************************************)
CONSTANTS Name,   \* checklist file names
          Key,    \* session keys, one per switch
          NoKey   \* not a key: no listed checklist of that name

VARIABLES
  shelf,      \* shelf[n]: the switch whose verdicts the listed file n holds
  released    \* the names the reader has deleted, or the walk lost sight of

TypeOK == shelf \in [Name -> Key \cup {NoKey}] /\ released \subseteq Name

Init == shelf = [n \in Name |-> NoKey] /\ released = {}

(* A finished switch: its checklist is listed under a name that is free.   *)
Put(n, k) ==
  /\ shelf[n] = NoKey
  /\ \A m \in Name : shelf[m] # k
  /\ shelf' = [shelf EXCEPT ![n] = k]
  /\ UNCHANGED released

(* The reader deletes a checklist, listed or not, which is how a switch is *)
(* asked again.                                                            *)
Discard(n) ==
  /\ shelf' = [shelf EXCEPT ![n] = NoKey]
  /\ released' = released \cup {n}

(* A run starts without the list: it may write over anything that stands.   *)
Forget ==
  /\ shelf' = [n \in Name |-> NoKey]
  /\ released' = released \cup {n \in Name : shelf[n] # NoKey}

Next == Forget \/ \E n \in Name : Discard(n) \/ \E k \in Key : Put(n, k)

Spec == Init /\ [][Next]_<<shelf, released>>

(* No switch has two listed checklists: a fleet report counts each once.   *)
OnePerSwitch ==
  \A m, n \in Name : shelf[m] = shelf[n] /\ shelf[m] # NoKey => m = n
=============================================================================
