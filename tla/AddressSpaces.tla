--------------------------- MODULE AddressSpaces ---------------------------
(***************************************************************************)
(* What fork and exit promise of memory: a fork gives the child the same   *)
(* address space as its parent, on pages of its own, or leaves everything  *)
(* as it was; an exit gives back all but the page of the task.  Memory     *)
(* implements this, entry by entry.                                        *)
(***************************************************************************)
EXTENDS Integers, FiniteSets

CONSTANTS Slot,  (* the slots of tasks that are forked                     *)
          First  (* what the first task maps, on pages that are not counted*)

VARIABLES space,   (* the entries that each task maps                      *)
          present, (* the slots in use                                     *)
          free     (* how many pages there are to hand out                 *)

spaceVars == <<space, present, free>>

(* The page of the task, the page table, and the pages it maps.            *)
ForkFirst ==
  /\ present = {} /\ free >= 2
  /\ present' = {1}
  /\ space' = [space EXCEPT ![1] = First]
  /\ free' = free - 2

Fork(t, c) ==
  /\ t \in present /\ c \notin present /\ space[t] # {}
  /\ free >= 2 + Cardinality(space[t])
  /\ present' = present \cup {c}
  /\ space' = [space EXCEPT ![c] = space[t]]
  /\ free' = free - (2 + Cardinality(space[t]))

(* Task 1's pages are not counted, and it never dies.                      *)
Exit(t) ==
  /\ t \in present \ {1} /\ space[t] # {}
  /\ space' = [space EXCEPT ![t] = {}]
  /\ free' = free + 1 + Cardinality(space[t])
  /\ UNCHANGED present

SpacesInit == present = {} /\ space = [s \in Slot |-> {}] /\ free \in Nat

SpacesNext ==
  \/ ForkFirst
  \/ \E t, c \in Slot : Fork(t, c)
  \/ \E t \in Slot : Exit(t)

SpacesSpec == SpacesInit /\ [][SpacesNext]_spaceVars

=============================================================================
