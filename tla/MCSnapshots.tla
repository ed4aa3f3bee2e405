---------------------------- MODULE MCSnapshots ----------------------------
(***************************************************************************)
(* Instances of Snapshots for TLC: values are numbers, new entities of     *)
(* every class are compared with 0.                                        *)
(***************************************************************************)
EXTENDS Snapshots, TLC

MCClassBaseline == [c \in Classes |-> 0]

\* the game starts with an entity in every slot
MCInit == Init /\ \A s \in Slots : edicts[s] # NoEntity /\ edicts[s].value = 1
MCSpec == MCInit /\ [][Next]_vars

\* nothing tells one slot from another
SlotSymmetry == Permutations(Slots)

=============================================================================
