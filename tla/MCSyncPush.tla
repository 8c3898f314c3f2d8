------------------------------- MODULE MCSyncPush -------------------------------
(* Instances of SyncPush for TLC. *)
EXTENDS SyncPush, TLC
CONSTANTS parent, child, final, edit, cParent, p1, p2

(* An invoice made offline, and the action that finalises it. *)
ParentThenChild == <<parent, child>>
(* A create, and the finalising and an edit of a document others save too. *)
AllFour == <<parent, child, final, edit>>

Makes == [e \in Posts |-> IF e = parent THEN cParent ELSE NoCid]
Refers == [e \in Entries |-> IF e = child THEN {cParent} ELSE {}]
FirstVersion == [e \in Entries |-> IF e \in {final, edit} THEN 1 ELSE NoBase]
Symmetry == Permutations(Pushes)
=============================================================================
