------------------------------ MODULE ActionList ------------------------------
(***************************************************************************)
(* The actions of one routine as its users and the execution queue see     *)
(* them: a list without repetitions that is edited in one piece.           *)
(* ExecutionQueue relies on it; ActionPositions implements it with rows    *)
(* that hold positions.                                                    *)
(***************************************************************************)
EXTENDS Naturals, Sequences, SequencesExt

CONSTANTS Actions, InitialList

VARIABLE list

Init == list = InitialList

\* A new action comes in somewhere; the others keep their order.
Extend ==
    \E a \in Actions \ {list[k] : k \in 1..Len(list)}, i \in 1..Len(list)+1 :
        list' = InsertAt(list, i, a)

\* An action goes; the others keep their order.
Shrink == \E i \in 1..Len(list) : list' = RemoveAt(list, i)

\* The same actions in another order.
Rearrange ==
    \E p \in [1..Len(list) -> 1..Len(list)] :
        /\ IsInjective(p)
        /\ list' = [i \in 1..Len(list) |-> list[p[i]]]

Next == Extend \/ Shrink \/ Rearrange

Spec == Init /\ [][Next]_list
=============================================================================
