------------------------------- MODULE Lists --------------------------------
(***************************************************************************)
(* What the list commands promise: RPUSH, LPOP, LTRIM k 1 -1 and DEL each  *)
(* take effect at one instant on the whole list.  There is no main record, *)
(* no item key, no cache and no lock here.                                 *)
(***************************************************************************)
EXTENDS Naturals, Sequences

CONSTANTS Keys, Elements

VARIABLE list   \* the elements of each key, the empty list for no key

Init == list = [k \in Keys |-> <<>>]

Push(k, e) == list' = [list EXCEPT ![k] = Append(@, e)]

RemoveFirst(k) ==
    /\ list[k] # <<>>
    /\ list' = [list EXCEPT ![k] = Tail(@)]

Delete(k) ==
    /\ list[k] # <<>>
    /\ list' = [list EXCEPT ![k] = <<>>]

Next ==
    \E k \in Keys :
        \/ \E e \in Elements : Push(k, e)
        \/ RemoveFirst(k)
        \/ Delete(k)

Spec == Init /\ [][Next]_list
=============================================================================
