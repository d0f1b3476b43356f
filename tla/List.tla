-------------------------------- MODULE List --------------------------------
(****************************************************************************)
(* The intrusive doubly linked lists of base/list.h, as sequences of nodes. *)
(* A node that is on no list is linked to itself, which is what list_empty  *)
(* tests and what a loop that reaches such a node follows.                  *)
(****************************************************************************)
EXTENDS Naturals, Sequences

\* The list head, where a loop over the list ends.
End == "end"

Elems(s) == {s[i] : i \in 1..Len(s)}
NoDup(s) == \A i, j \in 1..Len(s) : s[i] = s[j] => i = j
Last(s) == s[Len(s)]
Front(s) == [i \in 1..(Len(s) - 1) |-> s[i]]

\* head->next
First(s) == IF s = <<>> THEN End ELSE Head(s)

\* list_del_init: take x out of s, if it is there.
Unlink(s, x) ==
    IF x \in Elems(s)
    THEN LET k == CHOOSE i \in 1..Len(s) : s[i] = x
         IN  [i \in 1..(Len(s) - 1) |-> IF i < k THEN s[i] ELSE s[i + 1]]
    ELSE s

\* The `n' that list_for_each_entry_safe reads before the body of the loop runs
\* for x: the successor of x, or x itself when it is on no list.
Succ(s, x) ==
    IF x \in Elems(s)
    THEN LET k == CHOOSE i \in 1..Len(s) : s[i] = x
         IN  IF k = Len(s) THEN End ELSE s[k + 1]
    ELSE x
=============================================================================
