-------------------------------- MODULE Feed --------------------------------
(***************************************************************************)
(* What a paginated list promises the person who scrolls it: items only    *)
(* ever appear, below what is already there, and only items the server has *)
(* published; each one once, unless the list says that it repeats some.    *)
(***************************************************************************)
EXTENDS Naturals, Sequences

CONSTANT Repeats    \* BOOLEAN: an item may appear again below

VARIABLES
    posted,     \* items 1..posted are on the server, the newest is posted
    list        \* what the list shows, top to bottom

vars == <<posted, list>>

Distinct(s) == \A i, j \in DOMAIN s : s[i] = s[j] => i = j

Init == posted \in Nat /\ list = <<>>

Post == posted' = posted + 1 /\ UNCHANGED list

\* The rows on screen stay, others follow.
Extend ==
    /\ list' \in Seq(1..posted)
    /\ Len(list) <= Len(list')
    /\ \A i \in DOMAIN list : list'[i] = list[i]
    /\ Repeats \/ Distinct(list')
    /\ UNCHANGED posted

Next == Post \/ Extend

Spec == Init /\ [][Next]_vars
=============================================================================
