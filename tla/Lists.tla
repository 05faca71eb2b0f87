-------------------------------- MODULE Lists --------------------------------
(***************************************************************************)
(* Operators on the Redis lists of src/server/pkg/workqueue/redis.go.  A   *)
(* list is a sequence whose first element is the head of the Redis list.   *)
(***************************************************************************)
EXTENDS Integers, Sequences

\* The values stored in a list.
Elements(list) == {list[i] : i \in DOMAIN list}

\* The elements of list whose position is in S, in list order.  It is written
\* as a recursive function, not with SelectSeq, so that proofs can expand it.
SubseqAt(list, S) ==
  LET at[n \in 0..Len(list)] ==
        IF n = 0 THEN << >>
        ELSE IF n \in S THEN Append(at[n - 1], list[n]) ELSE at[n - 1]
  IN  at[Len(list)]

\* LREM list 0 value: every element equal to value leaves the list.
LRemAll(list, value) == SubseqAt(list, {i \in DOMAIN list : list[i] # value})

\* LREM list 1 value: the element equal to value nearest to the head leaves
\* the list.
LRemFirst(list, value) ==
  SubseqAt(list, {i \in DOMAIN list : \/ list[i] # value
                                      \/ \E k \in 1..(i - 1) : list[k] = value})
===============================================================================
