---------------------------- MODULE NewestFirst ----------------------------
(***************************************************************************)
(* What the maps of map2.c promise: entries in the order in which they     *)
(* were added, newest first, where a key finds its newest entry.           *)
(***************************************************************************)
EXTENDS Naturals, Sequences

CONSTANTS Keys, Values, Callers, NULL

VARIABLES
    entries,   \* the pairs of key and value, newest first
    answer     \* caller -> what its last MAP_get or MAP_remove returned

Init ==
    /\ entries = <<>>
    /\ answer = [c \in Callers |-> NULL]

IsNewest(k, i) ==
    /\ entries[i].key = k
    /\ \A j \in 1..(i - 1) : entries[j].key # k

Has(k) == \E i \in 1..Len(entries) : entries[i].key = k

Without(i) ==
    [j \in 1..(Len(entries) - 1) |-> IF j < i THEN entries[j] ELSE entries[j + 1]]

Add(k, v) ==
    /\ entries' = <<[key |-> k, value |-> v]>> \o entries
    /\ UNCHANGED answer

Get(c, k) ==
    /\ \/ /\ ~Has(k)
          /\ answer' = [answer EXCEPT ![c] = NULL]
       \/ \E i \in 1..Len(entries) :
            IsNewest(k, i) /\ answer' = [answer EXCEPT ![c] = entries[i].value]
    /\ UNCHANGED entries

Remove(c, k) ==
    \/ /\ ~Has(k)
       /\ answer' = [answer EXCEPT ![c] = NULL]
       /\ UNCHANGED entries
    \/ \E i \in 1..Len(entries) :
         /\ IsNewest(k, i)
         /\ answer' = [answer EXCEPT ![c] = entries[i].value]
         /\ entries' = Without(i)

Next ==
    \E k \in Keys :
        \/ \E v \in Values : Add(k, v)
        \/ \E c \in Callers : Get(c, k) \/ Remove(c, k)

Spec == Init /\ [][Next]_<<entries, answer>>
=============================================================================
