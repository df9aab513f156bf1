------------------------------ MODULE LRUCache ------------------------------
(***************************************************************************)
(* LRUCache of my_stl/my_stl.hpp: a list of nodes, the most recently used  *)
(* first, and a hash map from keys to list positions, which is determined  *)
(* by the list.                                                            *)
(***************************************************************************)
EXTENDS Naturals, Sequences, SequencesExt

Empty(capacity) == [capacity |-> capacity, list |-> <<>>]

Keys(c) == {c.list[i].key : i \in DOMAIN c.list}

Value(c, key) == (CHOOSE n \in {c.list[i] : i \in DOMAIN c.list} : n.key = key).value

(* The list without the node of a key, which the hash map leads to.        *)
Others(c, key) == RemoveAt(c.list, CHOOSE i \in DOMAIN c.list : c.list[i].key = key)

(* get() of a key that is present moves its node to the front.             *)
Get(c, key) ==
    IF key \in Keys(c)
    THEN [c EXCEPT !.list = <<[key |-> key, value |-> Value(c, key)]>> \o Others(c, key)]
    ELSE c

(* Mutant: > for >= in the test of the capacity.                           *)
PushOverCapacity(c, key, value) ==
    LET present == key \in Keys(c)
        full == Len(c.list) > c.capacity
        kept == IF present THEN Others(c, key)
                ELSE IF full THEN SubSeq(c.list, 1, Len(c.list) - 1) ELSE c.list
    IN [c EXCEPT !.list = <<[key |-> key, value |-> value]>> \o kept]

(* push(): a present key is moved and changed, a new one takes the place   *)
(* of the last node when the capacity is reached.                          *)
Push(c, key, value) ==
    LET present == key \in Keys(c)
        full == Len(c.list) >= c.capacity
        kept == IF present THEN Others(c, key)
                ELSE IF full THEN SubSeq(c.list, 1, Len(c.list) - 1) ELSE c.list
    IN [c EXCEPT !.list = <<[key |-> key, value |-> value]>> \o kept]
=============================================================================
