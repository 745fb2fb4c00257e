------------------------------- MODULE Ordering -------------------------------
(* Lists ordered by keys, as Python's sorted() orders them.                *)
EXTENDS Integers, Sequences, FiniteSets, SequencesExt

(* The same function, evaluated once.                                      *)
Table(f) == CHOOSE g \in {f} : g = f

(* Tuples of numbers, compared from the left.                              *)
Less(s, t) ==
    \/ \E i \in DOMAIN s : i \in DOMAIN t /\ s[i] < t[i] /\ \A j \in 1..i - 1 : s[j] = t[j]
    \/ Len(s) < Len(t) /\ \A j \in DOMAIN s : s[j] = t[j]

(* The elements of a set, by different keys.                               *)
SortedBy(S, key) ==
    LET place == Table([x \in S |-> Cardinality({y \in S : Less(key[y], key[x])})])
    IN  <<>> \o [i \in 1..Cardinality(S) |-> CHOOSE x \in S : place[x] = i - 1]
Sorted(S, Key(_)) == SortedBy(S, Table([x \in S |-> Key(x)]))

Top(s, n) == SubSeq(s, 1, IF n < Len(s) THEN n ELSE Len(s))
Position(s, x) == CHOOSE i \in DOMAIN s : s[i] = x
===============================================================================
