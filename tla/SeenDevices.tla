------------------------------ MODULE SeenDevices ------------------------------
(***************************************************************************)
(* The lists of device records of an account, as UserService makes them:   *)
(* a record is [id, ip, until], and has expired when until <= the time.     *)
(*                                                                         *)
(* A filter and a sort are given by the indices they take and by the place *)
(* of each, the number of those before it, so that there is no recursion   *)
(* to reason about.                                                        *)
(***************************************************************************)
EXTENDS Integers, Sequences, FiniteSets

Ids(list) == {list[i].id : i \in DOMAIN list}

\* The members of S, one after the other, as the pairs of the relation R order them.
InOrder(S, R) ==
    [n \in 1 .. Cardinality(S) |-> CHOOSE i \in S : Cardinality({j \in S : <<j, i>> \in R}) = n - 1]

\* filter: the records at the indices S, in the order they have.
Filtered(list, S) ==
    LET order == InOrder(S, {p \in S \X S : p[1] < p[2]})
    IN [n \in 1 .. Cardinality(S) |-> list[order[n]]]

Without(list, d) == Filtered(list, {i \in DOMAIN list : list[i].id # d})
Unexpired(list, time) == Filtered(list, {i \in DOMAIN list : list[i].until > time})

\* The sort is stable: of two that end together the one listed first comes first.
EndsBefore(list) ==
    {p \in (DOMAIN list) \X (DOMAIN list) :
        list[p[1]].until < list[p[2]].until \/ (list[p[1]].until = list[p[2]].until /\ p[1] < p[2])}
ByEnd(list) ==
    LET order == InOrder(DOMAIN list, EndsBefore(list)) IN [i \in DOMAIN list |-> list[order[i]]]

\* Mutant: the records that end first are kept.
EvictedFromTheEnd(list, cap) == SubSeq(ByEnd(list), 1, cap)
\* The cap: the records that end first go.
Evicted(list, cap) == SubSeq(ByEnd(list), Len(list) - cap + 1, Len(list))

AddSeen(list, record, cap, time) ==
    LET next == Append(list, record)
        alive == Unexpired(next, time)
    IN CASE Len(next) <= cap -> next
         [] Len(next) > cap /\ Len(alive) <= cap -> alive
         [] OTHER -> Evicted(alive, cap)

Slid(list, d, until) ==
    [i \in DOMAIN list |-> IF list[i].id = d THEN [list[i] EXCEPT !.until = until] ELSE list[i]]
================================================================================
