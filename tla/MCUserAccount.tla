---------------------------- MODULE MCUserAccount ----------------------------
\* One run asks all questions of an account, each with the bounds it needs.  As a
\* member it is guessed at but not invited again; and what races an invitation are
\* other calls of it, and sign-ins that are right.
EXTENDS Accounts, TLC

CONSTANTS p1, p2

(* ------------------------------ UserDevices ------------------------------ *)
Setup(ops, most, historyLength, passwords) ==
    [ops |-> ops, events |-> most, addresses |-> {"", "ip"}, cap |-> 2, ttl |-> 2,
     historyLength |-> historyLength, passwords |-> passwords]
MCSetups ==
    {Setup({"trust", "distrust"}, 5, 0, {}), Setup({"recognize", "forget"}, 4, 0, {}),
     Setup({"password"}, 4, 0, {1, 2}), Setup({"password"}, 4, 2, {1, 2, 3}),
     Setup({"password", "other"}, 4, 1, {1, 2, 3, 4}), Setup({"trust", "other", "snapshot"}, 3, 0, {})}

(* --------------------------------- Bounds -------------------------------- *)
MemberBound ==
    /\ lastLink' = 0 /\ \A p \in Proc : call'[p].link = 0
    /\ \A p \in Proc : call'[p].window + clock' <= MaxClock   \* a lock expires under passwords
InvitedBound ==
    /\ clock' = 1
    /\ \A p \in Proc : call'[p].window = 0 /\ call'[p].next # "fail"

MCNext ==
    /\ AccountsNext
    /\ start = "member" => MemberBound
    /\ start = "invited" => InvitedBound
MCSpec == AccountsInit /\ [][MCNext]_accountsVars

Symmetry == Permutations(Proc)
=============================================================================
