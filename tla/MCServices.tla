------------------------------- MODULE MCServices -------------------------------
\* Small instances of the five services.
EXTENDS Services, TLC

CONSTANTS c1, c2, c3, b1, b2

(* ---------------------------- StatelessTokens ---------------------------- *)
Setup(store, denylist, rotation, accessTtl, refreshTtl) ==
    [store |-> store, denylist |-> denylist, rotation |-> rotation,
     accessTtl |-> accessTtl, refreshTtl |-> refreshTtl]
MCSetups ==
    {Setup("jwt", "redis", "always", 1, 3), Setup("jwt", "memory", "sliding", 1, 3),
     Setup("sealed", "redis", "sliding", 1, 2), Setup("sealed", "memory", "always", 1, 2),
     Setup("jwt", "redis", "none", 1, 3)}

(* ------------------------------- RateLimit ------------------------------- *)
Rule(limit, window) == [limit |-> limit, window |-> window]
Policy(id, key, rules) == [id |-> id, key |-> key, rules |-> rules]
Short == <<Policy("a", "ip", <<Rule(1, 2)>>)>>
Double == <<Policy("b", "ip", <<Rule(1, 1), Rule(2, 2)>>)>>
Stacked == <<Policy("c", "user", <<Rule(1, 2)>>), Policy("d", "ip", <<Rule(2, 2)>>),
             Policy("e", "ip", <<Rule(1, 2)>>)>>
PerToken == <<Policy("f", "refresh-token", <<Rule(1, 1)>>), Policy("g", "function", <<Rule(1, 2)>>)>>
Anna == [ip |-> "i", user |-> "u", token |-> ""]
Bob == [ip |-> "i", user |-> "", token |-> "t"]
Site(redis, attached, ahead, lag, routes, callers) ==
    [redis |-> redis, attached |-> attached, ahead |-> ahead, lag |-> lag, routes |-> routes,
     callers |-> callers, overrides |-> [e |-> <<>>]]
\* Servers a window apart, servers and increments half a window late each, a single
\* server whose increments take a window, and one with its counters in memory.
MCSites ==
    {Site(TRUE, 1, <<0, 2>>, 0, {Short}, {Anna}), Site(TRUE, 1, <<0, 1>>, 1, {Short}, {Anna}),
     Site(TRUE, 2, <<0>>, 1, {Double}, {Anna}),
     Site(FALSE, 2, <<0>>, 0, {Double, Stacked, PerToken}, {Anna, Bob})}

(* ----------------------------- FederatedLogin ---------------------------- *)
Local(email, initial) == [email |-> email, initial |-> initial, active |-> TRUE]
Federated(emailMatch, allowSignup) == [emailMatch |-> emailMatch, allowSignup |-> allowSignup]
MCEmails == [x |-> "e1", y |-> "e3"]
MCLocals == [anna |-> Local("e1", FALSE), bob |-> Local("e2", FALSE)]
MCLinked == <<[sub |-> "y", user |-> "bob"]>>
MCPolicies ==
    {Federated("create-separate", FALSE), Federated("auto-link-if-verified", TRUE),
     Federated("require-interactive-link", FALSE)}

(* ------------------------------ CookieClient ----------------------------- *)
\* c1 and c2 are calls of one tab, c3 is one of another.
MCTabOf == [c \in {c1, c2, c3} |-> IF c = c3 THEN "t2" ELSE "t1"]

(* --------------------------------- Bounds -------------------------------- *)
\* The browsers are symmetric, and bob links nothing.
LoginBound ==
    /\ flows' # <<>> => flows'[1].browser = b1
    /\ \A n \in DOMAIN flows' : flows'[n].user # "bob"
\* Counters expire where servers differ; the other sites stop after one window.
LimitBound == Len(site.ahead) = 1 => now' <= 2
MCNext ==
    /\ Next
    /\ service = "logins" => LoginBound
    /\ service = "limits" => LimitBound
MCSpec == Init /\ [][MCNext]_vars

Symmetry == Permutations({c1, c2})
=============================================================================
