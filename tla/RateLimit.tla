------------------------------ MODULE RateLimit ------------------------------
(***************************************************************************)
(* The fixed-window limiter (RateLimiter), its two stores and the pair of   *)
(* interceptors that puts requests through it, one before and one after     *)
(* the guard.  Servers may run ahead of the shared clock; an increment in   *)
(* Redis lands some time after the server has read its clock, and the       *)
(* server may die before it has given its counters an expiry.               *)
(*                                                                         *)
(* Requests are identities with a caller; what a request wanted is left     *)
(* out.  A memory store holds expired counters until a sweep: hit() and     *)
(* get() take them for missing, so here they are.                           *)
(***************************************************************************)
EXTENDS Integers, Sequences, FiniteSets, SequencesExt

CONSTANTS
    Request,      \* requests
    Deployments,  \* [redis, attached, ahead, lag, routes, callers, overrides], where a caller is
                  \* [ip, user, token], "" for a user or a token that is not there, `ahead' is by
                  \* how much each server's clock is ahead, and an increment takes `lag' at most
    MaxTime       \* bound: the clock

VARIABLES
    site,         \* the deployment: constant
    now,          \* the shared clock
    counters,     \* the store: key -> [count, expires], for the keys it has
    req,          \* requests in flight and answered
    tally         \* ghost: the keys each request was counted on, with the counts it was told

vars == <<site, now, counters, req, tally>>

Forever == MaxTime + 100
Absent == [count |-> 0, expires |-> 0]

(* ------------------------------- Policies -------------------------------- *)
\* `policies` of the interceptors replaces the rules of an id, or drops it.
RulesAt(s, policy) == IF policy.id \in DOMAIN s.overrides THEN s.overrides[policy.id] ELSE policy.rules
EffectiveRules(policy) == RulesAt(site, policy)

Owner(policy) == IF policy.key \in {"ip", "function"} THEN "pre" ELSE "post"

\* The policies a phase checks, by their place in the route, which is the order of checks.
Owned(route, phase) ==
    {i \in DOMAIN route : EffectiveRules(route[i]) # <<>> /\ Owner(route[i]) = phase}

\* Who a policy counts; NoSubject skips the policy.
NoSubject == ""
Subject(policy, caller) ==
    CASE policy.key = "user" /\ caller.user # "" -> "u:" \o caller.user
      [] policy.key = "refresh-token" -> caller.token
      [] policy.key = "function" /\ caller.user # "" -> NoSubject
      [] OTHER -> "ip:" \o caller.ip

(* ------------------------------- One check ------------------------------- *)
\* Mutant: a counter is kept for one window.
CounterTtlOne(rule) == rule.window
CounterTtl(rule) == 2 * rule.window

WindowStart(clock, rule) == (clock \div rule.window) * rule.window
Key(policy, subject, i, clock) ==
    [id |-> policy.id, subject |-> subject, rule |-> i,
     start |-> WindowStart(clock, EffectiveRules(policy)[i])]

Count(k) == LET c == IF k \in DOMAIN counters THEN counters[k] ELSE Absent
            IN IF c.expires > now THEN c.count ELSE 0

Verdict(rule, k, n) ==
    [limit |-> rule.limit, violated |-> n > rule.limit, resetAt |-> k.start + rule.window,
     remaining |-> IF n < rule.limit THEN rule.limit - n ELSE 0]

\* Of the violated items the one that resets last, else the one with least left.
PickGoverning(items) ==
    LET failing == {i \in DOMAIN items : items[i].violated}
        Later(i) == \A j \in failing : items[j].resetAt <= items[i].resetAt
        Lesser(i) == \A j \in DOMAIN items : items[i].remaining <= items[j].remaining
    IN IF failing # {} THEN items[CHOOSE i \in failing : Later(i)]
       ELSE items[CHOOSE i \in DOMAIN items : Lesser(i)]

(* ------------------------------ Requests --------------------------------- *)
\* The pair may be registered for the app and again on the controller.
Interceptors == [i \in 1..2 * site.attached |-> IF i <= site.attached THEN "pre" ELSE "post"]

\* The interceptors that find policies to check: a phase that was evaluated is not
\* evaluated by the other registration of the pair.
Evaluations(route) ==
    {n \in DOMAIN Interceptors :
        /\ Owned(route, Interceptors[n]) # {}
        /\ \A earlier \in 1..(n - 1) : Interceptors[earlier] # Interceptors[n]}

Phase(q) == Interceptors[Min(q.todo)]

\* The policies a phase checks for a request: those that have a subject.
Due(q, phase) == {i \in Owned(q.route, phase) : Subject(q.route[i], q.caller) # NoSubject}

\* The policy that is checked now: the first of those that are due.
Checked(q) == q.route[Min(q.due)]

Fresh == [at |-> "new", server |-> 1, route |-> <<>>, caller |-> [ip |-> ""], todo |-> {},
          due |-> {}, clock |-> 0, started |-> 0, waits |-> {}, untimed |-> {},
          verdicts |-> <<>>, decisions |-> <<>>]

Init ==
    /\ site \in Deployments
    /\ now = 0
    /\ counters = <<>>
    /\ req = [r \in Request |-> Fresh]
    /\ tally = [r \in Request |-> <<>>]

\* What follows when a phase has nothing (more) to check: all its policies are
\* checked before one decision is taken, which takes in that of the phase before;
\* a rejection is a 429 with Retry-After.
Decide(q) ==
    LET d == IF q.decisions = <<>> THEN <<>> ELSE <<PickGoverning(q.decisions)>>
    IN IF d # <<>> /\ d[1].violated THEN [q EXCEPT !.at = "rejected", !.decisions = d]
       ELSE IF q.todo = {} THEN [q EXCEPT !.at = "served", !.decisions = d]
       ELSE [q EXCEPT !.at = "between", !.decisions = d]

\* The verdicts of a check are in: one decision of them, and on to the next check.
Settle(q) ==
    IF q.waits # {} \/ q.untimed # {} THEN q
    ELSE LET checked == [q EXCEPT !.due = @ \ {Min(@)}, !.verdicts = <<>>, !.clock = 0, !.started = 0,
                             !.at = "checks", !.decisions = Append(@, PickGoverning(q.verdicts))]
         IN IF checked.due = {} THEN Decide(checked) ELSE checked

Arrive(r) ==
    /\ req[r].at = "new"
    /\ \E route \in site.routes, caller \in site.callers, server \in DOMAIN site.ahead :
           req' = [req EXCEPT ![r] = Decide([Fresh EXCEPT !.server = server, !.route = route,
                       !.caller = caller, !.todo = Evaluations(route)])]
    /\ UNCHANGED <<site, now, counters, tally>>

\* evaluate() of the next interceptor that has policies.
Evaluate(r) ==
    LET q == [req[r] EXCEPT !.todo = @ \ {Min(@)}, !.due = Due(req[r], Phase(req[r]))]
    IN /\ req[r].at = "between"
       /\ req' = [req EXCEPT ![r] = IF q.due = {} THEN Decide(q) ELSE [q EXCEPT !.at = "checks"]]
       /\ UNCHANGED <<site, now, counters, tally>>

HitKey(q, i) == Key(Checked(q), Subject(Checked(q), q.caller), i, q.clock)
HitRule(q, i) == EffectiveRules(Checked(q))[i]
Counted(r, keys) ==
    tally' = [tally EXCEPT ![r] = [x \in DOMAIN @ \cup keys |->
                  (IF x \in DOMAIN @ THEN @[x] ELSE {}) \cup (IF x \in keys THEN {Count(x) + 1} ELSE {})]]

\* check() over a memory store: every rule is hit before anything else runs.
CheckInMemory(r) ==
    LET q == [req[r] EXCEPT !.clock = now]
        rules == DOMAIN EffectiveRules(Checked(q))
        keys == {HitKey(q, i) : i \in rules}
        Ttl(k) == CounterTtl(HitRule(q, k.rule))
    IN /\ ~site.redis /\ q.at = "checks"
       /\ counters' = [k \in DOMAIN counters \cup keys |->
              IF k \notin keys THEN counters[k]
              ELSE IF Count(k) = 0 THEN [count |-> 1, expires |-> now + Ttl(k)]
              ELSE [counters[k] EXCEPT !.count = @ + 1]]
       /\ Counted(r, keys)
       /\ req' = [req EXCEPT ![r] = Settle([q EXCEPT !.verdicts =
              [i \in rules |-> Verdict(HitRule(q, i), HitKey(q, i), Count(HitKey(q, i)) + 1)]])]
       /\ UNCHANGED <<site, now>>

\* check() over Redis reads its clock once and sends the hits of all rules off.
StartCheck(r) ==
    LET rules == EffectiveRules(Checked(req[r]))
    IN /\ site.redis /\ req[r].at = "checks"
       /\ req' = [req EXCEPT ![r].at = "hits", ![r].started = now,
                      ![r].clock = now + site.ahead[req[r].server], ![r].waits = DOMAIN rules,
                      ![r].verdicts = [i \in DOMAIN rules |-> [violated |-> FALSE]]]
       /\ UNCHANGED <<site, now, counters, tally>>

\* INCR; a counter it creates gets its expiry by a PEXPIRE sent afterwards.  The hits
\* of the rules are on their way together.
Incr(r, i) ==
    LET q == req[r]
        k == HitKey(q, i)
        n == Count(k) + 1
        first == n = 1
    IN /\ q.at = "hits" /\ i \in q.waits
       /\ counters' = [x \in DOMAIN counters \cup {k} |->
              IF x # k THEN counters[x]
              ELSE [count |-> n, expires |-> IF first THEN Forever ELSE counters[k].expires]]
       /\ Counted(r, {k})
       /\ req' = [req EXCEPT ![r] = Settle([q EXCEPT !.waits = @ \ {i},
              !.untimed = IF first THEN @ \cup {i} ELSE @, !.verdicts[i] = Verdict(HitRule(q, i), k, n)])]
       /\ UNCHANGED <<site, now>>

Pexpire(r, i) ==
    LET q == req[r]
        k == HitKey(q, i)
    IN /\ q.at = "hits" /\ i \in q.untimed
       /\ counters' = [counters EXCEPT ![k].expires = now + CounterTtl(HitRule(q, i))]
       /\ req' = [req EXCEPT ![r] = Settle([q EXCEPT !.untimed = @ \ {i}])]
       /\ UNCHANGED <<site, now, tally>>

\* The process dies under the request: counters it created stay without an expiry.
Die(r) ==
    /\ req[r].at = "hits"
    /\ req' = [req EXCEPT ![r].at = "dead"]
    /\ UNCHANGED <<site, now, counters, tally>>

\* Between the phases the guard may refuse a request for reasons of its own.
GuardRefuses(r) ==
    /\ req[r].at = "between" /\ Phase(req[r]) = "post"
    /\ req' = [req EXCEPT ![r].at = "refused"]
    /\ UNCHANGED <<site, now, counters, tally>>

Tick ==
    /\ now < MaxTime
    /\ \A r \in Request : req[r].at = "hits" => now < req[r].started + site.lag
    /\ now' = now + 1
    /\ UNCHANGED <<site, counters, req, tally>>

Next ==
    \/ \E r \in Request :
           \/ Arrive(r) \/ Evaluate(r) \/ CheckInMemory(r) \/ StartCheck(r)
           \/ \E i \in req[r].waits : Incr(r, i)
           \/ \E i \in req[r].untimed : Pexpire(r, i)
           \/ Die(r) \/ GuardRefuses(r)
    \/ Tick

Spec == Init /\ [][Next]_vars

PoliciesOf(s) == UNION {ToSet(route) : route \in s.routes}
LimitRule == [limit : Nat, window : Nat \ {0}]

\* A route names an id once, and one id has one list of rules.  A budget lasts as long
\* as its counter, which is kept for two windows: clocks may differ, and increments be
\* late, by no more than a window together.
SitesHold ==
    /\ MaxTime \in Nat
    /\ \A s \in Deployments :
        /\ s.redis \in BOOLEAN /\ s.attached \in Nat /\ s.lag \in Nat
        /\ \A server \in DOMAIN s.ahead : s.ahead[server] \in Nat
        /\ s.routes \subseteq Seq(PoliciesOf(s))
        /\ \A route \in s.routes : \A i, j \in DOMAIN route : route[i].id = route[j].id => i = j
        /\ \A p, other \in PoliciesOf(s) : p.id = other.id => RulesAt(s, p) = RulesAt(s, other)
        /\ \A p \in PoliciesOf(s) :
              /\ RulesAt(s, p) \in Seq(LimitRule)
              /\ s.redis => \A i \in DOMAIN RulesAt(s, p), fast, slow \in DOMAIN s.ahead :
                               s.ahead[fast] - s.ahead[slow] + s.lag <= RulesAt(s, p)[i].window

(* ------------------------------ Properties ------------------------------- *)
RuleOf(k) == EffectiveRules(CHOOSE p \in PoliciesOf(site) : p.id = k.id)[k.rule]
CountedOn(k) == {r \in Request : k \in DOMAIN tally[r]}
EveryKey == UNION {DOMAIN tally[r] : r \in Request}

\* No budget is overdrawn: of the requests counted in a window at most `limit` are
\* served, with servers that disagree about the time and increments that land late,
\* by up to a window together (SitesHold), and counters whose server died before
\* they had an expiry (rate-limiter.ts:48-55, redis/index.ts:320-328).
BudgetsHold ==
    \A k \in EveryKey :
        Cardinality({r \in CountedOn(k) : req[r].at = "served"}) <= RuleOf(k).limit

\* Nobody is rejected for requests that were not made: on every key that is over
\* its limit for a rejected request, `limit` others were counted, so none is
\* counted twice, not even where the interceptors are attached twice
\* (interceptor.ts:130-131); and the moment Retry-After names is not before the
\* end of any of those windows (rate-limiter.ts:56-61).
RejectionsAreEarned ==
    \A r \in Request : req[r].at = "rejected" =>
        LET over == {k \in DOMAIN tally[r] : \E n \in tally[r][k] : n > RuleOf(k).limit}
        IN /\ over # {}
           /\ \A k \in over :
                  /\ Cardinality(CountedOn(k) \ {r}) >= RuleOf(k).limit
                  /\ req[r].decisions[1].resetAt >= k.start + RuleOf(k).window

\* Both: the counters let through what the rules grant, neither more nor less.
CountsAreKept == BudgetsHold /\ RejectionsAreEarned
=============================================================================
