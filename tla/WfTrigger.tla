----------------------------- MODULE WfTrigger -----------------------------
(***************************************************************************)
(* The workflow trigger of auth-moost (WfTriggerProvider): a workflow run  *)
(* lives in the state its last pause persisted.  A request starts a run or *)
(* resumes a paused state and executes steps until one needs input (the    *)
(* run pauses), the schema ends, or a step throws.                         *)
(*                                                                         *)
(* The run's context `c' is opaque here but for c.flow (its schema) and    *)
(* c.strat, the strategy its next pause persists under:                    *)
(*   "encapsulated"  the token holds the sealed state: it can be resumed   *)
(*                   any number of times, by requests that overlap;        *)
(*   "magic-link"    a server-side row, deleted by its first use;          *)
(*   "store"         such a row if the application configured a durable    *)
(*                   store, a sealed token otherwise.                      *)
(***************************************************************************)
EXTENDS Naturals, Sequences, FiniteSets

CONSTANTS Requests,      \* HTTP requests the trigger serves concurrently
          MaxPaused,     \* bound: states kept at one time
          MaxRestores    \* maxRestores: times a failed resume is put back

VARIABLES paused,        \* the persisted states: [at, c, left]
          req,           \* per request: Idle or [at, c, input, phase, from, dead]
          policy,        \* the deployment; policy.durable: storeStrategy() was
                         \* overridden by a durable store
          left           \* bounds: the runs and resumes that may still begin

Idle == [at |-> 0]

\* consume: the state goes with its first use.
SingleUse(strat) == strat = "magic-link" \/ (strat = "store" /\ policy.durable)

At(q, schema, step) == req[q] # Idle /\ schema[req[q].c.flow][req[q].at].step = step

\* The step returned: the request goes on at position j, or the run is over.
Advance(q, c, j) ==
    /\ req' = [req EXCEPT ![q] = IF j = 0 THEN Idle
                                 ELSE [@ EXCEPT !.at = j, !.c = c, !.input = FALSE, !.phase = "enter"]]
    /\ UNCHANGED <<paused, policy, left>>

\* A step's work up to an await is done, the rest is not.
Await(q, c, phase) ==
    /\ req' = [req EXCEPT ![q].c = c, ![q].phase = phase]
    /\ UNCHANGED <<paused, policy, left>>

\* requireInput: the state is persisted and a form is answered, which nobody
\* submits once the bound is reached.
Persist(q, c) ==
    /\ req' = [req EXCEPT ![q] = Idle]
    /\ paused' = IF Cardinality(paused) < MaxPaused
                 THEN paused \cup {[at |-> req[q].at, c |-> c, left |-> MaxRestores]}
                 ELSE paused
    /\ UNCHANGED <<policy, left>>

\* A step threw, or the process died under it: nothing is persisted.  With
\* restoreOnError the row the request consumed is put back.
Lose(q) ==
    /\ req' = [req EXCEPT ![q] = Idle]
    /\ \/ UNCHANGED paused
       \/ \E p \in req[q].from : /\ SingleUse(p.c.strat) /\ p.left > 0
                                 /\ paused' = paused \cup {[p EXCEPT !.left = @ - 1]}
    /\ UNCHANGED <<policy, left>>

\* resume: the run goes on at position j with the submitted input.  dead is
\* what has overtaken the run while it was paused.
Reopen(q, p, c, j, dead) ==
    /\ req[q] = Idle /\ p \in paused /\ j # 0 /\ left.resumes > 0
    /\ paused' = IF SingleUse(p.c.strat) THEN paused \ {p} ELSE paused
    /\ req' = [req EXCEPT ![q] = [at |-> j, c |-> c, input |-> TRUE, phase |-> "enter",
                                  from |-> {p}, dead |-> dead]]
    /\ left' = [left EXCEPT !.resumes = @ - 1]
    /\ UNCHANGED policy

\* start: every workflow starts on the encapsulated strategy.
Begin(q, c, j) ==
    /\ req[q] = Idle /\ left.runs > 0
    /\ req' = [req EXCEPT ![q] = [at |-> j, c |-> c, input |-> FALSE, phase |-> "enter",
                                  from |-> {}, dead |-> {}]]
    /\ left' = [left EXCEPT !.runs = @ - 1]
    /\ UNCHANGED <<paused, policy>>
=============================================================================
