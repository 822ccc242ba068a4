----------------------------- MODULE RedisSessions -----------------------------
(***************************************************************************)
(* AuthCredential over CredentialStoreRedis, one Redis command per step.    *)
(* A credential is two things there, a key with a time to live and a member *)
(* of the user's index set, written and removed by separate commands; a     *)
(* listing is SMEMBERS and then a GET per member; a rewrite is conditional  *)
(* on the key (XX).  Module AuthCredential has the protocol over a store    *)
(* whose operations are atomic; this one asks whether it survives the       *)
(* store being made of commands, on one user's refresh rows (the access row *)
(* of a pair is written the same way just before it).                       *)
(***************************************************************************)
EXTENDS Integers, Sequences, FiniteSets

CONSTANTS Call,        \* slots for calls in flight, on any server
          MaxRows,     \* bound: rows ever written
          MaxLogins,   \* bound: sessions
          MaxPasses,   \* MAX_REVOKE_PASSES (8 in the code)
          MaxRevokers, \* bound: revocations
          MaxFaults    \* bound: expiries and calls that die

VARIABLES row,         \* the session of each row ever written
          keys,        \* rows whose key exists
          index,       \* members of the user's set
          held,        \* rows whose token a client was answered with
          logins,      \* sessions so far
          call,        \* calls in flight
          revokers, faults,
          closed       \* ghost: sessions a revocation has returned for

vars == <<row, keys, index, held, logins, call, revokers, faults, closed>>

Rows == DOMAIN row
Idle == [at |-> "idle", old |-> 0, new |-> 0, session |-> 0, work |-> {}, found |-> {}, dead |-> {},
         closes |-> {}, pass |-> 0, calm |-> TRUE]
All == 0                       \* revokeAllForUser; a session is 1, 2, ...
Revoking == {"purge", "purgeDel", "purgeSrem", "list", "get", "prune", "del", "srem", "logout"}

At(c, label) == call[c].at = label
Becomes(c, next) == call' = [call EXCEPT ![c] = next]
Move(c, label) == Becomes(c, [call[c] EXCEPT !.at = label])
End(c) == Becomes(c, Idle)

Exists(t) == t \in keys

(* ----------------------- persistAs: SET, then SADD ----------------------- *)
StartLogin(c) ==
    /\ At(c, "idle") /\ logins < MaxLogins
    /\ logins' = logins + 1
    /\ Becomes(c, [Idle EXCEPT !.at = "persist", !.session = logins + 1])
    /\ UNCHANGED <<row, keys, index, held, revokers, faults, closed>>

\* refresh(): find() reads the row.
StartRefresh(c, t) ==
    /\ At(c, "idle") /\ t \in held /\ Exists(t)
    /\ Becomes(c, [Idle EXCEPT !.at = "persist", !.old = t, !.session = row[t]])
    /\ UNCHANGED <<row, keys, index, held, logins, revokers, faults, closed>>

Persist(c) ==
    /\ At(c, "persist") /\ Len(row) < MaxRows
    /\ row' = Append(row, call[c].session)
    /\ keys' = keys \cup {Len(row) + 1}
    /\ Becomes(c, [call[c] EXCEPT !.at = "index", !.new = Len(row) + 1])
    /\ UNCHANGED <<index, held, logins, revokers, faults, closed>>

Index(c) ==
    /\ At(c, "index")
    /\ index' = index \cup {call[c].new}
    /\ IF call[c].old = 0 THEN held' = held \cup {call[c].new} /\ End(c)
       ELSE Move(c, "stamp") /\ UNCHANGED held
    /\ UNCHANGED <<row, keys, logins, revokers, faults, closed>>

(* ------------- update: GET, then SET XX; then the final look ------------- *)
Stamp(c) ==
    /\ At(c, "stamp")
    /\ Move(c, IF Exists(call[c].old) THEN "write" ELSE "recheck")
    /\ UNCHANGED <<row, keys, index, held, logins, revokers, faults, closed>>

\* Mutant: a plain SET.
WriteAlways(c) ==
    /\ At(c, "write")
    /\ keys' = keys \cup {call[c].old}
    /\ Move(c, "recheck")
    /\ UNCHANGED <<row, index, held, logins, revokers, faults, closed>>

\* With XX the write creates no key.
Write(c) ==
    /\ At(c, "write") /\ Move(c, "recheck")
    /\ UNCHANGED <<row, keys, index, held, logins, revokers, faults, closed>>

\* touch writes the state validate() read, under the same condition.
StartTouch(c, t) ==
    /\ At(c, "idle") /\ t \in held /\ Exists(t)
    /\ Becomes(c, [Idle EXCEPT !.at = "touch", !.old = t])
    /\ UNCHANGED <<row, keys, index, held, logins, revokers, faults, closed>>
Touch(c) ==
    /\ At(c, "touch") /\ End(c)
    /\ UNCHANGED <<row, keys, index, held, logins, revokers, faults, closed>>

Recheck(c) ==
    /\ At(c, "recheck")
    /\ IF Exists(call[c].old) THEN held' = held \cup {call[c].new} /\ End(c)
       ELSE Move(c, "undo") /\ UNCHANGED held
    /\ UNCHANGED <<row, keys, index, logins, revokers, faults, closed>>

\* revoke(token): GET tells the user and, when there is no key, that there is
\* nothing to do; then DEL and SREM.
Undo(c) ==
    /\ At(c, "undo")
    /\ IF Exists(call[c].new) THEN Move(c, "unindex") ELSE End(c)
    /\ keys' = keys \ {call[c].new}
    /\ UNCHANGED <<row, index, held, logins, revokers, faults, closed>>
Unindex(c) ==
    /\ At(c, "unindex")
    /\ index' = index \ {call[c].new} /\ End(c)
    /\ UNCHANGED <<row, keys, held, logins, revokers, faults, closed>>

(* ------------------------------ Revocations ------------------------------ *)
\* A revocation is calm while no other one overlaps it and nothing expires.
Revokers == {c \in Call : call[c].at \in Revoking}
Disturbed == [c \in Call |-> [call[c] EXCEPT !.calm = @ /\ c \notin Revokers]]
Begins(c, next) ==
    /\ At(c, "idle") /\ revokers < MaxRevokers
    /\ revokers' = revokers + 1
    /\ call' = [Disturbed EXCEPT ![c] = [next EXCEPT !.calm = Revokers = {}]]

InScope(c) == {t \in Rows : call[c].session \in {All, row[t]}}
Revoke(c, target) ==
    /\ Begins(c, [Idle EXCEPT !.at = IF target = All THEN "purge" ELSE "list", !.session = target,
                              !.closes = {row[t] : t \in {h \in held : target \in {All, row[h]}}}])
    /\ UNCHANGED <<row, keys, index, held, logins, faults, closed>>

Logout(c, t) ==
    /\ t \in held /\ Begins(c, [Idle EXCEPT !.at = "logout", !.work = {t}])
    /\ UNCHANGED <<row, keys, index, held, logins, faults, closed>>

\* After a pass the next listing or, past MAX_REVOKE_PASSES, an error: a session is
\* swept once more than a purge is repeated.
Passed(c) ==
    Becomes(c, IF call[c].pass >= MaxPasses + (IF call[c].session = All THEN 0 ELSE 1) THEN Idle
               ELSE [call[c] EXCEPT !.at = "list", !.work = {}])

\* CredentialStoreRedis.revokeAllForUser: SMEMBERS, one DEL, one SREM of the
\* members that were read.
Purge(c) ==
    /\ At(c, "purge")
    /\ IF index = {} THEN Passed(c)
       ELSE Becomes(c, [call[c] EXCEPT !.at = "purgeDel", !.work = index])
    /\ UNCHANGED <<row, keys, index, held, logins, revokers, faults, closed>>
PurgeDel(c) ==
    /\ At(c, "purgeDel")
    /\ keys' = keys \ call[c].work /\ Move(c, "purgeSrem")
    /\ UNCHANGED <<row, index, held, logins, revokers, faults, closed>>
PurgeSrem(c) ==
    /\ At(c, "purgeSrem")
    /\ index' = index \ call[c].work /\ Passed(c)
    /\ UNCHANGED <<row, keys, held, logins, revokers, faults, closed>>

\* listForUser: SMEMBERS, a GET per member, then the members without a key go.
List(c) ==
    /\ At(c, "list")
    /\ Becomes(c, [call[c] EXCEPT !.at = "get", !.work = index, !.found = {}, !.dead = {}])
    /\ UNCHANGED <<row, keys, index, held, logins, revokers, faults, closed>>
Get(c) ==
    /\ At(c, "get")
    /\ \E t \in call[c].work :
          Becomes(c, [call[c] EXCEPT !.work = @ \ {t},
                                     !.found = IF Exists(t) THEN @ \cup ({t} \cap InScope(c)) ELSE @,
                                     !.dead = IF Exists(t) THEN @ ELSE @ \cup {t}])
    /\ UNCHANGED <<row, keys, index, held, logins, revokers, faults, closed>>

\* Nothing found: the revocation returns.  Else another pass.
Prune(c) ==
    /\ At(c, "get") /\ call[c].work = {}
    /\ index' = index \ call[c].dead
    /\ LET d == [call[c] EXCEPT !.pass = @ + 1, !.work = call[c].found,
                                !.found = {}, !.dead = {}]
       IN IF call[c].found = {}
          THEN End(c) /\ closed' = IF call[c].calm THEN closed \cup call[c].closes ELSE closed
          ELSE Becomes(c, [d EXCEPT !.at = IF d.session = All THEN "purge" ELSE "del"]) /\ UNCHANGED closed
    /\ UNCHANGED <<row, keys, held, logins, revokers, faults>>

\* The revokes of a sweep run in parallel: a row without a key is done.
Del(c) ==
    /\ call[c].at \in {"del", "logout"}
    /\ \E t \in call[c].work :
          /\ keys' = keys \ {t}
          /\ Becomes(c, [call[c] EXCEPT !.work = @ \ {t},
                                        !.found = IF Exists(t) THEN @ \cup {t} ELSE @])
    /\ UNCHANGED <<row, index, held, logins, revokers, faults, closed>>
Srem(c) ==
    /\ call[c].at \in {"del", "logout"}
    /\ \E t \in call[c].found :
          index' = index \ {t} /\ Becomes(c, [call[c] EXCEPT !.found = @ \ {t}])
    /\ UNCHANGED <<row, keys, held, logins, revokers, faults, closed>>
Swept(c) ==
    /\ call[c].at \in {"del", "logout"} /\ call[c].work = {} /\ call[c].found = {}
    /\ IF At(c, "logout") THEN End(c) ELSE Passed(c)
    /\ UNCHANGED <<row, keys, index, held, logins, revokers, faults, closed>>

(* --------------------------------- Faults -------------------------------- *)
Expire(t) ==
    /\ Exists(t) /\ faults < MaxFaults
    /\ faults' = faults + 1
    /\ keys' = keys \ {t} /\ call' = Disturbed
    /\ UNCHANGED <<row, index, held, logins, revokers, closed>>

Die(c) ==
    /\ ~At(c, "idle") /\ faults < MaxFaults
    /\ faults' = faults + 1 /\ End(c)
    /\ UNCHANGED <<row, keys, index, held, logins, revokers, closed>>

Init == /\ row = <<>> /\ keys = {} /\ index = {} /\ held = {} /\ closed = {}
        /\ logins = 0 /\ revokers = 0 /\ faults = 0
        /\ call = [c \in Call |-> Idle]

Next ==
    \/ \E c \in Call :
          \/ StartLogin(c) \/ Persist(c) \/ Index(c) \/ Stamp(c) \/ Write(c) \/ Touch(c)
          \/ Recheck(c) \/ Undo(c) \/ Unindex(c) \/ Purge(c) \/ PurgeDel(c) \/ PurgeSrem(c)
          \/ List(c) \/ Get(c) \/ Prune(c) \/ Del(c) \/ Srem(c) \/ Swept(c) \/ Die(c)
          \/ \E t \in Rows : StartRefresh(c, t) \/ StartTouch(c, t) \/ Logout(c, t)
          \/ \E target \in 0 .. logins : Revoke(c, target)
    \/ \E t \in Rows : Expire(t)

Spec == Init /\ [][Next]_vars

(* ------------------------------- Properties ------------------------------ *)
\* When a revocation returns, no token of the sessions it closed works or will
\* work again: rows written between its SMEMBERS and its GETs are either found
\* by the next pass or taken back by the refresh that wrote them; and the key of
\* every token somebody holds is in the index, whatever was purged, pruned or cut
\* short meanwhile, so that the next revocation finds it.  Asked of revocations
\* that none overlapped while nothing expired: a row that another revocation
\* deletes between the two commands hides its successor.
RevokedRowsAreGone ==
    /\ \A t \in held : row[t] \in closed => ~Exists(t)
    /\ held \cap keys \subseteq index
=============================================================================
