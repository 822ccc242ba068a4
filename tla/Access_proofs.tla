---------------------------- MODULE Access_proofs ----------------------------
(***************************************************************************)
(* The shared records of users, proved for any users, calls, roles, tables *)
(* and workloads: a request never acts on a record that was read before a  *)
(* change of roles it was bound to know.                                   *)
(***************************************************************************)
EXTENDS TableMeta, TLAPS

(* --------------------------- The inductive invariant -------------------- *)
Known == {"read", "arrived"}

FetchFrame(f) == f = [state |-> f.state, roles |-> f.roles, version |-> f.version] /\ f.version \in Nat

CallFrame(c) ==
    c = [at |-> c.at, user |-> c.user, claim |-> c.claim, request |-> c.request, fetch |-> c.fetch,
         since |-> c.since, scopes |-> c.scopes, body |-> c.body, counted |-> c.counted, read |-> c.read,
         image |-> c.image, wrote |-> c.wrote, seen |-> c.seen]

\* The part of the state that the claim is about, without the data.
Frames ==
    /\ version \in [Users -> Nat]
    /\ told \in [Users -> Nat]
    /\ cache \in [Users -> Calls \cup {None}]
    /\ fetches = [t \in Calls |-> fetches[t]]
    /\ calls = [t \in Calls |-> calls[t]]
    /\ \A t \in Calls : FetchFrame(fetches[t]) /\ CallFrame(calls[t])

\* What is told of a user's roles has happened.
ToldIsKnown == \A u \in Users : told[u] <= version[u]

\* A call that has not begun has neither a fetch of its own nor another's.
IdleCallsAreBlank ==
    \A t \in Calls : calls[t].at = "idle" => fetches[t].state = "none" /\ calls[t].fetch = None

\* A fetch reads the record of a user: of the call that began it.
FetchesHaveUsers == \A f \in Calls : fetches[f].state # "none" => calls[f].user \in Users

\* A shared fetch is of the user it is shared under, and knows all that was told.
SharedFetch(u, f) ==
    /\ fetches[f].state # "none"
    /\ calls[f].user = u
    /\ fetches[f].state \in Known => fetches[f].version >= told[u]
CacheIsCurrent == \A u \in Users : cache[u] # None => SharedFetch(u, cache[u])

\* The fetch a call waits for is of its own user, and knows all that was told
\* when the call began.
OwnFetch(t, f) ==
    /\ f \in Calls
    /\ fetches[f].state # "none"
    /\ calls[f].user = calls[t].user
    /\ calls[t].since \in Nat
    /\ calls[t].since <= told[calls[t].user]
    /\ fetches[f].state \in Known => fetches[f].version >= calls[t].since
CallsAreCurrent == \A t \in Calls : calls[t].fetch # None => OwnFetch(t, calls[t].fetch)

AccessInv == Frames /\ ToldIsKnown /\ IdleCallsAreBlank /\ FetchesHaveUsers /\ CacheIsCurrent /\ CallsAreCurrent

(* ------------------------- The steps of a request ----------------------- *)
\* What a call keeps from its first step on.
Moved(b, c) ==
    /\ CallFrame(c)
    /\ c.user = b.user /\ c.fetch = b.fetch /\ c.since = b.since
    /\ c.at # "idle"

\* Most steps move a call on and leave alone who it is.
MovesOn(t) ==
    /\ UNCHANGED identity
    /\ \E c : calls' = [calls EXCEPT ![t] = c] /\ Moved(calls[t], c)

\* A step may set any field of a call but those of who it is.
LEMMA MoveAt ==
    ASSUME NEW b, CallFrame(b), NEW x, x # "idle"
    PROVE  Moved(b, [b EXCEPT !.at = x])
BY DEF Moved, CallFrame

LEMMA MoveSeen ==
    ASSUME NEW b, NEW c, Moved(b, c), NEW y
    PROVE  Moved(b, [c EXCEPT !.seen = y])
BY DEF Moved, CallFrame

LEMMA MoveRead ==
    ASSUME NEW b, NEW c, Moved(b, c), NEW y
    PROVE  Moved(b, [c EXCEPT !.read = y])
BY DEF Moved, CallFrame

LEMMA MoveWrote ==
    ASSUME NEW b, NEW c, Moved(b, c), NEW y
    PROVE  Moved(b, [c EXCEPT !.wrote = y])
BY DEF Moved, CallFrame

LEMMA MoveImage ==
    ASSUME NEW b, NEW c, Moved(b, c), NEW y
    PROVE  Moved(b, [c EXCEPT !.image = y])
BY DEF Moved, CallFrame

LEMMA MoveCounted ==
    ASSUME NEW b, NEW c, Moved(b, c), NEW y
    PROVE  Moved(b, [c EXCEPT !.counted = y])
BY DEF Moved, CallFrame

LEMMA MoveBody ==
    ASSUME NEW b, NEW c, Moved(b, c), NEW y
    PROVE  Moved(b, [c EXCEPT !.body = y])
BY DEF Moved, CallFrame

LEMMA MoveOne ==
    ASSUME Frames, NEW t \in Calls, NEW x, x # "idle", Go(t, x), UNCHANGED identity
    PROVE  MovesOn(t)
<1>1. calls' = [calls EXCEPT ![t] = [calls[t] EXCEPT !.at = x]]  BY DEF Go
<1>2. Moved(calls[t], [calls[t] EXCEPT !.at = x])  BY MoveAt DEF Frames
<1> QED BY <1>1, <1>2 DEF MovesOn

LEMMA MoveRefused ==
    ASSUME Frames, NEW t \in Calls, Refuse(t), UNCHANGED identity
    PROVE  MovesOn(t)
BY MoveOne DEF Refuse

LEMMA MoveWithScopes ==
    ASSUME Frames, NEW t \in Calls, NEW x, x # "idle", NEW y, UNCHANGED identity,
           calls' = [calls EXCEPT ![t].scopes = y, ![t].at = x]
    PROVE  MovesOn(t)
<1>1. PICK c0 : c0 = [calls[t] EXCEPT !.scopes = y]  OBVIOUS
<1>2. /\ CallFrame(c0)
      /\ c0.user = calls[t].user /\ c0.fetch = calls[t].fetch /\ c0.since = calls[t].since
      BY <1>1 DEF Frames, CallFrame
<1>3. PICK c : c = [c0 EXCEPT !.at = x]  OBVIOUS
<1>4. Moved(calls[t], c)  BY <1>2, <1>3 DEF Moved, CallFrame
<1>5. calls' = [calls EXCEPT ![t] = c]  BY <1>1, <1>3 DEF Frames
<1> QED BY <1>4, <1>5 DEF MovesOn

LEMMA MoveWithReply ==
    ASSUME Frames, NEW t \in Calls, NEW x, x # "idle", NEW y, UNCHANGED identity,
           calls' = [calls EXCEPT ![t].at = x, ![t].seen = y]
    PROVE  MovesOn(t)
<1>1. PICK c0 : c0 = [calls[t] EXCEPT !.at = x]  OBVIOUS
<1>2. Moved(calls[t], c0)  BY <1>1, MoveAt DEF Frames
<1>3. PICK c1 : c1 = [c0 EXCEPT !.seen = y]  OBVIOUS
<1>4. Moved(calls[t], c1)  BY <1>2, <1>3, MoveSeen
<1>5. calls' = [calls EXCEPT ![t] = c1]  BY <1>1, <1>3 DEF Frames
<1> QED BY <1>4, <1>5 DEF MovesOn

LEMMA MoveWithRead ==
    ASSUME Frames, NEW t \in Calls, NEW x, x # "idle", NEW y, UNCHANGED identity,
           calls' = [calls EXCEPT ![t].at = x, ![t].read = y]
    PROVE  MovesOn(t)
<1>1. PICK c0 : c0 = [calls[t] EXCEPT !.at = x]  OBVIOUS
<1>2. Moved(calls[t], c0)  BY <1>1, MoveAt DEF Frames
<1>3. PICK c1 : c1 = [c0 EXCEPT !.read = y]  OBVIOUS
<1>4. Moved(calls[t], c1)  BY <1>2, <1>3, MoveRead
<1>5. calls' = [calls EXCEPT ![t] = c1]  BY <1>1, <1>3 DEF Frames
<1> QED BY <1>4, <1>5 DEF MovesOn

LEMMA MoveWithImage ==
    ASSUME Frames, NEW t \in Calls, NEW x, x # "idle", NEW y, UNCHANGED identity,
           calls' = [calls EXCEPT ![t].at = x, ![t].image = y]
    PROVE  MovesOn(t)
<1>1. PICK c0 : c0 = [calls[t] EXCEPT !.at = x]  OBVIOUS
<1>2. Moved(calls[t], c0)  BY <1>1, MoveAt DEF Frames
<1>3. PICK c1 : c1 = [c0 EXCEPT !.image = y]  OBVIOUS
<1>4. Moved(calls[t], c1)  BY <1>2, <1>3, MoveImage
<1>5. calls' = [calls EXCEPT ![t] = c1]  BY <1>1, <1>3 DEF Frames
<1> QED BY <1>4, <1>5 DEF MovesOn

LEMMA MoveWithWrite ==
    ASSUME Frames, NEW t \in Calls, NEW x, x # "idle", NEW y, UNCHANGED identity,
           calls' = [calls EXCEPT ![t].at = x, ![t].wrote = y]
    PROVE  MovesOn(t)
<1>1. PICK c0 : c0 = [calls[t] EXCEPT !.at = x]  OBVIOUS
<1>2. Moved(calls[t], c0)  BY <1>1, MoveAt DEF Frames
<1>3. PICK c1 : c1 = [c0 EXCEPT !.wrote = y]  OBVIOUS
<1>4. Moved(calls[t], c1)  BY <1>2, <1>3, MoveWrote
<1>5. calls' = [calls EXCEPT ![t] = c1]  BY <1>1, <1>3 DEF Frames
<1> QED BY <1>4, <1>5 DEF MovesOn

LEMMA MoveWithBody ==
    ASSUME Frames, NEW t \in Calls, NEW x, x # "idle", NEW y, NEW z, UNCHANGED identity,
           calls' = [calls EXCEPT ![t].at = x, ![t].counted = y, ![t].body = z]
    PROVE  MovesOn(t)
<1>1. PICK c0 : c0 = [calls[t] EXCEPT !.at = x]  OBVIOUS
<1>2. Moved(calls[t], c0)  BY <1>1, MoveAt DEF Frames
<1>3. PICK c1 : c1 = [c0 EXCEPT !.counted = y]  OBVIOUS
<1>4. Moved(calls[t], c1)  BY <1>2, <1>3, MoveCounted
<1>5. PICK c2 : c2 = [c1 EXCEPT !.body = z]  OBVIOUS
<1>6. Moved(calls[t], c2)  BY <1>4, <1>5, MoveBody
<1>7. calls' = [calls EXCEPT ![t] = c2]  BY <1>1, <1>3, <1>5 DEF Frames
<1> QED BY <1>6, <1>7 DEF MovesOn

LEMMA AuthorizeMoves ==
    ASSUME Frames, NEW t \in Calls, Authorize(t)
    PROVE  MovesOn(t)
<1>1. PICK scopes :
          calls' = [calls EXCEPT ![t].scopes = scopes,
                       ![t].at = CASE scopes = None -> "refused"
                                   [] scopes # None /\ calls[t].request.op = "read" -> "query"
                                   [] OTHER -> "guard"]
      BY DEF Authorize
<1>2. PICK x : x = CASE scopes = None -> "refused"
                     [] scopes # None /\ calls[t].request.op = "read" -> "query"
                     [] OTHER -> "guard"
      OBVIOUS
<1>3. x # "idle"
      BY <1>2
<1>4. calls' = [calls EXCEPT ![t].scopes = scopes, ![t].at = x]
      BY <1>1, <1>2
<1>5. UNCHANGED identity
      BY DEF Authorize
<1> QED BY <1>3, <1>4, <1>5, MoveWithScopes

LEMMA QueryMoves ==
    ASSUME Frames, NEW t \in Calls, Query(t)
    PROVE  MovesOn(t)
<1>1. UNCHANGED identity  BY DEF Query
<1>2. \/ Refuse(t)
      \/ \E seen : calls' = [calls EXCEPT ![t].at = "done", ![t].seen = seen]
      BY DEF Query
<1>3. CASE Refuse(t)  BY <1>1, <1>3, MoveRefused
<1>4. ASSUME NEW seen, calls' = [calls EXCEPT ![t].at = "done", ![t].seen = seen]
      PROVE  MovesOn(t)
      BY <1>1, <1>4, MoveWithReply
<1> QED BY <1>2, <1>3, <1>4

LEMMA ReadBackMoves ==
    ASSUME Frames, NEW t \in Calls, ReadBack(t)
    PROVE  MovesOn(t)
<1>1. UNCHANGED identity  BY DEF ReadBack
<1>2. PICK seen : calls' = [calls EXCEPT ![t].at = "done", ![t].seen = seen]
      BY DEF ReadBack
<1> QED BY <1>1, <1>2, MoveWithReply

LEMMA GuardMoves ==
    ASSUME Frames, NEW t \in Calls, Guard(t)
    PROVE  MovesOn(t)
<1> DEFINE op == calls[t].request.op
           at == IF op = "remove" THEN "write" ELSE "check"
           body == IF op = "remove" THEN None ELSE OnWrite(calls[t].request.body, calls[t].scopes, op)
           row == rows[calls[t].request.doc]
<1>1. UNCHANGED identity  BY DEF Guard
<1>2. Refuse(t) \/ calls' = [calls EXCEPT ![t].at = at, ![t].counted = row, ![t].body = body]
      BY DEF Guard
<1>3. at # "idle"  OBVIOUS
<1> HIDE DEF at, body, row
<1>4. CASE Refuse(t)  BY <1>1, <1>4, MoveRefused
<1>5. CASE calls' = [calls EXCEPT ![t].at = at, ![t].counted = row, ![t].body = body]
      <2>1. PICK x, y, z : x = at /\ y = row /\ z = body  OBVIOUS
      <2>2. calls' = [calls EXCEPT ![t].at = x, ![t].counted = y, ![t].body = z]  BY <1>5, <2>1
      <2>3. x # "idle"  BY <1>3, <2>1
      <2> QED BY <1>1, <2>2, <2>3, MoveWithBody
<1> QED BY <1>2, <1>4, <1>5

LEMMA CheckBeforeMoves ==
    ASSUME Frames, NEW t \in Calls, CheckBefore(t)
    PROVE  MovesOn(t)
<1>1. UNCHANGED identity  BY DEF CheckBefore
<1>2. \/ Refuse(t)
      \/ \E row : calls' = [calls EXCEPT ![t].at = "write", ![t].read = row]
      BY DEF CheckBefore
<1>3. CASE Refuse(t)  BY <1>1, <1>3, MoveRefused
<1>4. ASSUME NEW row, calls' = [calls EXCEPT ![t].at = "write", ![t].read = row]
      PROVE  MovesOn(t)
      BY <1>1, <1>4, MoveWithRead
<1> QED BY <1>2, <1>3, <1>4

LEMMA WriteMoves ==
    ASSUME Frames, NEW t \in Calls, Write(t)
    PROVE  MovesOn(t)
<1>1. UNCHANGED identity  BY DEF Write
<1>2. \/ Refuse(t)
      \/ \E image : calls' = [calls EXCEPT ![t].at = "commit", ![t].image = image]
      \/ \E step \in {"readback", "done"} : \E wrote :
              calls' = [calls EXCEPT ![t].at = step, ![t].wrote = wrote]
      BY DEF Write
<1>3. CASE Refuse(t)  BY <1>1, <1>3, MoveRefused
<1>4. ASSUME NEW image, calls' = [calls EXCEPT ![t].at = "commit", ![t].image = image]
      PROVE  MovesOn(t)
      BY <1>1, <1>4, MoveWithImage
<1>5. ASSUME NEW step \in {"readback", "done"}, NEW wrote,
             calls' = [calls EXCEPT ![t].at = step, ![t].wrote = wrote]
      PROVE  MovesOn(t)
      BY <1>1, <1>5, MoveWithWrite
<1> QED BY <1>2, <1>3, <1>4, <1>5

LEMMA CheckWrittenMoves ==
    ASSUME Frames, NEW t \in Calls, CheckWritten(t)
    PROVE  MovesOn(t)
<1>1. UNCHANGED identity  BY DEF CheckWritten
<1>2. \/ Refuse(t)
      \/ \E step \in {"readback", "done"} : \E wrote :
              calls' = [calls EXCEPT ![t].at = step, ![t].wrote = wrote]
      BY DEF CheckWritten
<1>3. CASE Refuse(t)  BY <1>1, <1>3, MoveRefused
<1>4. ASSUME NEW step \in {"readback", "done"}, NEW wrote,
             calls' = [calls EXCEPT ![t].at = step, ![t].wrote = wrote]
      PROVE  MovesOn(t)
      BY <1>1, <1>4, MoveWithWrite
<1> QED BY <1>2, <1>3, <1>4

\* A reply, or a refusal.
LEMMA AnswerMoves ==
    ASSUME Frames, NEW t \in Calls, NEW served, NEW reply, Answer(t, served, reply), UNCHANGED identity
    PROVE  MovesOn(t)
<1>1. CASE Refuse(t)  BY <1>1, MoveRefused
<1>2. CASE calls' = [calls EXCEPT ![t].seen = reply, ![t].at = "done"]
      <2>1. calls' = [calls EXCEPT ![t].at = "done", ![t].seen = reply]
            BY <1>2 DEF Frames
      <2> QED BY <2>1, MoveWithReply
<1> QED BY <1>1, <1>2 DEF Answer

LEMMA RowActionMoves ==
    ASSUME Frames, NEW t \in Calls,
           Form(t) \/ AvailableActions(t) \/ RunAction(t) \/ RunBatch(t) \/ Help(t)
    PROVE  MovesOn(t)
<1>1. UNCHANGED identity
      BY DEF Form, AvailableActions, RunAction, RunBatch, Help
<1>2. \E served, reply : Answer(t, served, reply)
      <2>1. CASE Form(t)  BY <2>1 DEF Form
      <2>2. CASE AvailableActions(t)  BY <2>2 DEF AvailableActions
      <2>3. CASE RunAction(t)  BY <2>3 DEF RunAction
      <2>4. CASE RunBatch(t)  BY <2>4 DEF RunBatch
      <2>5. CASE Help(t)  BY <2>5 DEF Help
      <2> QED BY <2>1, <2>2, <2>3, <2>4, <2>5
<1> QED BY <1>1, <1>2, AnswerMoves

LEMMA DescribeMoves ==
    ASSUME Frames, NEW t \in Calls, Describe(t)
    PROVE  MovesOn(t)
<1>1. UNCHANGED identity  BY DEF Describe
<1>2. \/ Refuse(t)
      \/ \E reply : Answer(t, TRUE, reply)
      BY DEF Describe
<1> QED BY <1>1, <1>2, AnswerMoves, MoveRefused

LEMMA DelegateMoves ==
    ASSUME Frames, NEW t \in Calls, Delegate(t)
    PROVE  MovesOn(t)
<1>1. UNCHANGED identity  BY DEF Delegate
<1>2. \/ Refuse(t)
      \/ \E seen : calls' = [calls EXCEPT ![t].at = "batch", ![t].seen = seen]
      BY DEF Delegate
<1>3. CASE Refuse(t)  BY <1>1, <1>3, MoveRefused
<1>4. ASSUME NEW seen, calls' = [calls EXCEPT ![t].at = "batch", ![t].seen = seen]
      PROVE  MovesOn(t)
      BY <1>1, <1>4, MoveWithReply
<1> QED BY <1>2, <1>3, <1>4

(* ----------------------- The invariant is preserved --------------------- *)
\* A call that moves on is still who it was, and so are the fetches.
LEMMA MovingOn ==
    ASSUME AccessInv, NEW t \in Calls, MovesOn(t)
    PROVE  AccessInv'
<1>1. PICK c : calls' = [calls EXCEPT ![t] = c] /\ Moved(calls[t], c)  BY DEF MovesOn
<1>2. UNCHANGED <<version, told, cache, fetches>>  BY DEF MovesOn, identity
<1>3. /\ CallFrame(calls'[t]) /\ calls'[t].at # "idle"
      /\ \A r \in Calls : r # t => calls'[r] = calls[r]
      BY <1>1 DEF AccessInv, Frames, Moved
<1>4. \A r \in Calls : /\ calls'[r].user = calls[r].user
                       /\ calls'[r].fetch = calls[r].fetch
                       /\ calls'[r].since = calls[r].since
                       /\ calls'[r].at = "idle" => calls[r].at = "idle"
      BY <1>1 DEF AccessInv, Frames, Moved
<1>5. Frames'
      <2>1. calls' = [r \in Calls |-> calls'[r]]  BY <1>1 DEF AccessInv, Frames
      <2>2. \A r \in Calls : CallFrame(calls'[r])  BY <1>3 DEF AccessInv, Frames
      <2> QED BY <1>2, <2>1, <2>2 DEF AccessInv, Frames, CallFrame, FetchFrame
<1>6. ToldIsKnown'  BY <1>2 DEF AccessInv, ToldIsKnown
<1>7. IdleCallsAreBlank'  BY <1>2, <1>4 DEF AccessInv, IdleCallsAreBlank
<1>8. FetchesHaveUsers'  BY <1>2, <1>4 DEF AccessInv, FetchesHaveUsers
<1>9. CacheIsCurrent'
      <2> SUFFICES ASSUME NEW u \in Users, cache[u] # None
                   PROVE  SharedFetch(u, cache[u])'
          BY <1>2 DEF CacheIsCurrent
      <2>1. cache[u] \in Calls /\ SharedFetch(u, cache[u])  BY DEF AccessInv, Frames, CacheIsCurrent
      <2> QED BY <1>2, <1>4, <2>1 DEF SharedFetch
<1>10. CallsAreCurrent'
      <2> SUFFICES ASSUME NEW r \in Calls, calls[r].fetch # None
                   PROVE  OwnFetch(r, calls[r].fetch)'
          BY <1>4 DEF CallsAreCurrent
      <2>1. OwnFetch(r, calls[r].fetch)  BY DEF AccessInv, CallsAreCurrent
      <2> QED BY <1>2, <1>4, <2>1 DEF OwnFetch
<1> QED BY <1>5, <1>6, <1>7, <1>8, <1>9, <1>10 DEF AccessInv

\* A call that begins: with the fetch that is shared, or with its own.
LEMMA BeginKeeps ==
    ASSUME AccessInv, AccessAssumption, NEW t \in Calls, Begin(t)
    PROVE  AccessInv'
<1>0. PICK u \in Users : \E claim, request :
          LET shared == IF policy.caching THEN cache[u] ELSE None
              fetch == IF shared = None THEN t ELSE shared
          IN /\ calls' = [calls EXCEPT ![t] = [NoCall EXCEPT !.at = "principal", !.user = u, !.claim = claim,
                                               !.request = request, !.fetch = fetch, !.since = told[u]]]
             /\ fetches' = IF shared = None THEN [fetches EXCEPT ![t].state = "asked"] ELSE fetches
             /\ cache' = [cache EXCEPT ![u] = IF policy.caching THEN fetch ELSE None]
      BY DEF Begin
<1>1. PICK claim, request :
          LET shared == IF policy.caching THEN cache[u] ELSE None
              fetch == IF shared = None THEN t ELSE shared
          IN /\ calls' = [calls EXCEPT ![t] = [NoCall EXCEPT !.at = "principal", !.user = u, !.claim = claim,
                                               !.request = request, !.fetch = fetch, !.since = told[u]]]
             /\ fetches' = IF shared = None THEN [fetches EXCEPT ![t].state = "asked"] ELSE fetches
             /\ cache' = [cache EXCEPT ![u] = IF policy.caching THEN fetch ELSE None]
      BY <1>0
<1>2. calls[t].at = "idle" /\ UNCHANGED <<version, told>>  BY DEF Begin, At
<1> DEFINE shared == IF policy.caching THEN cache[u] ELSE None
           fetch == IF shared = None THEN t ELSE shared
           entry == IF policy.caching THEN fetch ELSE None
<1>3. PICK c : c = [NoCall EXCEPT !.at = "principal", !.user = u, !.claim = claim,
                                  !.request = request, !.fetch = fetch, !.since = told[u]]
      OBVIOUS
<1>4. /\ calls' = [calls EXCEPT ![t] = c]
      /\ fetches' = IF shared = None THEN [fetches EXCEPT ![t].state = "asked"] ELSE fetches
      /\ cache' = [cache EXCEPT ![u] = entry]
      BY <1>1, <1>3
<1>5. /\ CallFrame(c) /\ c.at # "idle" /\ c.user = u /\ c.fetch = fetch /\ c.since = told[u]
      BY <1>3 DEF NoCall, CallFrame
<1>6. shared \in Calls \cup {None} /\ fetch \in Calls /\ entry \in Calls \cup {None}
      BY DEF AccessInv, Frames
<1>7. shared # None => SharedFetch(u, shared) /\ shared # t
      BY <1>2, <1>6 DEF AccessInv, CacheIsCurrent, SharedFetch, IdleCallsAreBlank
<1>8. shared = None => fetch = t
      OBVIOUS
<1>9. fetches[t].state = "none" /\ calls[t].fetch = None  BY <1>2 DEF AccessInv, IdleCallsAreBlank
<1>10. /\ calls'[t] = c
       /\ \A r \in Calls : r # t => calls'[r] = calls[r] /\ fetches'[r] = fetches[r]
       /\ cache'[u] = entry
       /\ \A v \in Users : v # u => cache'[v] = cache[v]
      BY <1>4 DEF AccessInv, Frames
<1>11. /\ shared # None => fetches' = fetches
       /\ shared = None => /\ fetches'[t].state = "asked"
                           /\ FetchFrame(fetches'[t])
      BY <1>4 DEF AccessInv, Frames, FetchFrame
<1> HIDE DEF shared, fetch, entry
<1>12. \A f \in Calls : fetches[f].state # "none" => f # t /\ fetches'[f] = fetches[f] /\ calls'[f] = calls[f]
      BY <1>9, <1>10
<1>13. fetches'[fetch].state # "none" /\ calls'[fetch].user = u
      <2>1. CASE shared = None  BY <1>5, <1>8, <1>10, <1>11, <2>1
      <2>2. CASE shared # None
            <3>1. fetch = shared /\ fetch # t /\ SharedFetch(u, fetch)  BY <1>7, <2>2 DEF fetch
            <3> QED BY <1>6, <1>10, <3>1 DEF SharedFetch
      <2> QED BY <2>1, <2>2
<1>14. fetches'[fetch].state \in Known => fetches'[fetch].version >= told[u]
      BY <1>6, <1>7, <1>8, <1>10, <1>11, <1>12 DEF SharedFetch, fetch, Known
<1>15. Frames'
      <2>1. version' \in [Users -> Nat] /\ told' \in [Users -> Nat]  BY <1>2 DEF AccessInv, Frames
      <2>2. cache' \in [Users -> Calls \cup {None}]  BY <1>4, <1>6 DEF AccessInv, Frames
      <2>3. fetches' = [r \in Calls |-> fetches'[r]]  BY <1>4 DEF AccessInv, Frames
      <2>4. calls' = [r \in Calls |-> calls'[r]]  BY <1>4 DEF AccessInv, Frames
      <2>5. \A r \in Calls : FetchFrame(fetches'[r])  BY <1>10, <1>11 DEF AccessInv, Frames
      <2>6. \A r \in Calls : CallFrame(calls'[r])  BY <1>5, <1>10 DEF AccessInv, Frames
      <2> QED BY <2>1, <2>2, <2>3, <2>4, <2>5, <2>6 DEF Frames, FetchFrame, CallFrame
<1>16. ToldIsKnown'  BY <1>2 DEF AccessInv, ToldIsKnown
<1>17. IdleCallsAreBlank'  BY <1>5, <1>10 DEF AccessInv, IdleCallsAreBlank
<1>18. FetchesHaveUsers'  BY <1>5, <1>10 DEF AccessInv, FetchesHaveUsers
<1>19. CacheIsCurrent'
      <2> SUFFICES ASSUME NEW v \in Users, cache'[v] # None
                   PROVE  SharedFetch(v, cache[v])'
          BY DEF CacheIsCurrent
      <2>1. CASE v = u
            <3>1. cache'[u] = fetch  BY <1>10, <2>1 DEF entry
            <3> QED BY <1>2, <1>13, <1>14, <2>1, <3>1 DEF SharedFetch
      <2>2. CASE v # u
            <3>1. cache'[v] = cache[v] /\ cache[v] \in Calls /\ SharedFetch(v, cache[v])
                  BY <1>10, <2>2 DEF AccessInv, CacheIsCurrent, Frames
            <3> QED BY <1>2, <1>12, <3>1 DEF SharedFetch
      <2> QED BY <2>1, <2>2
<1>20. CallsAreCurrent'
      <2> SUFFICES ASSUME NEW r \in Calls, calls'[r].fetch # None
                   PROVE  OwnFetch(r, calls[r].fetch)'
          BY DEF CallsAreCurrent
      <2>1. CASE r = t
            <3>1. told[u] \in Nat  BY DEF AccessInv, Frames
            <3> QED BY <1>2, <1>5, <1>6, <1>10, <1>13, <1>14, <2>1, <3>1 DEF OwnFetch
      <2>2. CASE r # t
            <3>1. calls'[r] = calls[r] /\ OwnFetch(r, calls[r].fetch)
                  BY <1>10, <2>2 DEF AccessInv, CallsAreCurrent
            <3> QED BY <1>2, <1>12, <3>1 DEF OwnFetch
      <2> QED BY <2>1, <2>2
<1> QED BY <1>15, <1>16, <1>17, <1>18, <1>19, <1>20 DEF AccessInv

\* Only what a fetch knows changes, and it knows what was told.
LEMMA FetchKeeps ==
    ASSUME AccessInv, NEW f \in Calls, fetches[f].state # "none",
           NEW g, fetches' = [fetches EXCEPT ![f] = g],
           FetchFrame(g), g.state # "none",
           g.state \in Known => \/ g.version = fetches[f].version /\ fetches[f].state \in Known
                                \/ g.version >= told[calls[f].user],
           UNCHANGED <<version, told, calls>>,
           cache' \in [Users -> Calls \cup {None}],
           \A u \in Users : cache'[u] # None => cache'[u] = cache[u]
    PROVE  AccessInv'
<1>1. fetches'[f] = g /\ \A r \in Calls : r # f => fetches'[r] = fetches[r]
      BY DEF AccessInv, Frames
<1>2. calls[f].user \in Users  BY DEF AccessInv, FetchesHaveUsers
<1>3. told[calls[f].user] \in Nat /\ g.version \in Nat /\ fetches[f].version \in Nat
      BY <1>2 DEF AccessInv, Frames, FetchFrame
<1>4. Frames'
      <2>1. fetches' = [r \in Calls |-> fetches'[r]]  BY DEF AccessInv, Frames
      <2>2. \A r \in Calls : FetchFrame(fetches'[r])  BY <1>1 DEF AccessInv, Frames
      <2> QED BY <2>1, <2>2 DEF AccessInv, Frames, FetchFrame, CallFrame
<1>5. ToldIsKnown'  BY DEF AccessInv, ToldIsKnown
<1>6. IdleCallsAreBlank'  BY <1>1 DEF AccessInv, IdleCallsAreBlank
<1>7. FetchesHaveUsers'  BY <1>1 DEF AccessInv, FetchesHaveUsers
<1>8. CacheIsCurrent'
      <2> SUFFICES ASSUME NEW u \in Users, cache'[u] # None
                   PROVE  SharedFetch(u, cache[u])'
          BY DEF CacheIsCurrent
      <2>1. cache'[u] = cache[u] /\ cache[u] \in Calls /\ SharedFetch(u, cache[u])
            BY DEF AccessInv, Frames, CacheIsCurrent
      <2>2. CASE cache[u] # f  BY <1>1, <2>1, <2>2 DEF SharedFetch
      <2>3. CASE cache[u] = f  BY <1>1, <1>3, <2>1, <2>3 DEF SharedFetch
      <2> QED BY <2>2, <2>3
<1>9. CallsAreCurrent'
      <2> SUFFICES ASSUME NEW r \in Calls, calls[r].fetch # None
                   PROVE  OwnFetch(r, calls[r].fetch)'
          BY DEF CallsAreCurrent
      <2>1. OwnFetch(r, calls[r].fetch)  BY DEF AccessInv, CallsAreCurrent
      <2>2. CASE calls[r].fetch # f  BY <1>1, <2>1, <2>2 DEF OwnFetch
      <2>3. CASE calls[r].fetch = f  BY <1>1, <1>3, <2>1, <2>3 DEF OwnFetch
      <2> QED BY <2>2, <2>3
<1> QED BY <1>4, <1>5, <1>6, <1>7, <1>8, <1>9 DEF AccessInv

LEMMA FetchReadsKeeps ==
    ASSUME AccessInv, NEW t \in Calls, FetchReads(t)
    PROVE  AccessInv'
<1> DEFINE u == calls[t].user
<1>1. PICK g : g = [state |-> "read", roles |-> stored[u], version |-> version[u]]  OBVIOUS
<1>2. fetches[t].state = "asked" /\ fetches' = [fetches EXCEPT ![t] = g]  BY <1>1 DEF FetchReads
<1>3. UNCHANGED <<version, told, calls, cache>>  BY DEF FetchReads
<1>4. u \in Users  BY <1>2 DEF AccessInv, FetchesHaveUsers
<1>5. version[u] \in Nat /\ told[u] \in Nat /\ told[u] <= version[u]
      BY <1>4 DEF AccessInv, Frames, ToldIsKnown
<1>6. FetchFrame(g) /\ g.state = "read" /\ g.version = version[u]  BY <1>1, <1>5 DEF FetchFrame
<1>7. cache' \in [Users -> Calls \cup {None}]  BY <1>3 DEF AccessInv, Frames
<1> QED BY <1>2, <1>3, <1>5, <1>6, <1>7, FetchKeeps

LEMMA FetchArrivesKeeps ==
    ASSUME AccessInv, NEW t \in Calls, FetchArrives(t)
    PROVE  AccessInv'
<1>1. PICK state \in {"arrived", "failed"} :
          /\ state = "arrived" => fetches[t].state = "read"
          /\ fetches' = [fetches EXCEPT ![t].state = state]
          /\ cache' = IF state = "failed" THEN [u \in Users |-> IF cache[u] = t THEN None ELSE cache[u]]
                                          ELSE cache
      BY DEF FetchArrives
<1>2. fetches[t].state # "none" /\ UNCHANGED <<version, told, calls>>  BY DEF FetchArrives
<1>3. PICK g : g = [fetches[t] EXCEPT !.state = state]  OBVIOUS
<1>4. FetchFrame(g) /\ g.state = state /\ g.version = fetches[t].version
      BY <1>3 DEF AccessInv, Frames, FetchFrame
<1>5. fetches' = [fetches EXCEPT ![t] = g]  BY <1>1, <1>3 DEF AccessInv, Frames
<1>6. g.state \in Known => fetches[t].state \in Known  BY <1>1, <1>4 DEF Known
<1>7. cache' \in [Users -> Calls \cup {None}]  BY <1>1 DEF AccessInv, Frames
<1>8. \A u \in Users : cache'[u] # None => cache'[u] = cache[u]  BY <1>1 DEF AccessInv, Frames
<1> QED BY <1>1, <1>2, <1>4, <1>5, <1>6, <1>7, <1>8, FetchKeeps

\* The entries that leave the cache, and what becomes known, ask nothing new.
LEMMA IdentityKeeps ==
    ASSUME AccessInv, NEW u \in Users, Expire(u) \/ ChangeRoles(u) \/ Invalidate(u)
    PROVE  AccessInv'
<1>1. UNCHANGED <<fetches, calls>>  BY DEF Expire, ChangeRoles, Invalidate
<1>2. /\ version' \in [Users -> Nat] /\ told' \in [Users -> Nat]
      /\ \A v \in Users : told'[v] <= version'[v] /\ told[v] <= told'[v]
      <2>1. CASE Expire(u)  BY <2>1 DEF Expire, AccessInv, Frames, ToldIsKnown
      <2>2. CASE ChangeRoles(u)
            <3>1. version' = [version EXCEPT ![u] = version[u] + 1] /\ told' = told
                  BY <2>2 DEF ChangeRoles
            <3> QED BY <3>1 DEF AccessInv, Frames, ToldIsKnown
      <2>3. CASE Invalidate(u)
            <3>1. told' = [told EXCEPT ![u] = version[u]] /\ version' = version /\ told[u] < version[u]
                  BY <2>3 DEF Invalidate
            <3> QED BY <3>1 DEF AccessInv, Frames, ToldIsKnown
      <2> QED BY <2>1, <2>2, <2>3
<1>3. /\ cache' \in [Users -> Calls \cup {None}]
      /\ \A v \in Users : cache'[v] # None => cache'[v] = cache[v] /\ told'[v] = told[v]
      <2>1. CASE Expire(u)  BY <2>1 DEF Expire, AccessInv, Frames
      <2>2. CASE ChangeRoles(u)  BY <2>2 DEF ChangeRoles, AccessInv, Frames
      <2>3. CASE Invalidate(u)  BY <2>3 DEF Invalidate, Dropped, AccessInv, Frames
      <2> QED BY <2>1, <2>2, <2>3
<1>4. Frames'  BY <1>1, <1>2, <1>3 DEF AccessInv, Frames, FetchFrame, CallFrame
<1>5. ToldIsKnown'  BY <1>2 DEF ToldIsKnown
<1>6. IdleCallsAreBlank'  BY <1>1 DEF AccessInv, IdleCallsAreBlank
<1>7. FetchesHaveUsers'  BY <1>1 DEF AccessInv, FetchesHaveUsers
<1>8. CacheIsCurrent'
      BY <1>1, <1>3 DEF AccessInv, CacheIsCurrent, SharedFetch
<1>9. CallsAreCurrent'
      <2> SUFFICES ASSUME NEW r \in Calls, calls[r].fetch # None
                   PROVE  OwnFetch(r, calls[r].fetch)'
          BY <1>1 DEF CallsAreCurrent
      <2>1. OwnFetch(r, calls[r].fetch) /\ calls[r].user \in Users
            BY DEF AccessInv, CallsAreCurrent, OwnFetch, FetchesHaveUsers
      <2>2. told[calls[r].user] \in Nat /\ told'[calls[r].user] \in Nat
            /\ told[calls[r].user] <= told'[calls[r].user]
            BY <1>2, <2>1 DEF AccessInv, Frames
      <2> QED BY <1>1, <2>1, <2>2 DEF OwnFetch
<1> QED BY <1>4, <1>5, <1>6, <1>7, <1>8, <1>9 DEF AccessInv

LEMMA InitEstablishes == MetaInit => AccessInv
<1> SUFFICES ASSUME MetaInit PROVE AccessInv  OBVIOUS
<1>1. /\ version = [u \in Users |-> 0] /\ told = [u \in Users |-> 0] /\ cache = [u \in Users |-> None]
      /\ fetches = [t \in Calls |-> NoFetch]
      BY DEF MetaInit, Init
<1>2. calls = [t \in Calls |-> IF t \in load.calls THEN NoCall ELSE [NoCall EXCEPT !.at = "done"]]
      BY DEF MetaInit, Init
<1>3. \A t \in Calls : FetchFrame(fetches[t]) /\ fetches[t].state = "none"
      BY <1>1 DEF NoFetch, FetchFrame
<1>4. \A t \in Calls : CallFrame(calls[t]) /\ calls[t].fetch = None
      BY <1>2 DEF NoCall, CallFrame
<1>5. Frames  BY <1>1, <1>2, <1>3, <1>4 DEF Frames
<1> QED BY <1>1, <1>3, <1>4, <1>5 DEF AccessInv, ToldIsKnown, IdleCallsAreBlank, FetchesHaveUsers,
                                      CacheIsCurrent, CallsAreCurrent

\* Every step of the table's controller, of its cache and of the roles.
LEMMA StepKeeps ==
    ASSUME AccessInv, AccessAssumption, [MetaNext]_vars
    PROVE  AccessInv'
<1>1. Frames  BY DEF AccessInv
<1>2. CASE UNCHANGED vars
      <2>1. UNCHANGED <<version, told, cache, fetches, calls>>  BY <1>2 DEF vars, identity
      <2>2. Frames'  BY <1>1, <2>1 DEF Frames, FetchFrame, CallFrame
      <2>3. ToldIsKnown' /\ IdleCallsAreBlank' /\ FetchesHaveUsers'
            BY <2>1 DEF AccessInv, ToldIsKnown, IdleCallsAreBlank, FetchesHaveUsers
      <2>4. CacheIsCurrent'  BY <2>1 DEF AccessInv, CacheIsCurrent, SharedFetch
      <2>5. CallsAreCurrent'  BY <2>1 DEF AccessInv, CallsAreCurrent, OwnFetch
      <2> QED BY <2>2, <2>3, <2>4, <2>5 DEF AccessInv
<1>3. ASSUME NEW t \in Calls, Begin(t) PROVE AccessInv'  BY <1>3, BeginKeeps
<1>4. ASSUME NEW t \in Calls, FetchReads(t) \/ FetchArrives(t) PROVE AccessInv'
      BY <1>4, FetchReadsKeeps, FetchArrivesKeeps
<1>5. ASSUME NEW t \in Calls,
             Authorize(t) \/ Query(t) \/ Guard(t) \/ CheckBefore(t) \/ Write(t) \/ CheckWritten(t) \/ ReadBack(t)
      PROVE  AccessInv'
      <2>1. MovesOn(t)
            BY <1>1, <1>5, AuthorizeMoves, QueryMoves, GuardMoves, CheckBeforeMoves, WriteMoves,
               CheckWrittenMoves, ReadBackMoves
      <2> QED BY <2>1, MovingOn
<1>6. ASSUME NEW t \in Calls,
             Describe(t) \/ Form(t) \/ AvailableActions(t) \/ RunAction(t) \/ Delegate(t) \/ RunBatch(t) \/ Help(t)
      PROVE  AccessInv'
      <2>1. MovesOn(t)  BY <1>1, <1>6, DescribeMoves, DelegateMoves, RowActionMoves
      <2> QED BY <2>1, MovingOn
<1>7. ASSUME NEW u \in Users, Expire(u) \/ ChangeRoles(u) \/ Invalidate(u) PROVE AccessInv'
      BY <1>7, IdentityKeeps
<1> QED BY <1>2, <1>3, <1>4, <1>5, <1>6, <1>7 DEF MetaNext, Next

(* -------------------------------- The theorems -------------------------- *)
\* The shared fetches and those of the calls are of the right user, and know
\* every change they were bound to know (ArbacUserRecordCache).
THEOREM AccessInvCorrect == MetaSpec => []AccessInv
<1>1. MetaInit => AccessInv  BY InitEstablishes
<1>2. AccessInv /\ [MetaNext]_vars => AccessInv'  BY AccessAssumption, StepKeeps
<1> QED BY <1>1, <1>2, PTL DEF MetaSpec

\* A request that began after a change of roles was made known to the cache
\* never acts on a record read before it (ArbacUserRecordCache.invalidate).
THEOREM ChangesOfRolesAreSeen == MetaSpec => []RevokedRolesAreGone
<1>1. AccessInv => RevokedRolesAreGone
      BY DEF AccessInv, CallsAreCurrent, OwnFetch, RevokedRolesAreGone, Known
<1> QED BY <1>1, AccessInvCorrect, PTL
=============================================================================
