---------------------------- MODULE AccessControl ----------------------------
(***************************************************************************)
(* A table controller under access control: who the caller is (the shared  *)
(* record cache included), what the roles and the credential's claims      *)
(* grant, the read path and the write path, with calls interleaving at     *)
(* every await.  The database is external: a read or a write of a row is   *)
(* one step, a transaction keeps the row it wrote locked until it ends.    *)
(* A row is a value for each leaf; "o" is a block of two leaves, "ref" a   *)
(* reference (0 for none) to a row of the target table, followed by "rel". *)
(* Left out: several rows per request, the version column, aggregation,    *)
(* and what TableMeta adds.                                                *)
(***************************************************************************)
EXTENDS ScopePolicy

CONSTANTS Calls, Users, Docs,
          Attr,         \* the attribute of each user
          Rules,        \* the rules of each role: [effect, resources, actions, scope]
          Deployments,  \* what is configured, by name ...
          Workloads     \* ... the users, rows and requests of each

ASSUME AccessAssumption == None \notin Calls

VARIABLES deployment,   \* the name of the deployment
          memo,         \* what TableMeta remembers: no request of this module changes it
          rows,         \* the table
          lock,         \* per row: the transaction that wrote it
          stored,       \* the roles in the user's record ...
          version,      \* ... how often they changed ...
          told,         \* ghost: ... and how often when invalidate() was last called
          cache,        \* ArbacUserRecordCache: the fetch whose record is shared
          fetches,      \* per call that started one: the fetch of the user's record
          calls         \* per call: its next step and what it has read

vars == <<deployment, memo, rows, lock, stored, version, told, cache, fetches, calls>>
standing == <<deployment, memo>>
identity == <<stored, version, told, cache, fetches>>

policy == Deployments[deployment]
load == Workloads[deployment]

T == <<"t">>
OX == <<"o", "x">>
OY == <<"o", "y">>
Ref == <<"ref">>
Block == <<"o">>
Rel == <<"rel">>
Leaves == {T, OX, OY, Ref}
Tree == Leaves \cup {Block}
Targets == {1, 2}
TargetLeaves == {<<"n">>, <<"s">>}
Blank == [leaf \in Leaves |-> 0]

NoCall == [at |-> "idle", user |-> None, claim |-> None, request |-> None, fetch |-> None,
           since |-> 0, scopes |-> None, body |-> None, counted |-> None, read |-> None,
           image |-> None, wrote |-> None, seen |-> None]
NoFetch == [state |-> "none", roles |-> <<>>, version |-> 0]

At(t, step) == calls[t].at = step
Go(t, step) == calls' = [calls EXCEPT ![t].at = step]
Refuse(t) == Go(t, "refused")
TableOps == {"read", "insert", "update", "replace", "remove"}
HasPreImage(op) == op \in {"update", "replace", "remove"}
IsPatch(op) == op = "update"

(* ---------------------------- Who the caller is ------------------------- *)
\* fetchRecord: the shared record, or a fetch that is shared from its start.
Begin(t) ==
    /\ At(t, "idle")
    /\ \E u \in Users, claim \in load.claims, request \in load.requests :
          LET shared == IF policy.caching THEN cache[u] ELSE None
              fetch == IF shared = None THEN t ELSE shared
          IN /\ calls' = [calls EXCEPT ![t] = [NoCall EXCEPT !.at = "principal", !.user = u, !.claim = claim,
                                               !.request = request, !.fetch = fetch, !.since = told[u]]]
             /\ fetches' = IF shared = None THEN [fetches EXCEPT ![t].state = "asked"] ELSE fetches
             /\ cache' = [cache EXCEPT ![u] = IF policy.caching THEN fetch ELSE None]
    /\ UNCHANGED <<standing, rows, lock, stored, version, told>>

FetchReads(t) ==
    /\ fetches[t].state = "asked"
    /\ LET u == calls[t].user IN
       fetches' = [fetches EXCEPT ![t] = [state |-> "read", roles |-> stored[u], version |-> version[u]]]
    /\ UNCHANGED <<standing, rows, lock, stored, version, told, cache, calls>>

\* A fetch that fails takes its own entry with it.
FetchArrives(t) ==
    /\ fetches[t].state \in {"asked", "read"}
    /\ \E state \in {"arrived", "failed"} :
          /\ state = "arrived" => fetches[t].state = "read"
          /\ fetches' = [fetches EXCEPT ![t].state = state]
          /\ cache' = IF state = "failed" THEN [u \in Users |-> IF cache[u] = t THEN None ELSE cache[u]]
                                          ELSE cache
    /\ UNCHANGED <<standing, rows, lock, stored, version, told, calls>>

\* The entry's time to live is over.
Expire(u) ==
    /\ cache[u] # None
    /\ cache' = [cache EXCEPT ![u] = None]
    /\ UNCHANGED <<standing, rows, lock, stored, version, told, fetches, calls>>

\* The application changes a user's roles, and calls invalidate() when it has.
ChangeRoles(u) ==
    /\ version[u] < load.changes
    /\ \E others \in load.roles : others[u] # stored[u] /\ stored' = [stored EXCEPT ![u] = others[u]]
    /\ version' = [version EXCEPT ![u] = @ + 1]
    /\ UNCHANGED <<standing, rows, lock, told, cache, fetches, calls>>

\* Mutant: the entry of a fetch in flight is kept.
DroppedIfArrived(u) ==
    [cache EXCEPT ![u] = IF @ # None /\ fetches[@].state # "arrived" THEN @ ELSE None]

Dropped(u) == [cache EXCEPT ![u] = None]

Invalidate(u) ==
    /\ told[u] < version[u]
    /\ told' = [told EXCEPT ![u] = version[u]]
    /\ cache' = Dropped(u)
    /\ UNCHANGED <<standing, rows, lock, stored, version, fetches, calls>>

(* ----------------------------- What is granted -------------------------- *)
Matching(roles, effect, resource, action) ==
    FlattenSeq([i \in DOMAIN roles |->
        SelectSeq(Rules[roles[i]], LAMBDA rule : /\ rule.effect = effect
                                                 /\ resource \in rule.resources
                                                 /\ action \in rule.actions)])

\* A denying rule of any role wins; a scope function may give no scope.
EvaluateForRoles(roles, attr, resource, action) ==
    LET allow == Matching(roles, "allow", resource, action)
        scopes == SelectSeq([i \in DOMAIN allow |-> allow[i].scope[attr]], LAMBDA s : s # None)
    IN IF Matching(roles, "deny", resource, action) # <<>> \/ scopes = <<>> THEN None ELSE scopes

\* The roles and the attribute of the credential: its claims, over the user's.
CredRoles(held, claim) ==
    CASE claim.roles = None -> held
      [] claim.roles # None /\ claim.unheld -> SelectSeq(claim.roles, LAMBDA r : r \in DOMAIN Rules)
      [] OTHER -> SelectSeq(held, LAMBDA r : r \in ToSet(claim.roles))
CredAttr(attr, claim) == IF claim.attr = None THEN attr ELSE claim.attr

\* Both sides must be allowed; no value: denied.
Combine(user, cred, claim, tree) ==
    CASE user = None \/ cred = None -> None
      [] user # None /\ cred # None /\ claim = None -> EffectiveScope(user)
      [] OTHER -> EffectiveScope(<<Conjunction(EffectiveScope(user), EffectiveScope(cred), tree)>>)

Evaluate(p, resource, action, tree) ==
    CHOOSE scope \in
        {Combine(user, cred, p.claim, tree) :
            user \in {EvaluateForRoles(p.roles, p.attr, resource, action)},
            cred \in {IF p.claim = None THEN <<>>
                      ELSE EvaluateForRoles(CredRoles(p.roles, p.claim), CredAttr(p.attr, p.claim),
                                            resource, action)}} : TRUE

Principal(t) == [roles |-> fetches[calls[t].fetch].roles, attr |-> Attr[calls[t].user],
                 claim |-> calls[t].claim]

Authorize(t) ==
    /\ At(t, "principal") /\ calls[t].request.op \in TableOps
    /\ fetches[calls[t].fetch].state \in {"arrived", "failed"}
    /\ \E scopes \in {IF fetches[calls[t].fetch].state = "failed" THEN None
                       ELSE Evaluate(Principal(t), "doc", calls[t].request.op, Tree)} :
          calls' = [calls EXCEPT ![t].scopes = scopes,
                       ![t].at = CASE scopes = None -> "refused"
                                   [] scopes # None /\ calls[t].request.op = "read" -> "query"
                                   [] OTHER -> "guard"]
    /\ UNCHANGED <<standing, rows, lock, identity>>

(* ---------------------------------- Reading ----------------------------- *)
TargetRead(p) == Evaluate(p, "target", "read", TargetLeaves)

\* Mutant: a side that was silent about the relation counts as having declared it.
DeclaredLevel(declared, read) ==
    IF declared.with = <<>> THEN read ELSE EffectiveScope(declared.with)

\* resolveRelationTree: declared sub-scopes, or the target's own read policy;
\* both when the conjunction found one side silent.  No value: not readable.
RelationLevel(declared, read) ==
    CASE declared.with # <<>> /\ ~EffectiveScope(declared.with).inherited -> EffectiveScope(declared.with)
      [] declared.with = <<>> -> read
      [] OTHER -> IF read = None THEN None
                  ELSE EffectiveScope(<<Conjunction(EffectiveScope(declared.with), read, TargetLeaves)>>)

\* Only a sub-scope of the parent's own authority shows the relation by itself.
RelationVisible(scopes, level) ==
    \/ scopes.with # <<>> /\ \A s \in ToSet(scopes.with) : ~s.inherited
    \/ IsFieldAllowed(Rel, scopes.projection) /\ level # None

QueryAccepted(scopes, level, query) ==
    /\ query.with => "rel" \in scopes.controls["with"] /\ RelationVisible(scopes, level)
    /\ query.search => "on" \in scopes.controls["search"]
    /\ query.where # None => IsFieldAllowed(query.where, scopes.projection)

\* The database returns the leaves a select names.
Selected(leaves, select, access, tree) ==
    {leaf \in leaves :
        IsFieldAllowed(leaf, IF access = Everything THEN select
                             ELSE ExpandExcludeToLeaves(RestrictProjection(select, access, tree), tree))}

Found(ids, filter, where) ==
    {rows[d] : d \in {d \in ids : /\ rows[d] # None /\ Passes(rows[d], filter)
                                  /\ where # None => rows[d][where] = 1}}

Joined(found, filter) == {r \in {row[Ref] : row \in found} \cap Targets : Passes(r, filter)}

Query(t) ==
    /\ At(t, "query")
    /\ LET scopes == calls[t].scopes
           query == calls[t].request.query
       IN \E level \in {IF query.with THEN RelationLevel(scopes, TargetRead(Principal(t))) ELSE None},
             found \in {Found(Docs, scopes.filter, query.where)} :
             IF QueryAccepted(scopes, level, query)
             THEN calls' = [calls EXCEPT ![t].at = "done",
                       ![t].seen = [own |-> found \X Selected(Leaves, query.select, scopes.projection, Tree),
                                    target |-> IF ~query.with THEN {}
                                               ELSE Joined(found, level.filter)
                                                    \X Selected(TargetLeaves, Everything, level.projection,
                                                                TargetLeaves)]]
             ELSE Refuse(t)
    /\ UNCHANGED <<standing, rows, lock, identity>>

\* The written row is read back under the read grant of the same caller.
ReadBack(t) ==
    /\ At(t, "readback")
    /\ \E scopes \in {Evaluate(Principal(t), "doc", "read", Tree)} :
          calls' = [calls EXCEPT ![t].at = "done",
              ![t].seen = IF scopes = None THEN None
                          ELSE [own |-> Found({calls[t].request.doc}, scopes.filter, None)
                                        \X Selected(Leaves, Everything, scopes.projection, Tree),
                                target |-> {}]]
    /\ UNCHANGED <<standing, rows, lock, identity>>

(* ---------------------------------- Writing ----------------------------- *)
\* A body gives leaves by name (a dotted key included), the block as a nested
\* object (`none' when absent), and rows of the relation or not.
Object(body) == body.block # NoSet

\* Mutant: a patch that replaces the block still gives a part of it.
PruneInside(body, allowed, patch) ==
    [leaves |-> [leaf \in {l \in DOMAIN body.leaves : Covers(allowed, l)} |-> body.leaves[leaf]],
     nested |-> body.nested /\ Covers(allowed, Rel),
     block |-> [leaf \in {l \in DOMAIN body.block : Covers(allowed, l)} |-> body.block[leaf]]]

\* pruneByTree: a nested object whose block is replaced as a whole is kept
\* whole or not at all by a patch.
Prune(body, allowed, patch) ==
    LET kept == [leaf \in {l \in DOMAIN body.leaves : Covers(allowed, l)} |-> body.leaves[leaf]]
        inside == [leaf \in {l \in DOMAIN body.block : Covers(allowed, l)} |-> body.block[leaf]]
        whole == patch /\ ~policy.merge
    IN [leaves |-> kept, nested |-> body.nested /\ Covers(allowed, Rel),
        block |-> IF whole /\ ~Covers(allowed, Block) THEN NoSet ELSE inside]

\* setPath: a forced leaf of the block goes into the nested object, and is
\* skipped when it would replace the block of a patch that does not give it.
SetForced(body, set, patch) ==
    LET top == [leaf \in {l \in DOMAIN set : Len(l) = 1} |-> set[leaf]]
        sub == [leaf \in {l \in DOMAIN set : Len(l) = 2} |-> set[leaf]]
        kept == [leaf \in DOMAIN body.leaves \ DOMAIN sub |-> body.leaves[leaf]]
        replaces == patch /\ ~policy.merge /\ ~Object(body)
    IN [body EXCEPT !.leaves = top @@ kept, !.block = IF replaces THEN NoSet ELSE sub @@ @]

OnWrite(body, scopes, op) ==
    SetForced(IF scopes.allowed = None THEN body ELSE Prune(body, scopes.allowed, IsPatch(op)),
          scopes.forced, IsPatch(op))

\* The database: a patch keeps what it does not name, save the rest of a block
\* it replaces; an insert or a replace starts from the defaults.
Image(current, body, op) ==
    LET base == CASE ~IsPatch(op) -> Blank
                  [] IsPatch(op) /\ Object(body) /\ ~policy.merge ->
                         [current EXCEPT ![OX] = 0, ![OY] = 0]
                  [] OTHER -> current
    IN body.leaves @@ body.block @@ base

Given(body) == body.leaves @@ body.block

\* onWrite, then the rows addressed are counted within the filter.
Guard(t) ==
    /\ At(t, "guard")
    /\ LET c == calls[t]
           op == c.request.op
           row == rows[c.request.doc]
           filter == calls[t].scopes.filter
           inScope == HasPreImage(op) /\ filter # None => row # None /\ Passes(row, filter)
           nested == op # "remove" /\ c.request.body.nested => "rel" \in c.scopes.nested
       IN IF inScope /\ nested
          THEN calls' = [calls EXCEPT ![t].at = IF op = "remove" THEN "write" ELSE "check",
                             ![t].counted = row,
                             ![t].body = IF op = "remove" THEN None
                                         ELSE OnWrite(c.request.body, c.scopes, op)]
          ELSE Refuse(t)
    /\ UNCHANGED <<standing, rows, lock, identity>>

\* assertRefsInScope: a reference given must be readable by the caller.
RefsInScope(t) ==
    LET c == calls[t]
        reference == IF Ref \in DOMAIN Given(c.body) THEN Given(c.body)[Ref] ELSE 0
        read == TargetRead(Principal(t))
    IN "ref" \in c.scopes.refs /\ reference # 0
       => read # None /\ reference \in Targets /\ Passes(reference, read.filter)

\* The check in memory: a leaf the image lacks is missing, which is no value, so it
\* passes $ne, $nin, $not and a test for null.
Missing == [leaf \in Leaves |-> None]
Satisfies(image, filter) == Passes(image @@ Missing, filter)

\* patchPostImage: not known when the patch writes above or below a field of it.
CheckedBeforeWrite(body, op, current, check) ==
    /\ check.compiled
    /\ IF ~IsPatch(op) THEN Satisfies(Given(body), check)
       ELSE /\ current # None
            /\ Object(body) => ~\E leaf \in check.fields : IsStrictPrefix(Block, leaf)
            /\ Satisfies(body.leaves @@ current, check)

\* insertRowsVerdict: in a transaction, refused early when certain.
RefutedInsert(body, op, check) ==
    /\ ~HasPreImage(op) /\ check.compiled /\ check.fields \subseteq DOMAIN Given(body)
    /\ ~Satisfies(Given(body), check)

CheckBefore(t) ==
    /\ At(t, "check")
    /\ LET c == calls[t]
           op == c.request.op
           row == rows[c.request.doc]
           check == c.scopes.check
           passes == \/ check = None
                     \/ /\ ~policy.transactional
                        /\ CheckedBeforeWrite(c.body, op, row, check)
                     \/ policy.transactional /\ ~RefutedInsert(c.body, op, check)
       IN IF RefsInScope(t) /\ passes
          THEN calls' = [calls EXCEPT ![t].at = "write", ![t].read = row]
          ELSE Refuse(t)
    /\ UNCHANGED <<standing, rows, lock, identity>>

Written(t, before, after) == [before |-> before, after |-> after]

\* Without a transaction the write stands; with one it can still be undone.
Write(t) ==
    /\ At(t, "write")
    /\ lock[calls[t].request.doc] = None
    /\ LET c == calls[t]
           op == c.request.op
           d == c.request.doc
           row == rows[d]
           found == (row # None) = HasPreImage(op)
           after == IF op = "remove" THEN None ELSE Image(row, c.body, op)
       IN CASE ~found -> Refuse(t) /\ UNCHANGED <<rows, lock>>
            [] found /\ policy.transactional ->
                 /\ lock' = [lock EXCEPT ![d] = t]
                 /\ calls' = [calls EXCEPT ![t].at = "commit", ![t].image = after]
                 /\ UNCHANGED rows
            [] found /\ ~policy.transactional ->
                 /\ rows' = [rows EXCEPT ![d] = after]
                 /\ \E step \in {"readback", "done"} :
                       calls' = [calls EXCEPT ![t].at = step, ![t].wrote = Written(t, row, after)]
                 /\ UNCHANGED lock
    /\ UNCHANGED <<standing, identity>>

\* checkArbacWrite: the written row is counted within the check, in the transaction.
CheckWritten(t) ==
    /\ At(t, "commit")
    /\ LET c == calls[t]
           d == c.request.doc
       IN /\ lock' = [lock EXCEPT ![d] = None]
          /\ IF c.image = None \/ Passes(c.image, c.scopes.check)
             THEN /\ rows' = [rows EXCEPT ![d] = c.image]
                  /\ \E step \in {"readback", "done"} :
                        calls' = [calls EXCEPT ![t].at = step, ![t].wrote = Written(t, rows[d], c.image)]
             ELSE Refuse(t) /\ UNCHANGED rows
    /\ UNCHANGED <<standing, identity>>

(* --------------------------------- The system --------------------------- *)
Init ==
    /\ deployment \in DOMAIN Deployments
    /\ rows \in load.rows
    /\ stored \in load.roles
    /\ lock = [d \in Docs |-> None]
    /\ version = [u \in Users |-> 0]
    /\ told = [u \in Users |-> 0]
    /\ cache = [u \in Users |-> None]
    /\ fetches = [t \in Calls |-> NoFetch]
    /\ calls = [t \in Calls |-> IF t \in load.calls THEN NoCall ELSE [NoCall EXCEPT !.at = "done"]]

Next ==
    \/ \E t \in Calls : \/ Begin(t) \/ FetchReads(t) \/ FetchArrives(t) \/ Authorize(t)
                        \/ Query(t) \/ Guard(t) \/ CheckBefore(t) \/ Write(t) \/ CheckWritten(t)
                        \/ ReadBack(t)
    \/ \E u \in Users : Expire(u) \/ ChangeRoles(u) \/ Invalidate(u)

(* -------------------------------- Properties ---------------------------- *)
\* What each side, the user and the credential, is granted by the rules alone.
Sides(p) ==
    {[roles |-> p.roles, attr |-> p.attr]} \cup
    (IF p.claim = None THEN {} ELSE {[roles |-> CredRoles(p.roles, p.claim),
                                      attr |-> CredAttr(p.attr, p.claim)]})

Granted(side, resource, action) ==
    LET match == {rule \in UNION {ToSet(Rules[r]) : r \in ToSet(side.roles)} :
                     resource \in rule.resources /\ action \in rule.actions}
    IN IF \E rule \in match : rule.effect = "deny" THEN {}
       ELSE {rule.scope[side.attr] : rule \in match} \ {None}

Shows(projection, leaf) ==
    CASE projection.mode = "empty" -> TRUE
      [] projection.mode = "include" -> \E k \in projection.keys : IsPrefix(k, leaf)
      [] projection.mode = "exclude" -> ~\E k \in projection.keys : IsPrefix(k, leaf)

MaySee(scopes, row, leaf) ==
    (\E s \in scopes : Passes(row, s.filter)) /\ \E s \in scopes : Shows(s.projection, leaf)

TargetGrants(side) ==
    LET declared == {s.with : s \in Granted(side, "doc", "read")} \ {None}
    IN IF declared = {} THEN Granted(side, "target", "read") ELSE declared

\* No reply shows a leaf of a row, or of a row it is joined to, nor uses a
\* control or filters on a leaf, unless the user's own roles grant it and, for
\* an attenuated credential, its claims grant it too: combining the two never
\* widens either (conjoinScopes, resolveRelationTree, applyArbacProjection).
RepliesAreGranted ==
    \A t \in Calls : calls[t].seen # None /\ calls[t].request.op \in TableOps =>
        \A side \in Sides(Principal(t)) :
            LET scopes == Granted(side, "doc", "read")
                query == calls[t].request.query
            IN /\ \A cell \in calls[t].seen.own : MaySee(scopes, cell[1], cell[2])
               /\ \A cell \in calls[t].seen.target : MaySee(TargetGrants(side), cell[1], cell[2])
               /\ calls[t].request.op = "read" =>
                     /\ query.with => \E s \in scopes : "rel" \in s.controls["with"]
                     /\ query.search => \E s \in scopes : "on" \in s.controls["search"]
                     /\ query.where # None /\ calls[t].seen.own # {} =>
                           \E s \in scopes : Shows(s.projection, query.where)

\* A row written in a transaction, or written without one over the row that was
\* checked, is in the check of every side; the row that was counted as a target
\* is in the filter of every side; and a reference it is given can be read by
\* the caller when a side enforces it (write-policy.ts, write-refs.ts).  Without a
\* transaction a new row is checked as it is given: what the database fills in for
\* the leaves it leaves out may put it outside the check (write-policy.ts:94-99).
WriteIsChecked(c, sides) ==
    LET op == c.request.op
        written == c.wrote
        current == policy.transactional \/ ~IsPatch(op) \/ written.before = c.read
        asGiven == ~policy.transactional /\ ~IsPatch(op)
        InCheck(check) == \/ Passes(written.after, check)
                          \/ /\ asGiven /\ ~(check.fields \subseteq DOMAIN Given(c.body))
                             /\ Satisfies(Given(c.body), check)
    IN \A side \in sides :
        LET scopes == Granted(side, "doc", op) IN
        /\ op # "remove" /\ current => \E s \in scopes : InCheck(Check(s))
        /\ HasPreImage(op) /\ written.before = c.counted =>
              \E s \in scopes : Passes(written.before, s.filter)
        /\ /\ op # "remove"
           /\ \A s \in scopes : "ref" \in s.refs
           /\ Ref \in DOMAIN Given(c.body) /\ written.after[Ref] # 0
           => \A each \in sides : \E s \in Granted(each, "target", "read") :
                                          Passes(written.after[Ref], s.filter)

\* A patch changes no leaf outside what every side lists as writable, save the
\* leaves a side forces, which it sets to the forced value; and it writes
\* related rows only when every side allows it (applyAllowedFieldsAndSet).
PatchStaysInItsFields(c, sides) ==
    LET grants == {Granted(side, "doc", "update") : side \in sides}
        forced == {s.set : s \in UNION grants}
        listed(scopes) == {s.allowed : s \in scopes} \ {None}
    IN /\ \A leaf \in Leaves : c.wrote.before[leaf] # c.wrote.after[leaf] =>
             \/ \E set \in forced : leaf \in DOMAIN set /\ set[leaf] = c.wrote.after[leaf]
             \/ \A scopes \in grants : listed(scopes) # {} => \E l \in listed(scopes) : Covers(l, leaf)
       /\ c.body.nested => \A scopes \in grants : \E s \in scopes : "rel" \in s.nested

\* No write, whatever overlaps it, leaves what every side is granted: the rows it
\* takes and leaves, the references it gives, the leaves and related rows it
\* patches (write-policy.ts, write-refs.ts, applyAllowedFieldsAndSet).
WritesAreGranted ==
    \A t \in Calls : calls[t].wrote # None =>
        LET sides == Sides(Principal(t)) IN
        /\ WriteIsChecked(calls[t], sides)
        /\ IsPatch(calls[t].request.op) => PatchStaysInItsFields(calls[t], sides)

\* A request that began after a change of roles was made known to the cache
\* never acts on a record read before it, whatever fetches were in flight
\* (ArbacUserRecordCache.invalidate, fetchRecord).
RevokedRolesAreGone ==
    \A t \in Calls : calls[t].fetch # None /\ fetches[calls[t].fetch].state \in {"read", "arrived"} =>
        fetches[calls[t].fetch].version >= calls[t].since
=============================================================================
