----------------------------- MODULE TableMeta -----------------------------
(***************************************************************************)
(* What a controller under access control tells a caller about itself and  *)
(* the row actions it runs: the description of the table with its memo,    *)
(* the forms, the actions offered on rows, an action run on a row or       *)
(* delegated by a query, and the queries of a value help.  A description   *)
(* gives each path a stamp, in the flat map of fields and in the type; the *)
(* type has two levels below the table's own, the block's and the          *)
(* relation's.  A link is a reference or a value-help binding.             *)
(* Left out: the expansion of shared types, unions, arrays and wildcard    *)
(* properties in a type, versions, and decisions that cannot be keyed.     *)
(***************************************************************************)
EXTENDS AccessControl

CONSTANTS Tables,        \* per controller: its fields, identifiers, derived and JSON columns,
                         \* links, operations with their controls, row actions with their handlers
          Forms,         \* per form: the actions that take it, its links by depth
          MaxFormDepth,
          NotControls    \* entries of a control list that no gate turns off

WriteOps == {"insert", "update", "replace", "remove"}
ReadActions == {"read", "meta"}
Everywhere == {<<>>}                    \* a list that covers every path

(* --------------------------- Roles of a table --------------------------- *)
\* mergePartScope: the part's own fields win, the row policies are conjoined.
MergePartScope(shared, part) ==
    LET rowPolicy(s) == [filter |-> s.filter, check |-> Check(s), explicit |-> s.check # Silent]
        merged == part @@ shared
        whole == [filter |-> IF "filter" \in DOMAIN part THEN part.filter ELSE None,
                  check |-> IF "check" \in DOMAIN part THEN part.check ELSE Silent]
    IN ConjoinRowPolicies(rowPolicy(shared), rowPolicy(whole), None) @@ merged

\* No value from either function denies.
ComposeScope(shared, part) ==
    [a \in DOMAIN shared |->
        IF shared[a] = None \/ part[a] = None THEN None ELSE MergePartScope(shared[a], part[a])]

RulesFor(resource, actions, scope) ==
    [effect |-> "allow", resources |-> {resource}, actions |-> actions, scope |-> scope]

ActionsForOps(ops) == UNION {IF op = "read" THEN ReadActions ELSE {op} : op \in ops}

\* An action that several parts list has the scope of the first.
DefineTableAccess(resource, shared, parts) ==
    [i \in DOMAIN parts |->
        RulesFor(resource, parts[i].actions \ UNION {parts[j].actions : j \in 1 .. i - 1},
                 IF parts[i].scope = None THEN shared ELSE ComposeScope(shared, parts[i].scope))]

(* ------------------------------- Visibility ----------------------------- *)
\* A key inside a JSON column hides the column, or shows nothing of it; a
\* derived column is shown only with its source.
NormalizeAllowed(allowed, table) ==
    LET exclude == allowed.mode = "exclude"
        inside == {k \in allowed.keys : \E column \in table.json : IsStrictPrefix(column, k)}
        columns == {column \in table.json : Below(inside, column) # {}}
        keys == (allowed.keys \ inside) \cup (IF exclude THEN columns ELSE {})
        sees(path) == IsFieldAllowed(path, Keys(allowed.mode, keys))
        hidden == {path \in DOMAIN table.derived :
                      table.derived[path] \notin table.ids /\ ~sees(table.derived[path])}
        kept == IF exclude THEN keys \cup {path \in hidden : sees(path)} ELSE keys \ hidden
    IN CASE allowed.keys = {} \/ (kept = {} /\ table.ids = {}) -> allowed
         [] kept # {} -> Keys(allowed.mode, kept)
         [] OTHER -> Keys("include", table.ids)

\* `level' is the relation's own visibility, if it can be read at all.
BuildScopeVisibility(name, scopes, level) ==
    [table |-> name, allowed |-> NormalizeAllowed(scopes.projection, Tables[name]),
     declared |-> scopes.with # <<>> /\ \A s \in ToSet(scopes.with) : ~s.inherited,
     level |-> level]

IsOwnFieldVisible(path, vis) ==
    LET table == Tables[vis.table] IN
    \/ path \in table.ids
    \/ /\ IsFieldAllowed(path, vis.allowed)
       /\ path \in DOMAIN table.derived =>
             \/ table.derived[path] \in table.ids
             \/ IsFieldAllowed(table.derived[path], vis.allowed)

IsMetaFieldVisible(path, vis) ==
    IF Head(path) # Head(Rel) \/ ~Tables[vis.table].relation THEN IsOwnFieldVisible(path, vis)
    ELSE /\ vis.declared \/ (IsFieldAllowed(Rel, vis.allowed) /\ vis.level # None)
         /\ Len(path) > 1 /\ vis.level # None => IsOwnFieldVisible(Tail(path), vis.level)

Actions(name) == DOMAIN Tables[name].crud \cup {"meta"} \cup UNION Range(Tables[name].actions)

\* What the caller is granted on each table, by action.
Outcomes(p) ==
    [name \in DOMAIN Tables |->
        [action \in Actions(name) |-> Evaluate(p, name, action, Tables[name].fields)]]

TypeRead(g, name) == IF "read" \in DOMAIN g[name] THEN g[name]["read"] ELSE None

\* resolveRefTargets: no value for a table the caller cannot read.
TargetVisibility(g, name) ==
    LET read == IF Tables[name].served THEN TypeRead(g, name) ELSE None
    IN IF read = None THEN None ELSE BuildScopeVisibility(name, read, None)

Level(g, name) ==
    IF Tables[name].relation /\ TypeRead(g, name) # None
    THEN RelationLevel(g[name]["read"], TypeRead(g, "target")) ELSE None

RelationVisibility(level) == IF level = None THEN None ELSE BuildScopeVisibility("target", level, None)

(* ------------------------------- Describing ----------------------------- *)
\* collectWritableFields: every path when no scope lists any.
CollectWritableFields(writes) ==
    LET lists == {scope.allowed : scope \in writes} IN
    CASE writes = {} -> {}
      [] writes # {} /\ lists \subseteq {None} -> Everywhere
      [] OTHER -> AllowedFields(lists)

\* What is decided for a caller: the operations and actions it may use, what it
\* sees, and what its write scopes let it give.
Decide(g, name, level) ==
    LET table == Tables[name]
        granted == g[name]
        ops == {op \in DOMAIN table.crud : granted[op] # None}
        writes == {granted[op] : op \in ops \cap WriteOps}
        read == TypeRead(g, name)
    IN [table |-> name, ops |-> ops,
        actions |-> {a \in DOMAIN table.actions : \E id \in table.actions[a] : granted[id] # None},
        vis |-> IF read = None THEN None ELSE BuildScopeVisibility(name, read, RelationVisibility(level)),
        controls |-> IF read = None THEN None ELSE read.controls,
        writable |-> CollectWritableFields(writes),
        nested |-> UNION {scope.nested : scope \in writes},
        forced |-> UNION {DOMAIN scope.forced : scope \in writes},
        targets |-> [link \in DOMAIN table.links |-> TargetVisibility(g, table.links[link].table)]]

IsForced(path, d) == Covers(d.forced, path)

IsPathWritable(path, d) ==
    /\ path \notin DOMAIN Tables[d.table].derived
    /\ ~IsForced(path, d)
    /\ path = Rel /\ Tables[d.table].relation => "rel" \in d.nested
    /\ Covers(d.writable, path)

HasWritableDescendant(path, d) == Below(d.writable, path) # {}

\* The flat map of fields.
PruneFields(d) ==
    [path \in Tables[d.table].fields |->
        CASE IsMetaFieldVisible(path, d.vis) -> "shown"
          [] ~IsMetaFieldVisible(path, d.vis) /\ IsPathWritable(path, d) -> "writeOnly"
          [] OTHER -> "absent"]

\* A hidden property that may be written is kept whole, a hidden parent of
\* such only as their parent.
StampOf(path, d) ==
    LET visible == IsMetaFieldVisible(path, d.vis) IN
    CASE visible -> IF IsForced(path, d) THEN "readOnly" ELSE "shown"
      [] ~visible /\ IsPathWritable(path, d) -> "writeOnly"
      [] ~visible /\ ~IsPathWritable(path, d) /\ HasWritableDescendant(path, d) -> "parent"
      [] OTHER -> "absent"

PruneType(d) ==
    [path \in Tables[d.table].fields |->
        LET above == StampOf(<<Head(path)>>, d) IN
        CASE Len(path) = 1 -> above
          [] Len(path) > 1 /\ above = "absent" -> "absent"
          [] Len(path) > 1 /\ above = "writeOnly" -> "whole"
          [] OTHER -> StampOf(path, d)]

\* The relation: one that is hidden but may be written through is kept whole.
PruneRelation(d) ==
    CASE ~Tables[d.table].relation -> "absent"
      [] Tables[d.table].relation /\ IsMetaFieldVisible(Rel, d.vis) -> "shown"
      [] OTHER -> IF "rel" \in d.nested /\ IsPathWritable(Rel, d) THEN "writeOnly" ELSE "absent"

PruneLevel(d) ==
    CASE PruneRelation(d) = "shown" ->
            {f \in Tables["target"].fields : IsOwnFieldVisible(f, d.vis.level)}
      [] PruneRelation(d) = "writeOnly" -> Tables["target"].fields
      [] OTHER -> {}

\* A target that names no field must still be readable, unless it is no table.
IsTargetVisible(path, d) ==
    LET link == Tables[d.table].links[path]
        target == IF link.table = d.table THEN d.vis ELSE d.targets[path]
    IN \/ link.fields = {} /\ ~Tables[link.table].served
       \/ target # None /\ \A f \in link.fields : IsMetaFieldVisible(f, target)

\* Inside a property kept whole no link is stripped.
VisibleTargets(d) ==
    {path \in DOMAIN Tables[d.table].links :
        LET stamp == PruneType(d)[path] IN
        stamp = "whole" \/ (stamp # "absent" /\ IsTargetVisible(path, d))}

(* ------------------------------ Capabilities ---------------------------- *)
\* A gate of `false'; an empty list is none.
IsOff(control, gates) ==
    control \in DOMAIN Controls \ NotControls /\ gates[control] = {}

\* A control is off with the one it depends on.
IsControlOff(control, list, gates) ==
    LET search == IsOff("search", gates)
        vector == IsOff("vector", gates) \/ search
        grouped == IsOff("groupBy", gates) \/ IsOff("select", gates)
        rowOrder == IsOff("rowOrder", gates) \/ grouped
    IN \/ IsOff(control, gates)
       \/ control \in {"index", "fuzzy"} /\ "search" \in list /\ search
       \/ control = "vector" /\ vector
       \/ control = "threshold" /\ vector
       \/ control \in {"rowOrder", "from"} /\ grouped
       \/ /\ control = "nulls" /\ IsOff("sort", gates)
          /\ "rowOrder" \notin list \/ rowOrder

Admits(control, value, gates) ==
    \/ control \notin DOMAIN Controls
    \/ gates[control] = Controls[control]
    \/ value \in gates[control]

\* What the flags of the description say the caller can ask for; a capability
\* that no operation lists is not gated.
GateMetaControls(d) ==
    LET list == Tables[d.table].crud["read"]
        kept == {c \in list : ~IsControlOff(c, list, d.controls)}
        served(controls) == controls \subseteq list => controls \subseteq kept
        aggregates == served({"groupBy", "select"})
        search == served({"search"})
    IN [controls |-> kept,
        groupable |-> {f \in Tables[d.table].fields :
                          {"groupBy"} \subseteq list => "groupBy" \in kept /\ Admits("groupBy", f, d.controls)},
        sortable |-> served({"sort"}), aggregates |-> aggregates,
        relation |-> {"filter", "with"} \subseteq list =>
                         {"filter", "with"} \subseteq kept /\ Admits("with", "rel", d.controls),
        nested |-> aggregates /\ served({"from"}), nulls |-> served({"nulls"}),
        search |-> search, vector |-> search /\ served({"search", "vector"})]

Ungated == [controls |-> {}, groupable |-> {}, sortable |-> TRUE, aggregates |-> TRUE, relation |-> TRUE,
            nested |-> TRUE, nulls |-> TRUE, search |-> TRUE, vector |-> TRUE]

\* Without a read operation nothing is pruned: a caller that only writes needs
\* the whole type.
ApplyArbacMetaOverlay(d) ==
    LET all == [path \in Tables[d.table].fields |-> "shown"]
        common == [ops |-> d.ops, actions |-> d.actions]
    IN common @@
       IF d.vis = None
       THEN [pruned |-> FALSE, fields |-> all, type |-> all,
             relation |-> IF Tables[d.table].relation THEN "shown" ELSE "absent",
             level |-> Tables["target"].fields, links |-> DOMAIN Tables[d.table].links, can |-> Ungated]
       ELSE [pruned |-> TRUE, fields |-> PruneFields(d), type |-> PruneType(d),
             relation |-> PruneRelation(d), level |-> PruneLevel(d), links |-> VisibleTargets(d),
             can |-> GateMetaControls(d)]

\* A value help that shows none of the fields it searches offers no search.
ApplyValueHelpMetaOverlay(name, description) ==
    IF \E f \in Tables[name].searchable : description.fields[f] # "absent" THEN description
    ELSE [description EXCEPT !.can.search = FALSE]

(* --------------------------------- The memo ----------------------------- *)
EncodeLevel(vis) ==
    IF vis = None THEN None
    ELSE <<vis.table, vis.allowed, vis.declared,
           IF vis.level = None THEN None ELSE <<vis.level.table, vis.level.allowed>> >>

\* Mutant: two callers differ in nothing but the controls they are refused.
KeyWithoutControls(d) ==
    IF d.vis = None THEN <<d.actions, d.ops>>
    ELSE <<d.actions, d.ops, EncodeLevel(d.vis), d.writable, d.nested, d.forced,
           [link \in DOMAIN d.targets |-> EncodeLevel(d.targets[link])]>>

MetaDecisionKey(d) ==
    IF d.vis = None THEN <<d.actions, d.ops>>
    ELSE <<d.actions, d.ops, EncodeLevel(d.vis), d.writable, d.nested, d.forced, d.controls,
           [link \in DOMAIN d.targets |-> EncodeLevel(d.targets[link])]>>

\* The first time an envelope is asked for nothing is kept of it; the oldest
\* projection makes room.
MemoMetaProjection(kept, key, out) ==
    LET hit == {e \in ToSet(kept.entries) : e.key = key}
        others == SelectSeq(kept.entries, LAMBDA e : e.key # key)
        entry == IF hit = {} THEN [key |-> key, reply |-> out] ELSE CHOOSE e \in hit : TRUE
        room == IF hit = {} /\ Len(others) >= policy.memoMax THEN Tail(others) ELSE others
    IN CASE policy.memoMax = 0 -> [kept |-> kept, reply |-> out]
         [] policy.memoMax > 0 /\ ~kept.seen -> [kept |-> [kept EXCEPT !.seen = TRUE], reply |-> out]
         [] OTHER -> [kept |-> [kept EXCEPT !.entries = Append(room, entry)], reply |-> entry.reply]

(* ------------------------------- The requests --------------------------- *)
Asked(t, op) ==
    /\ At(t, "principal") /\ calls[t].request.op = op
    /\ fetches[calls[t].fetch].state \in {"arrived", "failed"}

\* Nothing is granted when the caller's record is not known.
Held(t) ==
    IF fetches[calls[t].fetch].state = "arrived" THEN Outcomes(Principal(t))
    ELSE [name \in DOMAIN Tables |-> [action \in Actions(name) |-> None]]

Answer(t, served, reply) ==
    IF served THEN calls' = [calls EXCEPT ![t].seen = reply, ![t].at = "done"] ELSE Refuse(t)

Describe(t) ==
    /\ Asked(t, "meta")
    /\ LET name == calls[t].request.table
       IN \E g \in {Held(t)} :
          IF g[name]["meta"] # None
          THEN \E level \in {Level(g, name)} :
               \E d \in {Decide(g, name, level)} :
               \E made \in {MemoMetaProjection(memo[name], MetaDecisionKey(d), ApplyArbacMetaOverlay(d))} :
                  /\ memo' = [memo EXCEPT ![name] = made.kept]
                  /\ Answer(t, TRUE, [table |-> name,
                                      meta |-> IF Tables[name].searchable = {} THEN made.reply
                                               ELSE ApplyValueHelpMetaOverlay(name, made.reply)])
          ELSE Refuse(t) /\ UNCHANGED memo
    /\ UNCHANGED <<deployment, rows, lock, identity>>

\* A link of a form survives when its target can be read, every field it names
\* included, and not beyond the depth that is walked.
StripFormTargets(g, form) ==
    {node \in Forms[form].links :
        LET target == TargetVisibility(g, node.table) IN
        node.depth < MaxFormDepth /\ target # None /\ \A f \in node.fields : IsMetaFieldVisible(f, target)}

IsActionGranted(g, name) == \E id \in Tables["doc"].actions[name] : g["doc"][id] # None

Form(t) ==
    /\ Asked(t, "form")
    /\ LET form == calls[t].request.table
       IN \E g \in {Held(t)} :
             Answer(t, g["doc"]["meta"] # None /\ \E a \in Forms[form].actions : IsActionGranted(g, a),
                    [table |-> form, links |-> StripFormTargets(g, form)])
    /\ UNCHANGED <<standing, rows, lock, identity>>

(* ------------------------------- Row actions ---------------------------- *)
\* The rows an action may run on: those of any of its handlers.
ArbacActionRowScope(g, name) ==
    LET granted == {id \in Tables["doc"].actions[name] : g["doc"][id] # None}
    IN IF granted = {} THEN DenyFilter
       ELSE MergeScopeFilters({g["doc"][id].filter : id \in granted})

\* Mutant: an action that one handler grants is offered on the rows of any other.
OfferedIfGranted(g, row) == {name \in DOMAIN Tables["doc"].actions : IsActionGranted(g, name)}

OfferedOn(g, row) ==
    {name \in DOMAIN Tables["doc"].actions :
        IsActionGranted(g, name) /\ Passes(row, ArbacActionRowScope(g, name))}

\* Served to a caller that some action is granted, without a row policy of its
\* own; a controller that delegates answers the others with no row.
AvailableActions(t) ==
    /\ Asked(t, "actions")
    /\ \E g \in {Held(t)} :
          LET own == \E name \in DOMAIN Tables["doc"].actions : IsActionGranted(g, name)
              found == Found(Docs, IF own THEN None ELSE DenyFilter, None)
          IN Answer(t, own \/ (policy.delegates /\ fetches[calls[t].fetch].state = "arrived"),
                    [table |-> "offers", rows |-> found,
                     offers |-> UNION {OfferedOn(g, row) \X {row} : row \in found}])
    /\ UNCHANGED <<standing, rows, lock, identity>>

\* The handler's own grant, and the rows of the action: the same filter when
\* the action has no other handler.
Runnable(g, name, id, row) ==
    /\ g["doc"][id] # None /\ row # None
    /\ Passes(row, ConjoinScopeFilters(g["doc"][id].filter, IF Tables["doc"].actions[name] = {id} THEN None
                                                        ELSE ArbacActionRowScope(g, name)))

RunAction(t) ==
    /\ Asked(t, "run")
    /\ LET request == calls[t].request
           row == rows[request.doc]
       IN \E g \in {Held(t)} : Answer(t, Runnable(g, request.action, request.id, row),
                 [table |-> "run", action |-> request.action, id |-> request.id, rows |-> {row}])
    /\ UNCHANGED <<standing, rows, lock, identity>>

\* The rows of a delegated action are those the caller may read ...
Delegate(t) ==
    /\ Asked(t, "delegate")
    /\ \E read \in {Held(t)["doc"]["read"]} :
          IF policy.delegates /\ read # None
          THEN calls' = [calls EXCEPT ![t].at = "batch",
                  ![t].seen = [table |-> "batch",
                               rows |-> {d \in Docs : rows[d] # None /\ Passes(rows[d], read.filter)}]]
          ELSE Refuse(t)
    /\ UNCHANGED <<standing, rows, lock, identity>>

\* ... and the route of the action authorizes the batch again.
RunBatch(t) ==
    /\ At(t, "batch")
    /\ LET request == calls[t].request
       IN \E g \in {Held(t)} :
          LET run == {d \in calls[t].seen.rows : Runnable(g, request.action, request.id, rows[d])}
          IN Answer(t, run # {}, [table |-> "run", action |-> request.action, id |-> request.id,
                                  rows |-> {rows[d] : d \in run}])
    /\ UNCHANGED <<standing, rows, lock, identity>>

(* ------------------------------- Value help ----------------------------- *)
RequestsField(requested, field) ==
    CASE requested.mode = "empty" -> TRUE
      [] requested.mode = "include" -> field \in requested.keys
      [] requested.mode = "exclude" -> field \notin requested.keys

\* The key is added back unless the caller left it out.
WidenPrimaryKey(projection, requested, key) ==
    IF ~RequestsField(requested, key) THEN projection
    ELSE Keys(projection.mode, IF projection.mode = "include" THEN projection.keys \cup {key}
                               ELSE projection.keys \ {key})

Help(t) ==
    /\ Asked(t, "help")
    /\ LET select == calls[t].request.query
           target == Tables["target"]
       IN \E read \in {Held(t)["target"]["read"]} :
          \E vis \in {IF read = None THEN None ELSE BuildScopeVisibility("target", read, None)} :
          Answer(t, vis # None,
              LET desired == IF vis.allowed = Everything THEN select
                             ELSE ExpandExcludeToLeaves(RestrictProjection(select, vis.allowed, target.fields),
                                                        target.fields)
                  key == CHOOSE f \in target.ids : TRUE
                  shown == {f \in target.fields : IsFieldAllowed(f, WidenPrimaryKey(desired, select, key))}
              IN [table |-> "help", cells |-> {r \in Targets : Passes(r, read.filter)} \X shown])
    /\ UNCHANGED <<standing, rows, lock, identity>>

(* --------------------------------- The system --------------------------- *)
MetaInit ==
    /\ Init
    /\ \E seen \in {FALSE, policy.memoMax > 0} :
          memo = [name \in DOMAIN Tables |-> [seen |-> seen, entries |-> <<>>]]

MetaNext ==
    \/ Next
    \/ \E t \in Calls : \/ Describe(t) \/ Form(t) \/ AvailableActions(t) \/ RunAction(t)
                        \/ Delegate(t) \/ RunBatch(t) \/ Help(t)

MetaSpec == MetaInit /\ [][MetaNext]_vars
(* -------------------------------- Properties ---------------------------- *)
MayRead(side, name, f) ==
    f \in Tables[name].ids \/ \E s \in Granted(side, name, "read") : Shows(s.projection, f)

SomeRow(scopes) == scopes # None /\ (scopes.filter = None \/ scopes.filter.rows # {})

Listed(side, name, f) ==
    \E op \in WriteOps :
        LET lists == {s.allowed : s \in Granted(side, name, op)}
        IN lists # {} /\ (lists = {None} \/ \E l \in lists \ {None} : Covers(l, f))

\* A description, a remembered one included, names the operations, the actions
\* and the controls that every side is granted, no field or link of a table
\* that one of them may not read (the sources of derived columns included),
\* and as write-only no field that one of them may not give: when some row can
\* be read at all (applyArbacMetaOverlay, metaDecisionKey).
DescriptionsAreExact ==
    \A t \in Calls : calls[t].seen # None /\ calls[t].request.op = "meta" =>
        LET p == Principal(t)
            name == calls[t].seen.table
            x == calls[t].seen.meta
            table == Tables[name]
            sides == Sides(p)
            granted(action) == \A side \in sides : Granted(side, name, action) # {}
            reads(resource, f) == \A side \in sides : MayRead(side, resource, f)
            described == {"shown", "readOnly"}
        IN \A g \in {Held(t)} : \A level \in {Level(g, name)} :
           /\ x.ops = {op \in DOMAIN table.crud : granted(op)}
           /\ x.actions = {a \in DOMAIN table.actions : \E id \in table.actions[a] : granted(id)}
           /\ x.pruned = granted("read")
           /\ x.pruned /\ SomeRow(TypeRead(g, name)) =>
                /\ \A f \in table.fields : Children(table.fields, f) = {} =>
                      /\ x.type[f] \in described \/ x.fields[f] = "shown" =>
                            reads(name, f) /\ (f \in DOMAIN table.derived => reads(name, table.derived[f]))
                      /\ x.fields[f] = "writeOnly" => \A side \in sides : Listed(side, name, f)
                      /\ (\A side \in sides : \E s \in Granted(side, name, "read") : s.projection = Everything)
                            => x.fields[f] = "shown"
                /\ \A c \in x.can.controls \cap DOMAIN Controls, side \in sides :
                      \E s \in Granted(side, name, "read") : s.controls[c] # {}
                /\ \A f \in x.can.groupable, side \in sides :
                      \E s \in Granted(side, name, "read") :
                          f \in s.controls["groupBy"] \/ s.controls["groupBy"] = Controls["groupBy"]
                /\ x.relation = "shown" /\ SomeRow(level) =>
                      \A f \in x.level, side \in sides :
                          f \in Tables["target"].ids \/ \E s \in TargetGrants(side) : Shows(s.projection, f)
                /\ \A path \in x.links : x.type[path] # "whole" =>
                      LET link == table.links[path] IN
                      \/ link.fields = {} /\ ~Tables[link.table].served
                      \/ /\ \A side \in sides : Granted(side, link.table, "read") # {}
                         /\ SomeRow(TypeRead(g, link.table)) => \A f \in link.fields : reads(link.table, f)

\* An action is offered on a row exactly when the rules of every side grant one
\* of its handlers on it, runs on no other row, a delegated one included, and
\* a value help shows no value they do not grant (arbacActionRowScope,
\* authorizeAvailableActions, transformValueHelpProjection).
AnswersStayInTheirRows ==
    \A t \in Calls : calls[t].seen # None /\ calls[t].request.op \notin TableOps =>
        LET sides == Sides(Principal(t))
            actions == Tables["doc"].actions
            permitted(id, row) ==
                \A side \in sides : \E s \in Granted(side, "doc", id) : Passes(row, s.filter)
        IN CASE calls[t].seen.table = "offers" ->
                    calls[t].seen.offers = UNION {{name \in DOMAIN actions : \E id \in actions[name] : permitted(id, row)}
                                               \X {row} : row \in calls[t].seen.rows}
             [] calls[t].seen.table = "run" -> \A row \in calls[t].seen.rows : permitted(calls[t].seen.id, row)
             [] calls[t].seen.table = "help" ->
                    \A cell \in calls[t].seen.cells, side \in sides :
                        LET scopes == Granted(side, "target", "read") IN
                        /\ \E s \in scopes : Passes(cell[1], s.filter)
                        /\ cell[2] \in Tables["target"].ids \/ \E s \in scopes : Shows(s.projection, cell[2])
             [] OTHER -> TRUE
=============================================================================
