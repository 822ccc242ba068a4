--------------------------- MODULE MCAccessControl ---------------------------
EXTENDS TableMeta, TLC

CONSTANTS t1, t2, u1, d1, d2

\* The mark of a gate that is a list.
List == <<"list">>
MCControls == [with |-> {"rel", "list"}, search |-> {"on"}, groupBy |-> {T, OY, List}, sort |-> {"on"}]
NoControls == [c \in DOMAIN MCControls |-> {}]
Id == <<"id">>
D == <<"d">>
J == <<"j">>
JX == <<"j", "x">>

MCAttr == [u \in Users |-> 0]

RowValues == {r \in [Leaves -> {None, 0, 1, 2}] : \A leaf \in Leaves \ {Ref} : r[leaf] # 2}
Where(leaf, value) == [rows |-> {r \in RowValues : r[leaf] = value}, fields |-> {leaf}, compiled |-> TRUE]
WhereNot(leaf, value) == [rows |-> {r \in RowValues : r[leaf] # value}, fields |-> {leaf}, compiled |-> TRUE]
TargetOnly(r) == [rows |-> {r}, fields |-> {<<"n">>}, compiled |-> TRUE]
Include(keys) == Keys("include", keys)
Exclude(keys) == Keys("exclude", keys)

\* The scopes of the roles, by the user's attribute where it matters.
Drafts == [Open EXCEPT !.filter = WhereNot(T, 0), !.projection = Include({T, Ref, Rel}), !.allowed = {T, OX},
                       !.refs = {"ref"}]
Blocks == [Open EXCEPT !.filter = Where(OX, 1), !.check = [Where(OY, 0) EXCEPT !.compiled = FALSE],
                       !.projection = Exclude({OX, T}), !.allowed = {Block, Ref}, !.nested = {"rel"},
                       !.controls = NoControls]
Own(value) == [Open EXCEPT !.filter = Where(T, value), !.projection = Include({Block, Ref}),
                           !.set = OX :> 1 @@ T :> value, !.refs = {"ref"},
                           !.with = [Open EXCEPT !.filter = TargetOnly(1), !.projection = Include({<<"n">>})]]
Parts == [Open EXCEPT !.projection = Include({OX}), !.check = Where(T, 0), !.controls = NoControls,
                      !.with = [Open EXCEPT !.projection = Exclude({<<"n">>})]]

Names == [Open EXCEPT !.projection = Include({<<"s">>}), !.filter = TargetOnly(1)]
Part(ops, scope) == [actions |-> ActionsForOps(ops), scope |-> scope]
Reads(scope) == Part({"read"}, scope)
Allow(resource, scope) == RulesFor(resource, TableOps \cup ReadActions, scope)
Always(scope) == [a \in 0 .. 1 |-> scope]

MCRules ==
    [admin  |-> <<Allow("doc", Always(Open)), Allow("target", Always(Open))>>,
     drafts |-> <<Allow("doc", Always(Drafts)), Allow("target", Always([Open EXCEPT !.filter = TargetOnly(2)]))>>,
     blocks |-> <<Allow("doc", Always(Blocks)),
                  Allow("target", [a \in 0 .. 1 |-> IF a = 0 THEN Open ELSE None])>>,
     own    |-> <<Allow("doc", [a \in 0 .. 1 |-> Own(a)]), Allow("target", Always(Open))>>,
     parts  |-> <<Allow("doc", Always(Parts))>>,
     mute   |-> <<Allow("doc", Always([Open EXCEPT !.controls = NoControls])), Allow("target", Always(Open))>>,
     sealed |-> DefineTableAccess("doc", Always(Open),
                    <<Reads(Always([projection |-> Exclude({OX}), check |-> Where(OY, 1),
                                    controls |-> [MCControls EXCEPT !.groupBy = {OY, List}]])),
                      Part({"update", "read"}, Always([allowed |-> {Block, Ref}, set |-> OY :> 1]))>>)
                \o <<Allow("target", Always(Names))>>,
     clerk  |-> DefineTableAccess("doc", Always([Open EXCEPT !.filter = Where(T, 1)]),
                    <<Reads(Always([projection |-> Include({T, JX, D}), filter |-> Where(OY, 1),
                                    controls |-> [MCControls EXCEPT !.groupBy = {T, List}, !.search = {}]])),
                      [actions |-> {"approve", "close"}, scope |-> None]>>)
                \o <<Allow("target", Always(Names))>>,
     signer |-> DefineTableAccess("doc", [a \in 0 .. 1 |-> [Open EXCEPT !.filter = Where(OX, a)]],
                    <<Reads(Always([projection |-> Exclude({JX, T})])), Part({"remove"}, None),
                      [actions |-> {"closeMany"}, scope |-> [a \in 0 .. 1 |-> IF a = 0 THEN [filter |-> None] ELSE None]]>>),
     frozen |-> <<[Allow("doc", Always(Open)) EXCEPT !.effect = "deny", !.actions = WriteOps \cup {"approve"}]>>]

RoleLists(roles) == {<<r>> : r \in roles} \cup {<<r, s>> : r \in roles, s \in roles}
Anyone == {<<r>> : r \in DOMAIN MCRules} \cup
          {<<"drafts", "blocks">>, <<"own", "parts">>, <<"parts", "drafts">>, <<"blocks", "own">>,
           <<"own", "frozen">>}
Claims == {None} \cup [roles : Anyone, attr : {None, 1}, unheld : {TRUE}]
          \cup [roles : {None}, attr : {1}, unheld : {FALSE}]
          \cup [roles : {<<"drafts">>, <<"parts">>}, attr : {None}, unheld : {FALSE}]

Queries == {[op |-> "read", doc |-> d1, query |-> q, body |-> None] : q \in
              [select : {Everything, Include({Block}), Exclude({OX, Ref})}, with : BOOLEAN,
               search : {FALSE}, where : {None}]
              \cup [select : {Everything}, with : {FALSE}, search : BOOLEAN, where : {T, OY}]}

Body(leaves, block, nested) == [leaves |-> leaves, block |-> block, nested |-> nested]
Bodies == {Body(T :> 1, NoSet, FALSE), Body(OX :> 1 @@ Ref :> 1, NoSet, FALSE),
           Body(Ref :> 2, OX :> 1, FALSE), Body(T :> 0 @@ Ref :> 1, OX :> 1 @@ OY :> 0, FALSE),
           Body(NoSet, OY :> 1, TRUE), Body(T :> 0, NoSet, TRUE)}
Writes(ops, docs, bodies) ==
    {[op |-> op, doc |-> d, query |-> None, body |-> body] : op \in ops, d \in docs, body \in bodies}
Removal == {[op |-> "remove", doc |-> d1, query |-> None, body |-> None]}

Row(t, ox, oy, ref) == (T :> t) @@ (OX :> ox) @@ (OY :> oy) @@ (Ref :> ref)
Table(row) == (d1 :> row) @@ (d2 :> None)
AsUser(lists) == {[u \in Users |-> l] : l \in lists}

Reading == [roles |-> AsUser(Anyone), changes |-> 0, claims |-> Claims, requests |-> Queries,
            calls |-> {t1},
            rows |-> {(d1 :> Row(1, 0, 1, 1)) @@ (d2 :> Row(0, 1, 0, 2))}]

Writing ==
    [Reading EXCEPT !.claims = {c \in @ : c = None \/ (c.attr = None /\ Len(c.roles) = 1)},
                    !.requests = Writes({"update", "replace"}, {d1}, Bodies)
                                 \cup Writes({"insert"}, {d2}, Bodies) \cup Removal,
                    !.rows = {Table(Row(1, 1, 1, 1)), Table(Row(0, 1, 0, 0))}]

\* Two requests on one row.
Racing ==
    [Writing EXCEPT
        !.roles = AsUser({<<"drafts">>, <<"drafts", "parts">>}), !.claims = {None}, !.calls = {t1, t2},
        !.requests = Writes({"update"}, {d1}, {Body(T :> 0, NoSet, FALSE), Body(T :> 1 @@ OX :> 0, NoSet, FALSE)})
                     \cup Removal \cup Writes({"insert"}, {d1}, {Body(T :> 1, OX :> 0, FALSE)})]

\* The roles change while two requests share the record.
Revoking ==
    [Reading EXCEPT !.roles = AsUser({<<"admin">>, <<"drafts">>}), !.changes = 2, !.claims = {None},
                    !.requests = {CHOOSE r \in Queries : r.query.with}, !.calls = Calls]

\* The table, its value help, and a dictionary no controller serves.
Link(name, fields) == [table |-> name, fields |-> fields]
Unserved == [served |-> FALSE, relation |-> FALSE, ids |-> {}, derived |-> NoSet, json |-> {}, links |-> NoSet,
             fields |-> {}, crud |-> NoSet, actions |-> NoSet, searchable |-> {}]
Listing == {"filter", "select", "sort", "nulls", "with", "search", "index", "vector", "groupBy", "from"}

MCTables ==
    [doc |-> [Unserved EXCEPT !.served = TRUE, !.relation = TRUE, !.ids = {Id}, !.derived = D :> OX, !.json = {J},
                  !.fields = Tree \cup {Id, D, J, JX},
                  !.links = (T :> Link("doc", {OX})) @@ (Ref :> Link("target", {<<"n">>}))
                            @@ (OX :> Link("target", {<<"s">>})) @@ (OY :> Link("dict", {}))
                            @@ (Block :> Link("target", {})),
                  !.crud = [op \in TableOps |-> IF op = "read" THEN Listing ELSE {}],
                  !.actions = [approve |-> {"approve"}, close |-> {"close", "closeMany"}]],
     target |-> [Unserved EXCEPT !.served = TRUE, !.ids = {<<"n">>}, !.fields = TargetLeaves,
                     !.crud = [read |-> Listing], !.searchable = {<<"s">>}],
     dict |-> Unserved]

MCForms == [note |-> [actions |-> {"close"},
                      links |-> {[table |-> "target", fields |-> {<<"n">>}, depth |-> 0],
                                 [table |-> "doc", fields |-> {OX, D}, depth |-> 2],
                                 [table |-> "dict", fields |-> {}, depth |-> 1],
                                 [table |-> "target", fields |-> {}, depth |-> 3]}]]

Ask(op, table, query) == [op |-> op, doc |-> d1, query |-> query, body |-> None, table |-> table,
                          action |-> None, id |-> None]
OnRow(op, action, ids) ==
    {[Ask(op, "doc", None) EXCEPT !.doc = d, !.action = action, !.id = id] : d \in Docs, id \in ids}

\* Two callers are told what the table is, one after the other.
Describing ==
    [Reading EXCEPT !.requests = {Ask("meta", "doc", None)},
                    !.roles = AsUser({<<"admin">>, <<"drafts", "blocks">>, <<"own", "frozen">>, <<"blocks", "own">>,
                                      <<"sealed">>, <<"clerk">>, <<"signer">>}),
                    !.claims = {None} \cup [roles : {<<"sealed">>, <<"clerk">>, <<"mute">>},
                                            attr : {None}, unheld : {TRUE}],
                    !.calls = {t1, t2}]

Acting ==
    [Reading EXCEPT !.requests = {Ask("meta", "target", None), Ask("actions", "doc", None), Ask("form", "note", None)}
                                 \cup {Ask("help", "target", select) : select \in
                                          {Everything, Include({<<"s">>}), Exclude({<<"n">>})}}
                                 \cup UNION {OnRow(op, "close", {"close", "closeMany"}) \cup OnRow(op, "approve", {"approve"}) :
                                              op \in {"run", "delegate"}},
                    !.roles = AsUser(Anyone \cup {<<"clerk", "signer">>}),
                    !.claims = {c \in @ : c = None \/ c.attr = None},
                    !.rows = {(d1 :> Row(1, 0, 1, 1)) @@ (d2 :> Row(1, 1, 0, 2))}]

MCWorkloads == [reading |-> Reading, revoking |-> Revoking, describing |-> Describing, acting |-> Acting,
                merging |-> Writing, replacing |-> Writing, racing |-> Racing, unlocked |-> Racing]

Plain == [transactional |-> FALSE, merge |-> FALSE, caching |-> FALSE, memoMax |-> 0, delegates |-> FALSE]
MCDeployments ==
    [reading |-> Plain, revoking |-> [Plain EXCEPT !.caching = TRUE], describing |-> [Plain EXCEPT !.memoMax = 1],
     acting |-> [Plain EXCEPT !.delegates = TRUE], merging |-> [Plain EXCEPT !.merge = TRUE],
     replacing |-> [Plain EXCEPT !.transactional = TRUE], unlocked |-> [Plain EXCEPT !.merge = TRUE],
     racing |-> [Plain EXCEPT !.transactional = TRUE, !.merge = TRUE]]
=============================================================================
