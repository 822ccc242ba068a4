----------------------------- MODULE ScopePolicy -----------------------------
(***************************************************************************)
(* The algebra of database scopes: what a list of granted scopes amounts   *)
(* to, and the scope that is the conjunction of what the user and what the *)
(* credential were granted (an attenuated credential).                     *)
(* A path is the sequence of its segments.  A filter is the set of rows it *)
(* lets pass, those with leaves missing included, the paths it reads and   *)
(* whether the in-memory evaluator knows it; a projection its mode and     *)
(* keys; a control's gate the values it lets pass, all of them when the    *)
(* scope does not name the control, none when it is switched off, and for  *)
(* a list the mark of a list besides, so that an empty one is not `false'. *)
(* One relation, "rel", stands for all: `with' is its sub-scope.           *)
(***************************************************************************)
EXTENDS Naturals, FiniteSets, SequencesExt

CONSTANTS None,      \* no filter ({} and undefined alike), no list, no value
          Silent,    \* a scope that says nothing of `check'
          Controls,  \* the values each control may be used with
          ForeignKeys

NoSet == [p \in {} |-> 0]

(* ---------------------------------- Paths ------------------------------- *)
Covers(keys, path) == \E k \in keys : IsPrefix(k, path)            \* coversPath
Below(keys, path) == {k \in keys : IsStrictPrefix(path, k)}        \* descendantKeys
Children(tree, path) == {q \in tree : Len(q) = Len(path) + 1 /\ IsPrefix(path, q)}

(* ------------------------------- Projections ---------------------------- *)
Everything == [mode |-> "empty", keys |-> {}]
Keys(mode, keys) == IF keys = {} THEN Everything ELSE [mode |-> mode, keys |-> keys]

IsFieldAllowed(path, projection) ==
    CASE projection.mode = "empty" -> TRUE
      [] projection.mode = "exclude" -> ~Covers(projection.keys, path)
      [] projection.mode = "include" -> \/ Covers(projection.keys, path)
                                        \/ Below(projection.keys, path) # {}

\* A universe grant wins; includes add up; a key stays excluded when every
\* excluding projection covers it and no include does.
UnionProjections(projections) ==
    LET mode(m) == {p \in projections : p.mode = m}
        included == UNION {p.keys : p \in mode("include")}
        denied == {k \in UNION {p.keys : p \in mode("exclude")} :
                      /\ \A p \in mode("exclude") : Covers(p.keys, k)
                      /\ ~Covers(included, k)}
    IN CASE projections = {} \/ mode("empty") # {} -> Everything
         [] mode("exclude") = {} -> Keys("include", included)
         [] OTHER -> Keys("exclude", denied)

\* walkSchema descends from an included key as long as something below it is
\* excluded, and keeps the paths under which nothing is.
IncludeMinusExclude(included, excluded, tree) ==
    {path \in tree \cup included :
        /\ ~Covers(excluded, path) /\ Below(excluded, path) = {}
        /\ \E key \in included :
              /\ IsPrefix(key, path)
              /\ \A n \in Len(key) .. Len(path) - 1 : Below(excluded, SubSeq(path, 1, n)) # {}}

ExpandExcludeToLeaves(projection, tree) ==
    IF projection.mode # "exclude" THEN projection
    ELSE [projection EXCEPT !.keys = {path \in tree \cup @ : /\ Covers(projection.keys, path)
                                                             /\ Children(tree, path) = {}}]

\* No value: the two have no path in common.
OrNone(mode, keys) == IF keys = {} THEN None ELSE [mode |-> mode, keys |-> keys]

IntersectProjections(a, b, tree) ==
    CASE a.mode = "empty" -> b
      [] a.mode # "empty" /\ b.mode = "empty" -> a
      [] a.mode = "include" /\ b.mode = "include" ->
            OrNone("include", {k \in a.keys : Covers(b.keys, k)} \cup
                              UNION {Below(b.keys, k) : k \in {k \in a.keys : ~Covers(b.keys, k)}})
      [] a.mode = "exclude" /\ b.mode = "exclude" -> OrNone("exclude", a.keys \cup b.keys)
      [] a.mode = "include" /\ b.mode = "exclude" ->
            OrNone("include", IncludeMinusExclude(a.keys, b.keys, tree))
      [] a.mode = "exclude" /\ b.mode = "include" ->
            OrNone("include", IncludeMinusExclude(b.keys, a.keys, tree))

OrElse(value, other) == IF value = None THEN other ELSE value
RestrictProjection(desired, access, tree) == OrElse(IntersectProjections(desired, access, tree), access)

(* --------------------------------- Filters ------------------------------ *)
DenyFilter == [rows |-> {}, fields |-> {}, compiled |-> TRUE]

Passes(row, filter) == filter = None \/ row \in filter.rows

MergeScopeFilters(filters) ==
    IF filters = {} \/ None \in filters THEN None
    ELSE [rows |-> UNION {f.rows : f \in filters}, fields |-> UNION {f.fields : f \in filters},
          compiled |-> \A f \in filters : f.compiled]

ConjoinScopeFilters(f, g) ==
    CASE f = None -> g
      [] f # None /\ g = None -> f
      [] OTHER -> [rows |-> f.rows \cap g.rows, fields |-> f.fields \cup g.fields,
                   compiled |-> f.compiled /\ g.compiled]

(* --------------------- What a list of scopes amounts to ----------------- *)
Open == [filter |-> None, check |-> Silent, projection |-> Everything, controls |-> Controls,
         allowed |-> None, set |-> NoSet, nested |-> {}, refs |-> {}, with |-> None,
         inherited |-> FALSE]

\* Mutant: a scope that says nothing of `check' checks nothing.
ExplicitCheck(scope) == IF scope.check = Silent THEN None ELSE scope.check

Check(scope) == IF scope.check = Silent THEN scope.filter ELSE scope.check

UnionControls(scopes) ==
    [c \in DOMAIN Controls |-> IF scopes = {} THEN Controls[c] ELSE UNION {s.controls[c] : s \in scopes}]

\* No value: no scope lists fields.  Only those that do count.
AllowedFields(lists) == IF lists \subseteq {None} THEN None ELSE UNION (lists \ {None})

\* References every scope has checked.
IntersectEnabled(inputs) == {fk \in ForeignKeys : inputs # {} /\ \A input \in inputs : fk \in input}

WithScopes(scopes) == LET subs == SelectSeq(scopes, LAMBDA s : s.with # None)
                      IN [i \in DOMAIN subs |-> subs[i].with]

\* The scopes that list last win a forced value; without an explicit check of
\* any scope, the check is the filter (checks each falling back to its filter).
EffectiveScope(scopes) ==
    [filter |-> MergeScopeFilters({s.filter : s \in ToSet(scopes)}),
     check |-> MergeScopeFilters({Check(s) : s \in ToSet(scopes)}),
     explicit |-> \E s \in ToSet(scopes) : s.check # Silent,
     projection |-> UnionProjections({s.projection : s \in ToSet(scopes)}),
     controls |-> UnionControls(ToSet(scopes)),
     allowed |-> AllowedFields({s.allowed : s \in ToSet(scopes)}),
     forced |-> FoldLeft(LAMBDA done, s : s.set @@ done, NoSet, scopes),
     nested |-> UNION {s.nested : s \in ToSet(scopes)},
     refs |-> IntersectEnabled({s.refs : s \in ToSet(scopes)}),
     with |-> WithScopes(scopes),
     inherited |-> scopes = <<>> \/ \E s \in ToSet(scopes) : s.inherited]

(* --------------------------- The conjunction of two --------------------- *)
\* A side without an explicit check has its filter; two without stay so.
ConjoinRowPolicies(a, b, deny) ==
    [filter |-> ConjoinScopeFilters(a.filter, ConjoinScopeFilters(b.filter, deny)),
     check |-> IF ~a.explicit /\ ~b.explicit THEN Silent
               ELSE ConjoinScopeFilters(a.check, ConjoinScopeFilters(b.check, deny))]

IntersectAllowed(a, b) ==
    CASE a = None -> b
      [] a # None /\ b = None -> a
      [] OTHER -> a \cap b

\* Projections with no path in common leave a's, and no rows.
Conjoined(a, b, projection, rows, with) ==
    [filter |-> rows.filter, check |-> rows.check,
     projection |-> OrElse(projection, a.projection),
     controls |-> [c \in DOMAIN Controls |-> a.controls[c] \cap b.controls[c]],
     allowed |-> IntersectAllowed(a.allowed, b.allowed),
     set |-> a.forced @@ b.forced, nested |-> a.nested \cap b.nested,
     refs |-> a.refs \cup b.refs, with |-> with, inherited |-> FALSE]

ConjoinWith(a, b, projection, with) ==
    Conjoined(a, b, projection,
              ConjoinRowPolicies(a, b, IF projection = None THEN DenyFilter ELSE None), with)

ConjoinScopes(a, b, tree, with) ==
    ConjoinWith(a, b, IntersectProjections(a.projection, b.projection, tree), with)

\* conjoinWith: the sub-scopes, without a schema; it remembers when a side was
\* silent about the relation.
SubScope(a, b) == [ConjoinScopes(a, b, {}, None) EXCEPT !.inherited = a.inherited \/ b.inherited]

Conjunction(a, b, tree) ==
    ConjoinScopes(a, b, tree, IF a.with = <<>> /\ b.with = <<>> THEN None
                              ELSE SubScope(EffectiveScope(a.with), EffectiveScope(b.with)))
=============================================================================
