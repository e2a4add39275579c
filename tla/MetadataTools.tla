----------------------------- MODULE MetadataTools -----------------------------
(***************************************************************************)
(* The six metadata tools (tools.py) with guard_owner and the page of      *)
(* fetch (oracle.py): each query as the set of rows that its joins select  *)
(* from the dictionary views, put in order and cut.                        *)
(*                                                                         *)
(* A dictionary d holds the database's objects, columns and constraints,   *)
(* and grants: the <<owner, table>> that the connecting user may see.      *)
(* Identifiers are strings of ServerConfig: a quoted identifier is one in  *)
(* lower case.  A LIKE pattern is the set of names it matches.             *)
(***************************************************************************)
EXTENDS ServerConfig, Sequences, FiniteSets

CONSTANT NoArg      \* None: an argument that is left out

ASSUME NoArgAssumption == NoArg \notin Strings

(* What Oracle keeps of any dictionary: names are not padded; an owner has *)
(* one table or view of a name, and one constraint; a table has one column *)
(* of a name and one of a number; the columns of a key differ; a foreign   *)
(* key refers to a key of as many columns.                                 *)
Identifiers == {s \in Strings : ~s.padded}

WellFormed(d) ==
    /\ \A part \in {d.objects, d.columns, d.constraints, d.grants} : IsFiniteSet(part)
    /\ \A o \in d.objects : o.owner \in Identifiers /\ o.name \in Identifiers
    /\ \A c \in d.columns :
          {c.owner, c.table, c.name} \subseteq Identifiers /\ c.column_id \in Nat
    /\ \A k \in d.constraints :
          /\ {k.owner, k.table, k.name} \subseteq Identifiers
          /\ k.columns \in Seq(Identifiers)
          /\ \A i, j \in DOMAIN k.columns : k.columns[i] = k.columns[j] => i = j
          /\ k.type = "R" => \E p \in d.constraints :
                p.owner = k.r_owner /\ p.name = k.r_constraint_name
                /\ Len(p.columns) = Len(k.columns)
    /\ \A g \in d.grants : g = <<g[1], g[2]>>
    /\ \A o, p \in d.objects : o.owner = p.owner /\ o.name = p.name => o = p
    /\ \A c, e \in d.columns :
          c.owner = e.owner /\ c.table = e.table /\ (c.name = e.name \/ c.column_id = e.column_id)
             => c = e
    /\ \A k, p \in d.constraints : k.owner = p.owner /\ k.name = p.name => k = p

---------------------------------------------------------------------------
(* The ALL_* views                                                         *)

Sees(d, owner, table) == <<owner, table>> \in d.grants

AllTables(d)      == {o \in d.objects : o.kind = "table" /\ Sees(d, o.owner, o.name)}
AllTabColumns(d)  == {c \in d.columns : Sees(d, c.owner, c.table)}
AllConstraints(d) == {c \in d.constraints : Sees(d, c.owner, c.table)}
AllConsColumns(d) ==
    UNION {{[owner |-> c.owner, constraint |-> c.name, column |-> c.columns[i],
             position |-> i] : i \in DOMAIN c.columns} : c \in AllConstraints(d)}

---------------------------------------------------------------------------
(* Pages                                                                   *)

Rank(name) == name.word + IF name.case = "lower" THEN MaxWord + 1 ELSE 0
Sooner(s, t) ==
    \E i \in DOMAIN s : s[i] < t[i] /\ \A j \in 1..(i - 1) : s[j] = t[j]

Row(order, item) == [order |-> order, item |-> item]
Before(r, rows) == Cardinality({q \in rows : Sooner(q.order, r.order)})
UpTo(r, rows)   == Cardinality({q \in rows : ~Sooner(r.order, q.order)})
RowAt(i, rows)  == CHOOSE r \in rows : Before(r, rows) < i /\ i <= UpTo(r, rows)
Ordered(rows)   == [i \in 1..Cardinality(rows) |-> RowAt(i, rows).item]

FetchMany(s, n) == SubSeq(s, 1, IF n < Len(s) THEN n ELSE Len(s))

(* Fault: the row beyond the limit is not asked for.                       *)
PageOfLimit(rows, limit) ==
    LET fetched == FetchMany(Ordered(rows), limit)
    IN  [status |-> "ok", items |-> fetched, truncated |-> Len(fetched) > limit]
Page(rows, limit) ==
    LET fetched == FetchMany(Ordered(rows), limit + 1)
    IN  [status |-> "ok", items |-> FetchMany(fetched, limit),
         truncated |-> Len(fetched) > limit]

---------------------------------------------------------------------------
(* Owners                                                                  *)

OwnerRefused(owner, cfg) ==
    cfg.allowed_owners # {} /\ Folded(owner) \notin cfg.allowed_owners

(* Fault: without an owner argument the grant is all that narrows.         *)
OwnerPredicateOfArgument(owner, cfg, column) ==
    owner # NoArg => column = Folded(owner)
OwnerPredicate(owner, cfg, column) ==
    IF owner # NoArg THEN column = Folded(owner)
    ELSE cfg.allowed_owners = {} \/ column \in cfg.allowed_owners

---------------------------------------------------------------------------
(* The six queries                                                         *)

TakesOwner == {"list_tables", "describe_table", "list_relationships", "get_constraints"}
Tools      == {"list_schemas", "find_columns"} \cup TakesOwner

ListSchemas(q, cfg, d) ==
    {Row(<<Rank(t.owner)>>, [owner |-> t.owner]) :
        t \in {x \in AllTables(d) : OwnerPredicate(NoArg, cfg, x.owner)}}

ListTables(q, cfg, d) ==
    {Row(<<Rank(t.name)>>, [table_name |-> t.name, comments |-> t.comments]) :
        t \in {x \in AllTables(d) : x.owner = Folded(q.owner)}}

DescribeTable(q, cfg, d) ==
    {Row(<<c.column_id>>,
         [column_name |-> c.name, nullable |-> c.nullable = "Y",
          data_default |-> c.data_default]) :
        c \in {x \in AllTabColumns(d) :
                 x.owner = Folded(q.owner) /\ x.table = Folded(q.table)}}

FindColumns(q, cfg, d) ==
    {Row(<<Rank(c.owner), Rank(c.table), Rank(c.name)>>,
         [owner |-> c.owner, table_name |-> c.table, column_name |-> c.name]) :
        c \in {x \in AllTabColumns(d) :
                 x.name \in q.pattern /\ OwnerPredicate(q.owner, cfg, x.owner)}}

ColumnsOf(c, d) ==
    {cc \in AllConsColumns(d) : cc.owner = c.owner /\ cc.constraint = c.name}
ReferredTo(c, d) ==
    {rc \in AllConstraints(d) : rc.owner = c.r_owner /\ rc.name = c.r_constraint_name}

(* Fault: the columns of the two keys are joined without their position.   *)
OppositeOfAny(cc, rc, d) == ColumnsOf(rc, d)
Opposite(cc, rc, d) == {rcc \in ColumnsOf(rc, d) : rcc.position = cc.position}

Relationship(c, cc, rc, rcc) ==
    Row(<<Rank(c.name), cc.position>>,
        [constraint_name |-> c.name, child_owner |-> c.owner, child_table |-> c.table,
         child_column |-> cc.column, parent_owner |-> rc.owner,
         parent_table |-> rc.table, parent_column |-> rcc.column])
ListRelationships(q, cfg, d) ==
    LET keys == {c \in AllConstraints(d) :
                    /\ c.type = "R" /\ c.owner = Folded(q.owner)
                    /\ q.table # NoArg => c.table = Folded(q.table)}
    IN  UNION {UNION {UNION {{Relationship(c, cc, rc, rcc) :
            rcc \in Opposite(cc, rc, d)} :
            rc \in ReferredTo(c, d)} :
            cc \in ColumnsOf(c, d)} :
            c \in keys}

Constraint(c, position, column) ==
    Row(<<Rank(c.name), position>>,
        [constraint_name |-> c.name, constraint_type |-> c.type, column_name |-> column,
         r_owner |-> c.r_owner, r_constraint_name |-> c.r_constraint_name])
(* The left join: a constraint on no column is one row.                    *)
ConstraintRows(c, d) ==
    IF ColumnsOf(c, d) = {} THEN {Constraint(c, 0, NoArg)}
    ELSE {Constraint(c, cc.position, cc.column) : cc \in ColumnsOf(c, d)}
GetConstraints(q, cfg, d) ==
    UNION {ConstraintRows(c, d) : c \in {x \in AllConstraints(d) :
                x.owner = Folded(q.owner) /\ x.table = Folded(q.table)}}

Select(q, cfg, d) ==
    CASE q.tool = "list_schemas"       -> ListSchemas(q, cfg, d)
      [] q.tool = "list_tables"        -> ListTables(q, cfg, d)
      [] q.tool = "describe_table"     -> DescribeTable(q, cfg, d)
      [] q.tool = "find_columns"       -> FindColumns(q, cfg, d)
      [] q.tool = "list_relationships" -> ListRelationships(q, cfg, d)
      [] q.tool = "get_constraints"    -> GetConstraints(q, cfg, d)

(* guard_owner comes before the query, for every tool given an owner.      *)
Guarded(q, cfg) == q.owner # NoArg => ~OwnerRefused(q.owner, cfg)
Answer(q, cfg, d) == Page(Select(q, cfg, d), cfg.max_rows)
=============================================================================
