---------------------------- MODULE SqlValidator -----------------------------
(***************************************************************************)
(* What validate_sql says of a draft, app/tools/sql_validator.py: the      *)
(* rewritten statement, or an error that the model may repair, or one that *)
(* it may not.                                                             *)
(*                                                                         *)
(* A statement is what the parser makes of the draft: a sequence of        *)
(* SELECTs, the branches of a UNION when there is more than one, under a   *)
(* WITH of its own.  A SELECT has a WITH and reads one source; the joins   *)
(* and the subqueries of a SELECT are read as its CTEs are.                *)
(***************************************************************************)
EXTENDS Naturals, SequencesExt

CONSTANTS
  Allowed,     \* ALLOWED_TABLES
  System,      \* names that begin with pg_
  Catalog,     \* information_schema, which is refused as the name of a CTE only
  Others,      \* any other name, of a table of the database or of none
  CteNames,    \* names that drafts give to CTEs
  Sources,     \* what drafts read: records [schema, name, call]
  MaxCtes,     \* bound on the CTEs of a WITH, in a query that is no UNION
  UnionCtes,   \* bound on those of each WITH in a UNION
  MaxBranches, \* bound on the branches of a UNION
  MaxRows,     \* settings.sql_max_rows
  None,        \* None of Python
  Computed     \* a LIMIT that is no literal: ALL, an expression

Names   == Allowed \cup System \cup Catalog \cup Others
Schemas == {None, "public", "system"}

Limits  == 0 .. MaxRows + 1 \cup {None, Computed}

ASSUME NamesAssumption ==
  /\ Allowed \cap (System \cup Catalog \cup Others) = {}
  /\ System \cap (Catalog \cup Others) = {} /\ Catalog \cap Others = {}
  /\ CteNames \subseteq Names
  /\ Sources \subseteq [schema : Schemas, name : Names, call : BOOLEAN]
ASSUME BoundsAssumption == {MaxCtes, UnionCtes, MaxBranches, MaxRows} \subseteq Nat

VARIABLES
  statement, \* what the parser returns
  stage,     \* the check that comes next
  verdict,   \* "pending", "ok", "retry" (retryable=True) or "final"
  limit      \* the LIMIT of the statement that is returned

vvars == <<statement, stage, verdict, limit>>

Withs(max)   == UNION {[1 .. n -> [name : CteNames, from : Sources]] : n \in 0 .. max}
Selects(max) == [with : Withs(max), from : Sources]

\* What a draft may be: nothing, no SQL, no single statement, no query, or a query,
\* with a construct or a function that is refused in it or without.
Kinds == {"empty", "unparsable", "several", "other", "query"}

Draft(kinds, refused, withs, n, max) ==
  statement \in [kind : kinds, refused : refused, limit : Limits, with : withs,
                 branches : [1 .. n -> Selects(max)]]

VInit ==
  /\ \/ Draft(Kinds, BOOLEAN, {<< >>}, 1, MaxCtes)
     \/ \E n \in 2 .. MaxBranches : Draft({"query"}, {FALSE}, Withs(UnionCtes), n, UnionCtes)
  /\ stage = "parse"
  /\ verdict = "pending"
  /\ limit = None

(***************************************************************************)
(* Scopes, as sqlglot's build_scope resolves them: a name without a schema *)
(* is a CTE that comes before it in its WITH, or one of a WITH around it.  *)
(***************************************************************************)
Defined(with)       == {with[i].name : i \in DOMAIN with}
DefinedBy(with, i)  == {with[j].name : j \in 1 .. i - 1}
Scope(from, within) == [from |-> from, visible |-> within]

WithScopes(with, around) ==
  {Scope(with[i].from, around \cup DefinedBy(with, i)) : i \in DOMAIN with}

Scopes ==
  LET root == Defined(statement.with) IN
  WithScopes(statement.with, {})
    \cup UNION {WithScopes(statement.branches[b].with, root)
                  \cup {Scope(statement.branches[b].from,
                              root \cup Defined(statement.branches[b].with))} :
                b \in DOMAIN statement.branches}

IsCte(scope) == scope.from.schema = None /\ ~scope.from.call /\ scope.from.name \in scope.visible

AllCtes == Defined(statement.with)
             \cup UNION {Defined(statement.branches[b].with) : b \in DOMAIN statement.branches}

\* Mutant of Tables: a name is a CTE if the statement has one of that name anywhere.
TablesByName ==
  {s.from : s \in {t \in Scopes : t.from.schema # None \/ t.from.call \/ t.from.name \notin AllCtes}}

Tables == {s.from : s \in {t \in Scopes : ~IsCte(t)}}

(***************************************************************************)
(* validate_sql, one check after another.                                  *)
(***************************************************************************)
Raise(v) == verdict' = v /\ stage' = "done" /\ UNCHANGED <<statement, limit>>
Pass(to) == stage' = to /\ UNCHANGED <<statement, verdict, limit>>

Parse ==
  /\ stage = "parse"
  /\ CASE statement.kind = "empty"      -> Raise("final")
       [] statement.kind = "unparsable" -> Raise("retry")
       [] OTHER                         -> Pass("root")

Root ==
  /\ stage = "root"
  /\ IF statement.kind \in {"several", "other"} THEN Raise("final") ELSE Pass("ctes")

\* A CTE may not have the name of an allowed table or of one of the system's.
NameCtes ==
  /\ stage = "ctes"
  /\ IF AllCtes \cap (Allowed \cup System \cup Catalog) # {} THEN Raise("final") ELSE Pass("walk")

Walk ==
  /\ stage = "walk"
  /\ IF statement.refused THEN Raise("final") ELSE Pass("tables")

\* Mutant of Fault: a schema is looked at only when the table is allowed.
FaultByName(t) ==
  IF t.call \/ (t.name \in Allowed /\ t.schema \notin {None, "public"}) THEN "final"
  ELSE IF t.name \in Allowed THEN "none"
  ELSE IF t.name \in System THEN "final" ELSE "retry"

\* _check_table: what is wrong with a table, if anything.
Fault(t) ==
  IF t.call \/ t.schema \notin {None, "public"} THEN "final"
  ELSE IF t.name \in Allowed THEN "none"
  ELSE IF t.schema # None \/ t.name \in System THEN "final" ELSE "retry"

\* The first table with a fault decides; the order is the parser's.
CheckTables ==
  /\ stage = "tables"
  /\ LET faults == {Fault(t) : t \in Tables} \ {"none"} IN
     IF faults = {} THEN Pass("limit") ELSE \E f \in faults : Raise(f)

WithinCap(n) == n \in 0 .. MaxRows

Clamp ==
  /\ stage = "limit"
  /\ limit' = IF WithinCap(statement.limit) THEN statement.limit ELSE MaxRows
  /\ verdict' = "ok"
  /\ stage' = "done"
  /\ UNCHANGED statement

VNext == Parse \/ Root \/ NameCtes \/ Walk \/ CheckTables \/ Clamp

VSpec == VInit /\ [][VNext]_vvars

(***************************************************************************)
(* What the database does with a statement.                                *)
(***************************************************************************)
\* env[name] = the tables that the CTE of that name reads, for those defined so far.
ReadBy(from, env) ==
  IF from.schema = None /\ ~from.call /\ from.name \in DOMAIN env THEN env[from.name] ELSE {from}

Bind(with, env) ==
  FoldLeft(LAMBDA e, cte : [n \in DOMAIN e \cup {cte.name} |->
                              IF n = cte.name THEN ReadBy(cte.from, e) ELSE e[n]],
           env, with)

TablesRead ==
  LET root == Bind(statement.with, [n \in {} |-> {}])
  IN UNION {ReadBy(s.from, Bind(s.with, root)) : s \in ToSet(statement.branches)}

InPublic(t) == ~t.call /\ t.schema \in {None, "public"}

(***************************************************************************)
(* Properties.                                                             *)
(***************************************************************************)
\* A draft that is accepted reads tables of the allowlist and nothing else, whatever
\* its CTEs hide where; a name of the allowlist is that table; and the statement has
\* the rows that its own literal LIMIT asks for, and never more than the cap.
AcceptedReadsAllowed ==
  verdict = "ok" =>
    /\ \A t \in TablesRead : InPublic(t) /\ t.name \in Allowed
    /\ \A s \in ToSet(statement.branches) : s.from.name \in Allowed => s.from \in TablesRead
    /\ limit \in 0 .. MaxRows
    /\ statement.limit \in 0 .. MaxRows => limit = statement.limit

\* The model gets a draft back only if it cannot be parsed, or for the sake of a table
\* outside the allowlist that is named without a schema and not like one of the
\* system's, in a statement with nothing else that is refused before its tables are
\* looked at: a write, a refused function, a CTE named like a table, a system table or
\* a schema is final, since "the agent must not ask the model to "repair" those".
\* Whether the database has that table is not asked: query_log and a bare
\* information_schema are given back like a misspelt name.
RetriedIsRepairable ==
  verdict = "retry" =>
    \/ statement.kind = "unparsable"
    \/ /\ statement.kind = "query"
       /\ ~statement.refused
       /\ AllCtes \subseteq Others
       /\ \E s \in Scopes :
            /\ s.from \in [schema : {None}, name : Others \cup Catalog, call : {FALSE}]
            /\ s.from.name \notin s.visible
==============================================================================
