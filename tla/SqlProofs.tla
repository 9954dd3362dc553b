------------------------------ MODULE SqlProofs ------------------------------
(***************************************************************************)
(* Proofs about SqlValidator and SqlAgent, for any tables, names and       *)
(* drafts, any runs and failures, and any bounds: what is accepted and     *)
(* what is retried; that prompts are fresh enough and that the audit tells *)
(* the outcome.                                                            *)
(***************************************************************************)
EXTENDS SqlValidator, SqlAgent, FoldFacts, TLAPS

(***************************************************************************)
(* SqlValidator.                                                           *)
(***************************************************************************)
\* A WITH and a statement as the parser makes them: the sources and the names of the
\* CTEs are of the kinds that drafts have.
IsWith(w) ==
  /\ \E n \in Nat : DOMAIN w = 1 .. n
  /\ \A i \in DOMAIN w : w[i] \in [name : CteNames, from : Sources]

Parsed ==
  /\ statement.kind \in Kinds
  /\ IsWith(statement.with)
  /\ \A b \in DOMAIN statement.branches :
       statement.branches[b].from \in Sources /\ IsWith(statement.branches[b].with)

LEMMA WithsAreCtes ==
  ASSUME NEW max \in Nat, NEW w \in Withs(max)
  PROVE  IsWith(w)
<1>1. PICK n \in 0 .. max : w \in [1 .. n -> [name : CteNames, from : Sources]]
  BY DEF Withs
<1> QED
  BY <1>1 DEF IsWith

LEMMA DraftsAreParsed ==
  ASSUME NEW kinds \in SUBSET Kinds, NEW refused, NEW max \in Nat, NEW k \in Nat,
         NEW withs \in {{<< >>}, Withs(max)}, NEW n \in Nat, Draft(kinds, refused, withs, n, k)
  PROVE  Parsed
<1>1. /\ statement.kind \in kinds
      /\ statement.with \in withs
      /\ statement.branches \in [1 .. n -> Selects(k)]
  BY DEF Draft
<1>2. IsWith(statement.with)
  <2>1. CASE withs = {<< >>}
    <3>1. statement.with = << >> /\ DOMAIN << >> = 1 .. 0
      BY <1>1, <2>1
    <3> QED
      BY <3>1 DEF IsWith
  <2>2. CASE withs = Withs(max)
    BY <1>1, <2>2, WithsAreCtes
  <2> QED
    BY <2>1, <2>2
<1>3. ASSUME NEW b \in DOMAIN statement.branches
      PROVE  statement.branches[b].from \in Sources /\ IsWith(statement.branches[b].with)
  <2>1. statement.branches[b] \in Selects(k)
    BY <1>1, <1>3
  <2>2. statement.branches[b].with \in Withs(k) /\ statement.branches[b].from \in Sources
    BY <2>1 DEF Selects
  <2> QED
    BY <2>2, WithsAreCtes
<1> QED
  BY <1>1, <1>2, <1>3 DEF Parsed

\* Names of CTEs, and the sources in the scopes, are of those kinds.
LEMMA KnownNames ==
  ASSUME Parsed
  PROVE  AllCtes \subseteq Names /\ \A s \in Scopes : s.from \in [schema : Schemas, name : Names, call : BOOLEAN]
<1>1. CteNames \subseteq Names /\ Sources \subseteq [schema : Schemas, name : Names, call : BOOLEAN]
  BY NamesAssumption
<1>2. AllCtes \subseteq CteNames
  BY DEF Parsed, IsWith, AllCtes, Defined
<1>3. ASSUME NEW s \in Scopes PROVE s.from \in Sources
  BY <1>3 DEF Parsed, IsWith, Scopes, WithScopes, Scope
<1> QED
  BY <1>1, <1>2, <1>3

\* The checks that a draft has passed when the next one begins.
Passed ==
  /\ Parsed
  /\ stage \in {"parse", "root", "ctes", "walk", "tables", "limit", "done"}
  /\ stage # "done" => verdict = "pending"
  /\ stage = "root" => statement.kind \in {"several", "other", "query"}
  /\ stage \in {"ctes", "walk", "tables", "limit"} => statement.kind = "query"
  /\ stage \in {"walk", "tables", "limit"} => AllCtes \subseteq Others
  /\ stage \in {"tables", "limit"} => ~statement.refused
  /\ RetriedIsRepairable

\* Every check keeps it: only Parse and CheckTables ever ask for a repair.
LEMMA StepPassed == Passed /\ [VNext]_vvars => Passed'
<1> SUFFICES ASSUME Passed, [VNext]_vvars PROVE Passed'
  OBVIOUS
<1>1. statement' = statement
  BY DEF VNext, vvars, Parse, Root, NameCtes, Walk, CheckTables, Clamp, Raise, Pass
<1>2. Parsed' /\ AllCtes' = AllCtes /\ Scopes' = Scopes
  BY <1>1 DEF Passed, Parsed, AllCtes, Defined, Scopes, WithScopes, Scope
<1>3. CASE Parse
  BY <1>1, <1>2, <1>3 DEF Passed, Parse, Raise, Pass, RetriedIsRepairable, Parsed, Kinds
<1>4. CASE Root
  BY <1>1, <1>2, <1>4 DEF Passed, Root, Raise, Pass, RetriedIsRepairable
<1>5. CASE NameCtes
  <2>1. AllCtes \cap (Allowed \cup System \cup Catalog) = {} => AllCtes \subseteq Others
    BY KnownNames DEF Passed, Names
  <2> QED
    BY <1>1, <1>2, <1>5, <2>1 DEF Passed, NameCtes, Raise, Pass, RetriedIsRepairable
<1>6. CASE Walk
  BY <1>1, <1>2, <1>6 DEF Passed, Walk, Raise, Pass, RetriedIsRepairable
<1>7. CASE CheckTables
  <2>1. ASSUME NEW t \in Tables, Fault(t) = "retry"
        PROVE  \E s \in Scopes :
                 /\ s.from \in [schema : {None}, name : Others \cup Catalog, call : {FALSE}]
                 /\ s.from.name \notin s.visible
    <3>1. PICK s \in Scopes : t = s.from /\ ~IsCte(s)
      BY <2>1 DEF Tables
    <3>2. t \in [schema : Schemas, name : Names, call : BOOLEAN]
      BY <3>1, KnownNames DEF Passed
    <3>3. t.schema = None /\ t.name \in Others \cup Catalog /\ t.call = FALSE
      BY <2>1, <3>2 DEF Fault, Names
    <3>4. t \in [schema : {None}, name : Others \cup Catalog, call : {FALSE}]
      BY <3>2, <3>3
    <3> QED
      BY <3>1, <3>3, <3>4 DEF IsCte
  <2>2. CASE Pass("limit")
    BY <1>1, <1>2, <1>7, <2>2 DEF Passed, CheckTables, Pass, RetriedIsRepairable
  <2>3. ASSUME NEW f \in {Fault(t) : t \in Tables} \ {"none"}, Raise(f) PROVE Passed'
    BY <1>1, <1>2, <1>7, <2>1, <2>3 DEF Passed, CheckTables, Raise, RetriedIsRepairable
  <2> QED
    BY <1>7, <2>2, <2>3 DEF CheckTables
<1>8. CASE Clamp
  BY <1>1, <1>2, <1>8 DEF Passed, Clamp, RetriedIsRepairable
<1>9. CASE UNCHANGED vvars
  BY <1>1, <1>2, <1>9 DEF Passed, vvars, RetriedIsRepairable
<1> QED
  BY <1>3, <1>4, <1>5, <1>6, <1>7, <1>8, <1>9 DEF VNext

LEMMA InitPassed == VInit => Passed
<1> SUFFICES ASSUME VInit PROVE Passed
  OBVIOUS
<1>. MaxCtes \in Nat /\ UnionCtes \in Nat
  BY BoundsAssumption
<1>1. CASE Draft(Kinds, BOOLEAN, {<< >>}, 1, MaxCtes)
  <2>1. Parsed
    BY <1>1, DraftsAreParsed
  <2> QED
    BY <2>1 DEF VInit, Passed, RetriedIsRepairable
<1>2. ASSUME NEW n \in 2 .. MaxBranches, Draft({"query"}, {FALSE}, Withs(UnionCtes), n, UnionCtes)
      PROVE  Passed
  <2>1. n \in Nat /\ {"query"} \subseteq Kinds
    BY <1>2, BoundsAssumption DEF Kinds
  <2>2. Parsed
    BY <1>2, <2>1, DraftsAreParsed
  <2> QED
    BY <2>2 DEF VInit, Passed, RetriedIsRepairable
<1> QED
  BY <1>1, <1>2 DEF VInit

\* For any tables and any draft: the model is asked to repair a draft only if it
\* cannot be parsed, or reads a table outside the allowlist that it names without a
\* schema and not like one of the system's, and is otherwise fine up to there
\* (SQLValidationError, retryable).
THEOREM OnlyRepairableRetried == VSpec => []RetriedIsRepairable
<1>1. Passed => RetriedIsRepairable
  BY DEF Passed
<1> QED
  BY <1>1, InitPassed, StepPassed, PTL DEF VSpec

(***************************************************************************)
(* What an accepted statement reads.                                       *)
(***************************************************************************)
\* The tables of CTEs: for some of their names, sets of tables.
Bindings == UNION {[D -> SUBSET Sources] : D \in SUBSET CteNames}

\* What a CTE adds to them.
Bound(e, cte) ==
  [n \in DOMAIN e \cup {cte.name} |-> IF n = cte.name THEN ReadBy(cte.from, e) ELSE e[n]]

LEMMA BoundIsBinding ==
  ASSUME NEW e \in Bindings, NEW cte \in [name : CteNames, from : Sources]
  PROVE  Bound(e, cte) \in Bindings
<1>1. PICK D \in SUBSET CteNames : e \in [D -> SUBSET Sources]
  BY DEF Bindings
<1>2. cte.name \in CteNames /\ cte.from \in Sources
  OBVIOUS
<1>3. ReadBy(cte.from, e) \in SUBSET Sources
  BY <1>1, <1>2 DEF ReadBy
<1>4. D \cup {cte.name} \in SUBSET CteNames
  BY <1>2
<1>5. Bound(e, cte) \in [D \cup {cte.name} -> SUBSET Sources]
  BY <1>1, <1>3 DEF Bound
<1>. QED
  BY <1>4, <1>5 DEF Bindings

\* Bind goes through the n CTEs in their order: acc[k] are the tables after k of them.
BindsInOrder(acc, n, with, env) ==
  /\ acc \in [0 .. n -> Bindings]
  /\ acc[0] = env
  /\ \A k \in 1 .. n : acc[k] = Bound(acc[k - 1], with[k])
  /\ Bind(with, env) = acc[n]

LEMMA BindAccumulates ==
  ASSUME NEW n \in Nat, NEW with, DOMAIN with = 1 .. n,
         \A i \in 1 .. n : with[i] \in [name : CteNames, from : Sources],
         NEW env \in Bindings
  PROVE  \E acc : BindsInOrder(acc, n, with, env)
<1>. DEFINE step == [kv \in (1 .. n) \X Bindings |-> Bound(kv[2], with[kv[1]])]
            Folds(g) == g = [t \in SUBSET (1 .. n) |->
                               IF t = {} THEN env ELSE Bound(g[t \ {Max(t)}], with[Max(t)])]
            iter == CHOOSE g : Folds(g)
<1>1. Bind(with, env) = iter[1 .. n]
  BY DEF Bind, FoldLeft, MapThenFoldSet, Bound
<1>2. \A k \in 1 .. n, v \in Bindings : step[<<k, v>>] = Bound(v, with[k])
  OBVIOUS
<1>3. StaysWithin(step, n, Bindings)
  BY <1>2, BoundIsBinding DEF StaysWithin
<1>. HIDE DEF step
<1>4. PICK g : IsFold(g, 1 .. n, Bindings, env, Largest(n), step)
  BY <1>3, SequenceFoldExists
<1>5. Folds(g)
  <2>1. ASSUME NEW t \in SUBSET (1 .. n), t # {}
        PROVE  step[<<Max(t), g[t \ {Max(t)}]>>] = Bound(g[t \ {Max(t)}], with[Max(t)])
    <3>1. Max(t) \in 1 .. n
      BY <2>1, Maximum
    <3>2. g[t \ {Max(t)}] \in Bindings
      BY <1>4 DEF IsFold
    <3>. QED
      BY <1>2, <3>1, <3>2
  <2>. QED
    BY <1>4, <2>1 DEF IsFold, Largest
<1>6. Folds(iter)
  BY <1>5
<1>. HIDE DEF iter
<1>7. /\ iter = [t \in SUBSET (1 .. n) |-> iter[t]]
      /\ iter[{}] = env
      /\ \A t \in SUBSET (1 .. n) : t # {} => iter[t] = Bound(iter[t \ {Max(t)}], with[Max(t)])
  BY <1>6
<1>8. ASSUME NEW t \in SUBSET (1 .. n), t # {}, iter[t \ {Max(t)}] \in Bindings
      PROVE  iter[t] = step[<<Max(t), iter[t \ {Max(t)}]>>]
  <2>1. Max(t) \in 1 .. n
    BY <1>8, Maximum
  <2>. QED
    BY <1>2, <1>7, <1>8, <2>1
<1>9. FoldsWithin(iter, n, Bindings, env, step)
  BY <1>7, <1>8 DEF FoldsWithin
<1>10. PICK acc : Accumulates(acc, n, Bindings, env, step) /\ acc[n] = iter[1 .. n]
  BY <1>3, <1>9, SequenceFoldIs
<1>11. ASSUME NEW k \in 1 .. n PROVE acc[k] = Bound(acc[k - 1], with[k])
  <2>1. k - 1 \in 0 .. n
    OBVIOUS
  <2>2. acc[k - 1] \in Bindings /\ acc[k] = step[<<k, acc[k - 1]>>]
    BY <1>10, <2>1 DEF Accumulates
  <2>. QED
    BY <1>2, <2>2
<1>. QED
  BY <1>1, <1>10, <1>11 DEF Accumulates, BindsInOrder

\* The sources that the allowlist lets through: their tables, and no function.
Good == {t \in Sources : InPublic(t) /\ t.name \in Allowed}

\* The tables that are read under the CTEs of env are good ones.
GoodBindings(env, around) ==
  env \in Bindings /\ DOMAIN env = around /\ \A n \in around : env[n] \subseteq Good

\* What is read in a scope whose source is a CTE or a good table is good.
LEMMA ReadsGood ==
  ASSUME NEW env, NEW around, GoodBindings(env, around), NEW from,
         IsCte(Scope(from, around)) \/ from \in Good
  PROVE  ReadBy(from, env) \subseteq Good
  BY DEF GoodBindings, IsCte, Scope, ReadBy

\* So are the tables of the CTEs of a WITH, and those alone are the names it defines.
LEMMA BindGood ==
  ASSUME NEW w, IsWith(w), NEW env, NEW around, GoodBindings(env, around),
         \A s \in WithScopes(w, around) : IsCte(s) \/ s.from \in Good
  PROVE  GoodBindings(Bind(w, env), around \cup Defined(w))
<1>1. PICK n \in Nat : DOMAIN w = 1 .. n
  BY DEF IsWith
<1>2. \A i \in 1 .. n : w[i] \in [name : CteNames, from : Sources]
  BY <1>1 DEF IsWith
<1>3. env \in Bindings
  BY DEF GoodBindings
<1>4. PICK acc : BindsInOrder(acc, n, w, env)
  BY <1>1, <1>2, <1>3, BindAccumulates
<1>. USE DEF BindsInOrder
<1>. DEFINE Upto(k) == around \cup DefinedBy(w, k + 1)
            T == {k \in 0 .. n : GoodBindings(acc[k], Upto(k))}
<1>5. 0 \in T
  <2>1. DefinedBy(w, 0 + 1) = {}
    BY DEF DefinedBy
  <2>2. Upto(0) = around
    BY <2>1
  <2>. HIDE DEF Upto
  <2>. QED
    BY <1>4, <2>2
<1>6. ASSUME NEW k \in 1 .. n, k - 1 \in T PROVE k \in T
  <2>. DEFINE e == acc[k - 1]
              cte == w[k]
  <2>1. GoodBindings(e, around \cup DefinedBy(w, k))
    <3>1. (k - 1) + 1 = k
      OBVIOUS
    <3>. QED
      BY <1>6, <3>1
  <2>2. Scope(cte.from, around \cup DefinedBy(w, k)) \in WithScopes(w, around)
    BY <1>1 DEF WithScopes
  <2>3. IsCte(Scope(cte.from, around \cup DefinedBy(w, k))) \/ cte.from \in Good
    BY <2>2 DEF Scope
  <2>4. ReadBy(cte.from, e) \subseteq Good
    BY <2>1, <2>3, ReadsGood
  <2>5. Upto(k) = (around \cup DefinedBy(w, k)) \cup {cte.name}
    <3>1. 1 .. (k + 1) - 1 = (1 .. k - 1) \cup {k}
      OBVIOUS
    <3>2. DefinedBy(w, k + 1) = DefinedBy(w, k) \cup {cte.name}
      BY <3>1 DEF DefinedBy
    <3>. QED
      BY <3>2
  <2>6. acc[k] = Bound(e, cte) /\ acc[k] \in Bindings /\ k \in 0 .. n
    BY <1>4
  <2>. HIDE DEF e, cte, Upto
  <2>7. DOMAIN Bound(e, cte) = Upto(k)
    BY <2>1, <2>5 DEF Bound, GoodBindings
  <2>8. \A m \in Upto(k) : Bound(e, cte)[m] \subseteq Good
    BY <2>1, <2>4, <2>5 DEF Bound, GoodBindings
  <2>. QED
    BY <2>6, <2>7, <2>8 DEF GoodBindings
<1>7. n \in T
  <2>. HIDE DEF T
  <2>1. \A k \in 1 .. n : k - 1 \in T => k \in T
    BY <1>6
  <2>. QED
    BY <1>5, <2>1, BoundedInduction
<1>8. Upto(n) = around \cup Defined(w)
  <2>1. (n + 1) - 1 = n
    OBVIOUS
  <2>. QED
    BY <1>1, <2>1 DEF DefinedBy, Defined
<1>. QED
  BY <1>4, <1>7, <1>8

\* The tables of an accepted draft, and the LIMIT that it got.
Accepted ==
  /\ stage = "limit" \/ verdict = "ok" =>
       AllCtes \subseteq Others /\ \A t \in Tables : Fault(t) = "none"
  /\ verdict = "ok" =>
       /\ limit \in 0 .. MaxRows
       /\ statement.limit \in 0 .. MaxRows => limit = statement.limit

LEMMA StepAccepted == Passed /\ Accepted /\ [VNext]_vvars => Accepted'
<1> SUFFICES ASSUME Passed, Accepted, [VNext]_vvars PROVE Accepted'
  OBVIOUS
<1>1. statement' = statement
  BY DEF VNext, vvars, Parse, Root, NameCtes, Walk, CheckTables, Clamp, Raise, Pass
<1>2. AllCtes' = AllCtes /\ Tables' = Tables
  BY <1>1 DEF AllCtes, Defined, Tables, Scopes, WithScopes, Scope, IsCte
<1>3. CASE Parse \/ Root \/ NameCtes \/ Walk
  <2>1. stage' # "limit" /\ verdict' # "ok"
    BY <1>3 DEF Passed, Parse, Root, NameCtes, Walk, Raise, Pass
  <2> QED
    BY <2>1 DEF Accepted
<1>4. CASE CheckTables
  <2>1. verdict' # "ok"
    BY <1>4 DEF Passed, CheckTables, Raise, Pass, Fault
  <2>2. stage' = "limit" => \A t \in Tables : Fault(t) = "none"
    BY <1>4 DEF CheckTables, Raise, Pass
  <2>3. AllCtes \subseteq Others
    BY <1>4 DEF Passed, CheckTables
  <2> QED
    BY <1>2, <2>1, <2>2, <2>3 DEF Accepted, Fault
<1>5. CASE Clamp
  <2>1. limit' = IF statement.limit \in 0 .. MaxRows THEN statement.limit ELSE MaxRows
    BY <1>5 DEF Clamp, WithinCap
  <2>2. MaxRows \in 0 .. MaxRows
    BY BoundsAssumption
  <2>3. AllCtes \subseteq Others /\ \A t \in Tables : Fault(t) = "none"
    BY <1>5 DEF Clamp, Accepted
  <2>4. limit' \in 0 .. MaxRows /\ (statement.limit \in 0 .. MaxRows => limit' = statement.limit)
    BY <2>1, <2>2
  <2> QED
    BY <1>1, <1>2, <2>3, <2>4 DEF Accepted, Fault
<1>6. CASE UNCHANGED vvars
  BY <1>1, <1>2, <1>6 DEF Accepted, vvars, Fault
<1> QED
  BY <1>3, <1>4, <1>5, <1>6 DEF VNext

\* What has been accepted reads good tables only.
LEMMA AcceptedReads ==
  ASSUME Parsed, AllCtes \subseteq Others, \A t \in Tables : Fault(t) = "none"
  PROVE  /\ TablesRead \subseteq Good
         /\ \A s \in ToSet(statement.branches) : s.from.name \in Allowed => s.from \in TablesRead
<1>. DEFINE none == [n \in {} |-> {}]
            root == Bind(statement.with, none)
            defined == Defined(statement.with)
<1>1. ASSUME NEW s \in Scopes PROVE IsCte(s) \/ s.from \in Good
  <2>1. s.from \in Sources
    BY <1>1 DEF Parsed, IsWith, Scopes, WithScopes, Scope
  <2>2. ~IsCte(s) => Fault(s.from) = "none"
    BY <1>1 DEF Tables
  <2> QED
    BY <2>1, <2>2 DEF Fault, Good, InPublic
<1>2. GoodBindings(none, {})
  <2>1. none \in [{} -> SUBSET Sources]
    OBVIOUS
  <2>2. {} \in SUBSET CteNames
    OBVIOUS
  <2>3. none \in Bindings
    BY <2>1, <2>2 DEF Bindings
  <2> QED
    BY <2>3 DEF GoodBindings
<1>. HIDE DEF none
<1>3. GoodBindings(root, defined)
  <2>1. \A s \in WithScopes(statement.with, {}) : IsCte(s) \/ s.from \in Good
    BY <1>1 DEF Scopes
  <2>2. GoodBindings(root, {} \cup defined)
    BY <1>2, <2>1, BindGood DEF Parsed
  <2>3. {} \cup defined = defined
    OBVIOUS
  <2> QED
    BY <2>2, <2>3
<1>. HIDE DEF root
<1>4. ASSUME NEW b \in DOMAIN statement.branches
      PROVE  LET s == statement.branches[b] IN
             /\ ReadBy(s.from, Bind(s.with, root)) \subseteq Good
             /\ s.from.name \in Allowed => ReadBy(s.from, Bind(s.with, root)) = {s.from}
  <2>. DEFINE s == statement.branches[b]
              around == defined \cup Defined(s.with)
              env == Bind(s.with, root)
  <2>1. \A t \in WithScopes(s.with, defined) : IsCte(t) \/ t.from \in Good
    BY <1>1 DEF Scopes
  <2>2. GoodBindings(env, around)
    BY <1>3, <2>1, BindGood DEF Parsed
  <2>3. Scope(s.from, around) \in Scopes
    <3>1. Scope(s.from, around)
            \in WithScopes(s.with, defined) \cup {Scope(s.from, defined \cup Defined(s.with))}
      OBVIOUS
    <3> QED
      BY <3>1, Zenon DEF Scopes
  <2>4. IsCte(Scope(s.from, around)) \/ s.from \in Good
    BY <1>1, <2>3 DEF Scope
  <2>5. around \subseteq AllCtes
    BY DEF AllCtes
  <2>. HIDE DEF env, around
  <2>6. ReadBy(s.from, env) \subseteq Good
    BY <2>2, <2>4, ReadsGood
  <2>7. s.from.name \in Allowed => s.from.name \notin around
    BY <2>5, NamesAssumption
  <2>8. s.from.name \in Allowed => ReadBy(s.from, env) = {s.from}
    BY <2>2, <2>7 DEF ReadBy, GoodBindings
  <2> QED
    BY <2>6, <2>8 DEF env
<1>5. TablesRead = UNION {ReadBy(s.from, Bind(s.with, root)) : s \in ToSet(statement.branches)}
  BY DEF TablesRead, root, none
<1>6. \A s \in ToSet(statement.branches) : \E b \in DOMAIN statement.branches : s = statement.branches[b]
  BY DEF ToSet
<1> QED
  BY <1>4, <1>5, <1>6

\* For any tables, names, CTEs and unions: an accepted draft reads tables of the
\* allowlist and nothing else, whatever its CTEs hide where; a name of the allowlist is
\* that table; and the rows are capped as its literal LIMIT asks (validate_sql).
THEOREM AcceptedIsAllowed == VSpec => []AcceptedReadsAllowed
<1>1. VInit => Passed /\ Accepted
  BY InitPassed DEF VInit, Accepted
<1>2. Passed /\ Accepted /\ [VNext]_vvars => (Passed /\ Accepted)'
  BY StepPassed, StepAccepted
<1>3. Passed /\ Accepted => AcceptedReadsAllowed
  BY AcceptedReads DEF Passed, Accepted, AcceptedReadsAllowed, Good
<1> QED
  BY <1>1, <1>2, <1>3, PTL DEF VSpec

(***************************************************************************)
(* SqlAgent.                                                               *)
(***************************************************************************)
LEMMA Bounds ==
  /\ TTL \in Nat /\ MaxClock \in Nat /\ MaxMigrations \in Nat /\ MaxAttempts \in Nat \ {0}
  /\ MaxFailures \in Nat /\ MaxModelFailures \in Nat /\ MaxAuditFailures \in Nat
  BY TimeAssumption, AttemptsAssumption, FailuresAssumption

USE Bounds DEF Versions, Attempts

(***************************************************************************)
(* Types.                                                                  *)
(***************************************************************************)
\* A row that names a draft keeps the type of the audit (_log_query).
LEMMA LogTypes ==
  ASSUME TypeOK, NEW r \in Runs, NEW s \in Drafts \cup {NoValue}, NEW status \in Statuses,
         Log(r, s, status)
  PROVE  query_log' \in [Runs -> Seq(Row)] /\ auditFailures' \in 0 .. MaxAuditFailures
<1>1. [sql |-> s, status |-> status] \in Row
  BY DEF Row
<1>2. Append(query_log[r], [sql |-> s, status |-> status]) \in Seq(Row)
  BY <1>1 DEF TypeOK
<1>3. MaxAuditFailures \in Nat
  BY FailuresAssumption
<1>4. query_log' \in [Runs -> Seq(Row)]
  BY <1>2 DEF Log, TypeOK
<1>5. auditFailures' \in 0 .. MaxAuditFailures
  BY <1>3 DEF Log, TypeOK
<1> QED
  BY <1>4, <1>5

\* A run that goes on or gives up keeps the types of its place (the for loop).
LEMMA AgainTypes ==
  ASSUME TypeOK, NEW r \in Runs, Again(r)
  PROVE  /\ pc' \in [Runs -> Labels]
         /\ attempt' \in [Runs -> 0 .. MaxAttempts]
         /\ outcome' \in [Runs -> Outcomes]
<1>1. CASE attempt[r] < MaxAttempts
  <2>1. attempt[r] \in 0 .. MaxAttempts /\ attempt[r] + 1 \in 0 .. MaxAttempts
    BY <1>1 DEF TypeOK
  <2>2. /\ pc' = [pc EXCEPT ![r] = "look"]
        /\ attempt' = [attempt EXCEPT ![r] = attempt[r] + 1]
        /\ outcome' = outcome
    BY <1>1 DEF Again
  <2>3. "look" \in Labels
    BY DEF Labels
  <2> QED
    BY <2>1, <2>2, <2>3 DEF TypeOK
<1>2. CASE ~(attempt[r] < MaxAttempts)
  BY <1>2 DEF Again, End, TypeOK, Labels, Outcomes
<1> QED
  BY <1>1, <1>2

\* A draft that is kept keeps the type of the drafts.
LEMMA AnsweredTypes ==
  ASSUME TypeOK, NEW r \in Runs, NEW d \in Drafts, Answered(r, d)
  PROVE  drafts' \in [Runs -> [Attempts -> Drafts \cup {NoValue}]]
  BY DEF Answered, TypeOK

\* Every step of run_sql_agent, of the clock and of a migration keeps the types.
LEMMA StepTypes == TypeOK /\ [Next]_vars => TypeOK'
<1> SUFFICES ASSUME TypeOK, [Next]_vars PROVE TypeOK'
  OBVIOUS
<1> USE DEF shared, faults
<1>1. CASE Tick
  BY <1>1 DEF Tick, TypeOK
<1>2. CASE Migrate
  BY <1>2 DEF Migrate, TypeOK, Forever
<1>3. ASSUME NEW r \in Runs, Step(r) PROVE TypeOK'
  <2>1. CASE RefuseWrite(r)
    <3>1. query_log' \in [Runs -> Seq(Row)] /\ auditFailures' \in 0 .. MaxAuditFailures
      BY <2>1, LogTypes DEF RefuseWrite, Statuses
    <3> QED
      BY <2>1, <3>1 DEF RefuseWrite, End, TypeOK, Labels, Outcomes
  <2>2. CASE Start(r)
    BY <2>2, AgainTypes DEF Start, TypeOK
  <2>3. CASE Look(r)
    <3>1. cache # NoValue => cache.version \in Versions
      BY DEF TypeOK, Entry
    <3> QED
      BY <2>3, <3>1 DEF Look, GoTo, TypeOK, Labels
  <2>4. CASE Build(r)
    BY <2>4 DEF Build, GoTo, TypeOK, Labels
  <2>5. CASE Save(r)
    <3>1. [at |-> now[r], version |-> prompt[r]] \in Entry
      BY DEF TypeOK, Entry
    <3> QED
      BY <2>5, <3>1 DEF Save, GoTo, TypeOK, Labels
  <2>6. ASSUME NEW d \in Valid, Generate(r, d) PROVE TypeOK'
    <3>1. drafts' \in [Runs -> [Attempts -> Drafts \cup {NoValue}]]
      BY <2>6, AnsweredTypes DEF Generate, Drafts
    <3> QED
      BY <2>6, <3>1 DEF Generate, GoTo, TypeOK, Labels
  <2>7. ASSUME NEW d \in Fixable \cup Forbidden, Reject(r, d) PROVE TypeOK'
    <3>1. drafts' \in [Runs -> [Attempts -> Drafts \cup {NoValue}]]
      BY <2>7, AnsweredTypes DEF Reject, Drafts
    <3>2. query_log' \in [Runs -> Seq(Row)] /\ auditFailures' \in 0 .. MaxAuditFailures
      BY <2>7, LogTypes DEF Reject, Drafts, Statuses
    <3>3. /\ pc' \in [Runs -> Labels]
          /\ attempt' \in [Runs -> 0 .. MaxAttempts]
          /\ outcome' \in [Runs -> Outcomes]
      <4>1. CASE d \in Fixable
        BY <4>1, <2>7, AgainTypes DEF Reject
      <4>2. CASE d \notin Fixable
        BY <4>2, <2>7 DEF Reject, End, TypeOK, Labels, Outcomes
      <4> QED BY <4>1, <4>2
    <3> QED
      BY <2>7, <3>1, <3>2, <3>3 DEF Reject, TypeOK
  <2>8. CASE ModelFails(r)
    BY <2>8 DEF ModelFails, End, TypeOK, Labels, Outcomes
  <2>9. CASE Execute(r)
    <3>1. query_log' \in [Runs -> Seq(Row)] /\ auditFailures' \in 0 .. MaxAuditFailures
      BY <2>9, LogTypes DEF Execute, TypeOK, Drafts, Statuses
    <3> QED
      BY <2>9, <3>1 DEF Execute, End, TypeOK, Labels, Outcomes
  <2>10. CASE DatabaseFails(r)
    <3>1. query_log' \in [Runs -> Seq(Row)] /\ auditFailures' \in 0 .. MaxAuditFailures
      BY <2>10, LogTypes DEF DatabaseFails, TypeOK, Drafts, Statuses
    <3>2. /\ pc' \in [Runs -> Labels]
          /\ attempt' \in [Runs -> 0 .. MaxAttempts]
          /\ outcome' \in [Runs -> Outcomes]
      BY <2>10, AgainTypes DEF DatabaseFails
    <3> QED
      BY <2>10, <3>1, <3>2 DEF DatabaseFails, TypeOK
  <2> QED
    BY <1>3, <2>1, <2>2, <2>3, <2>4, <2>5, <2>6, <2>7, <2>8, <2>9, <2>10 DEF Step
<1>4. CASE UNCHANGED vars
  BY <1>4 DEF vars, TypeOK
<1> QED
  BY <1>1, <1>2, <1>3, <1>4 DEF Next

LEMMA InitTypes == Init => TypeOK
  BY DEF Init, TypeOK, Labels, Outcomes, Forever, Drafts

\* Runs, cache, audit and history keep their types, for any number of runs.
THEOREM TypeCorrect == Spec => []TypeOK
  BY InitTypes, StepTypes, PTL DEF Spec

(***************************************************************************)
(* Fresh prompts.                                                          *)
(***************************************************************************)
\* The schema that was live at time t or later.
Since(v, t) == replaced[v] >= t

\* The live schema has not been replaced; no run has looked the cache up in the
\* future; what is read after a look-up, and what is cached, was live at the time
\* the entry bears.
FreshInv ==
  /\ \A v \in Versions : v >= schema => replaced[v] = Forever
  /\ \A r \in Runs : now[r] <= clock
  /\ \A r \in Runs : pc[r] = "save" => Since(prompt[r], now[r])
  /\ cache # NoValue => cache.at <= clock /\ Since(cache.version, cache.at)
  /\ SchemaFreshEnough

\* A step that leaves the clock, the schema, the cache and the prompts alone, and
\* sends no run to save or to generate, keeps the invariant.
LEMMA FreshStutter ==
  ASSUME FreshInv, UNCHANGED <<shared, now, prompt>>,
         \A u \in Runs : pc'[u] \in {"save", "generate"} => pc'[u] = pc[u]
  PROVE  FreshInv'
  BY DEF FreshInv, SchemaFreshEnough, Since, shared

LEMMA AgainLabels ==
  ASSUME TypeOK, NEW r \in Runs, Again(r)
  PROVE  \A u \in Runs : pc'[u] \in {"save", "generate"} => pc'[u] = pc[u]
  BY DEF Again, End, TypeOK

LEMMA EndLabels ==
  ASSUME TypeOK, NEW r \in Runs, NEW result, End(r, result)
  PROVE  \A u \in Runs : pc'[u] \in {"save", "generate"} => pc'[u] = pc[u]
  BY DEF End, TypeOK

LEMMA StepFresh ==
  ASSUME TTL > 0, TypeOK, FreshInv, [Next]_vars
  PROVE  FreshInv'
<1> USE DEF shared, faults
<1>1. CASE Tick
  BY <1>1 DEF Tick, FreshInv, SchemaFreshEnough, Since, TypeOK, Entry
<1>2. CASE Migrate
  <2>1. /\ schema \in Versions /\ schema' = schema + 1 /\ clock \in Nat
        /\ replaced' = [replaced EXCEPT ![schema] = clock]
        /\ UNCHANGED <<clock, cache, pc, now, prompt>>
    BY <1>2 DEF Migrate, TypeOK
  <2>2. \A v \in Versions : replaced'[v] = IF v = schema THEN clock ELSE replaced[v]
    BY <2>1 DEF TypeOK
  <2>3. /\ \A v \in Versions : replaced[v] \in Nat
        /\ \A r \in Runs : now[r] \in Nat /\ prompt[r] \in Versions
        /\ cache # NoValue => cache.at \in Nat /\ cache.version \in Versions
    BY DEF TypeOK, Entry, Forever
  <2>4. \A v \in Versions : v >= schema' => replaced'[v] = Forever
    BY <2>1, <2>2 DEF FreshInv
  <2>5. \A r \in Runs : pc'[r] = "save" => Since(prompt[r], now[r])'
    BY <2>1, <2>2, <2>3 DEF FreshInv, Since
  <2>6. cache' # NoValue => cache'.at <= clock' /\ Since(cache.version, cache.at)'
    BY <2>1, <2>2, <2>3 DEF FreshInv, Since
  <2>7. SchemaFreshEnough'
    BY <2>1, <2>2, <2>3 DEF FreshInv, SchemaFreshEnough
  <2> QED
    BY <2>1, <2>4, <2>5, <2>6, <2>7 DEF FreshInv
<1>3. ASSUME NEW r \in Runs, Step(r) PROVE FreshInv'
  <2>1. CASE RefuseWrite(r) \/ ModelFails(r) \/ Execute(r)
    BY <2>1, FreshStutter, EndLabels DEF RefuseWrite, ModelFails, Execute
  <2>2. CASE Start(r) \/ DatabaseFails(r)
    BY <2>2, FreshStutter, AgainLabels DEF Start, DatabaseFails
  <2>3. CASE Look(r)
    <3>1. /\ now' = [now EXCEPT ![r] = clock]
          /\ UNCHANGED <<clock, schema, cache, replaced>>
          /\ \A u \in Runs \ {r} : pc'[u] = pc[u] /\ prompt'[u] = prompt[u] /\ now'[u] = now[u]
          /\ now'[r] = clock /\ pc'[r] \in {"build", "generate"}
          /\ pc'[r] = "generate" =>
               cache # NoValue /\ clock < cache.at + TTL /\ prompt'[r] = cache.version
      BY <2>3 DEF Look, GoTo, TypeOK
    <3>2. /\ \A v \in Versions : replaced[v] \in Nat
          /\ clock \in Nat
          /\ cache # NoValue => cache.at \in Nat /\ cache.version \in Versions
      BY DEF TypeOK, Entry, Forever
    <3>3. \A u \in Runs : now'[u] <= clock'
      BY <3>1, <3>2 DEF FreshInv
    <3>4. \A u \in Runs : pc'[u] = "save" => Since(prompt[u], now[u])'
      BY <3>1 DEF FreshInv, Since
    <3>5. pc'[r] = "generate" => replaced'[prompt'[r]] + TTL > now'[r]
      BY <3>1, <3>2 DEF FreshInv, Since
    <3>6. SchemaFreshEnough'
      BY <3>1, <3>5 DEF FreshInv, SchemaFreshEnough
    <3> QED
      BY <3>1, <3>3, <3>4, <3>6 DEF FreshInv, Since
  <2>4. CASE Build(r)
    <3>1. /\ UNCHANGED <<clock, schema, cache, replaced, now>>
          /\ \A u \in Runs \ {r} : pc'[u] = pc[u] /\ prompt'[u] = prompt[u]
          /\ pc'[r] = "save" /\ prompt'[r] = schema /\ schema \in Versions
      BY <2>4 DEF Build, GoTo, TypeOK
    <3>2. clock \in 0 .. MaxClock /\ now[r] \in Nat /\ now[r] <= clock
      BY DEF TypeOK, FreshInv
    <3>3. Since(prompt[r], now[r])'
      BY <3>1, <3>2 DEF FreshInv, Since, Forever
    <3>4. \A u \in Runs : pc'[u] = "save" => Since(prompt[u], now[u])'
      BY <3>1, <3>3 DEF FreshInv, Since
    <3>5. SchemaFreshEnough'
      BY <3>1 DEF FreshInv, SchemaFreshEnough
    <3> QED
      BY <3>1, <3>4, <3>5 DEF FreshInv, Since
  <2>5. CASE Save(r)
    <3>1. /\ UNCHANGED <<clock, schema, replaced, now, prompt>>
          /\ cache' = [at |-> now[r], version |-> prompt[r]]
          /\ \A u \in Runs \ {r} : pc'[u] = pc[u]
          /\ pc[r] = "save" /\ pc'[r] = "generate"
      BY <2>5 DEF Save, GoTo, TypeOK
    <3>2. now[r] \in Nat /\ replaced[prompt[r]] \in Nat /\ now[r] <= clock
      BY DEF TypeOK, FreshInv, Forever
    <3>3. Since(prompt[r], now[r])
      BY <3>1 DEF FreshInv
    <3>4. cache'.at <= clock' /\ Since(cache.version, cache.at)'
      BY <3>1, <3>2, <3>3 DEF Since
    <3>5. SchemaFreshEnough'
      BY <3>1, <3>2, <3>3 DEF FreshInv, SchemaFreshEnough, Since
    <3>6. \A u \in Runs : pc'[u] = "save" => Since(prompt[u], now[u])'
      BY <3>1 DEF FreshInv, Since
    <3> QED
      BY <3>1, <3>4, <3>5, <3>6 DEF FreshInv
  <2>6. ASSUME NEW d \in Valid, Generate(r, d) PROVE FreshInv'
    BY <2>6, FreshStutter DEF Generate, GoTo, TypeOK
  <2>7. ASSUME NEW d \in Fixable \cup Forbidden, Reject(r, d) PROVE FreshInv'
    BY <2>7, FreshStutter, AgainLabels, EndLabels DEF Reject
  <2> QED
    BY <1>3, <2>1, <2>2, <2>3, <2>4, <2>5, <2>6, <2>7 DEF Step
<1>4. CASE UNCHANGED vars
  BY <1>4, FreshStutter DEF vars
<1> QED
  BY <1>1, <1>2, <1>3, <1>4 DEF Next

LEMMA InitFresh == Init => FreshInv
  BY DEF Init, FreshInv, SchemaFreshEnough, Since, Forever

\* Whichever run saves last, and however slow it is, no prompt is made from a schema
\* that had been replaced for the lifetime of the cache before it was looked up
\* (schema_prompt), provided that entries live at all.
THEOREM FreshPrompts ==
  ASSUME TTL > 0
  PROVE  Spec => []SchemaFreshEnough
<1>1. Init => TypeOK /\ FreshInv
  BY InitTypes, InitFresh
<1>2. TypeOK /\ FreshInv /\ [Next]_vars => (TypeOK /\ FreshInv)'
  BY StepTypes, StepFresh
<1>3. FreshInv => SchemaFreshEnough
  BY DEF FreshInv
<1> QED
  BY <1>1, <1>2, <1>3, PTL DEF Spec

(***************************************************************************)
(* The audit.                                                              *)
(***************************************************************************)
Running(r) == pc[r] \in {"look", "build", "save", "generate", "execute"}

\* What AuditTellsTheOutcome says of one run.
Tells(r) ==
  /\ \A i \in 1 .. attempt[r] - 1 : drafts[r][i] \notin Forbidden
  /\ outcome[r] = "ok" => drafts[r][attempt[r]] \in Valid
  /\ \A i \in DOMAIN query_log[r] :
       query_log[r][i].status = "ok" =>
         /\ i = Len(query_log[r])
         /\ outcome[r] = "ok"
         /\ query_log[r][i].sql = drafts[r][attempt[r]]
  /\ auditFailures = 0 =>
       \A i \in DOMAIN query_log[r] :
         \/ query_log[r][i].sql = drafts[r][i]
         \/ drafts[r][i] = NoValue /\ query_log[r][i].status = "error"

\* A run that has not ended has no row of success; while every row is written, it has
\* one for each attempt behind it; and it has no draft beyond the one it is at.
Place(r) ==
  /\ pc[r] = "new" => attempt[r] = 0 /\ query_log[r] = << >>
  /\ Running(r) => attempt[r] >= 1
  /\ Running(r) /\ auditFailures = 0 => Len(query_log[r]) = attempt[r] - 1
  /\ pc[r] # "ended" =>
       /\ outcome[r] = "pending"
       /\ \A i \in DOMAIN query_log[r] : query_log[r][i].status # "ok"
  /\ \A i \in Attempts : i > attempt[r] => drafts[r][i] = NoValue
  /\ pc[r] \in {"look", "build", "save", "generate"} => drafts[r][attempt[r]] = NoValue
  /\ pc[r] = "execute" => sql[r] \in Valid /\ drafts[r][attempt[r]] = sql[r]

AuditInv == \A r \in Runs : Place(r) /\ Tells(r)

\* The steps of other runs leave the story of a run as it is.
LEMMA OtherRun ==
  ASSUME NEW r, Place(r), Tells(r), auditFailures' = 0 => auditFailures = 0,
         pc'[r] = pc[r], attempt'[r] = attempt[r], sql'[r] = sql[r],
         outcome'[r] = outcome[r], query_log'[r] = query_log[r], drafts'[r] = drafts[r]
  PROVE  Place(r)' /\ Tells(r)'
  BY DEF Place, Tells, Running

\* A row is added at the end or is lost, and then the audit is known to have failed.
LEMMA Logged ==
  ASSUME TypeOK, NEW r \in Runs, NEW s, NEW status, Log(r, s, status)
  PROVE  /\ \/ /\ query_log'[r] = Append(query_log[r], [sql |-> s, status |-> status])
               /\ auditFailures' = auditFailures
            \/ query_log'[r] = query_log[r] /\ auditFailures' # 0
         /\ auditFailures' = 0 => auditFailures = 0
         /\ \A u \in Runs \ {r} : query_log'[u] = query_log[u]
  BY DEF Log, TypeOK

\* The attempts of a run that goes on or gives up.
LEMMA WentOn ==
  ASSUME TypeOK, NEW r \in Runs, Again(r)
  PROVE  /\ \/ /\ pc'[r] = "look" /\ attempt'[r] = attempt[r] + 1 /\ attempt[r] + 1 \in Attempts
               /\ outcome'[r] = outcome[r]
            \/ pc'[r] = "ended" /\ attempt'[r] = attempt[r] /\ outcome'[r] = "invalid"
         /\ \A u \in Runs \ {r} : pc'[u] = pc[u] /\ attempt'[u] = attempt[u] /\ outcome'[u] = outcome[u]
  BY DEF Again, End, TypeOK

\* An attempt that failed: its row is written or lost, its draft is kept if there was
\* one, and the run goes on, if the draft was not forbidden, or ends.
LEMMA AttemptFailed ==
  ASSUME TypeOK, NEW r \in Runs, Running(r), Place(r), Tells(r),
         NEW s \in Drafts \cup {NoValue}, NEW status \in {"rejected", "error"}, Log(r, s, status),
         NEW d \in Drafts \cup {NoValue}, drafts'[r] = [drafts[r] EXCEPT ![attempt[r]] = d],
         s = d \/ (d = NoValue /\ status = "error"),
         sql'[r] = sql[r],
         \/ /\ pc'[r] = "look" /\ attempt'[r] = attempt[r] + 1 /\ attempt[r] + 1 \in Attempts
            /\ outcome'[r] = outcome[r] /\ d \notin Forbidden
         \/ pc'[r] = "ended" /\ attempt'[r] = attempt[r] /\ outcome'[r] = "invalid"
  PROVE  Place(r)' /\ Tells(r)'
<1> DEFINE log == query_log[r]
           a   == attempt[r]
           row == [sql |-> s, status |-> status]
<1>1. log \in Seq(Row) /\ a \in 1 .. MaxAttempts /\ drafts[r] \in [Attempts -> Drafts \cup {NoValue}]
  BY DEF TypeOK, Place
<1>2. /\ \/ query_log'[r] = Append(log, row) /\ auditFailures' = auditFailures
         \/ query_log'[r] = log /\ auditFailures' # 0
      /\ auditFailures' = 0 => auditFailures = 0 /\ query_log'[r] = Append(log, row)
  BY Logged
<1>3. \A i \in DOMAIN query_log'[r] : query_log'[r][i].status # "ok"
  <2>1. \A i \in DOMAIN log : log[i].status # "ok"
    BY DEF Running, Place
  <2>2. CASE query_log'[r] = log
    BY <2>1, <2>2
  <2>3. CASE query_log'[r] = Append(log, row)
    <3>1. DOMAIN query_log'[r] = 1 .. Len(log) + 1 /\ query_log'[r][Len(log) + 1] = row
      BY <2>3, <1>1
    <3>2. \A i \in 1 .. Len(log) : i \in DOMAIN log /\ query_log'[r][i] = log[i]
      BY <2>3, <1>1
    <3> QED
      BY <2>1, <3>1, <3>2
  <2> QED
    BY <1>2, <2>2, <2>3
<1>4. /\ drafts'[r][a] = d
      /\ \A i \in Attempts \ {a} : drafts'[r][i] = drafts[r][i]
  BY <1>1
<1>5. auditFailures' = 0 =>
        /\ Len(query_log'[r]) = a
        /\ \A i \in DOMAIN query_log'[r] :
             \/ query_log'[r][i].sql = drafts'[r][i]
             \/ drafts'[r][i] = NoValue /\ query_log'[r][i].status = "error"
  <2> SUFFICES ASSUME auditFailures' = 0
               PROVE  /\ Len(query_log'[r]) = a
                      /\ \A i \in DOMAIN query_log'[r] :
                           \/ query_log'[r][i].sql = drafts'[r][i]
                           \/ drafts'[r][i] = NoValue /\ query_log'[r][i].status = "error"
    OBVIOUS
  <2>1. auditFailures = 0 /\ query_log'[r] = Append(log, row) /\ Len(log) = a - 1
    BY <1>2 DEF Place
  <2>2. /\ Len(query_log'[r]) = a /\ DOMAIN query_log'[r] = 1 .. a /\ query_log'[r][a] = row
        /\ \A i \in 1 .. a - 1 : i \in DOMAIN log /\ query_log'[r][i] = log[i]
    BY <1>1, <2>1
  <2>3. \A i \in 1 .. a - 1 :
          \/ query_log'[r][i].sql = drafts'[r][i]
          \/ drafts'[r][i] = NoValue /\ query_log'[r][i].status = "error"
    BY <1>1, <1>4, <2>1, <2>2 DEF Tells
  <2>4. \/ query_log'[r][a].sql = drafts'[r][a]
        \/ drafts'[r][a] = NoValue /\ query_log'[r][a].status = "error"
    BY <1>4, <2>2
  <2>5. \A i \in DOMAIN query_log'[r] : i = a \/ i \in 1 .. a - 1
    BY <1>1, <2>2
  <2> QED
    BY <2>2, <2>3, <2>4, <2>5
<1>6. Tells(r)'
  <2>1. \A i \in 1 .. attempt'[r] - 1 : drafts'[r][i] \notin Forbidden
    BY <1>1, <1>4 DEF Tells
  <2>2. outcome'[r] # "ok"
    BY DEF Running, Place
  <2> QED
    BY <1>3, <1>5, <2>1, <2>2 DEF Tells
<1>7. Place(r)'
  <2>1. \A i \in Attempts : i > attempt'[r] => drafts'[r][i] = NoValue
    BY <1>1, <1>4 DEF Place
  <2>2. CASE pc'[r] = "look"
    <3>1. drafts'[r][attempt'[r]] = NoValue
      BY <1>1, <1>4, <2>2 DEF Place
    <3> QED
      BY <1>1, <1>3, <1>5, <2>1, <2>2, <3>1 DEF Place, Running
  <2>3. CASE pc'[r] = "ended"
    BY <2>1, <2>3 DEF Place, Running
  <2> QED
    BY <2>2, <2>3
<1> QED
  BY <1>6, <1>7

LEMMA StepAudit ==
  ASSUME TypeOK, AuditInv, [Next]_vars
  PROVE  AuditInv'
<1> USE DEF shared, faults
<1>1. ASSUME UNCHANGED <<auditFailures, pc, attempt, sql, outcome, query_log, drafts>>
      PROVE  AuditInv'
  BY <1>1 DEF AuditInv, Place, Tells, Running
<1>2. CASE Tick \/ Migrate \/ UNCHANGED vars
  BY <1>1, <1>2 DEF Tick, Migrate, vars
<1>3. ASSUME NEW r \in Runs, Step(r) PROVE AuditInv'
  <2>1. auditFailures' = 0 => auditFailures = 0
    <3>1. auditFailures \in Nat
      BY DEF TypeOK
    <3>2. ASSUME NEW s, NEW status, Log(r, s, status)
          PROVE  auditFailures' = 0 => auditFailures = 0
      BY <3>2, Logged
    <3> QED
      BY <1>3, <3>1, <3>2
      DEF Step, RefuseWrite, Start, Look, Build, Save, Generate, Reject, ModelFails,
          Execute, DatabaseFails
  <2>2. ASSUME NEW u \in Runs \ {r} PROVE Place(u)' /\ Tells(u)'
    <3>1. /\ pc'[u] = pc[u] /\ attempt'[u] = attempt[u] /\ sql'[u] = sql[u]
          /\ outcome'[u] = outcome[u] /\ query_log'[u] = query_log[u] /\ drafts'[u] = drafts[u]
      <4>1. CASE RefuseWrite(r) \/ Execute(r)
        BY <4>1, Logged DEF RefuseWrite, Execute, End, TypeOK
      <4>2. CASE Start(r) \/ DatabaseFails(r)
        BY <4>2, Logged, WentOn DEF Start, DatabaseFails
      <4>3. CASE Look(r) \/ Build(r) \/ Save(r) \/ ModelFails(r)
        BY <4>3 DEF Look, Build, Save, ModelFails, GoTo, End, TypeOK
      <4>4. CASE \E d \in Valid : Generate(r, d)
        BY <4>4 DEF Generate, GoTo, Answered, TypeOK
      <4>5. ASSUME NEW d \in Fixable \cup Forbidden, Reject(r, d)
            PROVE  /\ pc'[u] = pc[u] /\ attempt'[u] = attempt[u] /\ sql'[u] = sql[u]
                   /\ outcome'[u] = outcome[u] /\ query_log'[u] = query_log[u]
                   /\ drafts'[u] = drafts[u]
        <5>1. query_log'[u] = query_log[u] /\ drafts'[u] = drafts[u] /\ sql'[u] = sql[u]
          BY <4>5, Logged DEF Reject, Answered, TypeOK
        <5>2. CASE d \in Fixable
          BY <4>5, <5>1, <5>2, WentOn DEF Reject
        <5>3. CASE d \notin Fixable
          BY <4>5, <5>1, <5>3 DEF Reject, End, TypeOK
        <5> QED
          BY <5>2, <5>3
      <4> QED
        BY <1>3, <4>1, <4>2, <4>3, <4>4, <4>5 DEF Step
    <3> QED
      BY <2>1, <3>1, OtherRun DEF AuditInv
  <2>3. Place(r) /\ Tells(r)
    BY DEF AuditInv
  <2>4. Place(r)' /\ Tells(r)'
    <3>1. CASE RefuseWrite(r)
      <4>1. /\ pc'[r] = "ended" /\ outcome'[r] = "invalid"
            /\ attempt' = attempt /\ drafts' = drafts /\ sql' = sql
            /\ attempt[r] = 0 /\ query_log[r] = << >>
        BY <2>3, <3>1 DEF RefuseWrite, End, TypeOK, Place
      <4>2. \/ query_log'[r] = << >>
            \/ query_log'[r] = <<[sql |-> NoValue, status |-> "rejected"]>>
        BY <3>1, <4>1, Logged DEF RefuseWrite
      <4>3. drafts[r][1] = NoValue
        BY <2>3, <4>1 DEF Place
      <4> QED
        BY <2>3, <4>1, <4>2, <4>3 DEF Place, Tells, Running
    <3>2. CASE Start(r)
      <4>1. attempt[r] = 0 /\ query_log[r] = << >> /\ attempt[r] < MaxAttempts /\ outcome[r] = "pending"
        BY <2>3, <3>2 DEF Start, Again, End, Place, TypeOK
      <4>2. pc'[r] = "look" /\ attempt'[r] = 1 /\ UNCHANGED <<outcome, query_log, drafts>>
        BY <3>2, <4>1 DEF Start, Again, TypeOK
      <4> QED
        BY <2>3, <4>1, <4>2 DEF Place, Tells, Running
    <3>3. CASE Look(r) \/ Build(r) \/ Save(r)
      <4>1. /\ Running(r) /\ pc'[r] \in {"build", "save", "generate"}
            /\ pc[r] \in {"look", "build", "save"}
            /\ UNCHANGED <<auditFailures, attempt, sql, outcome, query_log, drafts>>
        BY <3>3 DEF Look, Build, Save, GoTo, TypeOK, Running
      <4> QED
        BY <2>3, <4>1 DEF Place, Tells, Running
    <3>4. ASSUME NEW d \in Valid, Generate(r, d) PROVE Place(r)' /\ Tells(r)'
      <4>1. /\ pc[r] = "generate" /\ pc'[r] = "execute" /\ sql'[r] = d
            /\ drafts'[r] = [drafts[r] EXCEPT ![attempt[r]] = d]
            /\ UNCHANGED <<auditFailures, attempt, outcome, query_log>>
        BY <3>4 DEF Generate, GoTo, Answered, TypeOK
      <4>2. attempt[r] \in Attempts /\ drafts[r] \in [Attempts -> Drafts \cup {NoValue}]
            /\ query_log[r] \in Seq(Row)
        BY <2>3, <4>1 DEF Place, Running, TypeOK
      <4>3. /\ drafts'[r][attempt[r]] = d
            /\ \A i \in Attempts \ {attempt[r]} : drafts'[r][i] = drafts[r][i]
        BY <4>1, <4>2
      <4>4. Place(r)'
        BY <2>3, <4>1, <4>2, <4>3 DEF Place, Running
      <4>5. auditFailures = 0 => DOMAIN query_log[r] = 1 .. attempt[r] - 1
        BY <2>3, <4>1, <4>2 DEF Place, Running
      <4>6. Tells(r)'
        BY <2>3, <4>1, <4>2, <4>3, <4>5 DEF Place, Tells, Running
      <4> QED
        BY <4>4, <4>6
    <3>5. ASSUME NEW d \in Fixable \cup Forbidden, Reject(r, d) PROVE Place(r)' /\ Tells(r)'
      <4>1. /\ Running(r) /\ Log(r, d, "rejected") /\ sql' = sql
            /\ drafts'[r] = [drafts[r] EXCEPT ![attempt[r]] = d]
        BY <3>5 DEF Reject, Answered, TypeOK, Running
      <4>2. CASE d \in Fixable
        <5>1. d \notin Forbidden /\ d \in Drafts
          BY <4>2, DraftsAssumption DEF Drafts
        <5> QED
          BY <2>3, <3>5, <4>1, <4>2, <5>1, WentOn, AttemptFailed DEF Reject
      <4>3. CASE d \notin Fixable
        <5>1. pc'[r] = "ended" /\ attempt'[r] = attempt[r] /\ outcome'[r] = "invalid" /\ d \in Drafts
          BY <3>5, <4>3 DEF Reject, End, TypeOK, Drafts
        <5> QED
          BY <2>3, <4>1, <5>1, AttemptFailed
      <4> QED
        BY <4>2, <4>3
    <3>6. CASE ModelFails(r)
      <4>1. /\ pc[r] = "generate" /\ pc'[r] = "ended" /\ outcome'[r] = "raised"
            /\ UNCHANGED <<auditFailures, attempt, sql, query_log, drafts>>
        BY <3>6 DEF ModelFails, End, TypeOK
      <4> QED
        BY <2>3, <4>1 DEF Place, Tells, Running
    <3>7. CASE Execute(r)
      <4> DEFINE log == query_log[r]
                 row == [sql |-> sql[r], status |-> "ok"]
      <4>1. /\ pc[r] = "execute" /\ pc'[r] = "ended" /\ outcome'[r] = "ok"
            /\ UNCHANGED <<attempt, sql, drafts>>
            /\ log \in Seq(Row) /\ attempt[r] \in Attempts
            /\ sql[r] \in Valid /\ drafts[r][attempt[r]] = sql[r]
        BY <2>3, <3>7 DEF Execute, End, TypeOK, Place, Running
      <4>2. \/ query_log'[r] = Append(log, row) /\ auditFailures' = auditFailures
            \/ query_log'[r] = log /\ auditFailures' # 0
        BY <3>7, Logged DEF Execute
      <4>3. \A i \in DOMAIN log : log[i].status # "ok"
        BY <2>3, <4>1 DEF Place
      <4>4. auditFailures = 0 => Len(log) = attempt[r] - 1
        BY <2>3, <4>1 DEF Place, Running
      <4>5. CASE query_log'[r] = log /\ auditFailures' # 0
        BY <2>3, <4>1, <4>3, <4>5 DEF Place, Tells, Running
      <4>6. CASE query_log'[r] = Append(log, row) /\ auditFailures' = auditFailures
        <5>1. /\ Len(query_log'[r]) = Len(log) + 1
              /\ DOMAIN query_log'[r] = 1 .. Len(log) + 1
              /\ query_log'[r][Len(log) + 1] = row
              /\ \A i \in 1 .. Len(log) : i \in DOMAIN log /\ query_log'[r][i] = log[i]
          BY <4>1, <4>6
        <5>2. \A i \in DOMAIN query_log'[r] : query_log'[r][i].status = "ok" => i = Len(log) + 1
          BY <4>3, <5>1
        <5>3. auditFailures = 0 =>
                \A i \in DOMAIN query_log'[r] :
                  \/ query_log'[r][i].sql = drafts[r][i]
                  \/ drafts[r][i] = NoValue /\ query_log'[r][i].status = "error"
          <6> SUFFICES ASSUME auditFailures = 0, NEW i \in DOMAIN query_log'[r]
                       PROVE  \/ query_log'[r][i].sql = drafts[r][i]
                              \/ drafts[r][i] = NoValue /\ query_log'[r][i].status = "error"
            OBVIOUS
          <6>1. /\ Len(log) \in Nat /\ Len(log) + 1 = attempt[r]
                /\ i \in 1 .. Len(log) \/ i = Len(log) + 1
            <7>1. Len(log) \in Nat /\ attempt[r] \in Nat
              BY <4>1 DEF Attempts
            <7>2. Len(log) = attempt[r] - 1 /\ i \in 1 .. Len(log) + 1
              BY <4>4, <5>1
            <7> HIDE DEF log
            <7> QED
              BY <7>1, <7>2
          <6>2. CASE i \in 1 .. Len(log)
            <7>1. \A k \in DOMAIN log :
                    \/ log[k].sql = drafts[r][k]
                    \/ drafts[r][k] = NoValue /\ log[k].status = "error"
              BY <2>3 DEF Tells
            <7> HIDE DEF log
            <7> QED
              BY <5>1, <6>2, <7>1
          <6>3. CASE i = Len(log) + 1
            <7>1. query_log'[r][i].sql = sql[r] /\ i = attempt[r]
              BY <5>1, <6>1, <6>3
            <7> QED
              BY <4>1, <7>1
          <6> QED
            BY <6>1, <6>2, <6>3
        <5>4. Tells(r)'
          BY <2>3, <4>1, <4>6, <5>1, <5>2, <5>3 DEF Tells
        <5>5. Place(r)'
          BY <2>3, <4>1 DEF Place, Running
        <5> QED
          BY <5>4, <5>5
      <4> QED
        BY <4>2, <4>5, <4>6
    <3>8. CASE DatabaseFails(r)
      <4> DEFINE d == drafts[r][attempt[r]]
      <4>1. /\ Running(r) /\ Log(r, sql[r], "error") /\ sql' = sql /\ drafts' = drafts
            /\ pc[r] \in {"build", "execute"} /\ Again(r)
        BY <3>8 DEF DatabaseFails, Running
      <4>2. attempt[r] \in Attempts /\ sql[r] \in Drafts \cup {NoValue}
        BY <2>3, <4>1 DEF Place, TypeOK, Drafts
      <4>3. d = NoValue \/ (d = sql[r] /\ d \in Valid)
        BY <2>3, <4>1 DEF Place
      <4>4. d \in Drafts \cup {NoValue} /\ d \notin Forbidden
        BY <4>3, DraftsAssumption DEF Drafts
      <4>5. drafts'[r] = [drafts[r] EXCEPT ![attempt[r]] = d]
        BY <4>1, <4>2 DEF TypeOK
      <4> QED
        BY <2>3, <4>1, <4>2, <4>3, <4>4, <4>5, WentOn, AttemptFailed
    <3> QED
      BY <1>3, <3>1, <3>2, <3>3, <3>4, <3>5, <3>6, <3>7, <3>8 DEF Step
  <2> QED
    BY <2>2, <2>4 DEF AuditInv
<1> QED
  BY <1>2, <1>3 DEF Next

LEMMA InitAudit == Init => AuditInv
  BY DEF Init, AuditInv, Place, Tells, Running

\* However runs meet and calls fail: a run answers with rows only after a draft that
\* was valid and executed, asks the model again only after a failure that the model
\* can repair, and its rows name the SQL of their own attempts (run_sql_agent).
THEOREM AuditTruthful == Spec => []AuditTellsTheOutcome
<1>1. Init => TypeOK /\ AuditInv
  BY InitTypes, InitAudit
<1>2. TypeOK /\ AuditInv /\ [Next]_vars => (TypeOK /\ AuditInv)'
  BY StepTypes, StepAudit
<1>3. AuditInv => AuditTellsTheOutcome
  BY DEF AuditInv, Tells, AuditTellsTheOutcome
<1> QED
  BY <1>1, <1>2, <1>3, PTL DEF Spec

(***************************************************************************)
(* The account of the audit.                                               *)
(***************************************************************************)
\* The rows that a run owes: one for each attempt behind it, and when it has ended
\* one for the attempt it ended in, or for its refusal.
Due(r) ==
  IF pc[r] = "ended" THEN (IF attempt[r] = 0 THEN 1 ELSE attempt[r])
  ELSE IF attempt[r] = 0 THEN 0 ELSE attempt[r] - 1

Rows == [r \in Runs |-> Len(query_log[r])]
Dues == [r \in Runs |-> Due(r)]

\* At any time, and not only when all runs have ended.
Accounted ==
  SumFunctionOnSet(Rows, Runs) + auditFailures + modelFailures = SumFunctionOnSet(Dues, Runs)

AccountTypes ==
  /\ \A r \in Runs : Rows[r] \in Nat /\ Dues[r] \in Nat
  /\ auditFailures \in Nat /\ modelFailures \in Nat

LEMMA Countable == TypeOK => AccountTypes
<1>. SUFFICES ASSUME TypeOK PROVE AccountTypes
  OBVIOUS
<1>1. ASSUME NEW r \in Runs PROVE Len(query_log[r]) \in Nat /\ Due(r) \in Nat
  <2>1. query_log[r] \in Seq(Row) /\ attempt[r] \in Nat
    BY DEF TypeOK
  <2>. QED
    BY <2>1 DEF Due
<1>2. auditFailures \in Nat /\ modelFailures \in Nat
  BY DEF TypeOK
<1>. QED
  BY <1>1, <1>2 DEF AccountTypes, Rows, Dues

LEMMA SumsBalance ==
  ASSUME NEW R \in Nat, NEW Rp \in Nat, NEW D \in Nat, NEW Dp \in Nat,
         NEW x \in Nat, NEW xp \in Nat, NEW y \in Nat, NEW yp \in Nat,
         NEW f \in Nat, NEW fp \in Nat, NEW m \in Nat, NEW mp \in Nat,
         R + f + m = D, Rp + x = R + xp, Dp + y = D + yp,
         xp + fp + mp + y = x + f + m + yp
  PROVE  Rp + fp + mp = Dp
  OBVIOUS

\* A step of one run keeps the account if the run owes what it has not written.
LEMMA Balanced ==
  ASSUME TypeOK, TypeOK', Accounted, NEW r \in Runs,
         \A u \in Runs \ {r} : Rows'[u] = Rows[u] /\ Dues'[u] = Dues[u],
         Rows'[r] + auditFailures' + modelFailures' + Dues[r]
           = Rows[r] + auditFailures + modelFailures + Dues'[r]
  PROVE  Accounted'
<1>1. /\ \A u \in Runs : Rows[u] \in Nat /\ Dues[u] \in Nat
      /\ auditFailures \in Nat /\ modelFailures \in Nat
  BY Countable DEF AccountTypes
<1>2. /\ \A u \in Runs : Rows'[u] \in Nat /\ Dues'[u] \in Nat
      /\ auditFailures' \in Nat /\ modelFailures' \in Nat
  <2>1. AccountTypes'
    BY Countable, PTL
  <2>. QED
    BY <2>1 DEF AccountTypes
<1>3. SumFunctionOnSet(Rows', Runs) + Rows[r] = SumFunctionOnSet(Rows, Runs) + Rows'[r]
  BY <1>1, <1>2, RunsAssumption, SumChange
<1>4. SumFunctionOnSet(Dues', Runs) + Dues[r] = SumFunctionOnSet(Dues, Runs) + Dues'[r]
  BY <1>1, <1>2, RunsAssumption, SumChange
<1>5. /\ SumFunctionOnSet(Rows, Runs) \in Nat /\ SumFunctionOnSet(Rows', Runs) \in Nat
      /\ SumFunctionOnSet(Dues, Runs) \in Nat /\ SumFunctionOnSet(Dues', Runs) \in Nat
  BY <1>1, <1>2, RunsAssumption, SumElement
<1>6. SumFunctionOnSet(Rows, Runs) + auditFailures + modelFailures = SumFunctionOnSet(Dues, Runs)
  BY DEF Accounted
<1>7. /\ Rows[r] \in Nat /\ Rows'[r] \in Nat /\ Dues[r] \in Nat /\ Dues'[r] \in Nat
      /\ auditFailures \in Nat /\ modelFailures \in Nat
      /\ auditFailures' \in Nat /\ modelFailures' \in Nat
  BY <1>1, <1>2
<1>8. SumFunctionOnSet(Rows', Runs) + auditFailures' + modelFailures' = SumFunctionOnSet(Dues', Runs)
  <2>. DEFINE R == SumFunctionOnSet(Rows, Runs)
              Rp == SumFunctionOnSet(Rows', Runs)
              D == SumFunctionOnSet(Dues, Runs)
              Dp == SumFunctionOnSet(Dues', Runs)
              x == Rows[r]
              xp == Rows'[r]
              y == Dues[r]
              yp == Dues'[r]
              fp == auditFailures'
              mp == modelFailures'
  <2>1. R + auditFailures + modelFailures = D /\ Rp + x = R + xp /\ Dp + y = D + yp
    BY <1>3, <1>4, <1>6
  <2>2. xp + fp + mp + y = x + auditFailures + modelFailures + yp
    OBVIOUS
  <2>3. /\ R \in Nat /\ Rp \in Nat /\ D \in Nat /\ Dp \in Nat
        /\ x \in Nat /\ xp \in Nat /\ y \in Nat /\ yp \in Nat
        /\ auditFailures \in Nat /\ modelFailures \in Nat /\ fp \in Nat /\ mp \in Nat
    BY <1>5, <1>7
  <2>. HIDE DEF R, Rp, D, Dp, x, xp, y, yp, fp, mp
  <2>4. Rp + fp + mp = Dp
    BY <2>1, <2>2, <2>3, SumsBalance
  <2>. QED
    BY <2>4 DEF Rp, Dp, fp, mp
<1>. QED
  BY <1>8 DEF Accounted

\* A call of _log_query writes a row or counts a failure.
LEMMA OneRowLogged ==
  ASSUME TypeOK, NEW r \in Runs, NEW s, NEW status, Log(r, s, status)
  PROVE  /\ Rows'[r] + auditFailures' = Rows[r] + auditFailures + 1
         /\ \A u \in Runs \ {r} : Rows'[u] = Rows[u]
<1>1. query_log[r] \in Seq(Row) /\ auditFailures \in Nat
  BY DEF TypeOK
<1>2. CASE query_log' = [query_log EXCEPT ![r] = Append(@, [sql |-> s, status |-> status])]
           /\ auditFailures' = auditFailures
  <2>1. query_log'[r] = Append(query_log[r], [sql |-> s, status |-> status])
    BY <1>2 DEF TypeOK
  <2>2. Len(query_log'[r]) = Len(query_log[r]) + 1 /\ Len(query_log[r]) \in Nat
    BY <1>1, <2>1
  <2>3. \A u \in Runs \ {r} : query_log'[u] = query_log[u]
    BY <1>2 DEF TypeOK
  <2>. QED
    BY <1>1, <1>2, <2>2, <2>3 DEF Rows
<1>3. CASE auditFailures' = auditFailures + 1 /\ query_log' = query_log
  <2>1. Rows' = Rows /\ Rows[r] \in Nat
    BY <1>1, <1>3 DEF Rows
  <2>. QED
    BY <1>1, <1>3, <2>1
<1>. QED
  BY <1>2, <1>3 DEF Log

\* An attempt is behind the run: it goes on to the next, or it has ended.
LEMMA OneMoreDue ==
  ASSUME TypeOK, NEW r \in Runs, pc[r] # "ended", attempt[r] >= 1,
         Again(r) \/ (\E result : End(r, result) /\ UNCHANGED attempt)
  PROVE  /\ Dues'[r] = Dues[r] + 1
         /\ \A u \in Runs \ {r} : Dues'[u] = Dues[u]
<1>1. attempt[r] \in Nat /\ attempt \in [Runs -> 0 .. MaxAttempts] /\ pc \in [Runs -> Labels]
  BY DEF TypeOK
<1>2. \/ pc'[r] = "look" /\ attempt'[r] = attempt[r] + 1
      \/ pc'[r] = "ended" /\ attempt'[r] = attempt[r]
  BY <1>1 DEF Again, End
<1>3. \A u \in Runs \ {r} : pc'[u] = pc[u] /\ attempt'[u] = attempt[u]
  BY <1>1 DEF Again, End
<1>4. Due(r)' = Due(r) + 1
  BY <1>1, <1>2 DEF Due
<1>. QED
  BY <1>3, <1>4 DEF Dues, Due

\* Nothing is due or written in the other steps of a run.
LEMMA NothingDue ==
  ASSUME NEW r \in Runs, query_log' = query_log,
         \A u \in Runs : attempt'[u] = attempt[u] /\ (pc'[u] = "ended" <=> pc[u] = "ended")
  PROVE  \A u \in Runs : Rows'[u] = Rows[u] /\ Dues'[u] = Dues[u]
  BY DEF Rows, Dues, Due

LEMMA StepAccounted ==
  ASSUME TypeOK, TypeOK', AuditInv, Accounted, [Next]_vars
  PROVE  Accounted'
<1>1. CASE query_log' = query_log /\ attempt' = attempt /\ pc' = pc
           /\ auditFailures' = auditFailures /\ modelFailures' = modelFailures
  BY <1>1 DEF Accounted, Rows, Dues, Due
<1>2. ASSUME NEW r \in Runs, Step(r) PROVE Accounted'
  <2>. USE DEF shared, faults
  <2>1. /\ \A u \in Runs : Rows[u] \in Nat /\ Dues[u] \in Nat
        /\ auditFailures \in Nat /\ modelFailures \in Nat
    BY Countable DEF AccountTypes
  <2>2. /\ \A u \in Runs : Rows'[u] \in Nat /\ Dues'[u] \in Nat
        /\ auditFailures' \in Nat /\ modelFailures' \in Nat
    <3>1. AccountTypes'
      BY Countable, PTL
    <3>. QED
      BY <3>1 DEF AccountTypes
  <2>3. /\ pc[r] = "new" => attempt[r] = 0
        /\ Running(r) => attempt[r] >= 1
    BY DEF AuditInv, Place
  <2>4. CASE RefuseWrite(r)
    <3>1. Rows'[r] + auditFailures' = Rows[r] + auditFailures + 1
          /\ (\A u \in Runs \ {r} : Rows'[u] = Rows[u])
      BY <2>4, OneRowLogged DEF RefuseWrite
    <3>2. Dues'[r] = 1 /\ Dues[r] = 0 /\ (\A u \in Runs \ {r} : Dues'[u] = Dues[u])
      BY <2>3, <2>4 DEF RefuseWrite, End, Dues, Due, TypeOK
    <3>3. modelFailures' = modelFailures
      BY <2>4 DEF RefuseWrite
    <3>4. Rows'[r] + auditFailures' + modelFailures' + Dues[r]
            = Rows[r] + auditFailures + modelFailures + Dues'[r]
      BY <2>1, <2>2, <3>1, <3>2, <3>3
    <3>. QED
      BY <3>1, <3>2, <3>4, Balanced
  <2>5. CASE Start(r)
    <3>1. Rows' = Rows /\ auditFailures' = auditFailures /\ modelFailures' = modelFailures
      BY <2>5 DEF Start, Rows
    <3>2. attempt[r] < MaxAttempts
      BY <2>3, <2>5 DEF Start
    <3>3. pc' = [pc EXCEPT ![r] = "look"] /\ attempt' = [attempt EXCEPT ![r] = @ + 1]
      BY <2>5, <3>2 DEF Start, Again
    <3>4. Dues'[r] = 0 /\ Dues[r] = 0 /\ (\A u \in Runs \ {r} : Dues'[u] = Dues[u])
      BY <2>3, <2>5, <3>3 DEF Start, Dues, Due, TypeOK
    <3>. QED
      BY <3>1, <3>4, Balanced
  <2>6. CASE Look(r) \/ Build(r) \/ Save(r) \/ (\E d \in Valid : Generate(r, d))
    <3>1. /\ query_log' = query_log /\ auditFailures' = auditFailures /\ modelFailures' = modelFailures
          /\ attempt' = attempt
      BY <2>6 DEF Look, Build, Save, Generate
    <3>2. \A u \in Runs : pc'[u] = "ended" <=> pc[u] = "ended"
      BY <2>6 DEF Look, Build, Save, Generate, GoTo, TypeOK
    <3>3. \A u \in Runs : Rows'[u] = Rows[u] /\ Dues'[u] = Dues[u]
      BY <3>1, <3>2, NothingDue
    <3>. QED
      BY <3>1, <3>3, Balanced
  <2>7. CASE (\E d \in Fixable \cup Forbidden : Reject(r, d)) \/ Execute(r) \/ DatabaseFails(r)
    <3>1. \E s, status : Log(r, s, status)
      BY <2>7 DEF Reject, Execute, DatabaseFails
    <3>2. Rows'[r] + auditFailures' = Rows[r] + auditFailures + 1
          /\ (\A u \in Runs \ {r} : Rows'[u] = Rows[u])
      BY <3>1, OneRowLogged
    <3>3. pc[r] # "ended" /\ attempt[r] >= 1
      BY <2>3, <2>7 DEF Reject, Execute, DatabaseFails, Running
    <3>4. Again(r) \/ (\E result : End(r, result) /\ UNCHANGED attempt)
      BY <2>7 DEF Reject, Execute, DatabaseFails
    <3>5. Dues'[r] = Dues[r] + 1 /\ (\A u \in Runs \ {r} : Dues'[u] = Dues[u])
      BY <3>3, <3>4, OneMoreDue
    <3>6. modelFailures' = modelFailures
      BY <2>7 DEF Reject, Execute, DatabaseFails
    <3>7. Rows'[r] + auditFailures' + modelFailures' + Dues[r]
            = Rows[r] + auditFailures + modelFailures + Dues'[r]
      BY <2>1, <2>2, <3>2, <3>5, <3>6
    <3>. QED
      BY <3>2, <3>5, <3>7, Balanced
  <2>8. CASE ModelFails(r)
    <3>1. Rows' = Rows /\ auditFailures' = auditFailures /\ modelFailures' = modelFailures + 1
      BY <2>8 DEF ModelFails, Rows
    <3>2. pc[r] # "ended" /\ attempt[r] >= 1 /\ End(r, "raised") /\ UNCHANGED attempt
      BY <2>3, <2>8 DEF ModelFails, Running
    <3>3. Dues'[r] = Dues[r] + 1 /\ (\A u \in Runs \ {r} : Dues'[u] = Dues[u])
      BY <3>2, OneMoreDue
    <3>4. Rows'[r] + auditFailures' + modelFailures' + Dues[r]
            = Rows[r] + auditFailures + modelFailures + Dues'[r]
      BY <2>1, <2>2, <3>1, <3>3
    <3>. QED
      BY <3>1, <3>3, <3>4, Balanced
  <2>. QED
    BY <1>2, <2>4, <2>5, <2>6, <2>7, <2>8 DEF Step
<1>3. CASE Tick \/ Migrate \/ UNCHANGED vars
  BY <1>1, <1>3 DEF Tick, Migrate, vars, faults
<1>. QED
  BY <1>2, <1>3 DEF Next

LEMMA InitAccounted == Init => Accounted
<1>. SUFFICES ASSUME Init PROVE Accounted
  OBVIOUS
<1>1. \A r \in Runs : Rows[r] = 0 /\ Dues[r] = 0
  BY DEF Init, Rows, Dues, Due
<1>2. Rows = Dues
  BY <1>1 DEF Rows, Dues
<1>3. SumFunctionOnSet(Dues, Runs) \in Nat
  BY <1>1, RunsAssumption, SumElement
<1>. QED
  BY <1>2, <1>3 DEF Accounted, Init

\* However many runs there are, however they interleave and whatever fails: when all
\* have ended, query_log has a row for each attempt and each refusal, but for the rows
\* that could not be written and the attempts that got no draft (_log_query).
THEOREM AuditComplete == Spec => []EveryDraftLogged
<1>1. Init => TypeOK /\ AuditInv /\ Accounted
  BY InitTypes, InitAudit, InitAccounted
<1>2. TypeOK /\ AuditInv /\ Accounted /\ [Next]_vars => (TypeOK /\ AuditInv /\ Accounted)'
  BY StepTypes, StepAudit, StepAccounted
<1>3. AuditInv /\ Accounted => EveryDraftLogged
  <2>. SUFFICES ASSUME AuditInv, Accounted, \A r \in Runs : outcome[r] # "pending"
                PROVE  SumFunctionOnSet([r \in Runs |-> Len(query_log[r])], Runs)
                         + auditFailures + modelFailures
                         = SumFunctionOnSet([r \in Runs |-> IF attempt[r] = 0 THEN 1 ELSE attempt[r]], Runs)
    BY DEF EveryDraftLogged
  <2>1. \A r \in Runs : pc[r] = "ended"
    BY DEF AuditInv, Place
  <2>2. Dues = [r \in Runs |-> IF attempt[r] = 0 THEN 1 ELSE attempt[r]]
    BY <2>1 DEF Dues, Due
  <2>. QED
    BY <2>2 DEF Accounted, Rows
<1>. QED
  BY <1>1, <1>2, <1>3, PTL DEF Spec
==============================================================================
