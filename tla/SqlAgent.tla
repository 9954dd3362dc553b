------------------------------ MODULE SqlAgent -------------------------------
(***************************************************************************)
(* The text-to-SQL agent, app/agents/sql_agent.py: runs of run_sql_agent,  *)
(* one per database question, which share the cached schema prompt and the *)
(* audit table query_log.                                                  *)
(*                                                                         *)
(* An attempt takes the schema prompt, asks the model for a draft,         *)
(* validates it and executes it as the read-only role.  Every call that    *)
(* leaves the process may fail.  The schema may be migrated at any time.   *)
(* Drafts differ in what validate_sql says of them.                        *)
(***************************************************************************)
EXTENDS Naturals, Sequences, SequencesExt

CONSTANTS
  Runs,              \* the runs of the agent
  Valid,             \* drafts that validate_sql accepts
  Fixable,           \* drafts rejected with retryable=True
  Forbidden,         \* drafts rejected for good
  NoValue,           \* None
  MaxAttempts,       \* max_attempts
  TTL,               \* settings.schema_cache_ttl_s
  MaxClock,          \* bound on time
  MaxMigrations,     \* bound on migrations of the schema
  MaxFailures,       \* bound on failures of the database
  MaxModelFailures,  \* bound on failures of the language model
  MaxAuditFailures   \* bound on rows of query_log that cannot be written

ASSUME RunsAssumption     == IsFiniteSet(Runs)
ASSUME AttemptsAssumption == MaxAttempts \in Nat \ {0}
ASSUME TimeAssumption     == {TTL, MaxClock, MaxMigrations} \subseteq Nat
ASSUME FailuresAssumption == {MaxFailures, MaxModelFailures, MaxAuditFailures} \subseteq Nat
ASSUME DraftsAssumption   == /\ Valid \cap (Fixable \cup Forbidden) = {}
                             /\ Fixable \cap Forbidden = {}
                             /\ NoValue \notin Valid \cup Fixable \cup Forbidden

Attempts == 1 .. MaxAttempts
Drafts   == Valid \cup Fixable \cup Forbidden
Statuses == {"ok", "rejected", "error"}
Versions == 0 .. MaxMigrations
Row      == [sql : Drafts \cup {NoValue}, status : Statuses]
Entry    == [at : 0 .. MaxClock, version : Versions]
Labels   == {"new", "look", "build", "save", "generate", "execute", "ended"}
Outcomes == {"pending", "ok", "invalid", "raised"}

VARIABLES
  clock,
  schema,    \* the version of the live schema
  cache,     \* _schema_cache: an Entry, or NoValue
  pc,        \* the call each run is about to make
  now,       \* now[r] = when it looked the schema up
  prompt,    \* prompt[r] = the version of the schema it has read
  attempt,   \* attempt[r] = the attempt it is at
  sql,       \* sql[r] = result.sql
  outcome,   \* outcome[r] = what it returned, or that it raised
  query_log, \* query_log[r] = the rows written for it
  failures, modelFailures, auditFailures

\* History variables.
VARIABLES
  replaced,  \* replaced[v] = when version v of the schema was replaced
  drafts     \* drafts[r][i] = what the model answered in attempt i

shared  == <<clock, schema, cache, replaced>>
faults  == <<failures, modelFailures, auditFailures>>
vars    == <<shared, faults, pc, now, prompt, attempt, sql, outcome, query_log, drafts>>

Forever == MaxClock + 1

TypeOK ==
  /\ clock \in 0 .. MaxClock
  /\ schema \in Versions
  /\ cache \in {NoValue} \cup Entry
  /\ pc \in [Runs -> Labels]
  /\ now \in [Runs -> 0 .. MaxClock]
  /\ prompt \in [Runs -> Versions]
  /\ attempt \in [Runs -> 0 .. MaxAttempts]
  /\ sql \in [Runs -> Valid \cup {NoValue}]
  /\ outcome \in [Runs -> Outcomes]
  /\ query_log \in [Runs -> Seq(Row)]
  /\ failures \in 0 .. MaxFailures
  /\ modelFailures \in 0 .. MaxModelFailures
  /\ auditFailures \in 0 .. MaxAuditFailures
  /\ replaced \in [Versions -> 0 .. Forever]
  /\ drafts \in [Runs -> [Attempts -> Drafts \cup {NoValue}]]

Init ==
  /\ clock = 0
  /\ schema = 0
  /\ cache = NoValue
  /\ pc = [r \in Runs |-> "new"]
  /\ now = [r \in Runs |-> 0]
  /\ prompt = [r \in Runs |-> 0]
  /\ attempt = [r \in Runs |-> 0]
  /\ sql = [r \in Runs |-> NoValue]
  /\ outcome = [r \in Runs |-> "pending"]
  /\ query_log = [r \in Runs |-> << >>]
  /\ failures = 0 /\ modelFailures = 0 /\ auditFailures = 0
  /\ replaced = [v \in Versions |-> Forever]
  /\ drafts = [r \in Runs |-> [i \in Attempts |-> NoValue]]

GoTo(r, from, to) ==
  /\ pc[r] = from
  /\ pc' = [pc EXCEPT ![r] = to]

\* _log_query: a row that cannot be written is lost without a trace to the caller.
Log(r, s, status) ==
  \/ /\ query_log' = [query_log EXCEPT ![r] = Append(@, [sql |-> s, status |-> status])]
     /\ UNCHANGED auditFailures
  \/ /\ auditFailures < MaxAuditFailures
     /\ auditFailures' = auditFailures + 1
     /\ UNCHANGED query_log

End(r, result) ==
  /\ pc' = [pc EXCEPT ![r] = "ended"]
  /\ outcome' = [outcome EXCEPT ![r] = result]

\* Mutant of Again: one attempt too many.
AgainOnceMore(r) ==
  IF attempt[r] <= MaxAttempts
    THEN /\ pc' = [pc EXCEPT ![r] = "look"]
         /\ attempt' = [attempt EXCEPT ![r] = @ + 1]
         /\ UNCHANGED outcome
    ELSE End(r, "invalid") /\ UNCHANGED attempt

\* The next attempt begins, or the run gives up.
Again(r) ==
  IF attempt[r] < MaxAttempts
    THEN /\ pc' = [pc EXCEPT ![r] = "look"]
         /\ attempt' = [attempt EXCEPT ![r] = @ + 1]
         /\ UNCHANGED outcome
    ELSE End(r, "invalid") /\ UNCHANGED attempt

(***************************************************************************)
(* run_sql_agent.                                                          *)
(***************************************************************************)
\* A write request is decided on the user's words; the model is never asked.
RefuseWrite(r) ==
  /\ pc[r] = "new"
  /\ Log(r, NoValue, "rejected")
  /\ End(r, "invalid")
  /\ UNCHANGED <<shared, failures, modelFailures, now, prompt, attempt, sql, drafts>>

Start(r) ==
  /\ pc[r] = "new"
  /\ Again(r)
  /\ UNCHANGED <<shared, faults, now, prompt, sql, query_log, drafts>>

\* Mutant of Look: a run waits for a fresh entry that another one builds.
LookWaits(r) ==
  /\ cache = NoValue => \A u \in Runs \ {r} : pc[u] \notin {"look", "build", "save"}
  /\ GoTo(r, "look", IF cache = NoValue THEN "build" ELSE "generate")
  /\ now' = [now EXCEPT ![r] = clock]
  /\ prompt' = [prompt EXCEPT ![r] = IF cache # NoValue THEN cache.version ELSE @]
  /\ UNCHANGED <<shared, faults, attempt, sql, outcome, query_log, drafts>>

\* schema_prompt: a fresh entry of the cache is used as it is.
Look(r) ==
  LET fresh == cache # NoValue /\ clock < cache.at + TTL IN
  /\ GoTo(r, "look", IF fresh THEN "generate" ELSE "build")
  /\ now' = [now EXCEPT ![r] = clock]
  /\ prompt' = [prompt EXCEPT ![r] = IF fresh THEN cache.version ELSE @]
  /\ UNCHANGED <<shared, faults, attempt, sql, outcome, query_log, drafts>>

\* _build_schema_prompt reads the live schema.
Build(r) ==
  /\ GoTo(r, "build", "save")
  /\ prompt' = [prompt EXCEPT ![r] = schema]
  /\ UNCHANGED <<shared, faults, now, attempt, sql, outcome, query_log, drafts>>

\* Mutant of Save: the entry is dated when it is saved.
SaveDatedNow(r) ==
  /\ GoTo(r, "save", "generate")
  /\ cache' = [at |-> clock, version |-> prompt[r]]
  /\ UNCHANGED <<clock, schema, replaced, faults, now, prompt, attempt, sql, outcome,
                 query_log, drafts>>

\* The entry is dated when the cache was looked up, before the schema was read.
Save(r) ==
  /\ GoTo(r, "save", "generate")
  /\ cache' = [at |-> now[r], version |-> prompt[r]]
  /\ UNCHANGED <<clock, schema, replaced, faults, now, prompt, attempt, sql, outcome,
                 query_log, drafts>>

\* The model answers with draft d in this attempt.
Answered(r, d) == drafts' = [drafts EXCEPT ![r][attempt[r]] = d]

\* validate_sql accepts the draft: it becomes result.sql.
Generate(r, d) ==
  /\ GoTo(r, "generate", "execute")
  /\ d \in Valid
  /\ Answered(r, d)
  /\ sql' = [sql EXCEPT ![r] = d]
  /\ UNCHANGED <<shared, faults, now, prompt, attempt, outcome, query_log>>

\* Mutant of Reject: the model is asked again whatever it drafted.
RejectRetriesAll(r, d) ==
  /\ pc[r] = "generate"
  /\ d \in Fixable \cup Forbidden
  /\ Answered(r, d)
  /\ Log(r, d, "rejected")
  /\ Again(r)
  /\ UNCHANGED <<shared, failures, modelFailures, now, prompt, sql>>

\* validate_sql rejects the draft: the model may repair what is retryable.
Reject(r, d) ==
  /\ pc[r] = "generate"
  /\ d \in Fixable \cup Forbidden
  /\ Answered(r, d)
  /\ Log(r, d, "rejected")
  /\ IF d \in Fixable THEN Again(r) ELSE End(r, "invalid") /\ UNCHANGED attempt
  /\ UNCHANGED <<shared, failures, modelFailures, now, prompt, sql>>

\* The model's call raises (httpx): run_sql_agent does not catch it.
ModelFails(r) ==
  /\ pc[r] = "generate"
  /\ modelFailures < MaxModelFailures
  /\ modelFailures' = modelFailures + 1
  /\ End(r, "raised")
  /\ UNCHANGED <<shared, failures, auditFailures, now, prompt, attempt, sql, query_log,
                 drafts>>

\* Mutant of Execute: a successful query leaves no row.
ExecuteUnlogged(r) ==
  /\ pc[r] = "execute"
  /\ End(r, "ok")
  /\ UNCHANGED <<shared, faults, now, prompt, attempt, sql, query_log, drafts>>

Execute(r) ==
  /\ pc[r] = "execute"
  /\ Log(r, sql[r], "ok")
  /\ End(r, "ok")
  /\ UNCHANGED <<shared, failures, modelFailures, now, prompt, attempt, sql, drafts>>

\* psycopg.Error, from the execution or from reading the schema: the row names
\* result.sql.
DatabaseFails(r) ==
  /\ pc[r] \in {"build", "execute"}
  /\ failures < MaxFailures
  /\ failures' = failures + 1
  /\ Log(r, sql[r], "error")
  /\ Again(r)
  /\ UNCHANGED <<shared, modelFailures, now, prompt, sql, drafts>>

(***************************************************************************)
(* The world.                                                              *)
(***************************************************************************)
Tick ==
  /\ clock < MaxClock
  /\ clock' = clock + 1
  /\ UNCHANGED <<schema, cache, replaced, faults, pc, now, prompt, attempt, sql, outcome,
                 query_log, drafts>>

Migrate ==
  /\ schema < MaxMigrations
  /\ schema' = schema + 1
  /\ replaced' = [replaced EXCEPT ![schema] = clock]
  /\ UNCHANGED <<clock, cache, faults, pc, now, prompt, attempt, sql, outcome, query_log,
                 drafts>>

Step(r) ==
  \/ RefuseWrite(r) \/ Start(r) \/ Look(r) \/ Build(r) \/ Save(r)
  \/ \E d \in Valid : Generate(r, d)
  \/ \E d \in Fixable \cup Forbidden : Reject(r, d)
  \/ ModelFails(r) \/ Execute(r) \/ DatabaseFails(r)

Next == Tick \/ Migrate \/ \E r \in Runs : Step(r)

Spec == Init /\ [][Next]_vars

\* Every call has a timeout, so a run that has begun goes on.
FairSpec == Spec /\ \A r \in Runs : WF_vars(Step(r))

(***************************************************************************)
(* Properties.                                                             *)
(***************************************************************************)
\* A migration is picked up when the cache expires: no prompt is made from a
\* schema that had been replaced TTL or more before it was looked up, however
\* slow a run is between reading the schema and saving it, and whichever run
\* saves last.
SchemaFreshEnough ==
  \A r \in Runs : pc[r] = "generate" => replaced[prompt[r]] + TTL > now[r]

\* Runs that have ended have left one row for each attempt they made, or for their
\* refusal, and no more, less the rows that could not be written and the attempts
\* in which the language model could not be asked, which leave none.
EveryDraftLogged ==
  (\A r \in Runs : outcome[r] # "pending") /\ Runs # {} =>
    LET rows == [r \in Runs |-> Len(query_log[r])]
        made == [r \in Runs |-> IF attempt[r] = 0 THEN 1 ELSE attempt[r]]
    IN SumFunctionOnSet(rows, Runs) + auditFailures + modelFailures = SumFunctionOnSet(made, Runs)

\* The audit of a run tells its story: it answers with rows only after a draft
\* that was valid and was executed, it does not ask the model again after a verdict
\* that is final (any error of the database is retried), and each row names the SQL of
\* its own attempt.  Not so when the schema cannot be read in a later attempt: the row
\* of an attempt that generated nothing names the SQL of an earlier one.
AuditTellsTheOutcome ==
  \A r \in Runs :
    LET log == query_log[r] IN
    /\ \A i \in 1 .. attempt[r] - 1 : drafts[r][i] \notin Forbidden
    /\ outcome[r] = "ok" => drafts[r][attempt[r]] \in Valid
    /\ \A i \in DOMAIN log :
         log[i].status = "ok" =>
           i = Len(log) /\ outcome[r] = "ok" /\ log[i].sql = drafts[r][attempt[r]]
    /\ auditFailures = 0 =>
         \A i \in DOMAIN log :
           log[i].sql = drafts[r][i] \/ (drafts[r][i] = NoValue /\ log[i].status = "error")

\* Every run ends.
RunsEnd == \A r \in Runs : pc[r] = "look" ~> outcome[r] # "pending"
==============================================================================
