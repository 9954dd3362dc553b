# Verification of the local GenAI data assistant

The service (`src/app`) answers questions over company documents (Qdrant) and
business data (PostgreSQL) with a local language model. This directory holds
TLA+ models of its own logic, TLC configurations that check them on small
instances, and proofs for every instance. The documents, the database and the
model are services it calls; what they do is modelled as far as the service
relies on it.

## 1. The system

| Component | State | Operations | What is hard |
|---|---|---|---|
| Vector index, `repository/vector_store.py` | collection, points, `_filenames_cache` | `ingest_file`, `delete_vectors`, `list_documents`, `stale_doc_ids`, `search` | several calls to Qdrant per operation, no lock, a cache beside the store |
| Ingestion, `routes/document_routes.py`, `services/document_service.py` | files of `data/documents`, `.failed` files | upload, directory ingest, delete | requests run in a thread pool, and each may fail or stop at any call |
| Chunking, `services/document_service.py` | none | `_docx_to_markdown`, `split_markdown`, `chunk_sections` | a stack of headings and a fence flag over any file |
| Boot-time ingest, `starter.py` | `ingest_status` | `lifespan`, `_auto_ingest` | runs beside the requests; must catch up after a stop or an upgrade |
| Conversation memory, `repository/conversation_store.py` | ordered dictionary of sessions | `get`, `add_turn` | two bounds, eviction, slices |
| Chat routes, `routes/chat_routes.py` | requests in flight, frames sent | `POST /chat`, `POST /chat/stream` | read at the start, write at the end; streams fail and clients leave |
| Frontend, `frontend/app.py` | messages shown and session id of each browser session | ask, read the stream, new conversation | learns its session from the last frame only, and may lose any frame |
| Citation scrubber, `services/answer_service.py` | the text held back | `scrub_citations`, `feed`, `flush` | equal results however a reply is cut |
| SQL agent, `agents/sql_agent.py` | `_schema_cache`, `query_log` | `run_sql_agent`, `schema_prompt` | retries, shared cache with a lifetime, audit on every path |
| SQL validator, `tools/sql_validator.py` | none | `validate_sql` | order of checks, names that mean another thing in each scope |
| Chat graph, `agents/chat_agent.py` | one state per question | condense, route, rag, sql, answer | parallel branches, degraded answers, a model that answers anything |
| Query rewriting and routing, `agents/condense.py`, `services/routing_service.py`, `utils/security.py` | none | `condense_question`, `rule_route`, intent checks | order of rules, fallbacks, what one turn does to the next |
| Retrieval ranking, `repository/retrieval.py` | none | `rank_candidates`, `select_context` | limited pools, weights that depend on the other candidates, cutoffs, limits per section |
| Retention, `starter.py` `_prune_loop` | `query_log` | `prune_query_log` | periodic thread |

Components meet in four places: the routes and the boot thread share one
`VectorStore` and the directory; the chat routes share the conversation memory;
the chat graph calls `VectorStore.search` and `run_sql_agent`; the browser
sessions share nothing but tell the routes the session they believe to be in.
Correct means:

- the index has each document once, whole, as its file says; nothing that was
  deleted comes back; good files survive whatever goes wrong; the boot-time
  ingest catches up;
- the memory of a session is its last turns, in bounds, whichever requests
  overlap;
- what a user sees of a conversation is what the next question is read with;
- a line of a document is found under the headings it stands under;
- a stream ends in one final frame and shows what the scrub makes of the reply;
- a question gets the source its words name, its rewrite keeps what was typed and
  takes the rest from the conversation, and its answer waits for its sources and for
  nothing else;
- the context of an answer is the best evidence the index has;
- a statement that is executed reads allowed tables only;
- every SQL attempt is audited, prompts use a schema that is fresh enough, and
  runs end.

## 2. Modules

    VectorStore <- DocumentLibrary <- MCDocumentLibrary
                                   <- DocumentLibraryProofs
    Chunking <- MCChunking
             <- ChunkingProofs
    ConversationStore <- ChatRoutes <- ChatClients <- MCChatClients
                                                   <- ChatClientsProofs
                         ChatRoutes -- INSTANCE --> BoundedMemory
    CitationStream <- MCCitationStream
                   <- CitationProofs
    SqlValidator <- MCSqlValidator
    SqlValidator, SqlAgent <- SqlProofs
    FoldFacts <- ChatClientsProofs, CitationProofs, RetrievalProofs, SqlProofs
    Questions <- ChatPipeline <- MCChatPipeline
                              <- ChatPipelineProofs
    Retrieval <- MCRetrieval
              <- RetrievalProofs

**VectorStore** is the state of the index and its single calls. A document's id
is a hash of its filename, so a filename stands for both; a point's id is a hash
of document and chunk index, so `UpsertPoints` overwrites chunk by chunk and
leaves higher indices alone. A point carries the content it was cut from and the
version of the chunker. `Size[c][v]` is the number of chunks.

**DocumentLibrary** composes the store with the directory, the request threads
(`Workers`), the boot-time thread (`BootThread`), failures and stops. One action is
one call to Qdrant, to the file system or to the cache; `pc[t]` names the call
that thread `t` makes next, and `op`, `doc`, `body`, `listed`, `todo` are its
local variables. `overtaken` and `suspect` are history variables: which searches
listed the index while a write of it was under way, and whether the filename cache
was set by one.

| Code | Actions |
|---|---|
| `ingest` (upload) | `BeginUpload`, `Load`, `Exists`, `Create`, `Clear`, `Delete`, `Upsert`, `Forget`, `Replace` |
| `ingest_directory` | `BeginIngest` or `AutoStart`, `List`, `Stale`, `Scan`, `NextFile`, the steps of `ingest_file`, `Quarantine`, `IngestDone` |
| `delete_document` | `BeginDelete`, `Find`, `Clear`, `Delete`, `Unlink` |
| `search` | `BeginSearch`, `Probe`, `Check`, `Fill`, `Store`, `Recall` |
| exceptions | `Raise` (nothing was written), `RaiseLate` (written, answer lost), `Refuse` (the upload's own fault) |
| `lifespan`, the process | `Boot`, `AutoStart`, `Crash` |

Listing is one action though it scrolls in pages of 500 points; the files of a
directory are taken in any order, of which the sorted one is a case;
`collection_exists` before listing and before deleting is merged with the call
it guards, as a collection is never dropped. Requests that the route refuses
before it touches anything (415, 413) are not modelled.

**Chunking** is what happens to one file inside `load_sections` and `chunk_sections`.
The initial state chooses any sequence of blocks; `SplitLine` is one turn of the loop
of `split_markdown`, with `stack`, `cur`, `lines` and `in_fence` as in the code;
`Cut` cuts each section. A heading is the number of its block. What the chunks are
compared with is written from the reader's side: `Headings` by CommonMark's rule for
fences and by the styles of a DOCX, `Above(i)` the headings that block `i` stands
under. The text splitter is external: `Pieces` are windows of lines that overlap,
blank lines among them; `Cut` strips the pieces and drops the blank ones, as
`chunk_sections` does. The pages of a PDF are cut as the text file is, page by page.

**ConversationStore** is the ordered dictionary: `order` its keys, `msgs` its lists.
`get` and `add_turn` hold the lock, so each is one action. **ChatRoutes** runs
requests over it: `TurnedAway` is a request that is refused, `Ask` reads the history,
`Record` adds the turn. A client that goes is found out at a `yield` (`Disconnect`):
before the turn was added ("left") or after it ("unheard"). `kept` and `byTurn` are
history variables that only the properties read. **BoundedMemory** says what a
follow-up question relies on, in nine lines and without an order of sessions;
`ImplementsMemory` is the refinement. **ChatClients** composes the routes with the
browser sessions of the UI: `Submit` shows a question and sends it with the session
id that the client knows, `ReadToTheEnd` takes the id and the answer from the "done"
frame, `LoseStream` and `NewConversation` may come at any moment of a stream, and the
server may notice (`NoticesLoss`) or finish as if nothing had happened. `Call` stands
for other clients, of `POST /chat`, in sessions of their own. How the text of a frame
is drawn is left out.

**CitationStream** defines `ScrubCitations` as the regular expression does it
and `Drain` as the loop of `feed` does it (`Pass` is one turn of that loop), over
texts of brackets, spaces, words, a retrieved and a made-up file name. The initial
state chooses any reply, and `Feed` takes any next token of it.

**SqlAgent** is any number of runs that share `_schema_cache`. A draft is what
`validate_sql` says of it (**SqlValidator** says why). `now[r]` is the time at which
the run looked the cache up, which is the time the saved entry is given. Reading the
clock and the cache is one step.

**SqlValidator** is `validate_sql`, one action for each check in the order of the
code. A statement is a query or a union of queries with a WITH around it and one in
each branch; joins and subqueries are read like the bodies of CTEs. `Scopes` are what
`build_scope` yields and `Tables` the references in them that are no CTE.
`TablesRead` is what the database does with the statement, defined apart from the
scopes: it runs the branches with an environment that the WITHs extend one CTE at a
time. A table's name is one of four classes: allowed, `pg_` (`System`),
`information_schema` (`Catalog`, which is refused as the name of a CTE but is
otherwise a name like any other), and the rest, in the database or not; forbidden
nodes and blocked functions are one flag.

**Questions** is what the service decides about a question from its words alone. A
text is a sequence of words; the vocabulary of each regular expression is a set of
words, so that `Terms`, `NeedsRewrite`, `Condensed`, `IsSensitiveRequest` and
`RuleRoute` keep every rule and its order. `Glue` is what the fallback rewrite puts
between the question and the one before, "in the context of". **ChatPipeline** takes
the turns of one session through the nodes of the graph, an action for a node: `Ask`,
`Condense`, `Route`, `Retrieve` and `RunSql` (or their failures) in either order
where both are asked, `AnswerCanned` or `AnswerByModel` or `AnswerFails`, and
`Remember`, which is the route handler's `add_turn`. The model's rewrite, route and
halves of a question are any of a set of texts. `calls` is a history variable with
what the model was asked in this turn. Turns have no bound: the memory has.

**Retrieval** is one search: `Query`, `QueryNamed` and `ScrollHeadings` are its
calls to Qdrant, each with every result that Qdrant may give among equal scores;
`Rank` and `Select` are the two stages of `retrieval.py`, `SelectContext` the loop
as it is written. The embedding's likeness is arbitrary; keyword scores are
computed, from what the chunks say and what is asked, as `keyword_scores` does it,
with the logarithm of rarity as a table of whole numbers (`Rarity`). Headings are
searched for the first `MaxSearched` words of the question (10 in the code); a
question being a set of words here, they are any of them.

Mutants stand before the definition they stand for, each with a comment. No
specification uses them; they are the bugs that show a property can fail.

## 3. Runs

The passing runs:

| Run | Question | Instance |
|---|---|---|
| `library_exclusive` | Is the index whole and as the files say, quarantine fair, success true, "done" true, through failures, late errors and a stop, if requests that write one document are kept apart? | 2 names, contents of 1 and 2 chunks and an unreadable one, 2 workers and the boot thread, 1 failure, 1 stop |
| `library_concurrent` | What holds with no discipline at all: a right filename cache, good files, progress? | uploads, deletes and searches of 1 name, 2 contents, 2 workers and the boot thread, 1 stop, no failing call |
| `chat` | Is the memory what a follow-up relies on and what the user sees, and is a stream told its end, through failures, disconnects, lost streams, new conversations and a restart? | 4 turns, 3 sessions, 1 browser session beside other clients, bounds of 2 and 2, 1 token, 1 restart |
| `citation_stream` | Is a stream the one-shot scrub? | all replies of up to 6 symbols out of 5 (plain words are left to the proofs), all cuts |
| `sql_agent` | How stale may a prompt be, does the audit tell the truth, and does a run end? | 2 runs of 2 attempts, 4 drafts, lifetime 1, clock to 2, 1 migration, 1 failure each of the database, the model and the audit |
| `chat_pipeline` | Can a model, a failing source or an earlier turn mislead a question, and does each turn end? | 12 questions, 4 rewrites and 3 halves over 17 words, memory of 2 turns, rewrites from the last one |
| `retrieval` | Is the context the best evidence, empty only if there is none, and do words count as they should? | 4 chunks in 3 sections of 2 documents, 16 corpora and 6 questions over 7 words, 2 of them searched for in headings, 3 semantic scores, pools of 2, contexts of 2 and 3, 1 per section |
| `chunking` | Is every line found under the headings it stands under, and nothing else, in order and in no blank chunk? | Markdown of up to 6 blocks out of 8, DOCX of up to 5 out of 9, text; 3 levels of headings, chunks of 2 lines that overlap by 1 |
| `sql_validator` | Does an accepted statement read allowed tables only, and which refusals are retried? | queries with up to 2 CTEs and unions of 2 with 1 CTE each, 7 sources, limits to 1 beyond the cap |

Why the bounds are enough to see the interesting cases: two contents of
different length are what it takes for a tail to survive; two workers and the
boot thread are one more than the two that any of the races needs; bounds of two
turns and two sessions with four turns over three sessions make trimming happen,
and eviction, and the return of an evicted session; six symbols hold a citation
with spaces before it and text around it, or two citations, cut in every way; a
migration and a clock of twice the lifetime let a slow run save its old schema
over a new one; a memory of two turns, of which a rewrite may use one, tells what
is remembered from what may be used, and the questions hold every class of word
alone and beside another; pools of two among four chunks let one document crowd
out another; one browser session meets every other client in the routes and in the
memory, and another of its kind would meet it there as they do; six blocks hold
three nested headings, a fence and text, two a table of contents in front of them;
two CTEs or two branches are what it takes for a name to mean two things.

`Exclusive` is a discipline of the clients, not of the code: with it TRUE no
request is begun while another one in flight may write the same document
(a directory ingest may write all, a search none). The README of the service assumes
a single user; the runs below show what happens without the discipline.
`library_exclusive` has no searches, which write nothing but the cache;
`library_concurrent` has them beside everything, with no discipline, and checks the
cache there. It has no worker's ingest, as the boot thread's is beside both workers,
and no failing call, since one makes the run three times as long: the proof of
`CacheNeverStale` covers failures too, and `EventuallyIndexed` excepts them.

`CHECK_DEADLOCK FALSE` is set where the requests are a finite set and the system
stops when they have been served; the document library never stops.

Runs that find what a line of the repository says to be untrue (`findings` of
`PROJECT.json` quotes each line):

| Run | What happens |
|---|---|
| `library_mixed_chunks` | Both of two uploads delete before either upserts: chunks of both stay. |
| `library_folded_name` | `my file.md` is deleted as `my_file.md`: its file stays and comes back at the next boot. |
| `chat_mention` | "Tell me more about it" after a question about the password policy is refused as an extraction of secrets, for the checks run again on the rewritten text. |

Disagreements met on the way that no run of their own is spent on; the models
keep the code's behaviour, and the property named excepts exactly the case:

- a directory ingest that has read a file before a delete of its document upserts
  it afterwards, and it stays indexed without a file (`IndexMatchesFile`, with
  `Exclusive` false);
- a file found unreadable may be replaced by a good upload before it is renamed,
  and the good one is quarantined (`QuarantineOnlyBad`, with `Exclusive` false);
- `_filenames()` may return None to `search()`, when another thread resets the
  cache between its check and its return (`Recall` after `Clear`);
- a search that lists the filenames between the invalidation and the deletion of
  `delete_vectors` caches the name that is deleted, and nothing resets it until the
  next change (`CacheCoherent` excepts a cache set by such a search, `suspect`);
- a document that the boot-time ingest skips as indexed loses its points to an
  upload that fails between its delete and its upsert, and the ingest is "done" with
  the file not indexed (`EventuallyIndexed` excepts failing calls);
- two first uploads may both find no collection, and the one that loses `Create`
  is answered with an error, where `tests/test_api.py:165` expects two successes;
- eviction goes by the last answered turn (`EvictsOldest`) and not by the last
  use, though `conversation_store.py:1` says LRU: `get()` refreshes nothing;
- with `history_turns = 0` the slice `msgs[-0:]` trims nothing (`LastOf`);
- "only files actually retrieved may be cited" (`answer_service.py:18`), but the scrub
  looks at the first file name of a citation: `[retrieved.md made_up.md]` is shown as
  it is (`MadeUpNeverLeads` says what is left of the promise);
- of `[[made_up.md] made_up.md]` the scrubber leaves `[ made_up.md]`, a citation
  of a file that was not retrieved (`MadeUpNeverLeads`, `Flat`);
- a token that ends in a space sends it before the made-up citation that the
  one-shot scrub would drop it with (`ExactUnlessCutAtSpace`);
- "named document first; others only as fallback" (`retrieval.py:192`): the
  others are a fallback for a document that has no chunks; where it has some, all
  unlike the question, the context is empty (`EmptyMeansNothing`);
- the heading pool matches whole words: a singular question word does not find a
  heading that has its plural only (`EmptyMeansNothing` excepts it);
- headings are searched for the first ten words of a question (`retrieval.py:98`): of
  a longer one, a chunk whose heading has a later word may not be found, and the
  context is empty though that chunk has every word (`EmptyMeansNothing` excepts it);
- the fallback rewrite "never invents new content" (`condense.py:111`), but "context" of
  its "in the context of" is a term like any other for the search that follows, and
  the code's own check of a rewrite would refuse it (`RewriteFaithful` excepts it);
- a `~~~` line inside a block fenced with backticks ends the block for
  `split_markdown`, whose docstring promises to ignore '#' lines inside fenced code
  blocks; every heading after it is taken for code until the next fence (`Plain`);
- the rows of a DOCX's tables are written after its last paragraph and are found
  under its last heading, wherever their table stands (`Place`);
- a DOCX paragraph without a heading style that looks like a heading or a fence is
  one, though "everything else stays plain text" (`Plain`);
- an attempt in which the language model cannot be reached leaves no row, though
  "every attempt (accepted / rejected / errored)" should (`EveryDraftLogged` leaves
  out exactly these);
- of a statement with a misspelt table and one of the system's, the first that is
  looked at decides whether the model is asked again (`CheckTables`);
- a misspelt table is repairable, but not when it is written `public.name`; a table
  that exists but is not allowed, such as `query_log`, and a bare `information_schema`
  are given back to the model as if they were misspelt (`Fault`);
- a computed limit below the cap is raised to the cap (`Clamp`), where the comment
  says "clamps LIMIT down";
- a first question whose stream is lost is remembered in a session that its client
  never learns, so its next question starts another (`ConversationAgrees`);
- when the schema cannot be read in a second attempt, its row names the SQL of
  the first (`AuditTellsTheOutcome`).

## 4. Fairness

`DocumentLibrary!FairSpec` asks weak fairness of each thread's `Step` and of
`AutoStart`: threads are scheduled by the operating system, and every call they
make ends (the Qdrant client has a timeout of 30 s). Nothing is asked of
`Raise`, of new requests, of `Boot` or of `Crash`: docker-compose has no restart
policy for the API, so a stopped process may stay down, and `EventuallyIndexed`
says so. `SqlAgent!FairSpec` asks weak fairness of each run's `Step`: the model's
client, the statement timeout and the pool's timeout bound each call; for the same
reason `ChatPipeline!FairSpec` asks it of the turn's `Step`. Which of
the outcomes of a call occurs is left open.

## 5. Proofs

Each theorem holds for all values of the constants that satisfy the assumptions
stated in the modules, which are only that names, sentinels and bounds are what they
must be: any set of names, threads, sessions, clients, runs and words, any number of
failures and restarts. The runs, the chunks of an index and its words are assumed
finite, since sums over them are taken. TLC has checked each inductive invariant on a
small instance too. Every proof has the same outline: the initial states satisfy the
invariant, each action keeps it (a step for each action and, under it, one for each
conjunct that the action can disturb), and the invariant implies the property.

**DocumentLibraryProofs** (any chunk counts between one and `MaxChunks`, any
idempotent `SafeName`):

- `TypeCorrect`: `TypeOK` is not inductive: an upsert keeps the type of `points`
  only if the thread has loaded a readable content and has a document. `TInv` adds
  that (`ControlOK`, `LocalsOK`: what a thread's local variables hold at each label)
  and that a stopped process has no thread at work.
- `NeverMixed`: if `Exclusive`, `Spec => []IndexWhole`. The invariant `IInv` adds
  to `TInv` that requests in flight touch different documents (`Apart`) and that
  a document about to be upserted has no points (`Cleared`), so an upsert makes
  exactly a rendering. `Apart` is where `Exclusive` is used; the boot-time ingest
  starts before any request because a boot finds every thread idle. Without
  `Exclusive` the formula is false (`library_mixed_chunks`).
- `RefusedUploadsHarmless`: `Spec => GoodFilesKept`, from `TInv` alone: only
  `Replace`, `Unlink` and `Quarantine` change a file, and `LocalsOK` has a
  readable content at `Replace`. No discipline is needed.
- `OnlyBadSetAside` (`QuarantineOnlyBad`), `UploadAcknowledged`
  (`AcknowledgedIsIndexed`) and `DoneIsIndexed` (`DoneMeansIndexed`), if `Exclusive`,
  with searches beside everything. `FInv` adds to `IInv` what a thread can rely on at
  each call: that the file it loaded is still there as it was (`FileAtHand`), what
  the points are that it wrote (`PointsAtHand`), that the listing it read is still
  what is indexed (`ListedAtHand`), and that a directory ingest has yet to look at
  every file that is not indexed (`CatchingUp`). `ThreadFollows` is about one thread,
  so the proof that another thread's step keeps it is one lemma and not one for every
  pair: a step touches only what the thread claims (`StepFrame`), claims are disjoint
  (`Apart`), and what a thread relies on is about what it claims.
- `CacheNeverStale` (`CacheCoherent`): no hypothesis, in every interleaving. Every
  write resets the cache before it changes the points, so the cache can be wrong only
  if a search sets it between the two. `CInv` adds to `TInv` that the cache is unset
  while a write is under way (`Writing`), unless it is suspect, and that the listing
  a search is about to store is what is indexed, with no write under way, unless the
  search was overtaken (`Filled`). `CacheStep` and `StoreBegins` say what a step may do
  to both.
- `IndexFollowsFiles` (`IndexMatchesFile`), if `Exclusive` and no name is changed by
  `safe_filename` (`NamesSafe`): a document whose index and file disagree is cut off,
  or a thread is between two of its calls about it (`IndexFollows`). Both hypotheses
  are needed: `library_folded_name` shows what another name does.

**ChatClientsProofs**, about the conversation memory under its routes and clients.
`CInv` is `TypeOK` with `RInv`, which says what the routes keep: an accepted request
has a session (`Accepted`), a session is in the dictionary once and has a history
exactly if it is there, its messages are the exchanges of the last `MaxTurns` turns
of that history (`KeptWhole`), and a stream that has not ended has sent tokens only
(`FramesInv`). The work is in the sequences: that the last elements of a list that
grows are those of its last elements with the new one (`LastOfAppend`), that pairs
of messages and turns are cut alike (`PairsLastOf`), and that putting a session back
at the end of the dictionary and cutting it gives the same as doing so with the list
of all sessions by turn (`EndOfToEnd`).

- `TypeCorrect`, `MemoryIsWhole` (`Remembers`), `FinalFrames` (`OneFinalFrame`) follow
  from `CInv`.
- `ForgetsTheOldest` (`EvictsOldest`): with `ByTurnInv`, that `byTurn` has each
  session once.
- `AnswersAreRemembered` (`AnsweredIsRemembered`): with `AnsweredInv`, that a turn
  answered, heard or unheard, is in the history of its session as long as all
  sessions that had a turn fit into the store, and that one not answered, because it
  failed or its client was found to have left, is in none.
- `ClientsAgree` (`ConversationAgrees`): `TalkInv` says that the turns of a session
  are of one client (`OwnersInv`), that each is kept once and where it belongs
  (`KeptInv`), that the turn a client waits for is of the session it knows or the
  first of its own, and is kept after every turn the client has an answer to
  (`Asks`), and that the answers kept are the last of those shown (`Shows`). The
  order of answers in the memory is that of `Record`, the order on the screen that
  of `ReadToTheEnd`; they agree because a client reads one stream at a time. The
  property picks the turns shown out of those kept with a fold (`Those`).
- `StoreImplementsMemory`: each step of the routes maps to a step of `BoundedMemory`
  or to none, if `MaxTurns > 0`. With a bound of zero the slice keeps everything,
  and the store implements no bounded memory.

**ChatPipelineProofs**. `TInv` adds to the types that a memory that is not empty ends
in a question and its answer (`Paired`), which is why a fallback always finds a last
question. `Course` adds what a turn has done at each node: nothing before the route is
chosen (`Unrouted`), the route that the words name (`Decided`), which sources have
been heard and what is pending (`Heard`), what the model was asked for (`Worded`),
what a sensitive question never does (`Guarded`), and that the standalone question is
one that `condense_question` can return (`Rewritten`): of the fallback's terms, those
that are not the conversation's are its glue's. From it follow
`SensitiveStaysTyped`, `RoutedByTheWords`, `AnswersAreGrounded` and
`RewritesAreFaithful`.

**ChunkingProofs** (files of any length and levels, pieces of any size with any
smaller overlap). The properties say what a reader sees and the code keeps a stack
and a flag, so `SplitInv` relates the two at every turn of the loop: `in_fence` says
that a fence is open by CommonMark's rule (`FenceInv`, from `Plain`; the rule is a
fold over the blocks, and `OpenFenceSteps` gives its step), the stack lists the
headings that stand above the next line (`Lists`, `Standing`; `PopAndPush` is the
step of the loop that pops), and the sections with the lines not yet flushed have all
of the text so far in order (`SectionsInv`, `LinesInv`). `PieceFacts` says where
pieces begin and end, `CutGood` what a section is cut into (of the pieces that are
not blank, without their blank ends), and `CutsGood` follows the fold over the
sections. From the invariant `ChunksInv` at the end come `EveryLineWhereItStands`
(`ChunkedWhereItStands`) and `ChunksAreInOrder` (`ChunksInOrder`). Both speak of
plain documents, as the properties do: of others the code makes what a reader does
not see.

**SqlProofs**, about the runs of the SQL agent. `FreshPrompts`: an entry of the
cache, and a prompt that is about to be saved as one, had not been replaced at the
time it is stamped with (`FreshInv`), so that a slow run that saves an old schema
over a new one saves it with an old time. It assumes `TTL > 0`: of entries that do
not live the theorem says nothing. `AuditTruthful`: where a run is (`Place`: the
number of its rows goes with its attempt, a draft is checked before it is executed)
and what its rows say (`Tells`). `AuditComplete` (`EveryDraftLogged`): at every step
the rows of all runs, with those that could not be written and the attempts that got
no draft, are as many as the attempts that all runs have made (`Accounted`, a sum
over the runs of which each step changes one term).

**SqlProofs**, about the validator. `OnlyRepairableRetried`: `Passed` says which checks a
statement has passed at each stage, so that a retryable refusal is one of a statement
that has passed every check before that of its tables, and is for the sake of a table
named without a schema that is neither allowed nor a system's. `AcceptedIsAllowed`
(`AcceptedReadsAllowed`): two computations over the statement are compared, the
scopes that `validate_sql` looks at and the environment in which the database runs
the branches. `BindGood` is the induction along the CTEs of a WITH: while every scope
reads only allowed tables or CTEs in scope, every name bound so far reads allowed
tables only.

**RetrievalProofs**. `SearchInv` says what each call of a search leaves: the pool
covers the nearest chunks (`Covered`), the ranking is of the considered candidates in
order (`RankedBest`), and the context is what a loop over it has picked (`Selected`,
proved of the fold by induction along the ranking). From it follow `TypeCorrect`,
`SelectionIsBest` (`ContextIsBest`), `EvidenceForAll` (`OnlyEvidence`),
`WordsCountAsTheyShould` (`WordsCount`, from the facts about sums: a sum over more
words is no less) and `EmptyIsTrueOfTheIndex` (`EmptyMeansNothing`: a chunk that the
pool of `CandidateK` leaves out is no nearer than each of those in it).

**CitationProofs** (replies of any length, tokens of any size). The one-shot scrub
looks at the whole reply, the scrubber only at what it holds; `StreamInv` says that
what was sent is the scrub of a beginning of the reply in which every opened bracket
is closed (`Follows`), and that the rest of what was received is held back: nothing,
or an open bracket with the spaces that lead up to it (`Held`). It rests on
`ScrubJoin`: when every bracket of `a` is closed in `a`, scrubbing `a \o b` is
scrubbing `a` and then `b`, exactly if `a` does not end in a space and up to spaces
in any case (`ScrubSpacesJoin`). `PassFollows` is one turn of the loop of `feed`;
that a turn for each symbol of the buffer is enough is an induction that
`DrainFollows` makes: each turn takes something out of the buffer or leaves it held
(`Held`). From `StreamInvariant` follow `StreamFollowsReply`
(`FollowsScrubbedReply`), `StreamIsExact` (`ExactUnlessCutAtSpace`) and
`StreamCitesRetrieved` (`MadeUpNeverLeads`, from what the scrub leaves of a reply
without nested brackets).

**FoldFacts** has what the folds of the community modules compute. The provers cannot
use an induction principle stated over a predicate; here induction is over a set of
numbers (`NaturalInduction`, `BoundedInduction`) or of finite sets
(`SubsetInduction`). The recursive function inside a fold is shown to exist
(`FoldExists`), so that a fold over a sequence (`SequenceFoldIs`) and a sum over a
finite set (`SumRecurses`) obey their equations, and a property kept by each step of
a fold is true of its result (`FoldsWithin`).

TLC only:

- liveness: `EventuallyIndexed`, `RequestsEnd`, `RunsEnd`, `TurnsEnd`; the provers
  have neither `ENABLED` nor fairness.

## 6. Known limits of the models

- A stop, or an error after the write, between the upsert of an upload and the
  move of its file leaves the index with content that the library does not hold,
  and the next boot skips the document because it is indexed. The code has no
  recovery for it; `cutOff` records the documents it has happened to and
  `IndexMatchesFile` speaks of the others.
- What overlapping writes of one document do to the index is shown by
  `library_mixed_chunks` and listed above; the properties of the index that
  `library_exclusive` checks do not speak of it.
- Listing in pages, leftover temporary directories and a second `VectorStore`
  made by a race in `get_store` are hazards that no model has yet.
- Answers of the language model and the semantic likeness of texts are arbitrary
  choices. Words of a text are far fewer than the vocabularies of the code, and
  their distance in a text is not counted. Fillers that `_clean` strips ("I mean"), from
  sensitive questions too, are no words of the models.
- `Chunking` counts lines where the code counts characters; how the text splitter
  chooses its places to cut is not modelled, so how long chunks are and how far they
  overlap is its promise and no property here; nor is what the readers of PDF and DOCX
  make of a damaged file.
- `SqlValidator` has no recursive CTEs and no two CTEs of one WITH that share a
  name. What it refuses as a whole (`refused`) is not told apart.
- `SqlAgent` gives every database error a message; `sql_agent.py:247` would raise on
  one without any.
- `ChatPipeline` takes the turns of a session one after another; that requests
  overlap, `ChatRoutes` models. `Retrieval` keeps the index as it is during a
  search.
- Of the frontend only the chat is modelled; the list of documents, the upload
  button and the drawing call the API and keep nothing.
- Database scripts, settings, prompts, wiring, health probes and record types have
  no behaviour of their own to check.

## 7. Plan

1. Done: the document library, chunking, conversation memory, chat routes and their
   clients, the citation scrubber, the SQL agent and its validator, the chat pipeline
   with its routing and rewriting, retrieval; the theorems of section 5.
2. `QueryLog`: the retention thread of `starter.py` with the rows of `SqlAgent`.
3. An index that changes during a search (`Retrieval` over `VectorStore`), a
   second store made by a race in `get_store`, listings in pages.

## 8. Running

    tlc -workers 2 -config LibraryExclusive.cfg MCDocumentLibrary.tla
    tlapm ChatClientsProofs.tla

`runs` of `PROJECT.json` names the module and the configuration of every run, and
`theorems` the module of every proof.
