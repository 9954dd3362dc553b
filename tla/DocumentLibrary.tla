--------------------------- MODULE DocumentLibrary ---------------------------
(***************************************************************************)
(* The document library: the files of data/documents and the vector index  *)
(* that must follow them.                                                  *)
(*                                                                         *)
(* Four kinds of thread work on it with no lock between them:              *)
(*   - POST /documents/ingest with a file (an upload) or without one       *)
(*     (ingest_directory, optionally forced);                              *)
(*   - DELETE /documents/{id};                                             *)
(*   - VectorStore.search, called for a chat turn;                         *)
(*   - the auto-ingest thread that the service starts when it boots.       *)
(*                                                                         *)
(* FastAPI runs each request in a thread of its pool, so between any two   *)
(* calls to Qdrant, to the file system or to the filename cache another    *)
(* thread may run: each such call is one action here.  A thread's local    *)
(* variables are op, doc, body, listed and todo.                           *)
(*                                                                         *)
(* An exception that reaches the route ends the request.  The process may  *)
(* stop at any step and be started again; files and points outlive it.     *)
(***************************************************************************)
EXTENDS VectorStore

CONSTANTS
  Workers,      \* request threads
  BootThread,   \* the auto-ingest thread
  SafeName,     \* safe_filename, on the names in play
  Requests,     \* the kinds of request that clients send
  Exclusive,    \* whether clients keep requests that write one document apart
  MaxFailures,  \* bound on failing backend calls
  MaxCrashes,   \* bound on process stops
  LateErrors    \* whether a write may take effect and still raise

Threads == Workers \cup {BootThread}
Ingests == {"ingest", "forced"}
Ops     == Ingests \cup {"upload", "delete", "search"}
NoOp    == "none"

ASSUME ThreadsAssumption  == BootThread \notin Workers
ASSUME SafeNameAssumption == /\ SafeName \in [Names -> Names]
                             /\ \A n \in Names : SafeName[SafeName[n]] = SafeName[n]
ASSUME RequestsAssumption == Requests \subseteq Ops
ASSUME BoundsAssumption   == /\ Exclusive \in BOOLEAN
                             /\ LateErrors \in BOOLEAN
                             /\ MaxFailures \in Nat
                             /\ MaxCrashes \in Nat
ASSUME NoValueAssumption  == /\ NoValue \notin Names
                             /\ NoValue \notin Contents
                             /\ NoValue \notin Payload

VARIABLES
  files,        \* files[n] = content of data/documents/n, or NoValue
  quarantined,  \* quarantined[n] = content of data/documents/n.failed, or NoValue
  pc,           \* the call each thread is about to make
  op,           \* the request each thread serves
  doc,          \* the document it is at
  body,         \* the content it has received or loaded
  listed,       \* its last listing of the index
  todo,         \* the files ingest_directory has yet to look at
  status,       \* ingest_status
  up,           \* whether the process runs
  failures, crashes,
  cutOff,       \* history: the documents with an upload that was cut off between
                \* the upsert of its points and the move of its file
  overtaken,    \* history: the searches at work whose listing of the index is
                \* overlapped by a write of it
  suspect       \* history: whether the filename cache was set by such a search

locals  == <<op, doc, body, listed, todo>>
overlap == <<overtaken, suspect>>
faults  == <<failures, crashes, cutOff, overlap>>
process == <<status, up, faults>>
vars    == <<storeVars, files, quarantined, pc, locals, process>>

WriteCalls   == {"create", "delete", "upsert"}
BackendCalls == WriteCalls \cup {"list", "stale", "exists", "find", "probe", "fill"}
Labels ==
  BackendCalls \cup {"idle", "boot", "scan", "next", "load", "quarantine", "clear",
                     "forget", "replace", "unlink", "check", "store", "recall"}
Statuses == {"disabled", "pending", "running", "done", "failed"}

TypeOK ==
  /\ StoreTypeOK
  /\ files \in [Names -> Contents \cup {NoValue}]
  /\ quarantined \in [Names -> Contents \cup {NoValue}]
  /\ pc \in [Threads -> Labels]
  /\ op \in [Threads -> Ops \cup {NoOp}]
  /\ doc \in [Threads -> Names \cup {NoValue}]
  /\ body \in [Threads -> Contents \cup {NoValue}]
  /\ listed \in [Threads -> SUBSET Names]
  /\ todo \in [Threads -> SUBSET Names]
  /\ status \in Statuses
  /\ up \in BOOLEAN
  /\ failures \in 0 .. MaxFailures
  /\ crashes \in 0 .. MaxCrashes
  /\ cutOff \subseteq Names
  /\ overtaken \subseteq Threads
  /\ suspect \in BOOLEAN

Present == {n \in Names : files[n] # NoValue}
Busy(t) == pc[t] # "idle"

\* The documents that a request for n of kind k may write.
Touches(k, n) ==
  CASE k = "upload" -> {n}
    [] k = "delete" -> {n, SafeName[n]}
    [] k = "search" -> {}
    [] OTHER        -> Names

Claims(t) == Touches(op[t], doc[t])

\* No request in flight writes the documents of S.
Free(S) == \A u \in Threads : Busy(u) => Claims(u) \cap S = {}

\* Some thread has reset the filename cache and is about to change the points.
Writing == \E u \in Threads : pc[u] \in {"delete", "upsert"}

(***************************************************************************)
(* A deployment starts with the files its operator put in place, and with  *)
(* no index or with the one that an older version of the program left.     *)
(***************************************************************************)
Upgraded(n) == IF files[n] \in Readable THEN Rendering(files[n], "old") ELSE NoPoints

Init ==
  /\ files \in [Names -> Contents \cup {NoValue}]
  /\ quarantined = [n \in Names |-> NoValue]
  /\ collection \in BOOLEAN
  /\ points = [n \in Names |-> IF collection THEN Upgraded(n) ELSE NoPoints]
  /\ cache = NoValue
  /\ pc = [t \in Threads |-> "idle"]
  /\ op = [t \in Threads |-> NoOp]
  /\ doc = [t \in Threads |-> NoValue]
  /\ body = [t \in Threads |-> NoValue]
  /\ listed = [t \in Threads |-> {}]
  /\ todo = [t \in Threads |-> {}]
  /\ status = "disabled"
  /\ up = FALSE
  /\ failures = 0
  /\ crashes = 0
  /\ cutOff = {}
  /\ overtaken = {}
  /\ suspect = FALSE

(***************************************************************************)
(* Control.                                                                *)
(***************************************************************************)
GoTo(t, from, to) ==
  /\ pc[t] = from
  /\ pc' = [pc EXCEPT ![t] = to]

\* t's call is over: the request is answered, or the boot-time ingest ends.
Finish(t, outcome) ==
  /\ pc' = [pc EXCEPT ![t] = "idle"]
  /\ op' = [op EXCEPT ![t] = NoOp]
  /\ doc' = [doc EXCEPT ![t] = NoValue]
  /\ body' = [body EXCEPT ![t] = NoValue]
  /\ listed' = [listed EXCEPT ![t] = {}]
  /\ todo' = [todo EXCEPT ![t] = {}]
  /\ status' = IF t = BootThread THEN outcome ELSE status

\* A worker takes request k on document n with content c.
Begin(t, k, n, c, first) ==
  /\ up
  /\ k \in Requests
  /\ Exclusive => Free(Touches(k, n))
  /\ GoTo(t, "idle", first)
  /\ op' = [op EXCEPT ![t] = k]
  /\ doc' = [doc EXCEPT ![t] = n]
  /\ body' = [body EXCEPT ![t] = c]
  /\ UNCHANGED <<storeVars, files, quarantined, listed, todo, process>>

BeginUpload(t, n, c) == Begin(t, "upload", SafeName[n], c, "load")
BeginIngest(t, k)    == k \in Ingests /\ Begin(t, k, NoValue, NoValue, "list")
BeginDelete(t, n)    == Begin(t, "delete", n, NoValue, "find")
BeginSearch(t)       == Begin(t, "search", NoValue, NoValue, "probe")

(***************************************************************************)
(* ingest_directory.                                                       *)
(***************************************************************************)
List(t) ==
  /\ GoTo(t, "list", "stale")
  /\ listed' = [listed EXCEPT ![t] = Indexed]
  /\ UNCHANGED <<storeVars, files, quarantined, op, doc, body, todo, process>>

\* Mutant of Stale: documents of an older chunker count as indexed.
StaleIgnored(t) ==
  /\ GoTo(t, "stale", "scan")
  /\ UNCHANGED <<storeVars, files, quarantined, locals, process>>

Stale(t) ==
  /\ GoTo(t, "stale", "scan")
  /\ listed' = [listed EXCEPT ![t] = @ \ StaleDocs]
  /\ UNCHANGED <<storeVars, files, quarantined, op, doc, body, todo, process>>

\* sorted(docs_dir().iterdir()), less the files to be skipped as indexed.
Scan(t) ==
  /\ GoTo(t, "scan", "next")
  /\ todo' = [todo EXCEPT ![t] =
                IF op[t] = "forced" THEN Present ELSE Present \ listed[t]]
  /\ listed' = [listed EXCEPT ![t] = {}]
  /\ UNCHANGED <<storeVars, files, quarantined, op, doc, body, process>>

\* Mutant of NextFile: a file that is gone stays on the list.
NextFileAgain(t) ==
  \E n \in todo[t] :
    /\ GoTo(t, "next", IF files[n] = NoValue THEN "next" ELSE "load")
    /\ todo' = [todo EXCEPT ![t] = IF files[n] = NoValue THEN @ ELSE @ \ {n}]
    /\ doc' = [doc EXCEPT ![t] = IF files[n] = NoValue THEN NoValue ELSE n]
    /\ UNCHANGED <<storeVars, files, quarantined, op, body, listed, process>>

\* A file that is gone by now fails path.is_file() and is passed over.
NextFile(t) ==
  \E n \in todo[t] :
    /\ GoTo(t, "next", IF files[n] = NoValue THEN "next" ELSE "load")
    /\ todo' = [todo EXCEPT ![t] = @ \ {n}]
    /\ doc' = [doc EXCEPT ![t] = IF files[n] = NoValue THEN NoValue ELSE n]
    /\ UNCHANGED <<storeVars, files, quarantined, op, body, listed, process>>

IngestDone(t) ==
  /\ pc[t] = "next"
  /\ todo[t] = {}
  /\ Finish(t, "done")
  /\ UNCHANGED <<storeVars, files, quarantined, up, faults>>

\* path.rename raises when the file has gone since.
Quarantine(t) ==
  /\ pc[t] = "quarantine"
  /\ IF files[doc[t]] = NoValue
       THEN /\ Finish(t, "failed")
            /\ UNCHANGED <<files, quarantined>>
       ELSE /\ GoTo(t, "quarantine", "next")
            /\ files' = [files EXCEPT ![doc[t]] = NoValue]
            /\ quarantined' = [quarantined EXCEPT ![doc[t]] = files[doc[t]]]
            /\ doc' = [doc EXCEPT ![t] = NoValue]
            /\ UNCHANGED <<op, body, listed, todo, status>>
  /\ UNCHANGED <<storeVars, up, faults>>

(***************************************************************************)
(* VectorStore.ingest_file, called by an upload on its temporary copy and  *)
(* by ingest_directory on the file itself.                                 *)
(***************************************************************************)
\* The bytes that load_sections reads: an upload's temporary copy, or the file.
Source(t) == IF op[t] = "upload" THEN body[t] ELSE files[doc[t]]

\* load_sections and chunk_sections make chunks of them.
Accept(t) ==
  /\ GoTo(t, "load", "exists")
  /\ Source(t) \in Readable
  /\ body' = [body EXCEPT ![t] = Source(t)]
  /\ UNCHANGED <<storeVars, files, quarantined, op, doc, listed, todo, process>>

\* ValueError, from a file of the directory.
SetAside(t) ==
  /\ GoTo(t, "load", "quarantine")
  /\ Source(t) \in Unreadable
  /\ op[t] \in Ingests
  /\ UNCHANGED <<storeVars, files, quarantined, locals, process>>

\* Mutant of Refuse: the upload was written over the file before it was read.
RefuseInPlace(t) ==
  /\ pc[t] = "load"
  /\ op[t] = "upload"
  /\ Source(t) \in Unreadable
  /\ files' = [files EXCEPT ![doc[t]] = body[t]]
  /\ Finish(t, "failed")
  /\ UNCHANGED <<storeVars, quarantined, up, faults>>

\* An unreadable upload is answered 422, and a file that has gone since is_file()
\* raises FileNotFoundError.
Refuse(t) ==
  /\ pc[t] = "load"
  /\ \/ Source(t) = NoValue
     \/ Source(t) \in Unreadable /\ op[t] = "upload"
  /\ Finish(t, "failed")
  /\ UNCHANGED <<storeVars, files, quarantined, up, faults>>

Load(t) == Accept(t) \/ SetAside(t) \/ Refuse(t)

\* The chunks are embedded, then _ensure_collection looks for the collection.
Exists(t) ==
  /\ GoTo(t, "exists", IF collection THEN "clear" ELSE "create")
  /\ UNCHANGED <<storeVars, files, quarantined, locals, process>>

\* Qdrant refuses to create a collection that another thread has created.
Create(t) ==
  /\ pc[t] = "create"
  /\ IF collection
       THEN Finish(t, "failed") /\ UNCHANGED storeVars
       ELSE /\ GoTo(t, "create", "clear")
            /\ CreateCollection
            /\ UNCHANGED <<locals, status>>
  /\ UNCHANGED <<files, quarantined, up, faults>>

\* Mutant of Clear: delete_vectors leaves the filename cache alone.
ClearNothing(t) ==
  /\ GoTo(t, "clear", "delete")
  /\ UNCHANGED <<storeVars, files, quarantined, locals, process>>

\* delete_vectors, in two steps: the filename cache, then the points.
Clear(t) ==
  /\ GoTo(t, "clear", "delete")
  /\ InvalidateCache
  /\ overtaken' = {u \in Threads : pc[u] = "store"}
  /\ suspect' = FALSE
  /\ UNCHANGED <<files, quarantined, locals, status, up, failures, crashes, cutOff>>

Delete(t) ==
  /\ GoTo(t, "delete", IF op[t] = "delete" THEN "unlink" ELSE "upsert")
  /\ DeletePoints(doc[t])
  /\ cutOff' = cutOff \ {doc[t]}
  /\ UNCHANGED <<files, quarantined, locals, status, up, failures, crashes, overlap>>

Upsert(t) ==
  /\ GoTo(t, "upsert", "forget")
  /\ UpsertPoints(doc[t], body[t])
  /\ UNCHANGED <<files, quarantined, locals, process>>

Forget(t) ==
  /\ GoTo(t, "forget", IF op[t] = "upload" THEN "replace" ELSE "next")
  /\ InvalidateCache
  /\ suspect' = FALSE
  /\ UNCHANGED <<files, quarantined, op, listed, todo, status, up, failures, crashes,
                 cutOff, overtaken>>
  /\ IF op[t] = "upload"
       THEN UNCHANGED <<doc, body>>
       ELSE /\ doc' = [doc EXCEPT ![t] = NoValue]
            /\ body' = [body EXCEPT ![t] = NoValue]

(***************************************************************************)
(* The ends of an upload and of a delete, and the start of a delete.       *)
(***************************************************************************)
\* Mutant of Replace: the upload is indexed from its temporary copy, then dropped.
ReplaceNothing(t) ==
  /\ pc[t] = "replace"
  /\ Finish(t, status)
  /\ UNCHANGED <<storeVars, files, quarantined, up, faults>>

\* tmp_path.replace(path): the upload becomes the file.
Replace(t) ==
  /\ pc[t] = "replace"
  /\ files' = [files EXCEPT ![doc[t]] = body[t]]
  /\ Finish(t, status)
  /\ UNCHANGED <<storeVars, quarantined, up, faults>>

\* get_document: 404 unless the index lists the document.
Find(t) ==
  /\ pc[t] = "find"
  /\ IF doc[t] \in Indexed
       THEN GoTo(t, "find", "clear") /\ UNCHANGED <<locals, status>>
       ELSE Finish(t, status)
  /\ UNCHANGED <<storeVars, files, quarantined, up, faults>>

Unlink(t) ==
  /\ pc[t] = "unlink"
  /\ files' = [files EXCEPT ![SafeName[doc[t]]] = NoValue]
  /\ Finish(t, status)
  /\ UNCHANGED <<storeVars, quarantined, up, faults>>

(***************************************************************************)
(* VectorStore.search, as far as it touches the shared state.              *)
(***************************************************************************)
Probe(t) ==
  /\ pc[t] = "probe"
  /\ IF collection
       THEN GoTo(t, "probe", "check") /\ UNCHANGED <<locals, status>>
       ELSE Finish(t, status)
  /\ UNCHANGED <<storeVars, files, quarantined, up, faults>>

Check(t) ==
  /\ GoTo(t, "check", IF cache = NoValue THEN "fill" ELSE "recall")
  /\ UNCHANGED <<storeVars, files, quarantined, locals, process>>

Fill(t) ==
  /\ GoTo(t, "fill", "store")
  /\ listed' = [listed EXCEPT ![t] = Indexed]
  /\ overtaken' = IF Writing THEN overtaken \cup {t} ELSE overtaken
  /\ UNCHANGED <<storeVars, files, quarantined, op, doc, body, todo, status, up,
                 failures, crashes, cutOff, suspect>>

Store(t) ==
  /\ GoTo(t, "store", "recall")
  /\ RememberNames(listed[t])
  /\ suspect' = (t \in overtaken)
  /\ overtaken' = overtaken \ {t}
  /\ UNCHANGED <<files, quarantined, locals, status, up, failures, crashes, cutOff>>

\* _filenames() returns the cache, read once more; the ranking that follows
\* touches nothing shared.
Recall(t) ==
  /\ pc[t] = "recall"
  /\ Finish(t, status)
  /\ UNCHANGED <<storeVars, files, quarantined, up, faults>>

(***************************************************************************)
(* Failures and the life of the process.                                   *)
(***************************************************************************)
\* Mutant of Raise: ingest_directory quarantines on any exception of ingest_file.
RaiseQuarantines(t) ==
  /\ failures < MaxFailures
  /\ pc[t] \in {"exists", "create", "delete", "upsert"}
  /\ op[t] \in Ingests
  /\ failures' = failures + 1
  /\ pc' = [pc EXCEPT ![t] = "quarantine"]
  /\ UNCHANGED <<storeVars, files, quarantined, locals, status, up, crashes, cutOff,
                 overlap>>

\* Mutant of Raise: a failing upsert is swallowed.
RaiseSwallowed(t) ==
  /\ failures < MaxFailures
  /\ GoTo(t, "upsert", "forget")
  /\ failures' = failures + 1
  /\ UNCHANGED <<storeVars, files, quarantined, locals, status, up, crashes, cutOff,
                 overlap>>

\* Qdrant or Ollama is unreachable: the call raises and nothing is written.
Raise(t) ==
  /\ failures < MaxFailures
  /\ pc[t] \in BackendCalls
  /\ failures' = failures + 1
  /\ Finish(t, "failed")
  /\ UNCHANGED <<storeVars, files, quarantined, up, crashes, cutOff, overlap>>

\* The call is carried out but its answer is lost (the client's timeout).
RaiseLate(t) ==
  /\ LateErrors
  /\ failures < MaxFailures
  /\ \/ pc[t] = "create" /\ CreateCollection /\ UNCHANGED cutOff
     \/ pc[t] = "delete" /\ DeletePoints(doc[t]) /\ cutOff' = cutOff \ {doc[t]}
     \/ /\ pc[t] = "upsert"
        /\ UpsertPoints(doc[t], body[t])
        /\ cutOff' = IF op[t] = "upload" THEN cutOff \cup {doc[t]} ELSE cutOff
  /\ failures' = failures + 1
  /\ Finish(t, "failed")
  /\ UNCHANGED <<files, quarantined, up, crashes, overlap>>

\* The lifespan hook, with settings.auto_ingest on or off.
Boot(autoIngest) ==
  /\ ~up
  /\ up' = TRUE
  /\ status' = IF autoIngest THEN "pending" ELSE "disabled"
  /\ pc' = [pc EXCEPT ![BootThread] = IF autoIngest THEN "boot" ELSE "idle"]
  /\ op' = [op EXCEPT ![BootThread] = IF autoIngest THEN "ingest" ELSE NoOp]
  /\ UNCHANGED <<storeVars, files, quarantined, doc, body, listed, todo, faults>>

AutoStart ==
  /\ GoTo(BootThread, "boot", "list")
  /\ status' = "running"
  /\ UNCHANGED <<storeVars, files, quarantined, locals, up, faults>>

UploadUpserted(t) == op[t] = "upload" /\ pc[t] \in {"forget", "replace"}

\* The process stops, with every thread wherever it is.
Crash ==
  /\ up
  /\ crashes < MaxCrashes
  /\ up' = FALSE
  /\ crashes' = crashes + 1
  /\ status' = "disabled"
  /\ cache' = NoValue
  /\ pc' = [t \in Threads |-> "idle"]
  /\ op' = [t \in Threads |-> NoOp]
  /\ doc' = [t \in Threads |-> NoValue]
  /\ body' = [t \in Threads |-> NoValue]
  /\ listed' = [t \in Threads |-> {}]
  /\ todo' = [t \in Threads |-> {}]
  /\ cutOff' = cutOff \cup {doc[t] : t \in {u \in Threads : UploadUpserted(u)}}
  /\ overtaken' = {}
  /\ suspect' = FALSE
  /\ UNCHANGED <<collection, points, files, quarantined, failures>>

(***************************************************************************)
(* The specification.                                                      *)
(***************************************************************************)
Request(t) ==
  \/ \E n \in Names, c \in Contents : BeginUpload(t, n, c)
  \/ \E k \in Ingests : BeginIngest(t, k)
  \/ \E n \in Names : BeginDelete(t, n)
  \/ BeginSearch(t)

Step(t) ==
  \/ List(t) \/ Stale(t) \/ Scan(t) \/ NextFile(t) \/ IngestDone(t) \/ Quarantine(t)
  \/ Load(t) \/ Exists(t) \/ Create(t) \/ Clear(t) \/ Delete(t) \/ Upsert(t) \/ Forget(t)
  \/ Replace(t) \/ Find(t) \/ Unlink(t)
  \/ Probe(t) \/ Check(t) \/ Fill(t) \/ Store(t) \/ Recall(t)

Next ==
  \/ \E t \in Workers : Request(t)
  \/ \E t \in Threads : Step(t) \/ Raise(t) \/ RaiseLate(t)
  \/ \E autoIngest \in BOOLEAN : Boot(autoIngest)
  \/ AutoStart
  \/ Crash

Spec == Init /\ [][Next]_vars

\* The threads are scheduled: one that can take a step takes it or fails.
\* Nothing restarts a stopped process but its operator.
FairSpec ==
  Spec /\ (\A t \in Threads : WF_vars(Step(t))) /\ WF_vars(AutoStart)

(***************************************************************************)
(* Properties of the index.                                                *)
(***************************************************************************)
Whole(n, v) == \E c \in Readable : points[n] = Rendering(c, v)

\* Every document has no points at all, or the points of one content cut by one
\* chunker: "replace, don't duplicate" (ingest_file) never leaves a mixture, at
\* no point of any request, of a failure or of a restart.
IndexWhole == \A n \in Names : points[n] = NoPoints \/ \E v \in Versions : Whole(n, v)

\* Between requests, what the index says of a document was cut from the file of
\* that name, and no document without a file is indexed: a search never cites text
\* that the library does not hold, and a deleted document stays deleted.  Failed
\* uploads and deletes, quarantined files and stops included; the one exception is
\* an upload cut off after its upsert, which nothing in the code makes up for until
\* the document is indexed or deleted again.
IndexMatchesFile ==
  \A n \in Names \ cutOff :
    Free({n}) /\ points[n] # NoPoints =>
      files[n] \in Readable /\ \E v \in Versions : points[n] = Rendering(files[n], v)

\* Whatever runs beside what, with failing writes and half-finished ones included:
\* the filename cache that search() reads is unset or names exactly the indexed
\* documents, unless the search that set it listed the index while a write of it was
\* under way.  That overlap is the only way to a wrong list: neither the two resets
\* of an ingest nor the one of a delete, which comes before the points go, does
\* anything about it, and the list stays wrong until the next write.
CacheCoherent == suspect \/ cache \in {NoValue, Indexed}

(***************************************************************************)
(* Properties of the files.                                                *)
(***************************************************************************)
\* Only files whose own content is the problem are quarantined; a file is never
\* set aside because Qdrant or Ollama was down (ingest_directory).
QuarantineOnlyBad == \A n \in Names : quarantined[n] \in Unreadable \cup {NoValue}

\* Whatever the interleaving, a file of the library is never overwritten by
\* content that could not be ingested: an upload that is refused or fails leaves
\* the previously good bytes in place.
GoodFilesKept ==
  [][\A n \in Names :
       files'[n] # files[n] => files'[n] \in Readable \cup {NoValue}]_vars

\* An upload that is answered with success has its file in place and the index
\* of exactly that content, by the current chunker.
AcknowledgedIsIndexed ==
  [][\A t \in Workers :
       pc[t] = "replace" /\ pc'[t] = "idle" /\ up' =>
         /\ files'[doc[t]] = body[t]
         /\ points[doc[t]] = Rendering(body[t], "current")]_vars

\* A delete that is answered with success has removed the document's file.
DeletedFileIsGone ==
  [][\A t \in Workers :
       pc[t] = "unlink" /\ pc'[t] = "idle" /\ up' => files'[doc[t]] = NoValue]_vars

\* When GET /health reports the boot-time ingest as done, every file left in the
\* directory is indexed, whole, by the current chunker: files that a failure or
\* a stop left half indexed and files of an older version are caught up with.
DoneMeansIndexed ==
  [][status = "running" /\ status' = "done" =>
       \A n \in Present : Whole(n, "current")]_vars

\* The boot-time ingest gets to every readable file, whatever the requests at
\* work meanwhile: it is indexed by the current chunker, unless it is deleted,
\* the ingest fails or the process stops.  No backend call may fail either: an upload
\* of the file that fails between its delete and its upsert leaves it without points,
\* and an ingest that had listed it as indexed before ends as done all the same.
EventuallyIndexed ==
  \A n \in Names :
    (status = "pending" /\ files[n] \in Readable)
      ~> (\/ n \in Indexed \ StaleDocs
          \/ files[n] = NoValue
          \/ status = "failed" \/ ~up \/ failures > 0)

\* No request is stuck: nothing here waits for another thread.
RequestsEnd == \A t \in Threads : Busy(t) ~> ~Busy(t)
==============================================================================
