----------------------------- MODULE VectorStore -----------------------------
(***************************************************************************)
(* The Qdrant-backed document index, app/repository/vector_store.py.       *)
(*                                                                         *)
(* The collection holds points.  A point's id is derived from its          *)
(* document and its chunk index, so an upsert of chunk i of a document     *)
(* overwrites the point already there; its payload names the content it    *)
(* was cut from and the version of the chunker that cut it.  A document id *)
(* is derived from the filename (doc_id_for), one to one, so a name stands *)
(* for both.  The store also caches the set of indexed filenames, which    *)
(* search() consults to recognise a document named in a question.          *)
(*                                                                         *)
(* This module holds the store's state and its single calls.  The order    *)
(* in which the threads of the service make them is DocumentLibrary's.     *)
(***************************************************************************)
EXTENDS Naturals

CONSTANTS
  Names,       \* filenames with a supported extension
  Contents,    \* what a file can hold
  Unreadable,  \* contents that load_sections or chunk_sections rejects
  Size,        \* Size[c][v] = number of chunks that chunker v cuts content c into
  MaxChunks,   \* no content has more chunks than this
  NoValue      \* Python's None, an absent file, an absent point

Versions == {"old", "current"}
Readable == Contents \ Unreadable
Index    == 0 .. MaxChunks - 1
Payload  == [content : Readable, version : Versions]

ASSUME UnreadableAssumption == Unreadable \subseteq Contents
ASSUME MaxChunksAssumption  == MaxChunks \in Nat
ASSUME SizeAssumption       == Size \in [Readable -> [Versions -> 1 .. MaxChunks]]

VARIABLES
  collection,  \* whether the collection exists
  points,      \* points[n][i] = payload of chunk i of document n, or NoValue
  cache        \* _filenames_cache: a set of names, or NoValue

storeVars == <<collection, points, cache>>

StoreTypeOK ==
  /\ collection \in BOOLEAN
  /\ points \in [Names -> [Index -> Payload \cup {NoValue}]]
  /\ cache \in {NoValue} \cup SUBSET Names

(***************************************************************************)
(* What the store holds.                                                   *)
(***************************************************************************)
NoPoints == [i \in Index |-> NoValue]

\* The points that ingest_file makes of content c with chunker version v.
Rendering(c, v) ==
  [i \in Index |-> IF i < Size[c][v] THEN [content |-> c, version |-> v] ELSE NoValue]

\* list_documents(): every document with at least one point.
Indexed == {n \in Names : points[n] # NoPoints}

\* stale_doc_ids(): every document with a point of an older chunker.
StaleDocs ==
  {n \in Names : \E i \in Index :
      points[n][i] # NoValue /\ points[n][i].version # "current"}

(***************************************************************************)
(* The calls that change the store.                                        *)
(***************************************************************************)
CreateCollection ==
  /\ collection' = TRUE
  /\ UNCHANGED <<points, cache>>

InvalidateCache ==
  /\ cache' = NoValue
  /\ UNCHANGED <<collection, points>>

RememberNames(S) ==
  /\ cache' = S
  /\ UNCHANGED <<collection, points>>

\* Mutant of DeletePoints: the filter matches nothing.
DeleteNothing(n) == UNCHANGED storeVars

\* delete() with the filter doc_id = n: every chunk of n, whatever its index.
DeletePoints(n) ==
  /\ points' = [points EXCEPT ![n] = NoPoints]
  /\ UNCHANGED <<collection, cache>>

\* Mutant of UpsertPoints: chunk indices that count from one.
UpsertFromOne(n, c) ==
  /\ points' = [points EXCEPT ![n] =
                  [i \in 0 .. MaxChunks |-> IF i \in 1 .. Size[c]["current"]
                                             THEN Rendering(c, "current")[i - 1]
                                             ELSE IF i \in Index THEN points[n][i] ELSE NoValue]]
  /\ UNCHANGED <<collection, cache>>

\* upsert() of the chunks of c: points of n at higher indices are not touched.
UpsertPoints(n, c) ==
  /\ points' = [points EXCEPT ![n] =
                  [i \in Index |-> IF i < Size[c]["current"]
                                     THEN Rendering(c, "current")[i]
                                     ELSE points[n][i]]]
  /\ UNCHANGED <<collection, cache>>
==============================================================================
