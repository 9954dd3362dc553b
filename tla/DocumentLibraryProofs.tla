------------------------ MODULE DocumentLibraryProofs ------------------------
(***************************************************************************)
(* Theorems about DocumentLibrary, for every set of threads, names and     *)
(* contents, every size of a content and every bound.                      *)
(***************************************************************************)
EXTENDS DocumentLibrary, TLAPS

(***************************************************************************)
(* The control of a thread: which request it can be serving at each call,  *)
(* and which of its locals that call can rely on.                          *)
(***************************************************************************)
ControlOK(t) ==
  /\ pc[t] \in {"boot", "list", "stale", "scan", "next", "quarantine"} => op[t] \in Ingests
  /\ pc[t] \in {"load", "exists", "create", "upsert", "forget"}
       => op[t] \in Ingests \cup {"upload"}
  /\ pc[t] \in {"clear", "delete"} => op[t] \in Ingests \cup {"upload", "delete"}
  /\ pc[t] = "replace" => op[t] = "upload"
  /\ pc[t] \in {"find", "unlink"} => op[t] = "delete"
  /\ pc[t] \in {"probe", "check", "fill", "store", "recall"} => op[t] = "search"

LocalsOK(t) ==
  /\ pc[t] \in {"load", "quarantine", "exists", "create", "clear", "delete", "upsert",
                "forget", "replace", "find", "unlink"} => doc[t] \in Names
  /\ pc[t] \in {"exists", "create", "upsert", "forget", "replace"} => body[t] \in Readable
  /\ pc[t] \in {"clear", "delete"} => op[t] = "delete" \/ body[t] \in Readable

\* A stopped process has no thread at work.
Stopped == ~up => \A t \in Threads : ~Busy(t)

TInv ==
  /\ TypeOK
  /\ Stopped
  /\ \A t \in Threads : ControlOK(t) /\ LocalsOK(t)

USE DEF Threads

(***************************************************************************)
(* The store's values.                                                     *)
(***************************************************************************)
LEMMA NoPointsType == NoPoints \in [Index -> Payload \cup {NoValue}]
  BY DEF NoPoints

LEMMA RenderingType ==
  ASSUME NEW c \in Readable, NEW v \in Versions
  PROVE  Rendering(c, v) \in [Index -> Payload \cup {NoValue}]
  BY DEF Rendering, Payload

LEMMA DeleteType ==
  ASSUME StoreTypeOK, NEW n \in Names, DeletePoints(n)
  PROVE  StoreTypeOK'
  BY NoPointsType DEF StoreTypeOK, DeletePoints

LEMMA UpsertType ==
  ASSUME StoreTypeOK, NEW n \in Names, NEW c \in Readable, UpsertPoints(n, c)
  PROVE  StoreTypeOK'
<1>1. "current" \in Versions
  BY DEF Versions
<1>2. Rendering(c, "current") \in [Index -> Payload \cup {NoValue}]
  BY <1>1, RenderingType
<1>. QED
  BY <1>2 DEF StoreTypeOK, UpsertPoints

\* The points of an upsert into a document without points.
LEMMA UpsertCleared ==
  ASSUME StoreTypeOK, NEW n \in Names, NEW c \in Readable, UpsertPoints(n, c),
         points[n] = NoPoints
  PROVE  points'[n] = Rendering(c, "current")
<1>1. points'[n] = [i \in Index |-> IF i < Size[c]["current"]
                                      THEN Rendering(c, "current")[i]
                                      ELSE NoPoints[i]]
  BY DEF StoreTypeOK, UpsertPoints
<1>. QED
  BY <1>1 DEF Rendering, NoPoints

(***************************************************************************)
(* Type correctness.                                                       *)
(***************************************************************************)
LEMMA InitTInv == Init => TInv
<1>. SUFFICES ASSUME Init PROVE TInv
  OBVIOUS
<1>1. points \in [Names -> [Index -> Payload \cup {NoValue}]]
  <2>1. \A n \in Names : Upgraded(n) \in [Index -> Payload \cup {NoValue}]
    BY RenderingType, NoPointsType DEF Upgraded, Versions
  <2>. QED
    BY <2>1, NoPointsType DEF Init
<1>2. StoreTypeOK
  BY <1>1 DEF Init, StoreTypeOK
<1>3. TypeOK
  <2>1. 0 \in 0 .. MaxFailures /\ 0 \in 0 .. MaxCrashes
    BY BoundsAssumption
  <2>2. quarantined \in [Names -> Contents \cup {NoValue}]
    BY DEF Init
  <2>3. /\ pc \in [Threads -> Labels]
        /\ op \in [Threads -> Ops \cup {NoOp}]
        /\ doc \in [Threads -> Names \cup {NoValue}]
        /\ body \in [Threads -> Contents \cup {NoValue}]
    BY DEF Init, Labels
  <2>4. listed \in [Threads -> SUBSET Names] /\ todo \in [Threads -> SUBSET Names]
    BY DEF Init
  <2>. QED
    BY <1>2, <2>1, <2>2, <2>3, <2>4 DEF Init, TypeOK, Statuses
<1>. QED
  BY <1>3 DEF Init, TInv, Stopped, Busy, ControlOK, LocalsOK

LEMMA FinishTInv ==
  ASSUME TInv, NEW t \in Threads, NEW outcome \in Statuses, Finish(t, outcome), Busy(t),
         StoreTypeOK', files' \in [Names -> Contents \cup {NoValue}],
         failures' \in 0 .. MaxFailures, cutOff' \subseteq Names,
         UNCHANGED <<quarantined, up, crashes, overlap>>
  PROVE  TInv'
<1>1. TypeOK'
  BY DEF TInv, TypeOK, Finish, Labels, Statuses, overlap
<1>2. Stopped'
  BY DEF TInv, TypeOK, Finish, Stopped, Busy
<1>3. \A u \in Threads : (ControlOK(u) /\ LocalsOK(u))'
  BY DEF TInv, TypeOK, Finish, ControlOK, LocalsOK
<1>. QED
  BY <1>1, <1>2, <1>3 DEF TInv

LEMMA RequestTInv ==
  ASSUME TInv, NEW t \in Workers, Request(t)
  PROVE  TInv'
<1>. DEFINE P(k, n, c, first) ==
       \/ k = "upload" /\ first = "load" /\ n \in Names
       \/ k \in Ingests /\ first = "list"
       \/ k = "delete" /\ first = "find" /\ n \in Names
       \/ k = "search" /\ first = "probe"
<1>1. PICK k \in Ops, n \in Names \cup {NoValue}, c \in Contents \cup {NoValue}, first \in Labels :
        P(k, n, c, first) /\ Begin(t, k, n, c, first)
  BY SafeNameAssumption
     DEF Request, BeginUpload, BeginIngest, BeginDelete, BeginSearch, Ops, Ingests,
         Labels, BackendCalls
<1>2. TypeOK'
  BY <1>1 DEF Begin, GoTo, TInv, TypeOK, StoreTypeOK, storeVars, process, faults, overlap
<1>3. Stopped'
  BY <1>1 DEF Begin, TInv, Stopped, process
<1>4. \A u \in Threads : (ControlOK(u) /\ LocalsOK(u))'
  BY <1>1 DEF Begin, GoTo, TInv, TypeOK, ControlOK, LocalsOK, Ingests
<1>. QED
  BY <1>2, <1>3, <1>4 DEF TInv

\* A step that moves t alone, with the process up before and after.
LEMMA MoveTInv ==
  ASSUME TInv, NEW t \in Threads, Busy(t), NEW to \in Labels,
         pc' = [pc EXCEPT ![t] = to],
         UNCHANGED <<op, status, up, failures, crashes>>, cutOff' \subseteq Names,
         overtaken' \subseteq Threads, suspect' \in BOOLEAN,
         doc' \in [Threads -> Names \cup {NoValue}],
         body' \in [Threads -> Contents \cup {NoValue}],
         \A u \in Threads \ {t} : doc'[u] = doc[u] /\ body'[u] = body[u],
         listed' \in [Threads -> SUBSET Names], todo' \in [Threads -> SUBSET Names],
         files' \in [Names -> Contents \cup {NoValue}],
         quarantined' \in [Names -> Contents \cup {NoValue}],
         StoreTypeOK', ControlOK(t)', LocalsOK(t)'
  PROVE  TInv'
<1>1. TypeOK'
  BY DEF TInv, TypeOK, process
<1>2. Stopped'
  BY DEF TInv, TypeOK, Stopped, Busy, process
<1>3. \A u \in Threads \ {t} : (ControlOK(u) /\ LocalsOK(u))'
  BY DEF TInv, TypeOK, ControlOK, LocalsOK
<1>. QED
  BY <1>1, <1>2, <1>3 DEF TInv

LEMMA StoreStutter ==
  ASSUME StoreTypeOK, UNCHANGED storeVars
  PROVE  StoreTypeOK'
  BY DEF StoreTypeOK, storeVars

LEMMA LabelsStated ==
  Labels = {"create", "delete", "upsert", "list", "stale", "exists", "find", "probe", "fill",
            "idle", "boot", "scan", "next", "load", "quarantine", "clear", "forget",
            "replace", "unlink", "check", "store", "recall"}
  BY DEF Labels, BackendCalls, WriteCalls

LEMMA IngestDirectoryTInv ==
  ASSUME TInv, NEW t \in Threads,
         \/ List(t) \/ Stale(t) \/ Scan(t) \/ NextFile(t) \/ IngestDone(t) \/ Quarantine(t)
  PROVE  TInv'
<1>0. StoreTypeOK'
  BY StoreStutter DEF TInv, TypeOK, List, Stale, Scan, NextFile, IngestDone, Quarantine
<1>. USE DEF TInv, TypeOK, GoTo, Busy, ControlOK, LocalsOK, process, faults, overlap
<1>1. CASE List(t)
  BY <1>0, <1>1, MoveTInv, LabelsStated DEF List, Indexed
<1>2. CASE Stale(t)
  BY <1>0, <1>2, MoveTInv, LabelsStated DEF Stale
<1>3. CASE Scan(t)
  BY <1>0, <1>3, MoveTInv, LabelsStated DEF Scan, Present
<1>4. CASE NextFile(t)
  <2>1. PICK n \in todo[t], to \in {"next", "load"} :
          /\ pc[t] = "next" /\ pc' = [pc EXCEPT ![t] = to]
          /\ todo' = [todo EXCEPT ![t] = @ \ {n}]
          /\ doc' = [doc EXCEPT ![t] = IF to = "next" THEN NoValue ELSE n]
          /\ UNCHANGED <<storeVars, files, quarantined, op, body, listed, process>>
    BY <1>4 DEF NextFile
  <2>2. n \in Names
    BY <2>1
  <2>3. ControlOK(t)' /\ LocalsOK(t)'
    BY <2>1, <2>2
  <2>4. todo' \in [Threads -> SUBSET Names]
    BY <2>1
  <2>5. doc' \in [Threads -> Names \cup {NoValue}] /\ \A u \in Threads \ {t} : doc'[u] = doc[u]
    BY <2>1, <2>2
  <2>. QED
    BY <1>0, <2>1, <2>3, <2>4, <2>5, MoveTInv, LabelsStated
<1>5. CASE IngestDone(t)
  BY <1>0, <1>5, FinishTInv DEF IngestDone, Statuses
<1>6. CASE Quarantine(t)
  <2>1. CASE files[doc[t]] = NoValue
    BY <1>0, <1>6, <2>1, FinishTInv DEF Quarantine, Statuses
  <2>2. CASE files[doc[t]] # NoValue
    <3>1. ControlOK(t)' /\ LocalsOK(t)'
      BY <1>6, <2>2 DEF Quarantine
    <3>2. /\ files' \in [Names -> Contents \cup {NoValue}]
          /\ quarantined' \in [Names -> Contents \cup {NoValue}]
      BY <1>6, <2>2 DEF Quarantine
    <3>3. /\ doc' \in [Threads -> Names \cup {NoValue}]
          /\ \A u \in Threads \ {t} : doc'[u] = doc[u] /\ body'[u] = body[u]
      BY <1>6, <2>2 DEF Quarantine
    <3>4. /\ pc[t] = "quarantine" /\ pc' = [pc EXCEPT ![t] = "next"]
          /\ UNCHANGED <<op, body, listed, todo, process>>
      BY <1>6, <2>2 DEF Quarantine, process
    <3>5. "next" \in Labels
      BY LabelsStated
    <3>. QED
      BY <1>0, <3>1, <3>2, <3>3, <3>4, <3>5, MoveTInv
  <2>. QED
    BY <2>1, <2>2
<1>. QED
  BY <1>1, <1>2, <1>3, <1>4, <1>5, <1>6

LEMMA IngestFileTInv ==
  ASSUME TInv, NEW t \in Threads,
         \/ Load(t) \/ Exists(t) \/ Create(t) \/ Clear(t) \/ Delete(t) \/ Upsert(t) \/ Forget(t)
  PROVE  TInv'
<1>. USE DEF TInv, TypeOK, GoTo, Busy, ControlOK, LocalsOK, process, faults, overlap
<1>1. CASE Load(t)
  <2>0. StoreTypeOK'
    BY <1>1, StoreStutter DEF Load, Accept, SetAside, Refuse
  <2>1. CASE Accept(t)
    <3>1. /\ pc[t] = "load" /\ op[t] \in Ingests \cup {"upload"} /\ doc[t] \in Names
          /\ pc' = [pc EXCEPT ![t] = "exists"]
          /\ body' = [body EXCEPT ![t] = body'[t]] /\ body'[t] \in Readable
          /\ UNCHANGED <<op, doc, listed, todo, files, quarantined, process>>
      BY <2>1 DEF Accept, process
    <3>2. ControlOK(t)' /\ LocalsOK(t)'
      BY <3>1
    <3>3. body' \in [Threads -> Contents \cup {NoValue}] /\ \A u \in Threads \ {t} : body'[u] = body[u]
      BY <3>1 DEF Readable
    <3>. QED
      BY <2>0, <3>1, <3>2, <3>3, MoveTInv, LabelsStated
  <2>2. CASE SetAside(t)
    <3>1. /\ pc[t] = "load" /\ op[t] \in Ingests /\ doc[t] \in Names
          /\ pc' = [pc EXCEPT ![t] = "quarantine"]
          /\ UNCHANGED <<op, doc, body, listed, todo, files, quarantined, process>>
      BY <2>2 DEF SetAside, process, locals
    <3>. QED
      BY <2>0, <3>1, MoveTInv, LabelsStated
  <2>3. CASE Refuse(t)
    BY <2>0, <2>3, FinishTInv DEF Refuse, Statuses
  <2>. QED
    BY <1>1, <2>1, <2>2, <2>3 DEF Load
<1>2. CASE Exists(t)
  BY <1>2, StoreStutter, MoveTInv, LabelsStated, ZenonT(30) DEF Exists, locals
<1>3. CASE Create(t)
  <2>1. CASE collection
    BY <1>3, <2>1, StoreStutter, FinishTInv DEF Create, Statuses
  <2>2. CASE ~collection
    <3>1. StoreTypeOK'
      BY <1>3, <2>2 DEF Create, CreateCollection, StoreTypeOK
    <3>2. /\ pc[t] = "create" /\ pc' = [pc EXCEPT ![t] = "clear"]
          /\ UNCHANGED <<op, doc, body, listed, todo, files, quarantined, process>>
      BY <1>3, <2>2 DEF Create, locals, process
    <3>. QED
      BY <1>3, <2>2, <3>1, <3>2, MoveTInv, LabelsStated
  <2>. QED
    BY <2>1, <2>2
<1>4. CASE Clear(t)
  <2>1. StoreTypeOK'
    BY <1>4 DEF Clear, InvalidateCache, StoreTypeOK
  <2>. QED
    BY <1>4, <2>1, MoveTInv, LabelsStated DEF Clear, locals
<1>5. CASE Delete(t)
  <2>1. StoreTypeOK'
    BY <1>5, DeleteType DEF Delete
  <2>2. /\ pc[t] = "delete" /\ op[t] \in Ingests \cup {"upload", "delete"} /\ doc[t] \in Names
        /\ op[t] = "delete" \/ body[t] \in Readable
        /\ pc' = [pc EXCEPT ![t] = IF op[t] = "delete" THEN "unlink" ELSE "upsert"]
        /\ UNCHANGED <<op, doc, body, listed, todo, files, quarantined, status, up,
                        failures, crashes, overlap>>
        /\ cutOff' \subseteq Names
    BY <1>5 DEF Delete, locals, TInv, TypeOK
  <2>3. CASE op[t] = "delete"
    <3>1. pc' = [pc EXCEPT ![t] = "unlink"]
      BY <2>2, <2>3
    <3>2. ControlOK(t)' /\ LocalsOK(t)'
      BY <2>2, <2>3, <3>1
    <3>. QED
      BY <2>1, <2>2, <3>1, <3>2, MoveTInv, LabelsStated
  <2>4. CASE op[t] # "delete"
    <3>1. pc' = [pc EXCEPT ![t] = "upsert"]
      BY <2>2, <2>4
    <3>2. ControlOK(t)' /\ LocalsOK(t)'
      BY <2>2, <2>4, <3>1
    <3>. QED
      BY <2>1, <2>2, <3>1, <3>2, MoveTInv, LabelsStated
  <2>. QED
    BY <2>3, <2>4
<1>6. CASE Upsert(t)
  <2>1. StoreTypeOK'
    BY <1>6, UpsertType DEF Upsert
  <2>. QED
    BY <1>6, <2>1, MoveTInv, LabelsStated DEF Upsert, locals
<1>7. CASE Forget(t)
  <2>1. StoreTypeOK'
    BY <1>7 DEF Forget, InvalidateCache, StoreTypeOK
  <2>2. CASE op[t] = "upload"
    <3>1. /\ pc[t] = "forget" /\ pc' = [pc EXCEPT ![t] = "replace"]
          /\ UNCHANGED <<op, doc, body, listed, todo, files, quarantined, status, up,
                          failures, crashes, cutOff, overtaken>>
          /\ suspect' \in BOOLEAN
      BY <1>7, <2>2 DEF Forget
    <3>. QED
      BY <2>1, <2>2, <3>1, MoveTInv, LabelsStated
  <2>3. CASE op[t] # "upload"
    <3>1. /\ pc[t] = "forget" /\ pc' = [pc EXCEPT ![t] = "next"]
          /\ doc' = [doc EXCEPT ![t] = NoValue]
          /\ body' = [body EXCEPT ![t] = NoValue]
          /\ UNCHANGED <<op, listed, todo, files, quarantined, status, up,
                          failures, crashes, cutOff, overtaken>>
          /\ suspect' \in BOOLEAN
      BY <1>7, <2>3 DEF Forget
    <3>. QED
      BY <2>1, <2>3, <3>1, MoveTInv, LabelsStated
  <2>. QED
    BY <2>2, <2>3
<1>. QED
  BY <1>1, <1>2, <1>3, <1>4, <1>5, <1>6, <1>7

LEMMA EndsTInv ==
  ASSUME TInv, NEW t \in Threads,
         Replace(t) \/ Find(t) \/ Unlink(t) \/ Recall(t) \/ Probe(t)
  PROVE  TInv'
<1>0. StoreTypeOK'
  BY StoreStutter DEF TInv, TypeOK, Replace, Find, Unlink, Recall, Probe
<1>. USE DEF TInv, TypeOK, GoTo, Busy, ControlOK, LocalsOK, process, faults, overlap
<1>1. CASE Replace(t)
  BY <1>0, <1>1, FinishTInv DEF Replace, Readable
<1>2. CASE Find(t)
  <2>1. CASE doc[t] \in Indexed
    <3>1. /\ pc[t] = "find" /\ pc' = [pc EXCEPT ![t] = "clear"]
          /\ UNCHANGED <<op, doc, body, listed, todo, files, quarantined, process>>
      BY <1>2, <2>1 DEF Find, locals, process
    <3>. QED
      BY <1>0, <3>1, MoveTInv, LabelsStated
  <2>2. CASE doc[t] \notin Indexed
    BY <1>0, <1>2, <2>2, FinishTInv DEF Find
  <2>. QED
    BY <2>1, <2>2
<1>3. CASE Unlink(t)
  BY <1>0, <1>3, FinishTInv DEF Unlink
<1>4. CASE Recall(t)
  BY <1>0, <1>4, FinishTInv DEF Recall
<1>5. CASE Probe(t)
  <2>1. CASE collection
    <3>1. /\ pc[t] = "probe" /\ pc' = [pc EXCEPT ![t] = "check"]
          /\ UNCHANGED <<op, doc, body, listed, todo, files, quarantined, process>>
      BY <1>5, <2>1 DEF Probe, locals, process
    <3>. QED
      BY <1>0, <3>1, MoveTInv, LabelsStated
  <2>2. CASE ~collection
    BY <1>0, <1>5, <2>2, FinishTInv DEF Probe
  <2>. QED
    BY <2>1, <2>2
<1>. QED
  BY <1>1, <1>2, <1>3, <1>4, <1>5

LEMMA SearchTInv ==
  ASSUME TInv, NEW t \in Threads, Check(t) \/ Fill(t) \/ Store(t)
  PROVE  TInv'
<1>. USE DEF TInv, TypeOK, GoTo, Busy, ControlOK, LocalsOK, process, faults, overlap
<1>1. CASE Check(t)
  BY <1>1, StoreStutter, MoveTInv, LabelsStated, ZenonT(30) DEF Check, locals
<1>2. CASE Fill(t)
  BY <1>2, StoreStutter, MoveTInv, LabelsStated DEF Fill, Indexed
<1>3. CASE Store(t)
  <2>1. StoreTypeOK'
    BY <1>3 DEF Store, RememberNames, StoreTypeOK
  <2>2. /\ pc[t] = "store" /\ pc' = [pc EXCEPT ![t] = "recall"]
        /\ UNCHANGED <<op, doc, body, listed, todo, files, quarantined, status, up,
                        failures, crashes, cutOff>>
        /\ overtaken' \subseteq Threads /\ suspect' \in BOOLEAN
    BY <1>3 DEF Store, locals
  <2>. QED
    BY <2>1, <2>2, MoveTInv, LabelsStated
<1>. QED
  BY <1>1, <1>2, <1>3

LEMMA FailureTInv ==
  ASSUME TInv, NEW t \in Threads, Raise(t) \/ RaiseLate(t)
  PROVE  TInv'
<1>1. Busy(t)
  BY DEF Raise, RaiseLate, Busy, BackendCalls, WriteCalls
<1>2. failures' \in 0 .. MaxFailures
  BY BoundsAssumption DEF TInv, TypeOK, Raise, RaiseLate
<1>3. StoreTypeOK'
  <2>1. CASE UNCHANGED storeVars
    BY <2>1, StoreStutter DEF TInv, TypeOK
  <2>2. CASE CreateCollection
    BY <2>2 DEF TInv, TypeOK, StoreTypeOK, CreateCollection
  <2>3. CASE pc[t] = "delete" /\ DeletePoints(doc[t])
    BY <2>3, DeleteType DEF TInv, TypeOK, LocalsOK
  <2>4. CASE pc[t] = "upsert" /\ UpsertPoints(doc[t], body[t])
    BY <2>4, UpsertType DEF TInv, TypeOK, LocalsOK
  <2>. QED
    BY <2>1, <2>2, <2>3, <2>4 DEF Raise, RaiseLate
<1>4. cutOff' \subseteq Names
  BY <1>1 DEF TInv, TypeOK, LocalsOK, Raise, RaiseLate, Busy
<1>. QED
  BY <1>1, <1>2, <1>3, <1>4, FinishTInv DEF TInv, TypeOK, Raise, RaiseLate, Statuses

LEMMA ProcessTInv ==
  ASSUME TInv, (\E autoIngest \in BOOLEAN : Boot(autoIngest)) \/ AutoStart \/ Crash
  PROVE  TInv'
<1>. USE DEF TInv, TypeOK, faults, overlap
<1>1. CASE \E autoIngest \in BOOLEAN : Boot(autoIngest)
  <2>1. PICK autoIngest \in BOOLEAN : Boot(autoIngest)
    BY <1>1
  <2>2. StoreTypeOK'
    BY <2>1, StoreStutter DEF Boot
  <2>3. TypeOK'
    BY <2>1, <2>2 DEF Boot, Statuses, Labels, Ops, Ingests
  <2>4. \A u \in Threads : (ControlOK(u) /\ LocalsOK(u))'
    BY <2>1 DEF Boot, Stopped, Busy, ControlOK, LocalsOK, Ingests
  <2>. QED
    BY <2>1, <2>3, <2>4 DEF Boot, Stopped
<1>2. CASE AutoStart
  <2>1. StoreTypeOK'
    BY <1>2, StoreStutter DEF AutoStart
  <2>2. TypeOK'
    BY <1>2, <2>1, LabelsStated DEF AutoStart, GoTo, locals, Statuses
  <2>3. Stopped'
    BY <1>2 DEF AutoStart, GoTo, Stopped, Busy
  <2>4. \A u \in Threads : (ControlOK(u) /\ LocalsOK(u))'
    BY <1>2 DEF AutoStart, GoTo, locals, ControlOK, LocalsOK
  <2>. QED
    BY <2>2, <2>3, <2>4
<1>3. CASE Crash
  <2>1. StoreTypeOK'
    BY <1>3 DEF Crash, StoreTypeOK
  <2>2. crashes' \in 0 .. MaxCrashes
    BY <1>3, BoundsAssumption DEF Crash
  <2>3. cutOff' \subseteq Names
    BY <1>3 DEF Crash, UploadUpserted, LocalsOK
  <2>4. TypeOK'
    BY <1>3, <2>1, <2>2, <2>3, LabelsStated DEF Crash, Statuses
  <2>. QED
    BY <1>3, <2>4 DEF Crash, Stopped, Busy, ControlOK, LocalsOK
<1>. QED
  BY <1>1, <1>2, <1>3

LEMMA NextTInv == TInv /\ [Next]_vars => TInv'
<1>. SUFFICES ASSUME TInv, [Next]_vars PROVE TInv'
  OBVIOUS
<1>1. ASSUME NEW t \in Workers, Request(t) PROVE TInv'
  BY <1>1, RequestTInv
<1>2. ASSUME NEW t \in Threads, Step(t) PROVE TInv'
  BY <1>2, IngestDirectoryTInv, IngestFileTInv, EndsTInv, SearchTInv DEF Step
<1>3. ASSUME NEW t \in Threads, Raise(t) \/ RaiseLate(t) PROVE TInv'
  BY <1>3, FailureTInv
<1>4. CASE UNCHANGED vars
  BY <1>4 DEF vars, storeVars, locals, process, faults, overlap, TInv, TypeOK, StoreTypeOK,
              Stopped, Busy, ControlOK, LocalsOK
<1>. QED
  BY <1>1, <1>2, <1>3, <1>4, ProcessTInv DEF Next

\* Every variable keeps its type: in particular the index only ever holds points
\* made of readable contents, for any number of threads, names and contents.
THEOREM TypeCorrect == Spec => []TypeOK
<1>1. Spec => []TInv
  BY InitTInv, NextTInv, PTL DEF Spec
<1>2. TInv => TypeOK
  BY DEF TInv
<1>. QED
  BY <1>1, <1>2, PTL

(***************************************************************************)
(* The index is never a mixture, as long as clients keep requests on one   *)
(* document apart.  The invariant adds two facts to IndexWhole: requests   *)
(* in flight claim disjoint documents, and a document about to be upserted *)
(* has no points, which no other thread can change.                        *)
(***************************************************************************)
Apart ==
  \A t, u \in Threads : t # u /\ Busy(t) /\ Busy(u) => Claims(t) \cap Claims(u) = {}

Cleared == \A t \in Threads : pc[t] = "upsert" => points[doc[t]] = NoPoints

IInv == TInv /\ Apart /\ Cleared /\ IndexWhole

\* What a step does to the claims: t's request ends, or its claim stays as it was.
LEMMA StepClaims ==
  ASSUME TInv, NEW t \in Threads, Step(t)
  PROVE  /\ Busy(t)
         /\ \A u \in Threads \ {t} : pc'[u] = pc[u] /\ op'[u] = op[u] /\ doc'[u] = doc[u]
         /\ \/ pc'[t] = "idle"
            \/ op'[t] = op[t] /\ (doc'[t] = doc[t] \/ op[t] \in Ingests)
<1>. USE DEF TInv, TypeOK, GoTo, Busy, ControlOK
<1>1. CASE List(t) \/ Stale(t) \/ Scan(t) \/ NextFile(t) \/ IngestDone(t)
  BY <1>1 DEF List, Stale, Scan, NextFile, IngestDone, Finish
<1>2. CASE Quarantine(t) \/ Forget(t)
  BY <1>2 DEF Quarantine, Forget, Finish
<1>3. CASE Load(t)
  BY <1>3 DEF Load, Accept, SetAside, Refuse, Finish, locals
<1>4. CASE Exists(t) \/ Create(t) \/ Clear(t) \/ Delete(t) \/ Upsert(t)
  BY <1>4 DEF Exists, Create, Clear, Delete, Upsert, Finish, locals
<1>5. CASE Replace(t) \/ Find(t) \/ Unlink(t)
  BY <1>5 DEF Replace, Find, Unlink, Finish, locals
<1>6. CASE Probe(t) \/ Check(t) \/ Fill(t) \/ Store(t) \/ Recall(t)
  BY <1>6 DEF Probe, Check, Fill, Store, Recall, Finish, locals
<1>. QED
  BY <1>1, <1>2, <1>3, <1>4, <1>5, <1>6 DEF Step

\* A claim stays or ends: requests that were apart stay apart.
LEMMA NarrowApart ==
  ASSUME Apart,
         \A t \in Threads : Busy(t)' => Busy(t) /\ Claims(t)' = Claims(t)
  PROVE  Apart'
  BY DEF Apart

LEMMA RequestApart ==
  ASSUME Exclusive, TInv, Apart, NEW t \in Workers, Request(t)
  PROVE  Apart'
<1>1. PICK k, n, c, first : Begin(t, k, n, c, first)
  BY DEF Request, BeginUpload, BeginIngest, BeginDelete, BeginSearch
<1>2. \A u \in Threads : Busy(u) => Touches(k, n) \cap Claims(u) = {}
  BY <1>1 DEF Begin, Free
<1>3. /\ Claims(t)' = Touches(k, n)
      /\ \A u \in Threads \ {t} : Busy(u)' = Busy(u) /\ Claims(u)' = Claims(u)
  BY <1>1 DEF Begin, GoTo, Busy, Claims, Touches, TInv, TypeOK
<1>. QED
  BY <1>2, <1>3 DEF Apart

LEMMA NextApart ==
  ASSUME Exclusive, TInv, Apart, [Next]_vars
  PROVE  Apart'
<1>1. ASSUME NEW t \in Workers, Request(t) PROVE Apart'
  BY <1>1, RequestApart
<1>2. ASSUME NEW t \in Threads, Step(t) PROVE Apart'
  <2>1. \A u \in Threads \ {t} : Busy(u)' => Busy(u) /\ Claims(u)' = Claims(u)
    BY <1>2, StepClaims DEF Busy, Claims, Touches
  <2>2. Busy(t)' => Busy(t) /\ Claims(t)' = Claims(t)
    BY <1>2, StepClaims DEF Busy, Claims, Touches, Ingests
  <2>. QED
    BY <2>1, <2>2, NarrowApart
<1>3. ASSUME NEW t \in Threads, Raise(t) \/ RaiseLate(t) PROVE Apart'
  <2>1. \A u \in Threads : Busy(u)' => Busy(u) /\ Claims(u)' = Claims(u)
    BY <1>3 DEF Raise, RaiseLate, Finish, Busy, Claims, Touches, TInv, TypeOK
  <2>. QED
    BY <2>1, NarrowApart
<1>4. ASSUME NEW autoIngest \in BOOLEAN, Boot(autoIngest) PROVE Apart'
  BY <1>4 DEF Boot, Apart, Busy, TInv, TypeOK, Stopped
<1>5. CASE AutoStart
  BY <1>5, NarrowApart DEF AutoStart, GoTo, locals, Busy, Claims, Touches, TInv, TypeOK
<1>6. CASE Crash
  BY <1>6 DEF Crash, Apart, Busy
<1>7. CASE UNCHANGED vars
  BY <1>7, NarrowApart DEF vars, locals, Busy, Claims, Touches
<1>. QED
  BY <1>1, <1>2, <1>3, <1>4, <1>5, <1>6, <1>7 DEF Next

\* A step that writes no points and brings no thread to an upsert.
LEMMA KeepWhole ==
  ASSUME Cleared, IndexWhole, points' = points,
         \A t \in Threads : pc'[t] = "upsert" => pc[t] = "upsert" /\ doc'[t] = doc[t]
  PROVE  Cleared' /\ IndexWhole'
  BY DEF Cleared, IndexWhole, Whole

LEMMA DeleteWhole ==
  ASSUME TInv, Cleared, IndexWhole, NEW t \in Threads, doc[t] \in Names,
         DeletePoints(doc[t]), doc' \in [Threads -> Names \cup {NoValue}],
         \A u \in Threads : pc'[u] = "upsert" =>
            doc'[u] = doc[u] /\ (u = t \/ pc[u] = "upsert")
  PROVE  Cleared' /\ IndexWhole'
<1>1. \A n \in Names : points'[n] = IF n = doc[t] THEN NoPoints ELSE points[n]
  BY DEF DeletePoints, TInv, TypeOK, StoreTypeOK
<1>2. \A u \in Threads : pc[u] = "upsert" => doc[u] \in Names
  BY DEF TInv, LocalsOK
<1>. QED
  BY <1>1, <1>2 DEF Cleared, IndexWhole, Whole

\* No other thread is at an upsert of the same document: their claims are disjoint.
LEMMA UpsertWhole ==
  ASSUME TInv, Apart, Cleared, IndexWhole, NEW t \in Threads, pc[t] = "upsert",
         UpsertPoints(doc[t], body[t]), pc'[t] # "upsert",
         \A u \in Threads \ {t} : pc'[u] = pc[u] /\ doc'[u] = doc[u]
  PROVE  Cleared' /\ IndexWhole'
<1>1. doc[t] \in Names /\ body[t] \in Readable
  BY DEF TInv, LocalsOK
<1>2. \A n \in Names : n # doc[t] => points'[n] = points[n]
  BY <1>1 DEF UpsertPoints, TInv, TypeOK, StoreTypeOK
<1>3. points'[doc[t]] = Rendering(body[t], "current")
  BY <1>1, UpsertCleared DEF Cleared, TInv, TypeOK
<1>4. IndexWhole'
  BY <1>1, <1>2, <1>3 DEF IndexWhole, Whole, Versions
<1>5. ASSUME NEW u \in Threads, pc'[u] = "upsert"
      PROVE  points'[doc'[u]] = NoPoints
  <2>1. u # t /\ pc[u] = "upsert" /\ doc'[u] = doc[u] /\ doc[u] \in Names
    BY <1>5 DEF TInv, LocalsOK
  <2>2. doc[u] \in Claims(u) /\ doc[t] \in Claims(t)
    BY <1>1, <2>1 DEF Claims, Touches, TInv, ControlOK, Ingests
  <2>3. doc[u] # doc[t]
    BY <2>1, <2>2 DEF Apart, Busy
  <2>. QED
    BY <1>2, <2>1, <2>3 DEF Cleared
<1>. QED
  BY <1>4, <1>5 DEF Cleared

LEMMA StepWhole ==
  ASSUME TInv, Apart, Cleared, IndexWhole, NEW t \in Threads, Step(t)
  PROVE  Cleared' /\ IndexWhole'
<1>0. \A u \in Threads \ {t} : pc'[u] = pc[u] /\ doc'[u] = doc[u]
  BY StepClaims
<1>1. CASE Delete(t)
  <2>1. doc[t] \in Names /\ doc' = doc /\ DeletePoints(doc[t])
    BY <1>1 DEF Delete, GoTo, TInv, LocalsOK, locals
  <2>. QED
    BY <1>0, <2>1, DeleteWhole DEF TInv, TypeOK
<1>2. CASE Upsert(t)
  BY <1>0, <1>2, UpsertWhole DEF Upsert, GoTo, TInv, TypeOK
<1>3. CASE ~Delete(t) /\ ~Upsert(t)
  <2>. USE DEF GoTo, TInv, TypeOK
  <2>1. points' = points /\ pc'[t] # "upsert"
    <3>1. CASE List(t) \/ Stale(t) \/ Scan(t) \/ NextFile(t) \/ IngestDone(t) \/ Quarantine(t)
      BY <3>1 DEF List, Stale, Scan, NextFile, IngestDone, Quarantine, Finish, storeVars
    <3>2. CASE Load(t) \/ Exists(t) \/ Create(t) \/ Clear(t) \/ Forget(t)
      BY <3>2 DEF Load, Accept, SetAside, Refuse, Exists, Create, Clear, Forget, Finish, storeVars, CreateCollection,
                  InvalidateCache
    <3>3. CASE Replace(t) \/ Find(t) \/ Unlink(t)
      BY <3>3 DEF Replace, Find, Unlink, Finish, storeVars
    <3>4. CASE Probe(t) \/ Check(t) \/ Fill(t) \/ Store(t) \/ Recall(t)
      BY <3>4 DEF Probe, Check, Fill, Store, Recall, Finish, storeVars, RememberNames
    <3>. QED
      BY <1>3, <3>1, <3>2, <3>3, <3>4 DEF Step
  <2>. QED
    BY <1>0, <2>1, KeepWhole
<1>. QED
  BY <1>1, <1>2, <1>3

LEMMA FailureWhole ==
  ASSUME TInv, Apart, Cleared, IndexWhole, NEW t \in Threads, Raise(t) \/ RaiseLate(t)
  PROVE  Cleared' /\ IndexWhole'
<1>1. /\ pc'[t] = "idle" /\ doc' \in [Threads -> Names \cup {NoValue}]
      /\ \A u \in Threads \ {t} : pc'[u] = pc[u] /\ doc'[u] = doc[u]
  BY DEF Raise, RaiseLate, Finish, TInv, TypeOK
<1>2. CASE points' = points
  BY <1>1, <1>2, KeepWhole
<1>3. CASE pc[t] = "delete" /\ DeletePoints(doc[t])
  BY <1>1, <1>3, DeleteWhole DEF TInv, LocalsOK
<1>4. CASE pc[t] = "upsert" /\ UpsertPoints(doc[t], body[t])
  BY <1>1, <1>4, UpsertWhole
<1>. QED
  BY <1>2, <1>3, <1>4 DEF Raise, RaiseLate, storeVars, CreateCollection

LEMMA InitIInv == Init => IInv
<1>. SUFFICES ASSUME Init PROVE IInv
  OBVIOUS
<1>1. Apart /\ Cleared
  BY DEF Init, Apart, Cleared, Busy
<1>2. ASSUME NEW n \in Names
      PROVE  points[n] = NoPoints \/ \E v \in Versions : Whole(n, v)
  BY DEF Init, Upgraded, Whole, Versions
<1>. QED
  BY <1>1, <1>2, InitTInv DEF IInv, IndexWhole

LEMMA NextIInv == Exclusive /\ IInv /\ [Next]_vars => IInv'
<1>. SUFFICES ASSUME Exclusive, IInv, [Next]_vars PROVE IInv'
  OBVIOUS
<1>0. TInv' /\ Apart'
  BY NextTInv, NextApart DEF IInv
<1>. USE DEF IInv
<1>1. ASSUME NEW t \in Workers, Request(t) PROVE Cleared' /\ IndexWhole'
  <2>1. PICK first \in {"load", "list", "find", "probe"} :
          \E k, n, c : Begin(t, k, n, c, first)
    BY <1>1 DEF Request, BeginUpload, BeginIngest, BeginDelete, BeginSearch
  <2>2. /\ points' = points
        /\ \A u \in Threads : pc'[u] = "upsert" => pc[u] = "upsert" /\ doc'[u] = doc[u]
    BY <2>1 DEF Begin, GoTo, storeVars, TInv, TypeOK
  <2>. QED
    BY <2>2, KeepWhole
<1>2. ASSUME NEW t \in Threads, Step(t) PROVE Cleared' /\ IndexWhole'
  BY <1>2, StepWhole
<1>3. ASSUME NEW t \in Threads, Raise(t) \/ RaiseLate(t) PROVE Cleared' /\ IndexWhole'
  BY <1>3, FailureWhole
<1>4. ASSUME NEW autoIngest \in BOOLEAN, Boot(autoIngest) PROVE Cleared' /\ IndexWhole'
  <2>1. /\ points' = points
        /\ \A u \in Threads : pc'[u] = "upsert" => pc[u] = "upsert" /\ doc'[u] = doc[u]
    BY <1>4 DEF Boot, storeVars, TInv, TypeOK
  <2>. QED
    BY <2>1, KeepWhole
<1>5. CASE AutoStart
  <2>1. /\ points' = points
        /\ \A u \in Threads : pc'[u] = "upsert" => pc[u] = "upsert" /\ doc'[u] = doc[u]
    BY <1>5 DEF AutoStart, GoTo, storeVars, locals, TInv, TypeOK
  <2>. QED
    BY <1>0, <2>1, KeepWhole
<1>6. CASE Crash
  <2>1. points' = points /\ \A u \in Threads : pc'[u] # "upsert"
    BY <1>6 DEF Crash
  <2>. QED
    BY <1>0, <2>1, KeepWhole
<1>7. CASE UNCHANGED vars
  <2>1. points' = points /\ pc' = pc /\ doc' = doc
    BY <1>7 DEF vars, storeVars, locals
  <2>. QED
    BY <1>0, <2>1, KeepWhole
<1>. QED
  BY <1>0, <1>1, <1>2, <1>3, <1>4, <1>5, <1>6, <1>7 DEF Next

\* "replace, don't duplicate": with requests that write one document kept apart, every
\* document has no points or the points of one content, through every failure,
\* late error and restart, for any number of threads, names, contents and chunks.
THEOREM NeverMixed == Exclusive => (Spec => []IndexWhole)
<1>. SUFFICES ASSUME Exclusive PROVE Spec => []IndexWhole
  OBVIOUS
<1>1. IInv /\ [Next]_vars => IInv'
  BY NextIInv
<1>2. IInv => IndexWhole
  BY DEF IInv
<1>. QED
  BY <1>1, <1>2, InitIInv, PTL DEF Spec

(***************************************************************************)
(* Files change only at the last step of an upload, to content that was    *)
(* ingested, or by being removed or renamed.                               *)
(***************************************************************************)
KeepsGoodFiles ==
  \A n \in Names : files'[n] # files[n] => files'[n] \in Readable \cup {NoValue}

LEMMA StepKeepsGoodFiles ==
  ASSUME TInv, NEW t \in Threads, Step(t)
  PROVE  KeepsGoodFiles
<1>. USE DEF TInv, TypeOK, KeepsGoodFiles
<1>1. CASE Replace(t)
  <2>1. body[t] \in Readable
    BY <1>1 DEF Replace, LocalsOK
  <2>. QED
    BY <1>1, <2>1 DEF Replace
<1>2. CASE Quarantine(t)
  BY <1>2 DEF Quarantine
<1>3. CASE Unlink(t)
  BY <1>3 DEF Unlink
<1>4. CASE List(t) \/ Stale(t) \/ Scan(t) \/ NextFile(t) \/ IngestDone(t)
  BY <1>4 DEF List, Stale, Scan, NextFile, IngestDone
<1>5. CASE Load(t) \/ Exists(t) \/ Create(t) \/ Clear(t) \/ Delete(t) \/ Upsert(t) \/ Forget(t)
  BY <1>5 DEF Load, Accept, SetAside, Refuse, Exists, Create, Clear, Delete, Upsert, Forget
<1>6. CASE Find(t) \/ Probe(t) \/ Check(t) \/ Fill(t) \/ Store(t) \/ Recall(t)
  BY <1>6 DEF Find, Probe, Check, Fill, Store, Recall
<1>. QED
  BY <1>1, <1>2, <1>3, <1>4, <1>5, <1>6 DEF Step

\* Whatever requests overlap, fail or are cut short, no file of the library is
\* overwritten by content that could not be ingested.
THEOREM RefusedUploadsHarmless == Spec => GoodFilesKept
<1>1. TInv /\ [Next]_vars =>
        [\A n \in Names : files'[n] # files[n] => files'[n] \in Readable \cup {NoValue}]_vars
  <2>. SUFFICES ASSUME TInv, Next PROVE KeepsGoodFiles
    BY DEF KeepsGoodFiles
  <2>1. ASSUME NEW t \in Threads, Step(t) PROVE KeepsGoodFiles
    BY <2>1, StepKeepsGoodFiles
  <2>2. ASSUME files' = files PROVE KeepsGoodFiles
    BY <2>2 DEF KeepsGoodFiles
  <2>3. ASSUME ~\E t \in Threads : Step(t) PROVE files' = files
    BY <2>3 DEF Next, Request, BeginUpload, BeginIngest, BeginDelete, BeginSearch, Begin,
                Raise, RaiseLate, Boot, AutoStart, Crash
  <2>. QED
    BY <2>1, <2>2, <2>3
<1>2. Spec => []TInv
  BY InitTInv, NextTInv, PTL DEF Spec
<1>. QED
  BY <1>1, <1>2, PTL DEF Spec, GoodFilesKept

(***************************************************************************)
(* What the index and the quarantine say of the files, for clients that    *)
(* keep requests on one document apart.  Searches may run beside them all. *)
(*                                                                         *)
(* The invariant FInv says what each thread can rely on at each call: the  *)
(* file it has loaded, the points it has written and the listing it has    *)
(* read are still what it believes they are.  A thread touches only what   *)
(* it claims (StepFrame), and claims are disjoint (Apart), so no step of   *)
(* another thread disturbs those facts.                                    *)
(***************************************************************************)

\* The file behind a document of ingest_directory.
FileAtHand(t) ==
  /\ pc[t] = "quarantine" => files[doc[t]] \in Unreadable \cup {NoValue}
  /\ op[t] \in Ingests /\ pc[t] \in {"exists", "create", "clear", "delete", "upsert", "forget"}
       => files[doc[t]] = body[t]

\* The points of the document a thread has just written or removed.
PointsAtHand(t) ==
  /\ pc[t] \in {"forget", "replace"} => points[doc[t]] = Rendering(body[t], "current")
  /\ pc[t] = "unlink" => points[doc[t]] = NoPoints

\* The listing a thread has read.
ListedAtHand(t) ==
  /\ pc[t] = "stale" => listed[t] = Indexed
  /\ pc[t] = "scan" => \A n \in listed[t] : Whole(n, "current")

InIngestFile(t) ==
  pc[t] \in {"load", "quarantine", "exists", "create", "clear", "delete", "upsert", "forget"}

\* ingest_directory has yet to look at every file that is not indexed.
CatchingUp(t) ==
  op[t] \in Ingests /\ (pc[t] = "next" \/ InIngestFile(t)) =>
    \A n \in Present :
      n \in todo[t] \/ Whole(n, "current") \/ (InIngestFile(t) /\ n = doc[t])

ThreadFollows(t) ==
  FileAtHand(t) /\ PointsAtHand(t) /\ ListedAtHand(t) /\ CatchingUp(t)

FInv == IInv /\ QuarantineOnlyBad /\ \A t \in Threads : ThreadFollows(t)

(***************************************************************************)
(* What a step of a thread touches.                                        *)
(***************************************************************************)
Works(t) == Step(t) \/ Raise(t) \/ RaiseLate(t)

\* The locals of every thread but t stay as they are.
OthersStay(t) ==
  \A u \in Threads \ {t} :
    /\ pc'[u] = pc[u] /\ op'[u] = op[u] /\ doc'[u] = doc[u]
    /\ body'[u] = body[u] /\ listed'[u] = listed[u] /\ todo'[u] = todo[u]

LEMMA WorkLocals ==
  ASSUME TInv, NEW t \in Threads, Works(t)
  PROVE  OthersStay(t)
<1>. USE DEF TInv, TypeOK, GoTo, OthersStay
<1>1. CASE List(t) \/ Stale(t) \/ Scan(t) \/ NextFile(t) \/ IngestDone(t)
  BY <1>1 DEF List, Stale, Scan, NextFile, IngestDone, Finish, locals
<1>2. CASE Quarantine(t) \/ Forget(t)
  BY <1>2 DEF Quarantine, Forget, Finish
<1>3. CASE Load(t)
  BY <1>3 DEF Load, Accept, SetAside, Refuse, Finish, locals
<1>4. CASE Exists(t) \/ Create(t) \/ Clear(t) \/ Delete(t) \/ Upsert(t)
  BY <1>4 DEF Exists, Create, Clear, Delete, Upsert, Finish, locals
<1>5. CASE Replace(t) \/ Find(t) \/ Unlink(t)
  BY <1>5 DEF Replace, Find, Unlink, Finish, locals
<1>6. CASE Probe(t) \/ Check(t) \/ Fill(t) \/ Store(t) \/ Recall(t)
  BY <1>6 DEF Probe, Check, Fill, Store, Recall, Finish, locals
<1>7. CASE Raise(t) \/ RaiseLate(t)
  BY <1>7 DEF Raise, RaiseLate, Finish
<1>. QED
  BY <1>1, <1>2, <1>3, <1>4, <1>5, <1>6, <1>7 DEF Works, Step

PointsEffect(t) ==
  \/ points' = points
  \/ pc[t] = "delete" /\ DeletePoints(doc[t])
  \/ pc[t] = "upsert" /\ UpsertPoints(doc[t], body[t])

FilesEffect(t) ==
  \/ files' = files /\ quarantined' = quarantined
  \/ Quarantine(t) \/ Replace(t) \/ Unlink(t)

CacheEffect(t) ==
  \/ cache' = cache
  \/ cache' = NoValue
  \/ pc[t] = "store" /\ cache' = listed[t] /\ points' = points

LEMMA WorkEffects ==
  ASSUME NEW t \in Threads, Works(t)
  PROVE  PointsEffect(t) /\ FilesEffect(t) /\ CacheEffect(t)
<1>. USE DEF PointsEffect, FilesEffect, CacheEffect, GoTo
<1>1. CASE List(t) \/ Stale(t) \/ Scan(t) \/ NextFile(t) \/ IngestDone(t)
  BY <1>1 DEF List, Stale, Scan, NextFile, IngestDone, storeVars
<1>2. CASE Quarantine(t) \/ Replace(t) \/ Unlink(t)
  BY <1>2 DEF Quarantine, Replace, Unlink, storeVars
<1>3. CASE Load(t)
  BY <1>3 DEF Load, Accept, SetAside, Refuse, storeVars
<1>4. CASE Exists(t) \/ Create(t) \/ Clear(t) \/ Forget(t)
  BY <1>4 DEF Exists, Create, Clear, Forget, storeVars, CreateCollection, InvalidateCache
<1>5. CASE Delete(t) \/ Upsert(t)
  BY <1>5 DEF Delete, Upsert, DeletePoints, UpsertPoints
<1>6. CASE Find(t) \/ Probe(t) \/ Check(t) \/ Fill(t) \/ Store(t) \/ Recall(t)
  BY <1>6 DEF Find, Probe, Check, Fill, Store, Recall, RememberNames, storeVars
<1>7. CASE Raise(t) \/ RaiseLate(t)
  BY <1>7 DEF Raise, RaiseLate, storeVars, CreateCollection, DeletePoints, UpsertPoints
<1>. QED
  BY <1>1, <1>2, <1>3, <1>4, <1>5, <1>6, <1>7 DEF Works, Step

(***************************************************************************)
(* Claims.                                                                 *)
(***************************************************************************)
LEMMA WorkBusy ==
  ASSUME TInv, NEW t \in Threads, Works(t)
  PROVE  Busy(t)
  BY StepClaims DEF Works, Raise, RaiseLate, BackendCalls, WriteCalls, Busy

LEMMA OwnClaim ==
  ASSUME NEW t \in Threads, op[t] # "search", doc[t] \in Names
  PROVE  doc[t] \in Claims(t)
  BY DEF Claims, Touches

LEMMA WideClaim ==
  ASSUME NEW t \in Threads, op[t] \in Ingests
  PROVE  Claims(t) = Names
  BY DEF Claims, Touches, Ingests

\* A step touches no document that its thread does not claim.
LEMMA StepFrame ==
  ASSUME TInv, NEW t \in Threads, Works(t), NEW n \in Names \ Claims(t)
  PROVE  files'[n] = files[n] /\ points'[n] = points[n]
<1>1. PointsEffect(t) /\ FilesEffect(t)
  BY WorkEffects
<1>2. pc[t] \in {"delete", "upsert", "quarantine", "replace"} => doc[t] # n
  BY OwnClaim DEF TInv, ControlOK, LocalsOK, Ingests
<1>3. points'[n] = points[n]
  BY <1>1, <1>2 DEF PointsEffect, DeletePoints, UpsertPoints, TInv, LocalsOK, TypeOK, StoreTypeOK
<1>4. CASE Quarantine(t) \/ Replace(t)
  BY <1>2, <1>3, <1>4 DEF Quarantine, Replace, TInv, LocalsOK, TypeOK
<1>5. CASE Unlink(t)
  <2>1. SafeName[doc[t]] \in Claims(t)
    BY <1>5 DEF Unlink, Claims, Touches, TInv, ControlOK
  <2>. QED
    BY <1>3, <1>5, <2>1 DEF Unlink, TInv, TypeOK
<1>. QED
  BY <1>1, <1>3, <1>4, <1>5 DEF FilesEffect

\* So what another thread claims stays as it is.
LEMMA OthersClaims ==
  ASSUME TInv, Apart, NEW t \in Threads, Works(t), NEW u \in Threads \ {t}, Busy(u)
  PROVE  \A n \in Claims(u) \cap Names : files'[n] = files[n] /\ points'[n] = points[n]
  BY WorkBusy, StepFrame DEF Apart

(***************************************************************************)
(* The threads that do not move.                                           *)
(***************************************************************************)
LEMMA OthersFollow ==
  ASSUME TInv, Apart, NEW t \in Threads, Works(t), NEW u \in Threads \ {t}, ThreadFollows(u)
  PROVE  ThreadFollows(u)'
<1>0. /\ pc'[u] = pc[u] /\ op'[u] = op[u] /\ doc'[u] = doc[u]
      /\ body'[u] = body[u] /\ listed'[u] = listed[u] /\ todo'[u] = todo[u]
  BY WorkLocals DEF OthersStay
<1>1. CASE ~Busy(u)
  BY <1>0, <1>1 DEF Busy, ThreadFollows, FileAtHand, PointsAtHand, ListedAtHand, CatchingUp,
                    InIngestFile
<1>2. CASE Busy(u)
  <2>1. op[u] # "search" /\ doc[u] \in Names =>
          files'[doc[u]] = files[doc[u]] /\ points'[doc[u]] = points[doc[u]]
    BY <1>2, OthersClaims, OwnClaim
  <2>2. op[u] \in Ingests =>
          \A n \in Names : files'[n] = files[n] /\ points'[n] = points[n]
    BY <1>2, OthersClaims, WideClaim
  <2>3. FileAtHand(u)'
    BY <1>0, <2>1 DEF ThreadFollows, FileAtHand, TInv, ControlOK, LocalsOK, Ingests
  <2>4. PointsAtHand(u)'
    BY <1>0, <2>1 DEF ThreadFollows, PointsAtHand, TInv, ControlOK, LocalsOK, Ingests
  <2>5. ListedAtHand(u)'
    <3>1. ASSUME pc[u] \in {"stale", "scan"}
          PROVE  \A n \in Names : points'[n] = points[n]
      BY <2>2, <3>1 DEF TInv, ControlOK
    <3>2. listed[u] \subseteq Names
      BY DEF TInv, TypeOK
    <3>. QED
      BY <1>0, <3>1, <3>2 DEF ThreadFollows, ListedAtHand, Indexed, Whole
  <2>6. CatchingUp(u)'
    <3>1. CASE op[u] \in Ingests
      BY <1>0, <2>2, <3>1 DEF ThreadFollows, CatchingUp, InIngestFile, Present, Whole
    <3>2. CASE op[u] \notin Ingests
      BY <1>0, <3>2 DEF CatchingUp
    <3>. QED
      BY <3>1, <3>2
  <2>. QED
    BY <2>3, <2>4, <2>5, <2>6 DEF ThreadFollows
<1>. QED
  BY <1>1, <1>2

(***************************************************************************)
(* The thread that moves.                                                  *)
(***************************************************************************)
LEMMA AnsweredFollows ==
  ASSUME NEW t \in Threads, pc'[t] = "idle"
  PROVE  ThreadFollows(t)'
<1>1. FileAtHand(t)' /\ PointsAtHand(t)'
  BY DEF FileAtHand, PointsAtHand
<1>2. ListedAtHand(t)'
  BY DEF ListedAtHand
<1>3. CatchingUp(t)'
  BY DEF CatchingUp, InIngestFile
<1>. QED
  BY <1>1, <1>2, <1>3 DEF ThreadFollows

\* A request that is not ingest_directory has no files to catch up with.
LEMMA NotCatchingUp ==
  ASSUME NEW t \in Threads, op'[t] \notin Ingests
  PROVE  CatchingUp(t)'
  BY DEF CatchingUp

\* Within ingest_file, only its own document changes.
LEMMA IngestFileCatchesUp ==
  ASSUME NEW t \in Threads, CatchingUp(t), InIngestFile(t), files' = files,
         \A n \in Names \ {doc[t]} : points'[n] = points[n],
         op'[t] = op[t], todo'[t] = todo[t], doc'[t] = doc[t], InIngestFile(t)'
  PROVE  CatchingUp(t)'
  BY DEF CatchingUp, Present, Whole

\* A document that is indexed and not stale is whole, by the current chunker.
LEMMA FreshIsWhole ==
  ASSUME IndexWhole, NEW n \in Indexed \ StaleDocs
  PROVE  Whole(n, "current")
<1>1. PICK v \in Versions, c \in Readable : points[n] = Rendering(c, v)
  BY DEF IndexWhole, Indexed, Whole
<1>2. Size[c][v] \in 1 .. MaxChunks
  BY SizeAssumption
<1>3. 0 \in Index /\ 0 < Size[c][v]
  BY <1>2, MaxChunksAssumption DEF Index
<1>4. points[n][0] = [content |-> c, version |-> v]
  BY <1>1, <1>3 DEF Rendering
<1>5. points[n][0] # NoValue
  BY <1>4, NoValueAssumption DEF Payload
<1>. QED
  BY <1>1, <1>3, <1>4, <1>5 DEF StaleDocs, Indexed, Whole

LEMMA IngestDirectoryFollows ==
  ASSUME TInv, IndexWhole, NEW t \in Threads, ThreadFollows(t),
         List(t) \/ Stale(t) \/ Scan(t) \/ NextFile(t) \/ IngestDone(t) \/ Quarantine(t)
  PROVE  ThreadFollows(t)'
<1>. USE DEF GoTo, TInv, TypeOK
<1>1. CASE List(t)
  BY <1>1 DEF List, ThreadFollows, FileAtHand, PointsAtHand, ListedAtHand, CatchingUp,
              InIngestFile, storeVars, Indexed
<1>2. CASE Stale(t)
  <2>1. pc'[t] = "scan" /\ listed'[t] = Indexed \ StaleDocs /\ points' = points
    BY <1>2 DEF Stale, storeVars, ThreadFollows, ListedAtHand
  <2>2. ListedAtHand(t)'
    BY <2>1, FreshIsWhole DEF ListedAtHand, Whole
  <2>. QED
    BY <2>1, <2>2 DEF ThreadFollows, FileAtHand, PointsAtHand, CatchingUp, InIngestFile
<1>3. CASE Scan(t)
  <2>1. /\ pc[t] = "scan" /\ pc'[t] = "next" /\ points' = points /\ files' = files
        /\ Present \ listed[t] \subseteq todo'[t]
    BY <1>3 DEF Scan, storeVars, Present
  <2>2. CatchingUp(t)'
    BY <2>1 DEF ThreadFollows, ListedAtHand, CatchingUp, Whole, Present
  <2>. QED
    BY <2>1, <2>2 DEF ThreadFollows, FileAtHand, PointsAtHand, ListedAtHand
<1>4. CASE NextFile(t)
  <2>1. PICK n \in todo[t] :
          /\ pc[t] = "next" /\ pc'[t] = IF files[n] = NoValue THEN "next" ELSE "load"
          /\ todo'[t] = todo[t] \ {n}
          /\ doc'[t] = IF files[n] = NoValue THEN NoValue ELSE n
          /\ op'[t] = op[t] /\ points' = points /\ files' = files
    BY <1>4 DEF NextFile, storeVars
  <2>2. CatchingUp(t)'
    BY <2>1 DEF ThreadFollows, CatchingUp, InIngestFile, Whole, Present
  <2>. QED
    BY <2>1, <2>2 DEF ThreadFollows, FileAtHand, PointsAtHand, ListedAtHand
<1>5. CASE IngestDone(t)
  BY <1>5, AnsweredFollows DEF IngestDone, Finish
<1>6. CASE Quarantine(t)
  <2>1. CASE files[doc[t]] = NoValue
    BY <1>6, <2>1, AnsweredFollows DEF Quarantine, Finish
  <2>2. CASE files[doc[t]] # NoValue
    <3>1. /\ pc[t] = "quarantine" /\ pc'[t] = "next" /\ points' = points /\ todo' = todo
          /\ op' = op /\ doc[t] \in Names
          /\ \A n \in Names : files'[n] = IF n = doc[t] THEN NoValue ELSE files[n]
      BY <1>6, <2>2 DEF Quarantine, storeVars, LocalsOK
    <3>2. CatchingUp(t)'
      BY <3>1 DEF ThreadFollows, CatchingUp, InIngestFile, Whole, Present
    <3>. QED
      BY <3>1, <3>2 DEF ThreadFollows, FileAtHand, PointsAtHand, ListedAtHand
  <2>. QED
    BY <2>1, <2>2
<1>. QED
  BY <1>1, <1>2, <1>3, <1>4, <1>5, <1>6

LEMMA IngestFileFollows ==
  ASSUME TInv, Cleared, NEW t \in Threads, ThreadFollows(t),
         \/ Load(t) \/ Exists(t) \/ Create(t) \/ Clear(t) \/ Delete(t) \/ Upsert(t) \/ Forget(t)
  PROVE  ThreadFollows(t)'
<1>. USE DEF GoTo, TInv, TypeOK
<1>1. CASE Load(t)
  <2>1. CASE Accept(t)
    <3>1. /\ pc[t] = "load" /\ pc'[t] = "exists" /\ points' = points /\ files' = files
          /\ UNCHANGED <<op, doc, todo>>
          /\ body'[t] = Source(t)
      BY <2>1 DEF Accept, storeVars
    <3>2. CatchingUp(t)'
      BY <3>1, IngestFileCatchesUp DEF ThreadFollows, InIngestFile
    <3>. QED
      BY <3>1, <3>2 DEF ThreadFollows, FileAtHand, PointsAtHand, ListedAtHand, Source, Ingests
  <2>2. CASE SetAside(t)
    <3>1. /\ pc[t] = "load" /\ pc'[t] = "quarantine" /\ points' = points /\ files' = files
          /\ UNCHANGED <<op, doc, todo>>
          /\ files[doc[t]] \in Unreadable
      BY <2>2 DEF SetAside, Source, Ingests, storeVars, locals
    <3>2. CatchingUp(t)'
      BY <3>1, IngestFileCatchesUp DEF ThreadFollows, InIngestFile
    <3>. QED
      BY <3>1, <3>2 DEF ThreadFollows, FileAtHand, PointsAtHand, ListedAtHand
  <2>3. CASE Refuse(t)
    BY <2>3, AnsweredFollows DEF Refuse, Finish
  <2>. QED
    BY <1>1, <2>1, <2>2, <2>3 DEF Load
<1>2. ASSUME NEW to \in {"create", "clear", "delete"}, pc[t] \in {"exists", "create", "clear"},
             pc'[t] = to, UNCHANGED <<points, files, op, doc, body, todo>>
      PROVE  ThreadFollows(t)'
  <2>1. CatchingUp(t)'
    BY <1>2, IngestFileCatchesUp DEF ThreadFollows, InIngestFile
  <2>. QED
    BY <1>2, <2>1 DEF ThreadFollows, FileAtHand, PointsAtHand, ListedAtHand
<1>3. CASE Exists(t)
  BY <1>2, <1>3 DEF Exists, storeVars, locals
<1>4. CASE Create(t)
  <2>1. CASE collection
    BY <1>4, <2>1, AnsweredFollows DEF Create, Finish
  <2>2. CASE ~collection
    BY <1>2, <1>4, <2>2 DEF Create, CreateCollection, locals
  <2>. QED
    BY <2>1, <2>2
<1>5. CASE Clear(t)
  <2>1. CASE op[t] = "delete"
    BY <1>5, <2>1, NotCatchingUp
       DEF Clear, InvalidateCache, locals, ThreadFollows, FileAtHand, PointsAtHand,
           ListedAtHand, Ingests
  <2>2. CASE op[t] # "delete"
    BY <1>2, <1>5, <2>2 DEF Clear, InvalidateCache, locals
  <2>. QED
    BY <2>1, <2>2
<1>6. CASE Delete(t)
  <2>1. /\ pc[t] = "delete" /\ pc'[t] = IF op[t] = "delete" THEN "unlink" ELSE "upsert"
        /\ UNCHANGED <<files, op, doc, body, todo>> /\ doc[t] \in Names
        /\ points'[doc[t]] = NoPoints
        /\ \A n \in Names \ {doc[t]} : points'[n] = points[n]
    BY <1>6 DEF Delete, DeletePoints, locals, StoreTypeOK, LocalsOK
  <2>2. FileAtHand(t)' /\ PointsAtHand(t)' /\ ListedAtHand(t)'
    BY <2>1 DEF ThreadFollows, FileAtHand, PointsAtHand, ListedAtHand, Ingests
  <2>3. CatchingUp(t)'
    BY <2>1, IngestFileCatchesUp, NotCatchingUp DEF ThreadFollows, InIngestFile, Ingests
  <2>. QED
    BY <2>2, <2>3 DEF ThreadFollows
<1>7. CASE Upsert(t)
  <2>1. /\ pc[t] = "upsert" /\ pc'[t] = "forget" /\ doc[t] \in Names /\ body[t] \in Readable
        /\ UNCHANGED <<files, op, doc, body, todo>>
        /\ \A n \in Names \ {doc[t]} : points'[n] = points[n]
    BY <1>7 DEF Upsert, UpsertPoints, locals, StoreTypeOK, LocalsOK
  <2>2. points'[doc[t]] = Rendering(body[t], "current")
    BY <1>7, <2>1, UpsertCleared DEF Upsert, Cleared
  <2>3. FileAtHand(t)' /\ PointsAtHand(t)' /\ ListedAtHand(t)'
    BY <2>1, <2>2 DEF ThreadFollows, FileAtHand, PointsAtHand, ListedAtHand
  <2>4. CatchingUp(t)'
    BY <2>1, IngestFileCatchesUp DEF ThreadFollows, InIngestFile
  <2>. QED
    BY <2>3, <2>4 DEF ThreadFollows
<1>8. CASE Forget(t)
  <2>1. /\ pc[t] = "forget" /\ UNCHANGED <<points, files, op, todo>>
    BY <1>8 DEF Forget, InvalidateCache
  <2>2. CASE op[t] = "upload"
    <3>1. pc'[t] = "replace" /\ doc' = doc /\ body' = body
      BY <1>8, <2>2 DEF Forget
    <3>. QED
      BY <2>1, <2>2, <3>1, NotCatchingUp
         DEF ThreadFollows, FileAtHand, PointsAtHand, ListedAtHand, Ingests
  <2>3. CASE op[t] # "upload"
    <3>1. pc'[t] = "next"
      BY <1>8, <2>3 DEF Forget
    <3>2. body[t] \in Readable /\ points[doc[t]] = Rendering(body[t], "current")
      BY <2>1 DEF LocalsOK, ThreadFollows, PointsAtHand
    <3>3. Whole(doc[t], "current")
      BY <3>2 DEF Whole
    <3>4. CatchingUp(t)'
      BY <2>1, <3>1, <3>3 DEF ThreadFollows, CatchingUp, InIngestFile, Present, Whole
    <3>. QED
      BY <3>1, <3>4 DEF ThreadFollows, FileAtHand, PointsAtHand, ListedAtHand
  <2>. QED
    BY <2>2, <2>3
<1>. QED
  BY <1>1, <1>3, <1>4, <1>5, <1>6, <1>7, <1>8

LEMMA OtherCallsFollow ==
  ASSUME TInv, NEW t \in Threads, ThreadFollows(t),
         \/ Replace(t) \/ Find(t) \/ Unlink(t)
         \/ Probe(t) \/ Check(t) \/ Fill(t) \/ Store(t) \/ Recall(t)
  PROVE  ThreadFollows(t)'
<1>. USE DEF GoTo, TInv, TypeOK
<1>1. CASE pc'[t] = "idle"
  BY <1>1, AnsweredFollows
<1>2. CASE pc'[t] # "idle"
  <2>0. ~Replace(t) /\ ~Unlink(t) /\ ~Recall(t)
    BY <1>2 DEF Replace, Unlink, Recall, Finish
  <2>1. op[t] \in {"search", "delete"} /\ op' = op
    <3>1. CASE Find(t)
      BY <1>2, <3>1 DEF Find, Finish, ControlOK, locals
    <3>2. CASE Probe(t) \/ Check(t) \/ Fill(t) \/ Store(t)
      BY <1>2, <3>2 DEF Probe, Check, Fill, Store, Finish, ControlOK, locals
    <3>. QED
      BY <2>0, <3>1, <3>2
  <2>2. CatchingUp(t)' /\ FileAtHand(t)'
    <3>1. pc'[t] # "quarantine"
      BY <1>2, <2>0 DEF Find, Probe, Check, Fill, Store, Finish
    <3>. QED
      BY <2>1, <3>1 DEF CatchingUp, FileAtHand, Ingests
  <2>3. PointsAtHand(t)' /\ ListedAtHand(t)'
    <3>1. CASE Fill(t)
      BY <3>1 DEF Fill, PointsAtHand, ListedAtHand, storeVars, Indexed
    <3>2. CASE Find(t) \/ Probe(t) \/ Check(t) \/ Store(t)
      BY <1>2, <3>2 DEF Find, Probe, Check, Store, Finish, PointsAtHand, ListedAtHand
    <3>. QED
      BY <2>0, <3>1, <3>2
  <2>. QED
    BY <2>2, <2>3 DEF ThreadFollows
<1>. QED
  BY <1>1, <1>2

LEMMA WorkFollows ==
  ASSUME FInv, NEW t \in Threads, Works(t)
  PROVE  \A u \in Threads : ThreadFollows(u)'
<1>1. ASSUME NEW u \in Threads \ {t} PROVE ThreadFollows(u)'
  BY OthersFollow DEF FInv, IInv
<1>2. ThreadFollows(t)'
  <2>1. CASE Step(t)
    BY <2>1, IngestDirectoryFollows, IngestFileFollows, OtherCallsFollow DEF FInv, IInv, Step
  <2>2. CASE Raise(t) \/ RaiseLate(t)
    BY <2>2, AnsweredFollows DEF Raise, RaiseLate, Finish, FInv, IInv, TInv, TypeOK
  <2>. QED
    BY <2>1, <2>2 DEF Works
<1>. QED
  BY <1>1, <1>2

(***************************************************************************)
(* The quarantine.                                                         *)
(***************************************************************************)
LEMMA WorkQuarantine ==
  ASSUME FInv, NEW t \in Threads, Works(t)
  PROVE  QuarantineOnlyBad'
<1>1. CASE Quarantine(t)
  BY <1>1 DEF Quarantine, QuarantineOnlyBad, FInv, IInv, TInv, TypeOK, LocalsOK, ThreadFollows,
              FileAtHand
<1>2. CASE ~Quarantine(t)
  <2>1. quarantined' = quarantined
    BY <1>2, WorkEffects DEF FilesEffect, Replace, Unlink
  <2>. QED
    BY <2>1 DEF QuarantineOnlyBad, FInv
<1>. QED
  BY <1>1, <1>2

(***************************************************************************)
(* The steps that are not a thread's: they bring no thread to a call that   *)
(* relies on anything, and leave the files and the index alone.            *)
(***************************************************************************)
Relies(t) ==
  InIngestFile(t) \/ pc[t] \in {"stale", "scan", "next", "replace", "unlink"}

LEMMA IdleFollows ==
  ASSUME NEW t \in Threads, ~Relies(t)
  PROVE  ThreadFollows(t)
  BY DEF Relies, InIngestFile, ThreadFollows, FileAtHand, PointsAtHand, ListedAtHand, CatchingUp

Stays(t) ==
  /\ pc'[t] = pc[t] /\ op'[t] = op[t] /\ doc'[t] = doc[t]
  /\ body'[t] = body[t] /\ listed'[t] = listed[t] /\ todo'[t] = todo[t]

Undisturbed(t) == Stays(t) \/ ~Relies(t)' \/ (pc'[t] = "load" /\ op'[t] \notin Ingests)

LEMMA QuietFollows ==
  ASSUME FInv, UNCHANGED <<files, quarantined, points>>,
         \A t \in Threads : Undisturbed(t)
  PROVE  QuarantineOnlyBad' /\ \A t \in Threads : ThreadFollows(t)'
<1>1. QuarantineOnlyBad'
  BY DEF FInv, QuarantineOnlyBad
<1>2. ASSUME NEW t \in Threads PROVE ThreadFollows(t)'
  <2>1. CASE ~Relies(t)'
    BY <2>1, IdleFollows DEF Relies, InIngestFile, ThreadFollows, FileAtHand, PointsAtHand,
                             ListedAtHand, CatchingUp
  <2>2. CASE pc'[t] = "load" /\ op'[t] \notin Ingests
    BY <2>2 DEF ThreadFollows, FileAtHand, PointsAtHand, ListedAtHand, CatchingUp
  <2>3. CASE Stays(t)
    BY <2>3 DEF Stays, FInv, ThreadFollows, FileAtHand, PointsAtHand, ListedAtHand, CatchingUp,
                InIngestFile, Indexed, Whole, Present
  <2>. QED
    BY <2>1, <2>2, <2>3 DEF Undisturbed
<1>. QED
  BY <1>1, <1>2

LEMMA InitFInv == Init => FInv
<1>. SUFFICES ASSUME Init PROVE FInv
  OBVIOUS
<1>1. QuarantineOnlyBad
  BY DEF Init, QuarantineOnlyBad
<1>2. \A t \in Threads : ThreadFollows(t)
  BY IdleFollows DEF Init, Relies, InIngestFile
<1>. QED
  BY <1>1, <1>2, InitIInv DEF FInv

LEMMA NextFInv == Exclusive /\ FInv /\ [Next]_vars => FInv'
<1>. SUFFICES ASSUME Exclusive, FInv, [Next]_vars PROVE FInv'
  OBVIOUS
<1>0. IInv'
  BY NextIInv DEF FInv
<1>. DEFINE Rest == QuarantineOnlyBad' /\ \A t \in Threads : ThreadFollows(t)'
<1>1. ASSUME NEW t \in Workers, Request(t) PROVE Rest
  <2>1. PICK k, n, c, first :
          /\ Begin(t, k, n, c, first)
          /\ first \in {"load", "list", "find", "probe"}
          /\ first = "load" => k \notin Ingests
    BY <1>1 DEF Request, BeginUpload, BeginIngest, BeginDelete, BeginSearch, Ingests
  <2>2. /\ UNCHANGED <<files, quarantined, points, cache, listed, todo>>
        /\ pc' = [pc EXCEPT ![t] = first] /\ op' = [op EXCEPT ![t] = k]
        /\ doc' = [doc EXCEPT ![t] = n] /\ body' = [body EXCEPT ![t] = c]
    BY <2>1 DEF Begin, GoTo, storeVars
  <2>3. ASSUME NEW u \in Threads PROVE Undisturbed(u)
    <3>1. CASE u = t
      BY <2>1, <2>2, <3>1
         DEF Undisturbed, Relies, InIngestFile, FInv, IInv, TInv, TypeOK
    <3>2. CASE u # t
      BY <2>2, <3>2 DEF Undisturbed, Stays, FInv, IInv, TInv, TypeOK
    <3>. QED
      BY <3>1, <3>2
  <2>. QED
    BY <2>2, <2>3, QuietFollows
<1>2. ASSUME NEW t \in Threads, Works(t) PROVE Rest
  BY <1>2, WorkFollows, WorkQuarantine
<1>3. ASSUME NEW autoIngest \in BOOLEAN, Boot(autoIngest) PROVE Rest
  <2>1. \A u \in Threads : pc[u] = "idle"
    BY <1>3 DEF Boot, FInv, IInv, TInv, Stopped, Busy
  <2>2. \A u \in Threads : pc'[u] \in {"idle", "boot"}
    BY <1>3, <2>1 DEF Boot, FInv, IInv, TInv, TypeOK
  <2>3. \A u \in Threads : Undisturbed(u)
    BY <2>2 DEF Undisturbed, Relies, InIngestFile
  <2>. QED
    BY <1>3, <2>3, QuietFollows DEF Boot, storeVars
<1>4. ASSUME AutoStart PROVE Rest
  <2>1. \A u \in Threads \ {BootThread} : Stays(u)
    BY <1>4 DEF AutoStart, GoTo, locals, Stays, FInv, IInv, TInv, TypeOK
  <2>2. pc'[BootThread] = "list"
    BY <1>4 DEF AutoStart, GoTo, FInv, IInv, TInv, TypeOK, Threads
  <2>3. \A u \in Threads : Undisturbed(u)
    BY <2>1, <2>2 DEF Undisturbed, Relies, InIngestFile
  <2>. QED
    BY <1>4, <2>3, QuietFollows DEF AutoStart, storeVars
<1>5. ASSUME Crash PROVE Rest
  <2>1. \A u \in Threads : Undisturbed(u)
    BY <1>5 DEF Crash, Undisturbed, Relies, InIngestFile
  <2>. QED
    BY <1>5, <2>1, QuietFollows DEF Crash
<1>6. ASSUME UNCHANGED vars PROVE Rest
  <2>1. \A u \in Threads : Undisturbed(u)
    BY <1>6 DEF vars, locals, Undisturbed, Stays
  <2>. QED
    BY <1>6, <2>1, QuietFollows DEF vars, storeVars
<1>. QED
  BY <1>0, <1>1, <1>2, <1>3, <1>4, <1>5, <1>6 DEF Next, Works, FInv

LEMMA SpecFInv == Exclusive => (Spec => []FInv)
<1>. SUFFICES ASSUME Exclusive PROVE Spec => []FInv
  OBVIOUS
<1>1. FInv /\ [Next]_vars => FInv'
  BY NextFInv
<1>. QED
  BY <1>1, InitFInv, PTL DEF Spec

\* A file is only ever set aside for what it holds: through every failure, late
\* error and restart, for any number of requests at work on other documents and of
\* searches.
THEOREM OnlyBadSetAside == Exclusive => (Spec => []QuarantineOnlyBad)
<1>1. FInv => QuarantineOnlyBad
  BY DEF FInv
<1>. QED
  BY <1>1, SpecFInv, PTL

(***************************************************************************)
(* The filename cache.                                                     *)
(*                                                                         *)
(* A write resets the cache before it changes a point.  So while one is    *)
(* about to change the index, a cache that is set was set since, and by a  *)
(* search whose listing the write overlaps: one that lists in that time is *)
(* overtaken, and one that had listed before was so when the cache was     *)
(* reset.                                                                  *)
(***************************************************************************)
\* The listing that a search is about to store is right and no write can make it
\* wrong, unless the search is overtaken.
Filled ==
  \A t \in Threads : pc[t] = "store" =>
    t \in overtaken \/ (listed[t] = Indexed /\ ~Writing)

CInv == TInv /\ CacheCoherent /\ (Writing => suspect \/ cache = NoValue) /\ Filled

\* What the step of a thread does to the cache and to what is recorded of it.
CacheStep(t) ==
  \/ /\ cache' = NoValue /\ suspect' = FALSE /\ points' = points
     /\ overtaken' = {u \in Threads : pc[u] = "store"}
  \/ /\ cache' = NoValue /\ suspect' = FALSE /\ points' = points
     /\ overtaken' = overtaken /\ (Writing' => Writing)
  \/ /\ pc[t] = "store" /\ cache' = listed[t] /\ points' = points
     /\ suspect' = (t \in overtaken) /\ overtaken' = overtaken \ {t} /\ (Writing' => Writing)
  \/ /\ UNCHANGED <<cache, suspect, points>>
     /\ overtaken \subseteq overtaken' /\ (Writing' => Writing)
  \/ /\ pc[t] \in {"delete", "upsert"}
     /\ UNCHANGED <<cache, suspect, overtaken>>

\* A thread gets to the calls of a write that change the index by Clear only.
LEMMA WritingBegins ==
  ASSUME TInv, NEW t \in Threads, Works(t), ~Clear(t)
  PROVE  Writing' => Writing
<1>. SUFFICES ASSUME NEW u \in Threads, pc'[u] \in {"delete", "upsert"} PROVE Writing
  BY DEF Writing
<1>1. CASE u # t
  BY <1>1, WorkLocals DEF OthersStay, Writing
<1>2. CASE u = t
  <2>. USE DEF GoTo, TInv, TypeOK, Writing
  <2>2. CASE Delete(t)
    BY <2>2 DEF Delete
  <2>3. CASE List(t) \/ Stale(t) \/ Scan(t) \/ NextFile(t) \/ IngestDone(t) \/ Quarantine(t)
    BY <1>2, <2>3 DEF List, Stale, Scan, NextFile, IngestDone, Quarantine, Finish
  <2>4. CASE Load(t) \/ Exists(t) \/ Create(t) \/ Upsert(t) \/ Forget(t)
    BY <1>2, <2>4 DEF Load, Accept, SetAside, Refuse, Exists, Create, Upsert, Forget, Finish
  <2>5. CASE Replace(t) \/ Find(t) \/ Unlink(t)
    BY <1>2, <2>5 DEF Replace, Find, Unlink, Finish
  <2>6. CASE Probe(t) \/ Check(t) \/ Fill(t) \/ Store(t) \/ Recall(t)
    BY <1>2, <2>6 DEF Probe, Check, Fill, Store, Recall, Finish
  <2>7. CASE Raise(t) \/ RaiseLate(t)
    BY <1>2, <2>7 DEF Raise, RaiseLate, Finish
  <2>. QED
    BY <2>2, <2>3, <2>4, <2>5, <2>6, <2>7 DEF Works, Step
<1>. QED
  BY <1>1, <1>2

LEMMA WorkCacheStep ==
  ASSUME TInv, NEW t \in Threads, Works(t)
  PROVE  CacheStep(t)
<1>. USE DEF CacheStep, process, faults, overlap
<1>1. CASE Clear(t)
  BY <1>1 DEF Clear, InvalidateCache
<1>2. CASE ~Clear(t)
  <2>0. Writing' => Writing
    BY <1>2, WritingBegins
  <2>1. CASE List(t) \/ Stale(t) \/ Scan(t) \/ NextFile(t) \/ IngestDone(t) \/ Quarantine(t)
    BY <2>0, <2>1 DEF List, Stale, Scan, NextFile, IngestDone, Quarantine, storeVars
  <2>2. CASE Load(t) \/ Exists(t) \/ Create(t)
    BY <2>0, <2>2 DEF Load, Accept, SetAside, Refuse, Exists, Create, storeVars, CreateCollection
  <2>3. CASE Delete(t) \/ Upsert(t)
    BY <2>3 DEF Delete, Upsert, DeletePoints, UpsertPoints, GoTo
  <2>4. CASE Forget(t)
    BY <2>0, <2>4 DEF Forget, InvalidateCache
  <2>5. CASE Replace(t) \/ Find(t) \/ Unlink(t)
    BY <2>0, <2>5 DEF Replace, Find, Unlink, storeVars
  <2>6. CASE Probe(t) \/ Check(t) \/ Recall(t)
    BY <2>0, <2>6 DEF Probe, Check, Recall, storeVars
  <2>7. CASE Fill(t)
    BY <2>0, <2>7 DEF Fill, storeVars
  <2>8. CASE Store(t)
    BY <2>0, <2>8 DEF Store, RememberNames, GoTo
  <2>9. CASE Raise(t)
    BY <2>0, <2>9 DEF Raise, storeVars
  <2>10. CASE RaiseLate(t)
    BY <2>0, <2>10 DEF RaiseLate, CreateCollection, DeletePoints, UpsertPoints
  <2>. QED
    BY <1>2, <2>1, <2>2, <2>3, <2>4, <2>5, <2>6, <2>7, <2>8, <2>9, <2>10 DEF Works, Step
<1>. QED
  BY <1>1, <1>2

LEMMA WorkCache ==
  ASSUME CInv, NEW t \in Threads, Works(t)
  PROVE  CacheCoherent' /\ (Writing' => suspect' \/ cache' = NoValue)
<1>1. CacheStep(t)
  BY WorkCacheStep DEF CInv
<1>2. CASE pc[t] = "store" /\ cache' = listed[t] /\ points' = points
           /\ suspect' = (t \in overtaken) /\ (Writing' => Writing)
  BY <1>2 DEF CInv, Filled, CacheCoherent, Indexed
<1>3. CASE cache' = NoValue
  BY <1>3 DEF CacheCoherent
<1>4. CASE UNCHANGED <<cache, suspect, points>> /\ (Writing' => Writing)
  BY <1>4 DEF CInv, CacheCoherent, Indexed
<1>5. CASE pc[t] \in {"delete", "upsert"} /\ UNCHANGED <<cache, suspect, overtaken>>
  BY <1>5 DEF CInv, CacheCoherent, Writing
<1>. QED
  BY <1>1, <1>2, <1>3, <1>4, <1>5 DEF CacheStep

\* The only step that gets a thread to its store is the one that fills its listing.
LEMMA StoreBegins ==
  ASSUME TInv, NEW t \in Threads, Works(t), pc'[t] = "store"
  PROVE  Fill(t)
<1>. USE DEF GoTo, TInv, TypeOK
<1>2. CASE List(t) \/ Stale(t) \/ Scan(t) \/ NextFile(t) \/ IngestDone(t) \/ Quarantine(t)
  BY <1>2 DEF List, Stale, Scan, NextFile, IngestDone, Quarantine, Finish
<1>3. CASE Load(t) \/ Exists(t) \/ Create(t) \/ Clear(t) \/ Delete(t) \/ Upsert(t) \/ Forget(t)
  BY <1>3 DEF Load, Accept, SetAside, Refuse, Exists, Create, Clear, Delete, Upsert,
              Forget, Finish
<1>4. CASE Replace(t) \/ Find(t) \/ Unlink(t)
  BY <1>4 DEF Replace, Find, Unlink, Finish
<1>5. CASE Probe(t) \/ Check(t) \/ Store(t) \/ Recall(t)
  BY <1>5 DEF Probe, Check, Store, Recall, Finish
<1>6. CASE Raise(t) \/ RaiseLate(t)
  BY <1>6 DEF Raise, RaiseLate, Finish
<1>. QED
  BY <1>2, <1>3, <1>4, <1>5, <1>6 DEF Works, Step

LEMMA WorkFilled ==
  ASSUME CInv, NEW t \in Threads, Works(t)
  PROVE  Filled'
<1>. SUFFICES ASSUME NEW u \in Threads, pc'[u] = "store", u \notin overtaken'
              PROVE  listed'[u] = Indexed' /\ ~Writing'
  BY DEF Filled
<1>1. CASE u # t
  <2>1. pc[u] = "store" /\ listed'[u] = listed[u]
    BY <1>1, WorkLocals DEF OthersStay, CInv
  <2>2. CacheStep(t)
    BY WorkCacheStep DEF CInv
  <2>3. u \notin overtaken
    BY <1>1, <2>1, <2>2 DEF CacheStep, CInv, Filled, Writing
  <2>4. listed[u] = Indexed /\ ~Writing
    BY <2>1, <2>3 DEF CInv, Filled
  <2>5. points' = points /\ (Writing' => Writing)
    BY <2>1, <2>2, <2>4 DEF CacheStep, Writing
  <2>. QED
    BY <2>1, <2>4, <2>5 DEF Indexed
<1>2. CASE u = t
  <2>1. Fill(t)
    BY <1>2, StoreBegins DEF CInv
  <2>2. ~Clear(t)
    BY <2>1 DEF Fill, Clear, GoTo
  <2>3. ~Writing'
    BY <1>2, <2>1, <2>2, WritingBegins DEF Fill, CInv
  <2>4. listed'[t] = Indexed'
    BY <2>1 DEF Fill, storeVars, Indexed, CInv, TInv, TypeOK
  <2>. QED
    BY <1>2, <2>3, <2>4
<1>. QED
  BY <1>1, <1>2

\* A step that leaves the index and its history alone and brings no thread to a call
\* that counts on them.
LEMMA QuietCache ==
  ASSUME CInv, UNCHANGED <<points, cache, overtaken, suspect>>,
         \A t \in Threads :
           pc'[t] \in {"delete", "upsert", "store"} => pc'[t] = pc[t] /\ listed'[t] = listed[t]
  PROVE  CacheCoherent' /\ (Writing' => suspect' \/ cache' = NoValue) /\ Filled'
<1>1. Writing' => Writing
  BY DEF Writing
<1>. QED
  BY <1>1 DEF CInv, CacheCoherent, Filled, Indexed

LEMMA InitCInv == Init => CInv
<1>1. Init => CacheCoherent /\ ~Writing /\ Filled
  BY DEF Init, CacheCoherent, Writing, Filled
<1>. QED
  BY <1>1, InitTInv DEF CInv

LEMMA NextCInv == CInv /\ [Next]_vars => CInv'
<1>. SUFFICES ASSUME CInv, [Next]_vars PROVE CInv'
  OBVIOUS
<1>0. TInv'
  BY NextTInv DEF CInv
<1>. DEFINE Rest == CacheCoherent' /\ (Writing' => suspect' \/ cache' = NoValue) /\ Filled'
<1>1. ASSUME NEW t \in Workers, Request(t) PROVE Rest
  <2>1. PICK first \in {"load", "list", "find", "probe"} :
          \E k, n, c : Begin(t, k, n, c, first)
    BY <1>1 DEF Request, BeginUpload, BeginIngest, BeginDelete, BeginSearch
  <2>2. \A u \in Threads : pc'[u] \in {"delete", "upsert", "store"} =>
          pc'[u] = pc[u] /\ listed'[u] = listed[u]
    BY <2>1 DEF Begin, GoTo, CInv, TInv, TypeOK
  <2>. QED
    BY <2>1, <2>2, QuietCache DEF Begin, storeVars, process, faults, overlap
<1>2. ASSUME NEW t \in Threads, Works(t) PROVE Rest
  BY <1>2, WorkCache, WorkFilled
<1>3. ASSUME NEW autoIngest \in BOOLEAN, Boot(autoIngest) PROVE Rest
  <2>1. \A u \in Threads : pc[u] = "idle"
    BY <1>3 DEF Boot, CInv, TInv, Stopped, Busy
  <2>2. \A u \in Threads : pc'[u] \in {"idle", "boot"}
    BY <1>3, <2>1 DEF Boot, CInv, TInv, TypeOK
  <2>. QED
    BY <1>3, <2>2, QuietCache DEF Boot, storeVars, faults, overlap
<1>4. ASSUME AutoStart PROVE Rest
  <2>2. \A u \in Threads : pc'[u] \in {"delete", "upsert", "store"} =>
          pc'[u] = pc[u] /\ listed'[u] = listed[u]
    BY <1>4 DEF AutoStart, GoTo, locals, CInv, TInv, TypeOK
  <2>. QED
    BY <1>4, <2>2, QuietCache DEF AutoStart, storeVars, faults, overlap
<1>5. ASSUME Crash PROVE Rest
  BY <1>5 DEF Crash, CacheCoherent, Filled, Writing
<1>6. ASSUME UNCHANGED vars PROVE Rest
  <2>1. UNCHANGED <<pc, listed, points, cache, overtaken, suspect>>
    BY <1>6 DEF vars, storeVars, locals, process, faults, overlap
  <2>. QED
    BY <2>1, QuietCache
<1>. QED
  BY <1>0, <1>1, <1>2, <1>3, <1>4, <1>5, <1>6 DEF Next, Works, CInv

\* The filename cache that search() reads is unset or names exactly the indexed
\* documents, unless a search set it from a listing that a write of the index
\* overlapped: uploads, ingests, deletes and searches may all race, fail, answer late
\* or be cut short, on one document or on several.
THEOREM CacheNeverStale == Spec => []CacheCoherent
<1>1. CInv /\ [Next]_vars => CInv'
  BY NextCInv
<1>2. CInv => CacheCoherent
  BY DEF CInv
<1>. QED
  BY <1>1, <1>2, InitCInv, PTL DEF Spec

(***************************************************************************)
(* The index and the files.  The two are written by separate calls, so     *)
(* between them an upload's document has its new points and its old file;   *)
(* if the process stops there, cutOff records it.                          *)
(***************************************************************************)
\* The points of n, if any, were cut from its file.
Settled(n) ==
  points[n] # NoPoints =>
    files[n] \in Readable /\ \E v \in Versions : points[n] = Rendering(files[n], v)

BetweenCalls(t, n) == UploadUpserted(t) /\ doc[t] = n

IndexFollows ==
  \A n \in Names : n \in cutOff \/ Settled(n) \/ \E t \in Threads : BetweenCalls(t, n)

\* A delete removes the points of one name and the file of its safe form: they are
\* the same document.
NamesSafe == \A n \in Names : SafeName[n] = n

LEMMA WorkCutOff ==
  ASSUME NEW t \in Threads, Works(t)
  PROVE  \/ cutOff \subseteq cutOff'
         \/ pc[t] = "delete" /\ DeletePoints(doc[t]) /\ cutOff' = cutOff \ {doc[t]}
<1>. USE DEF GoTo, process, faults, overlap
<1>1. CASE List(t) \/ Stale(t) \/ Scan(t) \/ NextFile(t) \/ IngestDone(t) \/ Quarantine(t)
  BY <1>1 DEF List, Stale, Scan, NextFile, IngestDone, Quarantine
<1>2. CASE Load(t) \/ Exists(t) \/ Create(t) \/ Clear(t) \/ Upsert(t) \/ Forget(t)
  BY <1>2 DEF Load, Accept, SetAside, Refuse, Exists, Create, Clear, Upsert, Forget
<1>3. CASE Delete(t)
  BY <1>3 DEF Delete
<1>4. CASE Replace(t) \/ Find(t) \/ Unlink(t)
  BY <1>4 DEF Replace, Find, Unlink
<1>5. CASE Probe(t) \/ Check(t) \/ Fill(t) \/ Store(t) \/ Recall(t)
  BY <1>5 DEF Probe, Check, Fill, Store, Recall
<1>6. CASE Raise(t) \/ RaiseLate(t)
  BY <1>6 DEF Raise, RaiseLate
<1>. QED
  BY <1>1, <1>2, <1>3, <1>4, <1>5, <1>6 DEF Works, Step

LEMMA DeleteSettles ==
  ASSUME TInv, NEW t \in Threads, Works(t), pc[t] = "delete", DeletePoints(doc[t]),
         NEW n \in Names, n = doc[t] \/ Settled(n)
  PROVE  Settled(n)'
<1>1. files' = files
  BY WorkEffects DEF FilesEffect, Quarantine, Replace, Unlink
<1>2. points'[n] = IF n = doc[t] THEN NoPoints ELSE points[n]
  BY DEF DeletePoints, TInv, TypeOK, StoreTypeOK, LocalsOK
<1>. QED
  BY <1>1, <1>2 DEF Settled

\* The calls at which only one action can move a thread.
LEMMA StepCalls ==
  ASSUME NEW t \in Threads, Step(t)
  PROVE  \/ pc[t] = "upsert" /\ Upsert(t)
         \/ pc[t] = "forget" /\ Forget(t)
         \/ pc[t] = "replace" /\ Replace(t)
         \/ pc[t] = "next" /\ (NextFile(t) \/ IngestDone(t))
         \/ pc[t] \notin {"upsert", "forget", "replace", "next"}
<1>. USE DEF GoTo
<1>1. CASE List(t) \/ Stale(t) \/ Scan(t) \/ NextFile(t) \/ IngestDone(t) \/ Quarantine(t)
  BY <1>1 DEF List, Stale, Scan, NextFile, IngestDone, Quarantine
<1>2. CASE Load(t) \/ Exists(t) \/ Create(t) \/ Clear(t) \/ Delete(t) \/ Upsert(t) \/ Forget(t)
  BY <1>2 DEF Load, Accept, SetAside, Refuse, Exists, Create, Clear, Delete, Upsert, Forget
<1>3. CASE \/ Replace(t) \/ Find(t) \/ Unlink(t)
           \/ Probe(t) \/ Check(t) \/ Fill(t) \/ Store(t) \/ Recall(t)
  BY <1>3 DEF Replace, Find, Unlink, Probe, Check, Fill, Store, Recall
<1>. QED
  BY <1>1, <1>2, <1>3 DEF Step

LEMMA UpsertSettles ==
  ASSUME FInv, NEW t \in Threads, Works(t), pc[t] = "upsert", UpsertPoints(doc[t], body[t]),
         NEW n \in Names, Settled(n)
  PROVE  n \in cutOff' \/ Settled(n)' \/ BetweenCalls(t, n)'
<1>0. /\ op[t] \in Ingests \cup {"upload"} /\ doc[t] \in Names /\ body[t] \in Readable
      /\ op[t] \in Ingests => files[doc[t]] = body[t]
  BY DEF FInv, IInv, TInv, ControlOK, LocalsOK, ThreadFollows, FileAtHand
<1>1. files' = files
  BY WorkEffects DEF FilesEffect, Quarantine, Replace, Unlink
<1>2. CASE n # doc[t]
  BY <1>0, <1>1, <1>2 DEF Settled, UpsertPoints, FInv, IInv, TInv, TypeOK, StoreTypeOK
<1>3. CASE n = doc[t] /\ op[t] \in Ingests
  <2>1. points'[n] = Rendering(body[t], "current")
    BY <1>0, <1>3, UpsertCleared DEF FInv, IInv, Cleared, TInv, TypeOK
  <2>. QED
    BY <1>0, <1>1, <1>3, <2>1 DEF Settled, Versions
<1>4. CASE n = doc[t] /\ op[t] = "upload"
  <2>1. UNCHANGED points \/ Upsert(t) \/ RaiseLate(t)
    BY StepCalls DEF Works, Raise, storeVars
  <2>2. CASE UNCHANGED points
    BY <1>1, <2>2 DEF Settled
  <2>3. CASE Upsert(t)
    BY <1>4, <2>3
       DEF Upsert, GoTo, locals, BetweenCalls, UploadUpserted, FInv, IInv, TInv, TypeOK
  <2>4. CASE RaiseLate(t)
    BY <1>4, <2>4 DEF RaiseLate
  <2>. QED
    BY <2>1, <2>2, <2>3, <2>4
<1>. QED
  BY <1>0, <1>2, <1>3, <1>4

\* The steps that change files leave the points alone.
LEMMA FilesSettle ==
  ASSUME NamesSafe, FInv, NEW t \in Threads, Quarantine(t) \/ Replace(t) \/ Unlink(t),
         NEW n \in Names, Settled(n) \/ BetweenCalls(t, n)
  PROVE  Settled(n)'
<1>0. points' = points /\ doc[t] \in Names
  BY DEF Quarantine, Replace, Unlink, storeVars, FInv, IInv, TInv, LocalsOK
<1>. USE <1>0 DEF FInv, IInv, TInv, TypeOK, ThreadFollows
<1>1. CASE Quarantine(t)
  <2>1. files[doc[t]] \in Unreadable \cup {NoValue}
    BY <1>1 DEF Quarantine, FileAtHand
  <2>2. Settled(n)
    BY <1>1 DEF Quarantine, BetweenCalls, UploadUpserted
  <2>3. files'[n] = IF n = doc[t] THEN NoValue ELSE files[n]
    BY <1>1 DEF Quarantine
  <2>. QED
    BY <2>1, <2>2, <2>3, NoValueAssumption DEF Settled, Readable
<1>2. CASE Replace(t)
  <2>1. body[t] \in Readable /\ points[doc[t]] = Rendering(body[t], "current")
    BY <1>2 DEF Replace, PointsAtHand, LocalsOK
  <2>2. files'[n] = IF n = doc[t] THEN body[t] ELSE files[n]
    BY <1>2 DEF Replace
  <2>3. n = doc[t] \/ Settled(n)
    BY DEF BetweenCalls
  <2>. QED
    BY <2>1, <2>2, <2>3 DEF Settled, Versions
<1>3. CASE Unlink(t)
  <2>1. points[doc[t]] = NoPoints
    BY <1>3 DEF Unlink, PointsAtHand
  <2>2. Settled(n)
    BY <1>3 DEF Unlink, BetweenCalls, UploadUpserted
  <2>3. files'[n] = IF n = doc[t] THEN NoValue ELSE files[n]
    BY <1>3 DEF Unlink, NamesSafe
  <2>. QED
    BY <2>1, <2>2, <2>3 DEF Settled
<1>. QED
  BY <1>1, <1>2, <1>3

\* An upload stays between its two calls until it replaces the file.
LEMMA StillBetween ==
  ASSUME TInv, NEW t \in Threads, Works(t), ~Replace(t), NEW n \in Names, BetweenCalls(t, n)
  PROVE  BetweenCalls(t, n)'
<1>1. op[t] = "upload" /\ pc[t] \in {"forget", "replace"} /\ doc[t] = n
  BY DEF BetweenCalls, UploadUpserted
<1>2. Forget(t)
  BY <1>1, StepCalls DEF Works, Raise, RaiseLate, BackendCalls, WriteCalls
<1>. QED
  BY <1>1, <1>2 DEF Forget, GoTo, BetweenCalls, UploadUpserted, TInv, TypeOK

LEMMA WorkIndex ==
  ASSUME NamesSafe, FInv, IndexFollows, NEW t \in Threads, Works(t)
  PROVE  IndexFollows'
<1>. SUFFICES ASSUME NEW n \in Names
              PROVE  n \in cutOff' \/ Settled(n)' \/ \E u \in Threads : BetweenCalls(u, n)'
  BY DEF IndexFollows
<1>0. TInv /\ OthersStay(t) /\ PointsEffect(t) /\ FilesEffect(t)
  BY WorkLocals, WorkEffects DEF FInv, IInv
<1>1. CASE \E u \in Threads \ {t} : BetweenCalls(u, n)
  BY <1>0, <1>1 DEF OthersStay, BetweenCalls, UploadUpserted
<1>2. CASE n \in cutOff
  <2>1. CASE n \in cutOff'
    BY <2>1
  <2>2. CASE n \notin cutOff'
    BY <1>0, <1>2, <2>2, WorkCutOff, DeleteSettles
  <2>. QED
    BY <2>1, <2>2
<1>3. CASE Settled(n) \/ BetweenCalls(t, n)
  <2>1. CASE Quarantine(t) \/ Replace(t) \/ Unlink(t)
    BY <1>3, <2>1, FilesSettle
  <2>2. CASE ~(Quarantine(t) \/ Replace(t) \/ Unlink(t)) /\ BetweenCalls(t, n)
    BY <1>0, <2>2, StillBetween
  <2>3. CASE ~(Quarantine(t) \/ Replace(t) \/ Unlink(t)) /\ Settled(n)
    <3>1. files' = files
      BY <1>0, <2>3 DEF FilesEffect
    <3>2. CASE points' = points
      BY <2>3, <3>1, <3>2 DEF Settled
    <3>3. CASE pc[t] = "delete" /\ DeletePoints(doc[t])
      BY <1>0, <2>3, <3>3, DeleteSettles
    <3>4. CASE pc[t] = "upsert" /\ UpsertPoints(doc[t], body[t])
      BY <2>3, <3>4, UpsertSettles
    <3>. QED
      BY <1>0, <3>2, <3>3, <3>4 DEF PointsEffect
  <2>. QED
    BY <1>3, <2>1, <2>2, <2>3
<1>. QED
  BY <1>1, <1>2, <1>3 DEF IndexFollows

\* A stop records the uploads it cuts off.
LEMMA QuietIndex ==
  ASSUME IndexFollows, UNCHANGED <<files, points>>, cutOff \subseteq cutOff',
         \A t \in Threads : UploadUpserted(t) => doc[t] \in cutOff' \/ Stays(t)
  PROVE  IndexFollows'
  BY DEF IndexFollows, Settled, BetweenCalls, UploadUpserted, Stays

LEMMA NextIndexFollows ==
  ASSUME NamesSafe, FInv, IndexFollows, [Next]_vars
  PROVE  IndexFollows'
<1>1. ASSUME NEW t \in Workers, Request(t) PROVE IndexFollows'
  <2>1. PICK k, n, c, first : Begin(t, k, n, c, first)
    BY <1>1 DEF Request, BeginUpload, BeginIngest, BeginDelete, BeginSearch
  <2>2. \A u \in Threads : UploadUpserted(u) => Stays(u)
    BY <2>1 DEF Begin, GoTo, UploadUpserted, Stays, FInv, IInv, TInv, TypeOK
  <2>. QED
    BY <2>1, <2>2, QuietIndex DEF Begin, storeVars, process, faults, overlap
<1>2. ASSUME NEW t \in Threads, Works(t) PROVE IndexFollows'
  BY <1>2, WorkIndex
<1>3. ASSUME NEW autoIngest \in BOOLEAN, Boot(autoIngest) PROVE IndexFollows'
  <2>1. \A u \in Threads : ~UploadUpserted(u)
    BY <1>3 DEF Boot, UploadUpserted, FInv, IInv, TInv, Stopped, Busy
  <2>. QED
    BY <1>3, <2>1, QuietIndex DEF Boot, storeVars, faults, overlap
<1>4. CASE AutoStart
  <2>1. \A u \in Threads : UploadUpserted(u) => Stays(u)
    BY <1>4 DEF AutoStart, GoTo, locals, UploadUpserted, Stays, FInv, IInv, TInv, TypeOK
  <2>. QED
    BY <1>4, <2>1, QuietIndex DEF AutoStart, storeVars, faults, overlap
<1>5. CASE Crash
  BY <1>5, QuietIndex DEF Crash
<1>6. CASE UNCHANGED vars
  BY <1>6, QuietIndex DEF vars, storeVars, locals, process, faults, overlap, Stays
<1>. QED
  BY <1>1, <1>2, <1>3, <1>4, <1>5, <1>6 DEF Next, Works

LEMMA InitIndexFollows == Init => IndexFollows
  BY DEF Init, IndexFollows, Settled, Upgraded, Versions

LEMMA FollowsMatches == FInv /\ IndexFollows => IndexMatchesFile
<1>. SUFFICES ASSUME FInv, IndexFollows, NEW n \in Names \ cutOff, Free({n}), points[n] # NoPoints
              PROVE  files[n] \in Readable /\ \E v \in Versions : points[n] = Rendering(files[n], v)
  BY DEF IndexMatchesFile
<1>1. ~\E t \in Threads : BetweenCalls(t, n)
  BY OwnClaim DEF BetweenCalls, UploadUpserted, Free, Busy
<1>. QED
  BY <1>1 DEF IndexFollows, Settled

\* Between requests the index says of a document what its file says, and says
\* nothing of a file that is gone: after every failure, late error, stop and
\* restart, except for an upload cut off between its two writes.
THEOREM IndexFollowsFiles == Exclusive /\ NamesSafe => (Spec => []IndexMatchesFile)
<1>. SUFFICES ASSUME Exclusive, NamesSafe PROVE Spec => []IndexMatchesFile
  OBVIOUS
<1>1. FInv /\ IndexFollows /\ [Next]_vars => FInv' /\ IndexFollows'
  BY NextFInv, NextIndexFollows
<1>2. FInv /\ IndexFollows => IndexMatchesFile
  BY FollowsMatches
<1>. QED
  BY <1>1, <1>2, InitFInv, InitIndexFollows, PTL DEF Spec

(***************************************************************************)
(* What the answers say.                                                   *)
(***************************************************************************)
\* A request or the life of the process answers nobody.
LEMMA AnswerIsOwnWork ==
  ASSUME TInv, Next, up', NEW t \in Threads, Busy(t), pc'[t] = "idle"
  PROVE  Works(t)
<1>1. ASSUME NEW u \in Workers, Request(u) PROVE FALSE
  BY <1>1 DEF Request, BeginUpload, BeginIngest, BeginDelete, BeginSearch, Begin, GoTo, Busy,
              TInv, TypeOK
<1>2. ASSUME NEW u \in Threads \ {t}, Works(u) PROVE FALSE
  BY <1>2, WorkLocals DEF OthersStay, Busy
<1>3. ASSUME NEW autoIngest \in BOOLEAN, Boot(autoIngest) PROVE FALSE
  BY <1>3 DEF Boot, TInv, Stopped
<1>4. ~AutoStart /\ ~Crash
  BY DEF AutoStart, Crash, GoTo, Busy, TInv, TypeOK, Threads
<1>. QED
  BY <1>1, <1>2, <1>3, <1>4 DEF Next, Works

\* An upload answered with success is the file, and the index of exactly that
\* content, by the current chunker.
THEOREM UploadAcknowledged == Exclusive => (Spec => AcknowledgedIsIndexed)
<1>. SUFFICES ASSUME Exclusive PROVE Spec => AcknowledgedIsIndexed
  OBVIOUS
<1>1. FInv /\ [Next]_vars =>
        [\A t \in Workers :
           pc[t] = "replace" /\ pc'[t] = "idle" /\ up' =>
             /\ files'[doc[t]] = body[t]
             /\ points[doc[t]] = Rendering(body[t], "current")]_vars
  <2>. SUFFICES ASSUME FInv, Next, NEW t \in Workers, pc[t] = "replace", pc'[t] = "idle", up'
                PROVE  /\ files'[doc[t]] = body[t]
                       /\ points[doc[t]] = Rendering(body[t], "current")
    OBVIOUS
  <2>0. t \in Threads
    BY DEF Threads
  <2>1. Works(t)
    BY <2>0, AnswerIsOwnWork DEF Busy, FInv, IInv
  <2>2. Replace(t)
    BY <2>0, <2>1, StepCalls DEF Works, Raise, RaiseLate, BackendCalls, WriteCalls
  <2>3. doc[t] \in Names /\ points[doc[t]] = Rendering(body[t], "current")
    BY <2>0 DEF FInv, IInv, TInv, LocalsOK, ThreadFollows, PointsAtHand
  <2>. QED
    BY <2>2, <2>3 DEF Replace, FInv, IInv, TInv, TypeOK
<1>. QED
  BY <1>1, SpecFInv, PTL DEF Spec, AcknowledgedIsIndexed

\* Only the end of ingest_directory, in the boot-time thread, reports "done".
LEMMA WorkStatus ==
  ASSUME NEW t \in Threads, Works(t), status' # status
  PROVE  t = BootThread /\ (IngestDone(t) \/ status' = "failed")
<1>. USE DEF GoTo, process, Finish
<1>1. CASE List(t) \/ Stale(t) \/ Scan(t) \/ NextFile(t) \/ IngestDone(t) \/ Quarantine(t)
  BY <1>1 DEF List, Stale, Scan, NextFile, IngestDone, Quarantine
<1>2. CASE Load(t) \/ Exists(t) \/ Create(t) \/ Clear(t) \/ Delete(t) \/ Upsert(t) \/ Forget(t)
  BY <1>2 DEF Load, Accept, SetAside, Refuse, Exists, Create, Clear, Delete, Upsert, Forget
<1>3. CASE Replace(t) \/ Find(t) \/ Unlink(t)
  BY <1>3 DEF Replace, Find, Unlink
<1>4. CASE Probe(t) \/ Check(t) \/ Fill(t) \/ Store(t) \/ Recall(t)
  BY <1>4 DEF Probe, Check, Fill, Store, Recall
<1>5. CASE Raise(t) \/ RaiseLate(t)
  BY <1>5 DEF Raise, RaiseLate
<1>. QED
  BY <1>1, <1>2, <1>3, <1>4, <1>5 DEF Works, Step

\* "done" in GET /health means that every file left in the directory is indexed,
\* whole and by the current chunker.
THEOREM DoneIsIndexed == Exclusive => (Spec => DoneMeansIndexed)
<1>. SUFFICES ASSUME Exclusive PROVE Spec => DoneMeansIndexed
  OBVIOUS
<1>1. FInv /\ [Next]_vars =>
        [status = "running" /\ status' = "done" => \A n \in Present : Whole(n, "current")]_vars
  <2>. SUFFICES ASSUME FInv, Next, status = "running", status' = "done"
                PROVE  \A n \in Present : Whole(n, "current")
    OBVIOUS
  <2>1. PICK t \in Threads : Works(t)
    BY DEF Next, Works, Request, BeginUpload, BeginIngest, BeginDelete, BeginSearch, Begin,
           process, Boot, AutoStart, Crash
  <2>2. IngestDone(t)
    BY <2>1, WorkStatus
  <2>3. pc[t] = "next" /\ todo[t] = {} /\ op[t] \in Ingests
    BY <2>2 DEF IngestDone, FInv, IInv, TInv, ControlOK
  <2>. QED
    BY <2>3 DEF FInv, ThreadFollows, CatchingUp, InIngestFile
<1>. QED
  BY <1>1, SpecFInv, PTL DEF Spec, DoneMeansIndexed
==============================================================================
