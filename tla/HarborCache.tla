----------------------------- MODULE HarborCache -----------------------------
(***************************************************************************)
(* kv_store.rs and search_result_component.rs of doka-harbor: files, their *)
(* reduced images and a search result are kept in a NATS key-value store,  *)
(* in chunks under keys of their own, beside the servers that they come    *)
(* from.  A request looks in the store first and fills it when it finds    *)
(* nothing; a search starts tasks that fill it with the files it found.    *)
(*                                                                         *)
(* Nothing is ever deleted from the store, and no lock is taken: requests  *)
(* for one file all see each other's chunks, in the middle of it.  Nor is  *)
(* an answer of the file-server looked at: the text of an error is stored, *)
(* and replied from then on, as the file.                                  *)
(***************************************************************************)
EXTENDS Integers, Sequences, FiniteSets, SequencesExt

CONSTANTS
  Requests,  \* the requests
  Jobs,      \* what they may ask for
  Files,     \* the files of the file-server
  Parts,     \* how many chunks each file makes
  Others,    \* how many chunks other answers about it may make
  Images,    \* the files that resize_jpeg can read
  Results,   \* what the document-server may find
  FilesOf,   \* the files of each result, in its order
  Pages,     \* how many chunks each result makes
  Faults     \* what may fail: see AllFaults

(***************************************************************************)
(* "session"  view_file: the session-manager does not know the session     *)
(* "server"   the document-server fails, or the file-server cannot be      *)
(*            reached or answers something else than the file              *)
(* "nats"     the store cannot be reached                                  *)
(* "put"      one chunk is not stored, and the error logged                *)
(* "client"   the client goes away: its request is dropped at an await     *)
(* "crash"    harbor dies, with all its requests and tasks                 *)
(***************************************************************************)
AllFaults == {"session", "server", "nats", "put", "client", "crash"}

AllJobs == [op : {"view_file", "get_file"}, file : Files] \cup [op : {"search_result"}, file : {"NONE"}]

(* An error text is one chunk; a file is not longer without some slices. *)
MaxParts(f) == IF Parts[f] = 0 THEN 1 ELSE Parts[f]

ASSUME HarborAssumption ==
  /\ Jobs \subseteq AllJobs
  /\ Parts \in [Files -> Nat] /\ Images \subseteq Files /\ \A f \in Images : Parts[f] > 0
  /\ Others \in [Files -> SUBSET Nat] /\ \A f \in Files : \A n \in Others[f] : n <= MaxParts(f)
  /\ FilesOf \in [Results -> Seq(Files)] /\ \A l \in Results : IsInjective(FilesOf[l])
  /\ Pages \in [Results -> Nat \ {0}]
  /\ Faults \subseteq AllFaults

(* The task that a search spawns for a file *)
Spawned(r, f) == <<r, f>>
Tasks == Requests \cup {Spawned(r, f) : r \in Requests, f \in Files}

ASSUME RequestsAssumption == \A r \in Requests, f \in Files : Spawned(r, f) \notin Requests

(* Keys of values, each a sequence of chunks *)
Original(f) == <<"original", f>>

Reduced(f) == <<"reduced", f>>
SearchKey == <<"search", "NONE">>
Keys == {Original(f) : f \in Files} \cup {Reduced(f) : f \in Files} \cup {SearchKey}

(* A chunk is part k of a file or a result, or the image made of the first  *)
(* n chunks of a file; it is intact unless the file-server's answer was not *)
(* the file.                                                                *)
Chunk(x, k) == [of |-> x, part |-> k, reduced_from |-> 0, intact |-> TRUE]
Spoilt(f, k) == [of |-> f, part |-> k, reduced_from |-> 0, intact |-> FALSE]
Image(f, n, intact) == <<[of |-> f, part |-> 1, reduced_from |-> n, intact |-> intact]>>

Content(f) == [k \in 1..Parts[f] |-> Chunk(f, k)]
Json(l) == [k \in 1..Pages[l] |-> Chunk(l, k)]

(* What the file-server may answer instead: the text of an error, which is  *)
(* one chunk, or the file without the slices that it could not read.        *)
SpoiltContent(f, n) == [k \in 1..n |-> Spoilt(f, k)]

VARIABLES
  op,      \* what each request asks for, and the file
  pc,      \* what each task does next
  key,     \* the key it reads or stores
  data,    \* what it has read, or is storing
  count,   \* how many chunks it has put, or files it has looked up
  kv,      \* the store: by key, the chunks by their number
  late,    \* the tasks that began to read a file when all of it was stored
  spoilt   \* the files for which something else was answered

locals == <<op, key, data, count>>
vars == <<op, pc, key, data, count, kv, late, spoilt>>

Reading == {"read", "fetch", "store", "resize", "look up"}
Running == {"session"} \cup Reading
Final == {"replied", "refused", "failed", "gone"}  \* "gone": it panicked, or was dropped

TypeOK ==
  /\ pc \in [Tasks -> {"idle"} \cup Running \cup Final]
  /\ key \in [Tasks -> Keys]
  /\ DOMAIN kv = Keys
  /\ \A t \in Tasks : pc[t] = "store" => count[t] <= Len(data[t])
  /\ \A f \in Files :
       /\ \A n \in DOMAIN kv[Original(f)] : n <= MaxParts(f) /\ kv[Original(f)][n] \in {Chunk(f, n), Spoilt(f, n)}
       /\ \A n \in DOMAIN kv[Reduced(f)] :
            \E m \in 1..Parts[f], intact \in BOOLEAN : <<kv[Reduced(f)][n]>> = Image(f, m, intact)
  /\ \A n \in DOMAIN kv[SearchKey] : \E l \in Results : kv[SearchKey][n] = Chunk(l, n)

JobOf(t) == IF t \in Requests THEN op[t] ELSE [op |-> "prefetch", file |-> t[2]]

Init ==
  /\ op \in [Requests -> Jobs]
  /\ pc = [t \in Tasks |-> "idle"]
  /\ key = [t \in Tasks |-> SearchKey]
  /\ data = [t \in Tasks |-> <<>>]
  /\ count = [t \in Tasks |-> 0]
  /\ kv = [k \in Keys |-> <<>>]
  /\ late = {}
  /\ spoilt = {}

-----------------------------------------------------------------------------
Goto(t, step) == pc' = [pc EXCEPT ![t] = step]

IsStored(f) == DOMAIN kv[Original(f)] = 1..Parts[f]

(* The first entry is looked for. *)
StartReading(t, k) ==
  /\ Goto(t, "read")
  /\ key' = [key EXCEPT ![t] = k]
  /\ data' = [data EXCEPT ![t] = <<>>]
  /\ late' = IF \E f \in Files : k = Original(f) /\ IsStored(f) THEN late \cup {t} ELSE late
  /\ UNCHANGED <<op, count, kv, spoilt>>

(* Its future, or its task, is gone. *)
End(t, status, d) ==
  /\ Goto(t, status)
  /\ key' = [key EXCEPT ![t] = SearchKey]
  /\ data' = [data EXCEPT ![t] = d]
  /\ count' = [count EXCEPT ![t] = 0]
  /\ UNCHANGED <<op, kv, late, spoilt>>

Reply(t, d) == End(t, "replied", d)

Panic(t) == End(t, "gone", <<>>)

(* An error of a fetch is a reply of view_file only: the callers of the     *)
(* others unwrap it, or panic.                                              *)
Fail(t) == IF JobOf(t).op = "view_file" THEN End(t, "failed", <<>>) ELSE Panic(t)

view_file(t) ==
  /\ pc[t] = "idle" /\ JobOf(t).op = "view_file"
  /\ Goto(t, "session")
  /\ UNCHANGED <<locals, kv, late, spoilt>>

get_file(t) ==
  /\ pc[t] = "idle" /\ JobOf(t).op = "get_file"
  /\ StartReading(t, Reduced(JobOf(t).file))

search_result(t) ==
  /\ pc[t] = "idle" /\ JobOf(t).op = "search_result"
  /\ StartReading(t, SearchKey)

Begin(r) == view_file(r) \/ get_file(r) \/ search_result(r)

(* valid_sid_get_session *)
CheckSession(t) ==
  /\ pc[t] = "session"
  /\ \/ StartReading(t, Original(JobOf(t).file))
     \/ "session" \in Faults /\ End(t, "refused", <<>>)

-----------------------------------------------------------------------------
(* smart_fetch_original_file, smart_fetch_reduced_file and search_result    *)

(* read_from_nats reads the entries 0, 1, ... until one is not there.       *)
ReadChunk(t) ==
  LET n == Len(data[t]) + 1
  IN /\ pc[t] = "read"
     /\ n \in DOMAIN kv[key[t]]
     /\ data' = [data EXCEPT ![t] = Append(@, kv[key[t]][n])]
     /\ UNCHANGED <<op, pc, key, count, kv, late, spoilt>>

(* What a task does with a file: the reply of view_file, to be resized otherwise *)
GotFile(t, d) ==
  IF JobOf(t).op = "view_file" THEN Reply(t, d)
  ELSE Goto(t, "resize") /\ data' = [data EXCEPT ![t] = d] /\ UNCHANGED <<op, key, count, kv, late, spoilt>>

StartLookingUp(t) ==
  /\ Goto(t, "look up")
  /\ count' = [count EXCEPT ![t] = 0]
  /\ UNCHANGED <<op, key, data, kv, late, spoilt>>

(* from_str: a result of the server, whole, or the task panics. *)
IsJson(d) == \E l \in Results : d = Json(l)

ReadEnd(t) ==
  /\ pc[t] = "read"
  /\ Len(data[t]) + 1 \notin DOMAIN kv[key[t]]
  /\ IF data[t] = <<>>
       THEN IF key[t] = Reduced(JobOf(t).file)
              THEN StartReading(t, Original(JobOf(t).file))
              ELSE Goto(t, "fetch") /\ UNCHANGED <<locals, kv, late, spoilt>>
       ELSE CASE key[t] = SearchKey -> IF IsJson(data[t]) THEN StartLookingUp(t) ELSE Panic(t)
              [] key[t] = Original(JobOf(t).file) -> GotFile(t, data[t])
              [] key[t] = Reduced(JobOf(t).file) -> Reply(t, data[t])

ReadError(t) ==
  /\ "nats" \in Faults
  /\ pc[t] = "read"
  /\ Fail(t)

(* A defect: the key of the last read stays. *)
StartStoring_SameKey(t, k, d) ==
  /\ Goto(t, "store")
  /\ data' = [data EXCEPT ![t] = d]
  /\ count' = [count EXCEPT ![t] = 0]
  /\ UNCHANGED <<op, key, kv, late>>

StartStoring(t, k, d) ==
  /\ Goto(t, "store")
  /\ key' = [key EXCEPT ![t] = k]
  /\ data' = [data EXCEPT ![t] = d]
  /\ count' = [count EXCEPT ![t] = 0]
  /\ UNCHANGED <<op, kv, late>>

(* The file-server or the document-server is asked.  get_binary_data does   *)
(* not look at the status of an answer: whatever it holds is the file.      *)
Fetch(t) ==
  LET f == JobOf(t).file
  IN /\ pc[t] = "fetch"
     /\ \/ /\ key[t] = SearchKey
           /\ \E l \in Results : StartStoring(t, SearchKey, Json(l))
           /\ UNCHANGED spoilt
        \/ /\ key[t] # SearchKey
           /\ StartStoring(t, key[t], Content(f))
           /\ UNCHANGED spoilt
        \/ /\ "server" \in Faults
           /\ key[t] # SearchKey
           /\ \E n \in Others[f] : StartStoring(t, key[t], SpoiltContent(f, n))
           /\ spoilt' = spoilt \cup {f}
        \/ "server" \in Faults /\ Panic(t)

-----------------------------------------------------------------------------
(* store_to_nats puts the chunks 0, 1, ...; an error of one is logged.      *)
Put(k, n, chunk) == kv' = [kv EXCEPT ![k] = [m \in DOMAIN @ \cup {n} |-> IF m = n THEN chunk ELSE @[m]]]

(* A defect: the chunks are removed when one is not stored. *)
StoreChunk_RollsBack(t) ==
  LET n == count[t] + 1
  IN /\ pc[t] = "store"
     /\ n <= Len(data[t])
     /\ count' = [count EXCEPT ![t] = n]
     /\ \/ Put(key[t], n, data[t][n])
        \/ "put" \in Faults /\ kv' = [kv EXCEPT ![key[t]] = <<>>]
     /\ UNCHANGED <<op, pc, key, data, late, spoilt>>

StoreChunk(t) ==
  LET n == count[t] + 1
  IN /\ pc[t] = "store"
     /\ n <= Len(data[t])
     /\ count' = [count EXCEPT ![t] = n]
     /\ \/ Put(key[t], n, data[t][n])
        \/ "put" \in Faults /\ UNCHANGED kv
     /\ UNCHANGED <<op, pc, key, data, late, spoilt>>

(* A new value of the search is stored, and used as it came. *)
AfterStore(t) ==
  CASE key[t] = SearchKey -> StartLookingUp(t)
    [] key[t] = Original(JobOf(t).file) -> GotFile(t, data[t])
    [] key[t] = Reduced(JobOf(t).file) -> Reply(t, data[t])

StoreEnd(t) ==
  /\ pc[t] = "store"
  /\ count[t] = Len(data[t])
  /\ AfterStore(t)

(* Only smart_fetch_original_file minds whether its value could be stored. *)
StoreError(t) ==
  /\ "nats" \in Faults
  /\ pc[t] = "store" /\ count[t] = 0
  /\ IF key[t] = Original(JobOf(t).file) THEN Fail(t) ELSE AfterStore(t)

(* resize_jpeg, with nothing when it fails; of an image that is cut short,  *)
(* or not intact, it may make something.                                    *)
IsIntact(d) == \A n \in 1..Len(d) : d[n].intact

Resize(t) ==
  LET f == JobOf(t).file
      d == data[t]
  IN /\ pc[t] = "resize"
     /\ \/ f \in Images /\ d # <<>> /\ StartStoring(t, Reduced(f), Image(f, Len(d), IsIntact(d)))
        \/ (f \in Images => d # Content(f)) /\ StartStoring(t, Reduced(f), <<>>)
     /\ UNCHANGED spoilt

-----------------------------------------------------------------------------
(* search_result: for each file that has nothing in the store, a task       *)
ResultOf(t) == CHOOSE l \in Results : data[t] = Json(l)

(* A defect: only the first file is fetched. *)
LookUp_StopsAtTheFirst(t) ==
  LET files == FilesOf[ResultOf(t)]
      n == count[t] + 1
  IN /\ pc[t] = "look up"
     /\ n <= Len(files)
     /\ IF 1 \in DOMAIN kv[Original(files[n])] \/ n > 1
          THEN UNCHANGED <<pc, key>>
          ELSE /\ Goto(Spawned(t, files[n]), "read")
               /\ key' = [key EXCEPT ![Spawned(t, files[n])] = Reduced(files[n])]
     /\ count' = [count EXCEPT ![t] = n]
     /\ UNCHANGED <<op, data, kv, late, spoilt>>

LookUp(t) ==
  LET files == FilesOf[ResultOf(t)]
      n == count[t] + 1
  IN /\ pc[t] = "look up"
     /\ n <= Len(files)
     /\ IF 1 \in DOMAIN kv[Original(files[n])]
          THEN UNCHANGED <<pc, key>>
          ELSE /\ Goto(Spawned(t, files[n]), "read")
               /\ key' = [key EXCEPT ![Spawned(t, files[n])] = Reduced(files[n])]
     /\ count' = [count EXCEPT ![t] = n]
     /\ UNCHANGED <<op, data, kv, late, spoilt>>

LookUpEnd(t) ==
  /\ pc[t] = "look up"
  /\ \/ count[t] = Len(FilesOf[ResultOf(t)]) /\ Reply(t, data[t])
     \/ "nats" \in Faults /\ count[t] < Len(FilesOf[ResultOf(t)]) /\ Panic(t)

-----------------------------------------------------------------------------
(* The handler of a request is a future that its client can drop; a spawned *)
(* task is not.                                                             *)
Dropped(r) ==
  /\ "client" \in Faults
  /\ r \in Requests /\ pc[r] \in Running
  /\ End(r, "gone", <<>>)

Crash ==
  /\ "crash" \in Faults
  /\ \E t \in Tasks : pc[t] \in Running
  /\ pc' = [t \in Tasks |-> IF pc[t] \in Running THEN "gone" ELSE pc[t]]
  /\ key' = [t \in Tasks |-> SearchKey]
  /\ data' = [t \in Tasks |-> IF pc[t] \in Running THEN <<>> ELSE data[t]]
  /\ count' = [t \in Tasks |-> 0]
  /\ UNCHANGED <<op, kv, late, spoilt>>

Step(t) ==
  \/ CheckSession(t) \/ ReadChunk(t) \/ ReadEnd(t) \/ ReadError(t) \/ Fetch(t)
  \/ StoreChunk(t) \/ StoreEnd(t) \/ StoreError(t) \/ Resize(t) \/ LookUp(t) \/ LookUpEnd(t)

Done == (\A t \in Tasks : pc[t] \notin Running) /\ (\A r \in Requests : pc[r] # "idle") /\ UNCHANGED vars

Next ==
  \/ \E r \in Requests : Begin(r) \/ Dropped(r)
  \/ \E t \in Tasks : Step(t)
  \/ Crash
  \/ Done

Spec == Init /\ [][Next]_vars

-----------------------------------------------------------------------------
(* Properties *)

(***************************************************************************)
(* However requests meet in the store and wherever a store was cut short,  *)
(* a reply about a file is made of what was answered for that very file,   *)
(* each chunk in its place.  As long as the file-server has answered       *)
(* nothing but the file, it is a beginning of it for view_file, an image   *)
(* of a beginning of it for get_file, and all of it for those who begin to *)
(* read it when all of it is in the store: nothing that other requests     *)
(* still store takes a chunk away from them.                               *)
(***************************************************************************)
RepliesAreOfTheFile ==
  \A t \in Tasks :
    pc[t] = "replied" =>
      LET f == JobOf(t).file
      IN /\ JobOf(t).op = "view_file" =>
              /\ \A n \in 1..Len(data[t]) : data[t][n] \in {Chunk(f, n), Spoilt(f, n)}
              /\ f \notin spoilt =>
                   IsPrefix(data[t], Content(f)) /\ (t \in late => data[t] = Content(f))
         /\ JobOf(t).op \in {"get_file", "prefetch"} =>
              /\ data[t] # <<>> =>
                   \E n \in 1..Parts[f], intact \in BOOLEAN :
                     data[t] = Image(f, n, intact) /\ (f \notin spoilt => intact)
              /\ f \notin spoilt /\ t \in late =>
                   data[t] = IF f \in Images THEN Image(f, Parts[f], TRUE) ELSE <<>>

(***************************************************************************)
(* A chunk of a file that is in the store stays there, and stays as it is  *)
(* as long as the file-server has answered nothing but that file, although *)
(* the requests that have found nothing overwrite each other's chunks.     *)
(***************************************************************************)
StoredFilesStay ==
  [][\A f \in Files : \A n \in DOMAIN kv[Original(f)] :
       /\ n \in DOMAIN kv'[Original(f)]
       /\ f \notin spoilt => kv'[Original(f)][n] = kv[Original(f)][n]]_vars

(***************************************************************************)
(* When a search is answered, each file it found has something in the      *)
(* store or a task of its own, which goes on without the request.          *)
(***************************************************************************)
FoundFilesAreFetched ==
  \A r \in Requests :
    pc[r] = "replied" /\ JobOf(r).op = "search_result" =>
      \A f \in ToSet(FilesOf[ResultOf(r)]) : 1 \in DOMAIN kv[Original(f)] \/ pc[Spawned(r, f)] # "idle"
=============================================================================
