------------------------- MODULE HarborCache_proofs -------------------------
(***************************************************************************)
(* The store of doka-harbor, for any number of requests and files, results *)
(* of any size and any faults.  No lock protects a value, so the proof     *)
(* rests on what every task may put: a chunk of the original of its file,  *)
(* with the number that the chunk has there (Filled and Working).  All the *)
(* writers of one key therefore agree, and a task that begins to read a    *)
(* file when it is whole reads to its end (Late).  A file for which the    *)
(* file-server once answered something else (spoilt) keeps less: whatever  *)
(* is stored or replied for it was answered for it.                        *)
(***************************************************************************)
EXTENDS HarborCache, TLAPS

Chunks == [of : Files \cup Results, part : Nat, reduced_from : Nat, intact : BOOLEAN]

FileOf(t) == JobOf(t).file

IsSearch(t) == JobOf(t).op = "search_result"

(* Chunk n of the file, when the files of S are spoilt *)
IsChunk(c, f, n, S) ==
  /\ n \in 1..MaxParts(f) /\ c \in {Chunk(f, n), Spoilt(f, n)}
  /\ f \notin S => n \in 1..Parts[f] /\ c = Chunk(f, n)

(* A beginning of the file *)
IsBeginning(d, f, S) == \A n \in 1..Len(d) : IsChunk(d[n], f, n, S)

(* What resize_jpeg makes of a beginning of the file *)
IsImage(d, f, S) ==
  d = <<>> \/ \E n \in 1..Parts[f], intact \in BOOLEAN : d = Image(f, n, intact) /\ (f \notin S => intact)

(* What the file-server may answer for the file *)
IsAnswer(d, f, S) == d = Content(f) \/ (f \in S /\ \E n \in Others[f] : d = SpoiltContent(f, n))

Typed ==
  /\ op \in [Requests -> Jobs]
  /\ pc \in [Tasks -> {"idle"} \cup Running \cup Final]
  /\ key \in [Tasks -> Keys]
  /\ data \in [Tasks -> Seq(Chunks)]
  /\ count \in [Tasks -> Nat]
  /\ late \subseteq Tasks /\ spoilt \subseteq Files
  /\ DOMAIN kv = Keys

(* What the keys may hold *)
Filled ==
  /\ \A f \in Files : \A n \in DOMAIN kv[Original(f)] : IsChunk(kv[Original(f)][n], f, n, spoilt)
  /\ \A f \in Files : \A n \in DOMAIN kv[Reduced(f)] : n = 1 /\ IsImage(<<kv[Reduced(f)][n]>>, f, spoilt)
  /\ \A n \in DOMAIN kv[SearchKey] :
       \E l \in Results : n \in 1..Pages[l] /\ kv[SearchKey][n] = Chunk(l, n)

(* The key of a task is one of its file, or the one of the search. *)
Keyed(t) ==
  /\ pc[t] = "idle" => data[t] = <<>> /\ key[t] = SearchKey
  /\ IsSearch(t) => key[t] = SearchKey /\ pc[t] \notin {"session", "resize"}
  /\ ~IsSearch(t) =>
       /\ pc[t] # "look up"
       /\ pc[t] \in {"read", "fetch", "store"} => key[t] \in {Original(FileOf(t)), Reduced(FileOf(t))}
       /\ pc[t] = "fetch" => key[t] = Original(FileOf(t))
       /\ JobOf(t).op = "view_file" => pc[t] # "resize" /\ key[t] # Reduced(FileOf(t))

(* What a task has in its hands is made of its file, or a whole result. *)
Working(t) ==
  /\ IsSearch(t) =>
       (pc[t] \in {"store", "look up", "replied"} => \E l \in Results : data[t] = Json(l))
  /\ ~IsSearch(t) =>
       /\ pc[t] = "read" /\ key[t] = Original(FileOf(t)) => IsBeginning(data[t], FileOf(t), spoilt)
       /\ pc[t] \in {"read", "store"} /\ key[t] = Reduced(FileOf(t)) => IsImage(data[t], FileOf(t), spoilt)
       /\ pc[t] = "store" /\ key[t] = Original(FileOf(t)) => IsAnswer(data[t], FileOf(t), spoilt)
       /\ pc[t] = "resize" => IsBeginning(data[t], FileOf(t), spoilt)
       /\ pc[t] = "replied" =>
            IF JobOf(t).op = "view_file" THEN IsBeginning(data[t], FileOf(t), spoilt)
            ELSE IsImage(data[t], FileOf(t), spoilt)
  /\ pc[t] = "store" => count[t] <= Len(data[t])

(* All of the file, or of its image *)
Whole(f) == IF f \in Images THEN Image(f, Parts[f], TRUE) ELSE <<>>

(* A task that began to read its file when all of it was stored *)
Late(t) ==
  t \in late =>
    /\ ~IsSearch(t) /\ pc[t] # "idle" /\ pc[t] # "session"
    /\ pc[t] = "read" => key[t] = Original(FileOf(t))
    /\ FileOf(t) \notin spoilt =>
         /\ IsStored(FileOf(t))
         /\ pc[t] = "resize" => data[t] = Content(FileOf(t))
         /\ pc[t] = "store" /\ key[t] = Reduced(FileOf(t)) => data[t] = Whole(FileOf(t))
         /\ pc[t] = "replied" =>
              data[t] = IF JobOf(t).op = "view_file" THEN Content(FileOf(t)) ELSE Whole(FileOf(t))

TaskInv(t) == Keyed(t) /\ Working(t) /\ Late(t)

(* A search starts its tasks while it looks the files up, one for each file. *)
Looked(r, n) ==
  LET f == FilesOf[ResultOf(r)][n]
  IN 1 \in DOMAIN kv[Original(f)] \/ pc[Spawned(r, f)] # "idle"

Spawning(r) ==
  /\ pc[r] \notin {"look up"} \cup Final => \A f \in Files : pc[Spawned(r, f)] = "idle"
  /\ pc[r] = "look up" =>
       /\ count[r] <= Len(FilesOf[ResultOf(r)])
       /\ \A f \in Files :
            pc[Spawned(r, f)] # "idle" => \E n \in 1..count[r] : FilesOf[ResultOf(r)][n] = f
       /\ \A n \in 1..count[r] : Looked(r, n)
  /\ IsSearch(r) /\ pc[r] = "replied" => \A n \in 1..Len(FilesOf[ResultOf(r)]) : Looked(r, n)

Inv ==
  /\ Typed
  /\ Filled
  /\ \A t \in Tasks : TaskInv(t)
  /\ \A r \in Requests : Spawning(r)

-----------------------------------------------------------------------------
(* Keys, jobs and values *)

LEMMA DifferentKeys ==
  \A f, g : /\ Original(f) # Reduced(g) /\ Original(f) # SearchKey /\ Reduced(f) # SearchKey
            /\ Original(f) = Original(g) => f = g
            /\ Reduced(f) = Reduced(g) => f = g
  BY DEF Original, Reduced, SearchKey

LEMMA KeysOfFiles ==
  /\ SearchKey \in Keys
  /\ \A f \in Files : Original(f) \in Keys /\ Reduced(f) \in Keys
  /\ \A k \in Keys : k = SearchKey \/ \E f \in Files : k = Original(f) \/ k = Reduced(f)
  BY DEF Keys

LEMMA JobTypes ==
  ASSUME Typed, NEW t \in Tasks
  PROVE  /\ IsSearch(t) => t \in Requests
         /\ ~IsSearch(t) => JobOf(t).op \in {"view_file", "get_file", "prefetch"} /\ FileOf(t) \in Files
         /\ JobOf(t).op = "prefetch" <=> t \notin Requests
<1>1. CASE t \in Requests
  <2>1. op[t] \in AllJobs
    BY <1>1, HarborAssumption DEF Typed
  <2> QED
    BY <1>1, <2>1 DEF AllJobs, JobOf, IsSearch, FileOf
<1>2. CASE t \notin Requests
  <2>1. PICK r \in Requests, f \in Files : t = <<r, f>>
    BY <1>2 DEF Tasks, Spawned
  <2>2. t[2] = f
    BY <2>1
  <2> QED
    BY <1>2, <2>2 DEF JobOf, IsSearch, FileOf
<1> QED
  BY <1>1, <1>2

LEMMA Sizes ==
  /\ \A f \in Files : Parts[f] \in Nat /\ MaxParts(f) \in Nat /\ 1..Parts[f] \subseteq 1..MaxParts(f)
  /\ \A f \in Files : \A n \in Others[f] : n \in Nat /\ n <= MaxParts(f)
  /\ \A f \in Images : MaxParts(f) = Parts[f]
  /\ Images \subseteq Files /\ \A f \in Images : Parts[f] > 0
  /\ \A l \in Results : Pages[l] \in Nat \ {0} /\ FilesOf[l] \in Seq(Files) /\ Len(FilesOf[l]) \in Nat
<1>1. /\ \A f \in Files : Parts[f] \in Nat
      /\ \A f \in Images : Parts[f] > 0
      /\ \A l \in Results : Pages[l] \in Nat \ {0} /\ FilesOf[l] \in Seq(Files)
  BY HarborAssumption
<1>2. \A l \in Results : Len(FilesOf[l]) \in Nat
  BY <1>1
<1>3. \A f \in Files : MaxParts(f) \in Nat /\ 1..Parts[f] \subseteq 1..MaxParts(f)
  BY <1>1 DEF MaxParts
<1>4. \A f \in Files : \A n \in Others[f] : n \in Nat /\ n <= MaxParts(f)
  BY HarborAssumption
<1>5. \A f \in Images : MaxParts(f) = Parts[f]
  BY <1>1 DEF MaxParts
<1> QED
  BY <1>1, <1>2, <1>3, <1>4, <1>5, HarborAssumption

LEMMA ValuesAreChunks ==
  /\ \A f \in Files : Content(f) \in Seq(Chunks) /\ Len(Content(f)) = Parts[f]
  /\ \A f \in Files : \A n \in 1..Parts[f] : Content(f)[n] = Chunk(f, n)
  /\ \A l \in Results : Json(l) \in Seq(Chunks) /\ Len(Json(l)) = Pages[l]
  /\ \A l \in Results : \A n \in 1..Pages[l] : Json(l)[n] = Chunk(l, n)
  /\ \A f \in Files, n \in Nat, b \in BOOLEAN :
       Image(f, n, b) \in Seq(Chunks) /\ Len(Image(f, n, b)) = 1 /\ Image(f, n, b) # <<>>
  /\ \A f \in Files : \A m \in Others[f] :
       /\ SpoiltContent(f, m) \in Seq(Chunks) /\ Len(SpoiltContent(f, m)) = m
       /\ \A n \in 1..m : SpoiltContent(f, m)[n] = Spoilt(f, n)
  /\ \A f \in Files, n \in Nat : Chunk(f, n) \in Chunks /\ Spoilt(f, n) \in Chunks
<1>1. \A f \in Files, n \in Nat : Chunk(f, n) \in Chunks
  BY DEF Chunk, Chunks
<1>7. \A f \in Files, n \in Nat : Spoilt(f, n) \in Chunks
  BY DEF Spoilt, Chunks
<1>8. \A f \in Files : \A m \in Others[f] :
       /\ SpoiltContent(f, m) \in Seq(Chunks) /\ Len(SpoiltContent(f, m)) = m
       /\ \A n \in 1..m : SpoiltContent(f, m)[n] = Spoilt(f, n)
  BY <1>7, Sizes DEF SpoiltContent
<1>2. \A l \in Results, n \in Nat : Chunk(l, n) \in Chunks
  BY DEF Chunk, Chunks
<1>3. \A f \in Files, n \in Nat, b \in BOOLEAN :
        [of |-> f, part |-> 1, reduced_from |-> n, intact |-> b] \in Chunks
  BY DEF Chunks
<1>4. \A f \in Files : Content(f) \in Seq(Chunks) /\ Len(Content(f)) = Parts[f]
                       /\ \A n \in 1..Parts[f] : Content(f)[n] = Chunk(f, n)
  BY <1>1, Sizes DEF Content
<1>5. \A l \in Results : Json(l) \in Seq(Chunks) /\ Len(Json(l)) = Pages[l]
                         /\ \A n \in 1..Pages[l] : Json(l)[n] = Chunk(l, n)
  BY <1>2, Sizes DEF Json
<1>6. \A f \in Files, n \in Nat, b \in BOOLEAN :
       Image(f, n, b) \in Seq(Chunks) /\ Len(Image(f, n, b)) = 1 /\ Image(f, n, b) # <<>>
  <2>1. \A c \in Chunks : <<c>> \in Seq(Chunks) /\ Len(<<c>>) = 1 /\ <<c>> # <<>>
    OBVIOUS
  <2> QED
    BY <1>3, <2>1 DEF Image
<1> QED
  BY <1>1, <1>4, <1>5, <1>6, <1>7, <1>8

(* What is of a file stays so when more files are spoilt. *)
LEMMA MoreSpoilt ==
  \A S, T : S \subseteq T =>
    \A f, d : /\ \A n : IsChunk(d, f, n, S) => IsChunk(d, f, n, T)
              /\ IsBeginning(d, f, S) => IsBeginning(d, f, T)
              /\ IsImage(d, f, S) => IsImage(d, f, T)
              /\ IsAnswer(d, f, S) => IsAnswer(d, f, T)
<1> SUFFICES ASSUME NEW S, NEW T, S \subseteq T, NEW f, NEW d
             PROVE  /\ \A n : IsChunk(d, f, n, S) => IsChunk(d, f, n, T)
                    /\ IsBeginning(d, f, S) => IsBeginning(d, f, T)
                    /\ IsImage(d, f, S) => IsImage(d, f, T)
                    /\ IsAnswer(d, f, S) => IsAnswer(d, f, T)
  OBVIOUS
<1>1. f \notin T => f \notin S
  OBVIOUS
<1>2. \A c, n : IsChunk(c, f, n, S) => IsChunk(c, f, n, T)
  BY <1>1 DEF IsChunk
<1> QED
  BY <1>1, <1>2 DEF IsBeginning, IsImage, IsAnswer

(* What is in hands for a file that is not spoilt is no longer than it. *)
LEMMA BeginningLength ==
  ASSUME NEW f \in Files, NEW S, NEW d \in Seq(Chunks), IsBeginning(d, f, S)
  PROVE  /\ Len(d) \in Nat /\ Len(d) <= MaxParts(f)
         /\ f \notin S => Len(d) <= Parts[f] /\ \A n \in 1..Len(d) : d[n] = Chunk(f, n)
<1>1. Len(d) \in Nat /\ Parts[f] \in Nat /\ MaxParts(f) \in Nat
  BY Sizes
<1>2. Len(d) = 0 \/ Len(d) \in 1..Len(d)
  BY <1>1
<1>3. Len(d) \in 1..Len(d) => IsChunk(d[Len(d)], f, Len(d), S)
  BY DEF IsBeginning
<1>4. Len(d) <= MaxParts(f)
  BY <1>1, <1>2, <1>3 DEF IsChunk
<1>5. f \notin S => Len(d) <= Parts[f]
  BY <1>1, <1>2, <1>3 DEF IsChunk
<1>6. f \notin S => \A n \in 1..Len(d) : d[n] = Chunk(f, n)
  BY DEF IsBeginning, IsChunk
<1> QED
  BY <1>1, <1>4, <1>5, <1>6

(* A beginning of the file that is as long as the file is the file. *)
LEMMA LongestBeginning ==
  ASSUME NEW f \in Files, NEW S, f \notin S, NEW d \in Seq(Chunks), IsBeginning(d, f, S), Len(d) >= Parts[f]
  PROVE  d = Content(f)
<1>1. Len(d) = Parts[f] /\ Parts[f] \in Nat
  BY Sizes, BeginningLength
<1>2. d = [n \in 1..Len(d) |-> d[n]]
  OBVIOUS
<1>3. \A n \in 1..Parts[f] : d[n] = Chunk(f, n)
  BY <1>1, BeginningLength
<1> QED
  BY <1>1, <1>2, <1>3 DEF Content

LEMMA BeginningIsPrefix ==
  ASSUME NEW f \in Files, NEW S, f \notin S, NEW d \in Seq(Chunks), IsBeginning(d, f, S)
  PROVE  IsPrefix(d, Content(f))
<1>1. Content(f) \in Seq(Chunks) /\ Len(Content(f)) = Parts[f]
  BY ValuesAreChunks
<1>2. Len(d) <= Len(Content(f)) /\ Len(d) \in Nat /\ Len(Content(f)) \in Nat
  BY <1>1, BeginningLength
<1>3. \A n \in 1..Len(d) : d[n] = Content(f)[n]
  BY <1>1, <1>2, ValuesAreChunks, BeginningLength, Sizes
<1>4. SubSeq(d, 1, Len(d)) = SubSeq(Content(f), 1, Len(d))
  BY <1>1, <1>2, <1>3
<1> QED
  BY <1>2, <1>4 DEF IsPrefix

LEMMA AnswerIsBeginning ==
  ASSUME NEW f \in Files, NEW S, NEW d, IsAnswer(d, f, S)
  PROVE  IsBeginning(d, f, S) /\ d \in Seq(Chunks)
<1>1. CASE d = Content(f)
  <2>1. \A n \in 1..Parts[f] : d[n] = Chunk(f, n) /\ n \in 1..MaxParts(f)
    BY <1>1, ValuesAreChunks, Sizes
  <2>2. Len(d) = Parts[f] /\ d \in Seq(Chunks)
    BY <1>1, ValuesAreChunks
  <2> QED
    BY <2>1, <2>2 DEF IsBeginning, IsChunk
<1>2. CASE f \in S /\ \E n \in Others[f] : d = SpoiltContent(f, n)
  <2>1. PICK m \in Others[f] : d = SpoiltContent(f, m)
    BY <1>2
  <2>2. Len(d) = m /\ d \in Seq(Chunks) /\ \A n \in 1..m : d[n] = Spoilt(f, n)
    BY <2>1, ValuesAreChunks
  <2>3. \A n \in 1..m : n \in 1..MaxParts(f)
    BY Sizes
  <2> QED
    BY <1>2, <2>2, <2>3 DEF IsBeginning, IsChunk
<1> QED
  BY <1>1, <1>2 DEF IsAnswer

LEMMA EmptyIsASequence == <<>> \in Seq(Chunks)
  OBVIOUS

LEMMA EmptyIsBeginning == \A f, S : IsBeginning(<<>>, f, S) /\ IsImage(<<>>, f, S)
  BY DEF IsBeginning, IsImage

-----------------------------------------------------------------------------
(* Steps that leave the store alone *)

(* Only task t moves. *)
OthersStay(t) ==
  \A u \in Tasks \ {t} :
    /\ pc'[u] = pc[u] /\ key'[u] = key[u] /\ data'[u] = data[u] /\ count'[u] = count[u]
    /\ u \in late' <=> u \in late

StoredStays == \A f \in Files : f \notin spoilt' /\ IsStored(f) => IsStored(f)'

LookedStays ==
  \A f \in Files : 1 \in DOMAIN kv[Original(f)] => 1 \in DOMAIN kv'[Original(f)]

LEMMA TaskStays ==
  ASSUME NEW u \in Tasks, op' = op, StoredStays, spoilt \subseteq spoilt', Typed, TaskInv(u),
         pc'[u] = pc[u], key'[u] = key[u], data'[u] = data[u], count'[u] = count[u],
         u \in late' <=> u \in late
  PROVE  TaskInv(u)'
<1>1. JobOf(u)' = JobOf(u) /\ IsSearch(u)' = IsSearch(u) /\ FileOf(u)' = FileOf(u)
  BY DEF JobOf, IsSearch, FileOf
<1>2. Keyed(u)'
  BY <1>1 DEF TaskInv, Keyed
<1>3. Working(u)'
  <2>1. \A d, f : /\ IsBeginning(d, f, spoilt) => IsBeginning(d, f, spoilt')
                  /\ IsImage(d, f, spoilt) => IsImage(d, f, spoilt')
                  /\ IsAnswer(d, f, spoilt) => IsAnswer(d, f, spoilt')
    BY MoreSpoilt
  <2> QED
    BY <1>1, <2>1 DEF TaskInv, Working
<1>4. Late(u)'
  <2>1. u \in late' /\ FileOf(u)' \notin spoilt' => IsStored(FileOf(u))'
    BY <1>1, JobTypes DEF TaskInv, Late, StoredStays, IsStored
  <2> QED
    BY <1>1, <2>1 DEF TaskInv, Late
<1> QED
  BY <1>2, <1>3, <1>4 DEF TaskInv

LEMMA ElementOfSequence ==
  ASSUME NEW S, NEW s \in Seq(S), NEW n \in 1..Len(s)
  PROVE  s[n] \in S
  OBVIOUS

LEMMA SmallerIndex ==
  ASSUME NEW m \in Nat, NEW k \in Nat, m <= k, NEW n \in 1..m
  PROVE  n \in Nat /\ n \in 1..k
  OBVIOUS

LEMMA NextIndex ==
  \A m, k \in Nat : m + 1 <= k => m + 1 \in Nat /\ m + 1 \in 1..k
  OBVIOUS

LEMMA NotNegative ==
  /\ \A n \in Nat : 0 <= n
  /\ \A s \in Seq(Chunks) : 0 <= Len(s)
  OBVIOUS

LEMMA NoneUpToZero == 1..0 = {}
  OBVIOUS

(* The tasks of a search are its own: what it started stays started. *)
LEMMA SpawningStays ==
  ASSUME NEW r \in Requests, op' = op, LookedStays, Spawning(r), Typed, Keyed(r), Working(r),
         pc'[r] = pc[r], data'[r] = data[r], count'[r] = count[r],
         \A f \in Files : pc'[Spawned(r, f)] = "idle" <=> pc[Spawned(r, f)] = "idle"
  PROVE  Spawning(r)'
<1>1. JobOf(r)' = JobOf(r) /\ IsSearch(r)' = IsSearch(r) /\ ResultOf(r)' = ResultOf(r)
  BY DEF JobOf, IsSearch, ResultOf
<1>2. IsSearch(r) /\ pc[r] \in {"look up", "replied"} => ResultOf(r) \in Results
  BY DEF Working, ResultOf
<1>3. r \in Tasks
  BY DEF Tasks
<1>4. pc[r] = "look up" => IsSearch(r)
  BY DEF Keyed
<1>5. \A n \in Nat : /\ IsSearch(r) /\ pc[r] \in {"look up", "replied"}
                     /\ n \in 1..Len(FilesOf[ResultOf(r)]) /\ Looked(r, n)
                     => Looked(r, n)'
  <2> SUFFICES ASSUME NEW n \in Nat, IsSearch(r), pc[r] \in {"look up", "replied"},
                      n \in 1..Len(FilesOf[ResultOf(r)]), Looked(r, n)
               PROVE  Looked(r, n)'
    OBVIOUS
  <2>1. FilesOf[ResultOf(r)] \in Seq(Files)
    BY <1>2, Sizes
  <2>2. FilesOf[ResultOf(r)][n] \in Files
    BY <2>1, ElementOfSequence
  <2>3. FilesOf[ResultOf(r)'][n] = FilesOf[ResultOf(r)][n]
    BY <1>1
  <2> DEFINE f == FilesOf[ResultOf(r)][n]
  <2> HIDE DEF f
  <2>5. 1 \in DOMAIN kv[Original(f)] \/ pc[Spawned(r, f)] # "idle"
    BY DEF f, Looked
  <2>6. f \in Files
    BY <2>2 DEF f
  <2>7. 1 \in DOMAIN kv'[Original(f)] \/ pc'[Spawned(r, f)] # "idle"
    BY <2>5, <2>6 DEF LookedStays
  <2> QED
    BY <2>3, <2>7 DEF Looked, f
<1>6. pc[r] = "look up" => count[r] \in Nat /\ count[r] <= Len(FilesOf[ResultOf(r)])
  BY <1>3 DEF Spawning, Typed
<1>7. (pc[r] = "look up" \/ (IsSearch(r) /\ pc[r] = "replied")) => Len(FilesOf[ResultOf(r)]) \in Nat
  BY <1>2, <1>4, Sizes
<1>8. pc[r] = "look up" => \A n \in 1..count[r] : Looked(r, n)'
  <2> SUFFICES ASSUME pc[r] = "look up", NEW n \in 1..count[r] PROVE Looked(r, n)'
    OBVIOUS
  <2> DEFINE m == count[r]
             k == Len(FilesOf[ResultOf(r)])
  <2>3. m \in Nat /\ k \in Nat /\ m <= k /\ n \in 1..m
    BY <1>6, <1>7
  <2> HIDE DEF m, k
  <2>4. n \in Nat /\ n \in 1..k
    BY <2>3, SmallerIndex
  <2>1. n \in Nat /\ n \in 1..Len(FilesOf[ResultOf(r)])
    BY <2>4 DEF k
  <2>2. Looked(r, n)
    BY DEF Spawning
  <2> QED
    BY <1>4, <1>5, <2>1, <2>2
<1>9. IsSearch(r) /\ pc[r] = "replied" => \A n \in 1..Len(FilesOf[ResultOf(r)]) : Looked(r, n)'
  BY <1>5, <1>7 DEF Spawning
<1> QED
  BY <1>1, <1>8, <1>9 DEF Spawning

LEMMA OwnTasks ==
  /\ Requests \subseteq Tasks
  /\ \A r \in Requests, f \in Files : Spawned(r, f) \in Tasks \ Requests
  /\ \A r, s, f, g : Spawned(r, f) = Spawned(s, g) => r = s /\ f = g
  /\ \A r, f : Spawned(r, f)[2] = f
<1>1. \A r \in Requests, f \in Files : Spawned(r, f) \in Tasks
  BY DEF Tasks
<1> QED
  BY <1>1, RequestsAssumption DEF Tasks, Spawned

LEMMA OneTask ==
  ASSUME Inv, Typed', NEW t \in Tasks, op' = op, UNCHANGED kv, spoilt \subseteq spoilt', OthersStay(t),
         t \in Requests \/ pc[t] # "idle", pc'[t] # "idle",
         TaskInv(t)', t \in Requests => Spawning(t)'
  PROVE  Inv'
<1>1. Filled'
  BY MoreSpoilt DEF Inv, Filled
<1>2. StoredStays /\ LookedStays
  BY DEF StoredStays, LookedStays, IsStored
<1>3. ASSUME NEW u \in Tasks PROVE TaskInv(u)'
  BY <1>2, TaskStays DEF Inv, OthersStay
<1>4. ASSUME NEW r \in Requests PROVE Spawning(r)'
  <2>1. CASE r = t
    BY <2>1
  <2>2. CASE r # t
    <3>1. r \in Tasks
      BY OwnTasks
    <3>2. \A f \in Files : pc'[Spawned(r, f)] = "idle" <=> pc[Spawned(r, f)] = "idle"
      BY OwnTasks DEF OthersStay
    <3> QED
      BY <1>2, <2>2, <3>1, <3>2, SpawningStays DEF Inv, OthersStay, TaskInv
  <2> QED
    BY <2>1, <2>2
<1> QED
  BY <1>1, <1>3, <1>4 DEF Inv

-----------------------------------------------------------------------------
(* The helpers of the actions *)

LEMMA SameJob ==
  ASSUME op' = op, NEW t
  PROVE  JobOf(t)' = JobOf(t) /\ IsSearch(t)' = IsSearch(t) /\ FileOf(t)' = FileOf(t)
  BY DEF JobOf, IsSearch, FileOf

(* A request that has not begun to look up, or a task, has started nothing. *)
LEMMA NothingStarted ==
  ASSUME Inv, NEW t \in Requests, op' = op, OthersStay(t), pc[t] \notin {"look up"} \cup Final,
         pc'[t] = "look up" => count'[t] = 0,
         pc'[t] = "look up" => \E l \in Results : data'[t] = Json(l),
         pc'[t] = "replied" => ~IsSearch(t)
  PROVE  Spawning(t)'
<1>1. \A f \in Files : pc'[Spawned(t, f)] = "idle"
  <2>1. \A f \in Files : pc[Spawned(t, f)] = "idle"
    BY DEF Inv, Spawning
  <2>2. \A f \in Files : Spawned(t, f) \in Tasks \ {t}
    <3>1. \A f \in Files : Spawned(t, f) \in Tasks \ Requests
      BY OwnTasks
    <3> QED
      BY <3>1
  <2> QED
    BY <2>1, <2>2 DEF OthersStay
<1>2. pc'[t] = "look up" => 0 <= Len(FilesOf[ResultOf(t)'])
  <2>1. pc'[t] = "look up" => ResultOf(t)' \in Results
    BY DEF ResultOf
  <2>2. \A l \in Results : 0 <= Len(FilesOf[l])
    BY Sizes, NotNegative
  <2> QED
    BY <2>1, <2>2
<1>3. IsSearch(t)' = IsSearch(t)
  BY SameJob
<1>4. pc'[t] = "look up" => 1..count'[t] = {}
  BY NoneUpToZero
<1> QED
  BY <1>1, <1>2, <1>3, <1>4 DEF Spawning

LEMMA Starts ==
  ASSUME Inv, NEW t \in Tasks, NEW k, StartReading(t, k),
         t \in Requests \/ pc[t] # "idle", pc[t] \notin {"look up"} \cup Final, t \notin late,
         IF IsSearch(t) THEN k = SearchKey
         ELSE k = Original(FileOf(t)) \/ (k = Reduced(FileOf(t)) /\ JobOf(t).op # "view_file")
  PROVE  Inv'
<1> USE DEF StartReading, Goto
<1>1. k \in Keys
  BY JobTypes, KeysOfFiles DEF Inv
<1>2. Typed'
  BY <1>1, EmptyIsASequence DEF Inv, Typed, Running, Reading
<1>3. op' = op /\ kv' = kv /\ spoilt' = spoilt
  OBVIOUS
<1>4. pc'[t] = "read" /\ key'[t] = k /\ data'[t] = <<>>
  BY DEF Inv, Typed
<1>5. OthersStay(t)
  BY DEF Inv, Typed, OthersStay
<1>6. Keyed(t)'
  BY <1>3, <1>4, SameJob, DifferentKeys DEF Keyed
<1>7. Working(t)'
  <2>1. IsBeginning(<<>>, FileOf(t), spoilt) /\ IsImage(<<>>, FileOf(t), spoilt)
    BY EmptyIsBeginning
  <2> QED
    BY <1>3, <1>4, <2>1, SameJob DEF Working
<1>8. Late(t)'
  <2>1. t \in late' => ~IsSearch(t) /\ IsStored(FileOf(t)) /\ k = Original(FileOf(t))
    BY DifferentKeys
  <2>2. IsStored(FileOf(t))' = IsStored(FileOf(t))
    BY <1>3, SameJob DEF IsStored
  <2> QED
    BY <1>3, <1>4, <2>1, <2>2, SameJob DEF Late
<1>9. t \in Requests => Spawning(t)'
  BY <1>3, <1>4, <1>5, NothingStarted
<1> QED
  BY <1>2, <1>3, <1>4, <1>5, <1>6, <1>7, <1>8, <1>9, OneTask DEF TaskInv

LEMMA Ends ==
  ASSUME Inv, NEW t \in Tasks, NEW status \in Final, NEW d \in Seq(Chunks), End(t, status, d),
         pc[t] \in Running,
         status = "replied" =>
           /\ ~IsSearch(t)
           /\ JobOf(t).op = "view_file" => IsBeginning(d, FileOf(t), spoilt)
           /\ JobOf(t).op # "view_file" => IsImage(d, FileOf(t), spoilt)
           /\ t \in late /\ FileOf(t) \notin spoilt =>
                d = IF JobOf(t).op = "view_file" THEN Content(FileOf(t)) ELSE Whole(FileOf(t))
  PROVE  Inv'
<1> USE DEF End, Goto
<1>1. Typed'
  BY KeysOfFiles DEF Inv, Typed
<1>2. op' = op /\ kv' = kv /\ spoilt' = spoilt
  OBVIOUS
<1>3. pc'[t] = status /\ key'[t] = SearchKey /\ data'[t] = d
  BY DEF Inv, Typed
<1>4. OthersStay(t)
  BY DEF Inv, Typed, OthersStay
<1>5. Keyed(t)'
  BY <1>2, <1>3, SameJob, DifferentKeys DEF Keyed, Final
<1>6. Working(t)'
  BY <1>2, <1>3, SameJob DEF Working, Final
<1>7. Late(t)'
  <2>1. t \in late => ~IsSearch(t) /\ (FileOf(t) \notin spoilt => IsStored(FileOf(t)))
    BY DEF Inv, TaskInv, Late
  <2>2. IsStored(FileOf(t))' = IsStored(FileOf(t))
    BY <1>2, SameJob DEF IsStored
  <2> QED
    BY <1>2, <1>3, <2>1, <2>2, SameJob DEF Late, Final
<1>8. pc[t] \notin {"idle"} \cup Final
  BY DEF Running, Reading, Final
<1>9. t \in Requests => Spawning(t)'
  <2>1. CASE status = "replied"
    <3>1. pc[t] # "look up"
      BY <2>1 DEF Inv, TaskInv, Keyed
    <3> QED
      BY <1>2, <1>3, <1>4, <1>8, <2>1, <3>1, NothingStarted
  <2>2. CASE status # "replied"
    BY <1>3, <2>2 DEF Spawning, Final
  <2> QED
    BY <2>1, <2>2
<1> QED
  BY <1>1, <1>2, <1>3, <1>4, <1>5, <1>6, <1>7, <1>8, <1>9, OneTask DEF TaskInv, Final

LEMMA Panics ==
  ASSUME Inv, NEW t \in Tasks, pc[t] \in Running,
         Panic(t) \/ Fail(t) \/ End(t, "refused", <<>>) \/ End(t, "gone", <<>>)
  PROVE  Inv'
<1>1. <<>> \in Seq(Chunks)
  BY EmptyIsASequence
<1>2. PICK status \in Final \ {"replied"} : End(t, status, <<>>)
  BY DEF Panic, Fail, Final
<1> QED
  BY <1>1, <1>2, Ends

LEMMA Stores ==
  ASSUME Inv, NEW t \in Tasks, NEW k, NEW d \in Seq(Chunks), StartStoring(t, k, d),
         pc[t] \in {"fetch", "resize"}, spoilt \subseteq spoilt', spoilt' \subseteq Files,
         IsSearch(t) => k = SearchKey /\ \E l \in Results : d = Json(l),
         ~IsSearch(t) =>
           \/ k = Original(FileOf(t)) /\ IsAnswer(d, FileOf(t), spoilt')
           \/ /\ k = Reduced(FileOf(t)) /\ JobOf(t).op # "view_file" /\ IsImage(d, FileOf(t), spoilt')
              /\ t \in late /\ FileOf(t) \notin spoilt => d = Whole(FileOf(t))
  PROVE  Inv'
<1> USE DEF StartStoring, Goto
<1>1. k \in Keys
  BY JobTypes, KeysOfFiles DEF Inv
<1>2. Typed'
  BY <1>1 DEF Inv, Typed, Running, Reading
<1>3. op' = op /\ kv' = kv
  OBVIOUS
<1>4. pc'[t] = "store" /\ key'[t] = k /\ data'[t] = d /\ count'[t] = 0 /\ 0 <= Len(d)
  BY NotNegative DEF Inv, Typed
<1>5. OthersStay(t)
  BY DEF Inv, Typed, OthersStay
<1>6. Keyed(t)'
  BY <1>3, <1>4, SameJob, DifferentKeys DEF Keyed
<1>7. Working(t)'
  <2>1. CASE IsSearch(t)
    BY <1>3, <1>4, <2>1, SameJob DEF Working
  <2>2. CASE ~IsSearch(t) /\ k = Original(FileOf(t)) /\ IsAnswer(d, FileOf(t), spoilt')
    BY <1>3, <1>4, <2>2, SameJob, DifferentKeys DEF Working
  <2>3. CASE ~IsSearch(t) /\ k = Reduced(FileOf(t)) /\ IsImage(d, FileOf(t), spoilt')
    BY <1>3, <1>4, <2>3, SameJob, DifferentKeys DEF Working
  <2> QED
    BY <2>1, <2>2, <2>3
<1>8. Late(t)'
  <2>1. t \in late => ~IsSearch(t) /\ (FileOf(t) \notin spoilt => IsStored(FileOf(t)))
    BY DEF Inv, TaskInv, Late
  <2>2. IsStored(FileOf(t))' = IsStored(FileOf(t))
    BY <1>3, SameJob DEF IsStored
  <2> QED
    BY <1>3, <1>4, <2>1, <2>2, SameJob, DifferentKeys DEF Late
<1>9. t \in Requests => Spawning(t)'
  BY <1>3, <1>4, <1>5, NothingStarted DEF Final
<1> QED
  BY <1>2, <1>3, <1>4, <1>5, <1>6, <1>7, <1>8, <1>9, OneTask DEF TaskInv

LEMMA GetsFile ==
  ASSUME Inv, NEW t \in Tasks, NEW d \in Seq(Chunks), GotFile(t, d), ~IsSearch(t),
         pc[t] \in {"read", "store"}, IsBeginning(d, FileOf(t), spoilt),
         t \in late /\ FileOf(t) \notin spoilt => d = Content(FileOf(t))
  PROVE  Inv'
<1>1. CASE JobOf(t).op = "view_file"
  <2>1. End(t, "replied", d) /\ "replied" \in Final
    BY <1>1 DEF GotFile, Reply, Final
  <2>2. pc[t] \in Running
    BY DEF Running, Reading
  <2> QED
    BY <1>1, <2>1, <2>2, Ends
<1>2. CASE JobOf(t).op # "view_file"
  <2>1. pc' = [pc EXCEPT ![t] = "resize"] /\ data' = [data EXCEPT ![t] = d] /\ UNCHANGED <<op, key, count, kv, late, spoilt>>
    BY <1>2 DEF GotFile, Goto
  <2>2. Typed'
    BY <2>1 DEF Inv, Typed, Running, Reading
  <2>3. pc'[t] = "resize" /\ key'[t] = key[t] /\ data'[t] = d
    BY <2>1 DEF Inv, Typed
  <2>4. OthersStay(t)
    BY <2>1 DEF Inv, Typed, OthersStay
  <2>5. Keyed(t)' /\ Working(t)'
    BY <1>2, <2>1, <2>3, SameJob DEF Keyed, Working
  <2>6. Late(t)'
    <3>1. t \in late => ~IsSearch(t) /\ (FileOf(t) \notin spoilt => IsStored(FileOf(t)))
      BY DEF Inv, TaskInv, Late
    <3>2. IsStored(FileOf(t))' = IsStored(FileOf(t))
      BY <2>1, SameJob DEF IsStored
    <3> QED
      BY <2>1, <2>3, <3>1, <3>2, SameJob DEF Late
  <2>7. t \in Requests => Spawning(t)'
    BY <2>1, <2>3, <2>4, NothingStarted DEF Final
  <2> QED
    BY <2>1, <2>2, <2>3, <2>4, <2>5, <2>6, <2>7, OneTask DEF TaskInv
<1> QED
  BY <1>1, <1>2

LEMMA StartsLookingUp ==
  ASSUME Inv, NEW t \in Tasks, StartLookingUp(t), IsSearch(t), pc[t] \in {"read", "store"},
         \E l \in Results : data[t] = Json(l)
  PROVE  Inv'
<1> USE DEF StartLookingUp, Goto
<1>1. Typed'
  BY DEF Inv, Typed, Running, Reading
<1>2. pc'[t] = "look up" /\ count'[t] = 0 /\ op' = op /\ kv' = kv /\ spoilt' = spoilt
  BY DEF Inv, Typed
<1>3. OthersStay(t)
  BY DEF Inv, Typed, OthersStay
<1>4. Keyed(t)' /\ Working(t)' /\ Late(t)'
  BY <1>2, SameJob DEF Inv, TaskInv, Keyed, Working, Late
<1>5. t \in Requests => Spawning(t)'
  BY <1>2, <1>3, NothingStarted DEF Final
<1> QED
  BY <1>1, <1>2, <1>3, <1>4, <1>5, OneTask DEF TaskInv

-----------------------------------------------------------------------------
(* The actions *)

LEMMA BeginStep ==
  ASSUME Inv, NEW t \in Requests, Begin(t)
  PROVE  Inv'
<1>1. t \in Tasks
  BY OwnTasks
<1>2. pc[t] = "idle" /\ t \notin late
  BY <1>1 DEF Begin, view_file, get_file, search_result, Inv, TaskInv, Late
<1>3. CASE view_file(t)
  <2> USE <1>3 DEF view_file, Goto, locals
  <2>1. Typed'
    BY DEF Inv, Typed, Running
  <2>2. pc'[t] = "session" /\ op' = op /\ kv' = kv /\ spoilt' = spoilt
    BY <1>1 DEF Inv, Typed
  <2>3. OthersStay(t)
    BY <1>1 DEF Inv, Typed, OthersStay
  <2>4. ~IsSearch(t)
    BY DEF IsSearch
  <2>5. data[t] = <<>> /\ key[t] = SearchKey
    BY <1>1, <1>2 DEF Inv, TaskInv, Keyed
  <2>6. Keyed(t)' /\ Working(t)' /\ Late(t)'
    BY <1>2, <2>2, <2>4, <2>5, SameJob, DifferentKeys DEF Keyed, Working, Late
  <2>7. Spawning(t)'
    BY <1>2, <2>2, <2>3, NothingStarted DEF Final
  <2> QED
    BY <1>1, <2>1, <2>2, <2>3, <2>6, <2>7, OneTask DEF TaskInv
<1>4. CASE get_file(t)
  BY <1>1, <1>2, <1>4, Starts DEF get_file, IsSearch, FileOf, Final
<1>5. CASE search_result(t)
  BY <1>1, <1>2, <1>5, Starts DEF search_result, IsSearch, Final
<1> QED
  BY <1>3, <1>4, <1>5 DEF Begin

LEMMA CheckSessionStep ==
  ASSUME Inv, NEW t \in Tasks, CheckSession(t)
  PROVE  Inv'
<1>1. pc[t] = "session" /\ pc[t] \in Running /\ pc[t] # "idle"
  BY DEF CheckSession, Running
<1>2. ~IsSearch(t) /\ t \notin late
  BY <1>1 DEF Inv, TaskInv, Keyed, Late
<1>3. CASE StartReading(t, Original(JobOf(t).file))
  BY <1>1, <1>2, <1>3, Starts DEF FileOf, Final
<1>4. CASE End(t, "refused", <<>>)
  BY <1>1, <1>4, Panics
<1> QED
  BY <1>3, <1>4 DEF CheckSession

LEMMA ReadErrorStep ==
  ASSUME Inv, NEW t \in Tasks, ReadError(t)
  PROVE  Inv'
  BY Panics DEF ReadError, Running, Reading

LEMMA DroppedStep ==
  ASSUME Inv, NEW r \in Requests, Dropped(r)
  PROVE  Inv'
  BY OwnTasks, Panics DEF Dropped

(* The chunk n of a beginning of the file makes it longer. *)
LEMMA LongerBeginning ==
  ASSUME NEW f, NEW S, NEW d \in Seq(Chunks), IsBeginning(d, f, S),
         NEW c \in Chunks, IsChunk(c, f, Len(d) + 1, S)
  PROVE  IsBeginning(Append(d, c), f, S)
  BY DEF IsBeginning

(* The chunk of an image is all of it. *)
LEMMA ImageChunk ==
  ASSUME NEW f \in Files, NEW S, NEW c, IsImage(<<c>>, f, S)
  PROVE  c \in Chunks
<1>1. <<c>> # <<>>
  OBVIOUS
<1>2. PICK m \in 1..Parts[f], b \in BOOLEAN : <<c>> = Image(f, m, b)
  BY <1>1 DEF IsImage
<1>3. m \in Nat
  BY Sizes
<1>4. c = [of |-> f, part |-> 1, reduced_from |-> m, intact |-> b]
  BY <1>2 DEF Image
<1> QED
  BY <1>3, <1>4 DEF Chunks

LEMMA ReadChunkStep ==
  ASSUME Inv, NEW t \in Tasks, ReadChunk(t)
  PROVE  Inv'
<1> DEFINE n == Len(data[t]) + 1
           c == kv[key[t]][n]
<1>1. pc[t] = "read" /\ n \in DOMAIN kv[key[t]] /\ data' = [data EXCEPT ![t] = Append(@, c)]
      /\ UNCHANGED <<op, pc, key, count, kv, late, spoilt>>
  BY DEF ReadChunk
<1>2. data[t] \in Seq(Chunks) /\ key[t] \in Keys /\ Len(data[t]) \in Nat
  BY DEF Inv, Typed
<1>3. IsSearch(t) => c \in Chunks
  <2>1. SUFFICES ASSUME IsSearch(t) PROVE c \in Chunks
    OBVIOUS
  <2>2. key[t] = SearchKey
    BY <2>1 DEF Inv, TaskInv, Keyed
  <2>3. PICK l \in Results : n \in 1..Pages[l] /\ c = Chunk(l, n)
    BY <1>1, <2>2 DEF Inv, Filled
  <2>4. n \in Nat
    BY <1>2
  <2> QED
    BY <2>3, <2>4 DEF Chunk, Chunks
<1>4. ~IsSearch(t) /\ key[t] = Original(FileOf(t)) =>
        IsChunk(c, FileOf(t), n, spoilt)
  BY <1>1, JobTypes DEF Inv, Filled
<1>5. ~IsSearch(t) /\ key[t] = Reduced(FileOf(t)) =>
        n = 1 /\ IsImage(<<c>>, FileOf(t), spoilt)
  BY <1>1, JobTypes DEF Inv, Filled
<1>6. ~IsSearch(t) => key[t] \in {Original(FileOf(t)), Reduced(FileOf(t))}
  BY <1>1 DEF Inv, TaskInv, Keyed
<1>7. \A f \in Files : IsChunk(c, f, n, spoilt) => c \in Chunks
  BY <1>2, ValuesAreChunks DEF IsChunk
<1>8. c \in Chunks
  BY <1>3, <1>4, <1>5, <1>6, <1>7, JobTypes, ImageChunk DEF Inv
<1> HIDE DEF c
<1>9. data'[t] = Append(data[t], c) /\ data'[t] \in Seq(Chunks)
  BY <1>1, <1>2, <1>8 DEF Inv, Typed
<1>10. Typed'
  BY <1>1, <1>2, <1>9 DEF Inv, Typed
<1>11. OthersStay(t)
  BY <1>1 DEF Inv, Typed, OthersStay
<1>12. Keyed(t)'
  BY <1>1, SameJob DEF Inv, TaskInv, Keyed
<1>13. Working(t)'
  <2>1. ~IsSearch(t) /\ key[t] = Original(FileOf(t)) => IsBeginning(data'[t], FileOf(t), spoilt)
    <3>1. SUFFICES ASSUME ~IsSearch(t), key[t] = Original(FileOf(t)) PROVE IsBeginning(data'[t], FileOf(t), spoilt)
      OBVIOUS
    <3>2. IsBeginning(data[t], FileOf(t), spoilt)
      BY <1>1, <3>1 DEF Inv, TaskInv, Working
    <3> QED
      BY <1>2, <1>4, <1>8, <1>9, <3>1, <3>2, LongerBeginning
  <2>2. ~IsSearch(t) /\ key[t] = Reduced(FileOf(t)) => IsImage(data'[t], FileOf(t), spoilt)
    <3>1. SUFFICES ASSUME ~IsSearch(t), key[t] = Reduced(FileOf(t)) PROVE IsImage(data'[t], FileOf(t), spoilt)
      OBVIOUS
    <3>2. data[t] = <<>>
      BY <1>2, <1>5, <3>1
    <3>3. data'[t] = <<c>>
      BY <1>9, <3>2
    <3> QED
      BY <1>5, <3>1, <3>3
  <2> QED
    BY <1>1, <1>6, <2>1, <2>2, SameJob DEF Working
<1>14. Late(t)'
  BY <1>1, SameJob DEF Inv, TaskInv, Late, IsStored
<1>15. t \in Requests => Spawning(t)'
  BY <1>1, <1>11, NothingStarted DEF Final
<1> QED
  BY <1>1, <1>10, <1>11, <1>12, <1>13, <1>14, <1>15, OneTask DEF TaskInv

LEMMA FetchStep ==
  ASSUME Inv, NEW t \in Tasks, Fetch(t)
  PROVE  Inv'
<1>1. pc[t] = "fetch" /\ pc[t] \in Running
  BY DEF Fetch, Running, Reading
<1>2. ~IsSearch(t) => key[t] = Original(FileOf(t)) /\ FileOf(t) \in Files
  BY <1>1, JobTypes DEF Inv, TaskInv, Keyed
<1>3. IsSearch(t) => key[t] = SearchKey
  BY DEF Inv, TaskInv, Keyed
<1>4. ASSUME NEW l \in Results, StartStoring(t, SearchKey, Json(l)), key[t] = SearchKey, UNCHANGED spoilt
      PROVE  Inv'
  BY <1>1, <1>2, <1>4, ValuesAreChunks, DifferentKeys, Stores DEF Inv, Typed
<1>5. ASSUME NEW d, StartStoring(t, key[t], d), key[t] # SearchKey, IsAnswer(d, FileOf(t), spoilt'),
             spoilt' = spoilt \/ spoilt' = spoilt \cup {FileOf(t)}
      PROVE  Inv'
  <2>1. d \in Seq(Chunks)
    BY <1>2, <1>3, <1>5, AnswerIsBeginning
  <2>2. spoilt \subseteq spoilt' /\ spoilt' \subseteq Files
    BY <1>2, <1>3, <1>5 DEF Inv, Typed
  <2> QED
    BY <1>1, <1>2, <1>3, <1>5, <2>1, <2>2, Stores
<1>6. CASE key[t] # SearchKey /\ StartStoring(t, key[t], Content(JobOf(t).file)) /\ UNCHANGED spoilt
  <2>1. IsAnswer(Content(FileOf(t)), FileOf(t), spoilt')
    BY DEF IsAnswer
  <2> QED
    BY <1>5, <1>6, <2>1 DEF FileOf
<1>7. ASSUME NEW n \in Others[FileOf(t)], key[t] # SearchKey,
             StartStoring(t, key[t], SpoiltContent(FileOf(t), n)), spoilt' = spoilt \cup {FileOf(t)}
      PROVE  Inv'
  <2>1. IsAnswer(SpoiltContent(FileOf(t), n), FileOf(t), spoilt')
    BY <1>7 DEF IsAnswer
  <2> QED
    BY <1>5, <1>7, <2>1
<1>8. CASE Panic(t)
  BY <1>1, <1>8, Panics
<1> QED
  BY <1>4, <1>6, <1>7, <1>8 DEF Fetch, FileOf

LEMMA ResizeStep ==
  ASSUME Inv, NEW t \in Tasks, Resize(t)
  PROVE  Inv'
<1> DEFINE f == JobOf(t).file
<1>1. /\ pc[t] = "resize" /\ ~IsSearch(t) /\ JobOf(t).op # "view_file" /\ f \in Files /\ f = FileOf(t)
      /\ data[t] \in Seq(Chunks) /\ spoilt' = spoilt /\ spoilt \subseteq Files
  BY JobTypes DEF Resize, Inv, Typed, TaskInv, Keyed, FileOf
<1>2. IsBeginning(data[t], f, spoilt) /\ (t \in late /\ f \notin spoilt => data[t] = Content(f))
  BY <1>1 DEF Inv, TaskInv, Working, Late
<1>3. CASE f \in Images /\ data[t] # <<>> /\ StartStoring(t, Reduced(f), Image(f, Len(data[t]), IsIntact(data[t])))
  <2> DEFINE n == Len(data[t])
             intact == IsIntact(data[t])
  <2>1. n \in Nat /\ n <= MaxParts(f) /\ n # 0
    BY <1>1, <1>2, <1>3, BeginningLength
  <2>2. n \in 1..Parts[f]
    BY <1>3, <2>1, Sizes
  <2>3. intact \in BOOLEAN
    BY DEF IsIntact
  <2>4. f \notin spoilt => intact
    <3>1. f \notin spoilt => \A m \in 1..Len(data[t]) : data[t][m] = Chunk(f, m)
      BY <1>1, <1>2, BeginningLength
    <3>2. \A m : Chunk(f, m).intact
      BY DEF Chunk
    <3> QED
      BY <3>1, <3>2 DEF IsIntact
  <2>5. t \in late /\ f \notin spoilt => n = Parts[f]
    BY <1>1, <1>2, ValuesAreChunks
  <2> HIDE DEF n, intact
  <2>6. Image(f, n, intact) \in Seq(Chunks)
    BY <1>1, <2>1, <2>3, ValuesAreChunks
  <2>7. IsImage(Image(f, n, intact), f, spoilt)
    BY <2>2, <2>3, <2>4 DEF IsImage
  <2>8. t \in late /\ f \notin spoilt => Image(f, n, intact) = Whole(f)
    BY <1>3, <2>3, <2>4, <2>5 DEF Whole
  <2>9. StartStoring(t, Reduced(f), Image(f, n, intact))
    BY <1>3 DEF n, intact
  <2> QED
    BY <1>1, <2>6, <2>7, <2>8, <2>9, Stores
<1>4. CASE (f \in Images => data[t] # Content(f)) /\ StartStoring(t, Reduced(f), <<>>)
  <2>1. t \in late /\ f \notin spoilt => <<>> = Whole(f)
    BY <1>2, <1>4 DEF Whole
  <2> QED
    BY <1>1, <1>4, <2>1, EmptyIsASequence, EmptyIsBeginning, Stores
<1> QED
  BY <1>3, <1>4 DEF Resize

LEMMA ReadEndStep ==
  ASSUME Inv, NEW t \in Tasks, ReadEnd(t)
  PROVE  Inv'
<1>1. /\ pc[t] = "read" /\ pc[t] \in Running /\ pc[t] \notin {"idle", "look up"} \cup Final
      /\ Len(data[t]) + 1 \notin DOMAIN kv[key[t]]
      /\ data[t] \in Seq(Chunks)
  BY DEF ReadEnd, Running, Reading, Final, Inv, Typed
<1>2. CASE ~IsSearch(t) /\ key[t] = Reduced(FileOf(t))
  <2>1. t \notin late
    BY <1>1, <1>2, DifferentKeys DEF Inv, TaskInv, Late
  <2>2. CASE data[t] = <<>>
    <3>1. StartReading(t, Original(FileOf(t)))
      BY <1>2, <2>2 DEF ReadEnd, FileOf
    <3> QED
      BY <1>1, <1>2, <2>1, <3>1, Starts
  <2>3. CASE data[t] # <<>>
    <3>1. Reply(t, data[t])
      BY <1>2, <2>3, DifferentKeys DEF ReadEnd, FileOf
    <3>2. IsImage(data[t], FileOf(t), spoilt) /\ JobOf(t).op # "view_file"
      BY <1>1, <1>2 DEF Inv, TaskInv, Keyed, Working
    <3> QED
      BY <1>1, <1>2, <2>1, <3>1, <3>2, Ends DEF Reply, Final
  <2> QED
    BY <2>2, <2>3
<1>3. CASE (IsSearch(t) /\ key[t] = SearchKey) \/ (~IsSearch(t) /\ key[t] = Original(FileOf(t)))
  <2>1. CASE data[t] = <<>>
    <3>1. pc' = [pc EXCEPT ![t] = "fetch"] /\ UNCHANGED <<op, key, data, count, kv, late, spoilt>>
      BY <1>3, <2>1, DifferentKeys DEF ReadEnd, Goto, locals, FileOf
    <3>2. Typed' /\ pc'[t] = "fetch"
      BY <3>1 DEF Inv, Typed, Running, Reading
    <3>3. OthersStay(t)
      BY <3>1 DEF Inv, Typed, OthersStay
    <3>4. Keyed(t)' /\ Working(t)'
      BY <1>1, <1>3, <3>1, <3>2, SameJob DEF Inv, TaskInv, Keyed, Working
    <3>5. Late(t)'
      BY <1>1, <3>1, <3>2, SameJob DEF Inv, TaskInv, Late, IsStored
    <3>6. t \in Requests => Spawning(t)'
      BY <1>1, <3>1, <3>2, <3>3, NothingStarted
    <3> QED
      BY <1>1, <3>1, <3>2, <3>3, <3>4, <3>5, <3>6, OneTask DEF TaskInv
  <2>2. CASE data[t] # <<>> /\ IsSearch(t)
    <3>1. IF IsJson(data[t]) THEN StartLookingUp(t) ELSE Panic(t)
      BY <1>3, <2>2, DifferentKeys DEF ReadEnd
    <3>2. CASE IsJson(data[t]) /\ StartLookingUp(t)
      BY <1>1, <2>2, <3>2, StartsLookingUp DEF IsJson
    <3>3. CASE Panic(t)
      BY <1>1, <3>3, Panics
    <3> QED
      BY <3>1, <3>2, <3>3
  <2>3. CASE data[t] # <<>> /\ ~IsSearch(t)
    <3>1. GotFile(t, data[t])
      BY <1>3, <2>3, DifferentKeys DEF ReadEnd, FileOf
    <3>2. IsBeginning(data[t], FileOf(t), spoilt) /\ FileOf(t) \in Files
      BY <1>1, <1>3, <2>3, JobTypes DEF Inv, TaskInv, Working
    <3>3. t \in late /\ FileOf(t) \notin spoilt => data[t] = Content(FileOf(t))
      <4>1. SUFFICES ASSUME t \in late, FileOf(t) \notin spoilt PROVE data[t] = Content(FileOf(t))
        OBVIOUS
      <4>2. DOMAIN kv[key[t]] = 1..Parts[FileOf(t)]
        BY <1>3, <2>3, <4>1 DEF Inv, TaskInv, Late, IsStored
      <4>3. Len(data[t]) >= Parts[FileOf(t)]
        BY <1>1, <3>2, <4>2, Sizes
      <4> QED
        BY <1>1, <3>2, <4>1, <4>3, LongestBeginning
    <3> QED
      BY <1>1, <2>3, <3>1, <3>2, <3>3, GetsFile
  <2> QED
    BY <2>1, <2>2, <2>3
<1> QED
  BY <1>1, <1>2, <1>3 DEF Inv, TaskInv, Keyed

(* What follows a store, whether it is stored or not *)
LEMMA AfterStores ==
  ASSUME Inv, NEW t \in Tasks, pc[t] = "store", AfterStore(t)
  PROVE  Inv'
<1>1. pc[t] \in Running /\ data[t] \in Seq(Chunks)
  BY DEF Running, Reading, Inv, Typed
<1>2. CASE IsSearch(t)
  <2>1. key[t] = SearchKey /\ \E l \in Results : data[t] = Json(l)
    BY <1>2 DEF Inv, TaskInv, Keyed, Working
  <2>2. StartLookingUp(t)
    BY <2>1, DifferentKeys DEF AfterStore
  <2> QED
    BY <1>2, <2>1, <2>2, StartsLookingUp
<1>3. CASE ~IsSearch(t) /\ key[t] = Original(FileOf(t))
  <2>1. GotFile(t, data[t])
    BY <1>3, DifferentKeys DEF AfterStore, FileOf
  <2>2. FileOf(t) \in Files /\ IsAnswer(data[t], FileOf(t), spoilt)
    BY <1>3, JobTypes DEF Inv, TaskInv, Working
  <2>3. IsBeginning(data[t], FileOf(t), spoilt) /\ (FileOf(t) \notin spoilt => data[t] = Content(FileOf(t)))
    BY <2>2, AnswerIsBeginning DEF IsAnswer
  <2> QED
    BY <1>1, <1>3, <2>1, <2>3, GetsFile
<1>4. CASE ~IsSearch(t) /\ key[t] = Reduced(FileOf(t))
  <2>1. Reply(t, data[t])
    BY <1>4, DifferentKeys DEF AfterStore, FileOf
  <2>2. /\ JobOf(t).op # "view_file" /\ IsImage(data[t], FileOf(t), spoilt)
        /\ t \in late /\ FileOf(t) \notin spoilt => data[t] = Whole(FileOf(t))
    BY <1>4 DEF Inv, TaskInv, Keyed, Working, Late
  <2> QED
    BY <1>1, <1>4, <2>1, <2>2, Ends DEF Reply, Final
<1> QED
  BY <1>2, <1>3, <1>4 DEF Inv, TaskInv, Keyed

LEMMA StoreErrorStep ==
  ASSUME Inv, NEW t \in Tasks, StoreError(t)
  PROVE  Inv'
<1>1. CASE Fail(t)
  BY <1>1, Panics DEF StoreError, Running, Reading
<1>2. CASE AfterStore(t)
  BY <1>2, AfterStores DEF StoreError
<1> QED
  BY <1>1, <1>2 DEF StoreError

LEMMA StoreEndStep ==
  ASSUME Inv, NEW t \in Tasks, StoreEnd(t)
  PROVE  Inv'
  BY AfterStores DEF StoreEnd

(* What a task puts belongs to the key that it puts it in. *)
LEMMA WhatIsPut ==
  ASSUME Inv, NEW t \in Tasks, pc[t] = "store", NEW n \in 1..Len(data[t])
  PROVE  \/ /\ ~IsSearch(t) /\ FileOf(t) \in Files /\ key[t] = Original(FileOf(t))
            /\ IsChunk(data[t][n], FileOf(t), n, spoilt)
         \/ /\ ~IsSearch(t) /\ FileOf(t) \in Files /\ key[t] = Reduced(FileOf(t))
            /\ n = 1 /\ IsImage(<<data[t][n]>>, FileOf(t), spoilt)
         \/ /\ IsSearch(t) /\ key[t] = SearchKey
            /\ \E l \in Results : n \in 1..Pages[l] /\ data[t][n] = Chunk(l, n)
<1>1. CASE IsSearch(t)
  <2>1. key[t] = SearchKey /\ \E l \in Results : data[t] = Json(l)
    BY <1>1 DEF Inv, TaskInv, Keyed, Working
  <2> QED
    BY <1>1, <2>1, ValuesAreChunks
<1>2. CASE ~IsSearch(t) /\ key[t] = Original(FileOf(t))
  <2>1. IsAnswer(data[t], FileOf(t), spoilt) /\ FileOf(t) \in Files
    BY <1>2, JobTypes DEF Inv, TaskInv, Working
  <2>2. IsBeginning(data[t], FileOf(t), spoilt)
    BY <2>1, AnswerIsBeginning
  <2> QED
    BY <1>2, <2>1, <2>2 DEF IsBeginning
<1>3. CASE ~IsSearch(t) /\ key[t] = Reduced(FileOf(t))
  <2>1. IsImage(data[t], FileOf(t), spoilt) /\ FileOf(t) \in Files
    BY <1>3, JobTypes DEF Inv, TaskInv, Working
  <2>2. data[t] # <<>>
    OBVIOUS
  <2>3. PICK m \in 1..Parts[FileOf(t)], b \in BOOLEAN : data[t] = Image(FileOf(t), m, b)
    BY <2>1, <2>2 DEF IsImage
  <2>4. n = 1 /\ <<data[t][n]>> = data[t]
    BY <2>3 DEF Image
  <2> QED
    BY <1>3, <2>1, <2>4
<1> QED
  BY <1>1, <1>2, <1>3 DEF Inv, TaskInv, Keyed

LEMMA PutStep ==
  ASSUME Inv, NEW k \in Keys, NEW n, NEW chunk, Put(k, n, chunk)
  PROVE  /\ DOMAIN kv' = Keys
         /\ DOMAIN kv'[k] = DOMAIN kv[k] \cup {n}
         /\ \A m \in DOMAIN kv'[k] : kv'[k][m] = IF m = n THEN chunk ELSE kv[k][m]
         /\ \A j \in Keys \ {k} : kv'[j] = kv[j]
  BY DEF Put, Inv, Typed

(* A put leaves the store well filled, with all that it had of the originals. *)
LEMMA PutKeeps ==
  ASSUME Inv, NEW t \in Tasks, pc[t] = "store", NEW n \in 1..Len(data[t]),
         Put(key[t], n, data[t][n]) \/ UNCHANGED kv, UNCHANGED spoilt
  PROVE  /\ DOMAIN kv' = Keys /\ Filled' /\ StoredStays /\ LookedStays
         /\ \A f \in Files : \A m \in DOMAIN kv[Original(f)] :
              m \in DOMAIN kv'[Original(f)] /\ (f \notin spoilt => kv'[Original(f)][m] = kv[Original(f)][m])
<1>1. CASE UNCHANGED kv
  BY <1>1 DEF Inv, Typed, Filled, StoredStays, LookedStays, IsStored
<1>2. CASE Put(key[t], n, data[t][n])
  <2> DEFINE k == key[t]
             chunk == data[t][n]
  <2>0. k \in Keys
    BY DEF Inv, Typed
  <2>1. /\ DOMAIN kv' = Keys
        /\ DOMAIN kv'[k] = DOMAIN kv[k] \cup {n}
        /\ \A m \in DOMAIN kv'[k] : kv'[k][m] = IF m = n THEN chunk ELSE kv[k][m]
        /\ \A j \in Keys \ {k} : kv'[j] = kv[j]
    BY <1>2, <2>0, PutStep
  <2>2. \A f \in Files : k = Original(f) => IsChunk(chunk, f, n, spoilt)
    BY WhatIsPut, DifferentKeys
  <2>3. \A f \in Files : k = Reduced(f) => n = 1 /\ IsImage(<<chunk>>, f, spoilt)
    BY WhatIsPut, DifferentKeys
  <2>4. k = SearchKey => \E l \in Results : n \in 1..Pages[l] /\ chunk = Chunk(l, n)
    BY WhatIsPut, DifferentKeys
  <2> HIDE DEF k, chunk
  <2>5. ASSUME NEW f \in Files
        PROVE  /\ \A m \in DOMAIN kv'[Original(f)] : IsChunk(kv'[Original(f)][m], f, m, spoilt)
               /\ \A m \in DOMAIN kv[Original(f)] :
                    m \in DOMAIN kv'[Original(f)] /\ (f \notin spoilt => kv'[Original(f)][m] = kv[Original(f)][m])
    <3>1. \A m \in DOMAIN kv[Original(f)] : IsChunk(kv[Original(f)][m], f, m, spoilt)
      BY DEF Inv, Filled
    <3>2. CASE k = Original(f)
      <4>1. \A m \in DOMAIN kv'[Original(f)] : IsChunk(kv'[Original(f)][m], f, m, spoilt)
        BY <2>1, <2>2, <3>1, <3>2
      <4>2. \A m \in DOMAIN kv[Original(f)] : m \in DOMAIN kv'[Original(f)]
        BY <2>1, <3>2
      <4>3. f \notin spoilt => \A m \in DOMAIN kv[Original(f)] : kv'[Original(f)][m] = kv[Original(f)][m]
        BY <3>1, <4>1, <4>2 DEF IsChunk
      <4> QED
        BY <4>1, <4>2, <4>3
    <3>3. CASE k # Original(f)
      BY <2>1, <3>1, <3>3, KeysOfFiles
    <3> QED
      BY <3>2, <3>3
  <2>6. ASSUME NEW f \in Files
        PROVE  \A m \in DOMAIN kv'[Reduced(f)] : m = 1 /\ IsImage(<<kv'[Reduced(f)][m]>>, f, spoilt)
    <3>1. \A m \in DOMAIN kv[Reduced(f)] : m = 1 /\ IsImage(<<kv[Reduced(f)][m]>>, f, spoilt)
      BY DEF Inv, Filled
    <3>2. CASE k = Reduced(f)
      <4>1. n = 1 /\ IsImage(<<chunk>>, f, spoilt)
        BY <2>3, <3>2
      <4>2. \A m \in DOMAIN kv'[Reduced(f)] : m = 1
        BY <2>1, <3>1, <3>2, <4>1
      <4>3. \A m \in DOMAIN kv'[Reduced(f)] : kv'[Reduced(f)][m] = chunk
        BY <2>1, <3>2, <4>1, <4>2
      <4> QED
        BY <4>1, <4>2, <4>3
    <3>3. CASE k # Reduced(f)
      <4>1. kv'[Reduced(f)] = kv[Reduced(f)]
        BY <2>1, <3>3, KeysOfFiles
      <4> QED
        BY <3>1, <4>1
    <3> QED
      BY <3>2, <3>3
  <2>7. \A m \in DOMAIN kv'[SearchKey] : \E l \in Results : m \in 1..Pages[l] /\ kv'[SearchKey][m] = Chunk(l, m)
    <3>1. \A m \in DOMAIN kv[SearchKey] : \E l \in Results : m \in 1..Pages[l] /\ kv[SearchKey][m] = Chunk(l, m)
      BY DEF Inv, Filled
    <3>2. CASE k = SearchKey
      BY <2>1, <2>4, <3>1, <3>2
    <3>3. CASE k # SearchKey
      BY <2>1, <3>1, <3>3, KeysOfFiles
    <3> QED
      BY <3>2, <3>3
  <2>8. Filled'
    BY <2>5, <2>6, <2>7 DEF Filled
  <2>9. StoredStays
    <3> SUFFICES ASSUME NEW f \in Files, f \notin spoilt, IsStored(f) PROVE IsStored(f)'
      BY DEF StoredStays
    <3>1. \A m \in 1..Parts[f] : m \in DOMAIN kv'[Original(f)]
      BY <2>5 DEF IsStored
    <3>2. \A m \in DOMAIN kv'[Original(f)] : m \in 1..Parts[f]
      BY <2>5 DEF IsChunk
    <3> QED
      BY <3>1, <3>2 DEF IsStored
  <2>10. LookedStays
    BY <2>5 DEF LookedStays
  <2> QED
    BY <2>1, <2>5, <2>8, <2>9, <2>10
<1> QED
  BY <1>1, <1>2

LEMMA StoreChunkStep ==
  ASSUME Inv, NEW t \in Tasks, StoreChunk(t)
  PROVE  Inv'
<1> DEFINE n == count[t] + 1
<1>1. /\ pc[t] = "store" /\ count' = [count EXCEPT ![t] = n]
      /\ UNCHANGED <<op, pc, key, data, late, spoilt>>
      /\ n <= Len(data[t])
      /\ Put(key[t], n, data[t][n]) \/ UNCHANGED kv
  BY DEF StoreChunk
<1>2. n \in 1..Len(data[t]) /\ n \in Nat
  <2>1. count[t] \in Nat /\ Len(data[t]) \in Nat
    BY DEF Inv, Typed
  <2> QED
    BY <1>1, <2>1
<1>3. DOMAIN kv' = Keys /\ Filled' /\ StoredStays /\ LookedStays
  BY <1>1, <1>2, PutKeeps
<1> HIDE DEF n
<1>4. Typed'
  BY <1>1, <1>2, <1>3 DEF Inv, Typed
<1>5. ASSUME NEW u \in Tasks, u # t PROVE TaskInv(u)'
  <2>1. count'[u] = count[u]
    BY <1>1, <1>5 DEF Inv, Typed
  <2> QED
    BY <1>1, <1>3, <2>1, TaskStays DEF Inv
<1>6. TaskInv(t)'
  <2>1. count'[t] = n
    BY <1>1 DEF Inv, Typed
  <2>2. Keyed(t)'
    BY <1>1, SameJob DEF Inv, TaskInv, Keyed
  <2>3. Working(t)'
    BY <1>1, <2>1, SameJob DEF Inv, TaskInv, Working
  <2>4. t \in late /\ FileOf(t) \notin spoilt => IsStored(FileOf(t))'
    BY <1>1, <1>3, JobTypes, SameJob DEF Inv, TaskInv, Late, StoredStays
  <2>5. Late(t)'
    BY <1>1, <2>4, SameJob DEF Inv, TaskInv, Late
  <2> QED
    BY <2>2, <2>3, <2>5 DEF TaskInv
<1>7. ASSUME NEW r \in Requests PROVE Spawning(r)'
  <2>1. CASE r = t
    BY <1>1, <2>1 DEF Inv, Spawning, Final
  <2>2. CASE r # t
    <3>1. count'[r] = count[r]
      BY <1>1, <2>2, OwnTasks DEF Inv, Typed
    <3> QED
      BY <1>1, <1>3, <3>1, OwnTasks, SpawningStays DEF Inv, TaskInv
  <2> QED
    BY <2>1, <2>2
<1> QED
  BY <1>3, <1>4, <1>5, <1>6, <1>7 DEF Inv

LEMMA CrashStep ==
  ASSUME Inv, Crash
  PROVE  Inv'
<1> USE DEF Crash
<1>1. Typed'
  BY KeysOfFiles, EmptyIsASequence DEF Inv, Typed, Running, Reading, Final
<1>2. Filled'
  BY DEF Inv, Filled
<1>3. ASSUME NEW t \in Tasks PROVE TaskInv(t)'
  <2>1. /\ pc'[t] = IF pc[t] \in Running THEN "gone" ELSE pc[t]
        /\ key'[t] = SearchKey
        /\ data'[t] = IF pc[t] \in Running THEN <<>> ELSE data[t]
        /\ op' = op /\ kv' = kv /\ late' = late /\ spoilt' = spoilt
    OBVIOUS
  <2>2. pc'[t] \notin Running
    BY <2>1 DEF Running, Reading
  <2>3. Keyed(t)'
    BY <2>1, <2>2, SameJob, DifferentKeys DEF Inv, TaskInv, Keyed, Running, Reading
  <2>4. Working(t)'
    BY <2>1, <2>2, SameJob DEF Inv, TaskInv, Working, Running, Reading
  <2>5. Late(t)'
    BY <2>1, <2>2, SameJob DEF Inv, TaskInv, Late, IsStored, Running, Reading
  <2> QED
    BY <2>3, <2>4, <2>5 DEF TaskInv
<1>4. ASSUME NEW r \in Requests PROVE Spawning(r)'
  <2>1. /\ pc'[r] = IF pc[r] \in Running THEN "gone" ELSE pc[r]
        /\ data'[r] = IF pc[r] \in Running THEN <<>> ELSE data[r]
        /\ op' = op /\ kv' = kv
    BY OwnTasks
  <2>2. \A f \in Files : pc'[Spawned(r, f)] = "idle" <=> pc[Spawned(r, f)] = "idle"
    BY OwnTasks DEF Running, Reading
  <2> HIDE DEF Crash
  <2>3. CASE pc[r] \in Running
    <3>1. pc'[r] = "gone"
      BY <2>1, <2>3
    <3> QED
      BY <3>1 DEF Spawning, Final
  <2>4. CASE pc[r] \notin Running
    <3>1. pc[r] # "look up"
      BY <2>4 DEF Running, Reading
    <3>2. IsSearch(r)' = IsSearch(r) /\ ResultOf(r)' = ResultOf(r)
      BY <2>1, <2>4, SameJob DEF ResultOf
    <3>3. CASE pc[r] = "replied" /\ IsSearch(r)
      <4>1. \A n \in 1..Len(FilesOf[ResultOf(r)]) : Looked(r, n)
        BY <3>3 DEF Inv, Spawning
      <4>2. FilesOf[ResultOf(r)] \in Seq(Files)
        BY <3>3, OwnTasks, Sizes DEF Inv, TaskInv, Working, ResultOf
      <4>3. \A n \in 1..Len(FilesOf[ResultOf(r)]) : FilesOf[ResultOf(r)][n] \in Files
        BY <4>2, ElementOfSequence
      <4>4. \A n \in 1..Len(FilesOf[ResultOf(r)]) : Looked(r, n)'
        BY <2>1, <2>2, <3>2, <4>1, <4>3 DEF Looked
      <4> QED
        BY <2>1, <2>4, <3>2, <3>3, <4>4 DEF Spawning, Final
    <3>4. CASE ~(pc[r] = "replied" /\ IsSearch(r))
      BY <2>1, <2>2, <2>4, <3>1, <3>2, <3>4 DEF Inv, Spawning
    <3> QED
      BY <3>3, <3>4
  <2> QED
    BY <2>3, <2>4
<1> QED
  BY <1>1, <1>2, <1>3, <1>4 DEF Inv

LEMMA LookUpStep ==
  ASSUME Inv, NEW t \in Tasks, LookUp(t)
  PROVE  Inv'
<1> DEFINE files == FilesOf[ResultOf(t)]
           n == count[t] + 1
           f == files[n]
           u == Spawned(t, f)
<1>1. /\ pc[t] = "look up" /\ n <= Len(files)
      /\ count' = [count EXCEPT ![t] = n]
      /\ UNCHANGED <<op, data, kv, late, spoilt>>
      /\ \/ 1 \in DOMAIN kv[Original(f)] /\ UNCHANGED <<pc, key>>
         \/ pc' = [pc EXCEPT ![u] = "read"] /\ key' = [key EXCEPT ![u] = Reduced(f)]
  BY DEF LookUp, Goto
<1>2. IsSearch(t) /\ t \in Requests
  BY <1>1, JobTypes DEF Inv, TaskInv, Keyed
<1>3. ResultOf(t) \in Results
  BY <1>1, <1>2 DEF Inv, TaskInv, Working, ResultOf
<1>4. files \in Seq(Files) /\ IsInjective(files)
  BY <1>3, HarborAssumption
<1>5. Len(files) \in Nat /\ count[t] \in Nat
  BY <1>4 DEF Inv, Typed
<1>6. n \in Nat /\ n \in 1..Len(files)
  BY <1>1, <1>5, NextIndex
<1>7. f \in Files
  BY <1>4, <1>6, ElementOfSequence
<1>8. u \in Tasks \ Requests /\ u[2] = f /\ u # t
  BY <1>2, <1>7, OwnTasks
<1>9. pc[u] = "idle"
  <2>1. SUFFICES ASSUME pc[u] # "idle" PROVE FALSE
    OBVIOUS
  <2>2. PICK m \in 1..count[t] : files[m] = f
    BY <1>1, <1>2, <1>7, <2>1 DEF Inv, Spawning
  <2>3. m \in DOMAIN files /\ n \in DOMAIN files /\ m # n
    BY <1>4, <1>5, <1>6
  <2> QED
    BY <1>4, <2>2, <2>3 DEF IsInjective
<1>10. ResultOf(t)' = ResultOf(t) /\ IsSearch(t)'
  BY <1>1, <1>2, SameJob DEF ResultOf
<1> HIDE DEF n, f, u
<1>11. /\ \A v \in Tasks \ {u} : pc'[v] = pc[v] /\ key'[v] = key[v]
       /\ \/ pc'[u] = pc[u] /\ key'[u] = key[u]
          \/ pc'[u] = "read" /\ key'[u] = Reduced(f)
       /\ \A v \in Tasks \ {t} : count'[v] = count[v]
       /\ count'[t] = n
  BY <1>1, <1>8 DEF Inv, Typed
<1>12. Typed'
  BY <1>1, <1>6, <1>7, KeysOfFiles DEF Inv, Typed, Running, Reading
<1>13. Filled' /\ StoredStays /\ LookedStays
  <2>1. kv' = kv /\ spoilt' = spoilt
    BY <1>1
  <2> QED
    BY <2>1 DEF Inv, Filled, StoredStays, LookedStays, IsStored
<1>14. ASSUME NEW v \in Tasks PROVE TaskInv(v)'
  <2>1. CASE v = t
    <3>1. pc'[t] = pc[t] /\ key'[t] = key[t]
      BY <1>8, <1>11
    <3> QED
      BY <1>1, <1>2, <2>1, <3>1, SameJob DEF Inv, TaskInv, Keyed, Working, Late
  <2>2. CASE v = u /\ pc'[u] = "read" /\ key'[u] = Reduced(f)
    <3>1. JobOf(v).op = "prefetch" /\ FileOf(v) = f /\ ~IsSearch(v)
      BY <1>8, <2>2 DEF JobOf, FileOf, IsSearch
    <3>2. data'[v] = <<>> /\ v \notin late' /\ op' = op
      BY <1>1, <1>9, <2>2 DEF Inv, TaskInv, Keyed, Late
    <3>3. pc'[v] = "read" /\ key'[v] = Reduced(FileOf(v)) /\ FileOf(v) \in Files
      BY <1>7, <2>2, <3>1
    <3>4. Keyed(v)'
      BY <3>1, <3>2, <3>3, SameJob, DifferentKeys DEF Keyed
    <3>5. Working(v)'
      BY <3>1, <3>2, <3>3, SameJob, DifferentKeys, EmptyIsBeginning DEF Working
    <3>6. Late(v)'
      BY <3>2 DEF Late
    <3> QED
      BY <3>4, <3>5, <3>6 DEF TaskInv
  <2>3. CASE v # t /\ (v = u => pc'[u] = pc[u] /\ key'[u] = key[u])
    <3>1. pc'[v] = pc[v] /\ key'[v] = key[v] /\ count'[v] = count[v]
      BY <1>11, <2>3
    <3> QED
      BY <1>1, <1>13, <3>1, TaskStays DEF Inv
  <2> QED
    BY <1>11, <2>1, <2>2, <2>3
<1>15. ASSUME NEW r \in Requests PROVE Spawning(r)'
  <2>1. CASE r # t
    <3>1. \A g \in Files : Spawned(r, g) # u
      BY <2>1, OwnTasks DEF u
    <3>2. \A g \in Files : pc'[Spawned(r, g)] = pc[Spawned(r, g)]
      BY <1>11, <3>1, OwnTasks
    <3>3. r \in Tasks /\ pc'[r] = pc[r] /\ count'[r] = count[r]
      BY <1>8, <1>11, <2>1, OwnTasks
    <3> QED
      BY <1>1, <1>13, <3>2, <3>3, SpawningStays DEF Inv, TaskInv
  <2>2. CASE r = t
    <3>1. pc'[t] = "look up"
      BY <1>1, <1>8, <1>11
    <3>2. ASSUME NEW g \in Files, pc'[Spawned(t, g)] # "idle"
          PROVE  \E m \in 1..n : files[m] = g
      <4>1. CASE Spawned(t, g) = u
        <5>1. g = f
          BY <4>1, OwnTasks DEF u
        <5>2. n \in 1..n
          BY <1>6
        <5> QED
          BY <5>1, <5>2 DEF f
      <4>2. CASE Spawned(t, g) # u
        <5>1. pc[Spawned(t, g)] # "idle"
          BY <1>2, <1>11, <3>2, <4>2, OwnTasks
        <5>2. PICK m \in 1..count[t] : files[m] = g
          BY <1>1, <1>2, <5>1 DEF Inv, Spawning
        <5>3. m \in 1..n
          BY <1>5 DEF n
        <5> QED
          BY <5>2, <5>3
      <4> QED
        BY <4>1, <4>2
    <3>3. ASSUME NEW m \in 1..n
          PROVE  1 \in DOMAIN kv[Original(files[m])] \/ pc'[Spawned(t, files[m])] # "idle"
      <4>1. CASE m = n
        <5>1. files[m] = f /\ Spawned(t, files[m]) = u
          BY <4>1 DEF f, u
        <5> QED
          BY <1>1, <1>8, <5>1 DEF f, Inv, Typed
      <4>2. CASE m # n
        <5>1. m \in 1..count[t]
          BY <1>5, <4>2 DEF n
        <5>2. Looked(t, m)
          BY <1>1, <1>2, <5>1 DEF Inv, Spawning
        <5>3. m \in 1..Len(files)
          BY <1>5, <1>6
        <5>4. files[m] \in Files
          BY <1>4, <5>3, ElementOfSequence
        <5>5. pc'[Spawned(t, files[m])] = "idle" => pc[Spawned(t, files[m])] = "idle"
          BY <1>2, <1>9, <1>11, <5>4, OwnTasks
        <5> QED
          BY <5>2, <5>5 DEF Looked
      <4> QED
        BY <4>1, <4>2
    <3>4. \A m \in 1..n : Looked(t, m)'
      BY <1>1, <1>10, <3>3 DEF Looked
    <3>5. n <= Len(files) /\ count'[t] = n
      BY <1>1, <1>11
    <3>6. FilesOf[ResultOf(t)'] = files
      BY <1>10
    <3> HIDE DEF files
    <3>7. \A g \in Files : pc'[Spawned(t, g)] # "idle" => \E m \in 1..n : FilesOf[ResultOf(t)'][m] = g
      BY <3>2, <3>6
    <3> QED
      BY <2>2, <3>1, <3>4, <3>5, <3>6, <3>7 DEF Spawning
  <2> QED
    BY <2>1, <2>2
<1> QED
  BY <1>12, <1>13, <1>14, <1>15 DEF Inv

LEMMA LookUpEndStep ==
  ASSUME Inv, NEW t \in Tasks, LookUpEnd(t)
  PROVE  Inv'
<1>1. pc[t] = "look up" /\ pc[t] \in Running
  BY DEF LookUpEnd, Running, Reading
<1>2. CASE Panic(t)
  BY <1>1, <1>2, Panics
<1>3. CASE count[t] = Len(FilesOf[ResultOf(t)]) /\ Reply(t, data[t])
  <2>1. IsSearch(t) /\ t \in Requests
    BY <1>1, JobTypes DEF Inv, TaskInv, Keyed
  <2>2. \E l \in Results : data[t] = Json(l)
    BY <1>1, <2>1 DEF Inv, TaskInv, Working
  <2>3. ResultOf(t) \in Results
    BY <2>2 DEF ResultOf
  <2>4. /\ pc' = [pc EXCEPT ![t] = "replied"] /\ key' = [key EXCEPT ![t] = SearchKey]
        /\ data' = [data EXCEPT ![t] = data[t]] /\ count' = [count EXCEPT ![t] = 0]
        /\ UNCHANGED <<op, kv, late, spoilt>>
    BY <1>3 DEF Reply, End, Goto
  <2>5. Typed'
    BY <2>4, KeysOfFiles DEF Inv, Typed, Final
  <2>6. OthersStay(t)
    BY <2>4 DEF Inv, Typed, OthersStay
  <2>7. pc'[t] = "replied" /\ key'[t] = SearchKey /\ data'[t] = data[t]
    BY <2>4 DEF Inv, Typed
  <2>8. t \notin late
    BY <2>1 DEF Inv, TaskInv, Late
  <2>9. TaskInv(t)'
    BY <2>1, <2>2, <2>4, <2>7, <2>8, SameJob DEF TaskInv, Keyed, Working, Late
  <2>10. Spawning(t)'
    <3>1. IsSearch(t)' /\ ResultOf(t)' = ResultOf(t)
      BY <2>1, <2>4, <2>7, SameJob DEF ResultOf
    <3>2. FilesOf[ResultOf(t)] \in Seq(Files)
      BY <2>3, Sizes
    <3>3. ASSUME NEW m \in 1..Len(FilesOf[ResultOf(t)]) PROVE Looked(t, m)'
      <4>1. Looked(t, m)
        BY <1>1, <1>3, <2>1 DEF Inv, Spawning
      <4>2. FilesOf[ResultOf(t)][m] \in Files
        BY <3>2, ElementOfSequence
      <4>3. pc'[Spawned(t, FilesOf[ResultOf(t)][m])] = pc[Spawned(t, FilesOf[ResultOf(t)][m])]
        BY <2>1, <2>6, <4>2, OwnTasks DEF OthersStay
      <4> QED
        BY <2>4, <3>1, <4>1, <4>3 DEF Looked
    <3> QED
      BY <2>7, <3>1, <3>3 DEF Spawning, Final
  <2> QED
    BY <1>1, <2>4, <2>5, <2>6, <2>7, <2>9, <2>10, OneTask
<1> QED
  BY <1>2, <1>3 DEF LookUpEnd

-----------------------------------------------------------------------------
(* The theorems *)

LEMMA InitStep == Init => Inv
<1> SUFFICES ASSUME Init PROVE Inv
  OBVIOUS
<1> USE DEF Init
<1>1. Typed
  BY KeysOfFiles, EmptyIsASequence DEF Typed
<1>2. Filled
  BY KeysOfFiles DEF Filled
<1>3. \A t \in Tasks : TaskInv(t)
  BY KeysOfFiles, DifferentKeys DEF TaskInv, Keyed, Working, Late
<1>4. \A r \in Requests : Spawning(r)
  BY OwnTasks DEF Spawning
<1> QED
  BY <1>1, <1>2, <1>3, <1>4 DEF Inv

LEMMA NextStep == Inv /\ [Next]_vars => Inv'
<1> SUFFICES ASSUME Inv, [Next]_vars PROVE Inv'
  OBVIOUS
<1>1. ASSUME NEW r \in Requests, Begin(r) \/ Dropped(r) PROVE Inv'
  BY <1>1, BeginStep, DroppedStep
<1>2. ASSUME NEW t \in Tasks, Step(t) PROVE Inv'
  BY <1>2, CheckSessionStep, ReadChunkStep, ReadEndStep, ReadErrorStep, FetchStep, StoreChunkStep,
     StoreEndStep, StoreErrorStep, ResizeStep, LookUpStep, LookUpEndStep DEF Step
<1>3. CASE Crash
  BY <1>3, CrashStep
<1>4. CASE UNCHANGED vars
  <2>1. op' = op /\ kv' = kv /\ UNCHANGED <<pc, key, data, count, late, spoilt>>
    BY <1>4 DEF vars
  <2>2. Typed' /\ Filled'
    BY <2>1 DEF Inv, Typed, Filled
  <2>3. StoredStays /\ LookedStays
    BY <2>1 DEF StoredStays, LookedStays, IsStored
  <2>4. \A t \in Tasks : TaskInv(t)'
    BY <2>1, <2>3, TaskStays DEF Inv
  <2>5. \A r \in Requests : Spawning(r)'
    BY <2>1, <2>3, OwnTasks, SpawningStays DEF Inv, TaskInv
  <2> QED
    BY <2>2, <2>4, <2>5 DEF Inv
<1> QED
  BY <1>1, <1>2, <1>3, <1>4 DEF Next, Done

(***************************************************************************)
(* The inductive invariant holds: see the definitions of its parts.        *)
(***************************************************************************)
THEOREM InvHolds == Spec => []Inv
  BY InitStep, NextStep, PTL DEF Spec

(***************************************************************************)
(* Whatever fails, the store holds under the key of a file nothing but     *)
(* chunks of what was answered for that file, in their places, or an image *)
(* of it (kv_store.rs: the writers of a key are not kept apart).           *)
(***************************************************************************)
THEOREM TypeCorrect == Spec => []TypeOK
<1>1. Inv => TypeOK
  <2> SUFFICES ASSUME Inv PROVE TypeOK
    OBVIOUS
  <2>1. ASSUME NEW f \in Files, NEW n \in DOMAIN kv[Reduced(f)]
        PROVE  \E m \in 1..Parts[f], intact \in BOOLEAN : <<kv[Reduced(f)][n]>> = Image(f, m, intact)
    <3>1. IsImage(<<kv[Reduced(f)][n]>>, f, spoilt) /\ <<kv[Reduced(f)][n]>> # <<>>
      BY DEF Inv, Filled
    <3> QED
      BY <3>1 DEF IsImage
  <2>2. ASSUME NEW f \in Files, NEW n \in DOMAIN kv[Original(f)]
        PROVE  n <= MaxParts(f) /\ kv[Original(f)][n] \in {Chunk(f, n), Spoilt(f, n)}
    <3>1. IsChunk(kv[Original(f)][n], f, n, spoilt)
      BY DEF Inv, Filled
    <3> QED
      BY <3>1, Sizes DEF IsChunk
  <2> QED
    BY <2>1, <2>2 DEF Inv, Typed, Filled, TaskInv, Working, TypeOK
<1> QED
  BY <1>1, InvHolds, PTL

(***************************************************************************)
(* A reply about a file is made of what was answered for that file; it is  *)
(* a beginning of the file, and all of it for those who began to read it   *)
(* when all of it was stored, as long as nothing but the file was answered *)
(* for it (smart_fetch_original_file, smart_fetch_reduced_file).           *)
(***************************************************************************)
THEOREM AnswersAreOfTheFile == Spec => []RepliesAreOfTheFile
<1>1. Inv => RepliesAreOfTheFile
  <2> SUFFICES ASSUME Inv, NEW t \in Tasks, pc[t] = "replied", ~IsSearch(t)
               PROVE  /\ JobOf(t).op = "view_file" =>
                           /\ \A n \in 1..Len(data[t]) : data[t][n] \in {Chunk(FileOf(t), n), Spoilt(FileOf(t), n)}
                           /\ FileOf(t) \notin spoilt =>
                                IsPrefix(data[t], Content(FileOf(t))) /\ (t \in late => data[t] = Content(FileOf(t)))
                      /\ JobOf(t).op \in {"get_file", "prefetch"} =>
                           /\ data[t] # <<>> =>
                                \E n \in 1..Parts[FileOf(t)], intact \in BOOLEAN :
                                  data[t] = Image(FileOf(t), n, intact) /\ (FileOf(t) \notin spoilt => intact)
                           /\ FileOf(t) \notin spoilt /\ t \in late => data[t] = Whole(FileOf(t))
    BY DEF RepliesAreOfTheFile, IsSearch, FileOf, Whole
  <2>1. FileOf(t) \in Files /\ data[t] \in Seq(Chunks)
    BY JobTypes DEF Inv, Typed
  <2>2. CASE JobOf(t).op = "view_file"
    <3>1. /\ IsBeginning(data[t], FileOf(t), spoilt)
          /\ t \in late /\ FileOf(t) \notin spoilt => data[t] = Content(FileOf(t))
      BY <2>2 DEF Inv, TaskInv, Working, Late
    <3>2. FileOf(t) \notin spoilt => IsPrefix(data[t], Content(FileOf(t)))
      BY <2>1, <3>1, BeginningIsPrefix
    <3>3. \A n \in 1..Len(data[t]) : data[t][n] \in {Chunk(FileOf(t), n), Spoilt(FileOf(t), n)}
      BY <3>1 DEF IsBeginning, IsChunk
    <3> QED
      BY <2>2, <3>1, <3>2, <3>3
  <2>3. CASE JobOf(t).op # "view_file"
    <3>1. /\ IsImage(data[t], FileOf(t), spoilt)
          /\ t \in late /\ FileOf(t) \notin spoilt => data[t] = Whole(FileOf(t))
      BY <2>3 DEF Inv, TaskInv, Working, Late
    <3> QED
      BY <2>3, <3>1 DEF IsImage
  <2> QED
    BY <2>2, <2>3
<1> QED
  BY <1>1, InvHolds, PTL

(***************************************************************************)
(* When a search is answered, each of its files has something in the store *)
(* or a task of its own (search_result_component.rs: the loop that spawns).*)
(***************************************************************************)
THEOREM AnswersPrefetch == Spec => []FoundFilesAreFetched
<1>1. Inv => FoundFilesAreFetched
  <2> SUFFICES ASSUME Inv, NEW r \in Requests, pc[r] = "replied", IsSearch(r),
                      NEW f \in ToSet(FilesOf[ResultOf(r)])
               PROVE  1 \in DOMAIN kv[Original(f)] \/ pc[Spawned(r, f)] # "idle"
    BY DEF FoundFilesAreFetched, IsSearch
  <2>1. ResultOf(r) \in Results
    BY OwnTasks DEF Inv, TaskInv, Working, ResultOf
  <2>2. FilesOf[ResultOf(r)] \in Seq(Files)
    BY <2>1, Sizes
  <2>3. PICK n \in 1..Len(FilesOf[ResultOf(r)]) : FilesOf[ResultOf(r)][n] = f
    BY <2>2 DEF ToSet
  <2>4. Looked(r, n)
    BY DEF Inv, Spawning
  <2> QED
    BY <2>3, <2>4 DEF Looked
<1> QED
  BY <1>1, InvHolds, PTL

(***************************************************************************)
(* No chunk of a file that is in the store is removed, nor replaced by     *)
(* another one as long as nothing but the file was answered for it         *)
(* (kv_store.rs: store_to_nats overwrites, nothing deletes).               *)
(***************************************************************************)
THEOREM ChunksStay == Spec => StoredFilesStay
<1> DEFINE Stay == \A f \in Files : \A n \in DOMAIN kv[Original(f)] :
                     /\ n \in DOMAIN kv'[Original(f)]
                     /\ f \notin spoilt => kv'[Original(f)][n] = kv[Original(f)][n]
<1>1. Inv /\ [Next]_vars => [Stay]_vars
  <2> SUFFICES ASSUME Inv, [Next]_vars PROVE Stay \/ UNCHANGED vars
    OBVIOUS
  <2>1. UNCHANGED kv => Stay
    OBVIOUS
  <2>2. ASSUME NEW t \in Tasks, StoreChunk(t) PROVE Stay
    <3>1. count[t] + 1 \in 1..Len(data[t])
      <4>1. count[t] \in Nat /\ Len(data[t]) \in Nat
        BY DEF Inv, Typed
      <4> QED
        BY <2>2, <4>1, NextIndex DEF StoreChunk
    <3>2. pc[t] = "store" /\ UNCHANGED spoilt /\ (Put(key[t], count[t] + 1, data[t][count[t] + 1]) \/ UNCHANGED kv)
      BY <2>2 DEF StoreChunk
    <3> QED
      BY <3>1, <3>2, PutKeeps
  <2>3. ASSUME NEW t \in Tasks, Step(t), ~StoreChunk(t) PROVE UNCHANGED kv
    <3> USE DEF StartReading, StartStoring, StartLookingUp, GotFile, End, Reply, Panic, Fail
    <3>1. ASSUME pc[t] \in {"read", "store"}
          PROVE  key[t] \in {SearchKey, Original(JobOf(t).file), Reduced(JobOf(t).file)}
      BY <3>1 DEF Inv, TaskInv, Keyed, FileOf
    <3>2. ASSUME CheckSession(t) \/ ReadChunk(t) \/ ReadError(t) \/ Fetch(t) PROVE UNCHANGED kv
      BY <3>2 DEF CheckSession, ReadChunk, ReadError, Fetch
    <3>3. ASSUME ReadEnd(t) PROVE UNCHANGED kv
      BY <3>1, <3>3, DifferentKeys DEF ReadEnd
    <3>4. ASSUME pc[t] = "store", AfterStore(t) PROVE UNCHANGED kv
      BY <3>1, <3>4, DifferentKeys DEF AfterStore
    <3>5. ASSUME StoreEnd(t) \/ StoreError(t) PROVE UNCHANGED kv
      BY <3>4, <3>5 DEF StoreEnd, StoreError
    <3>6. ASSUME Resize(t) \/ LookUp(t) \/ LookUpEnd(t) PROVE UNCHANGED kv
      BY <3>6 DEF Resize, LookUp, LookUpEnd
    <3> QED
      BY <2>3, <3>2, <3>3, <3>5, <3>6 DEF Step
  <2>4. ASSUME NEW r \in Requests, Begin(r) \/ Dropped(r) PROVE UNCHANGED kv
    BY <2>4 DEF Begin, view_file, get_file, search_result, Dropped, StartReading, End
  <2>5. CASE Crash \/ UNCHANGED vars
    BY <2>5 DEF Crash, vars
  <2> HIDE DEF Stay
  <2> QED
    BY <2>1, <2>2, <2>3, <2>4, <2>5 DEF Next, Done
<1> QED
  BY <1>1, InvHolds, PTL DEF Spec, StoredFilesStay
=============================================================================
