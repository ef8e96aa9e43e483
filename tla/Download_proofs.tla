--------------------------- MODULE Download_proofs ---------------------------
(***************************************************************************)
(* The parallel decryption, for any number of threads and parts.  After k  *)
(* slices the offset is k times the quotient of the division of the parts  *)
(* by the threads, and one more for each of the first slices up to its     *)
(* remainder (Counted): the last slice ends at the number of the parts,    *)
(* and so a set of as many indexes without gap is all of them.  That the   *)
(* tasks cannot disturb each other comes from Below: a slice lies before   *)
(* the offset at which the next one starts.                                *)
(***************************************************************************)
EXTENDS Download, FiniteSetTheorems, TLAPS

N == Cardinality(enc_parts)

(* The first index after k slices. *)
Shared(k) ==
  k * (N \div n_threads) + (IF k < N % n_threads THEN k ELSE N % n_threads)

Counted == pc # "error" => offset = Shared(pool_index)

(* What is in the slices is there, and before the offset. *)
Below ==
  /\ offset \in Nat
  /\ 0 .. (offset - 1) \subseteq enc_parts
  /\ \A part : (\E i \in Pools : part \in Share(i)) <=> part \in 0 .. (offset - 1)
  /\ \A i, j \in Pools : i # j => Share(i) \cap Share(j) = {}
  /\ \A i \in Pools : i >= pool_index => Share(i) = {}
  /\ pc = "search" => pool_index = 0

(* A task that returned has decrypted its slice, and one without a slice is none. *)
Decrypted ==
  \A i \in Pools :
    /\ task[i] = "ok" => enc_slides[i] = {}
    /\ task[i] = "none" => Share(i) = {}

(* The handler has not gone on before its tasks. *)
Waited ==
  /\ pc \in {"join", "stream", "end"} => pool_index = n_threads
  /\ pc \in {"stream", "end"} =>
       /\ \A i \in Pools : task[i] # "running"
       /\ clear_slide_parts = UNION {Returned(i) : i \in Pools}
  /\ pc \notin {"stream", "end"} => sent = <<>>

(* What is sent is sorted, and before what is not sent yet. *)
Sorted ==
  /\ Sent \subseteq clear_slide_parts
  /\ \A part \in Sent : \A other \in clear_slide_parts \ Sent : part < other
  /\ SentInOrder

IInv == TypeOK /\ Counted /\ Below /\ Decrypted /\ Waited /\ Sorted

-----------------------------------------------------------------------------
(* The division of the parts *)

LEMMA PartsAreFinite == TypeOK => IsFiniteSet(enc_parts) /\ N \in Nat /\ N <= MaxParts
<1> SUFFICES ASSUME TypeOK PROVE IsFiniteSet(enc_parts) /\ N \in Nat /\ N <= MaxParts
  OBVIOUS
<1>1. IsFiniteSet(Indexes) /\ Cardinality(Indexes) = MaxParts
  BY FS_Interval, PartsAssumption DEF Indexes
<1> QED
  BY <1>1, FS_Subset, FS_CardinalityType DEF TypeOK, N

LEMMA Division ==
  ASSUME NEW n \in Nat, NEW d \in Nat \ {0}
  PROVE  /\ n \div d \in Nat
         /\ n % d \in 0 .. (d - 1)
         /\ n = d * (n \div d) + (n % d)
  OBVIOUS

LEMMA OneMore ==
  ASSUME NEW k \in Nat, NEW q \in Nat
  PROVE  k * q \in Nat /\ (k + 1) * q = k * q + q
  OBVIOUS

(* Slice k takes the parts from Shared(k) on, up to Shared(k + 1). *)
LEMMA NextShare ==
  ASSUME TypeOK, pool_index < n_threads
  PROVE  /\ PoolSize(n_threads, N)[pool_index] \in Nat
         /\ Shared(pool_index + 1) = Shared(pool_index) + PoolSize(n_threads, N)[pool_index]
<1> DEFINE q == N \div n_threads
           m == N % n_threads
<1>1. n_threads \in Nat \ {0} /\ pool_index \in 0 .. (n_threads - 1) /\ N \in Nat
  BY PartsAreFinite, ThreadsAssumption DEF TypeOK
<1>2. q \in Nat /\ m \in Nat
  BY <1>1, Division
<1>3. PoolSize(n_threads, N)[pool_index] = q + (IF pool_index < m THEN 1 ELSE 0)
  BY <1>1 DEF PoolSize
<1> HIDE DEF q, m
<1>4. pool_index * q \in Nat /\ (pool_index + 1) * q = pool_index * q + q
  BY <1>1, <1>2, OneMore
<1>5. \A k : Shared(k) = k * q + (IF k < m THEN k ELSE m)
  BY DEF Shared, q, m
<1>6. Shared(pool_index) = pool_index * q + (IF pool_index < m THEN pool_index ELSE m)
  BY <1>5
<1>7. Shared(pool_index + 1) = pool_index * q + q + (IF pool_index + 1 < m THEN pool_index + 1 ELSE m)
  BY <1>4, <1>5
<1>8. pool_index \in Nat
  BY <1>1
<1> QED
  BY <1>2, <1>3, <1>4, <1>6, <1>7, <1>8

(* The slices of all the threads are all the parts. *)
LEMMA AllShared == TypeOK => Shared(n_threads) = N
<1> SUFFICES ASSUME TypeOK PROVE Shared(n_threads) = N
  OBVIOUS
<1>1. n_threads \in Nat \ {0} /\ N \in Nat
  BY PartsAreFinite, ThreadsAssumption DEF TypeOK
<1> QED
  BY <1>1, Division DEF Shared

(* As many parts as there are indexes before the offset: no other index. *)
LEMMA AllParts ==
  ASSUME TypeOK, Below, offset = N
  PROVE  enc_parts = 0 .. (offset - 1)
<1>1. Cardinality(0 .. (offset - 1)) = offset
  BY FS_Interval DEF Below
<1> QED
  BY <1>1, PartsAreFinite, FS_Subset DEF Below, N

-----------------------------------------------------------------------------
(* The inductive invariant *)

LEMMA InvInit == Init => IInv
<1> SUFFICES ASSUME Init PROVE IInv
  OBVIOUS
<1> USE ThreadsAssumption, PartsAssumption
<1>1. TypeOK
  BY DEF Init, TypeOK, Indexes, Pools
<1>2. n_threads \in Nat \ {0} /\ N \in Nat
  BY <1>1, PartsAreFinite DEF TypeOK
<1>3. Counted
  BY <1>2, Division DEF Init, Counted, Shared
<1>4. Below
  BY DEF Init, Below, Share, Pools
<1>5. Decrypted /\ Waited /\ Sorted
  BY DEF Init, Decrypted, Waited, Sorted, Share, Sent, SentInOrder, Pools
<1> QED
  BY <1>1, <1>3, <1>4, <1>5 DEF IInv

(* The next slice is prepared. *)
LEMMA StepPrepare == IInv /\ PrepareSlide => IInv'
<1> SUFFICES ASSUME IInv, PrepareSlide PROVE IInv'
  OBVIOUS
<1> USE ThreadsAssumption, PartsAssumption DEF IInv
<1>1. /\ n_threads \in Nat \ {0} /\ pool_index \in 0 .. (n_threads - 1) /\ pool_index \in Pools
      /\ offset \in Nat /\ offset = Shared(pool_index)
  BY DEF PrepareSlide, TypeOK, Pools, Below, Counted
<1>2. PoolSize(n_threads, N)[pool_index] \in Nat
      /\ Shared(pool_index + 1) = offset + PoolSize(n_threads, N)[pool_index]
  BY <1>1, NextShare DEF PrepareSlide
<1> DEFINE size == PoolSize(n_threads, N)[pool_index]
<1>3. Slide = offset .. (offset + size - 1)
  BY DEF Slide, N
<1> HIDE DEF size
<1>4. size \in Nat /\ Shared(pool_index + 1) = offset + size
  BY <1>2 DEF size
<1>5. Cardinality(Slide) = size
  BY <1>1, <1>3, <1>4, FS_Interval
<1>6. UNCHANGED <<enc_parts, n_threads>> /\ N' = N
  BY DEF PrepareSlide, input, N
<1>7. UNCHANGED <<damaged, clear_slides, clear_slide_parts, sent>> /\ pool_index' = pool_index + 1
  BY DEF PrepareSlide, input
<1>8. Shared(pool_index)' = Shared(pool_index + 1)
  BY <1>6, <1>7 DEF Shared
<1>9. Share(pool_index) = {} /\ clear_slides[pool_index] = {}
  BY <1>1 DEF Below, Share
<1>10. CASE Slide \subseteq enc_parts /\ pc' # "error"
  <2>1. /\ enc_slides' = [enc_slides EXCEPT ![pool_index] = Slide]
        /\ task' = [task EXCEPT ![pool_index] = IF Slide = {} THEN "none" ELSE "running"]
        /\ offset' = offset + size /\ UNCHANGED pc
    BY <1>5, <1>10 DEF PrepareSlide
  <2>2. 0 .. (offset' - 1) = 0 .. (offset - 1) \cup Slide /\ offset' \in Nat
    BY <1>1, <1>3, <1>4, <2>1
  <2>3. \A i \in Pools : Share(i)' = IF i = pool_index THEN Slide ELSE Share(i)
    BY <1>1, <1>7, <1>9, <2>1 DEF TypeOK, Share
  <2>4. TypeOK'
    <3>1. 0 .. (offset' - 1) \subseteq enc_parts
      BY <1>10, <2>2 DEF Below
    <3>2. offset' <= N
      <4>1. Cardinality(0 .. (offset' - 1)) = offset'
        BY <2>2, FS_Interval
      <4>2. IsFiniteSet(enc_parts)
        BY PartsAreFinite
      <4>3. Cardinality(0 .. (offset' - 1)) <= Cardinality(enc_parts)
        BY <3>1, <4>2, FS_Subset
      <4> QED
        BY <4>1, <4>3 DEF N
    <3> QED
      BY <1>1, <1>6, <1>7, <1>10, <2>1, <2>2, <3>2, PartsAreFinite DEF TypeOK, Pools
  <2>5. Counted'
    BY <1>1, <1>4, <1>8, <2>1 DEF Counted
  <2>6. Below'
    <3>1. 0 .. (offset' - 1) \subseteq enc_parts'
      BY <1>6, <1>10, <2>2 DEF Below
    <3>2. \A part : (\E i \in Pools : part \in Share(i)') <=> part \in 0 .. (offset' - 1)
      <4>1. \A part : (\E i \in Pools : part \in Share(i)')
                      <=> (\E i \in Pools : part \in Share(i)) \/ part \in Slide
        BY <1>1, <1>9, <2>3
      <4> QED
        BY <2>2, <4>1 DEF Below
    <3>3. \A i \in Pools : Share(i) \cap Slide = {}
      <4>1. \A i \in Pools : Share(i) \subseteq 0 .. (offset - 1)
        BY DEF Below
      <4>2. 0 .. (offset - 1) \cap Slide = {}
        BY <1>1, <1>3, <1>4
      <4> QED
        BY <4>1, <4>2
    <3>4. \A i, j \in Pools : i # j => Share(i)' \cap Share(j)' = {}
      BY <2>3, <3>3 DEF Below
    <3>5. \A i \in Pools : i >= pool_index' => Share(i)' = {}
      BY <1>1, <1>7, <2>3 DEF Below, Pools
    <3>6. pc' = "prepare"
      BY <2>1 DEF PrepareSlide
    <3> QED
      BY <2>2, <3>1, <3>2, <3>4, <3>5, <3>6 DEF Below
  <2>7. Decrypted'
    BY <1>1, <2>1, <2>3 DEF Decrypted, TypeOK
  <2>8. Waited' /\ Sorted'
    BY <1>7, <2>1 DEF PrepareSlide, Waited, Sorted, Sent, SentInOrder
  <2> QED
    BY <2>4, <2>5, <2>6, <2>7, <2>8
<1>11. CASE ~(Slide \subseteq enc_parts /\ pc' # "error")
  <2>1. pc' = "error" /\ UNCHANGED <<enc_slides, task, offset>>
    BY <1>11 DEF PrepareSlide
  <2>2. \A i \in Pools : Share(i)' = Share(i)
    BY <1>7, <2>1 DEF Share
  <2>3. Below'
    <3>1. \A part : (\E i \in Pools : part \in Share(i)') <=> (\E i \in Pools : part \in Share(i))
      BY <2>2
    <3>2. \A i \in Pools : i >= pool_index' => Share(i)' = {}
      BY <1>1, <1>7, <2>2 DEF Below, Pools
    <3> QED
      BY <1>6, <2>1, <2>2, <3>1, <3>2 DEF Below
  <2>4. TypeOK'
    BY <1>1, <1>6, <1>7, <2>1 DEF TypeOK
  <2>5. Decrypted'
    BY <2>1, <2>2 DEF Decrypted
  <2>6. Counted' /\ Waited' /\ Sorted'
    BY <1>7, <2>1 DEF PrepareSlide, Counted, Waited, Sorted, Sent, SentInOrder
  <2> QED
    BY <2>3, <2>4, <2>5, <2>6
<1> QED
  BY <1>10, <1>11

(* A task takes a step: its slice stays the same set of parts. *)
LEMMA StepTask == ASSUME IInv, NEW i \in Pools, Task(i) PROVE IInv'
<1> USE ThreadsAssumption, PartsAssumption DEF IInv
<1>1. /\ UNCHANGED <<pc, enc_parts, damaged, n_threads, pool_index, offset, clear_slide_parts, sent>>
      /\ task[i] = "running"
  BY DEF Task, Decrypt, TaskReturns, TaskPanics, input
<1>2. \A j \in Pools : j # i => UNCHANGED <<enc_slides[j], clear_slides[j], task[j]>>
  BY DEF Task, Decrypt, TaskReturns, TaskPanics, TypeOK
<1>3. Share(i)' = Share(i)
  BY DEF Task, Decrypt, TaskReturns, TaskPanics, TypeOK, Share
<1>4. \A j \in Pools : Share(j)' = Share(j)
  BY <1>2, <1>3 DEF Share
<1>5. TypeOK'
  BY DEF Task, Decrypt, TaskReturns, TaskPanics, TypeOK, input
<1>6. task'[i] \in {"running", "err"} \/ (task'[i] = "ok" /\ enc_slides'[i] = {})
  BY DEF Task, Decrypt, TaskReturns, TaskPanics, TypeOK
<1>7. pc \notin {"stream", "end"}
  BY <1>1 DEF Waited
<1>8. \A part : (\E j \in Pools : part \in Share(j)') <=> (\E j \in Pools : part \in Share(j))
  BY <1>4
<1>9. Below'
  BY <1>1, <1>4, <1>8 DEF Below
<1>10. Counted'
  BY <1>1 DEF Counted, Shared, N
<1>11. Decrypted'
  BY <1>2, <1>4, <1>6 DEF Decrypted
<1>12. Waited' /\ Sorted'
  BY <1>1, <1>7 DEF Waited, Sorted, Sent, SentInOrder
<1> QED
  BY <1>5, <1>9, <1>10, <1>11, <1>12

(* The tasks have ended, and the stream takes what they returned. *)
LEMMA StepJoin == IInv /\ JoinAll => IInv'
<1> SUFFICES ASSUME IInv, JoinAll PROVE IInv'
  OBVIOUS
<1> USE DEF IInv, JoinAll
<1>1. UNCHANGED <<enc_parts, damaged, n_threads, pool_index, offset, enc_slides, clear_slides, task, sent>>
  BY DEF input, tasks
<1>2. \A i \in Pools : Share(i)' = Share(i) /\ Returned(i)' = Returned(i)
  BY <1>1 DEF Share, Returned
<1>3. UNION {Returned(i) : i \in Pools} \subseteq Indexes
  BY DEF Returned, TypeOK
<1>4. TypeOK'
  BY <1>1, <1>3 DEF TypeOK
<1>5. Counted' /\ Decrypted'
  BY <1>1, <1>2 DEF Counted, Shared, N, Decrypted
<1>6. Below'
  BY <1>1, <1>2 DEF Below
<1>7. clear_slide_parts' = UNION {Returned(i)' : i \in Pools}
  BY <1>1 DEF Returned
<1>8. sent' = <<>> /\ Sent' = {}
  BY <1>1 DEF Waited, Sent
<1>9. Waited' /\ Sorted'
  BY <1>1, <1>7, <1>8 DEF Waited, Sorted, SentInOrder
<1> QED
  BY <1>4, <1>5, <1>6, <1>9

(* The stream sends the part with the lowest index. *)
LEMMA StepPoll == IInv /\ PollNext => IInv'
<1> SUFFICES ASSUME IInv, PollNext PROVE IInv'
  OBVIOUS
<1> USE DEF IInv
<1>1. PICK part \in clear_slide_parts \ Sent :
        /\ \A other \in clear_slide_parts \ Sent : part <= other
        /\ sent' = Append(sent, part)
  BY DEF PollNext
<1>2. UNCHANGED <<pc, enc_parts, damaged, n_threads, pool_index, offset, enc_slides, clear_slides, task,
                 clear_slide_parts>> /\ pc = "stream"
  BY DEF PollNext, input, tasks
<1>3. part \in Indexes /\ clear_slide_parts \subseteq Int
  BY DEF TypeOK, Indexes
<1>4. TypeOK'
  BY <1>1, <1>2, <1>3 DEF TypeOK
<1>5. \A i \in Pools : Share(i)' = Share(i) /\ Returned(i)' = Returned(i)
  BY <1>2 DEF Share, Returned
<1>6. Counted' /\ Decrypted' /\ Below'
  BY <1>2, <1>5 DEF Counted, Shared, N, Decrypted, Below
<1>7. clear_slide_parts' = UNION {Returned(i)' : i \in Pools}
  BY <1>2 DEF Returned, Waited
<1>8. Waited'
  BY <1>2, <1>7 DEF Waited
<1>9. /\ Len(sent) \in Nat /\ DOMAIN sent = 1 .. Len(sent) /\ DOMAIN sent' = 1 .. (Len(sent) + 1)
      /\ \A i \in DOMAIN sent : sent'[i] = sent[i]
      /\ sent'[Len(sent) + 1] = part
  BY <1>1, <1>3 DEF TypeOK
<1>10. Sent' = Sent \cup {part}
  BY <1>9 DEF Sent
<1>11. \A one \in Sent : one < part
  BY <1>1 DEF Sorted
<1>12. SentInOrder'
  <2> SUFFICES ASSUME NEW i \in DOMAIN sent', NEW j \in DOMAIN sent', i < j PROVE sent'[i] < sent'[j]
    BY DEF SentInOrder
  <2>1. CASE j \in DOMAIN sent
    BY <1>9, <2>1 DEF Sorted, SentInOrder
  <2>2. CASE j = Len(sent) + 1
    <3>1. i \in DOMAIN sent /\ sent[i] \in Sent
      BY <1>9, <2>2 DEF Sent
    <3> QED
      BY <1>9, <1>11, <2>2, <3>1
  <2> QED
    BY <1>9, <2>1, <2>2
<1>13. \A one \in Sent' : \A other \in clear_slide_parts' \ Sent' : one < other
  BY <1>1, <1>2, <1>3, <1>10, <1>11 DEF Sorted
<1>14. Sorted'
  BY <1>2, <1>10, <1>12, <1>13 DEF Sorted
<1> QED
  BY <1>4, <1>6, <1>8, <1>14

(* The other steps of the handler only go on. *)
LEMMA StepOther == IInv /\ (Search \/ Prepared \/ EndOfStream) => IInv'
<1> SUFFICES ASSUME IInv, Search \/ Prepared \/ EndOfStream PROVE IInv'
  OBVIOUS
<1> USE DEF IInv
<1>1. UNCHANGED <<enc_parts, damaged, n_threads, pool_index, offset, enc_slides, clear_slides, task,
                 clear_slide_parts, sent>>
  BY DEF Search, Prepared, EndOfStream, input, tasks
<1>2. \A i \in Pools : Share(i)' = Share(i) /\ Returned(i)' = Returned(i)
  BY <1>1 DEF Share, Returned
<1>3. /\ pc' \in {"error", "prepare", "join", "end"}
      /\ pc' = "join" => pool_index = n_threads
      /\ pc' = "end" => pc = "stream"
      /\ pc # "error"
      /\ pc' # "end" => pc \notin {"stream", "end"}
  BY DEF Search, Prepared, EndOfStream
<1>4. TypeOK' /\ Counted' /\ Decrypted' /\ Below'
  BY <1>1, <1>2, <1>3 DEF TypeOK, Counted, Shared, N, Decrypted, Below
<1>5. pc = "stream" => clear_slide_parts' = UNION {Returned(i)' : i \in Pools}
  BY <1>1 DEF Returned, Waited
<1>6. Waited'
  BY <1>1, <1>3, <1>5 DEF Waited
<1>7. Sorted'
  BY <1>1 DEF Sorted, Sent, SentInOrder
<1> QED
  BY <1>4, <1>6, <1>7

LEMMA InvStep == IInv /\ [Next]_vars => IInv'
<1> SUFFICES ASSUME IInv, [Next]_vars PROVE IInv'
  OBVIOUS
<1>1. CASE UNCHANGED vars
  <2> USE DEF IInv, vars, input, tasks
  <2>1. \A i \in Pools : Share(i)' = Share(i)
    BY <1>1 DEF Share
  <2>2. TypeOK' /\ Counted' /\ Decrypted' /\ Below'
    BY <1>1, <2>1 DEF TypeOK, Counted, Shared, N, Decrypted, Below
  <2>3. UNION {Returned(i)' : i \in Pools} = UNION {Returned(i) : i \in Pools}
    BY <1>1 DEF Returned
  <2>4. Waited' /\ Sorted'
    BY <1>1, <2>3 DEF Waited, Sorted, Sent, SentInOrder
  <2> QED
    BY <2>2, <2>4
<1>2. ASSUME NEW i \in Pools, Task(i) PROVE IInv'
  BY <1>2, StepTask
<1> QED
  BY <1>1, <1>2, StepPrepare, StepJoin, StepPoll, StepOther DEF Next, Handler

-----------------------------------------------------------------------------
(* The theorems *)

(* The inductive invariant holds in every execution. *)
THEOREM InvHolds == Spec => []IInv
  BY InvInit, InvStep, PTL DEF Spec

(* The variables keep their types. *)
THEOREM TypeCorrect == Spec => []TypeOK
<1>1. IInv => TypeOK
  BY DEF IInv
<1> QED
  BY <1>1, InvHolds, PTL

(* Past the preparation the parts are the indexes up to their number. *)
LEMMA InvGap == IInv => (pc \in {"join", "stream", "end"} => enc_parts = 0 .. (offset - 1) /\ offset = N)
<1> SUFFICES ASSUME IInv, pc \in {"join", "stream", "end"} PROVE enc_parts = 0 .. (offset - 1) /\ offset = N
  OBVIOUS
<1>1. offset = N
  BY AllShared DEF IInv, Waited, Counted
<1> QED
  BY <1>1, AllParts DEF IInv

(***************************************************************************)
(* The parts that a reply is made of are a beginning of the file, however  *)
(* they are shared out: a file that misses a part before another one is    *)
(* refused.  One that misses its last parts is not (parallel_decrypt has   *)
(* nothing to compare their number with).                                  *)
(***************************************************************************)
THEOREM GapsAreRefused == Spec => []GapIsRefused
<1>1. IInv => GapIsRefused
  <2> SUFFICES ASSUME IInv, pc \in {"join", "stream", "end"}, NEW part \in enc_parts
               PROVE  0 .. part \subseteq enc_parts
    BY DEF GapIsRefused
  <2>1. enc_parts = 0 .. (offset - 1) /\ offset \in Nat
    BY InvGap DEF IInv, TypeOK
  <2> QED
    BY <2>1
<1> QED
  BY <1>1, InvHolds, PTL

(* The slices share out the parts: each has one task, and none is left over. *)
THEOREM SlidesShare == Spec => []SlidesShareTheParts
<1>1. IInv => UNION {Share(i) : i \in Pools} = 0 .. (offset - 1)
  BY DEF IInv, Below
<1>2. IInv => SlidesShareTheParts
  BY <1>1, InvGap DEF IInv, Below, SlidesShareTheParts
<1> QED
  BY <1>2, InvHolds, PTL

(* The parts leave in the order of the file, each once. *)
THEOREM OrderIsKept == Spec => []SentInOrder
<1>1. IInv => SentInOrder
  BY DEF IInv, Sorted
<1> QED
  BY <1>1, InvHolds, PTL

(* What a stream misses are whole slices, of tasks that failed. *)
THEOREM OnlyFailuresAreMissing == Spec => []OnlyFailedSlidesAreMissing
<1>1. IInv => OnlyFailedSlidesAreMissing
  <2> SUFFICES ASSUME IInv, pc \in {"stream", "end"}
               PROVE  clear_slide_parts = enc_parts \ UNION {Share(i) : i \in {p \in Pools : task[p] = "err"}}
    BY DEF OnlyFailedSlidesAreMissing
  <2>1. enc_parts = 0 .. (offset - 1)
    BY InvGap
  <2>2. \A part : part \in clear_slide_parts <=> \E i \in Pools : part \in Returned(i)
    BY DEF IInv, Waited
  <2>3. \A part : part \in enc_parts <=> \E i \in Pools : part \in Share(i)
    BY <2>1 DEF IInv, Below
  <2>4. \A i \in Pools : Returned(i) = IF task[i] = "err" THEN {} ELSE Share(i)
    BY DEF IInv, TypeOK, Waited, Decrypted, Returned, Share
  <2>5. \A i, j \in Pools : i # j => Share(i) \cap Share(j) = {}
    BY DEF IInv, Below
  <2>6. \A part : part \in clear_slide_parts
                  <=> part \in enc_parts /\ ~(\E i \in Pools : task[i] = "err" /\ part \in Share(i))
    BY <2>2, <2>3, <2>4, <2>5
  <2> QED
    BY <2>6
<1> QED
  BY <1>1, InvHolds, PTL
=============================================================================
