------------------------------ MODULE Download ------------------------------
(***************************************************************************)
(* FileDelegate::download of the file-server, once search_parts has its    *)
(* rows: parallel_decrypt shares the parts out to tasks, one slice of      *)
(* consecutive indexes each, waits for all of them, and PartsStream sends  *)
(* what they returned in the order of the indexes.                         *)
(*                                                                         *)
(* The content of a part is its index.  A damaged part is one that         *)
(* decrypt_vec refuses; a task may also panic or be cancelled.             *)
(***************************************************************************)
EXTENDS Integers, FiniteSets, Sequences

CONSTANTS
  MaxThreads,  \* bound: num_cpus::get() - 1
  MaxParts     \* bound: the parts of one file

ASSUME ThreadsAssumption == MaxThreads \in Nat \ {0}
ASSUME PartsAssumption == MaxParts \in Nat

VARIABLES
  pc,                 \* what the handler does
  enc_parts,          \* the indexes of the parts search_parts found
  damaged,            \* those that cannot be decrypted
  n_threads,          \* max(1, num_cpus::get() - 1)
  pool_index,         \* the next slice to prepare
  offset,             \* its first index
  enc_slides,         \* of each task: the parts it still has to decrypt
  clear_slides,       \* of each task: the parts it has decrypted
  task,               \* of each task: how far it is
  clear_slide_parts,  \* the parts the tasks returned, all together
  sent                \* the parts the stream has sent, in order

input == <<enc_parts, damaged, n_threads>>
tasks == <<enc_slides, clear_slides, task>>
vars == <<pc, input, pool_index, offset, tasks, clear_slide_parts, sent>>

Indexes == 0 .. (MaxParts - 1)
Pools   == 0 .. (MaxThreads - 1)

TypeOK ==
  /\ pc \in {"search", "prepare", "join", "stream", "error", "end"}
  /\ enc_parts \subseteq Indexes
  /\ damaged \subseteq enc_parts
  /\ n_threads \in 1 .. MaxThreads
  /\ pool_index \in 0 .. n_threads
  /\ offset \in 0 .. MaxParts
  /\ enc_slides \in [Pools -> SUBSET Indexes]
  /\ clear_slides \in [Pools -> SUBSET Indexes]
  /\ task \in [Pools -> {"none", "running", "ok", "err"}]
  /\ clear_slide_parts \subseteq Indexes
  /\ sent \in Seq(Indexes)

Init ==
  /\ pc = "search"
  /\ enc_parts \in SUBSET Indexes
  /\ damaged \in SUBSET enc_parts
  /\ n_threads \in 1 .. MaxThreads
  /\ pool_index = 0
  /\ offset = 0
  /\ enc_slides = [i \in Pools |-> {}]
  /\ clear_slides = [i \in Pools |-> {}]
  /\ task = [i \in Pools |-> "none"]
  /\ clear_slide_parts = {}
  /\ sent = <<>>

-----------------------------------------------------------------------------
(* search_parts, and the shares *)

(* Without rows the media type is empty, which is not a media type. *)
Search ==
  /\ pc = "search"
  /\ pc' = IF enc_parts = {} THEN "error" ELSE "prepare"
  /\ UNCHANGED <<input, pool_index, offset, tasks, clear_slide_parts, sent>>

(* compute_pool_size: the first `number_of_parts % number_of_threads` take one more. *)
PoolSize(number_of_threads, number_of_parts) ==
  [i \in 0 .. (number_of_threads - 1) |->
    number_of_parts \div number_of_threads
      + (IF i < number_of_parts % number_of_threads THEN 1 ELSE 0)]

(* The slice of the next task. *)
Slide ==
  offset .. (offset + PoolSize(n_threads, Cardinality(enc_parts))[pool_index] - 1)

(* A defect: every task starts at the first part. *)
PrepareSlide_SameOffset ==
  /\ pc = "prepare"
  /\ pool_index < n_threads
  /\ \/ /\ Slide \subseteq enc_parts
        /\ enc_slides' = [enc_slides EXCEPT ![pool_index] = Slide]
        /\ task' = [task EXCEPT ![pool_index] = IF Slide = {} THEN "none" ELSE "running"]
        /\ UNCHANGED <<pc, offset>>
     \/ Slide # {} /\ pc' = "error" /\ UNCHANGED <<enc_slides, task, offset>>
  /\ pool_index' = pool_index + 1
  /\ UNCHANGED <<input, clear_slides, clear_slide_parts, sent>>

(***************************************************************************)
(* The next slice goes to a task of its own, which starts at once.  A      *)
(* missing index ("Wrong index"), or a part that is not in base64, ends    *)
(* the request; the tasks spawned before keep running and nobody waits for *)
(* them.  An empty slice gets no task.                                     *)
(***************************************************************************)
PrepareSlide ==
  /\ pc = "prepare"
  /\ pool_index < n_threads
  /\ \/ /\ Slide \subseteq enc_parts
        /\ enc_slides' = [enc_slides EXCEPT ![pool_index] = Slide]
        /\ task' = [task EXCEPT ![pool_index] = IF Slide = {} THEN "none" ELSE "running"]
        /\ offset' = offset + Cardinality(Slide)
        /\ UNCHANGED pc
     \/ Slide # {} /\ pc' = "error" /\ UNCHANGED <<enc_slides, task, offset>>
  /\ pool_index' = pool_index + 1
  /\ UNCHANGED <<input, clear_slides, clear_slide_parts, sent>>

(* All the tasks are spawned: join_all waits for them. *)
Prepared ==
  /\ pc = "prepare"
  /\ pool_index = n_threads
  /\ pc' = "join"
  /\ UNCHANGED <<input, pool_index, offset, tasks, clear_slide_parts, sent>>

-----------------------------------------------------------------------------
(* decrypt_slide_of_parts: the tasks, all at the same time *)

(* A task takes its parts in any order (a HashMap) and stops at an error. *)
Decrypt(i) ==
  /\ task[i] = "running"
  /\ \E part \in enc_slides[i] :
       IF part \in damaged
       THEN task' = [task EXCEPT ![i] = "err"] /\ UNCHANGED <<enc_slides, clear_slides>>
       ELSE /\ enc_slides' = [enc_slides EXCEPT ![i] = @ \ {part}]
            /\ clear_slides' = [clear_slides EXCEPT ![i] = @ \cup {part}]
            /\ UNCHANGED task
  /\ UNCHANGED <<pc, input, pool_index, offset, clear_slide_parts, sent>>

TaskReturns(i) ==
  /\ task[i] = "running"
  /\ enc_slides[i] = {}
  /\ task' = [task EXCEPT ![i] = "ok"]
  /\ UNCHANGED <<pc, input, pool_index, offset, enc_slides, clear_slides,
                 clear_slide_parts, sent>>

(* The task panics: a JoinError. *)
TaskPanics(i) ==
  /\ task[i] = "running"
  /\ task' = [task EXCEPT ![i] = "err"]
  /\ UNCHANGED <<pc, input, pool_index, offset, enc_slides, clear_slides,
                 clear_slide_parts, sent>>

-----------------------------------------------------------------------------
(* join_all, then the stream *)

(* A defect: what a task decrypted before its error counts too. *)
Returned_EvenOnError(i) == clear_slides[i]

(* What one task contributes; an error is only logged. *)
Returned(i) == IF task[i] = "ok" THEN clear_slides[i] ELSE {}

(* A defect: the reply waits until every task has succeeded. *)
JoinAll_WaitsForSuccess ==
  /\ pc = "join"
  /\ \A i \in Pools : task[i] \in {"none", "ok"}
  /\ clear_slide_parts' = UNION {Returned(i) : i \in Pools}
  /\ pc' = "stream"
  /\ UNCHANGED <<input, pool_index, offset, tasks, sent>>

(* Every task has ended. *)
JoinAll ==
  /\ pc = "join"
  /\ \A i \in Pools : task[i] # "running"
  /\ clear_slide_parts' = UNION {Returned(i) : i \in Pools}
  /\ pc' = "stream"
  /\ UNCHANGED <<input, pool_index, offset, tasks, sent>>

Sent == {sent[i] : i \in DOMAIN sent}

(* A defect: the parts in the order the HashMap gives them. *)
PollNext_Unsorted ==
  /\ pc = "stream"
  /\ \E part \in clear_slide_parts \ Sent : sent' = Append(sent, part)
  /\ UNCHANGED <<pc, input, pool_index, offset, tasks, clear_slide_parts>>

(* PartsStream::poll_next: the parts, sorted by index, one at a time. *)
PollNext ==
  /\ pc = "stream"
  /\ \E part \in clear_slide_parts \ Sent :
       /\ \A other \in clear_slide_parts \ Sent : part <= other
       /\ sent' = Append(sent, part)
  /\ UNCHANGED <<pc, input, pool_index, offset, tasks, clear_slide_parts>>

EndOfStream ==
  /\ pc = "stream"
  /\ clear_slide_parts \subseteq Sent
  /\ pc' = "end"
  /\ UNCHANGED <<input, pool_index, offset, tasks, clear_slide_parts, sent>>

Task(i) == Decrypt(i) \/ TaskReturns(i) \/ TaskPanics(i)

Handler ==
  \/ Search
  \/ PrepareSlide
  \/ Prepared
  \/ JoinAll
  \/ PollNext
  \/ EndOfStream

Next == Handler \/ \E i \in Pools : Task(i)

Spec == Init /\ [][Next]_vars

(***************************************************************************)
(* The runtime polls the handler and the tasks; the client that asked for  *)
(* the file reads it to its end.                                           *)
(***************************************************************************)
Fairness == WF_vars(Handler) /\ \A i \in Pools : WF_vars(Task(i))

FairSpec == Spec /\ Fairness

-----------------------------------------------------------------------------
(* Properties *)

(* The slice a task was given. *)
Share(i) == enc_slides[i] \cup clear_slides[i]

(***************************************************************************)
(* The slices share out the parts: two tasks never decrypt the same part,  *)
(* and together the slices prepared so far are the parts before offset,    *)
(* all of them once the tasks are waited for.                              *)
(***************************************************************************)
SlidesShareTheParts ==
  /\ \A i, j \in Pools : i # j => Share(i) \cap Share(j) = {}
  /\ UNION {Share(i) : i \in Pools} = 0 .. (offset - 1)
  /\ pc \in {"join", "stream", "end"} => 0 .. (offset - 1) = enc_parts

(***************************************************************************)
(* A part that is missing before another one ends the request before any   *)
(* byte of the file is sent: the parts that are decrypted for a reply are  *)
(* a beginning of the file.  It may be less than the file: the parts are   *)
(* counted among themselves and not against total_part, and the loss of    *)
(* the last ones goes unnoticed.                                           *)
(***************************************************************************)
GapIsRefused ==
  pc \in {"join", "stream", "end"} => \A part \in enc_parts : 0 .. part \subseteq enc_parts

(***************************************************************************)
(* The stream gives the bytes in the order of the file, each part once,    *)
(* although the tasks end in any order.                                    *)
(***************************************************************************)
SentInOrder ==
  \A i, j \in DOMAIN sent : i < j => sent[i] < sent[j]

(***************************************************************************)
(* The stream only starts when every task has ended, and what it misses is *)
(* the whole slice of a task that failed, never a part of a slice.         *)
(***************************************************************************)
OnlyFailedSlidesAreMissing ==
  pc \in {"stream", "end"} =>
    clear_slide_parts = enc_parts \ UNION {Share(i) : i \in {p \in Pools : task[p] = "err"}}

(* A download ends with a reply, however its tasks end. *)
EveryDownloadEnds == <>(pc \in {"error", "end"})
=============================================================================
