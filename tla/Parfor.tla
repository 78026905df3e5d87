-------------------------------- MODULE Parfor --------------------------------
(***************************************************************************)
(* `parfor` (prima-runtime, eval/stmt.rs eval_parfor): the body is checked,*)
(* the arrays it writes are snapshotted, the indices are split in chunks,  *)
(* one task per chunk computes its writes on a rayon thread with an        *)
(* evaluator and an environment of its own, and the evaluating thread      *)
(* merges the writes in index order and binds the arrays again.            *)
(*                                                                         *)
(* A body is a sequence of steps.  A step assigns ("set") or adds ("add")  *)
(* to a slot, or evaluates a call ("eval").  Its slot and the slot it reads*)
(* are affine in the loop variable; the value is the loop variable plus    *)
(* what is read, through a function when the step calls one.  Slots are    *)
(* numbered from 0, as in the code.                                        *)
(***************************************************************************)
EXTENDS Integers, Sequences, SequencesExt, FiniteSets

CONSTANTS
  Initial,     \* array name -> its elements when the loop starts
  Bodies,      \* loop bodies
  Ranges,      \* [start, end, step] of the loop
  NumThreads,  \* rayon::current_num_threads()
  MaxIndex,    \* the largest i64; the smallest is -MaxIndex
  MaxElems     \* MAX_RANGE_ELEMS

Arrays == DOMAIN Initial

Nothing == [arr |-> "none", mul |-> 0, add |-> 0]

Refs == [arr : STRING, mul : Int, add : Int]

Steps == [kind : {"set", "add", "eval", "other"}, at : Refs, from : Refs,
          call : {"none", "builtin", "user", "host"}]

Indexes == -MaxIndex..MaxIndex

ASSUME ParforAssumption ==
  /\ Initial \in [Arrays -> Seq(Int)]
  /\ \A b \in Bodies : b \in Seq(Steps)
  /\ \A r \in Ranges : r \in [start : Indexes, end : Indexes, step : Indexes]
  /\ NumThreads \in Nat \ {0} /\ MaxIndex \in Nat /\ MaxElems \in Nat

VARIABLES
  body, range,  \* the loop
  arrays,       \* the bindings of the arrays in the enclosing scope
  chunks,       \* the chunks of the index sequence, one task each
  next,         \* task -> position in its chunk
  writes,       \* task -> the writes it has computed
  status,       \* task -> "running", "ok" or what stopped it
  cancelled,    \* the host has asked for an interruption
  phase,        \* "start", "tasks", "done" or "failed"
  why           \* the error of a failed loop

vars == <<body, range, arrays, chunks, next, writes, status, cancelled, phase, why>>

tasks == <<chunks, next, writes, status>>

Slot(r, i) == r.mul * i + r.add

InBounds(r, i) == Slot(r, i) \in 0..(Len(Initial[r.arr]) - 1)

(* A read may count from the end: A[-1] is the last element. *)
ReadSlot(r, i) ==
  IF Slot(r, i) < 0 THEN Slot(r, i) + Len(Initial[r.arr]) ELSE Slot(r, i)

CanRead(r, i) == r.arr \in Arrays /\ ReadSlot(r, i) \in 0..(Len(Initial[r.arr]) - 1)

At(store, r, i) == store[r.arr][ReadSlot(r, i) + 1]

Assigns(s) == s.kind \in {"set", "add"}

Targets(b) == {b[j].at.arr : j \in {k \in 1..Len(b) : Assigns(b[k])}}

(* check_parfor_body and expr_is_pure_call: only slot assignments, and     *)
(* statements that call a pure builtin or a mathematical function.         *)
Accepted(b) ==
  \A j \in 1..Len(b) :
    \/ Assigns(b[j])
    \/ b[j].kind = "eval" /\ b[j].call \in {"builtin", "user"}

(* Mutant: the closed form rounds down. *)
CountFloor(r) ==
  IF r.step > 0
  THEN IF r.start >= r.end THEN 0 ELSE (r.end - r.start) \div r.step
  ELSE IF r.start <= r.end THEN 0 ELSE (r.start - r.end) \div (-r.step)

(* The closed-form iteration count, checked against MAX_RANGE_ELEMS. *)
Count(r) ==
  IF r.step > 0
  THEN IF r.start >= r.end THEN 0 ELSE (r.end - r.start - 1) \div r.step + 1
  ELSE IF r.start <= r.end THEN 0 ELSE (r.start - r.end - 1) \div (-r.step) + 1

(* The indices the materializing loop pushes, in order. *)
Indices(r) ==
  LET inside == {k \in 0..(2 * MaxIndex) :
                   IF r.step > 0 THEN r.start + k * r.step < r.end
                                 ELSE r.start + k * r.step > r.end}
  IN  [k \in 1..Cardinality(inside) |-> r.start + (k - 1) * r.step]

(* It adds the step once more after the last index (checked_add). *)
IndexOverflows(r) ==
  LET n == Len(Indices(r))
  IN  n > 0 /\ r.start + n * r.step \notin Indexes

(* Mutant: whole chunks only, the remainder is left out. *)
NumChunksFloor(n, len) == n \div len

ChunkLen(n) ==
  LET atLeast1(k) == IF k = 0 THEN 1 ELSE k
  IN  atLeast1(atLeast1(n) \div NumThreads)

NumChunks(n, len) == (n + len - 1) \div len

(* Mutant: an empty piece is left at the end. *)
ChunksOneMore(s) ==
  LET len == ChunkLen(Len(s))
  IN  [c \in 1..(NumChunks(Len(s), len) + 1) |->
         SubSeq(s, (c - 1) * len + 1, IF c * len <= Len(s) THEN c * len ELSE Len(s))]

(* par_chunks: consecutive pieces, the last one possibly shorter. *)
Chunks(s) ==
  LET len == ChunkLen(Len(s))
  IN  [c \in 1..NumChunks(Len(s), len) |->
         SubSeq(s, (c - 1) * len + 1, IF c * len <= Len(s) THEN c * len ELSE Len(s))]

(* What a task's environment can call: builtins only.  A name bound to a   *)
(* function of the enclosing scope is not among the values it is given.    *)
Callable(s) == s.call \in {"none", "builtin"}

(* The value of a step at index i, on the elements in `store`. *)
Value(store, s, i) == IF s.from = Nothing THEN i ELSE i + At(store, s.from, i)

(* A task fails on a step: it calls an unknown function, reads an unknown  *)
(* name or out of bounds, has a negative slot, or adds to a slot that is   *)
(* not there.                                                              *)
Fails(s, i) ==
  \/ ~Callable(s)
  \/ s.from # Nothing /\ ~CanRead(s.from, i)
  \/ Assigns(s) /\ Slot(s.at, i) < 0
  \/ s.kind = "add" /\ ~InBounds(s.at, i)

(* The write of a step, read from the snapshot of the arrays. *)
WriteOf(s, i) ==
  [arr |-> s.at.arr, slot |-> Slot(s.at, i),
   val |-> IF s.kind = "add" THEN At(Initial, s.at, i) + Value(Initial, s, i)
                             ELSE Value(Initial, s, i)]

StepWrites(s, i) == IF Assigns(s) THEN <<WriteOf(s, i)>> ELSE <<>>

(* The writes of the whole body at index i. *)
IterationWrites(i) == FlattenSeq([j \in 1..Len(body) |-> StepWrites(body[j], i)])

Init ==
  /\ body \in Bodies /\ range \in Ranges
  /\ arrays = Initial
  /\ chunks = <<>> /\ next = <<>> /\ writes = <<>> /\ status = <<>>
  /\ cancelled = FALSE
  /\ phase = "start"
  /\ why = "none"
-----------------------------------------------------------------------------
(* The loop is refused before any task starts, by the first of the checks  *)
(* that fails.                                                             *)
Refusal ==
  CASE range.step = 0 -> "zero step"
    [] range.step # 0 /\ ~Accepted(body) -> "E0082"
    [] range.step # 0 /\ Accepted(body) /\ ~(Targets(body) \subseteq Arrays) -> "not an array"
    [] OTHER -> IF Count(range) > MaxElems \/ IndexOverflows(range) THEN "overflow"
                ELSE IF cancelled THEN "interrupted" ELSE "none"

(* The prologue of eval_parfor, up to the rayon dispatch. *)
Start ==
  /\ phase = "start"
  /\ why' = Refusal
  /\ IF Refusal # "none"
     THEN /\ phase' = "failed"
          /\ UNCHANGED tasks
     ELSE /\ phase' = "tasks"
          /\ chunks' = Chunks(Indices(range))
          /\ next' = [c \in DOMAIN chunks' |-> 1]
          /\ writes' = [c \in DOMAIN chunks' |-> <<>>]
          /\ status' = [c \in DOMAIN chunks' |-> "running"]
  /\ UNCHANGED <<body, range, arrays, cancelled>>

Active(c) ==
  /\ phase = "tasks" /\ status[c] = "running"

(* One index of a task's chunk: the body's steps in order, the first       *)
(* failure ends the task.                                                  *)
Iterate(c) ==
  /\ Active(c) /\ next[c] <= Len(chunks[c]) /\ ~cancelled
  /\ LET i == chunks[c][next[c]]
     IN  IF \E j \in 1..Len(body) : Fails(body[j], i)
         THEN /\ status' = [status EXCEPT ![c] = "error"]
              /\ UNCHANGED <<next, writes>>
         ELSE /\ writes' = [writes EXCEPT ![c] = @ \o IterationWrites(i)]
              /\ next' = [next EXCEPT ![c] = @ + 1]
              /\ UNCHANGED status
  /\ UNCHANGED <<body, range, arrays, chunks, cancelled, phase, why>>

(* Mutant: a task that sees the cancellation skips the index, and waits.   *)
InterruptedWaits(c) ==
  /\ Active(c) /\ next[c] <= Len(chunks[c]) /\ cancelled
  /\ UNCHANGED vars

(* A task sees the cancellation before its next index. *)
Interrupted(c) ==
  /\ Active(c) /\ next[c] <= Len(chunks[c]) /\ cancelled
  /\ status' = [status EXCEPT ![c] = "interrupted"]
  /\ UNCHANGED <<body, range, arrays, chunks, next, writes, cancelled, phase, why>>

TaskEnds(c) ==
  /\ Active(c) /\ next[c] > Len(chunks[c])
  /\ status' = [status EXCEPT ![c] = "ok"]
  /\ UNCHANGED <<body, range, arrays, chunks, next, writes, cancelled, phase, why>>

(* The host cancels the run. *)
Cancel ==
  /\ phase \in {"start", "tasks"} /\ ~cancelled
  /\ cancelled' = TRUE
  /\ UNCHANGED <<body, range, arrays, tasks, phase, why>>

Apply(store, w) == [store EXCEPT ![w.arr][w.slot + 1] = w.val]

(* The arrays after writes applied one by one. *)
Merged(store, ws) ==
  LET after[k \in 0..Len(ws)] == IF k = 0 THEN store ELSE Apply(after[k - 1], ws[k])
  IN  after[Len(ws)]

OutOfBounds(w) == w.slot >= Len(Initial[w.arr])

(* The writes of the tasks in chunk order. *)
AllWrites == FlattenSeq(writes)

(* The first task that did not end well, 0 if all did. *)
FirstStopped ==
  LET bad == {c \in DOMAIN status : status[c] # "ok"}
  IN  IF bad = {} THEN 0 ELSE CHOOSE c \in bad : \A d \in bad : c <= d

(* A write out of bounds in a chunk before the first stopped one is met    *)
(* first by the merge.                                                     *)
MergeError ==
  LET reached == IF FirstStopped = 0 THEN DOMAIN writes ELSE 1..(FirstStopped - 1)
  IN  IF \E c \in reached : \E k \in 1..Len(writes[c]) : OutOfBounds(writes[c][k])
      THEN "error"
      ELSE IF FirstStopped = 0 THEN "none" ELSE status[FirstStopped]

Joinable == phase = "tasks" /\ \A c \in DOMAIN status : status[c] # "running"

(* Mutant: the tasks' writes are merged last chunk first. *)
JoinReversed ==
  /\ Joinable
  /\ why' = MergeError
  /\ IF MergeError = "none"
     THEN /\ phase' = "done"
          /\ arrays' = Merged(Initial, FlattenSeq(Reverse(writes)))
     ELSE /\ phase' = "failed"
          /\ UNCHANGED arrays
  /\ UNCHANGED <<body, range, tasks, cancelled>>

(* All tasks have ended: merge their writes in order into the snapshot,    *)
(* and bind the arrays, or fail with the first error met.                  *)
Join ==
  /\ Joinable
  /\ why' = MergeError
  /\ IF MergeError = "none"
     THEN /\ phase' = "done"
          /\ arrays' = Merged(Initial, AllWrites)
     ELSE /\ phase' = "failed"
          /\ UNCHANGED arrays
  /\ UNCHANGED <<body, range, tasks, cancelled>>

Ended == phase \in {"done", "failed"} /\ UNCHANGED vars

Work == Start \/ Join \/ \E c \in DOMAIN chunks : Iterate(c) \/ Interrupted(c) \/ TaskEnds(c)

Next == Work \/ Cancel \/ Ended

Spec == Init /\ [][Next]_vars

(* The evaluating thread and the rayon pool keep running. *)
FairSpec == Spec /\ WF_vars(Work)
-----------------------------------------------------------------------------
Statuses == {"running", "ok", "error", "interrupted"}

(* Types of the loop's state. *)
TypeOK ==
  /\ body \in Bodies /\ range \in Ranges
  /\ DOMAIN arrays = Arrays
  /\ \A a \in Arrays : arrays[a] \in Seq(Int) /\ Len(arrays[a]) = Len(Initial[a])
  /\ chunks \in Seq(Seq(Int))
  /\ \A c \in DOMAIN chunks : chunks[c] # <<>>
  /\ DOMAIN next = DOMAIN chunks /\ DOMAIN writes = DOMAIN chunks
  /\ status \in [DOMAIN chunks -> Statuses]
  /\ \A c \in DOMAIN chunks : next[c] \in 1..(Len(chunks[c]) + 1)
  /\ cancelled \in BOOLEAN
  /\ phase \in {"start", "tasks", "done", "failed"}
  /\ why \in Statuses \cup {"none", "zero step", "E0082", "not an array", "overflow"}

(* The limit is checked on a closed form; it counts the indices exactly.   *)
CountIsExact == range.step # 0 => Count(range) = Len(Indices(range))

(* What the loop means, whatever the number of threads and their order:    *)
(* every slot takes the last write to it in index order, all values being  *)
(* read from the arrays as they were before the loop.                      *)
Order == {<<k, j>> : k \in 1..Len(Indices(range)), j \in 1..Len(body)}

Later(p, q) == p[1] > q[1] \/ (p[1] = q[1] /\ p[2] > q[2])

Hits(p, a, s) ==
  LET step == body[p[2]]
  IN  Assigns(step) /\ step.at.arr = a /\ Slot(step.at, Indices(range)[p[1]]) = s

Meaning ==
  [a \in Arrays |-> [n \in 1..Len(Initial[a]) |->
     LET ps == {p \in Order : Hits(p, a, n - 1)}
         last == CHOOSE p \in ps : \A q \in ps : p = q \/ Later(p, q)
     IN  IF ps = {} THEN Initial[a][n]
         ELSE WriteOf(body[last[2]], Indices(range)[last[1]]).val]]

HasError ==
  \E p \in Order :
    LET s == body[p[2]]
        i == Indices(range)[p[1]]
    IN  Fails(s, i) \/ (Assigns(s) /\ ~InBounds(s.at, i))

(* A loop that fails, or is interrupted, has written nothing at all. *)
AllOrNothing == phase # "done" => arrays = Initial

(* A loop that ends means that; one that fails has a step that fails, or   *)
(* was told to stop, and has changed nothing.                              *)
ResultIsMeaning ==
  /\ phase = "done" => ~HasError /\ arrays = Meaning
  /\ phase = "failed" /\ why = "error" => HasError
  /\ phase = "failed" /\ why = "interrupted" => cancelled
  /\ AllOrNothing

(* Two steps at two indices (or in one iteration) touch the same slot, one *)
(* of them writing it.                                                     *)
Clash(p, q) ==
  LET s == body[p[2]]  i == Indices(range)[p[1]]
      t == body[q[2]]  k == Indices(range)[q[1]]
  IN  /\ p # q /\ Assigns(s)
      /\ \/ Assigns(t) /\ s.at.arr = t.at.arr /\ Slot(s.at, i) = Slot(t.at, k)
         \/ t.from # Nothing /\ s.at.arr = t.from.arr /\ Slot(s.at, i) = ReadSlot(t.from, k)

Independent == \A p, q \in Order : ~Clash(p, q)

(* A step of the sequential loop, and its body at index i. *)
ForStep(store, s, i) ==
  IF ~Assigns(s) THEN store
  ELSE [store EXCEPT ![s.at.arr][Slot(s.at, i) + 1] =
          IF s.kind = "add" THEN @ + Value(store, s, i) ELSE Value(store, s, i)]

ForBody(store, i) ==
  LET after[j \in 0..Len(body)] == IF j = 0 THEN store ELSE ForStep(after[j - 1], body[j], i)
  IN  after[Len(body)]

(* The sequential `for` loop over the same body. *)
ForLoop ==
  LET is == Indices(range)
      after[k \in 0..Len(is)] == IF k = 0 THEN Initial ELSE ForBody(after[k - 1], is[k])
  IN  after[Len(is)]

(* When no two of its writes and reads touch one slot, a parfor computes   *)
(* what the sequential loop computes.                                      *)
IndependentIsSequential == phase = "done" /\ Independent => arrays = ForLoop

(* A loop that is started ends: the tasks are all joined. *)
LoopEnds == <>(phase \in {"done", "failed"})

(* SPECIFICATIONS 17.2: pure function calls are allowed in the body.  A    *)
(* call the check accepts can be made by a task.                           *)
AcceptedCallsRun ==
  \A c \in DOMAIN chunks :
    status[c] = "error" => \E j \in 1..Len(body) : Fails([body[j] EXCEPT !.call = "none"],
                                                         chunks[c][next[c]])
=============================================================================
