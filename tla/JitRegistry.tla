----------------------------- MODULE JitRegistry -----------------------------
(***************************************************************************)
(* The registry of `jit(...)` callables (prima-runtime, jit.rs).  A handle *)
(* is a number; the process-wide map from handles to callables keeps at    *)
(* most Capacity entries and evicts the smallest handle first.  A call     *)
(* clones the entry's Arc under the lock, runs the first form the callable *)
(* has without the lock, and drops the clone when it returns.              *)
(*                                                                         *)
(* The evaluating thread Main registers and calls; while it waits for a    *)
(* `parfor`, rayon threads run the chunks, and the value expressions of    *)
(* the loop, whose purity nothing checks, call handles and may register    *)
(* symbolic expressions of their own.  The interpreted form of a callable  *)
(* holds the Rc of an environment, which only Main may touch: it must be   *)
(* neither run nor dropped for the last time anywhere else.                *)
(***************************************************************************)
EXTENDS Integers, Sequences, SequencesExt, FiniteSets

CONSTANTS
  Main,         \* the evaluating thread
  Workers,      \* the rayon threads
  Capacity,     \* REGISTRY_CAPACITY
  Forms,        \* what Main registers: sets of forms
  TaskForms,    \* what the value expressions of a `parfor` can register
  MaxIds,       \* bound: registrations of the whole process
  MaxChunks,    \* bound: chunks of a `parfor`
  MaxDepth      \* bound: calls inside calls

ASSUME JitAssumption ==
  /\ Main \notin Workers /\ Capacity \in Nat \ {0}
  /\ MaxIds \in Nat /\ MaxChunks \in Nat /\ MaxDepth \in Nat
  /\ TaskForms \subseteq Forms

Threads == Workers \union {Main}

Handles == 1..MaxIds

VARIABLES
  nextId,    \* NEXT_ID
  callable,  \* handle -> the forms registered under it, and the thread
  entries,   \* the handles in the map
  taken,     \* thread -> the handle `register` has taken and not inserted yet
  calls,     \* thread -> its calls under way: the Arc held and the form run
  inTask,    \* thread -> PARFOR_TASK
  chunks,    \* chunks of the `parfor` no thread has started
  waiting,   \* Main is inside a `parfor`
  missed,    \* [handle, newer]: lookups that found nothing
  freed      \* [handle, thread]: where the last Arc of a callable was dropped

vars == <<nextId, callable, entries, taken, calls, inTask, chunks, waiting, missed, freed>>

Init ==
  /\ nextId = 1
  /\ callable = <<>>
  /\ entries = {}
  /\ taken = [t \in Threads |-> 0]
  /\ calls = [t \in Threads |-> <<>>]
  /\ inTask = [t \in Threads |-> FALSE]
  /\ chunks = 0
  /\ waiting = FALSE
  /\ missed = {}
  /\ freed = {}

(***************************************************************************)
(* Main is blocked while a `parfor` runs; a rayon thread evaluates only    *)
(* inside a chunk.  A thread evaluates again inside the body of an         *)
(* interpreted callable, and nowhere else inside a call.                   *)
(***************************************************************************)
Blocked(t) == t = Main /\ waiting

Evaluating(t) ==
  /\ ~ Blocked(t)
  /\ t = Main \/ inTask[t]
  /\ taken[t] = 0
  /\ calls[t] # <<>> => Last(calls[t]).form = "fallback"

Held(stacks) == UNION {{stacks[t][i].id : i \in DOMAIN stacks[t]} : t \in Threads}

(***************************************************************************)
(* `register`: the handle is taken outside the lock; under the lock the    *)
(* callable is inserted and the oldest entries are removed, each with the  *)
(* map's Arc of it, which is the last one unless a call still holds one.   *)
(***************************************************************************)
CanRegister(t) == IF t = Main THEN Forms ELSE TaskForms

TakeId(t, forms) ==
  /\ Evaluating(t)
  /\ nextId <= MaxIds
  /\ forms \in CanRegister(t)
  /\ taken' = [taken EXCEPT ![t] = nextId]
  /\ callable' = Append(callable, [forms |-> forms, by |-> t])
  /\ nextId' = nextId + 1
  /\ UNCHANGED <<entries, calls, inTask, chunks, waiting, missed, freed>>

(* A map that counts the new entry before it makes room. *)
NewestOneShort(ids) == {id \in ids : Cardinality({n \in ids : n > id}) < Capacity - 1}

(* `while entries.len() > REGISTRY_CAPACITY`: what it leaves of ids. *)
Newest(ids) == {id \in ids : Cardinality({n \in ids : n > id}) < Capacity}

Insert(t) ==
  /\ taken[t] # 0
  /\ LET full == entries \union {taken[t]}
         kept == Newest(full)
     IN /\ entries' = kept
        /\ freed' = freed \union
             {[id |-> id, thread |-> t] : id \in full \ (kept \union Held(calls))}
  /\ taken' = [taken EXCEPT ![t] = 0]
  /\ UNCHANGED <<nextId, callable, calls, inTask, chunks, waiting, missed>>

(***************************************************************************)
(* `call`: `lookup`, then the checks of the arguments, which may fail, and *)
(* the first form there is.  A handle that is not in the map is an error.  *)
(***************************************************************************)
Registered == (1..(nextId - 1)) \ {taken[t] : t \in Threads}

Lookup(t, id) ==
  /\ Evaluating(t)
  /\ id \in Registered
  /\ Len(calls[t]) < MaxDepth
  /\ IF id \in entries
     THEN /\ calls' = [calls EXCEPT ![t] = Append(@, [id |-> id, form |-> "none"])]
          /\ UNCHANGED missed
     ELSE /\ missed' = missed \union {[id |-> id, newer |-> nextId - 1 - id]}
          /\ UNCHANGED calls
  /\ UNCHANGED <<nextId, callable, entries, taken, inTask, chunks, waiting, freed>>

Order == <<"compiled", "tape", "expressions", "fallback">>

FirstForm(forms) == Order[CHOOSE i \in DOMAIN Order :
                            /\ Order[i] \in forms
                            /\ \A j \in 1..(i - 1) : Order[j] \notin forms]

RefusedNowhere(t, form) == FALSE

(* The interpreted form is refused on a thread that runs a chunk. *)
Refused(t, form) == form = "fallback" /\ inTask[t]

Run(t) ==
  /\ ~ Blocked(t)
  /\ calls[t] # <<>> /\ Last(calls[t]).form = "none"
  /\ LET form == FirstForm(callable[Last(calls[t]).id].forms)
     IN /\ ~ Refused(t, form)
        /\ calls' = [calls EXCEPT ![t][Len(calls[t])].form = form]
  /\ UNCHANGED <<nextId, callable, entries, taken, inTask, chunks, waiting, missed, freed>>

(* The call ends, with its value or with an error, and drops its Arc. *)
Return(t) ==
  /\ ~ Blocked(t)
  /\ taken[t] = 0
  /\ calls[t] # <<>>
  /\ calls' = [calls EXCEPT ![t] = Front(@)]
  /\ freed' = freed \union
       {[id |-> id, thread |-> t] : id \in Held(calls) \ (Held(calls') \union entries)}
  /\ UNCHANGED <<nextId, callable, entries, taken, inTask, chunks, waiting, missed>>

(***************************************************************************)
(* `parfor`: Main waits until every chunk has been run.  A chunk marks its *)
(* thread with a ParforTaskGuard; an error ends the chunk early and the    *)
(* other chunks still run.                                                 *)
(***************************************************************************)
StartParfor ==
  /\ Evaluating(Main)
  /\ waiting' = TRUE
  /\ chunks' \in 1..MaxChunks
  /\ UNCHANGED <<nextId, callable, entries, taken, calls, inTask, missed, freed>>

StartChunk(t) ==
  /\ waiting /\ chunks > 0 /\ ~ inTask[t]
  /\ chunks' = chunks - 1
  /\ inTask' = [inTask EXCEPT ![t] = TRUE]
  /\ UNCHANGED <<nextId, callable, entries, taken, calls, waiting, missed, freed>>

EndChunk(t) ==
  /\ inTask[t] /\ taken[t] = 0 /\ calls[t] = <<>>
  /\ inTask' = [inTask EXCEPT ![t] = FALSE]
  /\ UNCHANGED <<nextId, callable, entries, taken, calls, chunks, waiting, missed, freed>>

(* A loop that does not wait for its last chunk. *)
EndParforEarly ==
  /\ waiting /\ chunks = 0
  /\ waiting' = FALSE
  /\ UNCHANGED <<nextId, callable, entries, taken, calls, inTask, chunks, missed, freed>>

EndParfor ==
  /\ waiting /\ chunks = 0 /\ \A t \in Workers : ~ inTask[t]
  /\ waiting' = FALSE
  /\ UNCHANGED <<nextId, callable, entries, taken, calls, inTask, chunks, missed, freed>>

Next ==
  \/ \E t \in Threads : \/ \E forms \in Forms : TakeId(t, forms)
                        \/ Insert(t)
                        \/ \E id \in Handles : Lookup(t, id)
                        \/ Run(t)
                        \/ Return(t)
  \/ \E t \in Workers : StartChunk(t) \/ EndChunk(t)
  \/ StartParfor
  \/ EndParfor

Spec == Init /\ [][Next]_vars

-----------------------------------------------------------------------------
(* A thread that runs an interpreted callable walks the environment of the *)
(* evaluating thread, whose Rc counts and RefCell no lock protects: only   *)
(* the evaluating thread ever does, whatever the tasks call (jit.rs,       *)
(* ParforTaskGuard and the refusal in `call`).                             *)
FallbackOnlyOnEvaluator ==
  \A t \in Workers : \A i \in DOMAIN calls[t] : calls[t][i].form # "fallback"

(* A handle expires only by age: when `lookup` finds nothing, at least     *)
(* Capacity callables were registered after it, although threads insert    *)
(* in another order than they take their handles (jit.rs, `register`).     *)
MissMeansExpired == \A m \in missed : m.newer >= Capacity

(* The environment in a callable may be dropped only where it lives.  A    *)
(* task frees a callable that holds one only if tasks register: looking    *)
(* handles up and calling them, while Main registers and evicts between    *)
(* the loops, never leaves a task with the last Arc.                       *)
HasEnvironment(id) == "fallback" \in callable[id].forms

TasksRegister == \E id \in DOMAIN callable : callable[id].by # Main

LastReferenceUnlessTasksRegister ==
  \A f \in freed : f.thread # Main /\ HasEnvironment(f.id) => TasksRegister

(* What the SAFETY comment of the registry says without the condition: "an *)
(* `Arc` dropped on a worker thread is never the last reference".          *)
LastReferenceOnEvaluator ==
  \A f \in freed : HasEnvironment(f.id) => f.thread = Main
=============================================================================
