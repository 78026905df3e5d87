------------------------------- MODULE ExprPool -------------------------------
(***************************************************************************)
(* The process-wide hash-consing pool of the symbolic layer                *)
(* (prima-core, expr_pool.rs): `global` maps a content hash to the ids     *)
(* interned under it (a sharded concurrent map), `store` is the append-only*)
(* vector behind a read-write lock, `alloc` serialises allocation.         *)
(*                                                                         *)
(* A thread runs `intern`: find, then, under `alloc`, find again, append to*)
(* `store`, publish in `global`.  Each step below is one critical section  *)
(* of the code.  `find` keeps the read guard of the bucket's shard over    *)
(* the whole scan and takes the read lock of `store` for one comparison at *)
(* a time.                                                                 *)
(*                                                                         *)
(* Ids are positions of `store`, 1 for the code's ExprId(0).               *)
(***************************************************************************)
EXTENDS Naturals, Sequences, SequencesExt

CONSTANTS
  Threads,   \* the evaluating thread and the tasks of parallel loops
  None,      \* no lock holder
  Data,      \* contents (ExprData)
  Hashes,    \* content hashes
  Hash,      \* content -> its hash (hash_data)
  Equal,     \* the pairs ExprData's derived PartialEq finds equal
  Shards,    \* shards of the concurrent map
  Shard,     \* hash -> the shard its bucket lives in
  MaxCalls   \* bound: calls of intern per thread

ASSUME NoneAssumption  == None \notin Threads
ASSUME DataAssumption  == Data # {}
ASSUME HashAssumption  == Hash \in [Data -> Hashes] /\ Shard \in [Hashes -> Shards]
ASSUME CallsAssumption == MaxCalls \in Nat

(* PartialEq's contract: symmetric and transitive.  It need not be         *)
(* reflexive (a NaN is not equal to itself) nor agree with the hash (0.0   *)
(* and -0.0 are equal and hash differently).                               *)
ASSUME EqualAssumption ==
  /\ Equal \subseteq Data \X Data
  /\ \A d, e \in Data : <<d, e>> \in Equal => <<e, d>> \in Equal
  /\ \A d, e, f \in Data :
       <<d, e>> \in Equal /\ <<e, f>> \in Equal => <<d, f>> \in Equal

VARIABLES
  store,     \* contents in order of allocation
  global,    \* hash -> ids in publication order
  alloc,     \* holder of the allocation lock
  writer,    \* holder of the write lock of store
  pc,        \* thread -> where it is in intern
  arg,       \* thread -> the content it interns
  cursor,    \* thread -> next candidate of the bucket scan
  answer,    \* thread -> the id intern will return
  calls,     \* thread -> number of calls made
  returned   \* every <<content, id>> intern has returned

vars == <<store, global, alloc, writer, pc, arg, cursor, answer, calls, returned>>

Ids == 1..Len(store)

Bucket(t) == global[Hash[arg[t]]]

(* Hit test of find: found under the same content hash, and equal. *)
Same(d, e) == Hash[d] = Hash[e] /\ <<d, e>> \in Equal

(* Threads that hold the read guard of shard s. *)
Readers(s) == {t \in Threads : pc[t] = "scan" /\ Shard[Hash[arg[t]]] = s}

Goto(t, l) == pc' = [pc EXCEPT ![t] = l]

Init ==
  /\ store = <<>>
  /\ global = [h \in Hashes |-> <<>>]
  /\ alloc = None
  /\ writer = None
  /\ pc = [t \in Threads |-> "idle"]
  /\ arg = [t \in Threads |-> CHOOSE d \in Data : TRUE]
  /\ cursor = [t \in Threads |-> 1]
  /\ answer = [t \in Threads |-> 0]
  /\ calls = [t \in Threads |-> 0]
  /\ returned = {}

(* intern(data) is called; hash_data touches no shared state. *)
Call(t, d) ==
  /\ pc[t] = "idle" /\ calls[t] < MaxCalls
  /\ Goto(t, "find")
  /\ arg' = [arg EXCEPT ![t] = d]
  /\ calls' = [calls EXCEPT ![t] = @ + 1]
  /\ UNCHANGED <<store, global, alloc, writer, cursor, answer, returned>>

(* What a find that found nothing leads to: take the allocation lock, or,  *)
(* when it is already held, append.                                        *)
AfterMiss(t) == IF alloc = t THEN "write" ELSE "lock"

(* Mutant: trust the first scan, without the re-check under `alloc`. *)
LockNoRecheck(t) ==
  /\ pc[t] = "lock" /\ alloc = None
  /\ alloc' = t
  /\ Goto(t, "write")
  /\ UNCHANGED <<store, global, writer, arg, cursor, answer, calls, returned>>

(* Mutant: the store's write guard outlives the publication. *)
PushKeepGuard(t) ==
  /\ pc[t] = "push"
  /\ store' = Append(store, arg[t])
  /\ answer' = [answer EXCEPT ![t] = Len(store) + 1]
  /\ Goto(t, "insert")
  /\ UNCHANGED <<global, alloc, writer, arg, cursor, calls, returned>>

(* Mutant: a hit is believed on the hash alone. *)
CompareHashOnly(t) ==
  /\ pc[t] = "scan"
  /\ IF cursor[t] <= Len(Bucket(t))
     THEN answer' = [answer EXCEPT ![t] = Bucket(t)[cursor[t]]] /\ Goto(t, "return")
     ELSE UNCHANGED answer /\ Goto(t, AfterMiss(t))
  /\ UNCHANGED <<store, global, alloc, writer, arg, cursor, calls, returned>>

(* Mutant: `alloc` is let go between the store append and the publication. *)
PushReleaseAlloc(t) ==
  /\ pc[t] = "push"
  /\ store' = Append(store, arg[t])
  /\ answer' = [answer EXCEPT ![t] = Len(store) + 1]
  /\ writer' = None /\ alloc' = None
  /\ Goto(t, "insert")
  /\ UNCHANGED <<global, arg, cursor, calls, returned>>

(* find: look the bucket up.  An absent key is a miss at once; otherwise   *)
(* the scan starts, holding the shard's read guard.                        *)
OpenBucket(t) ==
  /\ pc[t] = "find"
  /\ cursor' = [cursor EXCEPT ![t] = 1]
  /\ Goto(t, IF Bucket(t) = <<>> THEN AfterMiss(t) ELSE "scan")
  /\ UNCHANGED <<store, global, alloc, writer, arg, answer, calls, returned>>

(* find: eq_entry on the candidate under the cursor, with the read lock of *)
(* the store.  A hit, or the end of the bucket, drops the shard guard.     *)
Compare(t) ==
  /\ pc[t] = "scan"
  /\ \/ /\ cursor[t] > Len(Bucket(t))
        /\ Goto(t, AfterMiss(t))
        /\ UNCHANGED <<cursor, answer>>
     \/ /\ cursor[t] <= Len(Bucket(t))
        /\ writer = None
        /\ LET id == Bucket(t)[cursor[t]]
           IN  \/ /\ id \in Ids /\ <<store[id], arg[t]>> \in Equal
                  /\ answer' = [answer EXCEPT ![t] = id]
                  /\ Goto(t, "return")
                  /\ UNCHANGED cursor
               \/ /\ ~(id \in Ids /\ <<store[id], arg[t]>> \in Equal)
                  /\ cursor' = [cursor EXCEPT ![t] = @ + 1]
                  /\ UNCHANGED <<pc, answer>>
  /\ UNCHANGED <<store, global, alloc, writer, arg, calls, returned>>

(* alloc.lock(), after which the bucket is scanned again. *)
Lock(t) ==
  /\ pc[t] = "lock" /\ alloc = None
  /\ alloc' = t
  /\ Goto(t, "find")
  /\ UNCHANGED <<store, global, writer, arg, cursor, answer, calls, returned>>

(* store.write() *)
WriteLock(t) ==
  /\ pc[t] = "write" /\ writer = None
  /\ writer' = t
  /\ Goto(t, "push")
  /\ UNCHANGED <<store, global, alloc, arg, cursor, answer, calls, returned>>

(* The id is the length of the store, the content is pushed, and the write *)
(* guard is dropped.                                                       *)
Push(t) ==
  /\ pc[t] = "push"
  /\ store' = Append(store, arg[t])
  /\ answer' = [answer EXCEPT ![t] = Len(store) + 1]
  /\ writer' = None
  /\ Goto(t, "insert")
  /\ UNCHANGED <<global, alloc, arg, cursor, calls, returned>>

(* global.entry(key).or_default().push(id): the shard's write guard is     *)
(* granted once no scan holds its read guard.                              *)
Insert(t) ==
  /\ pc[t] = "insert" /\ Readers(Shard[Hash[arg[t]]]) = {}
  /\ global' = [global EXCEPT ![Hash[arg[t]]] = Append(@, answer[t])]
  /\ Goto(t, "return")
  /\ UNCHANGED <<store, alloc, writer, arg, cursor, answer, calls, returned>>

(* intern returns; its guards are dropped. *)
Return(t) ==
  /\ pc[t] = "return"
  /\ alloc' = IF alloc = t THEN None ELSE alloc
  /\ returned' = returned \cup {<<arg[t], answer[t]>>}
  /\ Goto(t, "idle")
  /\ UNCHANGED <<store, global, writer, arg, cursor, answer, calls>>

Step(t) ==
  \/ OpenBucket(t) \/ Compare(t) \/ Lock(t) \/ WriteLock(t)
  \/ Push(t) \/ Insert(t) \/ Return(t)

(* Every thread has made its calls (MaxCalls bounds the model). *)
Done == \A t \in Threads : pc[t] = "idle" /\ calls[t] = MaxCalls

Next ==
  \/ \E t \in Threads : \/ \E d \in Data : Call(t, d)
                        \/ Step(t)
  \/ Done /\ UNCHANGED vars

(* A thread inside intern is scheduled again. *)
Fairness == \A t \in Threads : WF_vars(Step(t))

Spec == Init /\ [][Next]_vars

FairSpec == Spec /\ Fairness
-----------------------------------------------------------------------------
PCs == {"idle", "find", "scan", "lock", "write", "push", "insert", "return"}

(* Types of the pool's state; an answer is the id of an entry. *)
TypeOK ==
  /\ store \in Seq(Data)
  /\ global \in [Hashes -> Seq(Nat)]
  /\ alloc \in Threads \cup {None}
  /\ writer \in Threads \cup {None}
  /\ pc \in [Threads -> PCs]
  /\ arg \in [Threads -> Data]
  /\ cursor \in [Threads -> Nat \ {0}]
  /\ answer \in [Threads -> Nat]
  /\ \A t \in Threads : answer[t] <= Len(store)
  /\ calls \in [Threads -> Nat]
  /\ returned \in SUBSET (Data \X Nat)

(* The hash-consing invariant (expr_pool.rs, "equal content => equal       *)
(* ExprId"): no two entries have equal content and equal hash, whatever    *)
(* the interleaving of the unlocked scan, the locked one and the append.   *)
HashConsed ==
  \A i, j \in Ids : i # j => ~Same(store[i], store[j])

(* Two calls that interned the same content, on any threads and at any     *)
(* time, were given the same id, and that id still resolves to it: the     *)
(* O(1) equality of the symbolic layer rests on both.                      *)
Resolves(d, i) == i \in Ids /\ (store[i] = d \/ Same(store[i], d))

CanonicalAnswers ==
  /\ \A r \in returned : Resolves(r[1], r[2])
  /\ \A r, s \in returned : Same(r[1], s[1]) => r[2] = s[2]

(* The store only grows: an id given out never changes its content. *)
AppendOnly == [][IsPrefix(store, store')]_store

(* What interning promises its callers, with the append to the store, or   *)
(* the comparison that hits, as the step at which the call takes effect.   *)
Phase(l) ==
  CASE l = "idle" -> "idle"
    [] l \in {"insert", "return"} -> "done"
    [] OTHER -> "called"

Abs == INSTANCE HashConsing WITH
         table <- store, phase <- [t \in Threads |-> Phase(pc[t])]

RefinesHashConsing == Abs!Spec

(* Every call of intern returns: nobody waits for ever on the three locks. *)
InternReturns == \A t \in Threads : pc[t] # "idle" ~> pc[t] = "idle"

(* The comment on intern, for every content: the same data always yields   *)
(* the same id.  It needs an equality that is reflexive.                   *)
SameDataSameId == \A r, s \in returned : r[1] = s[1] => r[2] = s[2]
=============================================================================
