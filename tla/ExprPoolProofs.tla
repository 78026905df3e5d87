---------------------------- MODULE ExprPoolProofs ----------------------------
(***************************************************************************)
(* Proofs about ExprPool, for any threads, contents, hash function and     *)
(* PartialEq: the types, the hash-consing invariant, what returned ids     *)
(* mean, the append-only store, and that the pool implements HashConsing.  *)
(***************************************************************************)
EXTENDS ExprPool, SequenceTheorems, TLAPS

(* Who may hold `alloc`, and where its holder is. *)
AllocInv ==
  /\ \A t \in Threads :
       alloc = t => pc[t] \in {"find", "scan", "write", "push", "insert", "return"}
  /\ \A t \in Threads : pc[t] \in {"write", "push", "insert"} => alloc = t

(* A bucket lists entries of the store, filed under their own hash. *)
FiledInv ==
  \A h \in Hashes : \A k \in 1..Len(global[h]) :
    global[h][k] \in Ids /\ Hash[store[global[h][k]]] = h

Listed(i) ==
  \E k \in 1..Len(global[Hash[store[i]]]) : global[Hash[store[i]]][k] = i

(* Every entry is listed, but the one its allocator is about to publish. *)
ListedInv ==
  \A i \in Ids :
    \/ Listed(i)
    \/ \E t \in Threads : pc[t] = "insert" /\ answer[t] = i

(* The scan under `alloc` has ruled out the candidates before the cursor. *)
ScanInv ==
  \A t \in Threads : alloc = t /\ pc[t] = "scan" =>
    \A k \in 1..Len(Bucket(t)) :
      k < cursor[t] => <<store[Bucket(t)[k]], arg[t]>> \notin Equal

(* Only a content the store does not hold is about to be appended. *)
MissInv ==
  \A t \in Threads : pc[t] \in {"write", "push"} =>
    \A i \in Ids : ~Same(store[i], arg[t])

(* The answer of a call resolves to the content it interned. *)
AnswerInv ==
  \A t \in Threads :
    /\ pc[t] = "insert" => answer[t] \in Ids /\ store[answer[t]] = arg[t]
    /\ pc[t] = "return" => Resolves(arg[t], answer[t])

ReturnedInv == \A r \in returned : Resolves(r[1], r[2])

IInv ==
  /\ TypeOK
  /\ AllocInv
  /\ FiledInv
  /\ ListedInv
  /\ ScanInv
  /\ MissInv
  /\ AnswerInv
  /\ ReturnedInv
  /\ HashConsed
-----------------------------------------------------------------------------
(* The facts about Append and the store used below. *)
LEMMA AppendFacts ==
  ASSUME NEW S, NEW s \in Seq(S), NEW e \in S
  PROVE  /\ Append(s, e) \in Seq(S)
         /\ Len(Append(s, e)) = Len(s) + 1
         /\ \A i \in 1..Len(s) : Append(s, e)[i] = s[i]
         /\ Append(s, e)[Len(s) + 1] = e
  BY AppendProperties

(* The pool's variables keep their types. *)
LEMMA TypeStep == TypeOK /\ [Next]_vars => TypeOK'
  <1> SUFFICES ASSUME TypeOK, [Next]_vars PROVE TypeOK'
    OBVIOUS
  <1> USE DEF TypeOK, PCs, Goto
  <1>1. ASSUME NEW t \in Threads, NEW d \in Data, Call(t, d) PROVE TypeOK'
    BY <1>1 DEF Call
  <1>2. ASSUME NEW t \in Threads, OpenBucket(t) PROVE TypeOK'
    BY <1>2 DEF OpenBucket, AfterMiss
  <1>3. ASSUME NEW t \in Threads, Compare(t) PROVE TypeOK'
    <2>1. Hash[arg[t]] \in Hashes
      BY HashAssumption
    <2>2. Bucket(t) \in Seq(Nat)
      BY <2>1 DEF Bucket
    <2> DEFINE id == Bucket(t)[cursor[t]]
    <2>3. CASE cursor[t] > Len(Bucket(t)) /\ Goto(t, AfterMiss(t)) /\ UNCHANGED <<cursor, answer>>
      BY <1>3, <2>3 DEF Compare, AfterMiss
    <2>4. CASE id \in Ids /\ answer' = [answer EXCEPT ![t] = id] /\ Goto(t, "return")
               /\ UNCHANGED cursor
      BY <1>3, <2>4 DEF Compare, Ids
    <2>5. CASE cursor' = [cursor EXCEPT ![t] = @ + 1] /\ UNCHANGED <<pc, answer>>
      BY <1>3, <2>5 DEF Compare
    <2>6. QED
      BY <1>3, <2>3, <2>4, <2>5 DEF Compare
  <1>4. ASSUME NEW t \in Threads, Lock(t) PROVE TypeOK'
    BY <1>4 DEF Lock
  <1>5. ASSUME NEW t \in Threads, WriteLock(t) PROVE TypeOK'
    BY <1>5 DEF WriteLock
  <1>6. ASSUME NEW t \in Threads, Push(t) PROVE TypeOK'
    <2>1. store' \in Seq(Data) /\ Len(store') = Len(store) + 1
      BY <1>6, AppendFacts DEF Push
    <2>2. answer' \in [Threads -> Nat] /\ \A u \in Threads : answer'[u] <= Len(store')
      BY <1>6, <2>1 DEF Push
    <2>3. QED
      BY <1>6, <2>1, <2>2 DEF Push
  <1>7. ASSUME NEW t \in Threads, Insert(t) PROVE TypeOK'
    <2>1. Hash[arg[t]] \in Hashes
      BY HashAssumption
    <2>2. global' \in [Hashes -> Seq(Nat)]
      BY <1>7, <2>1, AppendProperties DEF Insert
    <2>3. QED
      BY <1>7, <2>2 DEF Insert
  <1>8. ASSUME NEW t \in Threads, Return(t) PROVE TypeOK'
    BY <1>8 DEF Return
  <1>9. CASE UNCHANGED vars
    BY <1>9 DEF vars
  <1>10. QED
    BY <1>1, <1>2, <1>3, <1>4, <1>5, <1>6, <1>7, <1>8, <1>9 DEF Next, Step, vars

LEMMA TypeInit == Init => TypeOK
  BY DataAssumption, EmptySeq DEF Init, TypeOK, PCs

(* TypeOK, for every value of the constants. *)
THEOREM TypeCorrect == Spec => []TypeOK
  <1>1. QED
    BY TypeInit, TypeStep, PTL DEF Spec
-----------------------------------------------------------------------------
(* A step that leaves store, global and returned alone, and moves no       *)
(* thread into or out of "insert", keeps what is said of them.             *)
LEMMA FrameStep ==
  ASSUME IInv, UNCHANGED <<store, global, returned>>,
         \A u \in Threads : pc[u] = "insert" => pc'[u] = "insert" /\ answer'[u] = answer[u]
  PROVE  FiledInv' /\ ListedInv' /\ ReturnedInv' /\ HashConsed'
  <1>1. FiledInv' /\ ReturnedInv' /\ HashConsed'
    BY DEF IInv, FiledInv, ReturnedInv, HashConsed, Ids, Resolves, Same
  <1>2. ListedInv'
    BY DEF IInv, ListedInv, Listed, Ids
  <1>3. QED
    BY <1>1, <1>2

(* A miss of the scan under `alloc` is a miss of the whole store.          *)
LEMMA BucketMiss ==
  ASSUME IInv, NEW t \in Threads, alloc = t, pc[t] \in {"find", "scan"},
         \A k \in 1..Len(Bucket(t)) : <<store[Bucket(t)[k]], arg[t]>> \notin Equal
  PROVE  \A i \in Ids : ~Same(store[i], arg[t])
  <1>1. SUFFICES ASSUME NEW i \in Ids, Same(store[i], arg[t]) PROVE FALSE
    OBVIOUS
  <1>2. \A u \in Threads : pc[u] # "insert"
    BY DEF IInv, AllocInv
  <1>3. Listed(i)
    BY <1>2 DEF IInv, ListedInv
  <1>4. QED
    BY <1>1, <1>3 DEF Listed, Bucket, Same

LEMMA CallInv ==
  ASSUME IInv, TypeOK', NEW t \in Threads, NEW d \in Data, Call(t, d)
  PROVE  IInv'
  <1> USE DEF Call, Goto, IInv, TypeOK, PCs
  <1>1. AllocInv' /\ ScanInv' /\ MissInv' /\ AnswerInv'
    BY DEF AllocInv, ScanInv, MissInv, AnswerInv, Bucket, Ids, Resolves
  <1>2. QED
    BY <1>1, FrameStep

LEMMA OpenBucketInv ==
  ASSUME IInv, TypeOK', NEW t \in Threads, OpenBucket(t)
  PROVE  IInv'
  <1> USE DEF OpenBucket, Goto, AfterMiss
  <1>0. TypeOK
    BY DEF IInv
  <1>1. AllocInv' /\ ScanInv' /\ AnswerInv'
    BY <1>0 DEF AllocInv, ScanInv, AnswerInv, Bucket, Ids, Resolves, IInv, TypeOK, PCs
  <1>2. MissInv'
    <2>1. Bucket(t) = <<>> /\ alloc = t => \A i \in Ids : ~Same(store[i], arg[t])
      BY BucketMiss
    <2>2. QED
      BY <1>0, <2>1 DEF MissInv, Ids, Same, IInv, TypeOK, PCs
  <1>3. FiledInv' /\ ListedInv' /\ ReturnedInv' /\ HashConsed'
    BY <1>0, FrameStep DEF TypeOK, PCs
  <1>4. QED
    BY <1>1, <1>2, <1>3 DEF IInv

LEMMA CompareInv ==
  ASSUME IInv, TypeOK', NEW t \in Threads, Compare(t)
  PROVE  IInv'
  <1> DEFINE id == Bucket(t)[cursor[t]]
  <1> USE DEF Goto
  <1>0. /\ TypeOK /\ pc[t] = "scan" /\ Hash[arg[t]] \in Hashes
        /\ UNCHANGED <<store, global, alloc, writer, arg, calls, returned>>
    BY HashAssumption DEF IInv, Compare, TypeOK
  <1>1. CASE /\ cursor[t] > Len(Bucket(t)) /\ Goto(t, AfterMiss(t))
             /\ UNCHANGED <<cursor, answer>>
    <2>1. alloc = t => \A i \in Ids : ~Same(store[i], arg[t])
      <3>1. Bucket(t) \in Seq(Nat)
        BY <1>0 DEF TypeOK, Bucket
      <3>2. alloc = t => \A k \in 1..Len(Bucket(t)) : <<store[Bucket(t)[k]], arg[t]>> \notin Equal
        <4>1. SUFFICES ASSUME NEW k \in 1..Len(Bucket(t)), alloc = t
                       PROVE  <<store[Bucket(t)[k]], arg[t]>> \notin Equal
          OBVIOUS
        <4>2. k < cursor[t]
          BY <1>0, <1>1, <3>1 DEF TypeOK
        <4>3. QED
          BY <1>0, <4>1, <4>2 DEF IInv, ScanInv
      <3>3. QED
        BY <1>0, <3>2, BucketMiss
    <2>2. AllocInv' /\ ScanInv' /\ AnswerInv'
      BY <1>0, <1>1 DEF AfterMiss, AllocInv, ScanInv, AnswerInv, Bucket, Ids, Resolves, IInv, TypeOK, PCs
    <2>3. MissInv'
      BY <1>0, <1>1, <2>1 DEF AfterMiss, MissInv, Ids, Same, IInv, TypeOK, PCs
    <2>4. FiledInv' /\ ListedInv' /\ ReturnedInv' /\ HashConsed'
      BY <1>0, <1>1, FrameStep DEF AfterMiss, TypeOK, PCs
    <2>5. QED
      BY <2>2, <2>3, <2>4 DEF IInv
  <1>2. CASE /\ cursor[t] <= Len(Bucket(t)) /\ id \in Ids /\ <<store[id], arg[t]>> \in Equal
             /\ answer' = [answer EXCEPT ![t] = id] /\ Goto(t, "return") /\ UNCHANGED cursor
    <2>1. Resolves(arg[t], id)
      <3>0. Bucket(t) \in Seq(Nat)
        BY <1>0 DEF TypeOK, Bucket
      <3>1. cursor[t] \in 1..Len(Bucket(t))
        BY <1>0, <1>2, <3>0 DEF TypeOK
      <3>2. Hash[store[id]] = Hash[arg[t]]
        BY <1>0, <3>1 DEF IInv, FiledInv, Bucket
      <3>3. QED
        BY <1>2, <3>2 DEF Resolves, Same
    <2>2. AllocInv' /\ ScanInv' /\ MissInv'
      BY <1>0, <1>2 DEF AllocInv, ScanInv, MissInv, Bucket, Ids, Same, IInv, TypeOK, PCs
    <2>3. AnswerInv'
      BY <1>0, <1>2, <2>1 DEF AnswerInv, Ids, Resolves, Same, IInv, TypeOK, PCs
    <2>4. FiledInv' /\ ListedInv' /\ ReturnedInv' /\ HashConsed'
      BY <1>0, <1>2, FrameStep DEF TypeOK, PCs
    <2>5. QED
      BY <2>2, <2>3, <2>4 DEF IInv
  <1>3. CASE /\ cursor[t] <= Len(Bucket(t)) /\ ~(id \in Ids /\ <<store[id], arg[t]>> \in Equal)
             /\ cursor' = [cursor EXCEPT ![t] = @ + 1] /\ UNCHANGED <<pc, answer>>
    <2>1. AllocInv' /\ MissInv' /\ AnswerInv'
      BY <1>0, <1>3 DEF AllocInv, MissInv, AnswerInv, Ids, Resolves, Same, IInv, TypeOK, PCs
    <2>2. ScanInv'
      <3>0. Bucket(t) \in Seq(Nat)
        BY <1>0 DEF TypeOK, Bucket
      <3>1. cursor[t] \in 1..Len(Bucket(t))
        BY <1>0, <1>3, <3>0 DEF TypeOK
      <3>2. <<store[id], arg[t]>> \notin Equal
        BY <1>0, <1>3, <3>1 DEF IInv, FiledInv, Bucket
      <3>3. \A u \in Threads : Bucket(u)' = Bucket(u)
        BY <1>0 DEF Bucket
      <3>4. \A u \in Threads : u # t => cursor'[u] = cursor[u]
        BY <1>0, <1>3 DEF TypeOK
      <3>5. cursor'[t] = cursor[t] + 1
        BY <1>0, <1>3 DEF TypeOK
      <3>6. \A k \in 1..Len(Bucket(t)) : alloc = t /\ k < cursor[t] + 1 =>
              <<store[Bucket(t)[k]], arg[t]>> \notin Equal
        <4>1. SUFFICES ASSUME NEW k \in 1..Len(Bucket(t)), alloc = t, k < cursor[t] + 1
                       PROVE  <<store[Bucket(t)[k]], arg[t]>> \notin Equal
          OBVIOUS
        <4>2. CASE k < cursor[t]
          BY <1>0, <4>1, <4>2 DEF IInv, ScanInv
        <4>3. CASE k = cursor[t]
          BY <4>3, <3>2
        <4>4. QED
          BY <1>0, <3>0, <4>1, <4>2, <4>3 DEF TypeOK
      <3>7. QED
        BY <1>0, <1>3, <3>3, <3>4, <3>5, <3>6 DEF ScanInv, IInv
    <2>3. FiledInv' /\ ListedInv' /\ ReturnedInv' /\ HashConsed'
      BY <1>0, <1>3, FrameStep DEF TypeOK, PCs
    <2>4. QED
      BY <2>1, <2>2, <2>3 DEF IInv
  <1>4. QED
    BY <1>0, <1>1, <1>2, <1>3 DEF Compare, IInv, TypeOK

LEMMA LockInv ==
  ASSUME IInv, TypeOK', NEW t \in Threads, Lock(t)
  PROVE  IInv'
  <1> USE DEF Lock, Goto
  <1>1. TypeOK /\ \A u \in Threads : alloc # u
    BY NoneAssumption DEF IInv
  <1>2. AllocInv' /\ ScanInv' /\ MissInv' /\ AnswerInv'
    BY <1>1 DEF AllocInv, ScanInv, MissInv, AnswerInv, Ids, Resolves, Same, IInv, TypeOK, PCs
  <1>3. FiledInv' /\ ListedInv' /\ ReturnedInv' /\ HashConsed'
    BY <1>1, FrameStep DEF TypeOK, PCs
  <1>4. QED
    BY <1>2, <1>3 DEF IInv

LEMMA WriteLockInv ==
  ASSUME IInv, TypeOK', NEW t \in Threads, WriteLock(t)
  PROVE  IInv'
  <1> USE DEF WriteLock, Goto
  <1>1. TypeOK
    BY DEF IInv
  <1>2. AllocInv' /\ ScanInv' /\ MissInv' /\ AnswerInv'
    BY <1>1 DEF AllocInv, ScanInv, MissInv, AnswerInv, Bucket, Ids, Resolves, Same, IInv, TypeOK, PCs
  <1>3. FiledInv' /\ ListedInv' /\ ReturnedInv' /\ HashConsed'
    BY <1>1, FrameStep DEF TypeOK, PCs
  <1>4. QED
    BY <1>2, <1>3 DEF IInv

(* The append: the new entry equals no old one, and only its allocator     *)
(* knows its id.                                                           *)
LEMMA PushInv ==
  ASSUME IInv, TypeOK', NEW t \in Threads, Push(t)
  PROVE  IInv'
  <1> DEFINE n == Len(store) + 1
  <1>0. /\ TypeOK /\ alloc = t /\ pc[t] = "push" /\ arg[t] \in Data
        /\ pc' = [pc EXCEPT ![t] = "insert"]
        /\ answer' = [answer EXCEPT ![t] = n]
        /\ UNCHANGED <<global, alloc, arg, cursor, calls, returned>>
    BY DEF IInv, AllocInv, Push, Goto, TypeOK
  <1>1. /\ Len(store) \in Nat
        /\ Ids' = Ids \cup {n}
        /\ \A i \in Ids : store'[i] = store[i]
        /\ store'[n] = arg[t]
    BY <1>0, AppendFacts DEF Push, Ids, TypeOK
  <1>2. AllocInv'
    BY <1>0 DEF AllocInv, IInv, TypeOK, PCs
  <1>3. FiledInv'
    BY <1>0, <1>1 DEF FiledInv, IInv
  <1>4. ListedInv'
    <2>1. \A u \in Threads : pc[u] # "insert"
      BY <1>0 DEF IInv, AllocInv
    <2>2. ASSUME NEW i \in Ids PROVE Listed(i)'
      <3>1. Listed(i)
        BY <2>1 DEF IInv, ListedInv
      <3>2. QED
        BY <1>0, <1>1, <3>1 DEF Listed
    <2>3. pc'[t] = "insert" /\ answer'[t] = n
      BY <1>0 DEF TypeOK
    <2>4. QED
      BY <1>1, <2>2, <2>3 DEF ListedInv
  <1>5. ScanInv' /\ MissInv'
    BY <1>0, <1>1 DEF ScanInv, MissInv, AllocInv, IInv, TypeOK, PCs
  <1>6. \A d \in Data : \A i : Resolves(d, i) => Resolves(d, i)'
    BY <1>1 DEF Resolves, Same
  <1>7. AnswerInv'
    <2>1. ASSUME NEW u \in Threads, u # t
          PROVE  /\ pc'[u] # "insert"
                 /\ pc'[u] = "return" => Resolves(arg[u], answer[u])'
      BY <1>0, <1>6, <2>1 DEF AnswerInv, AllocInv, IInv, TypeOK
    <2>2. pc'[t] = "insert" /\ answer'[t] = n
      BY <1>0 DEF TypeOK
    <2>3. QED
      BY <1>0, <1>1, <2>1, <2>2 DEF AnswerInv
  <1>8. ReturnedInv'
    BY <1>0, <1>6 DEF ReturnedInv, IInv, TypeOK
  <1>9. HashConsed'
    <2>1. \A i \in Ids : ~Same(store[i], arg[t]) /\ ~Same(arg[t], store[i])
      <3>1. \A i \in Ids : store[i] \in Data
        BY <1>0 DEF TypeOK, Ids
      <3>2. QED
        BY <1>0, <3>1, EqualAssumption DEF IInv, MissInv, Same
    <2>2. ASSUME NEW i \in Ids', NEW j \in Ids', i # j
          PROVE  ~Same(store'[i], store'[j])
      <3>1. CASE i \in Ids /\ j \in Ids
        BY <1>1, <2>2, <3>1 DEF HashConsed, IInv
      <3>2. CASE i = n \/ j = n
        BY <1>1, <2>1, <2>2, <3>2
      <3>3. QED
        BY <1>1, <2>2, <3>1, <3>2
    <2>3. QED
      BY <2>2 DEF HashConsed, Same
  <1>10. QED
    BY <1>2, <1>3, <1>4, <1>5, <1>7, <1>8, <1>9 DEF IInv

LEMMA InsertInv ==
  ASSUME IInv, TypeOK', NEW t \in Threads, Insert(t)
  PROVE  IInv'
  <1> DEFINE h == Hash[arg[t]]
  <1>0. /\ TypeOK /\ alloc = t /\ pc[t] = "insert" /\ h \in Hashes
        /\ pc' = [pc EXCEPT ![t] = "return"]
        /\ global' = [global EXCEPT ![h] = Append(@, answer[t])]
        /\ answer[t] \in Ids /\ store[answer[t]] = arg[t]
        /\ UNCHANGED <<store, alloc, arg, cursor, answer, calls, returned>>
    BY HashAssumption DEF IInv, AllocInv, AnswerInv, Insert, Goto, TypeOK
  <1>1. /\ \A g \in Hashes : g # h => global'[g] = global[g]
        /\ global'[h] = Append(global[h], answer[t])
        /\ global[h] \in Seq(Nat) /\ answer[t] \in Nat
    BY <1>0 DEF TypeOK
  <1>2. /\ Len(global[h]) \in Nat
        /\ Len(global'[h]) = Len(global[h]) + 1
        /\ \A k \in 1..Len(global[h]) : global'[h][k] = global[h][k]
        /\ global'[h][Len(global[h]) + 1] = answer[t]
    BY <1>1, AppendFacts
  <1>3. AllocInv' /\ MissInv' /\ AnswerInv'
    BY <1>0 DEF AllocInv, MissInv, AnswerInv, Ids, Resolves, Same, IInv, TypeOK, PCs
  <1>4. FiledInv'
    <2>1. ASSUME NEW g \in Hashes, NEW k \in 1..Len(global'[g])
          PROVE  global'[g][k] \in Ids /\ Hash[store[global'[g][k]]] = g
      <3>1. CASE g # h
        BY <1>1, <2>1, <3>1 DEF FiledInv, IInv
      <3>2. CASE g = h /\ k \in 1..Len(global[h])
        <4>1. global[h][k] \in Ids /\ Hash[store[global[h][k]]] = h
          BY <1>0, <3>2 DEF FiledInv, IInv
        <4>2. QED
          BY <1>2, <3>2, <4>1
      <3>3. CASE g = h /\ k = Len(global[h]) + 1
        BY <1>0, <1>2, <3>3
      <3>4. QED
        BY <1>2, <2>1, <3>1, <3>2, <3>3
    <2>2. QED
      BY <1>0, <2>1 DEF FiledInv, Ids
  <1>5. ListedInv'
    <2>1. ASSUME NEW i \in Ids, Listed(i) PROVE Listed(i)'
      <3>1. PICK k \in 1..Len(global[Hash[store[i]]]) : global[Hash[store[i]]][k] = i
        BY <2>1 DEF Listed
      <3>2. Hash[store[i]] \in Hashes
        BY <1>0, HashAssumption DEF TypeOK, Ids
      <3>3. k \in 1..Len(global'[Hash[store[i]]]) /\ global'[Hash[store[i]]][k] = i
        <4>1. CASE Hash[store[i]] = h
          BY <1>2, <3>1, <4>1
        <4>2. CASE Hash[store[i]] # h
          BY <1>1, <3>1, <3>2, <4>2
        <4>3. QED
          BY <4>1, <4>2
      <3>4. QED
        BY <1>0, <3>3 DEF Listed
    <2>2. Listed(answer[t])'
      <3>1. Len(global[h]) + 1 \in 1..Len(global'[h])
        BY <1>2
      <3>2. QED
        BY <1>0, <1>2, <3>1 DEF Listed
    <2>3. ASSUME NEW i \in Ids PROVE Listed(i)'
      <3>1. CASE Listed(i)
        BY <2>1, <3>1
      <3>2. CASE \E u \in Threads : pc[u] = "insert" /\ answer[u] = i
        BY <1>0, <2>2, <3>2 DEF IInv, AllocInv
      <3>3. QED
        BY <3>1, <3>2 DEF IInv, ListedInv
    <2>4. QED
      BY <1>0, <2>3 DEF ListedInv, Ids
  <1>6. ScanInv'
    BY <1>0 DEF ScanInv, IInv, TypeOK
  <1>7. ReturnedInv' /\ HashConsed'
    BY <1>0 DEF ReturnedInv, HashConsed, Ids, Resolves, Same, IInv
  <1>8. QED
    BY <1>3, <1>4, <1>5, <1>6, <1>7 DEF IInv

LEMMA ReturnInv ==
  ASSUME IInv, TypeOK', NEW t \in Threads, Return(t)
  PROVE  IInv'
  <1> USE DEF Return, Goto
  <1>1. TypeOK
    BY DEF IInv
  <1>2. AllocInv' /\ ScanInv' /\ MissInv' /\ AnswerInv'
    <2>0. pc \in [Threads -> PCs]
      BY <1>1 DEF TypeOK
    <2>1. /\ pc' = [pc EXCEPT ![t] = "idle"]
          /\ UNCHANGED <<store, global, writer, arg, cursor, answer>>
      OBVIOUS
    <2>2. \A u \in Threads : pc'[u] = IF u = t THEN "idle" ELSE pc[u]
      BY <2>0, <2>1
    <2>3. AllocInv'
      BY <1>1, <2>1, <2>2, NoneAssumption DEF AllocInv, IInv, TypeOK
    <2>4. \A u \in Threads : alloc' = u => alloc = u
      BY NoneAssumption
    <2>5. ScanInv'
      BY <2>1, <2>2, <2>4 DEF ScanInv, Bucket, IInv
    <2>6. MissInv'
      BY <2>1, <2>2 DEF MissInv, Ids, Same, IInv
    <2>7. AnswerInv'
      BY <2>1, <2>2 DEF AnswerInv, Resolves, Ids, Same, IInv
    <2>8. QED
      BY <2>3, <2>5, <2>6, <2>7
  <1>3. FiledInv' /\ HashConsed'
    BY DEF FiledInv, HashConsed, Ids, Same, IInv
  <1>4. ListedInv'
    BY <1>1 DEF ListedInv, Listed, Ids, IInv, TypeOK
  <1>5. ReturnedInv'
    <2>1. Resolves(arg[t], answer[t])
      BY DEF AnswerInv, IInv
    <2>2. ASSUME NEW r \in returned' PROVE Resolves(r[1], r[2])'
      <3>1. r \in returned \/ r = <<arg[t], answer[t]>>
        OBVIOUS
      <3>2. Resolves(r[1], r[2])
        BY <2>1, <3>1 DEF ReturnedInv, IInv
      <3>3. QED
        BY <3>2 DEF Resolves, Ids, Same
    <2>3. QED
      BY <2>2 DEF ReturnedInv
  <1>6. QED
    BY <1>2, <1>3, <1>4, <1>5 DEF IInv
-----------------------------------------------------------------------------
LEMMA InvInit == Init => IInv
  <1> SUFFICES ASSUME Init PROVE IInv
    OBVIOUS
  <1>1. TypeOK
    BY TypeInit
  <1>2. Ids = {} /\ \A h \in Hashes : 1..Len(global[h]) = {}
    BY DEF Init, Ids
  <1>3. AllocInv /\ MissInv /\ AnswerInv /\ ScanInv /\ ReturnedInv
    BY NoneAssumption DEF Init, AllocInv, MissInv, AnswerInv, ScanInv, ReturnedInv
  <1>4. FiledInv /\ ListedInv /\ HashConsed
    BY <1>2 DEF FiledInv, ListedInv, HashConsed
  <1>5. QED
    BY <1>1, <1>3, <1>4 DEF IInv

LEMMA InvStep == IInv /\ [Next]_vars => IInv'
  <1> SUFFICES ASSUME IInv, [Next]_vars PROVE IInv'
    OBVIOUS
  <1>1. TypeOK'
    BY TypeStep DEF IInv
  <1>2. CASE UNCHANGED vars
    BY <1>1, <1>2 DEF vars, IInv, AllocInv, FiledInv, ListedInv, Listed, ScanInv, MissInv,
         AnswerInv, ReturnedInv, HashConsed, Ids, Bucket, Resolves, Same
  <1>3. ASSUME NEW t \in Threads, NEW d \in Data, Call(t, d) PROVE IInv'
    BY <1>1, <1>3, CallInv
  <1>4. ASSUME NEW t \in Threads, Step(t) PROVE IInv'
    BY <1>1, <1>4, OpenBucketInv, CompareInv, LockInv, WriteLockInv, PushInv,
       InsertInv, ReturnInv DEF Step
  <1>5. QED
    BY <1>2, <1>3, <1>4 DEF Next

THEOREM Invariance == Spec => []IInv
  BY InvInit, InvStep, PTL DEF Spec

(* The hash-consing invariant: no two entries of the pool have equal       *)
(* content and equal hash, for any threads, contents and hash function.    *)
THEOREM NoDuplicateEntries == Spec => []HashConsed
  <1>1. IInv => HashConsed
    BY DEF IInv
  <1>2. QED
    BY <1>1, Invariance, PTL

LEMMA AnswersFromInv == IInv => CanonicalAnswers
  <1> SUFFICES ASSUME IInv, NEW r \in returned, NEW s \in returned, Same(r[1], s[1])
               PROVE  r[2] = s[2]
    BY DEF CanonicalAnswers, IInv, ReturnedInv
  <1>1. /\ r[1] \in Data /\ s[1] \in Data
        /\ Resolves(r[1], r[2]) /\ Resolves(s[1], s[2])
    BY DEF IInv, TypeOK, ReturnedInv
  <1>2. /\ r[2] \in Ids /\ store[r[2]] \in Data
        /\ s[2] \in Ids /\ store[s[2]] \in Data
    BY <1>1 DEF Resolves, Ids, IInv, TypeOK
  <1>3. \A d, e \in Data : Same(d, e) => Same(e, d)
    BY EqualAssumption DEF Same
  <1>4. \A d, e, f \in Data : Same(d, e) /\ Same(e, f) => Same(d, f)
    BY EqualAssumption DEF Same
  <1>5. Same(store[r[2]], s[1])
    BY <1>1, <1>2, <1>4 DEF Resolves
  <1>6. Same(store[r[2]], store[s[2]])
    BY <1>1, <1>2, <1>3, <1>4, <1>5 DEF Resolves
  <1>7. QED
    BY <1>2, <1>6 DEF IInv, HashConsed

(* What callers see: the id of a call resolves to the content it interned, *)
(* and calls that interned the same content got the same id.               *)
THEOREM AnswersCanonical == Spec => []CanonicalAnswers
  BY Invariance, AnswersFromInv, PTL

(* The contents the comment of `intern` has in mind: equality is identity. *)
Lawful == \A d, e \in Data : <<d, e>> \in Equal <=> d = e

(* For such contents, same data gives same id and only same data does:     *)
(* the O(1) equality of expressions is equality of their content.          *)
THEOREM IdEqualityIsContentEquality ==
  ASSUME Lawful
  PROVE  Spec => [](\A r, s \in returned : r[1] = s[1] <=> r[2] = s[2])
  <1> DEFINE Faithful == \A r, s \in returned : r[1] = s[1] <=> r[2] = s[2]
  <1>1. IInv => Faithful
    <2> SUFFICES ASSUME IInv, NEW r \in returned, NEW s \in returned
                 PROVE  r[1] = s[1] <=> r[2] = s[2]
      OBVIOUS
    <2>1. r[1] \in Data /\ s[1] \in Data /\ Resolves(r[1], r[2]) /\ Resolves(s[1], s[2])
      BY DEF IInv, TypeOK, ReturnedInv
    <2>2. store[r[2]] \in Data /\ store[s[2]] \in Data
      BY <2>1 DEF Resolves, Ids, IInv, TypeOK
    <2>3. store[r[2]] = r[1] /\ store[s[2]] = s[1]
      BY <2>1, <2>2, Lawful DEF Resolves, Same, Lawful
    <2>4. r[1] = s[1] => r[2] = s[2]
      BY <2>1, AnswersFromInv, Lawful DEF CanonicalAnswers, Same, Lawful
    <2>5. QED
      BY <2>3, <2>4
  <1>2. QED
    BY <1>1, Invariance, PTL

LEMMA StoreStep == TypeOK /\ [Next]_vars => [IsPrefix(store, store')]_store
  <1> SUFFICES ASSUME TypeOK, [Next]_vars, store' # store PROVE IsPrefix(store, store')
    BY DEF TypeOK
  <1>1. PICK t \in Threads : Push(t)
    BY DEF Next, Step, vars, Call, OpenBucket, Compare, Lock, WriteLock, Insert, Return
  <1>2. arg[t] \in Data /\ store \in Seq(Data) /\ store' = Append(store, arg[t])
    BY <1>1 DEF TypeOK, Push
  <1>3. /\ Len(store) \in Nat /\ Len(store') = Len(store) + 1
        /\ store' \in Seq(Data)
        /\ \A i \in 1..Len(store) : store'[i] = store[i]
    BY <1>2, AppendFacts
  <1>4. SubSeq(store', 1, Len(store)) = store
    <2>1. SubSeq(store', 1, Len(store)) \in Seq(Data)
      BY <1>3, SubSeqProperties
    <2>2. /\ Len(SubSeq(store', 1, Len(store))) = Len(store)
          /\ \A i \in 1..Len(store) : SubSeq(store', 1, Len(store))[i] = store[i]
      BY <1>2, <1>3, SubSeqProperties
    <2>3. QED
      BY <1>2, <2>1, <2>2, SeqEqual
  <1>5. QED
    BY <1>3, <1>4 DEF IsPrefix

(* The store is append-only: an id handed out keeps its content for ever.  *)
THEOREM StoreAppendOnly == Spec => AppendOnly
  BY TypeCorrect, StoreStep, PTL DEF Spec, AppendOnly
-----------------------------------------------------------------------------
(* The refinement: intern takes effect when the comparison hits, or when   *)
(* the content is pushed; every other step is invisible to callers.        *)
LEMMA RefinementInit == Init => Abs!Init
  <1> SUFFICES ASSUME Init PROVE Abs!Init
    OBVIOUS
  <1>1. [t \in Threads |-> Phase(pc[t])] = [t \in Threads |-> "idle"]
    BY DEF Init, Phase
  <1>2. arg \in [Threads -> Data]
    BY DataAssumption DEF Init
  <1>3. QED
    BY <1>1, <1>2 DEF Init, Abs!Init

(* A thread that moves between places of the same phase leaves the phases. *)
LEMMA PhaseFrame ==
  ASSUME TypeOK, NEW t \in Threads, NEW l, Goto(t, l), Phase(l) = Phase(pc[t])
  PROVE  [u \in Threads |-> Phase(pc'[u])] = [u \in Threads |-> Phase(pc[u])]
  BY DEF TypeOK, Goto

LEMMA PhaseMove ==
  ASSUME TypeOK, NEW t \in Threads, NEW l, Goto(t, l)
  PROVE  [u \in Threads |-> Phase(pc'[u])] =
           [[u \in Threads |-> Phase(pc[u])] EXCEPT ![t] = Phase(l)]
  BY DEF TypeOK, Goto

LEMMA RefinementStep == IInv /\ [Next]_vars => [Abs!Next]_(Abs!vars)
  <1> SUFFICES ASSUME IInv, [Next]_vars PROVE [Abs!Next]_(Abs!vars)
    OBVIOUS
  <1>0. TypeOK
    BY DEF IInv
  <1>1. CASE UNCHANGED vars
    BY <1>1 DEF vars, Abs!vars
  <1>2. ASSUME NEW t \in Threads, NEW d \in Data, Call(t, d) PROVE Abs!Call(t, d)
    <2>1. Phase("idle") = "idle" /\ Phase("find") = "called"
      BY DEF Phase
    <2>2. QED
      BY <1>0, <1>2, <2>1, PhaseMove DEF Call, Abs!Call, TypeOK
  <1>3. ASSUME NEW t \in Threads, OpenBucket(t) PROVE UNCHANGED Abs!vars
    <2>1. \A l \in {"find", "scan", "write", "lock"} : Phase(l) = "called"
      BY DEF Phase
    <2>2. QED
      BY <1>0, <1>3, <2>1, PhaseFrame DEF OpenBucket, AfterMiss, Abs!vars, TypeOK
  <1>4. ASSUME NEW t \in Threads, Compare(t)
        PROVE  UNCHANGED Abs!vars \/ \E i \in Ids : Abs!Hit(t, i)
    <2> DEFINE id == Bucket(t)[cursor[t]]
    <2>0. /\ pc[t] = "scan" /\ cursor[t] \in Nat \ {0} /\ Bucket(t) \in Seq(Nat)
          /\ UNCHANGED <<store, global, alloc, writer, arg, calls, returned>>
      BY <1>0, <1>4, HashAssumption DEF Compare, TypeOK, Bucket
    <2>1. /\ \A l \in {"find", "scan", "write", "lock"} : Phase(l) = "called"
          /\ Phase("return") = "done"
      BY DEF Phase
    <2>2. CASE Goto(t, AfterMiss(t)) /\ UNCHANGED <<cursor, answer>>
      BY <1>0, <2>0, <2>1, <2>2, PhaseFrame DEF AfterMiss, Abs!vars
    <2>3. CASE /\ cursor[t] <= Len(Bucket(t)) /\ id \in Ids /\ <<store[id], arg[t]>> \in Equal
               /\ answer' = [answer EXCEPT ![t] = id] /\ Goto(t, "return")
      <3>1. cursor[t] \in 1..Len(Bucket(t)) /\ Hash[arg[t]] \in Hashes
        BY <1>0, <2>0, <2>3, HashAssumption DEF TypeOK
      <3>2. Hash[store[id]] = Hash[arg[t]]
        BY <3>1 DEF IInv, FiledInv, Bucket
      <3>3. Abs!Hit(t, id)
        BY <1>0, <2>0, <2>1, <2>3, <3>2, PhaseMove DEF Abs!Hit, Abs!Same
      <3>4. QED
        BY <2>3, <3>3
    <2>4. CASE UNCHANGED <<pc, answer>>
      BY <2>0, <2>4 DEF Abs!vars
    <2>5. QED
      BY <1>4, <2>2, <2>3, <2>4 DEF Compare
  <1>5. ASSUME NEW t \in Threads, Lock(t) PROVE UNCHANGED Abs!vars
    <2>1. Phase("lock") = "called" /\ Phase("find") = "called"
      BY DEF Phase
    <2>2. QED
      BY <1>0, <1>5, <2>1, PhaseFrame DEF Lock, Abs!vars
  <1>6. ASSUME NEW t \in Threads, WriteLock(t) PROVE UNCHANGED Abs!vars
    <2>1. Phase("write") = "called" /\ Phase("push") = "called"
      BY DEF Phase
    <2>2. QED
      BY <1>0, <1>6, <2>1, PhaseFrame DEF WriteLock, Abs!vars
  <1>7. ASSUME NEW t \in Threads, Push(t) PROVE Abs!Add(t)
    <2>1. Phase("push") = "called" /\ Phase("insert") = "done"
      BY DEF Phase
    <2>2. \A i \in Ids : ~Same(store[i], arg[t])
      BY <1>7 DEF IInv, MissInv, Push
    <2>3. QED
      BY <1>0, <1>7, <2>1, <2>2, PhaseMove DEF Push, Abs!Add, Abs!Same, Same, Ids
  <1>8. ASSUME NEW t \in Threads, Insert(t) PROVE UNCHANGED Abs!vars
    <2>1. Phase("insert") = "done" /\ Phase("return") = "done"
      BY DEF Phase
    <2>2. QED
      BY <1>0, <1>8, <2>1, PhaseFrame DEF Insert, Abs!vars
  <1>9. ASSUME NEW t \in Threads, Return(t) PROVE Abs!Return(t)
    <2>1. Phase("return") = "done" /\ Phase("idle") = "idle"
      BY DEF Phase
    <2>2. QED
      BY <1>0, <1>9, <2>1, PhaseMove DEF Return, Abs!Return
  <1>10. QED
    BY <1>1, <1>2, <1>3, <1>4, <1>5, <1>6, <1>7, <1>8, <1>9 DEF Next, Step, Abs!Next, Ids

(* The pool, with its unlocked scan and its three locks, implements an     *)
(* indivisible find-or-append.                                             *)
THEOREM Refinement == Spec => RefinesHashConsing
  BY RefinementInit, RefinementStep, Invariance, PTL DEF Spec, RefinesHashConsing, Abs!Spec
=============================================================================
