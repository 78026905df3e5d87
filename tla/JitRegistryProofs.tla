-------------------------- MODULE JitRegistryProofs --------------------------
(***************************************************************************)
(* Proofs about JitRegistry: the three properties of its run, for every    *)
(* number of threads, capacity and set of forms.                           *)
(*                                                                         *)
(* No thread sees what the others hold, so each property rests on what the *)
(* phases of a `parfor` exclude (TaskInv): a rayon thread holds something  *)
(* only inside a chunk, a chunk runs only while Main waits, and Main does  *)
(* not wait in the middle of a registration.  AgeInv is about the map: a   *)
(* registered handle is in it, or is old.  OwnerInv adds that the handles  *)
(* the tasks hold stay in the map as long as no task registers.            *)
(***************************************************************************)
EXTENDS JitRegistry, SequenceTheorems, FiniteSetTheorems, TLAPS

Known == 1..(nextId - 1)

Call == [id : Known, form : {"none"} \cup {FirstForm(forms) : forms \in Forms}]

TypeOK ==
  /\ nextId \in Nat \ {0}
  /\ callable \in Seq([forms : Forms, by : Threads])
  /\ Len(callable) = nextId - 1
  /\ entries \in SUBSET Known
  /\ taken \in [Threads -> Known \cup {0}]
  /\ calls \in [Threads -> Seq(Call)]
  /\ inTask \in [Threads -> BOOLEAN]
  /\ waiting \in BOOLEAN

TaskInv ==
  /\ \A t \in Workers : calls[t] # <<>> \/ taken[t] # 0 => inTask[t]
  /\ \A t \in Workers : inTask[t] => waiting
  /\ waiting => taken[Main] = 0

AgeInv == \A id \in Registered : id \in entries \/ nextId - 1 - id >= Capacity

TakenInv == \A t \in Threads : taken[t] # 0 => callable[taken[t]].by = t

OwnerInv ==
  \/ TasksRegister
  \/ /\ \A t \in Workers : \A i \in DOMAIN calls[t] : calls[t][i].id \in entries
     /\ \A f \in freed : f.thread = Main

IInv ==
  /\ TypeOK /\ TaskInv /\ AgeInv /\ TakenInv /\ OwnerInv
  /\ FallbackOnlyOnEvaluator /\ MissMeansExpired
-----------------------------------------------------------------------------
LEMMA MainThread == Main \in Threads /\ Workers \subseteq Threads /\ Main \notin Workers
BY JitAssumption DEF Threads

(* What Front leaves of a sequence. *)
LEMMA FrontFacts ==
  ASSUME NEW S, NEW s \in Seq(S), s # <<>>
  PROVE  /\ Front(s) \in Seq(S)
         /\ DOMAIN Front(s) \subseteq DOMAIN s
         /\ \A i \in DOMAIN Front(s) : Front(s)[i] = s[i]
<1> DEFINE n == Len(s) - 1
<1>1. Len(s) \in Nat \ {0} /\ n \in Nat /\ DOMAIN s = 1..(n + 1)
  BY EmptySeq, LenProperties
<1>2. \A i \in 1..n : s[i] \in S
  BY <1>1, ElementOfSeq
<1>3. Front(s) = SubSeq(s, 1, n)
  BY DEF Front
<1> HIDE DEF n
<1>4. /\ SubSeq(s, 1, n) \in Seq(S)
      /\ Len(SubSeq(s, 1, n)) = IF 1 <= n THEN n - 1 + 1 ELSE 0
      /\ \A i \in 1..(n - 1 + 1) : SubSeq(s, 1, n)[i] = s[1 + i - 1]
  BY <1>1, <1>2, SubSeqProperties
<1>5. DOMAIN SubSeq(s, 1, n) = 1..n
  BY <1>1, <1>4, LenProperties
<1> QED BY <1>1, <1>3, <1>4, <1>5

(* What a call under way holds. *)
LEMMA CallFacts ==
  ASSUME TypeOK, NEW t \in Threads, calls[t] # <<>>
  PROVE  /\ calls[t] \in Seq(Call) /\ Len(calls[t]) \in DOMAIN calls[t]
         /\ Last(calls[t]) = calls[t][Len(calls[t])] /\ Last(calls[t]) \in Call
<1>1. calls[t] \in Seq(Call)
  BY DEF TypeOK
<1>2. Len(calls[t]) \in DOMAIN calls[t] /\ calls[t][Len(calls[t])] \in Call
  BY <1>1, EmptySeq, LenProperties, ElementOfSeq
<1> QED BY <1>1, <1>2 DEF Last

(* A handle the map has given up is as old as the map is large. *)
LEMMA EvictedIsOld ==
  ASSUME NEW n \in Nat \ {0}, NEW ids \in SUBSET (1..(n - 1)), NEW id \in ids, id \notin Newest(ids)
  PROVE  n - 1 - id >= Capacity
<1> DEFINE newer == {m \in ids : m > id}
<1>1. ~(Cardinality(newer) < Capacity)
  BY DEF Newest
<1>2. newer \in SUBSET ((id + 1)..(n - 1)) /\ id \in Nat
  <2>1. \A m \in ids : m \in 1..(n - 1)
    OBVIOUS
  <2>2. id \in Nat /\ n \in Nat
    BY <2>1
  <2>3. \A m \in newer : m \in (id + 1)..(n - 1)
    BY <2>1, <2>2
  <2> QED BY <2>2, <2>3
<1> HIDE DEF newer
<1>3. IsFiniteSet((id + 1)..(n - 1)) /\ Cardinality((id + 1)..(n - 1)) = n - 1 - id
  BY <1>2, FS_Interval
<1>4. Cardinality(newer) <= n - 1 - id /\ Cardinality(newer) \in Nat
  BY <1>2, <1>3, FS_Subset, FS_CardinalityType
<1> QED BY <1>1, <1>4, JitAssumption

(* The steps that leave the map and the handles alone keep AgeInv. *)
LEMMA SameAge ==
  ASSUME AgeInv, UNCHANGED <<nextId, entries, taken>>
  PROVE  AgeInv'
BY DEF AgeInv, Registered

LEMMA SameTaken ==
  ASSUME TakenInv, UNCHANGED <<callable, taken>>
  PROVE  TakenInv'
BY DEF TakenInv

(* A task registers only if it has taken a handle. *)
LEMMA TakerRegisters ==
  ASSUME TypeOK, TakenInv, NEW t \in Workers, taken[t] # 0
  PROVE  TasksRegister
<1>1. taken[t] \in DOMAIN callable /\ callable[taken[t]].by = t
  BY MainThread, LenProperties DEF TypeOK, TakenInv, Known
<1> QED BY <1>1, MainThread DEF TasksRegister
-----------------------------------------------------------------------------
LEMMA InitInv == Init => IInv
<1> SUFFICES ASSUME Init PROVE IInv
  OBVIOUS
<1>1. TypeOK
  <2>1. /\ callable \in Seq([forms : Forms, by : Threads]) /\ Len(callable) = 0
        /\ \A t \in Threads : calls[t] \in Seq(Call)
    BY DEF Init
  <2>2. calls = [t \in Threads |-> calls[t]] /\ taken = [t \in Threads |-> 0]
        /\ inTask = [t \in Threads |-> FALSE]
    BY DEF Init
  <2>3. calls \in [Threads -> Seq(Call)]
    BY <2>1, <2>2
  <2>4. taken \in [Threads -> Known \cup {0}] /\ inTask \in [Threads -> BOOLEAN]
    BY <2>2
  <2>5. nextId \in Nat \ {0} /\ Len(callable) = nextId - 1
    BY <2>1 DEF Init
  <2>6. entries \in SUBSET Known /\ waiting \in BOOLEAN
    BY DEF Init
  <2> QED BY <2>1, <2>3, <2>4, <2>5, <2>6 DEF TypeOK
<1>2. TaskInv /\ TakenInv
  BY MainThread DEF Init, TaskInv, TakenInv
<1>3. AgeInv
  BY DEF Init, AgeInv, Registered
<1>4. OwnerInv
  BY MainThread DEF Init, OwnerInv
<1>5. FallbackOnlyOnEvaluator /\ MissMeansExpired
  BY MainThread DEF Init, FallbackOnlyOnEvaluator, MissMeansExpired
<1> QED BY <1>1, <1>2, <1>3, <1>4, <1>5 DEF IInv

LEMMA TakeIdKeeps ==
  ASSUME IInv, NEW t \in Threads, NEW forms \in Forms, TakeId(t, forms)
  PROVE  IInv'
<1> USE DEF IInv
<1>1. nextId' = nextId + 1 /\ nextId \in Nat \ {0} /\ nextId' \in Nat \ {0}
  BY DEF TakeId, TypeOK
<1>2. Known \subseteq Known' /\ nextId \in Known' /\ Call \subseteq Call'
  BY <1>1 DEF Known, Call
<1>3. taken' = [taken EXCEPT ![t] = nextId] /\ taken \in [Threads -> Known \cup {0}]
  BY DEF TakeId, TypeOK
<1>4. /\ callable' \in Seq([forms : Forms, by : Threads])
      /\ Len(callable') = nextId' - 1
      /\ callable'[nextId] = [forms |-> forms, by |-> t]
      /\ \A i \in 1..(nextId - 1) : callable'[i] = callable[i]
  <2>1. callable \in Seq([forms : Forms, by : Threads]) /\ Len(callable) = nextId - 1
        /\ callable' = Append(callable, [forms |-> forms, by |-> t])
    BY DEF TakeId, TypeOK
  <2>2. [forms |-> forms, by |-> t] \in [forms : Forms, by : Threads]
    OBVIOUS
  <2> QED BY <1>1, <2>1, <2>2, AppendProperties
<1>5. TypeOK'
  <2>1. calls' \in [Threads -> Seq(Call')]
    <3>1. \A u \in Threads : calls[u] \in Seq(Call')
      BY <1>2, SeqMonotonic DEF TypeOK
    <3> QED BY <3>1 DEF TakeId, TypeOK
  <2>2. entries' \in SUBSET Known' /\ inTask' \in [Threads -> BOOLEAN] /\ waiting' \in BOOLEAN
    BY <1>2 DEF TakeId, TypeOK
  <2>3. taken' \in [Threads -> Known' \cup {0}]
    BY <1>2, <1>3
  <2> QED BY <1>1, <1>4, <2>1, <2>2, <2>3 DEF TypeOK
<1>6. TaskInv'
  <2>1. t = Main => ~waiting
    BY DEF TakeId, Evaluating, Blocked
  <2>2. t # Main => inTask[t]
    BY DEF TakeId, Evaluating
  <2> QED BY <1>3, <2>1, <2>2, MainThread DEF TaskInv, TakeId
<1>7. AgeInv'
  <2>1. Registered' \subseteq Registered
    <3> SUFFICES ASSUME NEW id \in Registered' PROVE id \in Registered
      OBVIOUS
    <3>1. id \in 1..nextId /\ \A u \in Threads : id # taken'[u]
      BY <1>1 DEF Registered
    <3>2. id # nextId
      BY <3>1, <1>3
    <3>3. ASSUME NEW u \in Threads, id = taken[u] PROVE FALSE
      <4>1. CASE u # t
        BY <4>1, <3>1, <3>3, <1>3
      <4>2. CASE u = t
        BY <4>2, <3>1, <3>3 DEF TakeId, Evaluating
      <4> QED BY <4>1, <4>2
    <3> QED BY <3>1, <3>2, <3>3, <1>1 DEF Registered
  <2>2. \A id \in Registered' : id \in entries' \/ nextId' - 1 - id >= Capacity
    <3> SUFFICES ASSUME NEW id \in Registered', id \notin entries PROVE nextId' - 1 - id >= Capacity
      BY DEF TakeId
    <3>1. nextId - 1 - id >= Capacity /\ id \in Nat
      BY <2>1 DEF AgeInv, Registered
    <3> QED BY <3>1, <1>1, JitAssumption
  <2> QED BY <2>2 DEF AgeInv
<1>8. TakenInv'
  <2> SUFFICES ASSUME NEW u \in Threads, taken'[u] # 0 PROVE callable'[taken'[u]].by = u
    BY DEF TakenInv
  <2>1. CASE u = t
    BY <2>1, <1>3, <1>4
  <2>2. CASE u # t
    BY <2>2, <1>3, <1>4 DEF TakenInv, Known
  <2> QED BY <2>1, <2>2
<1>9. OwnerInv'
  <2>1. TasksRegister => TasksRegister'
    <3> SUFFICES ASSUME NEW id \in DOMAIN callable, callable[id].by # Main PROVE TasksRegister'
      BY DEF TasksRegister
    <3>1. DOMAIN callable = 1..(nextId - 1) /\ DOMAIN callable' = 1..nextId
      BY <1>1, <1>4, LenProperties DEF TypeOK
    <3> QED BY <3>1, <1>1, <1>4 DEF TasksRegister
  <2> QED BY <2>1 DEF OwnerInv, TakeId
<1>10. FallbackOnlyOnEvaluator' /\ MissMeansExpired'
  BY DEF FallbackOnlyOnEvaluator, MissMeansExpired, TakeId
<1> QED BY <1>5, <1>6, <1>7, <1>8, <1>9, <1>10

LEMMA InsertKeeps ==
  ASSUME IInv, NEW t \in Threads, Insert(t)
  PROVE  IInv'
<1> USE DEF IInv
<1> DEFINE full == entries \cup {taken[t]}
<1>1. /\ entries' = Newest(full) /\ taken[t] # 0
      /\ taken' = [taken EXCEPT ![t] = 0]
      /\ freed' = freed \cup {[id |-> id, thread |-> t] : id \in full \ (Newest(full) \cup Held(calls))}
      /\ UNCHANGED <<nextId, callable, calls, inTask, waiting, missed>>
  BY DEF Insert
<1>2. full \in SUBSET Known /\ Newest(full) \in SUBSET full /\ taken[t] \in full
  BY <1>1 DEF TypeOK, Newest
<1>3. Known' = Known /\ Call' = Call
  BY <1>1 DEF Known, Call
<1>4. TypeOK'
  BY <1>1, <1>2, <1>3 DEF TypeOK
<1>5. TaskInv'
  BY <1>1, MainThread DEF TaskInv, TypeOK
<1>6. AgeInv'
  <2> SUFFICES ASSUME NEW id \in Registered', id \notin entries' PROVE nextId - 1 - id >= Capacity
    BY <1>1 DEF AgeInv
  <2>1. CASE id \in full
    BY <2>1, <1>1, <1>2, EvictedIsOld DEF TypeOK, Known
  <2>2. CASE id \notin full
    <3>1. id \in Registered
      <4>1. id \in 1..(nextId - 1) /\ \A u \in Threads : id # taken'[u]
        BY <1>1 DEF Registered
      <4>2. \A u \in Threads : id # taken[u]
        BY <4>1, <2>2, <1>1 DEF TypeOK
      <4> QED BY <4>1, <4>2 DEF Registered
    <3> QED BY <3>1, <2>2 DEF AgeInv
  <2> QED BY <2>1, <2>2
<1> HIDE DEF full
<1>7. TakenInv'
  BY <1>1 DEF TakenInv, TypeOK
<1>8. OwnerInv'
  <2>1. TasksRegister' = TasksRegister
    BY <1>1 DEF TasksRegister
  <2>2. CASE t \in Workers
    BY <2>1, <2>2, <1>1, TakerRegisters DEF OwnerInv
  <2>3. CASE t = Main
    <3>1. \A u \in Workers : calls[u] = <<>>
      BY <1>1, <2>3 DEF TaskInv
    <3>2. \A u \in Workers : \A i \in DOMAIN calls'[u] : calls'[u][i].id \in entries'
      BY <3>1, <1>1
    <3>3. (\A f \in freed : f.thread = Main) => \A f \in freed' : f.thread = Main
      BY <1>1, <2>3
    <3> QED BY <2>1, <3>2, <3>3 DEF OwnerInv
  <2> QED BY <2>2, <2>3 DEF Threads
<1>9. FallbackOnlyOnEvaluator' /\ MissMeansExpired'
  BY <1>1 DEF FallbackOnlyOnEvaluator, MissMeansExpired
<1> QED BY <1>4, <1>5, <1>6, <1>7, <1>8, <1>9

LEMMA LookupKeeps ==
  ASSUME IInv, NEW t \in Threads, NEW id \in Handles, Lookup(t, id)
  PROVE  IInv'
<1> USE DEF IInv
<1> DEFINE c == [id |-> id, form |-> "none"]
<1>1. UNCHANGED <<nextId, callable, entries, taken, inTask, waiting, freed>> /\ id \in Registered
  BY DEF Lookup
<1>2. Known' = Known /\ Call' = Call /\ TasksRegister' = TasksRegister
  BY <1>1 DEF Known, Call, TasksRegister
<1>3. t \in Workers => inTask[t]
  BY MainThread DEF Lookup, Evaluating
<1>4. AgeInv' /\ TakenInv'
  BY <1>1, SameAge, SameTaken
<1>5. CASE id \in entries
  <2>1. calls' = [calls EXCEPT ![t] = Append(@, c)] /\ missed' = missed
    BY <1>5 DEF Lookup
  <2>2. calls[t] \in Seq(Call) /\ c \in Call /\ calls \in [Threads -> Seq(Call)]
    BY <1>1 DEF TypeOK, Call, Registered, Known
  <2> HIDE DEF c
  <2>3. /\ Append(calls[t], c) \in Seq(Call)
        /\ DOMAIN Append(calls[t], c) = 1..(Len(calls[t]) + 1)
        /\ Append(calls[t], c)[Len(calls[t]) + 1] = c
        /\ \A i \in 1..Len(calls[t]) : Append(calls[t], c)[i] = calls[t][i]
        /\ DOMAIN calls[t] = 1..Len(calls[t]) /\ Len(calls[t]) \in Nat
    BY <2>2, AppendProperties, LenProperties
  <2>4. TypeOK'
    BY <1>1, <1>2, <2>1, <2>2, <2>3 DEF TypeOK
  <2>5. TaskInv'
    BY <1>1, <1>3, <2>1, <2>2, MainThread DEF TaskInv
  <2>6. ASSUME NEW u \in Workers, NEW i \in DOMAIN calls'[u]
        PROVE  calls'[u][i] = c \/ (i \in DOMAIN calls[u] /\ calls'[u][i] = calls[u][i])
    <3>1. CASE u # t
      BY <3>1, <2>1, <2>2, MainThread
    <3>2. CASE u = t
      BY <3>2, <2>1, <2>2, <2>3
    <3> QED BY <3>1, <3>2
  <2>7. c.id = id /\ c.form = "none"
    BY DEF c
  <2>8. OwnerInv'
    <3>1. (\A u \in Workers : \A i \in DOMAIN calls[u] : calls[u][i].id \in entries)
          => \A u \in Workers : \A i \in DOMAIN calls'[u] : calls'[u][i].id \in entries'
      BY <1>1, <1>5, <2>6, <2>7
    <3> QED BY <3>1, <1>1, <1>2 DEF OwnerInv
  <2>9. FallbackOnlyOnEvaluator' /\ MissMeansExpired'
    BY <2>1, <2>6, <2>7 DEF FallbackOnlyOnEvaluator, MissMeansExpired
  <2> QED BY <1>4, <2>4, <2>5, <2>8, <2>9
<1>6. CASE id \notin entries
  <2>1. calls' = calls /\ missed' = missed \cup {[id |-> id, newer |-> nextId - 1 - id]}
    BY <1>6 DEF Lookup
  <2>2. TypeOK' /\ TaskInv' /\ OwnerInv' /\ FallbackOnlyOnEvaluator'
    BY <1>1, <1>2, <2>1 DEF TypeOK, TaskInv, OwnerInv, FallbackOnlyOnEvaluator
  <2>3. MissMeansExpired'
    BY <1>1, <1>6, <2>1 DEF MissMeansExpired, AgeInv
  <2> QED BY <1>4, <2>2, <2>3
<1> QED BY <1>5, <1>6

LEMMA RunKeeps ==
  ASSUME IInv, NEW t \in Threads, Run(t)
  PROVE  IInv'
<1> USE DEF IInv
<1> DEFINE n == Len(calls[t])
           form == FirstForm(callable[Last(calls[t]).id].forms)
<1>1. /\ UNCHANGED <<nextId, callable, entries, taken, inTask, waiting, missed, freed>>
      /\ calls[t] # <<>> /\ ~Refused(t, form)
      /\ calls' = [calls EXCEPT ![t][n].form = form]
  BY DEF Run
<1>2. Known' = Known /\ Call' = Call /\ TasksRegister' = TasksRegister
  BY <1>1 DEF Known, Call, TasksRegister
<1>3. calls[t] \in Seq(Call) /\ n \in DOMAIN calls[t] /\ calls[t][n] \in Call
      /\ Last(calls[t]) = calls[t][n] /\ calls \in [Threads -> Seq(Call)]
  BY <1>1, CallFacts DEF TypeOK
<1>4. form \in {FirstForm(forms) : forms \in Forms}
  <2>1. Last(calls[t]).id \in DOMAIN callable
    BY <1>3, LenProperties DEF TypeOK, Call, Known
  <2>2. \A i \in DOMAIN callable : callable[i].forms \in Forms
    <3>1. callable \in Seq([forms : Forms, by : Threads])
      BY DEF TypeOK
    <3>2. DOMAIN callable = 1..Len(callable)
      BY <3>1, LenProperties
    <3>3. \A i \in 1..Len(callable) : callable[i] \in [forms : Forms, by : Threads]
      BY <3>1, ElementOfSeq
    <3> QED BY <3>2, <3>3
  <2> DEFINE id == Last(calls[t]).id
  <2>3. callable[id].forms \in Forms
    BY <2>1, <2>2
  <2> HIDE DEF id
  <2>4. FirstForm(callable[id].forms) \in {FirstForm(forms) : forms \in Forms}
    BY <2>3, Zenon
  <2> QED BY <2>4 DEF id
<1> HIDE DEF form, n
<1>5. AgeInv' /\ TakenInv'
  BY <1>1, SameAge, SameTaken
<1> DEFINE c == [calls[t][n] EXCEPT !.form = form]
<1>6. calls' = [calls EXCEPT ![t] = [calls[t] EXCEPT ![n] = c]]
  BY <1>1
<1>7. c \in Call /\ c.form = form /\ c.id = calls[t][n].id
  BY <1>3, <1>4 DEF Call
<1> HIDE DEF c
<1>8. [calls[t] EXCEPT ![n] = c] \in Seq(Call) /\ [calls[t] EXCEPT ![n] = c] # <<>>
      /\ DOMAIN [calls[t] EXCEPT ![n] = c] = DOMAIN calls[t]
  <2>1. [calls[t] EXCEPT ![n] = c] \in Seq(Call)
    BY <1>3, <1>7, ExceptSeq
  <2>2. DOMAIN [calls[t] EXCEPT ![n] = c] = DOMAIN calls[t]
    OBVIOUS
  <2> QED BY <2>1, <2>2, <1>3
<1>9. TypeOK'
  BY <1>1, <1>2, <1>3, <1>6, <1>8 DEF TypeOK
<1>10. TaskInv'
  <2>1. \A u \in Workers : calls'[u] # <<>> => calls[u] # <<>>
    BY <1>1, <1>3, <1>6, MainThread
  <2> QED BY <2>1, <1>1 DEF TaskInv
<1>11. ASSUME NEW u \in Workers, NEW i \in DOMAIN calls'[u]
       PROVE  /\ i \in DOMAIN calls[u] /\ calls'[u][i].id = calls[u][i].id
              /\ \/ calls'[u][i] = calls[u][i]
                 \/ u = t /\ calls'[u][i].form = form
  <2>1. CASE u # t
    BY <2>1, <1>6, <1>3, MainThread
  <2>2. CASE u = t
    <3>1. calls'[u] = [calls[t] EXCEPT ![n] = c]
      BY <2>2, <1>6, <1>3
    <3>2. i \in DOMAIN calls[t] /\ calls'[u][i] = IF i = n THEN c ELSE calls[t][i]
      BY <3>1, <1>8
    <3> QED BY <3>2, <2>2, <1>7
  <2> QED BY <2>1, <2>2
<1>12. OwnerInv'
  BY <1>1, <1>2, <1>11 DEF OwnerInv
<1>13. FallbackOnlyOnEvaluator' /\ MissMeansExpired'
  <2>1. t \in Workers => form # "fallback"
    BY <1>1 DEF Refused, TaskInv
  <2> QED BY <2>1, <1>1, <1>11 DEF FallbackOnlyOnEvaluator, MissMeansExpired
<1> QED BY <1>5, <1>9, <1>10, <1>12, <1>13

LEMMA ReturnKeeps ==
  ASSUME IInv, NEW t \in Threads, Return(t)
  PROVE  IInv'
<1> USE DEF IInv
<1>1. /\ UNCHANGED <<nextId, callable, entries, taken, inTask, waiting, missed>>
      /\ calls[t] # <<>> /\ calls' = [calls EXCEPT ![t] = Front(@)]
      /\ freed' = freed \cup
           {[id |-> id, thread |-> t] : id \in Held(calls) \ (Held(calls') \cup entries)}
  BY DEF Return
<1>2. Known' = Known /\ Call' = Call /\ TasksRegister' = TasksRegister
  BY <1>1 DEF Known, Call, TasksRegister
<1>3. calls[t] \in Seq(Call) /\ calls \in [Threads -> Seq(Call)]
  BY DEF TypeOK
<1>4. /\ Front(calls[t]) \in Seq(Call)
      /\ DOMAIN Front(calls[t]) \subseteq DOMAIN calls[t]
      /\ \A i \in DOMAIN Front(calls[t]) : Front(calls[t])[i] = calls[t][i]
  BY <1>1, <1>3, FrontFacts
<1>5. AgeInv' /\ TakenInv'
  BY <1>1, SameAge, SameTaken
<1>6. TypeOK'
  BY <1>1, <1>2, <1>3, <1>4 DEF TypeOK
<1>7. \A u \in Threads : u # t => calls'[u] = calls[u]
  BY <1>1, <1>3
<1>8. TaskInv'
  BY <1>1, <1>7 DEF TaskInv, Threads
<1>9. \A u \in Threads : \A i \in DOMAIN calls'[u] :
        i \in DOMAIN calls[u] /\ calls'[u][i] = calls[u][i]
  BY <1>1, <1>3, <1>4, <1>7
<1>10. OwnerInv'
  <2> SUFFICES ASSUME \A u \in Workers : \A i \in DOMAIN calls[u] : calls[u][i].id \in entries,
                      \A f \in freed : f.thread = Main
               PROVE  /\ \A u \in Workers : \A i \in DOMAIN calls'[u] : calls'[u][i].id \in entries'
                      /\ \A f \in freed' : f.thread = Main
    BY <1>2, <1>9, <1>1, MainThread DEF OwnerInv
  <2>1. \A u \in Workers : \A i \in DOMAIN calls'[u] : calls'[u][i].id \in entries'
    BY <1>1, <1>9, MainThread
  <2>2. CASE t = Main
    BY <2>1, <2>2, <1>1
  <2>3. CASE t \in Workers
    <3> SUFFICES ASSUME NEW id \in Held(calls), id \notin Held(calls'), id \notin entries PROVE FALSE
      BY <2>1, <1>1
    <3>1. PICK u \in Threads : \E i \in DOMAIN calls[u] : calls[u][i].id = id
      BY DEF Held
    <3>2. CASE u \in Workers
      BY <3>1, <3>2
    <3>3. CASE u = Main
      <4>1. calls'[Main] = calls[Main]
        BY <2>3, <1>7, MainThread
      <4> QED BY <3>1, <3>3, <4>1, MainThread DEF Held
    <3> QED BY <3>2, <3>3 DEF Threads
  <2> QED BY <2>2, <2>3 DEF Threads
<1>11. FallbackOnlyOnEvaluator' /\ MissMeansExpired'
  BY <1>1, <1>9, MainThread DEF FallbackOnlyOnEvaluator, MissMeansExpired
<1> QED BY <1>5, <1>6, <1>8, <1>10, <1>11

(* The steps of a `parfor` touch no call and no callable. *)
LEMMA LoopKeeps ==
  ASSUME IInv, UNCHANGED <<nextId, callable, entries, taken, calls, missed, freed>>,
         TaskInv', inTask' \in [Threads -> BOOLEAN], waiting' \in BOOLEAN
  PROVE  IInv'
<1>1. Known' = Known /\ Call' = Call /\ TasksRegister' = TasksRegister
  BY DEF Known, Call, TasksRegister
<1>2. TypeOK' /\ OwnerInv' /\ FallbackOnlyOnEvaluator' /\ MissMeansExpired'
  BY <1>1 DEF IInv, TypeOK, OwnerInv, FallbackOnlyOnEvaluator, MissMeansExpired
<1>3. AgeInv' /\ TakenInv'
  BY SameAge, SameTaken DEF IInv
<1> QED BY <1>2, <1>3 DEF IInv

LEMMA StartParforKeeps == ASSUME IInv, StartParfor PROVE IInv'
<1>1. TaskInv'
  BY DEF IInv, TaskInv, StartParfor, Evaluating
<1> QED BY <1>1, LoopKeeps DEF StartParfor, IInv, TypeOK

LEMMA StartChunkKeeps == ASSUME IInv, NEW t \in Workers, StartChunk(t) PROVE IInv'
<1>1. inTask' = [inTask EXCEPT ![t] = TRUE] /\ inTask \in [Threads -> BOOLEAN] /\ waiting
  BY DEF StartChunk, IInv, TypeOK
<1>2. TaskInv'
  BY <1>1, MainThread DEF IInv, TaskInv, StartChunk
<1> QED BY <1>1, <1>2, LoopKeeps DEF StartChunk, IInv, TypeOK

LEMMA EndChunkKeeps == ASSUME IInv, NEW t \in Workers, EndChunk(t) PROVE IInv'
<1>1. /\ inTask' = [inTask EXCEPT ![t] = FALSE] /\ inTask \in [Threads -> BOOLEAN]
      /\ taken[t] = 0 /\ calls[t] = <<>>
  BY DEF EndChunk, IInv, TypeOK
<1>2. TaskInv'
  BY <1>1, MainThread DEF IInv, TaskInv, EndChunk
<1> QED BY <1>1, <1>2, LoopKeeps DEF EndChunk, IInv, TypeOK

LEMMA EndParforKeeps == ASSUME IInv, EndParfor PROVE IInv'
<1>1. TaskInv'
  BY DEF IInv, TaskInv, EndParfor
<1> QED BY <1>1, LoopKeeps DEF EndParfor, IInv, TypeOK
-----------------------------------------------------------------------------
LEMMA StepInv == IInv /\ [Next]_vars => IInv'
<1> SUFFICES ASSUME IInv, [Next]_vars PROVE IInv'
  OBVIOUS
<1>1. ASSUME NEW t \in Threads, NEW forms \in Forms, TakeId(t, forms) PROVE IInv'
  BY <1>1, TakeIdKeeps
<1>2. ASSUME NEW t \in Threads, Insert(t) PROVE IInv'
  BY <1>2, InsertKeeps
<1>3. ASSUME NEW t \in Threads, NEW id \in Handles, Lookup(t, id) PROVE IInv'
  BY <1>3, LookupKeeps
<1>4. ASSUME NEW t \in Threads, Run(t) PROVE IInv'
  BY <1>4, RunKeeps
<1>5. ASSUME NEW t \in Threads, Return(t) PROVE IInv'
  BY <1>5, ReturnKeeps
<1>6. ASSUME NEW t \in Workers, StartChunk(t) \/ EndChunk(t) PROVE IInv'
  BY <1>6, StartChunkKeeps, EndChunkKeeps
<1>7. CASE StartParfor
  BY <1>7, StartParforKeeps
<1>8. CASE EndParfor
  BY <1>8, EndParforKeeps
<1>9. CASE UNCHANGED vars
  <2>1. TaskInv'
    BY <1>9 DEF vars, IInv, TaskInv
  <2> QED BY <1>9, <2>1, LoopKeeps DEF vars, IInv, TypeOK
<1> QED BY <1>1, <1>2, <1>3, <1>4, <1>5, <1>6, <1>7, <1>8, <1>9 DEF Next

LEMMA Inductive == Spec => []IInv
BY InitInv, StepInv, PTL DEF Spec

(* Whatever handles the tasks of a `parfor` call, the interpreted form of  *)
(* a callable, which walks the environment of the evaluating thread, runs  *)
(* on that thread alone.                                                   *)
THEOREM EvaluatorAlone == Spec => []FallbackOnlyOnEvaluator
<1>1. IInv => FallbackOnlyOnEvaluator
  BY DEF IInv
<1> QED BY <1>1, Inductive, PTL

(* A handle that `lookup` does not find is older than the newest Capacity  *)
(* ones, in whatever order the threads insert what they registered.        *)
THEOREM MissedAreOld == Spec => []MissMeansExpired
<1>1. IInv => MissMeansExpired
  BY DEF IInv
<1> QED BY <1>1, Inductive, PTL

(* Unless a task registers, no task drops the last reference to a callable *)
(* that holds an environment (indeed to any callable).                     *)
THEOREM LastReferences == Spec => []LastReferenceUnlessTasksRegister
<1>1. IInv => LastReferenceUnlessTasksRegister
  BY DEF IInv, OwnerInv, LastReferenceUnlessTasksRegister
<1> QED BY <1>1, Inductive, PTL
=============================================================================
