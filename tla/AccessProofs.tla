----------------------------- MODULE AccessProofs -----------------------------
(***************************************************************************)
(* Proofs about Access: its types, and the three properties of its run.    *)
(*                                                                         *)
(* A use is judged by the top of the stack of receivers and by the current *)
(* module, while the properties speak of the bodies that are open.  The    *)
(* invariant ties the two together at every depth, since bodies are left   *)
(* one at a time: the receivers are those of the open methods, in their    *)
(* order (StackInv), a method's receiver is of the method's class          *)
(* (MethodInv), and the current module is that of the first body           *)
(* (ModuleInv).                                                            *)
(***************************************************************************)
EXTENDS Access, SequenceTheorems, FiniteSetTheorems, TLAPS

(* How many of the first k bodies are methods. *)
MethodsTo(fs, k) == {i \in 1..k : fs[i].kind = "method"}
Depth(fs, k) == Cardinality(MethodsTo(fs, k))

FirstInv == frames # <<>> => frames[1].kind \in {"imports", "body"}

StackInv ==
  /\ Len(selfStack) = Depth(frames, Len(frames))
  /\ \A k \in 1..Len(frames) :
       frames[k].inner = IF Depth(frames, k) = 0 THEN 0 ELSE selfStack[Depth(frames, k)]

MethodInv ==
  \A k \in 1..Len(frames) :
    frames[k].kind = "method" =>
      /\ frames[k].inner \in DOMAIN instances
      /\ instances[frames[k].inner].class = frames[k].class

ModuleInv == currentModule = IF frames = <<>> THEN Root ELSE frames[1].home

RegistryInv == \A n \in Names : \A e \in classDefs[n] : Name[e.def] = n

BodyInv == FirstInv /\ StackInv /\ MethodInv /\ ModuleInv

\* What decides: the class's module is the one whose evaluation is under way.
JudgedByLoad ==
  \A a \in access : Checked(a) /\ a.vis = "mod" => (a.ok <=> a.module = a.load)

UseInv == PrivateInsideMethods /\ OwnMembersOpen /\ JudgedByLoad

IInv == TypeOK /\ BodyInv /\ RegistryInv /\ UseInv
-----------------------------------------------------------------------------
(* Counting the methods among the first bodies. *)
LEMMA DepthNat ==
  ASSUME NEW fs, NEW k \in Nat
  PROVE  IsFiniteSet(MethodsTo(fs, k)) /\ Depth(fs, k) \in Nat
<1>1. IsFiniteSet(1..k) /\ MethodsTo(fs, k) \in SUBSET (1..k)
  BY FS_Interval DEF MethodsTo
<1>2. IsFiniteSet(MethodsTo(fs, k))
  BY <1>1, FS_Subset
<1> QED BY <1>2, FS_CardinalityType DEF Depth

LEMMA DepthZero == ASSUME NEW fs PROVE Depth(fs, 0) = 0
<1>1. MethodsTo(fs, 0) = {}
  BY DEF MethodsTo
<1> QED BY <1>1, FS_EmptySet DEF Depth

LEMMA DepthStep ==
  ASSUME NEW fs, NEW k \in Nat
  PROVE  Depth(fs, k + 1) = IF fs[k + 1].kind = "method" THEN Depth(fs, k) + 1 ELSE Depth(fs, k)
<1>1. CASE fs[k + 1].kind = "method"
  <2>1. MethodsTo(fs, k + 1) = MethodsTo(fs, k) \cup {k + 1} /\ k + 1 \notin MethodsTo(fs, k)
    BY <1>1 DEF MethodsTo
  <2>2. IsFiniteSet(MethodsTo(fs, k))
    BY DepthNat
  <2>3. Cardinality(MethodsTo(fs, k) \cup {k + 1}) = Cardinality(MethodsTo(fs, k)) + 1
    BY <2>1, <2>2, FS_AddElement
  <2> QED BY <1>1, <2>1, <2>3 DEF Depth
<1>2. CASE fs[k + 1].kind # "method"
  <2>1. MethodsTo(fs, k + 1) = MethodsTo(fs, k)
    BY <1>2 DEF MethodsTo
  <2> QED BY <1>2, <2>1 DEF Depth
<1> QED BY <1>1, <1>2

(* It depends on the kinds alone. *)
LEMMA DepthSame ==
  ASSUME NEW fs, NEW gs, NEW k \in Nat,
         \A i \in 1..k : fs[i].kind = "method" <=> gs[i].kind = "method"
  PROVE  Depth(fs, k) = Depth(gs, k)
<1>1. MethodsTo(fs, k) = MethodsTo(gs, k)
  BY DEF MethodsTo
<1> QED BY <1>1 DEF Depth

(* And it grows with k. *)
LEMMA DepthMono ==
  ASSUME NEW fs, NEW j \in Nat, NEW k \in Nat, j <= k
  PROVE  Depth(fs, j) <= Depth(fs, k)
<1>1. MethodsTo(fs, j) \in SUBSET MethodsTo(fs, k)
  BY DEF MethodsTo
<1>2. IsFiniteSet(MethodsTo(fs, k))
  BY DepthNat
<1> QED BY <1>1, <1>2, FS_Subset DEF Depth
-----------------------------------------------------------------------------
(* The bodies, the receivers and the instances are sequences. *)
LEMMA StateFacts ==
  ASSUME TypeOK
  PROVE  /\ frames \in Seq(Frame) /\ Len(frames) \in Nat
         /\ \A i \in 1..Len(frames) : frames[i] \in Frame
         /\ frames = <<>> <=> Len(frames) = 0
         /\ selfStack \in Seq(DOMAIN instances) /\ Len(selfStack) \in Nat
         /\ selfStack = <<>> <=> Len(selfStack) = 0
         /\ Len(instances) \in Nat /\ DOMAIN instances = 1..Len(instances)
         /\ \A i \in DOMAIN instances : instances[i] \in [class : Names, fields : SUBSET Members]
<1>1. /\ frames \in Seq(Frame) /\ selfStack \in Seq(DOMAIN instances)
      /\ instances \in Seq([class : Names, fields : SUBSET Members])
  BY DEF TypeOK
<1>2. /\ Len(frames) \in Nat /\ \A i \in 1..Len(frames) : frames[i] \in Frame
      /\ frames = <<>> <=> Len(frames) = 0
  BY <1>1, LenProperties, ElementOfSeq, EmptySeq
<1>3. Len(selfStack) \in Nat /\ (selfStack = <<>> <=> Len(selfStack) = 0)
  BY <1>1, LenProperties, EmptySeq
<1>4. Len(instances) \in Nat /\ DOMAIN instances = 1..Len(instances)
  BY <1>1, LenProperties
<1>5. \A i \in DOMAIN instances : instances[i] \in [class : Names, fields : SUBSET Members]
  BY <1>1, <1>4, ElementOfSeq
<1> QED BY <1>1, <1>2, <1>3, <1>4, <1>5

(* The innermost body. *)
LEMMA TopFacts ==
  ASSUME TypeOK, frames # <<>>
  PROVE  Len(frames) >= 1 /\ Top = frames[Len(frames)] /\ Top \in Frame
BY StateFacts DEF Top

(* What Front leaves of a sequence. *)
LEMMA FrontFacts ==
  ASSUME NEW S, NEW s \in Seq(S), s # <<>>
  PROVE  /\ Front(s) \in Seq(S)
         /\ Len(Front(s)) = Len(s) - 1
         /\ \A i \in 1..(Len(s) - 1) : Front(s)[i] = s[i]
<1> DEFINE n == Len(s) - 1
<1>1. Len(s) \in Nat \ {0} /\ n \in Int
  BY EmptySeq
<1>2. \A i \in 1..n : s[i] \in S
  BY <1>1, ElementOfSeq
<1>3. Front(s) = SubSeq(s, 1, n)
  BY DEF Front
<1>4. n = Len(s) - 1
  OBVIOUS
<1> HIDE DEF n
<1>5. /\ SubSeq(s, 1, n) \in Seq(S)
      /\ Len(SubSeq(s, 1, n)) = IF 1 <= n THEN n - 1 + 1 ELSE 0
      /\ \A i \in 1..(n - 1 + 1) : SubSeq(s, 1, n)[i] = s[1 + i - 1]
  BY <1>1, <1>2, SubSeqProperties
<1> QED BY <1>1, <1>3, <1>4, <1>5

(* The body on top sees the receiver on top. *)
LEMMA TopReceiver ==
  ASSUME TypeOK, BodyInv, frames # <<>>
  PROVE  Top.inner = IF selfStack = <<>> THEN 0 ELSE Last(selfStack)
<1>1. Len(frames) \in 1..Len(frames)
  BY TopFacts, StateFacts
<1>2. Len(selfStack) = Depth(frames, Len(frames))
  BY DEF BodyInv, StackInv
<1>3. Top.inner = IF Len(selfStack) = 0 THEN 0 ELSE selfStack[Len(selfStack)]
  BY <1>1, <1>2 DEF BodyInv, StackInv, Top
<1> QED BY <1>3, StateFacts DEF Last
-----------------------------------------------------------------------------
(* A body appended to those open leaves their depths as they were. *)
LEMMA DepthAppend ==
  ASSUME TypeOK, NEW f \in Frame, frames' = Append(frames, f)
  PROVE  /\ Len(frames') = Len(frames) + 1 /\ frames' # <<>>
         /\ frames'[Len(frames) + 1] = f
         /\ \A i \in 1..Len(frames) : frames'[i] = frames[i]
         /\ \A k \in 0..Len(frames) : Depth(frames', k) = Depth(frames, k)
         /\ Depth(frames', Len(frames) + 1) =
              Depth(frames, Len(frames)) + (IF f.kind = "method" THEN 1 ELSE 0)
<1>1. /\ Len(frames') = Len(frames) + 1 /\ frames' # <<>>
      /\ frames'[Len(frames) + 1] = f
      /\ \A i \in 1..Len(frames) : frames'[i] = frames[i]
  BY StateFacts, AppendProperties
<1>2. ASSUME NEW k \in 0..Len(frames) PROVE Depth(frames', k) = Depth(frames, k)
  <2>1. k \in Nat /\ \A i \in 1..k : i \in 1..Len(frames)
    BY StateFacts
  <2> QED BY <1>1, <2>1, DepthSame
<1>3. Len(frames) \in Nat /\ Depth(frames', Len(frames)) = Depth(frames, Len(frames))
      /\ Depth(frames, Len(frames)) \in Nat
  BY <1>2, StateFacts, DepthNat
<1>4. Depth(frames', Len(frames) + 1) = IF f.kind = "method" THEN Depth(frames', Len(frames)) + 1
                                        ELSE Depth(frames', Len(frames))
  BY <1>1, <1>3, DepthStep
<1> QED BY <1>1, <1>2, <1>3, <1>4

(* The receivers a body sees are among those on the stack. *)
LEMMA DepthBound ==
  ASSUME TypeOK, StackInv, NEW k \in 0..Len(frames)
  PROVE  Depth(frames, k) \in 0..Len(selfStack)
<1>1. k \in Nat /\ Len(frames) \in Nat /\ k <= Len(frames)
  BY StateFacts
<1>2. Depth(frames, k) <= Depth(frames, Len(frames)) /\ Depth(frames, k) \in Nat
  BY <1>1, DepthMono, DepthNat
<1> QED BY <1>2, StateFacts DEF StackInv

(* The first body is of a module; `eval_module` has noted which. *)
LEMMA OpenFirst ==
  ASSUME TypeOK, BodyInv, frames = <<>>, NEW f \in Frame, f.kind = "imports", f.inner = 0,
         frames' = Append(frames, f), UNCHANGED <<selfStack, instances>>,
         currentModule' = f.home
  PROVE  BodyInv'
<1>1. /\ Len(frames') = 1 /\ frames' # <<>> /\ frames'[1] = f
      /\ Depth(frames', 1) = Depth(frames, 0)
  BY StateFacts, DepthAppend, DepthNat
<1>2. Depth(frames, 0) = 0 /\ Len(selfStack) = 0
  BY DepthZero, StateFacts DEF BodyInv, StackInv
<1> QED BY <1>1, <1>2 DEF BodyInv, FirstInv, StackInv, MethodInv, ModuleInv

(* A function, or an associated function, is called. *)
LEMMA OpenInner ==
  ASSUME TypeOK, BodyInv, frames # <<>>, NEW f \in Frame, f.kind # "method", f.inner = Top.inner,
         frames' = Append(frames, f), UNCHANGED <<selfStack, instances, currentModule>>
  PROVE  BodyInv'
<1> DEFINE n == Len(frames)
<1>1. /\ Len(frames') = n + 1 /\ frames' # <<>> /\ frames'[n + 1] = f
      /\ \A i \in 1..n : frames'[i] = frames[i]
      /\ \A k \in 0..n : Depth(frames', k) = Depth(frames, k)
      /\ Depth(frames', n + 1) = Depth(frames, n)
      /\ n \in Nat /\ n >= 1 /\ Top = frames[n]
  <2>1. n \in Nat /\ n >= 1 /\ Top = frames[n] /\ Depth(frames, n) \in Nat
    BY StateFacts, TopFacts, DepthNat
  <2> QED BY <2>1, DepthAppend
<1>2. StackInv'
  <2>1. Len(selfStack') = Depth(frames', Len(frames'))
    BY <1>1 DEF BodyInv, StackInv
  <2>2. ASSUME NEW k \in 1..(n + 1)
        PROVE  frames'[k].inner = IF Depth(frames', k) = 0 THEN 0
                                  ELSE selfStack[Depth(frames', k)]
    <3>1. CASE k = n + 1
      BY <1>1, <3>1 DEF BodyInv, StackInv
    <3>2. CASE k # n + 1
      BY <1>1, <3>2 DEF BodyInv, StackInv
    <3> QED BY <3>1, <3>2
  <2> QED BY <1>1, <2>1, <2>2 DEF StackInv
<1>3. MethodInv'
  BY <1>1 DEF BodyInv, MethodInv
<1>4. FirstInv' /\ ModuleInv'
  BY <1>1 DEF BodyInv, FirstInv, ModuleInv
<1> QED BY <1>2, <1>3, <1>4 DEF BodyInv

(* A method is called, which pushes its receiver. *)
LEMMA OpenMethodInner ==
  ASSUME TypeOK, BodyInv, frames # <<>>, NEW f \in Frame, f.kind = "method",
         f.inner \in DOMAIN instances, instances[f.inner].class = f.class,
         frames' = Append(frames, f), selfStack' = Append(selfStack, f.inner),
         UNCHANGED <<instances, currentModule>>
  PROVE  BodyInv'
<1> DEFINE n == Len(frames)
           m == Len(selfStack)
<1>1. /\ Len(frames') = n + 1 /\ frames' # <<>> /\ frames'[n + 1] = f
      /\ \A i \in 1..n : frames'[i] = frames[i]
      /\ \A k \in 0..n : Depth(frames', k) = Depth(frames, k)
      /\ Depth(frames', n + 1) = Depth(frames, n) + 1
      /\ n \in Nat /\ n >= 1
  BY StateFacts, TopFacts, DepthAppend
<1>2. /\ Len(selfStack') = m + 1 /\ selfStack'[m + 1] = f.inner /\ m \in Nat
      /\ \A i \in 1..m : selfStack'[i] = selfStack[i]
  BY StateFacts, AppendProperties
<1>3. Depth(frames, n) = m /\ \A k \in 0..n : Depth(frames, k) \in 0..m
  BY DepthBound DEF BodyInv, StackInv
<1>4. StackInv'
  <2>1. Len(selfStack') = Depth(frames', Len(frames'))
    BY <1>1, <1>2, <1>3
  <2>2. ASSUME NEW k \in 1..(n + 1)
        PROVE  frames'[k].inner = IF Depth(frames', k) = 0 THEN 0
                                  ELSE selfStack'[Depth(frames', k)]
    <3>1. CASE k = n + 1
      BY <1>1, <1>2, <1>3, <3>1
    <3>2. CASE k # n + 1
      <4>1. k \in 1..n /\ k \in 0..n
        BY <1>1, <3>2
      <4>2. frames[k].inner = IF Depth(frames, k) = 0 THEN 0 ELSE selfStack[Depth(frames, k)]
        BY <4>1 DEF BodyInv, StackInv
      <4>3. Depth(frames, k) # 0 => selfStack'[Depth(frames, k)] = selfStack[Depth(frames, k)]
        BY <1>2, <1>3, <4>1
      <4> QED BY <1>1, <4>1, <4>2, <4>3
    <3> QED BY <3>1, <3>2
  <2> QED BY <1>1, <2>1, <2>2 DEF StackInv
<1>5. MethodInv'
  BY <1>1 DEF BodyInv, MethodInv
<1>6. FirstInv' /\ ModuleInv'
  BY <1>1 DEF BodyInv, FirstInv, ModuleInv
<1> QED BY <1>4, <1>5, <1>6 DEF BodyInv

(* The innermost body returns; a method pops its receiver. *)
LEMMA CloseInner ==
  ASSUME TypeOK, BodyInv, Len(frames) > 1, frames' = Front(frames), selfStack' = PopSelf,
         UNCHANGED <<instances, currentModule>>
  PROVE  BodyInv'
<1> DEFINE n == Len(frames) - 1
<1>1. /\ n \in Nat /\ n >= 1 /\ Len(frames) = n + 1 /\ frames # <<>> /\ Top = frames[n + 1]
      /\ Len(frames') = n /\ frames' # <<>>
      /\ \A i \in 1..n : frames'[i] = frames[i]
  <2>1. frames # <<>> /\ n \in Nat /\ n >= 1 /\ Len(frames) = n + 1 /\ Top = frames[n + 1]
    BY StateFacts DEF Top
  <2>2. Len(frames') = n /\ \A i \in 1..n : frames'[i] = frames[i]
    BY <2>1, StateFacts, FrontFacts
  <2>3. frames' # <<>>
    BY <2>1, <2>2, EmptySeq
  <2> QED BY <2>1, <2>2, <2>3
<1>2. ASSUME NEW k \in 0..n PROVE Depth(frames', k) = Depth(frames, k)
  <2>1. k \in Nat /\ \A i \in 1..k : i \in 1..n
    BY <1>1
  <2> QED BY <1>1, <2>1, DepthSame
<1>3. /\ Depth(frames, n) \in Nat
      /\ Len(selfStack) = IF Top.kind = "method" THEN Depth(frames, n) + 1 ELSE Depth(frames, n)
  BY <1>1, DepthNat, DepthStep DEF BodyInv, StackInv
<1>4. /\ Len(selfStack') = Depth(frames, n)
      /\ \A i \in 1..Depth(frames, n) : selfStack'[i] = selfStack[i]
  <2>1. CASE Top.kind = "method"
    <3>1. selfStack # <<>> /\ Len(selfStack) = Depth(frames, n) + 1
      BY <1>3, <2>1, StateFacts
    <3>2. /\ Len(Front(selfStack)) = Len(selfStack) - 1
          /\ \A i \in 1..(Len(selfStack) - 1) : Front(selfStack)[i] = selfStack[i]
      BY <3>1, StateFacts, FrontFacts
    <3> QED BY <1>3, <2>1, <3>1, <3>2 DEF PopSelf
  <2>2. CASE Top.kind # "method"
    BY <1>3, <2>2 DEF PopSelf
  <2> QED BY <2>1, <2>2
<1>5. StackInv'
  <2>1. ASSUME NEW k \in 1..n
        PROVE  frames'[k].inner = IF Depth(frames', k) = 0 THEN 0
                                  ELSE selfStack'[Depth(frames', k)]
    <3>1. k \in Nat /\ k <= n /\ k \in 0..n /\ k \in 1..Len(frames)
      BY <1>1
    <3>2. Depth(frames, k) \in Nat /\ Depth(frames, k) <= Depth(frames, n)
      BY <1>1, <3>1, DepthNat, DepthMono
    <3>3. frames[k].inner = IF Depth(frames, k) = 0 THEN 0 ELSE selfStack[Depth(frames, k)]
      BY <3>1 DEF BodyInv, StackInv
    <3>4. Depth(frames, k) # 0 => selfStack'[Depth(frames, k)] = selfStack[Depth(frames, k)]
      BY <1>3, <1>4, <3>2
    <3> QED BY <1>1, <1>2, <3>1, <3>3, <3>4
  <2>2. Depth(frames', n) = Depth(frames, n)
    BY <1>1, <1>2
  <2> QED BY <1>1, <1>4, <2>1, <2>2 DEF StackInv
<1>6. MethodInv'
  BY <1>1 DEF BodyInv, MethodInv
<1>7. FirstInv' /\ ModuleInv'
  BY <1>1 DEF BodyInv, FirstInv, ModuleInv
<1> QED BY <1>5, <1>6, <1>7 DEF BodyInv

(* No body is open, and no receiver is left. *)
LEMMA NoBodies ==
  ASSUME frames' = <<>>, selfStack' = <<>>, currentModule' = Root
  PROVE  BodyInv'
<1>1. Len(frames') = 0 /\ Len(selfStack') = 0
  BY EmptySeq
<1> QED BY <1>1, DepthZero DEF BodyInv, FirstInv, StackInv, MethodInv, ModuleInv

(* The module that is put back is the entry module. *)
LEMMA PutBackRoot ==
  ASSUME BodyInv, frames # <<>>
  PROVE  PutBack = Root
BY DEF PutBack, BodyInv, ModuleInv

(* An error leaves every body and pops every receiver. *)
LEMMA UnwindAll ==
  ASSUME TypeOK, BodyInv, frames # <<>>, Unwind
  PROVE  BodyInv'
<1>1. DOMAIN frames = 1..Len(frames)
  BY StateFacts, LenProperties
<1>2. OpenMethods = Len(selfStack)
  BY <1>1 DEF OpenMethods, BodyInv, StackInv, Depth, MethodsTo
<1>3. selfStack' = SubSeq(selfStack, 1, 0)
  BY <1>2, StateFacts DEF Unwind
<1>4. selfStack' = <<>>
  BY <1>3, SubSeqEmpty
<1> QED BY <1>4, NoBodies, PutBackRoot DEF Unwind

(* No body is opened or left, and instances stay as they are. *)
LEMMA SameBodies ==
  ASSUME BodyInv, UNCHANGED <<frames, selfStack, currentModule>>,
         \A i \in DOMAIN instances : i \in DOMAIN instances' /\ instances'[i] = instances[i]
  PROVE  BodyInv'
BY DEF BodyInv, FirstInv, StackInv, MethodInv, ModuleInv
-----------------------------------------------------------------------------
(* A body of a module, of a function or of a method is a frame. *)
LEMMA NewFrame ==
  ASSUME NEW kind \in Kinds, NEW home \in Homes, NEW class \in Names \union {""}, NEW inner \in Nat
  PROVE  [kind |-> kind, home |-> home, class |-> class, inner |-> inner] \in Frame
BY DEF Frame

(* A class statement says its name and its module. *)
LEMMA DefFacts ==
  ASSUME NEW d \in Defs
  PROVE  Name[d] \in Names /\ Home[d] \in Homes
BY AccessAssumption DEF Names

(* What an error leaves has its types. *)
LEMMA UnwindType ==
  ASSUME TypeOK, BodyInv, frames # <<>>, Unwind
  PROVE  TypeOK'
<1>1. frames' = <<>> /\ frames' \in Seq(Frame)
  BY EmptySeq DEF Unwind
<1>2. BodyInv' /\ UNCHANGED <<classDefs, loaded, instances>> /\ items' = Dropped
  BY UnwindAll DEF Unwind
<1>3. Len(selfStack') = 0 /\ selfStack' = <<>>
  <2>1. DOMAIN frames = 1..Len(frames)
    BY StateFacts, LenProperties
  <2>2. OpenMethods = Len(selfStack)
    BY <2>1 DEF OpenMethods, BodyInv, StackInv, Depth, MethodsTo
  <2>3. selfStack' = SubSeq(selfStack, 1, 0)
    BY <2>2, StateFacts DEF Unwind
  <2> QED BY <2>3, SubSeqEmpty, EmptySeq
<1>4. selfStack' \in Seq(DOMAIN instances')
  BY <1>3, EmptySeq
<1>5. items' \in [Homes -> SUBSET Entries]
  BY <1>2 DEF Dropped, TypeOK
<1>6. currentModule' \in Homes
  BY PutBackRoot DEF Unwind, Homes
<1> QED BY <1>1, <1>2, <1>4, <1>5, <1>6 DEF TypeOK

(* An entry registered for a class is of a class statement of that name. *)
LEMMA EntryFacts ==
  ASSUME TypeOK, RegistryInv, NEW n \in Names, NEW e \in classDefs[n]
  PROVE  e \in Entries /\ e.def \in Defs /\ e.module \in Homes /\ Name[e.def] = n
         /\ Home[e.def] \in Homes
<1>1. e \in Entries
  BY DEF TypeOK
<1> QED BY <1>1, DefFacts DEF Entries, RegistryInv

(* The same of the class an instance names. *)
LEMMA InstanceEntry ==
  ASSUME TypeOK, RegistryInv, NEW id \in DOMAIN instances, NEW e \in DefOf(id)
  PROVE  /\ instances[id].class \in Names
         /\ e.def \in Defs /\ e.module \in Homes /\ Home[e.def] \in Homes
         /\ Name[e.def] = instances[id].class
<1>1. instances[id].class \in Names
  BY StateFacts
<1> QED BY <1>1, EntryFacts DEF DefOf
-----------------------------------------------------------------------------
(* What each step does to the bodies, the registry and the types. *)
Kept == TypeOK /\ BodyInv /\ RegistryInv

LEMMA EnterKeeps ==
  ASSUME Kept, NEW m \in Homes, Enter(m)
  PROVE  Kept'
<1> USE DEF Kept
<1> DEFINE f == [kind |-> "imports", home |-> m, class |-> "", inner |-> 0]
<1>1. f \in Frame
  BY NewFrame DEF Kinds
<1>2. frames = <<>> /\ frames' = Append(frames, f)
      /\ UNCHANGED <<classDefs, items, loaded, instances, selfStack>>
  BY DEF Enter, Push
<1>3. currentModule' = f.home
  BY <1>2 DEF Enter, BodyInv, ModuleInv
<1>4. BodyInv'
  BY <1>1, <1>2, <1>3, OpenFirst
<1>5. TypeOK'
  BY <1>1, <1>2, <1>3, AppendProperties DEF TypeOK
<1>6. RegistryInv'
  BY <1>2 DEF RegistryInv
<1> QED BY <1>4, <1>5, <1>6

LEMMA ImportKeeps ==
  ASSUME Kept, NEW m \in Homes, Import(m)
  PROVE  Kept'
<1> USE DEF Kept
<1>1. PICK chosen \in SUBSET items[m] : classDefs' = Registered(classDefs, chosen)
  BY DEF Import
<1>2. UNCHANGED <<items, loaded, instances, selfStack, currentModule, frames>>
  BY DEF Import
<1>3. chosen \subseteq Entries
  BY DEF TypeOK
<1>4. classDefs' \in [Names -> SUBSET Entries]
  BY <1>1, <1>3 DEF Registered, TypeOK
<1>5. RegistryInv'
  BY <1>1 DEF Registered, RegistryInv
<1>6. BodyInv'
  BY <1>2, SameBodies
<1> QED BY <1>2, <1>4, <1>5, <1>6 DEF TypeOK

LEMMA BeginCodeKeeps ==
  ASSUME Kept, BeginCode
  PROVE  Kept'
<1> USE DEF Kept
<1> DEFINE n == Len(frames)
           f == [frames[n] EXCEPT !.kind = "body"]
<1>1. /\ frames # <<>> /\ frames[n].kind = "imports" /\ frames' = [frames EXCEPT ![n] = f]
      /\ UNCHANGED <<classDefs, items, loaded, instances, selfStack, currentModule>>
  BY DEF BeginCode, Top
<1>2. n \in Nat /\ n >= 1 /\ n \in 1..n /\ frames[n] \in Frame
  BY <1>1, TopFacts, StateFacts
<1>3. f \in Frame /\ f.kind = "body" /\ f.home = frames[n].home /\ f.inner = frames[n].inner
  BY <1>2 DEF Frame, Kinds
<1>4. /\ frames' \in Seq(Frame) /\ Len(frames') = n
      /\ \A i \in 1..n : frames'[i] = IF i = n THEN f ELSE frames[i]
  <2> HIDE DEF f
  <2> QED BY <1>1, <1>2, <1>3, StateFacts, ExceptSeq
<1>5. TypeOK'
  BY <1>1, <1>4 DEF TypeOK
<1>6. \A k \in 0..n : Depth(frames', k) = Depth(frames, k)
  <2> SUFFICES ASSUME NEW k \in 0..n PROVE Depth(frames', k) = Depth(frames, k)
    OBVIOUS
  <2>1. k \in Nat /\ \A i \in 1..k : i \in 1..n
    BY <1>2
  <2>2. \A i \in 1..k : frames'[i].kind = "method" <=> frames[i].kind = "method"
    BY <1>1, <1>3, <1>4, <2>1
  <2> QED BY <2>1, <2>2, DepthSame
<1>7. \A i \in 1..n : /\ frames'[i].inner = frames[i].inner
                      /\ frames'[i].home = frames[i].home
                      /\ frames'[i].kind = "method" =>
                           frames[i].kind = "method" /\ frames'[i].class = frames[i].class
  BY <1>3, <1>4
<1>8. StackInv'
  <2>1. Len(selfStack) = Depth(frames, n)
    BY DEF BodyInv, StackInv
  <2>2. \A k \in 1..n : frames[k].inner = IF Depth(frames, k) = 0 THEN 0
                                          ELSE selfStack[Depth(frames, k)]
    BY DEF BodyInv, StackInv
  <2>3. selfStack' = selfStack /\ n \in 0..n /\ \A k \in 1..n : k \in 0..n
    BY <1>1, <1>2
  <2> HIDE DEF f, n
  <2> QED BY <1>4, <1>6, <1>7, <2>1, <2>2, <2>3 DEF StackInv
<1>9. MethodInv'
  BY <1>1, <1>4, <1>7 DEF BodyInv, MethodInv
<1>10. frames' # <<>> /\ 1 \in 1..n
  BY <1>2, <1>4, EmptySeq
<1>11. FirstInv'
  BY <1>1, <1>3, <1>4, <1>10 DEF BodyInv, FirstInv
<1>12. ModuleInv'
  BY <1>1, <1>7, <1>10 DEF BodyInv, ModuleInv
<1>13. RegistryInv'
  BY <1>1 DEF RegistryInv
<1> QED BY <1>5, <1>8, <1>9, <1>11, <1>12, <1>13 DEF BodyInv

(* A function or an associated function is called. *)
LEMMA CallKeeps ==
  ASSUME Kept, frames # <<>>, NEW kind \in Kinds \ {"method"}, NEW home \in Homes,
         NEW class \in Names \union {""}, Push(kind, home, class, Top.inner),
         UNCHANGED <<classDefs, items, loaded, instances, selfStack, currentModule>>
  PROVE  Kept'
<1> USE DEF Kept
<1> DEFINE f == [kind |-> kind, home |-> home, class |-> class, inner |-> Top.inner]
<1>1. Top.inner \in Nat
  BY TopFacts DEF Frame
<1>2. f \in Frame /\ frames' = Append(frames, f) /\ f.kind # "method" /\ f.inner = Top.inner
  BY <1>1, NewFrame DEF Push
<1>3. frames' \in Seq(Frame)
  BY <1>2, StateFacts, AppendProperties
<1>4. BodyInv'
  BY <1>2, OpenInner
<1> QED BY <1>3, <1>4 DEF TypeOK, RegistryInv

LEMMA CallFunctionKeeps ==
  ASSUME Kept, NEW h \in Homes, CallFunction(h)
  PROVE  Kept'
<1>1. frames # <<>> /\ "fn" \in Kinds \ {"method"}
  BY DEF CallFunction, Running, Kinds
<1> QED BY <1>1, CallKeeps DEF CallFunction

LEMMA CallAssociatedKeeps ==
  ASSUME Kept, NEW n \in Names, NEW m \in Members, CallAssociated(n, m)
  PROVE  Kept'
<1>1. frames # <<>> /\ "associated" \in Kinds \ {"method"}
  BY DEF CallAssociated, Running, Kinds
<1>2. PICK e \in classDefs[n] : Push("associated", Home[e.def], n, Top.inner)
  BY DEF CallAssociated
<1>3. Home[e.def] \in Homes
  BY EntryFacts DEF Kept
<1> QED BY <1>1, <1>2, <1>3, CallKeeps DEF CallAssociated

LEMMA ReturnKeeps ==
  ASSUME Kept, Return
  PROVE  Kept'
<1> USE DEF Kept
<1>1. /\ frames # <<>> /\ Len(frames) > 1 /\ frames' = Front(frames) /\ selfStack' = PopSelf
      /\ UNCHANGED <<classDefs, items, loaded, instances, currentModule>>
  BY DEF Return, Running
<1>2. BodyInv'
  BY <1>1, CloseInner
<1>3. frames' \in Seq(Frame)
  BY <1>1, StateFacts, FrontFacts
<1>4. selfStack' \in Seq(DOMAIN instances)
  <2>1. CASE Top.kind = "method"
    <3>1. Depth(frames, Len(frames) - 1) \in Nat
          /\ Depth(frames, Len(frames)) = Depth(frames, Len(frames) - 1) + 1
      <4> DEFINE k == Len(frames) - 1
      <4>1. k \in Nat /\ Len(frames) = k + 1 /\ frames[k + 1].kind = "method"
        BY <1>1, <2>1, StateFacts DEF Top
      <4> HIDE DEF k
      <4>2. Depth(frames, k + 1) = Depth(frames, k) + 1 /\ Depth(frames, k) \in Nat
        BY <4>1, DepthNat, DepthStep
      <4> QED BY <4>1, <4>2 DEF k
    <3>2. selfStack # <<>>
      BY <3>1, StateFacts DEF BodyInv, StackInv
    <3> QED BY <1>1, <2>1, <3>2, StateFacts, FrontFacts DEF PopSelf
  <2>2. CASE Top.kind # "method"
    BY <1>1, <2>2, StateFacts DEF PopSelf
  <2> QED BY <2>1, <2>2
<1> QED BY <1>1, <1>2, <1>3, <1>4 DEF TypeOK, RegistryInv

LEMMA LeaveKeeps ==
  ASSUME Kept, Leave
  PROVE  Kept'
<1> USE DEF Kept
<1>1. /\ frames # <<>> /\ Len(frames) = 1 /\ frames' = <<>> /\ Top = frames[1]
      /\ Top.kind # "imports" /\ currentModule' = PutBack
      /\ loaded' = loaded \union ({Top.home} \ {Root})
      /\ UNCHANGED <<classDefs, items, instances, selfStack>>
  BY DEF Leave, Running, Top
<1>2. Depth(frames, 1) = 0
  <2>1. frames[1].kind = "body"
    BY <1>1 DEF BodyInv, FirstInv
  <2>2. Depth(frames, 0) = 0 /\ Depth(frames, 0 + 1) = Depth(frames, 0)
    BY <2>1, DepthZero, DepthStep
  <2> QED BY <2>2
<1>3. selfStack' = <<>> /\ currentModule' = Root
  BY <1>1, <1>2, StateFacts, PutBackRoot DEF BodyInv, StackInv
<1>4. BodyInv'
  BY <1>1, <1>3, NoBodies
<1>5. frames' \in Seq(Frame) /\ loaded' \subseteq Modules /\ currentModule' \in Homes
  BY <1>1, <1>3, TopFacts, EmptySeq DEF TypeOK, Frame, Homes
<1> QED BY <1>1, <1>4, <1>5 DEF TypeOK, RegistryInv

(* An error, whether or not it is a refusal. *)
LEMMA UnwindKeeps ==
  ASSUME Kept, frames # <<>>, Unwind
  PROVE  Kept'
<1>1. UNCHANGED classDefs
  BY DEF Unwind
<1> QED BY <1>1, UnwindType, UnwindAll DEF Kept, RegistryInv

LEMMA DefineKeeps ==
  ASSUME Kept, NEW d \in Defs, Define(d)
  PROVE  Kept'
<1> USE DEF Kept
<1> DEFINE entry == [def |-> d, module |-> currentModule]
<1>1. /\ frames # <<>>
      /\ classDefs' = [classDefs EXCEPT ![Name[d]] = {entry}]
      /\ items' = IF Top.kind = "body" /\ d \in Exported
                  THEN [items EXCEPT ![Top.home] =
                          {e \in items[Top.home] : Name[e.def] # Name[d]} \union {entry}]
                  ELSE items
      /\ UNCHANGED <<loaded, instances, selfStack, currentModule, frames>>
  BY DEF Define, Running
<1>2. entry \in Entries /\ entry.def = d
  BY DEF Entries, TypeOK
<1>3. Top.home \in Homes
  BY <1>1, TopFacts DEF Frame
<1> HIDE DEF entry
<1>4. classDefs' \in [Names -> SUBSET Entries] /\ items' \in [Homes -> SUBSET Entries]
  BY <1>1, <1>2, <1>3 DEF TypeOK
<1>5. RegistryInv'
  BY <1>1, <1>2 DEF TypeOK, RegistryInv
<1>6. BodyInv'
  BY <1>1, SameBodies
<1> QED BY <1>1, <1>4, <1>5, <1>6 DEF TypeOK

LEMMA ConstructKeeps ==
  ASSUME Kept, NEW n \in Names, NEW given \in SUBSET Members, NEW b \in {0} \union Handles,
         Construct(n, given, b)
  PROVE  Kept'
<1> USE DEF Kept
<1> DEFINE fields == given \union (IF b = 0 THEN {} ELSE instances[b].fields)
           made == [class |-> n, fields |-> fields]
           Made == [class : Names, fields : SUBSET Members]
<1>1. /\ BaseFits(b, n) /\ instances' = Append(instances, made)
      /\ UNCHANGED <<classDefs, items, loaded, selfStack, currentModule, frames>>
  BY DEF Construct
<1>2. fields \in SUBSET Members
  <2>1. b # 0 => instances[b].fields \in SUBSET Members
    BY <1>1, StateFacts DEF BaseFits
  <2> QED BY <2>1
<1>3. made \in Made
  BY <1>2
<1>4. instances \in Seq(Made)
  BY DEF TypeOK
<1> HIDE DEF made, Made
<1>5. /\ instances' \in Seq(Made) /\ Len(instances') = Len(instances) + 1
      /\ \A i \in 1..Len(instances) : instances'[i] = instances[i]
      /\ DOMAIN instances' = 1..Len(instances')
  BY <1>1, <1>3, <1>4, AppendProperties, LenProperties
<1>6. DOMAIN instances \subseteq DOMAIN instances'
  BY <1>5, StateFacts
<1>7. selfStack' \in Seq(DOMAIN instances')
  BY <1>1, <1>6, StateFacts, SeqMonotonic
<1>8. BodyInv'
  BY <1>1, <1>5, <1>6, StateFacts, SameBodies
<1> QED BY <1>1, <1>5, <1>7, <1>8 DEF TypeOK, RegistryInv, Made

(* A step that only uses a member. *)
LEMMA SameKeeps ==
  ASSUME Kept,
         UNCHANGED <<classDefs, items, loaded, instances, selfStack, currentModule, frames>>
  PROVE  Kept'
BY SameBodies DEF Kept, TypeOK, RegistryInv

LEMMA ReadFieldKeeps ==
  ASSUME Kept, NEW id \in Handles, NEW f \in Members, ReadField(id, f)
  PROVE  Kept'
<1>1. frames # <<>>
  BY DEF ReadField, Running
<1>2. \/ Unwind
      \/ UNCHANGED <<classDefs, items, loaded, instances, selfStack, currentModule, frames>>
  BY DEF ReadField, Denied
<1> QED BY <1>1, <1>2, UnwindKeeps, SameKeeps

(* A method's body is opened, by either of its ways. *)
LEMMA OpenMethodKeeps ==
  ASSUME Kept, frames # <<>>, NEW id \in DOMAIN instances, NEW e \in DefOf(id), OpenMethod(id, e)
  PROVE  Kept'
<1> USE DEF Kept
<1> DEFINE f == [kind |-> "method", home |-> Home[e.def], class |-> Name[e.def], inner |-> id]
<1>1. /\ frames' = Append(frames, f) /\ selfStack' = Append(selfStack, id)
      /\ UNCHANGED <<classDefs, items, loaded, instances, currentModule>>
  BY DEF OpenMethod, Push
<1>2. /\ instances[id].class \in Names /\ Home[e.def] \in Homes
      /\ Name[e.def] = instances[id].class /\ id \in Nat
  BY InstanceEntry, StateFacts
<1>3. f \in Frame
  BY <1>2, NewFrame DEF Kinds
<1>4. frames' \in Seq(Frame) /\ selfStack' \in Seq(DOMAIN instances)
  BY <1>1, <1>3, StateFacts, AppendProperties
<1>5. BodyInv'
  BY <1>1, <1>2, <1>3, OpenMethodInner
<1> QED BY <1>1, <1>4, <1>5 DEF TypeOK, RegistryInv

LEMMA CallMethodKeeps ==
  ASSUME Kept, NEW id \in Handles, NEW m \in Members, CallMethod(id, m)
  PROVE  Kept'
<1>1. frames # <<>> /\ id \in DOMAIN instances
  BY DEF CallMethod, Running
<1>2. Unwind \/ \E e \in DefOf(id) : OpenMethod(id, e)
  BY DEF CallMethod, Denied
<1> QED BY <1>1, <1>2, UnwindKeeps, OpenMethodKeeps

LEMMA VmCallMethodKeeps ==
  ASSUME Kept, NEW id \in Handles, NEW m \in Members, VmCallMethod(id, m)
  PROVE  Kept'
<1>1. frames # <<>> /\ id \in DOMAIN instances
  BY DEF VmCallMethod, Running
<1>2. \E e \in DefOf(id) : OpenMethod(id, e)
  BY DEF VmCallMethod
<1> QED BY <1>1, <1>2, OpenMethodKeeps
-----------------------------------------------------------------------------
(* The three properties are about the use that the step makes.  A use that *)
(* is judged is of a member of a registered class, by the body on top.     *)
LEMMA JudgedUse ==
  ASSUME Kept, frames # <<>>, NEW way, NEW vis, NEW ok \in BOOLEAN,
         NEW n \in Names, NEW e \in classDefs[n],
         ok = Accessible(e, vis),
         Use(way, e, vis, ok), instances' = instances
  PROVE  UseInv'
<1> USE DEF Kept
<1> DEFINE a == [way |-> way, vis |-> vis, class |-> Name[e.def], module |-> e.module,
                 by |-> Top, load |-> frames[1].home, ok |-> ok]
<1>1. access' = {a}
  BY DEF Use
<1>2. Top.inner = IF selfStack = <<>> THEN 0 ELSE Last(selfStack)
  BY TopReceiver
<1>3. selfStack # <<>> => Last(selfStack) \in DOMAIN instances
  <2>1. selfStack # <<>> => Len(selfStack) \in 1..Len(selfStack)
    BY StateFacts
  <2> QED BY <2>1, StateFacts, ElementOfSeq DEF Last
<1>4. 0 \notin DOMAIN instances
  BY StateFacts
<1>5. vis = "priv" => (ok <=> selfStack # <<>> /\ instances[Last(selfStack)].class = Name[e.def])
  BY DEF Accessible, InMethodOf
<1>6. vis = "mod" => (ok <=> currentModule = e.module)
  BY DEF Accessible
<1>7. PrivateInsideMethods'
  BY <1>1, <1>2, <1>3, <1>5 DEF PrivateInsideMethods
<1>8. OwnMembersOpen'
  <2>1. Top.kind = "method" => /\ Top.inner \in DOMAIN instances
                               /\ instances[Top.inner].class = Top.class
    BY TopFacts, StateFacts DEF BodyInv, MethodInv
  <2> QED BY <1>1, <1>2, <1>4, <1>5, <2>1 DEF OwnMembersOpen
<1>9. JudgedByLoad'
  BY <1>1, <1>6 DEF JudgedByLoad, BodyInv, ModuleInv
<1> QED BY <1>7, <1>8, <1>9 DEF UseInv

(* A use that is not judged is never a refusal. *)
LEMMA FreeUse ==
  ASSUME NEW way \in {"vm", "pattern", "associated"}, NEW e, NEW vis, Use(way, e, vis, TRUE)
  PROVE  UseInv'
BY DEF Use, UseInv, Checked, PrivateInsideMethods, OwnMembersOpen, JudgedByLoad

(* A step that uses no member. *)
LEMMA NoUse ==
  ASSUME access' = {}
  PROVE  UseInv'
BY DEF UseInv, PrivateInsideMethods, OwnMembersOpen, JudgedByLoad

(* A member looked up through the instance, by its checked ways. *)
LEMMA MemberUse ==
  ASSUME Kept, Running, NEW id \in DOMAIN instances, NEW e \in DefOf(id), NEW way, NEW vis,
         \/ Denied(way, e, vis)
         \/ Accessible(e, vis) /\ Use(way, e, vis, TRUE) /\ instances' = instances
  PROVE  UseInv'
<1>1. frames # <<>> /\ instances[id].class \in Names /\ e \in classDefs[instances[id].class]
  BY InstanceEntry DEF Kept, Running, DefOf
<1>2. CASE Denied(way, e, vis)
  <2>1. FALSE = Accessible(e, vis) /\ Use(way, e, vis, FALSE) /\ instances' = instances
    BY <1>2 DEF Denied, Unwind, Accessible
  <2> QED BY <1>1, <2>1, JudgedUse
<1>3. CASE Accessible(e, vis) /\ Use(way, e, vis, TRUE) /\ instances' = instances
  <2>1. TRUE = Accessible(e, vis)
    BY <1>3 DEF Accessible
  <2> QED BY <1>1, <1>3, <2>1, JudgedUse
<1> QED BY <1>2, <1>3
-----------------------------------------------------------------------------
LEMMA InitInv == Init => IInv
<1> SUFFICES ASSUME Init PROVE IInv
  OBVIOUS
<1>1. /\ classDefs = [n \in Names |-> {}] /\ items = [m \in Homes |-> {}] /\ loaded = {}
      /\ instances = <<>> /\ selfStack = <<>> /\ currentModule = Root /\ frames = <<>>
      /\ access = {}
  BY DEF Init
<1>2. Len(frames) = 0 /\ Len(selfStack) = 0
  BY <1>1, EmptySeq
<1>3. instances \in Seq([class : Names, fields : SUBSET Members]) /\ frames \in Seq(Frame)
      /\ selfStack \in Seq(DOMAIN instances)
  BY <1>1, EmptySeq
<1>4. TypeOK
  BY <1>1, <1>3 DEF TypeOK, Homes
<1>5. BodyInv
  BY <1>1, <1>2, DepthZero DEF BodyInv, FirstInv, StackInv, MethodInv, ModuleInv
<1>6. RegistryInv /\ UseInv
  BY <1>1 DEF RegistryInv, UseInv, PrivateInsideMethods, OwnMembersOpen,
              JudgedByLoad
<1> QED BY <1>4, <1>5, <1>6 DEF IInv

LEMMA StepInv == IInv /\ [Next]_vars => IInv'
<1> SUFFICES ASSUME IInv, [Next]_vars PROVE IInv'
  OBVIOUS
<1>0. Kept
  BY DEF IInv, Kept
<1>1. Kept' /\ UseInv' => IInv'
  BY DEF IInv, Kept
<1>2. ASSUME NEW m \in Homes, Enter(m) PROVE IInv'
  BY <1>0, <1>1, <1>2, EnterKeeps, NoUse DEF Enter
<1>3. ASSUME NEW m \in Homes, Import(m) PROVE IInv'
  BY <1>0, <1>1, <1>3, ImportKeeps, NoUse DEF Import
<1>4. ASSUME NEW m \in Homes, CallFunction(m) PROVE IInv'
  BY <1>0, <1>1, <1>4, CallFunctionKeeps, NoUse DEF CallFunction
<1>5. ASSUME BeginCode PROVE IInv'
  BY <1>0, <1>1, <1>5, BeginCodeKeeps, NoUse DEF BeginCode
<1>6. ASSUME Return PROVE IInv'
  BY <1>0, <1>1, <1>6, ReturnKeeps, NoUse DEF Return
<1>7. ASSUME Leave PROVE IInv'
  BY <1>0, <1>1, <1>7, LeaveKeeps, NoUse DEF Leave
<1>8. ASSUME Fail PROVE IInv'
  BY <1>0, <1>1, <1>8, UnwindKeeps, NoUse DEF Fail
<1>9. ASSUME NEW d \in Defs, Define(d) PROVE IInv'
  BY <1>0, <1>1, <1>9, DefineKeeps, NoUse DEF Define
<1>10. ASSUME NEW n \in Names, NEW given \in SUBSET Members, NEW b \in {0} \union Handles,
              Construct(n, given, b)
       PROVE  IInv'
  BY <1>0, <1>1, <1>10, ConstructKeeps, NoUse DEF Construct
<1>11. ASSUME NEW id \in Handles, NEW f \in Members, ReadField(id, f) PROVE IInv'
  <2>1. Running /\ id \in DOMAIN instances
    BY <1>11 DEF ReadField
  <2>2. PICK e \in DefOf(id) :
          \/ Denied("field", e, Fields[e.def][f])
          \/ /\ Accessible(e, Fields[e.def][f])
             /\ Use("field", e, Fields[e.def][f], TRUE)
             /\ instances' = instances
    BY <1>11 DEF ReadField
  <2>3. UseInv'
    BY <1>0, <2>1, <2>2, MemberUse
  <2> QED BY <1>0, <1>1, <1>11, <2>3, ReadFieldKeeps
<1>12. ASSUME NEW id \in Handles, NEW f \in Members, MatchField(id, f) PROVE IInv'
  <2>1. UseInv'
    BY <1>12, FreeUse DEF MatchField
  <2> QED BY <1>0, <1>1, <1>12, <2>1, SameKeeps DEF MatchField
<1>13. ASSUME NEW id \in Handles, NEW m \in Members, CallMethod(id, m) PROVE IInv'
  <2>1. Running /\ id \in DOMAIN instances
    BY <1>13 DEF CallMethod
  <2>2. PICK e \in DefOf(id) :
          \/ Denied("method", e, Methods[e.def][m])
          \/ /\ Accessible(e, Methods[e.def][m])
             /\ Use("method", e, Methods[e.def][m], TRUE)
             /\ instances' = instances
    BY <1>13 DEF CallMethod, OpenMethod
  <2>3. UseInv'
    BY <1>0, <2>1, <2>2, MemberUse
  <2> QED BY <1>0, <1>1, <1>13, <2>3, CallMethodKeeps
<1>14. ASSUME NEW id \in Handles, NEW m \in Members, VmCallMethod(id, m) PROVE IInv'
  <2>1. UseInv'
    BY <1>14, FreeUse DEF VmCallMethod
  <2> QED BY <1>0, <1>1, <1>14, <2>1, VmCallMethodKeeps
<1>15. ASSUME NEW n \in Names, NEW m \in Members, CallAssociated(n, m) PROVE IInv'
  <2>1. UseInv'
    BY <1>15, FreeUse DEF CallAssociated
  <2> QED BY <1>0, <1>1, <1>15, <2>1, CallAssociatedKeeps
<1>16. ASSUME UNCHANGED vars PROVE IInv'
  <2>1. UseInv'
    BY <1>16 DEF vars, IInv, UseInv, Checked, PrivateInsideMethods, OwnMembersOpen,
                 JudgedByLoad
  <2> QED BY <1>0, <1>1, <1>16, <2>1, SameKeeps DEF vars
<1> QED
  BY <1>2, <1>3, <1>4, <1>5, <1>6, <1>7, <1>8, <1>9, <1>10, <1>11, <1>12, <1>13, <1>14, <1>15,
     <1>16 DEF Next

LEMMA Inductive == Spec => []IInv
BY InitInv, StepInv, PTL DEF Spec

(* The registry, the instances, the receivers and the open bodies have     *)
(* their types in every state.                                             *)
THEOREM AccessTypes == Spec => []TypeOK
<1>1. IInv => TypeOK
  BY DEF IInv
<1> QED BY <1>1, Inductive, PTL

(* A private member that is checked is open only inside a method of its    *)
(* class, however the bodies before ended: `in_method_of` may ask the top  *)
(* of the receiver stack.                                                  *)
THEOREM PrivateMembers == Spec => []PrivateInsideMethods
<1>1. IInv => PrivateInsideMethods
  BY DEF IInv, UseInv
<1> QED BY <1>1, Inductive, PTL

(* A method is never refused a private member of its own class.            *)
THEOREM OwnMembers == Spec => []OwnMembersOpen
<1>1. IInv => OwnMembersOpen
  BY DEF IInv, UseInv
<1> QED BY <1>1, Inductive, PTL

(* A `pub(mod)` member that is checked is open to code of its module while *)
(* that module is evaluated and closed to others while another is, after   *)
(* failed loads as well.                                                   *)
THEOREM ModuleMembers == Spec => []ModuleMembersByModule
<1>1. IInv => ModuleMembersByModule
  BY DEF IInv, UseInv, JudgedByLoad, ModuleMembersByModule
<1> QED BY <1>1, Inductive, PTL
=============================================================================
