----------------------------- MODULE CallTiersProofs -----------------------------
(***************************************************************************)
(* Proofs about the calls of a `fn` (CallTiers): the types, the callee     *)
(* cache, that the tiers agree with the interpreter, and that falling back *)
(* loses nothing.                                                          *)
(*                                                                         *)
(* What a call means is written as the pieces its steps print and answer,  *)
(* put together (FlattenSeq); Joined(F, k) is the first k pieces.          *)
(* SameAsInterpreter speaks of calls that ended, so the invariant          *)
(* IInv adds what an open call has printed and answered so far (SoFar), in *)
(* which tier it may be and where f waits for g (ActsInv), that the caches *)
(* hold code of bodies their tiers accept (CodeInv), and that the meaning  *)
(* taken down at the call is the meaning now (MeantInv).  Each lemma       *)
(* XKeeps is one action.                                                   *)
(*                                                                         *)
(* NothingLost speaks of all calls, careful or not; its invariant LInv     *)
(* counts what is printed: never less than what the open calls have done   *)
(* (Printed), since a body that starts over only counts as less done.      *)
(* Each lemma XPrinted is one action.                                      *)
(***************************************************************************)
EXTENDS CallTiers, SequenceTheorems, FiniteSetTheorems, WellFoundedInduction, TLAPS
-----------------------------------------------------------------------------
(* Induction over the naturals, through least elements. *)
LEMMA LeastElement ==
  ASSUME NEW T \in SUBSET Nat, T # {}
  PROVE  \E m \in T : \A n \in T : m <= n
<1> DEFINE R == OpToRel(<, Nat)
<1>1. IsWellFoundedOn(R, Nat)
  BY NatLessThanWellFounded
<1>2. \A y, x \in Nat : y < x => <<y, x>> \in R
  BY DEF OpToRel
<1> HIDE DEF R
<1>3. PICK m \in T : \A y \in T : ~(<<y, m>> \in R)
  BY <1>1, WFMin
<1>4. \A n \in T : m <= n
  <2> TAKE n \in T
  <2>1. n \in Nat /\ m \in Nat
    OBVIOUS
  <2>2. ~(n < m)
    BY <1>2, <1>3, <2>1, Zenon
  <2> QED BY <2>1, <2>2
<1> QED BY <1>4

(* A set of naturals that holds 0 and each next number up to n. *)
LEMMA UpTo ==
  ASSUME NEW n \in Nat, NEW T, 0 \in T, \A k \in Nat : k < n /\ k \in T => k + 1 \in T
  PROVE  \A k \in 0..n : k \in T
<1> DEFINE bad == {k \in 0..n : k \notin T}
<1> SUFFICES ASSUME bad # {} PROVE FALSE
  OBVIOUS
<1>0. bad \in SUBSET Nat /\ bad # {}
  OBVIOUS
<1>1. PICK m \in bad : \A k \in bad : m <= k
  <2> HIDE DEF bad
  <2> QED BY <1>0, LeastElement
<1>2. m \in 0..n /\ m \notin T /\ m # 0
  OBVIOUS
<1>3. m - 1 \in Nat /\ m - 1 \in 0..n /\ m - 1 < n /\ (m - 1) + 1 = m /\ ~(m <= m - 1)
  BY <1>2
<1>4. m - 1 \in T
  BY <1>1, <1>3
<1> QED BY <1>2, <1>3, <1>4
-----------------------------------------------------------------------------
(* The pieces of a sequence of sequences, put together up to n: what the   *)
(* recursive function inside FlattenSeq is.                                *)
FlatStep(h, s, i) == IF i = 1 THEN s[i] ELSE h[i - 1] \o s[i]
Solves(h, s, n) == h = [i \in 1..n |-> FlatStep(h, s, i)]

LEMMA SolvesExists ==
  ASSUME NEW s, NEW n \in Nat
  PROVE  \E h : Solves(h, s, n)
<1> DEFINE T == {k \in Nat : \E h : Solves(h, s, k)}
<1>1. 0 \in T
  <2> DEFINE h == [i \in 1..0 |-> FlatStep(<<>>, s, i)]
  <2>1. h = [i \in 1..0 |-> FlatStep(h, s, i)]
    OBVIOUS
  <2> HIDE DEF h
  <2>2. Solves(h, s, 0)
    BY <2>1 DEF Solves
  <2> QED BY <2>2
<1>2. ASSUME NEW k \in Nat, k \in T PROVE k + 1 \in T
  <2>1. PICK h : Solves(h, s, k)
    BY <1>2
  <2> DEFINE e == [i \in 1..(k + 1) |-> IF i <= k THEN h[i] ELSE FlatStep(h, s, i)]
  <2>2. \A i \in 1..k : e[i] = h[i] /\ h[i] = FlatStep(h, s, i)
    <3>1. \A i \in 1..k : h[i] = FlatStep(h, s, i)
      BY <2>1 DEF Solves
    <3> QED BY <3>1
  <2>3. e[k + 1] = FlatStep(h, s, k + 1)
    OBVIOUS
  <2>4. DOMAIN e = 1..(k + 1) /\ e = [i \in 1..(k + 1) |-> e[i]]
    OBVIOUS
  <2> HIDE DEF e
  <2>5. ASSUME NEW i \in 1..(k + 1) PROVE e[i] = FlatStep(e, s, i)
    <3>1. i = 1 \/ (i - 1 \in 1..k)
      OBVIOUS
    <3>2. i = 1 \/ e[i - 1] = h[i - 1]
      BY <2>2, <3>1
    <3>3. FlatStep(e, s, i) = FlatStep(h, s, i)
      BY <3>2 DEF FlatStep
    <3>4. i \in 1..k \/ i = k + 1
      OBVIOUS
    <3> QED BY <2>2, <2>3, <3>3, <3>4
  <2>6. Solves(e, s, k + 1)
    BY <2>4, <2>5 DEF Solves
  <2> QED BY <2>6
<1> HIDE DEF T
<1>3. n \in T
  BY <1>1, <1>2, UpTo
<1> QED BY <1>3 DEF T

(* It only depends on the pieces below. *)
LEMMA SolvesSame ==
  ASSUME NEW s, NEW t, NEW e, NEW h, NEW m \in Nat, NEW n \in Nat, m <= n,
         Solves(e, s, m), Solves(h, t, n), \A i \in 1..m : s[i] = t[i]
  PROVE  \A i \in 1..m : e[i] = h[i]
<1> DEFINE T == {k \in Nat : k \in 1..m => e[k] = h[k]}
<1>1. 0 \in T
  OBVIOUS
<1>2. ASSUME NEW k \in Nat, k < m, k \in T PROVE k + 1 \in T
  <2>1. k + 1 \in 1..m /\ k + 1 \in 1..n /\ (k + 1) - 1 = k
    BY <1>2
  <2>2. e[k + 1] = FlatStep(e, s, k + 1)
    BY <2>1 DEF Solves
  <2>3. h[k + 1] = FlatStep(h, t, k + 1)
    BY <2>1 DEF Solves
  <2>4. k = 0 \/ e[k] = h[k]
    BY <1>2
  <2>5. FlatStep(e, s, k + 1) = FlatStep(h, t, k + 1)
    BY <2>1, <2>4 DEF FlatStep
  <2> QED BY <2>2, <2>3, <2>5
<1> HIDE DEF T
<1>3. \A k \in 0..m : k \in T
  BY <1>1, <1>2, UpTo
<1> QED BY <1>3 DEF T

LEMMA FlattenUnfold ==
  ASSUME NEW s, Len(s) \in Nat, Len(s) # 0
  PROVE  \E h : Solves(h, s, Len(s)) /\ FlattenSeq(s) = h[Len(s)]
<1> DEFINE h == CHOOSE h : h = [i \in 1..Len(s) |-> IF i = 1 THEN s[i] ELSE h[i - 1] \o s[i]]
<1>1. FlattenSeq(s) = h[Len(s)]
  BY Zenon DEF FlattenSeq
<1>2. \E k : k = [i \in 1..Len(s) |-> IF i = 1 THEN s[i] ELSE k[i - 1] \o s[i]]
  <2>1. PICK k : Solves(k, s, Len(s))
    BY SolvesExists
  <2>2. k = [i \in 1..Len(s) |-> IF i = 1 THEN s[i] ELSE k[i - 1] \o s[i]]
    BY <2>1, Zenon DEF Solves, FlatStep
  <2> QED BY <2>2
<1>3. h = [i \in 1..Len(s) |-> IF i = 1 THEN s[i] ELSE h[i - 1] \o s[i]]
  BY <1>2, Zenon
<1> HIDE DEF h
<1>4. Solves(h, s, Len(s))
  BY <1>3, Zenon DEF Solves, FlatStep
<1> QED BY <1>1, <1>4

(* The pieces up to k, put together. *)
Joined(F, k) == FlattenSeq([i \in 1..k |-> F[i]])

LEMMA JoinedLen ==
  ASSUME NEW F, NEW k \in Nat
  PROVE  Len([i \in 1..k |-> F[i]]) = k
OBVIOUS

LEMMA JoinedNone == ASSUME NEW F PROVE Joined(F, 0) = <<>>
<1>1. [i \in 1..0 |-> F[i]] = <<>>
  OBVIOUS
<1> QED BY <1>1, EmptySeq DEF Joined, FlattenSeq

LEMMA JoinedOne ==
  ASSUME NEW F
  PROVE  Joined(F, 1) = F[1]
<1> DEFINE s == [i \in 1..1 |-> F[i]]
<1>1. Len(s) = 1 /\ s[1] = F[1]
  OBVIOUS
<1> HIDE DEF s
<1>2. PICK h : Solves(h, s, 1) /\ FlattenSeq(s) = h[1]
  <2>0. Len(s) \in Nat /\ Len(s) # 0
    BY <1>1
  <2>1. \E h : Solves(h, s, Len(s)) /\ FlattenSeq(s) = h[Len(s)]
    BY <2>0, FlattenUnfold, Zenon
  <2> QED BY <1>1, <2>1
<1>3. h[1] = FlatStep(h, s, 1)
  BY <1>2 DEF Solves
<1>4. FlattenSeq(s) = F[1]
  BY <1>1, <1>2, <1>3 DEF FlatStep
<1> QED BY <1>4 DEF Joined, s

LEMMA JoinedMore ==
  ASSUME NEW F, NEW k \in Nat, k # 0
  PROVE  Joined(F, k + 1) = Joined(F, k) \o F[k + 1]
<1> DEFINE s == [i \in 1..k |-> F[i]]
<1> DEFINE t == [i \in 1..(k + 1) |-> F[i]]
<1>1. Len(s) = k /\ Len(t) = k + 1 /\ t[k + 1] = F[k + 1] /\ \A i \in 1..k : s[i] = t[i]
  OBVIOUS
<1> HIDE DEF s, t
<1>2. PICK e : Solves(e, s, k) /\ FlattenSeq(s) = e[k]
  BY <1>1, FlattenUnfold
<1>3. PICK h : Solves(h, t, k + 1) /\ FlattenSeq(t) = h[k + 1]
  BY <1>1, FlattenUnfold
<1>4. e[k] = h[k]
  BY <1>1, <1>2, <1>3, SolvesSame
<1>5. h[k + 1] = FlatStep(h, t, k + 1)
  BY <1>3 DEF Solves
<1>6. FlatStep(h, t, k + 1) = h[k] \o F[k + 1]
  <2>1. k + 1 # 1 /\ (k + 1) - 1 = k
    OBVIOUS
  <2> QED BY <1>1, <2>1, Zenon DEF FlatStep
<1>7. FlattenSeq(t) = FlattenSeq(s) \o F[k + 1]
  BY <1>2, <1>3, <1>4, <1>5, <1>6
<1> QED BY <1>7 DEF Joined, s, t

(* One more piece, and the type of the whole. *)
LEMMA JoinedNext ==
  ASSUME NEW T, NEW F, NEW n \in Nat, \A i \in 1..n : F[i] \in Seq(T)
  PROVE  /\ \A k \in 0..n : Joined(F, k) \in Seq(T)
         /\ \A k \in Nat : k < n => Joined(F, k + 1) = Joined(F, k) \o F[k + 1]
<1>1. ASSUME NEW k \in Nat, k < n PROVE Joined(F, k + 1) = Joined(F, k) \o F[k + 1]
  <2>1. CASE k = 0
    <3>1. Joined(F, k) = <<>> /\ Joined(F, k + 1) = F[1] /\ F[1] \in Seq(T)
      BY <1>1, <2>1, JoinedNone, JoinedOne
    <3> QED BY <2>1, <3>1, ConcatEmptySeq
  <2>2. CASE k # 0
    BY <2>2, JoinedMore
  <2> QED BY <2>1, <2>2
<1> DEFINE P == {k \in Nat : Joined(F, k) \in Seq(T)}
<1>2. 0 \in P
  BY JoinedNone, EmptySeq
<1>3. ASSUME NEW k \in Nat, k < n, k \in P PROVE k + 1 \in P
  <2>1. Joined(F, k) \in Seq(T) /\ F[k + 1] \in Seq(T) /\ k + 1 \in Nat
    BY <1>3
  <2> QED BY <1>1, <1>3, <2>1, ConcatProperties
<1> HIDE DEF P
<1>4. \A k \in 0..n : k \in P
  BY <1>2, <1>3, UpTo
<1> QED BY <1>1, <1>4 DEF P

(* Empty pieces are nothing together. *)
LEMMA JoinedEmpty ==
  ASSUME NEW F, NEW n \in Nat, \A i \in 1..n : F[i] = <<>>
  PROVE  Joined(F, n) = <<>>
<1> DEFINE P == {k \in Nat : Joined(F, k) = <<>>}
<1>1. \A i \in 1..n : F[i] \in Seq({})
  BY EmptySeq
<1>2. 0 \in P
  BY JoinedNone
<1>3. ASSUME NEW k \in Nat, k < n, k \in P PROVE k + 1 \in P
  <2>1. Joined(F, k + 1) = Joined(F, k) \o F[k + 1] /\ F[k + 1] = <<>> /\ Joined(F, k) = <<>>
    BY <1>1, <1>3, JoinedNext
  <2>2. <<>> \o <<>> = <<>>
    BY ConcatEmptySeq, EmptySeq
  <2> QED BY <2>1, <2>2
<1> HIDE DEF P
<1>4. \A k \in 0..n : k \in P
  BY <1>2, <1>3, UpTo
<1> QED BY <1>4 DEF P
-----------------------------------------------------------------------------
(* What the steps of the two bodies say and answer, and what their first k *)
(* steps do together.                                                      *)
FSays == [i \in 1..Len(fbody) |-> StepSays(fbody[i])]
FAnswers == [i \in 1..Len(fbody) |-> IF fbody[i] \in Calls THEN <<AnsOfG>> ELSE <<>>]
GSays == [i \in 1..Len(g.body) |-> IF g.body[i] = "say" THEN <<"g">> ELSE <<>>]

(* The bodies and the caches of what the tiers accept. *)
BodyInv == fbody \in BodiesF /\ g.body \in BodiesG \cup {<<>>}

CoreInv == CacheIsLookup /\ (g.kind \in CoreKinds => g.kind = core)

CodeInv ==
  /\ fchunk = "some" => Compiles(fbody)
  /\ fnative = "some" => Lowers(fbody)
  /\ g.chunk = "some" => Compiles(g.body)
  /\ g.native = "some" => Lowers(g.body)

(* What was meant when the call was made is meant now. *)
MeantInv ==
  status = "run" => /\ meant.out = MeantOut /\ meant.ans = MeantAns
                    /\ meant.careful => Careful(cfg)

(* A call of f, alone, above a call of g, or replaced by it. *)
Alone == Len(acts) = 1 /\ acts[1].fn = "f"
Nested == Len(acts) = 2 /\ acts[1].fn = "f" /\ acts[2].fn = "g"
Jumped == Len(acts) = 1 /\ acts[1].fn = "g"

FCall(a) ==
  /\ a.pc <= Len(fbody) + 1
  /\ a.tier # "named"
  /\ a.tier = "apply" => a.pc = 1 /\ a.ans = <<>>
  /\ a.tier = "vm" => cfg.vm /\ Compiles(fbody)
  /\ a.tier # "apply" => (a.tier = "trampoline" <=> Trampolined(fbody))

GCall(a) ==
  /\ g.kind = "fn"
  /\ a.pc <= Len(g.body) + 1
  /\ a.tier # "trampoline"
  /\ a.tier = "apply" => a.pc = 1
  /\ a.tier \in {"vm", "named"} => cfg.vm /\ Compiles(g.body)

(* f waits for g: at a call, not one it jumps to. *)
Waits(a) ==
  /\ a.tier # "apply" /\ a.pc <= Len(fbody) /\ fbody[a.pc] \in Calls
  /\ a.tier = "trampoline" => fbody[a.pc] = "call"

ActsInv ==
  IF status = "run"
  THEN \/ Alone /\ FCall(acts[1])
       \/ Nested /\ FCall(acts[1]) /\ Waits(acts[1]) /\ GCall(acts[2]) /\ acts[2].ans = <<>>
       \/ /\ Jumped /\ GCall(acts[1]) /\ acts[1].tier = "ast"
          /\ fbody # <<>> /\ fbody[Len(fbody)] = "tail"
  ELSE acts = <<>>

(* What a careful call has said and answered so far. *)
SoFar ==
  status = "run" /\ meant.careful =>
    /\ Alone => /\ out = Joined(FSays, acts[1].pc - 1)
                /\ acts[1].ans = Joined(FAnswers, acts[1].pc - 1)
    /\ Nested => /\ out = Joined(FSays, acts[1].pc - 1) \o Joined(GSays, acts[2].pc - 1)
                 /\ acts[1].ans = Joined(FAnswers, acts[1].pc - 1)
    /\ Jumped => /\ out = Joined(FSays, Len(fbody) - 1) \o Joined(GSays, acts[1].pc - 1)
                 /\ acts[1].ans = Joined(FAnswers, Len(fbody))

IInv ==
  /\ TypeOK /\ BodyInv /\ CoreInv /\ CodeInv /\ MeantInv /\ ActsInv
  /\ SoFar /\ SameAsInterpreter
-----------------------------------------------------------------------------
ActType == [fn : {"f", "g"}, tier : Tiers, pc : Nat \ {0}, ans : Seq(Answers)]
GType == [kind : CoreKinds \cup {"fn", "mfn"}, body : Seq(Steps \ Calls), chunk : Caches,
          native : Caches, calls : Nat, hot : Caches, baked : Values]
Who == {"f", "g"}

(* The bodies. *)
LEMMA BodyFacts ==
  ASSUME TypeOK, BodyInv
  PROVE  /\ fbody \in Seq(Steps) /\ Len(fbody) \in Nat
         /\ \A i \in 1..Len(fbody) : fbody[i] \in Steps /\ (fbody[i] = "tail" => i = Len(fbody))
         /\ g \in GType /\ g.body \in Seq(Steps \ Calls) /\ Len(g.body) \in Nat
         /\ \A i \in 1..Len(g.body) : g.body[i] \in Steps /\ g.body[i] \notin Calls
<1>1. fbody \in Seq(Steps) /\ g \in GType
  BY DEF TypeOK, GType
<1>2. g.body \in Seq(Steps \ Calls)
  BY <1>1 DEF GType
<1>3. Len(fbody) \in Nat /\ Len(g.body) \in Nat
  BY <1>1, <1>2, LenProperties
<1>4. \A i \in 1..Len(fbody) : fbody[i] \in Steps
  BY <1>1, ElementOfSeq
<1>5. \A i \in 1..Len(g.body) : g.body[i] \in Steps \ Calls
  BY <1>2, ElementOfSeq
<1>6. \A i \in 1..Len(fbody) : fbody[i] = "tail" => i = Len(fbody)
  BY StepsAssumption DEF BodyInv
<1> QED BY <1>1, <1>2, <1>3, <1>4, <1>5, <1>6

(* What is printed by one step, and answered by one call. *)
LEMMA GPieces ==
  ASSUME TypeOK, BodyInv
  PROVE  /\ \A i \in 1..Len(g.body) : /\ GSays[i] \in Seq(Who)
                                      /\ g.body[i] = "say" => GSays[i] = <<"g">>
                                      /\ g.body[i] # "say" => GSays[i] = <<>>
         /\ SaysOf("g", g.body) = Joined(GSays, Len(g.body))
         /\ \A k \in 0..Len(g.body) : Joined(GSays, k) \in Seq(Who)
         /\ \A k \in Nat : k < Len(g.body) => Joined(GSays, k + 1) = Joined(GSays, k) \o GSays[k + 1]
<1>1. <<"g">> \in Seq(Who) /\ <<>> \in Seq(Who)
  BY EmptySeq DEF Who
<1>2. \A i \in 1..Len(g.body) : GSays[i] = IF g.body[i] = "say" THEN <<"g">> ELSE <<>>
  BY DEF GSays
<1>3. \A i \in 1..Len(g.body) : GSays[i] \in Seq(Who)
  BY <1>1, <1>2
<1>4. SaysOf("g", g.body) = Joined(GSays, Len(g.body))
  <2>1. [i \in 1..Len(g.body) |-> GSays[i]] = [i \in 1..Len(g.body) |-> IF g.body[i] = "say" THEN <<"g">> ELSE <<>>]
    BY <1>2
  <2> QED BY <2>1 DEF Joined, SaysOf
<1>5. Len(g.body) \in Nat
  BY BodyFacts
<1> QED BY <1>2, <1>3, <1>4, <1>5, JoinedNext

LEMMA FPieces ==
  ASSUME TypeOK, BodyInv
  PROVE  /\ \A i \in 1..Len(fbody) : FSays[i] = StepSays(fbody[i]) /\ FSays[i] \in Seq(Who)
         /\ MeantOut = Joined(FSays, Len(fbody))
         /\ \A k \in 0..Len(fbody) : Joined(FSays, k) \in Seq(Who)
         /\ \A k \in Nat : k < Len(fbody) => Joined(FSays, k + 1) = Joined(FSays, k) \o FSays[k + 1]
<1>1. <<"f">> \in Seq(Who) /\ <<>> \in Seq(Who) /\ SaysOf("g", g.body) \in Seq(Who)
  <2>1. Len(g.body) \in 0..Len(g.body)
    BY BodyFacts
  <2> QED BY <2>1, GPieces, EmptySeq DEF Who
<1>2. \A i \in 1..Len(fbody) : FSays[i] = StepSays(fbody[i])
  BY DEF FSays
<1>3. \A i \in 1..Len(fbody) : FSays[i] \in Seq(Who)
  BY <1>1, <1>2 DEF StepSays
<1>4. MeantOut = Joined(FSays, Len(fbody))
  <2>1. [i \in 1..Len(fbody) |-> FSays[i]] = [i \in 1..Len(fbody) |-> StepSays(fbody[i])]
    BY <1>2
  <2> QED BY <2>1 DEF Joined, MeantOut
<1>5. Len(fbody) \in Nat
  BY BodyFacts
<1> QED BY <1>2, <1>3, <1>4, <1>5, JoinedNext

LEMMA AnswerTypes ==
  ASSUME TypeOK
  PROVE  /\ AnsOfG \in Answers
         /\ \A v \in Values : <<"mfn", v>> \in Answers
         /\ \A k \in CoreKinds \cup {"fn"} : <<k>> \in Answers
         /\ \A a \in Answers : <<a>> \in Seq(Answers)
         /\ <<>> \in Seq(Answers)
<1>1. g.kind \in CoreKinds \cup {"fn", "mfn"} /\ global \in Values
  BY DEF TypeOK
<1>2. \A v \in Values : <<"mfn", v>> \in Answers
  BY DEF Answers
<1>3. \A k \in CoreKinds \cup {"fn"} : <<k>> \in Answers
  BY DEF Answers
<1>4. AnsOfG \in Answers
  <2>1. CASE g.kind = "mfn"
    BY <1>1, <1>2, <2>1 DEF AnsOfG
  <2>2. CASE g.kind # "mfn"
    BY <1>1, <1>3, <2>2 DEF AnsOfG
  <2> QED BY <2>1, <2>2
<1> QED BY <1>2, <1>3, <1>4, EmptySeq

LEMMA APieces ==
  ASSUME TypeOK, BodyInv
  PROVE  /\ \A i \in 1..Len(fbody) : /\ FAnswers[i] \in Seq(Answers)
                                     /\ fbody[i] \in Calls => FAnswers[i] = <<AnsOfG>>
                                     /\ fbody[i] \notin Calls => FAnswers[i] = <<>>
         /\ MeantAns = Joined(FAnswers, Len(fbody))
         /\ \A k \in 0..Len(fbody) : Joined(FAnswers, k) \in Seq(Answers)
         /\ \A k \in Nat : k < Len(fbody) =>
              Joined(FAnswers, k + 1) = Joined(FAnswers, k) \o FAnswers[k + 1]
<1>1. <<AnsOfG>> \in Seq(Answers) /\ <<>> \in Seq(Answers)
  BY AnswerTypes
<1>2. \A i \in 1..Len(fbody) : FAnswers[i] = IF fbody[i] \in Calls THEN <<AnsOfG>> ELSE <<>>
  BY DEF FAnswers
<1>3. \A i \in 1..Len(fbody) : FAnswers[i] \in Seq(Answers)
  BY <1>1, <1>2
<1>4. MeantAns = Joined(FAnswers, Len(fbody))
  <2>1. [i \in 1..Len(fbody) |-> FAnswers[i]]
          = [i \in 1..Len(fbody) |-> IF fbody[i] \in Calls THEN <<AnsOfG>> ELSE <<>>]
    BY <1>2
  <2> QED BY <2>1 DEF Joined, MeantAns
<1>5. Len(fbody) \in Nat
  BY BodyFacts
<1> QED BY <1>2, <1>3, <1>4, <1>5, JoinedNext
-----------------------------------------------------------------------------
(* The open calls. *)
LEMMA ActFacts ==
  ASSUME TypeOK, BodyInv, ActsInv, status = "run"
  PROVE  /\ acts \in Seq(ActType) /\ acts # <<>> /\ Len(acts) \in {1, 2}
         /\ acts[1] \in ActType /\ acts[1].pc \in Nat \ {0} /\ acts[1].ans \in Seq(Answers)
         /\ Top = acts[Len(acts)] /\ Top \in ActType
         /\ Top.pc \in Nat \ {0} /\ Top.ans \in Seq(Answers)
         /\ Top.fn = "f" => Alone /\ Top = acts[1] /\ FCall(Top) /\ Body = fbody
         /\ Top.fn # "f" => /\ Nested \/ Jumped
                            /\ GCall(Top) /\ Body = g.body /\ Top.fn = "g"
         /\ Nested => /\ Top = acts[2] /\ FCall(acts[1]) /\ Waits(acts[1]) /\ Top.ans = <<>>
                      /\ Top.fn = "g"
         /\ Jumped => /\ Top = acts[1] /\ Top.tier = "ast" /\ Top.fn = "g"
                      /\ fbody # <<>> /\ fbody[Len(fbody)] = "tail"
<1>1. acts \in Seq(ActType)
  BY DEF TypeOK, ActType
<1>2. Alone \/ Nested \/ Jumped
  BY DEF ActsInv
<1>3. Len(acts) \in {1, 2} /\ acts # <<>> /\ Top = acts[Len(acts)]
  <2>1. Len(acts) \in {1, 2}
    BY <1>2 DEF Alone, Nested, Jumped
  <2>2. Len(<<>>) = 0
    BY EmptySeq
  <2> QED BY <2>1, <2>2 DEF Top
<1>4. 1 \in 1..Len(acts) /\ Len(acts) \in 1..Len(acts)
  BY <1>3
<1>5. acts[1] \in ActType /\ Top \in ActType
  BY <1>1, <1>3, <1>4, ElementOfSeq
<1>6. /\ acts[1].pc \in Nat \ {0} /\ acts[1].ans \in Seq(Answers)
      /\ Top.pc \in Nat \ {0} /\ Top.ans \in Seq(Answers) /\ Top.fn \in {"f", "g"}
  BY <1>5 DEF ActType
<1>7. CASE Alone /\ FCall(acts[1])
  <2>1. Top = acts[1] /\ Top.fn = "f" /\ ~Nested /\ ~Jumped
    BY <1>3, <1>7 DEF Alone, Nested, Jumped
  <2> QED BY <1>1, <1>3, <1>5, <1>6, <1>7, <2>1 DEF Body
<1>8. CASE Nested /\ FCall(acts[1]) /\ Waits(acts[1]) /\ GCall(acts[2]) /\ acts[2].ans = <<>>
  <2>1. Top = acts[2] /\ Top.fn = "g" /\ ~Alone /\ ~Jumped
    BY <1>3, <1>8 DEF Alone, Nested, Jumped
  <2> QED BY <1>1, <1>3, <1>5, <1>6, <1>8, <2>1 DEF Body
<1>9. CASE Jumped /\ GCall(acts[1]) /\ acts[1].tier = "ast" /\ fbody # <<>> /\ fbody[Len(fbody)] = "tail"
  <2>1. Top = acts[1] /\ Top.fn = "g" /\ ~Alone /\ ~Nested
    BY <1>3, <1>9 DEF Alone, Nested, Jumped
  <2> QED BY <1>1, <1>3, <1>5, <1>6, <1>9, <2>1 DEF Body
<1> QED BY <1>7, <1>8, <1>9 DEF ActsInv

(* Replacing the top call. *)
LEMMA SetTopFacts ==
  ASSUME TypeOK, BodyInv, ActsInv, status = "run", NEW a \in ActType, SetTop(a)
  PROVE  /\ acts' \in Seq(ActType) /\ Len(acts') = Len(acts)
         /\ Len(acts) = 1 => acts'[1] = a
         /\ Len(acts) = 2 => acts'[2] = a /\ acts'[1] = acts[1]
<1>1. acts \in Seq(ActType) /\ Len(acts) \in {1, 2} /\ Len(acts) \in 1..Len(acts)
  BY ActFacts
<1>2. acts' = [acts EXCEPT ![Len(acts)] = a]
  BY DEF SetTop
<1>3. /\ acts' \in Seq(ActType) /\ Len(acts') = Len(acts)
      /\ \A j \in 1..Len(acts) : acts'[j] = IF j = Len(acts) THEN a ELSE acts[j]
  BY <1>1, <1>2, ExceptSeq
<1> QED BY <1>1, <1>3
-----------------------------------------------------------------------------
(* A step of a call changes neither the program nor what g is. *)
SameG == g'.kind = g.kind /\ g'.body = g.body

LEMMA SameMeaning ==
  ASSUME UNCHANGED program, SameG
  PROVE  /\ FSays' = FSays /\ FAnswers' = FAnswers /\ GSays' = GSays
         /\ MeantOut' = MeantOut /\ MeantAns' = MeantAns
         /\ meant' = meant /\ cfg' = cfg /\ fbody' = fbody /\ core' = core /\ global' = global
<1>1. fbody' = fbody /\ core' = core /\ global' = global /\ cfg' = cfg /\ meant' = meant
  BY DEF program
<1>2. AnsOfG' = AnsOfG
  BY <1>1 DEF AnsOfG, SameG
<1>3. \A s : StepSays(s)' = StepSays(s)
  BY <1>1 DEF StepSays, SameG
<1>4. GSays' = GSays
  BY DEF GSays, SameG
<1>5. FSays' = FSays /\ MeantOut' = MeantOut
  BY <1>1, <1>3 DEF FSays, MeantOut
<1>6. FAnswers' = FAnswers /\ MeantAns' = MeantAns
  BY <1>1, <1>2 DEF FAnswers, MeantAns
<1> QED BY <1>1, <1>4, <1>5, <1>6

(* Nor does it change what the tiers accept. *)
LEMMA SameTiers ==
  ASSUME UNCHANGED program, SameG
  PROVE  /\ \A b : Lowers(b)' = Lowers(b)
         /\ \A b : Compiles(b)' = Compiles(b)
         /\ \A b : Trampolined(b)' = Trampolined(b)
         /\ \A b : TailForm(b)' = TailForm(b)
<1>1. fbody' = fbody /\ core' = core /\ cfg' = cfg
  BY DEF program
<1> QED BY <1>1 DEF Lowers, Compiles, Trampolined, TailForm

(* What a careful program is spared, one by one. *)
RefusedF(s) == s = "limit" \/ (s \in Calls /\ g.kind = "calc")
Tco == cfg.opt = "O2" /\ TailForm(fbody)
Fvm == cfg.vm /\ ~Tco /\ Compiles(fbody)
Applies == \E s \in (IF Tco THEN {"call"} ELSE Calls) : Contains(fbody, s)
NoRepeatF == Fvm => \A i, j \in 1..Len(fbody) : i < j /\ RefusedF(fbody[j]) => StepSays(fbody[i]) = <<>>
NoRepeatG ==
  cfg.vm /\ g.kind = "fn" /\ Compiles(g.body) /\ Applies
    => \A i, j \in 1..Len(g.body) : i < j /\ g.body[j] = "limit" => g.body[i] # "say"
NoHigher == Fvm => ~(CallsG(fbody) /\ g.kind = "higher")
NoJumpedCore == Tco => g.kind \notin {"calc", "higher"}
HotAgrees == g.hot = "some" /\ cfg.numeric => g.baked = global

LEMMA CarefulParts ==
  Careful(cfg) <=> /\ NoRepeatF /\ NoRepeatG /\ NoHigher /\ NoJumpedCore /\ HotAgrees
                   /\ ~BuiltinBaked(cfg)
<1>1. NoRepeatF <=> (Fvm => ~\E i, j \in 1..Len(fbody) :
                              i < j /\ StepSays(fbody[i]) # <<>> /\ RefusedF(fbody[j]))
  BY DEF NoRepeatF
<1>2. NoRepeatG <=> (cfg.vm /\ g.kind = "fn" /\ Compiles(g.body) /\ Applies
                       => ~\E i, j \in 1..Len(g.body) :
                            i < j /\ g.body[i] = "say" /\ g.body[j] = "limit")
  BY DEF NoRepeatG
<1> QED BY <1>1, <1>2, Zenon
    DEF Careful, SaysThen, Tco, Fvm, Applies, RefusedF, NoHigher, NoJumpedCore, HotAgrees

LEMMA CarefulNext ==
  (Careful(cfg) <=> /\ NoRepeatF /\ NoRepeatG /\ NoHigher /\ NoJumpedCore /\ HotAgrees
                    /\ ~BuiltinBaked(cfg))'
BY CarefulParts, PTL

(* Only the native code of an MFn, made on the way, can change it. *)
LEMMA SameCareful ==
  ASSUME UNCHANGED program, SameG, Careful(cfg), HotAgrees'
  PROVE  Careful(cfg)'
<1>1. fbody' = fbody /\ core' = core /\ cfg' = cfg /\ global' = global
  BY DEF program
<1>2. /\ \A b : Compiles(b)' = Compiles(b)
      /\ \A b : TailForm(b)' = TailForm(b)
      /\ \A b : Lowers(b)' = Lowers(b)
  BY SameTiers
<1>3. \A s : StepSays(s)' = StepSays(s)
  BY <1>1 DEF StepSays, SameG
<1>4. Tco' = Tco /\ Fvm' = Fvm /\ Applies' = Applies
  BY <1>1, <1>2 DEF Tco, Fvm, Applies, Contains
<1>5. NoRepeatF'
  BY <1>1, <1>3, <1>4, CarefulParts DEF NoRepeatF, RefusedF, SameG
<1>6. NoRepeatG'
  BY <1>1, <1>2, <1>4, CarefulParts DEF NoRepeatG, SameG
<1>7. NoHigher' /\ NoJumpedCore'
  BY <1>1, <1>4, CarefulParts DEF NoHigher, NoJumpedCore, SameG, CallsG
<1>8. ~BuiltinBaked(cfg)'
  BY <1>1, <1>2, CarefulParts DEF BuiltinBaked, SameG, CallsG
<1> QED BY <1>5, <1>6, <1>7, <1>8, CarefulNext
-----------------------------------------------------------------------------
LEMMA AdvancedAct ==
  ASSUME NEW t \in ActType, NEW x \in Seq(Answers)
  PROVE  \A a : a = [t EXCEPT !.pc = @ + 1, !.ans = @ \o x] =>
           /\ a \in ActType /\ a.fn = t.fn /\ a.tier = t.tier /\ a.pc = t.pc + 1
           /\ a.ans = t.ans \o x
<1>1. PICK y : y = t.ans \o x
  OBVIOUS
<1>2. t.ans \in Seq(Answers) /\ t.pc \in Nat \ {0}
  BY DEF ActType
<1>3. y \in Seq(Answers)
  BY <1>1, <1>2, ConcatProperties
<1>4. PICK p : p = t.pc + 1
  OBVIOUS
<1>5. p \in Nat \ {0}
  BY <1>2, <1>4
<1> SUFFICES ASSUME NEW a, a = [t EXCEPT !.pc = p, !.ans = y]
             PROVE  /\ a \in ActType /\ a.fn = t.fn /\ a.tier = t.tier /\ a.pc = p
                    /\ a.ans = y
  BY <1>1, <1>4
<1> QED BY <1>3, <1>5 DEF ActType

(* The top call goes on by one step, which says `says` and answers x.      *)
LEMMA AdvanceKeeps ==
  ASSUME IInv, status = "run", Top.tier # "apply", ~AtEnd, UNCHANGED program, SameG,
         status' = "run", NEW x \in Seq(Answers), SetTop(Advanced(x)),
         NEW says \in Seq(Who), out' = out \o says,
         Top.fn = "f" /\ meant.careful => says = FSays[Top.pc] /\ x = FAnswers[Top.pc],
         Top.fn = "g" => says = GSays[Top.pc] /\ x = <<>>
  PROVE  acts' \in Seq(ActType) /\ ActsInv' /\ SoFar'
<1> USE DEF IInv
<1>1. PICK a : a = Advanced(x)
  OBVIOUS
<1>2. /\ Top \in ActType /\ Top.pc \in Nat \ {0} /\ Top.ans \in Seq(Answers)
      /\ Top.ans \o x \in Seq(Answers)
  BY ActFacts, ConcatProperties
<1>3. /\ a \in ActType /\ a.fn = Top.fn /\ a.tier = Top.tier /\ a.pc = Top.pc + 1
      /\ a.ans = Top.ans \o x /\ a.pc \in Nat \ {0} /\ a.pc - 1 = Top.pc
  <2>1. /\ a \in ActType /\ a.fn = Top.fn /\ a.tier = Top.tier /\ a.pc = Top.pc + 1
        /\ a.ans = Top.ans \o x
    <3>1. PICK t : t = Top
      OBVIOUS
    <3>2. t \in ActType /\ a = [t EXCEPT !.pc = @ + 1, !.ans = @ \o x]
      BY <1>1, <1>2, <3>1 DEF Advanced
    <3>3. /\ a \in ActType /\ a.fn = t.fn /\ a.tier = t.tier /\ a.pc = t.pc + 1
          /\ a.ans = t.ans \o x
      BY <3>2, AdvancedAct, Zenon
    <3> QED BY <3>1, <3>3
  <2> QED BY <1>2, <2>1
<1>4. /\ acts' \in Seq(ActType) /\ Len(acts') = Len(acts)
      /\ Len(acts) = 1 => acts'[1] = a
      /\ Len(acts) = 2 => acts'[2] = a /\ acts'[1] = acts[1]
  BY <1>1, <1>3, SetTopFacts
<1>5. /\ FSays' = FSays /\ FAnswers' = FAnswers /\ GSays' = GSays /\ meant' = meant
      /\ cfg' = cfg /\ fbody' = fbody
  BY SameMeaning
<1>6. /\ \A c : FCall(c)' <=> FCall(c)
      /\ \A c : GCall(c)' <=> GCall(c)
      /\ \A c : Waits(c)' <=> Waits(c)
  BY <1>5, SameTiers DEF FCall, GCall, Waits, SameG
<1>7. Top.pc \in 1..Len(Body) /\ Top.pc <= Len(Body)
  <2>1. Len(Body) \in Nat
    BY BodyFacts, ActFacts
  <2> QED BY <1>2, <2>1 DEF AtEnd
<1>8. meant.careful => out \in Seq(Who)
  BY DEF TypeOK, Who
<1>9. CASE Alone
  <2>1. Top = acts[1] /\ FCall(Top) /\ Body = fbody /\ Top.fn = "f" /\ Len(acts) = 1
    BY <1>9, ActFacts DEF Alone, Nested, Jumped
  <2>2. FCall(a)
    <3>1. a.pc <= Len(fbody) + 1
      BY <1>2, <1>3, <1>7, <2>1, BodyFacts
    <3> QED BY <1>3, <2>1, <3>1, Zenon DEF FCall
  <2>3. Alone' /\ ~Nested' /\ ~Jumped'
    BY <1>3, <1>4, <2>1 DEF Alone, Nested, Jumped
  <2>4. ActsInv'
    BY <1>4, <1>6, <2>1, <2>2, <2>3 DEF ActsInv
  <2>5. ASSUME meant.careful
        PROVE  out' = Joined(FSays, a.pc - 1) /\ a.ans = Joined(FAnswers, a.pc - 1)
    <3>1. out = Joined(FSays, Top.pc - 1) /\ Top.ans = Joined(FAnswers, Top.pc - 1)
      BY <1>9, <2>1, <2>5 DEF SoFar
    <3>2. Top.pc - 1 \in Nat /\ Top.pc - 1 < Len(fbody) /\ (Top.pc - 1) + 1 = Top.pc
      BY <1>2, <1>7, <2>1, BodyFacts
    <3>3. /\ Joined(FSays, Top.pc) = Joined(FSays, Top.pc - 1) \o FSays[Top.pc]
          /\ Joined(FAnswers, Top.pc) = Joined(FAnswers, Top.pc - 1) \o FAnswers[Top.pc]
      BY <3>2, FPieces, APieces
    <3> QED BY <1>3, <2>1, <2>5, <3>1, <3>3
  <2>6. SoFar'
    BY <1>4, <1>5, <2>1, <2>3, <2>5 DEF SoFar
  <2> QED BY <1>4, <2>4, <2>6
<1>10. CASE Nested
  <2>1. /\ Top = acts[2] /\ GCall(Top) /\ Body = g.body /\ Top.fn = "g" /\ Len(acts) = 2
        /\ FCall(acts[1]) /\ Waits(acts[1]) /\ Top.ans = <<>> /\ acts[1].fn = "f"
    BY <1>10, ActFacts DEF Nested
  <2>2. GCall(a) /\ a.ans = <<>>
    <3>1. <<>> \o <<>> = <<>>
      BY ConcatEmptySeq, EmptySeq
    <3>2. a.pc <= Len(g.body) + 1
      BY <1>2, <1>3, <1>7, <2>1, BodyFacts
    <3>3. GCall(a)
      BY <1>3, <2>1, <3>2, Zenon DEF GCall
    <3> QED BY <1>3, <2>1, <3>1, <3>3
  <2>3. Nested' /\ ~Alone' /\ ~Jumped'
    BY <1>3, <1>4, <2>1 DEF Alone, Nested, Jumped
  <2>4. ActsInv'
    BY <1>4, <1>6, <2>1, <2>2, <2>3 DEF ActsInv
  <2>5. ASSUME meant.careful
        PROVE  /\ out' = Joined(FSays, acts[1].pc - 1) \o Joined(GSays, a.pc - 1)
               /\ acts[1].ans = Joined(FAnswers, acts[1].pc - 1)
    <3>1. /\ out = Joined(FSays, acts[1].pc - 1) \o Joined(GSays, Top.pc - 1)
          /\ acts[1].ans = Joined(FAnswers, acts[1].pc - 1)
      BY <1>10, <2>1, <2>5 DEF SoFar
    <3>2. /\ Top.pc - 1 \in Nat /\ Top.pc - 1 < Len(g.body) /\ (Top.pc - 1) + 1 = Top.pc
          /\ Top.pc - 1 \in 0..Len(g.body)
      BY <1>2, <1>7, <2>1, BodyFacts
    <3>3. /\ Joined(GSays, Top.pc) = Joined(GSays, Top.pc - 1) \o GSays[Top.pc]
          /\ Joined(GSays, Top.pc - 1) \in Seq(Who)
      BY <3>2, GPieces, BodyFacts
    <3>4. Joined(FSays, acts[1].pc - 1) \in Seq(Who)
      <4>1. acts[1].pc - 1 \in 0..Len(fbody)
        BY <2>1, ActFacts, BodyFacts DEF Waits
      <4> QED BY <4>1, FPieces
    <3>5. \A A, B, C \in Seq(Who) : (A \o B) \o C = A \o (B \o C)
      BY ConcatAssociative
    <3>6. says = GSays[Top.pc]
      BY <2>1
    <3>7. out' = Joined(FSays, acts[1].pc - 1) \o (Joined(GSays, Top.pc - 1) \o says)
      BY <3>1, <3>3, <3>4, <3>5
    <3> QED BY <1>3, <2>1, <2>2, <3>1, <3>3, <3>6, <3>7
  <2>6. SoFar'
    BY <1>4, <1>5, <2>1, <2>3, <2>5 DEF SoFar
  <2> QED BY <1>4, <2>4, <2>6
<1>11. CASE Jumped
  <2>1. /\ Top = acts[1] /\ GCall(Top) /\ Body = g.body /\ Top.fn = "g" /\ Len(acts) = 1
        /\ Top.tier = "ast" /\ fbody # <<>> /\ fbody[Len(fbody)] = "tail"
    BY <1>11, ActFacts DEF Jumped
  <2>2. GCall(a) /\ a.ans = Top.ans
    <3>1. Top.ans \o <<>> = Top.ans
      BY <1>2, ConcatEmptySeq
    <3>2. a.pc <= Len(g.body) + 1
      BY <1>2, <1>3, <1>7, <2>1, BodyFacts
    <3>3. GCall(a)
      BY <1>3, <2>1, <3>2, Zenon DEF GCall
    <3> QED BY <1>3, <2>1, <3>1, <3>3
  <2>3. Jumped' /\ ~Alone' /\ ~Nested'
    BY <1>3, <1>4, <2>1 DEF Alone, Nested, Jumped
  <2>4. ActsInv'
    BY <1>3, <1>4, <1>5, <1>6, <2>1, <2>2, <2>3 DEF ActsInv
  <2>5. ASSUME meant.careful
        PROVE  /\ out' = Joined(FSays, Len(fbody) - 1) \o Joined(GSays, a.pc - 1)
               /\ a.ans = Joined(FAnswers, Len(fbody))
    <3>1. /\ out = Joined(FSays, Len(fbody) - 1) \o Joined(GSays, Top.pc - 1)
          /\ Top.ans = Joined(FAnswers, Len(fbody))
      BY <1>11, <2>1, <2>5 DEF SoFar
    <3>2. /\ Top.pc - 1 \in Nat /\ Top.pc - 1 < Len(g.body) /\ (Top.pc - 1) + 1 = Top.pc
          /\ Top.pc - 1 \in 0..Len(g.body)
      BY <1>2, <1>7, <2>1, BodyFacts
    <3>3. /\ Joined(GSays, Top.pc) = Joined(GSays, Top.pc - 1) \o GSays[Top.pc]
          /\ Joined(GSays, Top.pc - 1) \in Seq(Who)
      BY <3>2, GPieces, BodyFacts
    <3>4. Joined(FSays, Len(fbody) - 1) \in Seq(Who)
      <4>1. Len(fbody) - 1 \in 0..Len(fbody)
        BY <2>1, BodyFacts, EmptySeq
      <4> QED BY <4>1, FPieces
    <3>5. \A A, B, C \in Seq(Who) : (A \o B) \o C = A \o (B \o C)
      BY ConcatAssociative
    <3>6. says = GSays[Top.pc]
      BY <2>1
    <3>7. out' = Joined(FSays, Len(fbody) - 1) \o (Joined(GSays, Top.pc - 1) \o says)
      BY <3>1, <3>3, <3>4, <3>5
    <3> QED BY <1>3, <2>1, <2>2, <3>1, <3>3, <3>6, <3>7
  <2>6. SoFar'
    BY <1>4, <1>5, <2>1, <2>3, <2>5 DEF SoFar
  <2> QED BY <1>4, <2>4, <2>6
<1> QED BY <1>9, <1>10, <1>11 DEF ActsInv

(* The top call starts over on another tier, with nothing said. *)
LEMMA RestartKeeps ==
  ASSUME IInv, status = "run", UNCHANGED program, SameG, status' = "run",
         NEW tier \in Tiers, SetTop(Act(Top.fn, tier)), out' = out, ~Jumped,
         Top.fn = "f" => FCall(Act("f", tier)),
         Top.fn = "g" => GCall(Act("g", tier)),
         Top.fn = "f" /\ meant.careful => Joined(FSays, Top.pc - 1) = <<>>,
         Top.fn = "g" /\ meant.careful => Joined(GSays, Top.pc - 1) = <<>>
  PROVE  acts' \in Seq(ActType) /\ ActsInv' /\ SoFar'
<1> USE DEF IInv
<1>1. PICK a : a = Act(Top.fn, tier)
  OBVIOUS
<1>2. Top \in ActType /\ Top.fn \in {"f", "g"}
  BY ActFacts DEF ActType
<1>3. /\ a \in ActType /\ a.fn = Top.fn /\ a.tier = tier /\ a.pc = 1 /\ a.ans = <<>>
      /\ a.pc - 1 = 0
  BY <1>1, <1>2, EmptySeq DEF Act, ActType
<1>4. /\ acts' \in Seq(ActType) /\ Len(acts') = Len(acts)
      /\ Len(acts) = 1 => acts'[1] = a
      /\ Len(acts) = 2 => acts'[2] = a /\ acts'[1] = acts[1]
  BY <1>1, <1>3, SetTopFacts
<1>5. /\ FSays' = FSays /\ FAnswers' = FAnswers /\ GSays' = GSays /\ meant' = meant
      /\ cfg' = cfg /\ fbody' = fbody
  BY SameMeaning
<1>6. /\ \A c : FCall(c)' <=> FCall(c)
      /\ \A c : GCall(c)' <=> GCall(c)
      /\ \A c : Waits(c)' <=> Waits(c)
  BY <1>5, SameTiers DEF FCall, GCall, Waits, SameG
<1>7. CASE Alone
  <2>1. Top = acts[1] /\ Top.fn = "f" /\ Len(acts) = 1
    BY <1>7, ActFacts DEF Alone, Nested, Jumped
  <2>2. Alone' /\ ~Nested' /\ ~Jumped'
    BY <1>3, <1>4, <2>1 DEF Alone, Nested, Jumped
  <2>3. ActsInv'
    BY <1>1, <1>4, <1>6, <2>1, <2>2 DEF ActsInv
  <2>4. ASSUME meant.careful
        PROVE  out' = Joined(FSays, 0) /\ a.ans = Joined(FAnswers, 0)
    <3>1. out = Joined(FSays, Top.pc - 1)
      BY <1>7, <2>1, <2>4 DEF SoFar
    <3> QED BY <1>3, <2>1, <2>4, <3>1, JoinedNone
  <2>5. SoFar'
    BY <1>3, <1>4, <1>5, <2>1, <2>2, <2>4 DEF SoFar
  <2> QED BY <1>4, <2>3, <2>5
<1>8. CASE Nested
  <2>1. /\ Top = acts[2] /\ Top.fn = "g" /\ Len(acts) = 2
        /\ FCall(acts[1]) /\ Waits(acts[1]) /\ acts[1].fn = "f"
    BY <1>8, ActFacts DEF Nested
  <2>2. Nested' /\ ~Alone' /\ ~Jumped'
    BY <1>3, <1>4, <2>1 DEF Alone, Nested, Jumped
  <2>3. ActsInv'
    BY <1>1, <1>3, <1>4, <1>6, <2>1, <2>2 DEF ActsInv
  <2>4. ASSUME meant.careful
        PROVE  /\ out' = Joined(FSays, acts[1].pc - 1) \o Joined(GSays, 0)
               /\ acts[1].ans = Joined(FAnswers, acts[1].pc - 1)
    <3>1. /\ out = Joined(FSays, acts[1].pc - 1) \o Joined(GSays, Top.pc - 1)
          /\ acts[1].ans = Joined(FAnswers, acts[1].pc - 1)
      BY <1>8, <2>1, <2>4 DEF SoFar
    <3> QED BY <2>1, <2>4, <3>1, JoinedNone
  <2>5. SoFar'
    BY <1>3, <1>4, <1>5, <2>1, <2>2, <2>4 DEF SoFar
  <2> QED BY <1>4, <2>3, <2>5
<1> QED BY <1>7, <1>8 DEF ActsInv
-----------------------------------------------------------------------------
(* The top call answers a: the program's call is done, or f goes on. *)
LEMMA AnswerKeeps ==
  ASSUME IInv, status = "run", UNCHANGED program, SameG, out' = out,
         NEW a \in Seq(Answers), Answer(a),
         ~Nested /\ meant.careful => out = MeantOut /\ a = MeantAns,
         Nested /\ meant.careful => out = Joined(FSays, acts[1].pc - 1) \o SaysOf("g", g.body)
  PROVE  /\ acts' \in Seq(ActType) /\ ActsInv' /\ SoFar' /\ SameAsInterpreter'
         /\ ans' \in Seq(Answers) /\ status' \in {"run", "done"}
<1> USE DEF IInv
<1>1. /\ FSays' = FSays /\ FAnswers' = FAnswers /\ GSays' = GSays /\ meant' = meant
      /\ cfg' = cfg /\ fbody' = fbody
  BY SameMeaning
<1>2. acts \in Seq(ActType) /\ Len(acts) \in {1, 2} /\ acts[1] \in ActType
  BY ActFacts
<1>3. CASE ~Nested
  <2>1. Len(acts) = 1
    BY <1>3 DEF ActsInv, Alone, Jumped
  <2>2. acts' = <<>> /\ ans' = a /\ status' = "done"
    BY <2>1 DEF Answer
  <2>3. ActsInv' /\ SoFar'
    BY <2>2 DEF ActsInv, SoFar
  <2>4. meant.careful => out = meant.out /\ a = meant.ans
    BY <1>3 DEF MeantInv
  <2>5. SameAsInterpreter'
    BY <1>1, <2>2, <2>4 DEF SameAsInterpreter, Ended
  <2> QED BY <2>2, <2>3, <2>5, EmptySeq
<1>4. CASE Nested
  <2>1. /\ Len(acts) = 2 /\ FCall(acts[1]) /\ Waits(acts[1]) /\ acts[1].fn = "f" /\ g.kind = "fn"
        /\ acts[1].pc \in Nat \ {0} /\ acts[1].ans \in Seq(Answers)
    BY <1>4, ActFacts DEF Nested, GCall
  <2>2. PICK b : b = [acts[1] EXCEPT !.pc = @ + 1, !.ans = Append(@, <<"fn">>)]
    OBVIOUS
  <2>3. <<"fn">> \in Answers /\ <<<<"fn">>>> \in Seq(Answers)
    BY AnswerTypes
  <2>4. Append(acts[1].ans, <<"fn">>) = acts[1].ans \o <<<<"fn">>>>
    BY <2>1, <2>3, AppendIsConcat
  <2>5. b = [acts[1] EXCEPT !.pc = @ + 1, !.ans = @ \o <<<<"fn">>>>]
    BY <2>2, <2>4
  <2>6. /\ b \in ActType /\ b.fn = "f" /\ b.tier = acts[1].tier /\ b.pc = acts[1].pc + 1
        /\ b.ans = acts[1].ans \o <<<<"fn">>>>
    <3>1. PICK x : x = <<<<"fn">>>>
      OBVIOUS
    <3>2. PICK t : t = acts[1]
      OBVIOUS
    <3>3. t \in ActType /\ x \in Seq(Answers) /\ b = [t EXCEPT !.pc = @ + 1, !.ans = @ \o x]
      BY <1>2, <2>3, <2>5, <3>1, <3>2
    <3>4. /\ b \in ActType /\ b.fn = t.fn /\ b.tier = t.tier /\ b.pc = t.pc + 1
          /\ b.ans = t.ans \o x
      BY <3>3, AdvancedAct, Zenon
    <3> QED BY <2>1, <3>1, <3>2, <3>4
  <2>7. acts' = <<b>> /\ ans' = ans /\ status' = "run"
    <3>1. SubSeq(acts, 1, Len(acts) - 2) = <<>>
      BY <2>1, SubSeqEmpty
    <3>2. Append(<<>>, b) = <<b>>
      BY <2>6, EmptySeq, AppendIsConcat, ConcatEmptySeq
    <3>3. acts' = Append(SubSeq(acts, 1, Len(acts) - 2), b) /\ ans' = ans /\ status' = status
      BY <2>1, <2>2 DEF Answer
    <3> QED BY <3>1, <3>2, <3>3
  <2>8. Len(acts') = 1 /\ acts'[1] = b
    BY <2>7
  <2>9. Alone' /\ ~Nested' /\ ~Jumped'
    BY <2>6, <2>8 DEF Alone, Nested, Jumped
  <2>10. FCall(b)'
    <3>1. b.pc <= Len(fbody) + 1
      BY <2>1, <2>6, BodyFacts DEF Waits
    <3>2. FCall(b)
      <4>1. b.tier # "apply"
        BY <2>1, <2>6 DEF Waits
      <4> QED BY <2>1, <2>6, <3>1, <4>1, Zenon DEF FCall
    <3> QED BY <1>1, <3>2, SameTiers DEF FCall
  <2>11. ActsInv'
    BY <2>7, <2>8, <2>9, <2>10 DEF ActsInv
  <2>12. ASSUME meant.careful
         PROVE  out' = Joined(FSays, b.pc - 1) /\ b.ans = Joined(FAnswers, b.pc - 1)
    <3>1. out = Joined(FSays, acts[1].pc - 1) \o SaysOf("g", g.body)
      BY <1>4, <2>12
    <3>2. acts[1].ans = Joined(FAnswers, acts[1].pc - 1)
      BY <1>4, <2>12 DEF SoFar
    <3>3. /\ acts[1].pc - 1 \in Nat /\ acts[1].pc - 1 < Len(fbody)
          /\ (acts[1].pc - 1) + 1 = acts[1].pc /\ acts[1].pc \in 1..Len(fbody)
          /\ fbody[acts[1].pc] \in Calls
      BY <2>1, BodyFacts DEF Waits
    <3>4. FSays[acts[1].pc] = SaysOf("g", g.body)
      <4>1. FSays[acts[1].pc] = StepSays(fbody[acts[1].pc])
        BY <3>3, FPieces
      <4>2. fbody[acts[1].pc] # "say"
        BY <3>3 DEF Calls
      <4> QED BY <2>1, <3>3, <4>1, <4>2 DEF StepSays
    <3>5. FAnswers[acts[1].pc] = <<<<"fn">>>>
      <4>1. FAnswers[acts[1].pc] = <<AnsOfG>>
        BY <3>3, APieces
      <4> QED BY <2>1, <4>1 DEF AnsOfG
    <3>6. /\ Joined(FSays, acts[1].pc) = Joined(FSays, acts[1].pc - 1) \o FSays[acts[1].pc]
          /\ Joined(FAnswers, acts[1].pc) = Joined(FAnswers, acts[1].pc - 1) \o FAnswers[acts[1].pc]
      BY <3>3, FPieces, APieces
    <3>7. b.pc - 1 = acts[1].pc
      BY <2>1, <2>6
    <3> QED BY <2>6, <3>1, <3>2, <3>4, <3>5, <3>6, <3>7
  <2>13. SoFar'
    BY <1>1, <2>8, <2>9, <2>12 DEF SoFar
  <2>14. SameAsInterpreter'
    BY <2>7 DEF SameAsInterpreter, Ended
  <2>15. acts' \in Seq(ActType) /\ ans' \in Seq(Answers)
    BY <2>6, <2>7 DEF TypeOK
  <2> QED BY <2>7, <2>11, <2>13, <2>14, <2>15
<1> QED BY <1>3, <1>4

LEMMA AppendOne ==
  ASSUME NEW T, NEW s \in Seq(T), Len(s) = 1, NEW b \in T
  PROVE  /\ Append(s, b) \in Seq(T) /\ Len(Append(s, b)) = 2
         /\ Append(s, b)[1] = s[1] /\ Append(s, b)[2] = b
BY AppendProperties

(* f opens a call of g above it. *)
LEMMA OpenKeeps ==
  ASSUME IInv, status = "run", UNCHANGED program, SameG, out' = out, status' = "run",
         Top.fn = "f", Waits(Top), g.kind = "fn",
         NEW tier \in {"named", "apply"}, acts' = Append(acts, Act("g", tier)),
         GCall(Act("g", tier))
  PROVE  acts' \in Seq(ActType) /\ ActsInv' /\ SoFar'
<1> USE DEF IInv
<1>1. /\ FSays' = FSays /\ FAnswers' = FAnswers /\ GSays' = GSays /\ meant' = meant
      /\ cfg' = cfg /\ fbody' = fbody
  BY SameMeaning
<1>2. /\ \A c : FCall(c)' <=> FCall(c)
      /\ \A c : GCall(c)' <=> GCall(c)
      /\ \A c : Waits(c)' <=> Waits(c)
  BY <1>1, SameTiers DEF FCall, GCall, Waits, SameG
<1>3. /\ Alone /\ acts \in Seq(ActType) /\ Len(acts) = 1 /\ Top = acts[1] /\ FCall(Top)
      /\ Top.pc \in Nat \ {0}
  BY ActFacts DEF Alone
<1>4. PICK b : b = Act("g", tier)
  OBVIOUS
<1>5. b \in ActType /\ b.fn = "g" /\ b.pc = 1 /\ b.ans = <<>> /\ b.pc - 1 = 0
  BY <1>4, EmptySeq DEF Act, ActType, Tiers
<1>6. acts' \in Seq(ActType) /\ Len(acts') = 2 /\ acts'[1] = Top /\ acts'[2] = b
  <2>0. acts' = Append(acts, b)
    BY <1>4
  <2>1. acts \in Seq(ActType) /\ Len(acts) = 1 /\ b \in ActType
    BY <1>3, <1>5
  <2>2. /\ Append(acts, b) \in Seq(ActType) /\ Len(Append(acts, b)) = 2
        /\ Append(acts, b)[1] = acts[1] /\ Append(acts, b)[2] = b
    BY <2>1, AppendOne, Zenon
  <2> QED BY <1>3, <2>0, <2>2
<1>7. Nested' /\ ~Alone' /\ ~Jumped'
  BY <1>5, <1>6 DEF Alone, Nested, Jumped
<1>8. ActsInv'
  BY <1>2, <1>3, <1>4, <1>5, <1>6, <1>7 DEF ActsInv
<1>9. ASSUME meant.careful
      PROVE  /\ out' = Joined(FSays, Top.pc - 1) \o Joined(GSays, 0)
             /\ Top.ans = Joined(FAnswers, Top.pc - 1)
  <2>1. out = Joined(FSays, Top.pc - 1) /\ Top.ans = Joined(FAnswers, Top.pc - 1)
    BY <1>3, <1>9 DEF SoFar
  <2>2. out \in Seq(Who)
    BY DEF TypeOK, Who
  <2>3. out \o <<>> = out
    BY <2>2, ConcatEmptySeq
  <2> QED BY <2>1, <2>3, JoinedNone
<1>10. SoFar'
  BY <1>1, <1>5, <1>6, <1>7, <1>9 DEF SoFar
<1> QED BY <1>6, <1>8, <1>10

(* f jumps to g, with all it has to answer. *)
LEMMA JumpKeeps ==
  ASSUME IInv, status = "run", UNCHANGED program, SameG, out' = out, status' = "run",
         Top.fn = "f", ~AtEnd, Here = "tail", g.kind = "fn",
         acts' = <<[Act("g", "ast") EXCEPT !.ans = Append(Top.ans, <<"fn">>)]>>
  PROVE  acts' \in Seq(ActType) /\ ActsInv' /\ SoFar'
<1> USE DEF IInv
<1>1. /\ FSays' = FSays /\ FAnswers' = FAnswers /\ GSays' = GSays /\ meant' = meant
      /\ cfg' = cfg /\ fbody' = fbody
  BY SameMeaning
<1>2. /\ Alone /\ acts \in Seq(ActType) /\ Len(acts) = 1 /\ Top = acts[1] /\ FCall(Top)
      /\ Top.pc \in Nat \ {0} /\ Top.ans \in Seq(Answers) /\ Body = fbody
  BY ActFacts DEF Alone
<1>3. /\ Top.pc \in 1..Len(fbody) /\ fbody[Top.pc] = "tail" /\ Top.pc = Len(fbody)
      /\ Top.pc - 1 \in Nat /\ Top.pc - 1 < Len(fbody) /\ (Top.pc - 1) + 1 = Top.pc
  <2>1. Top.pc \in 1..Len(fbody) /\ fbody[Top.pc] = "tail"
    BY <1>2, BodyFacts DEF AtEnd, Here
  <2> QED BY <2>1, BodyFacts
<1>4. <<"fn">> \in Answers
  BY AnswerTypes
<1>5. PICK y : y = Append(Top.ans, <<"fn">>)
  OBVIOUS
<1>6. y \in Seq(Answers) /\ y = Top.ans \o <<<<"fn">>>>
  BY <1>2, <1>4, <1>5, AppendProperties, AppendIsConcat
<1>7. PICK b : b = [Act("g", "ast") EXCEPT !.ans = y]
  OBVIOUS
<1>8. b \in ActType /\ b.fn = "g" /\ b.tier = "ast" /\ b.pc = 1 /\ b.ans = y /\ b.pc - 1 = 0
  <2>1. PICK c : c = Act("g", "ast")
    OBVIOUS
  <2>2. c \in ActType /\ c.fn = "g" /\ c.tier = "ast" /\ c.pc = 1
    BY <2>1, EmptySeq DEF Act, ActType, Tiers
  <2>3. b = [c EXCEPT !.ans = y]
    BY <1>7, <2>1
  <2>4. b \in ActType /\ b.ans = y
    BY <1>6, <2>2, <2>3 DEF ActType
  <2>5. b.fn = "g" /\ b.tier = "ast" /\ b.pc = 1
    BY <2>2, <2>3 DEF ActType
  <2> QED BY <2>4, <2>5
<1>9. acts' = <<b>> /\ acts' \in Seq(ActType) /\ Len(acts') = 1 /\ acts'[1] = b
  BY <1>5, <1>7, <1>8
<1>10. Jumped' /\ ~Alone' /\ ~Nested'
  BY <1>8, <1>9 DEF Alone, Nested, Jumped
<1>11. ActsInv'
  <2>1. GCall(b)'
    BY <1>8, BodyFacts DEF GCall, SameG
  <2>2. fbody # <<>> /\ fbody[Len(fbody)] = "tail"
    BY <1>3, EmptySeq
  <2> QED BY <1>1, <1>8, <1>9, <1>10, <2>1, <2>2 DEF ActsInv
<1>12. ASSUME meant.careful
       PROVE  /\ out' = Joined(FSays, Len(fbody) - 1) \o Joined(GSays, 0)
              /\ y = Joined(FAnswers, Len(fbody))
  <2>1. out = Joined(FSays, Top.pc - 1) /\ Top.ans = Joined(FAnswers, Top.pc - 1)
    BY <1>2, <1>12 DEF SoFar
  <2>2. out \in Seq(Who)
    BY DEF TypeOK, Who
  <2>3. out \o <<>> = out
    BY <2>2, ConcatEmptySeq
  <2>4. FAnswers[Top.pc] = <<<<"fn">>>>
    <3>1. FAnswers[Top.pc] = <<AnsOfG>>
      BY <1>3, APieces DEF Calls
    <3> QED BY <3>1 DEF AnsOfG
  <2>5. Joined(FAnswers, Top.pc) = Joined(FAnswers, Top.pc - 1) \o FAnswers[Top.pc]
    BY <1>3, APieces
  <2> QED BY <1>3, <1>6, <2>1, <2>3, <2>4, <2>5, JoinedNone
<1>13. SoFar'
  BY <1>1, <1>8, <1>9, <1>10, <1>12 DEF SoFar
<1> QED BY <1>9, <1>11, <1>13

(* No careful call fails. *)
LEMMA FailKeeps ==
  ASSUME IInv, UNCHANGED program, SameG, Fail, ~meant.careful
  PROVE  acts' \in Seq(ActType) /\ ActsInv' /\ SoFar' /\ SameAsInterpreter'
<1>1. acts' = <<>> /\ status' = "failed" /\ meant' = meant
  BY SameMeaning DEF Fail
<1> QED BY <1>1, EmptySeq DEF ActsInv, SoFar, SameAsInterpreter
-----------------------------------------------------------------------------
(* What a step of a call has to keep. *)
LEMMA RunTypes ==
  ASSUME TypeOK, UNCHANGED program, g' \in GType, fchunk' \in Caches, fnative' \in Caches,
         callee' \in {callee, {epoch}}, acts' \in Seq(ActType), out' \in Seq(Who),
         ans' \in Seq(Answers), status' \in {"run", "done", "failed"}
  PROVE  TypeOK'
<1>1. /\ core' = core /\ fbody' = fbody /\ global' = global /\ epoch' = epoch /\ cfg' = cfg
      /\ meant' = meant
  BY DEF program
<1>2. callee' \subseteq 0..epoch'
  BY <1>1 DEF TypeOK
<1> QED BY <1>1, <1>2 DEF TypeOK, GType, ActType, Who

LEMMA RunKeeps ==
  ASSUME IInv, UNCHANGED program, SameG, TypeOK', CodeInv',
         epoch \in callee' => g.kind = core,
         status' = "run" => status = "run" /\ (Careful(cfg) => HotAgrees'),
         ActsInv', SoFar', SameAsInterpreter'
  PROVE  IInv'
<1> USE DEF IInv
<1>1. BodyInv'
  BY DEF program, BodyInv, SameG
<1>2. CoreInv'
  BY DEF program, CoreInv, CacheIsLookup, Hit, SameG
<1>3. MeantInv'
  <2>1. ASSUME status' = "run"
        PROVE  meant'.out = MeantOut' /\ meant'.ans = MeantAns' /\ (meant'.careful => Careful(cfg)')
    <3>1. /\ MeantOut' = MeantOut /\ MeantAns' = MeantAns /\ meant' = meant
      BY SameMeaning
    <3>2. meant.out = MeantOut /\ meant.ans = MeantAns /\ (meant.careful => Careful(cfg))
      BY <2>1 DEF MeantInv
    <3>3. meant.careful => Careful(cfg)'
      BY <2>1, <3>2, SameCareful
    <3> QED BY <3>1, <3>2, <3>3
  <2> QED BY <2>1 DEF MeantInv
<1> QED BY <1>1, <1>2, <1>3

(* Caches of g filled on the way. *)
LEMMA GCaches ==
  ASSUME TypeOK, NEW h \in GType, h.kind = g.kind, h.body = g.body, h.hot = g.hot,
         h.baked = g.baked, g' = h, UNCHANGED program
  PROVE  SameG /\ g' \in GType /\ (HotAgrees <=> HotAgrees')
BY DEF SameG, HotAgrees, program

(* Nothing of g changes. *)
LEMMA GSame ==
  ASSUME TypeOK, UNCHANGED program, g' = g
  PROVE  SameG /\ g' \in GType /\ (Careful(cfg) => HotAgrees')
<1>1. g' \in GType
  BY DEF TypeOK, GType
<1>2. HotAgrees' <=> HotAgrees
  BY DEF HotAgrees, program
<1> QED BY <1>1, <1>2, CarefulParts DEF SameG

LEMMA SameCode ==
  ASSUME CodeInv, UNCHANGED program, SameG, UNCHANGED <<fchunk, fnative>>,
         g'.chunk = g.chunk, g'.native = g.native
  PROVE  CodeInv'
<1>1. fbody' = fbody
  BY DEF program
<1> QED BY <1>1, SameTiers DEF CodeInv, SameG

(* Which body the top call runs. *)
LEMMA TopStep ==
  ASSUME IInv, status = "run", ~AtEnd
  PROVE  /\ Top.fn = "f" => /\ Top.pc \in 1..Len(fbody) /\ Here = fbody[Top.pc] /\ Here \in Steps
                            /\ Top.pc - 1 \in 0..Len(fbody)
         /\ Top.fn # "f" => /\ Top.fn = "g" /\ Top.pc \in 1..Len(g.body) /\ Here = g.body[Top.pc]
                            /\ Here \in Steps \ Calls
         /\ Here \in Calls => Top.fn = "f"
<1> USE DEF IInv
<1>1. ASSUME Top.fn = "f"
      PROVE  Top.pc \in 1..Len(fbody) /\ Here = fbody[Top.pc] /\ Top.pc - 1 \in 0..Len(fbody)
  BY <1>1, ActFacts, BodyFacts DEF AtEnd, Here
<1>2. ASSUME Top.fn # "f"
      PROVE  Top.fn = "g" /\ Top.pc \in 1..Len(g.body) /\ Here = g.body[Top.pc]
  BY <1>2, ActFacts, BodyFacts DEF AtEnd, Here
<1> QED BY <1>1, <1>2, BodyFacts

(* Plain: every interpreter runs the step in the same way. *)
LEMMA PlainKeeps ==
  ASSUME IInv, Plain
  PROVE  IInv'
<1> USE DEF IInv
<1>1. /\ status = "run" /\ Top.tier # "apply" /\ ~AtEnd /\ Here \notin Calls
      /\ SetTop(Advanced(<<>>)) /\ ans' = ans /\ status' = "run"
      /\ UNCHANGED program /\ callee' = callee /\ g' = g /\ fchunk' = fchunk /\ fnative' = fnative
      /\ out' = IF Here = "say" THEN Append(out, Top.fn) ELSE out
  BY DEF Plain, Going, Calls
<1>2. SameG /\ g' \in GType /\ (Careful(cfg) => HotAgrees')
  BY <1>1, GSame
<1>3. PICK says : says = IF Here = "say" THEN <<Top.fn>> ELSE <<>>
  OBVIOUS
<1>4. /\ out \in Seq(Who) /\ Top.fn \in Who /\ says \in Seq(Who) /\ out' = out \o says
      /\ out' \in Seq(Who)
  <2>1. out \in Seq(Who) /\ Top.fn \in Who
    BY <1>1, ActFacts DEF TypeOK, Who, ActType
  <2>2. says \in Seq(Who)
    BY <1>3, <2>1, EmptySeq
  <2>3. CASE Here = "say"
    <3>1. out' = Append(out, Top.fn) /\ says = <<Top.fn>>
      BY <1>1, <1>3, <2>3
    <3> QED BY <2>1, <2>2, <3>1, AppendIsConcat, ConcatProperties
  <2>4. CASE Here # "say"
    <3>1. out' = out /\ says = <<>>
      BY <1>1, <1>3, <2>4
    <3> QED BY <2>1, <2>2, <3>1, ConcatEmptySeq
  <2> QED BY <2>1, <2>3, <2>4
<1>5. Top.fn = "f" => says = FSays[Top.pc] /\ <<>> = FAnswers[Top.pc]
  <2> SUFFICES ASSUME Top.fn = "f" PROVE says = FSays[Top.pc] /\ <<>> = FAnswers[Top.pc]
    OBVIOUS
  <2>1. Top.pc \in 1..Len(fbody) /\ Here = fbody[Top.pc]
    BY <1>1, TopStep
  <2>2. FSays[Top.pc] = StepSays(Here) /\ FAnswers[Top.pc] = <<>>
    BY <1>1, <2>1, FPieces, APieces
  <2>3. StepSays(Here) = says
    BY <1>1, <1>3 DEF StepSays
  <2> QED BY <2>2, <2>3
<1>6. Top.fn = "g" => says = GSays[Top.pc]
  <2> SUFFICES ASSUME Top.fn = "g" PROVE says = GSays[Top.pc]
    OBVIOUS
  <2>1. Top.pc \in 1..Len(g.body) /\ Here = g.body[Top.pc]
    BY <1>1, TopStep
  <2> QED BY <1>3, <2>1, GPieces
<1>7. <<>> \in Seq(Answers)
  BY EmptySeq
<1>8. acts' \in Seq(ActType) /\ ActsInv' /\ SoFar'
  BY <1>1, <1>2, <1>4, <1>5, <1>6, <1>7, AdvanceKeeps
<1>9. TypeOK'
  <2>1. fchunk \in Caches /\ fnative \in Caches /\ ans \in Seq(Answers)
    BY DEF TypeOK
  <2> QED BY <1>1, <1>2, <1>4, <1>8, <2>1, RunTypes
<1>10. CodeInv'
  BY <1>1, <1>2, SameCode
<1>11. SameAsInterpreter' /\ (epoch \in callee' => g.kind = core)
  BY <1>1 DEF SameAsInterpreter, Ended, CoreInv, CacheIsLookup, Hit
<1> QED BY <1>1, <1>2, <1>8, <1>9, <1>10, <1>11, RunKeeps
-----------------------------------------------------------------------------
(* Return: at the end of its body a call has said and answered it all. *)
LEMMA ReturnKeeps ==
  ASSUME IInv, Return
  PROVE  IInv'
<1> USE DEF IInv
<1>1. /\ status = "run" /\ Top.tier # "apply" /\ AtEnd /\ Answer(Top.ans)
      /\ UNCHANGED program /\ callee' = callee /\ g' = g /\ fchunk' = fchunk /\ fnative' = fnative
      /\ out' = out
  BY DEF Return
<1>2. SameG /\ g' \in GType /\ (Careful(cfg) => HotAgrees')
  BY <1>1, GSame
<1>3. ASSUME Alone, meant.careful PROVE out = MeantOut /\ Top.ans = MeantAns
  <2>1. Top.fn = "f" /\ Top = acts[1] /\ FCall(Top) /\ Body = fbody /\ Top.pc \in Nat \ {0}
    BY <1>1, <1>3, ActFacts DEF Alone, Nested, Jumped
  <2>2. Top.pc - 1 = Len(fbody)
    BY <1>1, <2>1, BodyFacts DEF AtEnd, FCall
  <2>3. out = Joined(FSays, Top.pc - 1) /\ Top.ans = Joined(FAnswers, Top.pc - 1)
    BY <1>1, <1>3, <2>1 DEF SoFar
  <2> QED BY <2>2, <2>3, FPieces, APieces
<1>4. ASSUME Jumped, meant.careful PROVE out = MeantOut /\ Top.ans = MeantAns
  <2>1. /\ Top.fn = "g" /\ Top = acts[1] /\ GCall(Top) /\ Body = g.body /\ Top.pc \in Nat \ {0}
        /\ fbody # <<>> /\ fbody[Len(fbody)] = "tail"
    BY <1>1, <1>4, ActFacts DEF Alone, Nested, Jumped
  <2>2. Top.pc - 1 = Len(g.body)
    <3>1. Top.pc <= Len(g.body) + 1
      BY <2>1 DEF GCall
    <3>2. Top.pc > Len(g.body)
      BY <1>1, <2>1 DEF AtEnd
    <3>3. Len(g.body) \in Nat /\ Top.pc \in Nat
      BY <2>1, BodyFacts
    <3> HIDE DEF IInv
    <3> QED BY <3>1, <3>2, <3>3
  <2>3. /\ out = Joined(FSays, Len(fbody) - 1) \o Joined(GSays, Top.pc - 1)
        /\ Top.ans = Joined(FAnswers, Len(fbody))
    BY <1>1, <1>4, <2>1 DEF SoFar
  <2>4. /\ Len(fbody) - 1 \in Nat /\ Len(fbody) - 1 < Len(fbody) /\ (Len(fbody) - 1) + 1 = Len(fbody)
        /\ Len(fbody) \in 1..Len(fbody)
    BY <2>1, BodyFacts, EmptySeq
  <2>5. Joined(FSays, Len(fbody)) = Joined(FSays, Len(fbody) - 1) \o FSays[Len(fbody)]
    BY <2>4, FPieces
  <2>6. FSays[Len(fbody)] = SaysOf("g", g.body)
    <3>1. FSays[Len(fbody)] = StepSays("tail")
      BY <2>1, <2>4, FPieces
    <3> QED BY <2>1, <3>1 DEF StepSays, GCall, Calls
  <2> QED BY <2>2, <2>3, <2>5, <2>6, FPieces, APieces, GPieces
<1>5. ASSUME Nested, meant.careful
      PROVE  out = Joined(FSays, acts[1].pc - 1) \o SaysOf("g", g.body)
  <2>1. Top.fn = "g" /\ Top = acts[2] /\ GCall(Top) /\ Body = g.body /\ Top.pc \in Nat \ {0}
    BY <1>1, <1>5, ActFacts DEF Alone, Nested, Jumped
  <2>2. Top.pc - 1 = Len(g.body)
    <3>1. Top.pc <= Len(g.body) + 1
      BY <2>1 DEF GCall
    <3>2. Top.pc > Len(g.body)
      BY <1>1, <2>1 DEF AtEnd
    <3> QED BY <2>1, <3>1, <3>2, BodyFacts
  <2>3. out = Joined(FSays, acts[1].pc - 1) \o Joined(GSays, Top.pc - 1)
    BY <1>1, <1>5, <2>1 DEF SoFar
  <2> QED BY <2>2, <2>3, GPieces
<1>6. Top.ans \in Seq(Answers)
  BY <1>1, ActFacts
<1>7. /\ acts' \in Seq(ActType) /\ ActsInv' /\ SoFar' /\ SameAsInterpreter'
      /\ ans' \in Seq(Answers) /\ status' \in {"run", "done"}
  BY <1>1, <1>2, <1>3, <1>4, <1>5, <1>6, AnswerKeeps DEF ActsInv
<1>8. TypeOK'
  <2>1. fchunk \in Caches /\ fnative \in Caches /\ out \in Seq(Who)
    BY DEF TypeOK, Who
  <2> QED BY <1>1, <1>2, <1>7, <2>1, RunTypes
<1>9. CodeInv'
  BY <1>1, <1>2, SameCode
<1>10. epoch \in callee' => g.kind = core
  BY <1>1 DEF CoreInv, CacheIsLookup, Hit
<1> QED BY <1>1, <1>2, <1>7, <1>8, <1>9, <1>10, RunKeeps

(* Tco is the trampoline's condition. *)
LEMMA TcoIs == Tco <=> Trampolined(fbody)
BY DEF Tco, Trampolined

(* A refused body starts over, and has said nothing if the call is careful. *)
LEMMA RefuseKeeps ==
  ASSUME IInv, status = "run", Top.tier \in {"vm", "named"}, ~AtEnd, Refused,
         Top.fn = "f" => RefusedF(Here), Top.fn = "g" => Here = "limit",
         UNCHANGED program, SameG, out' = out
  PROVE  acts' \in Seq(ActType) /\ ActsInv' /\ SoFar' /\ status' = "run" /\ ans' = ans
<1> USE DEF IInv
<1>1. PICK tier : tier = IF Top.tier = "named" THEN "apply" ELSE "ast"
  OBVIOUS
<1>2. tier \in Tiers /\ tier \in {"apply", "ast"} /\ SetTop(Act(Top.fn, tier))
      /\ status' = "run" /\ ans' = ans
  BY <1>1 DEF Refused, Going, Tiers
<1>3. ~Jumped
  BY ActFacts
<1>4. \A fn : /\ Act(fn, tier).pc = 1 /\ Act(fn, tier).ans = <<>> /\ Act(fn, tier).tier = tier
              /\ Act(fn, tier).fn = fn
  BY DEF Act
<1>5. ASSUME Top.fn = "f" PROVE FCall(Act("f", tier))
  <2>1. FCall(Top) /\ Top.tier = "vm" /\ tier = "ast"
    BY <1>1, <1>5, ActFacts DEF FCall
  <2>2. 1 <= Len(fbody) + 1
    BY BodyFacts
  <2> QED BY <1>4, <2>1, <2>2 DEF FCall
<1>6. ASSUME Top.fn = "g" PROVE GCall(Act("g", tier))
  <2>1. GCall(Top)
    BY <1>6, ActFacts
  <2>2. 1 <= Len(g.body) + 1
    BY BodyFacts
  <2> QED BY <1>2, <1>4, <2>1, <2>2 DEF GCall
<1>7. ASSUME Top.fn = "f", meant.careful PROVE Joined(FSays, Top.pc - 1) = <<>>
  <2>1. FCall(Top) /\ Top.tier = "vm"
    BY <1>7, ActFacts DEF FCall
  <2>2. Fvm
    BY <2>1, TcoIs DEF Fvm, FCall
  <2>3. NoRepeatF
    BY <1>7, CarefulParts DEF MeantInv
  <2>4. Top.pc \in 1..Len(fbody) /\ Here = fbody[Top.pc] /\ Top.pc - 1 \in Nat /\ RefusedF(fbody[Top.pc])
    BY <1>7, TopStep
  <2>5. \A i \in 1..(Top.pc - 1) : i \in 1..Len(fbody) /\ i < Top.pc
    BY <2>4, BodyFacts
  <2>6. \A i \in 1..(Top.pc - 1) : FSays[i] = <<>>
    BY <2>2, <2>3, <2>4, <2>5, FPieces DEF NoRepeatF
  <2> QED BY <2>4, <2>6, JoinedEmpty
<1>8. ASSUME Top.fn = "g", meant.careful PROVE Joined(GSays, Top.pc - 1) = <<>>
  <2>1. /\ GCall(Top) /\ Nested /\ FCall(acts[1]) /\ Waits(acts[1])
    BY <1>3, <1>8, ActFacts
  <2>2. cfg.vm /\ g.kind = "fn" /\ Compiles(g.body)
    BY <2>1 DEF GCall
  <2>3. Applies
    <3>1. acts[1].pc \in 1..Len(fbody) /\ fbody[acts[1].pc] \in Calls
      BY <2>1, ActFacts, BodyFacts DEF Waits
    <3>2. Tco => fbody[acts[1].pc] = "call"
      BY <2>1, TcoIs DEF FCall, Waits
    <3> QED BY <3>1, <3>2 DEF Applies, Contains
  <2>4. NoRepeatG
    BY <1>8, CarefulParts DEF MeantInv
  <2>5. Top.pc \in 1..Len(g.body) /\ Here = g.body[Top.pc] /\ Top.pc - 1 \in Nat /\ g.body[Top.pc] = "limit"
    BY <1>8, TopStep
  <2>6. \A i \in 1..(Top.pc - 1) : i \in 1..Len(g.body) /\ i < Top.pc
    BY <2>5, BodyFacts
  <2>7. \A i \in 1..(Top.pc - 1) : g.body[i] # "say"
    BY <2>2, <2>3, <2>4, <2>5, <2>6 DEF NoRepeatG
  <2>8. \A i \in 1..(Top.pc - 1) : GSays[i] = <<>>
    BY <2>6, <2>7, GPieces
  <2> QED BY <2>5, <2>8, JoinedEmpty
<1> QED BY <1>2, <1>3, <1>5, <1>6, <1>7, <1>8, RestartKeeps

(* VmRefuses *)
LEMMA VmRefusesKeeps ==
  ASSUME IInv, VmRefuses
  PROVE  IInv'
<1> USE DEF IInv
<1>1. /\ status = "run" /\ Top.tier \in {"vm", "named"} /\ ~AtEnd /\ Here = "limit" /\ Refused
      /\ UNCHANGED program /\ callee' = callee /\ g' = g /\ fchunk' = fchunk /\ fnative' = fnative
      /\ out' = out
  BY DEF VmRefuses
<1>2. SameG /\ g' \in GType /\ (Careful(cfg) => HotAgrees')
  BY <1>1, GSame
<1>3. acts' \in Seq(ActType) /\ ActsInv' /\ SoFar' /\ status' = "run" /\ ans' = ans
  BY <1>1, <1>2, RefuseKeeps DEF RefusedF
<1>4. TypeOK'
  <2>1. fchunk \in Caches /\ fnative \in Caches /\ out \in Seq(Who) /\ ans \in Seq(Answers)
    BY DEF TypeOK, Who
  <2> QED BY <1>1, <1>2, <1>3, <2>1, RunTypes
<1>5. CodeInv'
  BY <1>1, <1>2, SameCode
<1>6. SameAsInterpreter' /\ (epoch \in callee' => g.kind = core)
  BY <1>1, <1>3 DEF SameAsInterpreter, Ended, CoreInv, CacheIsLookup, Hit
<1> QED BY <1>1, <1>2, <1>3, <1>4, <1>5, <1>6, RunKeeps
-----------------------------------------------------------------------------
(* A call of a builtin or an MFn: f goes on, and nothing is said. *)
LEMMA CallGoesOn ==
  ASSUME IInv, status = "run", Top.tier # "apply", ~AtEnd, Here \in Calls,
         UNCHANGED program, SameG, status' = "run", out' = out, g.kind # "fn",
         NEW e \in Answers, SetTop(Advanced(<<e>>)), meant.careful => e = AnsOfG
  PROVE  acts' \in Seq(ActType) /\ ActsInv' /\ SoFar'
<1> USE DEF IInv
<1>1. Top.fn = "f" /\ Top.pc \in 1..Len(fbody) /\ Here = fbody[Top.pc]
  BY TopStep
<1>2. FSays[Top.pc] = <<>> /\ FAnswers[Top.pc] = <<AnsOfG>>
  <2>1. FSays[Top.pc] = StepSays(Here) /\ FAnswers[Top.pc] = <<AnsOfG>>
    BY <1>1, FPieces, APieces
  <2> QED BY <2>1 DEF StepSays, Calls
<1>3. <<>> \in Seq(Who) /\ out \in Seq(Who) /\ out' = out \o <<>>
  BY EmptySeq, ConcatEmptySeq DEF TypeOK, Who
<1>4. <<e>> \in Seq(Answers)
  BY AnswerTypes
<1>5. meant.careful => <<e>> = FAnswers[Top.pc]
  BY <1>2
<1>6. Top.fn # "g"
  BY <1>1
<1> QED BY <1>1, <1>2, <1>3, <1>4, <1>5, <1>6, AdvanceKeeps

(* What fails or is refused on the way is not careful. *)
LEMMA NotCareful ==
  ASSUME IInv, status = "run", ~AtEnd, Here \in Calls, Top.tier # "apply"
  PROVE  /\ Top.tier = "vm" => Fvm
         /\ Top.tier = "vm" /\ g.kind = "higher" => ~meant.careful
         /\ Top.tier = "trampoline" /\ g.kind \in {"calc", "higher"} => ~meant.careful
<1> USE DEF IInv
<1>1. Top.fn = "f" /\ Top.pc \in 1..Len(fbody) /\ Here = fbody[Top.pc]
  BY TopStep
<1>2. FCall(Top)
  BY <1>1, ActFacts
<1>3. Top.tier = "vm" => Fvm
  BY <1>2, TcoIs DEF Fvm, FCall
<1>4. Top.tier = "trampoline" => Tco
  BY <1>2, TcoIs DEF FCall
<1>5. CallsG(fbody)
  BY <1>1 DEF CallsG
<1>6. meant.careful => NoHigher /\ NoJumpedCore
  BY CarefulParts DEF MeantInv
<1> QED BY <1>3, <1>4, <1>5, <1>6 DEF NoHigher, NoJumpedCore

LEMMA VmCallCoreKeeps ==
  ASSUME IInv, VmCallCore
  PROVE  IInv'
<1> USE DEF IInv
<1>1. /\ status = "run" /\ Top.tier = "vm" /\ ~AtEnd /\ Here \in Calls
      /\ UNCHANGED program /\ g' = g /\ fchunk' = fchunk /\ fnative' = fnative /\ out' = out
      /\ Hit \/ g.kind \in CoreKinds
  BY DEF VmCallCore, InVm
<1>2. SameG /\ g' \in GType /\ (Careful(cfg) => HotAgrees')
  BY <1>1, GSame
<1>3. g.kind = core /\ core \in CoreKinds
  BY <1>1 DEF CoreInv, CacheIsLookup, TypeOK
<1>4. Top.fn = "f"
  BY <1>1, TopStep
<1>5. fchunk \in Caches /\ fnative \in Caches /\ out \in Seq(Who) /\ ans \in Seq(Answers)
  BY DEF TypeOK, Who
<1>6. CodeInv'
  BY <1>1, <1>2, SameCode
<1>7. CASE core = "higher" /\ Fail /\ UNCHANGED callee
  <2>1. ~meant.careful
    BY <1>1, <1>3, <1>7, NotCareful
  <2>2. acts' \in Seq(ActType) /\ ActsInv' /\ SoFar' /\ SameAsInterpreter'
    BY <1>1, <1>2, <1>7, <2>1, FailKeeps
  <2>3. status' = "failed" /\ ans' = ans
    BY <1>7 DEF Fail
  <2>4. TypeOK'
    BY <1>1, <1>2, <1>5, <1>7, <2>2, <2>3, RunTypes
  <2> QED BY <1>1, <1>2, <1>3, <1>6, <2>2, <2>3, <2>4, RunKeeps
<1>8. CASE core = "calc" /\ callee' = (IF Hit THEN callee ELSE CachedNow) /\ Refused
  <2>1. acts' \in Seq(ActType) /\ ActsInv' /\ SoFar' /\ status' = "run" /\ ans' = ans
    BY <1>1, <1>2, <1>3, <1>4, <1>8, RefuseKeeps DEF RefusedF
  <2>2. TypeOK'
    BY <1>1, <1>2, <1>5, <1>8, <2>1, RunTypes DEF CachedNow
  <2>3. SameAsInterpreter'
    BY <2>1 DEF SameAsInterpreter, Ended
  <2> QED BY <1>1, <1>2, <1>3, <1>6, <2>1, <2>2, <2>3, RunKeeps
<1>9. CASE /\ core = "plain" /\ callee' = (IF Hit THEN callee ELSE CachedNow)
           /\ SetTop(Advanced(<<<<"plain">>>>)) /\ Going
  <2>1. status' = "run" /\ ans' = ans
    BY <1>1, <1>9 DEF Going
  <2>2. <<"plain">> \in Answers /\ <<"plain">> = AnsOfG /\ g.kind # "fn"
    BY <1>3, <1>9, AnswerTypes DEF AnsOfG, CoreKinds
  <2>3. acts' \in Seq(ActType) /\ ActsInv' /\ SoFar'
    BY <1>1, <1>2, <1>9, <2>1, <2>2, CallGoesOn
  <2>4. TypeOK'
    BY <1>1, <1>2, <1>5, <1>9, <2>1, <2>3, RunTypes DEF CachedNow
  <2>5. SameAsInterpreter'
    BY <2>1 DEF SameAsInterpreter, Ended
  <2> QED BY <1>1, <1>2, <1>3, <1>6, <2>1, <2>3, <2>4, <2>5, RunKeeps
<1> QED BY <1>7, <1>8, <1>9 DEF VmCallCore

LEMMA VmCallFnKeeps ==
  ASSUME IInv, VmCallFn
  PROVE  IInv'
<1> USE DEF IInv
<1>1. PICK chunk : chunk = Filled(g.chunk, Compiles(g.body))
  OBVIOUS
<1>2. PICK tier : tier = IF chunk = "some" THEN "named" ELSE "apply"
  OBVIOUS
<1>3. /\ status = "run" /\ Top.tier = "vm" /\ ~AtEnd /\ Here \in Calls /\ ~Hit /\ g.kind = "fn"
      /\ UNCHANGED program /\ g' = [g EXCEPT !.chunk = chunk] /\ fchunk' = fchunk
      /\ fnative' = fnative /\ out' = out /\ callee' = callee /\ ans' = ans /\ status' = "run"
      /\ acts' = Append(acts, Act("g", tier))
  BY <1>1, <1>2 DEF VmCallFn, InVm, Going
<1>4. g \in GType
  BY BodyFacts
<1>5. chunk \in Caches /\ (chunk = "some" => Compiles(g.body))
  BY <1>1, <1>4 DEF Filled, CodeInv, Caches, GType
<1>6. /\ g' \in GType /\ g'.kind = g.kind /\ g'.body = g.body /\ g'.hot = g.hot
      /\ g'.baked = g.baked /\ g'.chunk = chunk /\ g'.native = g.native
  BY <1>3, <1>4, <1>5 DEF GType
<1>7. SameG /\ (Careful(cfg) => HotAgrees')
  <2>1. HotAgrees => HotAgrees'
    BY <1>3, <1>6 DEF HotAgrees, program
  <2> QED BY <1>6, <2>1, CarefulParts DEF SameG
<1>8. Top.fn = "f" /\ FCall(Top) /\ Waits(Top) /\ cfg.vm
  <2>1. Top.fn = "f" /\ Top.pc \in 1..Len(fbody) /\ Here = fbody[Top.pc]
    BY <1>3, TopStep
  <2>2. FCall(Top)
    BY <1>3, <2>1, ActFacts
  <2>3. Waits(Top)
    BY <1>3, <2>1, BodyFacts DEF Waits
  <2> QED BY <1>3, <2>1, <2>2, <2>3 DEF FCall
<1>9. tier \in {"named", "apply"} /\ (tier = "named" => Compiles(g.body))
  BY <1>2, <1>5
<1>10. GCall(Act("g", tier))
  <2>1. Act("g", tier).pc = 1 /\ Act("g", tier).tier = tier
    BY DEF Act
  <2>2. 1 <= Len(g.body) + 1
    BY BodyFacts
  <2> QED BY <1>3, <1>8, <1>9, <2>1, <2>2 DEF GCall
<1>11. acts' \in Seq(ActType) /\ ActsInv' /\ SoFar'
  BY <1>3, <1>7, <1>8, <1>9, <1>10, OpenKeeps
<1>12. TypeOK'
  <2>1. fchunk \in Caches /\ fnative \in Caches /\ out \in Seq(Who) /\ ans \in Seq(Answers)
    BY DEF TypeOK, Who
  <2> QED BY <1>3, <1>6, <1>11, <2>1, RunTypes
<1>13. CodeInv'
  <2>1. /\ Compiles(g.body)' <=> Compiles(g.body)
        /\ Lowers(g.body)' <=> Lowers(g.body)
        /\ Compiles(fbody)' <=> Compiles(fbody)
        /\ Lowers(fbody)' <=> Lowers(fbody)
    <3>1. fbody' = fbody /\ g'.body = g.body
      BY <1>3, <1>6 DEF program
    <3> QED BY <1>3, <1>7, <3>1, SameTiers
  <2> QED BY <1>3, <1>5, <1>6, <2>1 DEF CodeInv
<1>14. SameAsInterpreter' /\ (epoch \in callee' => g.kind = core)
  BY <1>3 DEF SameAsInterpreter, Ended, CoreInv, CacheIsLookup, Hit
<1> QED BY <1>3, <1>7, <1>11, <1>12, <1>13, <1>14, RunKeeps
LEMMA AstCallCoreKeeps ==
  ASSUME IInv, AstCallCore
  PROVE  IInv'
<1> USE DEF IInv
<1>1. /\ status = "run" /\ Top.tier \in {"ast", "trampoline"} /\ ~AtEnd /\ Here \in Calls
      /\ UNCHANGED program /\ g' = g /\ fchunk' = fchunk /\ fnative' = fnative /\ out' = out
      /\ callee' = callee /\ g.kind \in CoreKinds
  BY DEF AstCallCore, InAst
<1>2. SameG /\ g' \in GType /\ (Careful(cfg) => HotAgrees')
  BY <1>1, GSame
<1>3. fchunk \in Caches /\ fnative \in Caches /\ out \in Seq(Who) /\ ans \in Seq(Answers)
  BY DEF TypeOK, Who
<1>4. CodeInv'
  BY <1>1, <1>2, SameCode
<1>5. epoch \in callee' => g.kind = core
  BY <1>1 DEF CoreInv, CacheIsLookup, Hit
<1>6. CASE Jumps /\ g.kind # "plain" /\ Fail
  <2>1. ~meant.careful
    BY <1>1, <1>6, NotCareful DEF Jumps, CoreKinds
  <2>2. acts' \in Seq(ActType) /\ ActsInv' /\ SoFar' /\ SameAsInterpreter'
    BY <1>1, <1>2, <1>6, <2>1, FailKeeps
  <2>3. status' = "failed" /\ ans' = ans
    BY <1>6 DEF Fail
  <2>4. TypeOK'
    BY <1>1, <1>2, <1>3, <2>2, <2>3, RunTypes
  <2> QED BY <1>1, <1>2, <1>4, <1>5, <2>2, <2>3, <2>4, RunKeeps
<1>7. CASE SetTop(Advanced(<<<<g.kind>>>>)) /\ Going
  <2>1. status' = "run" /\ ans' = ans
    BY <1>1, <1>7 DEF Going
  <2>2. PICK e : e = <<g.kind>>
    OBVIOUS
  <2>3. e \in Answers /\ e = AnsOfG /\ g.kind # "fn" /\ SetTop(Advanced(<<e>>))
    BY <1>1, <1>7, <2>2, AnswerTypes DEF AnsOfG, CoreKinds
  <2>4. acts' \in Seq(ActType) /\ ActsInv' /\ SoFar'
    BY <1>1, <1>2, <2>1, <2>3, CallGoesOn
  <2>5. TypeOK'
    BY <1>1, <1>2, <1>3, <2>1, <2>4, RunTypes
  <2>6. SameAsInterpreter'
    BY <2>1 DEF SameAsInterpreter, Ended
  <2> QED BY <1>1, <1>2, <1>4, <1>5, <2>1, <2>4, <2>5, <2>6, RunKeeps
<1> QED BY <1>6, <1>7 DEF AstCallCore

LEMMA AstCallFnKeeps ==
  ASSUME IInv, AstCallFn
  PROVE  IInv'
<1> USE DEF IInv
<1>1. /\ status = "run" /\ Top.tier \in {"ast", "trampoline"} /\ ~AtEnd /\ Here \in Calls
      /\ UNCHANGED program /\ g' = g /\ fchunk' = fchunk /\ fnative' = fnative /\ out' = out
      /\ callee' = callee /\ g.kind = "fn" /\ status' = "run" /\ ans' = ans
  BY DEF AstCallFn, InAst, Going
<1>2. SameG /\ g' \in GType /\ (Careful(cfg) => HotAgrees')
  BY <1>1, GSame
<1>3. Top.fn = "f" /\ Top.pc \in 1..Len(fbody) /\ Here = fbody[Top.pc] /\ FCall(Top)
  BY <1>1, TopStep, ActFacts
<1>4. acts' \in Seq(ActType) /\ ActsInv' /\ SoFar'
  <2>1. CASE Jumps
    <3>1. acts' = <<[Act("g", "ast") EXCEPT !.ans = Append(Top.ans, <<"fn">>)]>>
      BY <2>1 DEF AstCallFn
    <3>2. Here = "tail"
      BY <2>1 DEF Jumps
    <3> QED BY <1>1, <1>2, <1>3, <3>1, <3>2, JumpKeeps
  <2>2. CASE ~Jumps
    <3>1. acts' = Append(acts, Act("g", "apply"))
      BY <2>2 DEF AstCallFn
    <3>2. Waits(Top)
      <4>1. Top.tier = "trampoline" => fbody[Top.pc] = "call"
        BY <1>1, <1>3, <2>2 DEF Jumps, Calls
      <4>2. Top.pc <= Len(fbody)
        BY <1>3, BodyFacts
      <4> QED BY <1>1, <1>3, <4>1, <4>2 DEF Waits
    <3>3. GCall(Act("g", "apply"))
      <4>1. Act("g", "apply").pc = 1 /\ Act("g", "apply").tier = "apply"
        BY DEF Act
      <4>2. 1 <= Len(g.body) + 1
        BY BodyFacts
      <4> QED BY <1>1, <4>1, <4>2 DEF GCall
    <3> QED BY <1>1, <1>2, <1>3, <3>1, <3>2, <3>3, OpenKeeps
  <2> QED BY <2>1, <2>2
<1>5. TypeOK'
  <2>1. fchunk \in Caches /\ fnative \in Caches /\ out \in Seq(Who) /\ ans \in Seq(Answers)
    BY DEF TypeOK, Who
  <2> QED BY <1>1, <1>2, <1>4, <2>1, RunTypes
<1>6. CodeInv'
  BY <1>1, <1>2, SameCode
<1>7. SameAsInterpreter' /\ (epoch \in callee' => g.kind = core)
  BY <1>1 DEF SameAsInterpreter, Ended, CoreInv, CacheIsLookup, Hit
<1> QED BY <1>1, <1>2, <1>4, <1>5, <1>6, <1>7, RunKeeps

(* An MFn answers from the variable, or from code with its value in it. *)
LEMMA CallMfnKeeps ==
  ASSUME IInv, CallMfn
  PROVE  IInv'
<1> USE DEF IInv
<1>1. /\ status = "run" /\ Top.tier \in {"vm", "ast", "trampoline"} /\ ~AtEnd /\ Here \in Calls
      /\ UNCHANGED program /\ fchunk' = fchunk /\ fnative' = fnative /\ out' = out
      /\ callee' = callee /\ g.kind = "mfn" /\ status' = "run" /\ ans' = ans
  BY DEF CallMfn, InVm, InAst, Going
<1>2. g \in GType /\ global \in Values
  BY DEF TypeOK, GType
<1>3. PICK v : v = IF cfg.numeric /\ g.hot = "some" THEN g.baked ELSE global
  OBVIOUS
<1>4. SetTop(Advanced(<<<<"mfn", v>>>>))
  BY <1>3 DEF CallMfn
<1>5. \E hot \in Caches, n \in Nat, b \in Values :
        /\ g' = [g EXCEPT !.calls = n, !.hot = hot, !.baked = b]
        /\ b = IF hot # g.hot THEN global ELSE g.baked
  <2> DEFINE counts == cfg.numeric /\ g.hot = "unset"
  <2>1. PICK hot \in {"some", "none", g.hot} :
          g' = [g EXCEPT !.calls = IF counts /\ @ < Threshold THEN @ + 1 ELSE @,
                         !.hot = hot,
                         !.baked = IF hot # g.hot THEN global ELSE @]
    BY DEF CallMfn
  <2>2. PICK n : n = IF counts /\ g.calls < Threshold THEN g.calls + 1 ELSE g.calls
    OBVIOUS
  <2>3. PICK b : b = IF hot # g.hot THEN global ELSE g.baked
    OBVIOUS
  <2>4. g' = [g EXCEPT !.calls = n, !.hot = hot, !.baked = b]
    BY <2>1, <2>2, <2>3
  <2> HIDE DEF counts
  <2>5. n \in Nat
    <3>1. g.calls \in Nat
      BY <1>2 DEF GType
    <3>2. n = g.calls \/ n = g.calls + 1
      BY <2>2
    <3> QED BY <3>1, <3>2
  <2>6. hot \in Caches /\ b \in Values
    BY <1>2, <2>1, <2>3 DEF GType, Caches
  <2> QED BY <2>3, <2>4, <2>5, <2>6
<1>6. /\ g' \in GType /\ g'.kind = g.kind /\ g'.body = g.body /\ g'.chunk = g.chunk
      /\ g'.native = g.native /\ (g'.baked = IF g'.hot # g.hot THEN global ELSE g.baked)
  <2>1. PICK hot \in Caches, n \in Nat, b \in Values :
          /\ g' = [g EXCEPT !.calls = n, !.hot = hot, !.baked = b]
          /\ b = IF hot # g.hot THEN global ELSE g.baked
    BY <1>5
  <2>2. g'.hot = hot /\ g'.baked = b
    BY <1>2, <2>1 DEF GType
  <2> QED BY <1>2, <2>1, <2>2 DEF GType
<1>7. SameG /\ (Careful(cfg) => HotAgrees')
  <2>1. ASSUME HotAgrees PROVE HotAgrees'
    <3>1. global' = global /\ cfg' = cfg
      BY <1>1 DEF program
    <3> QED BY <1>6, <2>1, <3>1 DEF HotAgrees
  <2> QED BY <1>6, <2>1, CarefulParts DEF SameG
<1>8. v \in Values /\ (meant.careful => v = global)
  <2>1. v \in Values
    BY <1>2, <1>3 DEF GType
  <2>2. meant.careful => HotAgrees
    BY <1>1, CarefulParts DEF MeantInv
  <2>3. meant.careful => v = global
    BY <1>3, <2>2 DEF HotAgrees
  <2> QED BY <2>1, <2>3
<1>9. acts' \in Seq(ActType) /\ ActsInv' /\ SoFar'
  <2>1. PICK e : e = <<"mfn", v>>
    OBVIOUS
  <2>2. e \in Answers /\ SetTop(Advanced(<<e>>)) /\ (meant.careful => e = AnsOfG)
    BY <1>1, <1>4, <1>8, <2>1, AnswerTypes DEF AnsOfG
  <2>3. g.kind # "fn" /\ Top.tier # "apply"
    BY <1>1
  <2> QED BY <1>1, <1>7, <2>2, <2>3, CallGoesOn
<1>10. TypeOK'
  <2>1. fchunk \in Caches /\ fnative \in Caches /\ out \in Seq(Who) /\ ans \in Seq(Answers)
    BY DEF TypeOK, Who
  <2> QED BY <1>1, <1>6, <1>9, <2>1, RunTypes
<1>11. CodeInv'
  BY <1>1, <1>6, <1>7, SameCode
<1>12. SameAsInterpreter' /\ (epoch \in callee' => g.kind = core)
  BY <1>1 DEF SameAsInterpreter, Ended, CoreInv, CacheIsLookup, Hit
<1> QED BY <1>1, <1>7, <1>9, <1>10, <1>11, <1>12, RunKeeps
-----------------------------------------------------------------------------
(* Native code of f. *)
Plains(n) == [i \in 1..n |-> <<"plain">>]
CallsUpTo(k) == {j \in 1..k : fbody[j] \in Calls}

LEMMA PlainsFacts ==
  ASSUME NEW n \in Nat
  PROVE  /\ Plains(0) = <<>>
         /\ Plains(n) \in Seq(Answers)
         /\ Plains(n) \o <<<<"plain">>>> = Plains(n + 1)
<1>1. Plains(0) = <<>>
  BY DEF Plains
<1>2. <<"plain">> \in Answers
  BY DEF Answers, CoreKinds
<1>3. PICK e : e = <<"plain">>
  OBVIOUS
<1>4. \A m \in Nat : Plains(m) = [i \in 1..m |-> e]
  BY <1>3 DEF Plains
<1>5. \A m \in Nat : [i \in 1..m |-> e] \in Seq(Answers)
  BY <1>2, <1>3
<1>6. Plains(n) \o <<e>> = Plains(n + 1)
  <2>1. e \in Answers /\ n + 1 \in Nat
    BY <1>2, <1>3
  <2>2. PICK s \in Seq(Answers) : s = Plains(n) /\ s = [i \in 1..n |-> e]
    BY <1>4, <1>5
  <2>3. PICK t \in Seq(Answers) : t = Plains(n + 1) /\ t = [i \in 1..(n + 1) |-> e]
    BY <1>4, <1>5, <2>1
  <2>4. Len(s) = n /\ \A i \in 1..n : s[i] = e
    BY <2>2
  <2>5. Len(t) = n + 1 /\ \A i \in 1..(n + 1) : t[i] = e
    BY <2>3
  <2>6. /\ Append(s, e) \in Seq(Answers) /\ Len(Append(s, e)) = n + 1
        /\ \A i \in 1..(n + 1) : Append(s, e)[i] = e
    BY <2>1, <2>4, AppendProperties
  <2>7. Append(s, e) = t
    BY <2>5, <2>6, SeqEqual
  <2>8. s \o <<e>> = Append(s, e)
    BY <2>1, AppendIsConcat
  <2> QED BY <2>2, <2>3, <2>7, <2>8
<1> QED BY <1>1, <1>3, <1>4, <1>5, <1>6

LEMMA CallsUpToFacts ==
  ASSUME NEW k \in Nat
  PROVE  /\ CallsUpTo(0) = {}
         /\ IsFiniteSet(CallsUpTo(k)) /\ Cardinality(CallsUpTo(k)) \in Nat
         /\ fbody[k + 1] \in Calls =>
              Cardinality(CallsUpTo(k + 1)) = Cardinality(CallsUpTo(k)) + 1
         /\ fbody[k + 1] \notin Calls => CallsUpTo(k + 1) = CallsUpTo(k)
<1>1. CallsUpTo(0) = {}
  BY DEF CallsUpTo
<1>2. IsFiniteSet(CallsUpTo(k)) /\ Cardinality(CallsUpTo(k)) \in Nat
  <2>1. IsFiniteSet(1..k)
    BY FS_Interval
  <2>2. CallsUpTo(k) \subseteq 1..k
    BY DEF CallsUpTo
  <2> QED BY <2>1, <2>2, FS_Subset, FS_CardinalityType
<1>3. ASSUME fbody[k + 1] \in Calls
      PROVE  CallsUpTo(k + 1) = CallsUpTo(k) \cup {k + 1} /\ k + 1 \notin CallsUpTo(k)
  BY <1>3 DEF CallsUpTo
<1>4. fbody[k + 1] \notin Calls => CallsUpTo(k + 1) = CallsUpTo(k)
  BY DEF CallsUpTo
<1> QED BY <1>1, <1>2, <1>3, <1>4, FS_AddElement

(* If every call is answered by the builtin on values, native code answers *)
(* what the steps answer together.                                         *)
LEMMA NativeIsJoined ==
  ASSUME TypeOK, BodyInv,
         (\E i \in 1..Len(fbody) : fbody[i] \in Calls) => AnsOfG = <<"plain">>
  PROVE  NativeAns(fbody) = MeantAns
<1> DEFINE P == {k \in Nat : Joined(FAnswers, k) = Plains(Cardinality(CallsUpTo(k)))}
<1>0. Len(fbody) \in Nat
  BY BodyFacts
<1>1. 0 \in P
  BY JoinedNone, CallsUpToFacts, FS_EmptySet, PlainsFacts
<1>2. ASSUME NEW k \in Nat, k < Len(fbody), k \in P PROVE k + 1 \in P
  <2>1. k + 1 \in 1..Len(fbody) /\ k + 1 \in Nat
    BY <1>0, <1>2
  <2>2. Joined(FAnswers, k + 1) = Plains(Cardinality(CallsUpTo(k))) \o FAnswers[k + 1]
    BY <1>2, APieces
  <2>3. PICK n \in Nat : n = Cardinality(CallsUpTo(k))
    BY CallsUpToFacts
  <2>4. CASE fbody[k + 1] \in Calls
    <3>1. FAnswers[k + 1] = <<<<"plain">>>>
      BY <2>1, <2>4, APieces
    <3>2. Cardinality(CallsUpTo(k + 1)) = n + 1
      BY <2>3, <2>4, CallsUpToFacts
    <3> QED BY <2>1, <2>2, <2>3, <3>1, <3>2, PlainsFacts
  <2>5. CASE fbody[k + 1] \notin Calls
    <3>1. FAnswers[k + 1] = <<>>
      BY <2>1, <2>5, APieces
    <3>2. Cardinality(CallsUpTo(k + 1)) = n
      BY <2>3, <2>5, CallsUpToFacts
    <3>3. Plains(n) \o <<>> = Plains(n)
      BY PlainsFacts, ConcatEmptySeq
    <3> QED BY <2>1, <2>2, <2>3, <3>1, <3>2, <3>3
  <2> QED BY <2>4, <2>5
<1> HIDE DEF P
<1>3. Len(fbody) \in P
  <2>1. \A k \in 0..Len(fbody) : k \in P
    BY <1>0, <1>1, <1>2, UpTo
  <2> QED BY <1>0, <2>1
<1>4. MeantAns = Plains(Cardinality(CallsUpTo(Len(fbody))))
  BY <1>3, APieces DEF P
<1> QED BY <1>4 DEF NativeAns, Plains, CallsUpTo

LEMMA NativeTypes ==
  ASSUME NEW b, Len(b) \in Nat
  PROVE  NativeAns(b) \in Seq(Answers)
<1>1. PICK S : S = {j \in 1..Len(b) : b[j] \in Calls}
  OBVIOUS
<1>2. IsFiniteSet(S)
  <2>1. IsFiniteSet(1..Len(b))
    BY FS_Interval
  <2>2. S \subseteq 1..Len(b)
    BY <1>1
  <2> QED BY <2>1, <2>2, FS_Subset
<1>3. Cardinality(S) \in Nat
  BY <1>2, FS_CardinalityType
<1>4. NativeAns(b) = Plains(Cardinality(S))
  BY <1>1 DEF NativeAns, Plains
<1> QED BY <1>3, <1>4, PlainsFacts

(* Careful native code of f: the interpreter would have printed nothing,   *)
(* and answered the same.                                                  *)
LEMMA NativeIsMeant ==
  ASSUME IInv, status = "run", meant.careful, cfg.opt = "O2", cfg.numeric, Lowers(fbody)
  PROVE  MeantOut = <<>> /\ NativeAns(fbody) = MeantAns
<1> USE DEF IInv
<1>1. \A i \in 1..Len(fbody) : /\ fbody[i] # "say"
                               /\ fbody[i] \in Calls => core = "plain"
  BY DEF Lowers, Calls
<1>2. ASSUME NEW i \in 1..Len(fbody), fbody[i] \in Calls PROVE g.kind = "plain"
  <2>1. CallsG(fbody) /\ core = "plain"
    BY <1>1, <1>2 DEF CallsG
  <2>2. ~BuiltinBaked(cfg)
    BY CarefulParts DEF MeantInv
  <2> QED BY <2>1, <2>2 DEF BuiltinBaked
<1>3. \A i \in 1..Len(fbody) : FSays[i] = <<>>
  <2> TAKE i \in 1..Len(fbody)
  <2>1. FSays[i] = StepSays(fbody[i])
    BY FPieces
  <2>2. StepSays(fbody[i]) = <<>>
    BY <1>1, <1>2 DEF StepSays
  <2> QED BY <2>1, <2>2
<1>4. MeantOut = <<>>
  <2>1. Len(fbody) \in Nat
    BY BodyFacts
  <2> QED BY <1>3, <2>1, FPieces, JoinedEmpty
<1>5. (\E i \in 1..Len(fbody) : fbody[i] \in Calls) => AnsOfG = <<"plain">>
  BY <1>2 DEF AnsOfG
<1> QED BY <1>4, <1>5, NativeIsJoined

(* What applying a `fn` does, in one of its two ways. *)
LEMMA ApplyWays ==
  ASSUME IInv, Apply
  PROVE  \E native \in Caches, chunk \in Caches :
           /\ native = "some" => Lowers(Body)
           /\ chunk = "some" => Compiles(Body)
           /\ SetCaches(chunk, native)
           /\ \/ cfg.opt = "O2" /\ cfg.numeric /\ native = "some" /\ Answer(NativeAns(Body))
              \/ \E t \in {"trampoline", "vm", "ast"} :
                   /\ Going /\ SetTop(Act(Top.fn, t))
                   /\ t = "trampoline" <=> Trampolined(Body)
                   /\ t = "vm" => cfg.vm /\ chunk = "some"
<1> USE DEF IInv
<1> DEFINE tco == Trampolined(Body)
<1> DEFINE native == IF cfg.opt = "O2" /\ ~tco THEN Filled(Native, Lowers(Body)) ELSE Native
<1> DEFINE answered == cfg.opt = "O2" /\ ~tco /\ NativeAnswers(Body, native)
<1> DEFINE tryVm == cfg.vm /\ ~tco /\ ~answered
<1> DEFINE chunk == IF tryVm THEN Filled(Chunk, Compiles(Body)) ELSE Chunk
<1> DEFINE t == IF tco THEN "trampoline" ELSE IF tryVm /\ chunk = "some" THEN "vm" ELSE "ast"
<1>1. /\ SetCaches(chunk, native)
      /\ IF answered THEN Answer(NativeAns(Body)) ELSE Going /\ SetTop(Act(Top.fn, t))
  BY Zenon DEF Apply
<1>2. /\ Native \in Caches /\ (Native = "some" => Lowers(Body))
      /\ Chunk \in Caches /\ (Chunk = "some" => Compiles(Body))
  BY BodyFacts DEF Native, Chunk, Body, CodeInv, TypeOK, GType
<1>3. native \in Caches /\ (native = "some" => Lowers(Body))
  BY <1>2 DEF Filled, Caches
<1>4. chunk \in Caches /\ (chunk = "some" => Compiles(Body))
  BY <1>2 DEF Filled, Caches
<1>5. answered => cfg.opt = "O2" /\ cfg.numeric /\ native = "some"
  BY DEF NativeAnswers
<1>6. t \in {"trampoline", "vm", "ast"} /\ (t = "trampoline" <=> Trampolined(Body))
  OBVIOUS
<1>7. t = "vm" => cfg.vm /\ chunk = "some"
  OBVIOUS
<1> HIDE DEF t, chunk, tryVm, answered, native, tco
<1>8. CASE answered
  <2>1. Answer(NativeAns(Body))
    BY <1>1, <1>8
  <2> QED BY <1>1, <1>3, <1>4, <1>5, <1>8, <2>1
<1>9. CASE ~answered
  <2>1. Going /\ SetTop(Act(Top.fn, t))
    BY <1>1, <1>9
  <2> QED BY <1>1, <1>3, <1>4, <1>6, <1>7, <2>1
<1> QED BY <1>8, <1>9

(* A native answer of the top call. *)
LEMMA NativeKeeps ==
  ASSUME IInv, status = "run", Top.tier = "apply", UNCHANGED program, SameG, out' = out,
         cfg.opt = "O2", cfg.numeric, Lowers(Body), Answer(NativeAns(Body))
  PROVE  /\ acts' \in Seq(ActType) /\ ActsInv' /\ SoFar' /\ SameAsInterpreter'
         /\ ans' \in Seq(Answers) /\ status' \in {"run", "done"}
<1> USE DEF IInv
<1>1. NativeAns(Body) \in Seq(Answers)
  <2>1. Len(Body) \in Nat
    BY BodyFacts, ActFacts
  <2> QED BY <2>1, NativeTypes
<1>2. ~Jumped
  BY ActFacts
<1>3. ASSUME ~Nested, meant.careful PROVE out = MeantOut /\ NativeAns(Body) = MeantAns
  <2>1. Alone /\ Top = acts[1] /\ Top.fn = "f" /\ Body = fbody /\ FCall(Top)
    BY <1>2, <1>3, ActFacts
  <2>2. Top.pc - 1 = 0
    BY <2>1 DEF FCall
  <2>3. out = Joined(FSays, 0)
    BY <1>3, <2>1, <2>2 DEF SoFar
  <2>4. MeantOut = <<>> /\ NativeAns(fbody) = MeantAns
    BY <1>3, <2>1, NativeIsMeant
  <2> QED BY <2>1, <2>3, <2>4, JoinedNone
<1>4. ASSUME Nested, meant.careful
      PROVE  out = Joined(FSays, acts[1].pc - 1) \o SaysOf("g", g.body)
  <2>1. Top = acts[2] /\ Top.fn = "g" /\ Body = g.body /\ GCall(Top)
    BY <1>4, ActFacts
  <2>2. Top.pc - 1 = 0
    BY <2>1 DEF GCall
  <2>3. out = Joined(FSays, acts[1].pc - 1) \o Joined(GSays, 0)
    BY <1>4, <2>1, <2>2 DEF SoFar
  <2>4. \A i \in 1..Len(g.body) : g.body[i] # "say"
    BY <2>1 DEF Lowers, Calls
  <2>5. SaysOf("g", g.body) = <<>>
    <3>1. \A i \in 1..Len(g.body) : GSays[i] = <<>>
      BY <2>4, GPieces
    <3>2. Len(g.body) \in Nat
      BY BodyFacts
    <3> QED BY <3>1, <3>2, GPieces, JoinedEmpty
  <2> QED BY <2>3, <2>5, JoinedNone
<1> QED BY <1>1, <1>3, <1>4, AnswerKeeps

(* A body handed to an interpreter of it. *)
LEMMA HandedKeeps ==
  ASSUME IInv, status = "run", Top.tier = "apply", UNCHANGED program, SameG, out' = out, Going,
         NEW t \in {"trampoline", "vm", "ast"}, SetTop(Act(Top.fn, t)),
         t = "trampoline" <=> Trampolined(Body), t = "vm" => cfg.vm /\ Compiles(Body)
  PROVE  acts' \in Seq(ActType) /\ ActsInv' /\ SoFar' /\ status' = "run" /\ ans' = ans
<1> USE DEF IInv
<1>1. ~Jumped /\ status' = "run" /\ ans' = ans /\ t \in Tiers
  BY ActFacts DEF Going, Tiers
<1>2. \A fn : /\ Act(fn, t).pc = 1 /\ Act(fn, t).ans = <<>> /\ Act(fn, t).tier = t
              /\ Act(fn, t).fn = fn
  BY DEF Act
<1>3. ASSUME Top.fn = "f" PROVE FCall(Act("f", t))
  <2>1. Body = fbody
    BY <1>3 DEF Body
  <2>2. 1 <= Len(fbody) + 1
    BY BodyFacts
  <2> QED BY <1>2, <2>1, <2>2 DEF FCall
<1>4. ASSUME Top.fn = "g" PROVE GCall(Act("g", t))
  <2>1. Body = g.body /\ GCall(Top)
    BY <1>4, ActFacts
  <2>2. 1 <= Len(g.body) + 1
    BY BodyFacts
  <2>3. ~Trampolined(g.body)
    <3> SUFFICES ASSUME TailForm(g.body) PROVE FALSE
      BY DEF Trampolined
    <3>1. g.body # <<>> /\ g.body[Len(g.body)] = "tail"
      BY DEF TailForm, Last
    <3>2. g.body \in Seq(Steps \ Calls) /\ Len(g.body) \in 1..Len(g.body)
      BY <3>1, BodyFacts, EmptySeq
    <3>3. g.body[Len(g.body)] \notin Calls
      BY <3>2, BodyFacts
    <3> QED BY <3>1, <3>3 DEF Calls
  <2> QED BY <1>2, <2>1, <2>2, <2>3 DEF GCall
<1>5. ASSUME Top.fn = "f" PROVE Joined(FSays, Top.pc - 1) = <<>>
  <2>1. Top.pc - 1 = 0
    BY <1>5, ActFacts DEF FCall
  <2> QED BY <2>1, JoinedNone
<1>6. ASSUME Top.fn = "g" PROVE Joined(GSays, Top.pc - 1) = <<>>
  <2>1. Top.pc - 1 = 0
    BY <1>6, ActFacts DEF GCall
  <2> QED BY <2>1, JoinedNone
<1> QED BY <1>1, <1>3, <1>4, <1>5, <1>6, RestartKeeps

LEMMA ApplyKeeps ==
  ASSUME IInv, Apply
  PROVE  IInv'
<1> USE DEF IInv
<1>1. /\ status = "run" /\ Top.tier = "apply"
      /\ UNCHANGED program /\ callee' = callee /\ out' = out
  BY DEF Apply
<1>2. PICK native \in Caches, chunk \in Caches :
        /\ native = "some" => Lowers(Body)
        /\ chunk = "some" => Compiles(Body)
        /\ SetCaches(chunk, native)
        /\ \/ cfg.opt = "O2" /\ cfg.numeric /\ native = "some" /\ Answer(NativeAns(Body))
           \/ \E t \in {"trampoline", "vm", "ast"} :
                /\ Going /\ SetTop(Act(Top.fn, t))
                /\ t = "trampoline" <=> Trampolined(Body)
                /\ t = "vm" => cfg.vm /\ chunk = "some"
  BY ApplyWays
<1>3. g \in GType /\ fchunk \in Caches /\ fnative \in Caches /\ out \in Seq(Who) /\ ans \in Seq(Answers)
  BY DEF TypeOK, GType, Who
<1>4. /\ fchunk' \in Caches /\ fnative' \in Caches /\ g' \in GType
      /\ g'.kind = g.kind /\ g'.body = g.body /\ g'.hot = g.hot /\ g'.baked = g.baked
      /\ IF Top.fn = "f"
         THEN fchunk' = chunk /\ fnative' = native /\ g' = g
         ELSE g'.chunk = chunk /\ g'.native = native /\ fchunk' = fchunk /\ fnative' = fnative
  <2>1. CASE Top.fn = "f"
    BY <1>2, <1>3, <2>1 DEF SetCaches
  <2>2. CASE Top.fn # "f"
    <3>1. /\ g' = [g EXCEPT !.chunk = chunk, !.native = native]
          /\ fchunk' = fchunk /\ fnative' = fnative
      BY <1>2, <2>2 DEF SetCaches
    <3> QED BY <1>3, <2>2, <3>1 DEF GType
  <2> QED BY <2>1, <2>2
<1>5. SameG /\ (Careful(cfg) => HotAgrees')
  <2>1. HotAgrees => HotAgrees'
    BY <1>1, <1>4 DEF HotAgrees, program
  <2> QED BY <1>4, <2>1, CarefulParts DEF SameG
<1>6. CodeInv'
  <2>1. /\ Compiles(g.body)' <=> Compiles(g.body)
        /\ Lowers(g.body)' <=> Lowers(g.body)
        /\ Compiles(fbody)' <=> Compiles(fbody)
        /\ Lowers(fbody)' <=> Lowers(fbody)
    <3>1. fbody' = fbody /\ g'.body = g.body
      BY <1>1, <1>4 DEF program
    <3> QED BY <1>1, <1>5, <3>1, SameTiers
  <2>2. CASE Top.fn = "f"
    <3>1. Body = fbody
      BY <2>2 DEF Body
    <3> QED BY <1>2, <1>4, <2>1, <2>2, <3>1 DEF CodeInv
  <2>3. CASE Top.fn # "f"
    <3>1. Body = g.body
      BY <2>3 DEF Body
    <3> QED BY <1>2, <1>4, <2>1, <2>3, <3>1 DEF CodeInv
  <2> QED BY <2>2, <2>3
<1>7. epoch \in callee' => g.kind = core
  BY <1>1 DEF CoreInv, CacheIsLookup, Hit
<1>8. CASE cfg.opt = "O2" /\ cfg.numeric /\ native = "some" /\ Answer(NativeAns(Body))
  <2>1. /\ acts' \in Seq(ActType) /\ ActsInv' /\ SoFar' /\ SameAsInterpreter'
        /\ ans' \in Seq(Answers) /\ status' \in {"run", "done"}
    BY <1>1, <1>2, <1>5, <1>8, NativeKeeps
  <2>2. TypeOK'
    BY <1>1, <1>3, <1>4, <2>1, RunTypes
  <2> QED BY <1>1, <1>5, <1>6, <1>7, <2>1, <2>2, RunKeeps
<1>9. CASE \E t \in {"trampoline", "vm", "ast"} :
             /\ Going /\ SetTop(Act(Top.fn, t))
             /\ t = "trampoline" <=> Trampolined(Body)
             /\ t = "vm" => cfg.vm /\ chunk = "some"
  <2>1. acts' \in Seq(ActType) /\ ActsInv' /\ SoFar' /\ status' = "run" /\ ans' = ans
    BY <1>1, <1>2, <1>5, <1>9, HandedKeeps
  <2>2. TypeOK'
    BY <1>1, <1>3, <1>4, <2>1, RunTypes
  <2>3. SameAsInterpreter'
    BY <2>1 DEF SameAsInterpreter, Ended
  <2> QED BY <1>1, <1>5, <1>6, <1>7, <2>1, <2>2, <2>3, RunKeeps
<1> QED BY <1>2, <1>8, <1>9
-----------------------------------------------------------------------------
(* Between two calls of f. *)
LEMMA IdleKeeps ==
  ASSUME IInv, Idle, UNCHANGED <<core, fbody, fchunk, fnative, callee>>,
         global' \in Values, epoch' \in Nat, epoch <= epoch',
         g' \in GType, g'.body \in BodiesG \cup {<<>>},
         g'.chunk = "some" => Compiles(g'.body), g'.native = "some" => Lowers(g'.body),
         epoch' \in callee => g'.kind = core, g'.kind \in CoreKinds => g'.kind = core
  PROVE  IInv'
<1> USE DEF IInv
<1>1. /\ cfg' = NoCall /\ acts' = <<>> /\ out' = <<>> /\ ans' = <<>> /\ status' = "idle"
      /\ meant' = Nothing
  BY DEF Idle
<1>2. TypeOK'
  <2>1. callee' \subseteq 0..epoch'
    BY DEF TypeOK
  <2>2. /\ cfg' \in [opt : {"O0", "O2"}, vm : BOOLEAN, numeric : BOOLEAN]
        /\ meant' \in [out : Seq({"f", "g"}), ans : Seq(Answers), careful : BOOLEAN]
    BY <1>1, EmptySeq DEF NoCall, Nothing
  <2>3. /\ acts' \in Seq([fn : {"f", "g"}, tier : Tiers, pc : Nat \ {0}, ans : Seq(Answers)])
        /\ out' \in Seq({"f", "g"}) /\ ans' \in Seq(Answers)
        /\ status' \in {"idle", "run", "done", "failed"}
    BY <1>1, EmptySeq
  <2>4. /\ core' \in CoreKinds /\ fbody' \in Seq(Steps) /\ fchunk' \in Caches /\ fnative' \in Caches
    BY DEF TypeOK
  <2> QED BY <2>1, <2>2, <2>3, <2>4 DEF TypeOK, GType
<1>3. BodyInv' /\ CoreInv'
  BY DEF BodyInv, CoreInv, CacheIsLookup, Hit
<1>4. CodeInv'
  <2>1. /\ \A b : Compiles(b)' = Compiles(b)
        /\ \A b : Lowers(b)' = Lowers(b)
    BY DEF Compiles, Lowers
  <2>2. /\ Compiles(fbody)' <=> Compiles(fbody)
        /\ Lowers(fbody)' <=> Lowers(fbody)
        /\ Compiles(g.body)' <=> Compiles(g'.body)
        /\ Lowers(g.body)' <=> Lowers(g'.body)
    BY <2>1 DEF Compiles, Lowers
  <2> QED BY <2>2 DEF CodeInv
<1>5. MeantInv' /\ ActsInv' /\ SoFar' /\ SameAsInterpreter'
  BY <1>1 DEF MeantInv, ActsInv, SoFar, SameAsInterpreter, Ended
<1> QED BY <1>2, <1>3, <1>4, <1>5

(* A definition as it starts. *)
LEMMA FreshFacts ==
  ASSUME NEW kind \in CoreKinds \cup {"fn", "mfn"}, NEW b \in Seq(Steps \ Calls),
         NEW w \in Values
  PROVE  /\ Fresh(kind, b) \in GType /\ Fresh(kind, b).kind = kind /\ Fresh(kind, b).body = b
         /\ Fresh(kind, b).chunk = "unset" /\ Fresh(kind, b).native = "unset"
         /\ Fresh(kind, b).hot = "unset"
<1>1. PICK v : v = CHOOSE u \in Values : TRUE
  OBVIOUS
<1>2. v \in Values
  BY <1>1
<1>3. Fresh(kind, b) = [kind |-> kind, body |-> b, chunk |-> "unset", native |-> "unset",
                        calls |-> 0, hot |-> "unset", baked |-> v]
  BY <1>1 DEF Fresh
<1> QED BY <1>2, <1>3 DEF GType, Caches

LEMMA DefineKeeps ==
  ASSUME IInv, NEW kind \in {"fn", "mfn"}, NEW b \in BodiesG \cup {<<>>}, Define(kind, b)
  PROVE  IInv'
<1> USE DEF IInv
<1>1. /\ epoch' = epoch + 1 /\ g' = Fresh(kind, b) /\ Idle
      /\ UNCHANGED <<core, fbody, fchunk, fnative, callee>> /\ global' = global
  BY DEF Define
<1>2. b \in Seq(Steps \ Calls)
  BY StepsAssumption, EmptySeq
<1>3. global \in Values /\ epoch \in Nat /\ callee \subseteq 0..epoch
  BY DEF TypeOK
<1>4. /\ g' \in GType /\ g'.kind = kind /\ g'.body = b /\ g'.chunk = "unset" /\ g'.native = "unset"
  BY <1>1, <1>2, <1>3, FreshFacts
<1>5. epoch' \in Nat /\ epoch <= epoch' /\ epoch' \notin callee
  BY <1>1, <1>3
<1>6. g'.kind \notin CoreKinds
  BY <1>4 DEF CoreKinds
<1> QED BY <1>1, <1>3, <1>4, <1>5, <1>6, IdleKeeps

LEMMA AssignKeeps ==
  ASSUME IInv, NEW v \in Values, Assign(v)
  PROVE  IInv'
<1> USE DEF IInv
<1>1. /\ global' = v /\ Idle /\ UNCHANGED <<core, fbody, fchunk, fnative, callee>>
      /\ g' = g /\ epoch' = epoch
  BY DEF Assign
<1>2. g \in GType /\ epoch \in Nat /\ epoch <= epoch
  BY DEF TypeOK, GType
<1>3. /\ g.body \in BodiesG \cup {<<>>}
      /\ g.chunk = "some" => Compiles(g.body)
      /\ g.native = "some" => Lowers(g.body)
      /\ epoch \in callee => g.kind = core
      /\ g.kind \in CoreKinds => g.kind = core
  BY DEF BodyInv, CodeInv, CoreInv, CacheIsLookup, Hit
<1> QED BY <1>1, <1>2, <1>3, IdleKeeps

(* Nothing but the epoch. *)
LEMMA SameState ==
  ASSUME IInv, UNCHANGED <<core, fbody, fchunk, fnative, callee, g, global, cfg, acts, out, status,
                           ans, meant>>,
         epoch' \in Nat, epoch <= epoch', epoch' \in callee => epoch \in callee
  PROVE  IInv'
<1> USE DEF IInv
<1>1. TypeOK'
  <2>1. callee' \subseteq 0..epoch'
    BY DEF TypeOK
  <2> QED BY <2>1 DEF TypeOK
<1>2. BodyInv' /\ CoreInv' /\ CodeInv' /\ SameAsInterpreter'
  BY DEF BodyInv, CoreInv, CacheIsLookup, Hit, CodeInv, Compiles, Lowers, SameAsInterpreter, Ended
<1>3. /\ FSays' = FSays /\ FAnswers' = FAnswers /\ GSays' = GSays
      /\ MeantOut' = MeantOut /\ MeantAns' = MeantAns
  BY DEF FSays, FAnswers, GSays, MeantOut, MeantAns, StepSays, AnsOfG
<1>4. MeantInv'
  <2>1. Careful(cfg)' <=> Careful(cfg)
    BY DEF Careful, SaysThen, StepSays, TailForm, Compiles, CallsG, BuiltinBaked, Lowers
  <2> QED BY <1>3, <2>1 DEF MeantInv
<1>5. ActsInv'
  <2>1. /\ \A a : FCall(a)' <=> FCall(a)
        /\ \A a : GCall(a)' <=> GCall(a)
        /\ \A a : Waits(a)' <=> Waits(a)
    BY DEF FCall, GCall, Waits, Trampolined, TailForm, Compiles
  <2> QED BY <2>1 DEF ActsInv, Alone, Nested, Jumped
<1>6. SoFar'
  BY <1>3 DEF SoFar, Alone, Nested, Jumped
<1> QED BY <1>1, <1>2, <1>4, <1>5, <1>6

LEMMA OtherDefinesKeeps ==
  ASSUME IInv, OtherDefines
  PROVE  IInv'
<1>1. epoch \in Nat /\ callee \subseteq 0..epoch
  BY DEF IInv, TypeOK
<1>2. epoch' = epoch + 1
  BY DEF OtherDefines
<1>3. epoch' \in Nat /\ epoch <= epoch' /\ epoch' \notin callee
  BY <1>1, <1>2
<1> QED BY <1>3, SameState DEF OtherDefines

LEMMA StutterKeeps ==
  ASSUME IInv, UNCHANGED vars
  PROVE  IInv'
<1>1. epoch \in Nat /\ epoch <= epoch /\ epoch' = epoch
  BY DEF IInv, TypeOK, vars
<1> QED BY <1>1, SameState DEF vars

(* The program calls f: what it means is taken down. *)
LEMMA CallFKeeps ==
  ASSUME IInv, NEW c \in [opt : {"O0", "O2"}, vm : BOOLEAN, numeric : BOOLEAN], CallF(c)
  PROVE  IInv'
<1> USE DEF IInv
<1>1. /\ cfg' = c /\ acts' = <<Act("f", "apply")>> /\ out' = <<>> /\ ans' = <<>> /\ status' = "run"
      /\ meant' = [out |-> MeantOut, ans |-> MeantAns, careful |-> Careful(c)]
      /\ UNCHANGED <<core, fbody, fchunk, fnative, callee, g, global, epoch>>
  BY DEF CallF
<1>2. PICK a : a = Act("f", "apply")
  OBVIOUS
<1>3. /\ a \in ActType /\ a.fn = "f" /\ a.tier = "apply" /\ a.pc = 1 /\ a.ans = <<>> /\ a.pc - 1 = 0
  BY <1>2, EmptySeq DEF Act, ActType, Tiers
<1>4. acts' = <<a>> /\ acts' \in Seq(ActType) /\ Len(acts') = 1 /\ acts'[1] = a
  BY <1>1, <1>2, <1>3
<1>5. MeantOut \in Seq(Who) /\ MeantAns \in Seq(Answers)
  <2>1. Len(fbody) \in 0..Len(fbody)
    BY BodyFacts
  <2> QED BY <2>1, FPieces, APieces
<1>6. Careful(c) \in BOOLEAN
  BY DEF Careful
<1>7. /\ meant'.out = MeantOut /\ meant'.ans = MeantAns /\ meant'.careful = Careful(c)
      /\ meant' \in [out : Seq(Who), ans : Seq(Answers), careful : BOOLEAN]
  BY <1>1, <1>5, <1>6
<1>8. TypeOK'
  <2>1. out' \in Seq(Who) /\ ans' \in Seq(Answers)
    BY <1>1, EmptySeq
  <2> QED BY <1>1, <1>4, <1>7, <2>1 DEF TypeOK, Who, ActType
<1>9. BodyInv' /\ CoreInv' /\ CodeInv' /\ SameAsInterpreter'
  BY <1>1
  DEF BodyInv, CoreInv, CacheIsLookup, Hit, CodeInv, Compiles, Lowers, SameAsInterpreter, Ended
<1>10. /\ FSays' = FSays /\ FAnswers' = FAnswers /\ GSays' = GSays
       /\ MeantOut' = MeantOut /\ MeantAns' = MeantAns
  BY <1>1 DEF FSays, FAnswers, GSays, MeantOut, MeantAns, StepSays, AnsOfG
<1>11. MeantInv'
  <2>1. Careful(cfg)' <=> Careful(c)
    BY <1>1 DEF Careful, SaysThen, StepSays, TailForm, Compiles, CallsG, BuiltinBaked, Lowers
  <2> QED BY <1>7, <1>10, <2>1 DEF MeantInv
<1>12. Alone' /\ ~Nested' /\ ~Jumped'
  BY <1>3, <1>4 DEF Alone, Nested, Jumped
<1>13. ActsInv'
  <2>1. 1 <= Len(fbody) + 1 /\ fbody' = fbody
    BY <1>1, BodyFacts
  <2>2. FCall(acts[1])'
    BY <1>3, <1>4, <2>1 DEF FCall
  <2>3. status' = "run"
    BY <1>1
  <2> QED BY <1>12, <2>2, <2>3, Zenon DEF ActsInv
<1>14. SoFar'
  BY <1>1, <1>3, <1>4, <1>10, <1>12, JoinedNone DEF SoFar
<1> QED BY <1>8, <1>9, <1>11, <1>13, <1>14
-----------------------------------------------------------------------------
LEMMA InitIInv == Init => IInv
<1> SUFFICES ASSUME Init PROVE IInv
  OBVIOUS
<1>1. /\ core \in CoreKinds /\ fbody \in BodiesF /\ fbody \in Seq(Steps) /\ global \in Values
      /\ g = Fresh(core, <<>>) /\ fchunk = "unset" /\ fnative = "unset" /\ callee = {} /\ epoch = 0
      /\ cfg = NoCall /\ acts = <<>> /\ out = <<>> /\ ans = <<>> /\ status = "idle" /\ meant = Nothing
  BY StepsAssumption DEF Init
<1>2. /\ g \in GType /\ g.kind = core /\ g.body = <<>> /\ g.chunk = "unset" /\ g.native = "unset"
  <2>1. <<>> \in Seq(Steps \ Calls) /\ core \in CoreKinds \cup {"fn", "mfn"}
    BY <1>1, EmptySeq
  <2> QED BY <1>1, <2>1, FreshFacts
<1>3. TypeOK
  <2>1. /\ cfg \in [opt : {"O0", "O2"}, vm : BOOLEAN, numeric : BOOLEAN]
        /\ meant \in [out : Seq({"f", "g"}), ans : Seq(Answers), careful : BOOLEAN]
    BY <1>1, EmptySeq DEF NoCall, Nothing
  <2>2. /\ acts \in Seq([fn : {"f", "g"}, tier : Tiers, pc : Nat \ {0}, ans : Seq(Answers)])
        /\ out \in Seq({"f", "g"}) /\ ans \in Seq(Answers)
        /\ status \in {"idle", "run", "done", "failed"}
    BY <1>1, EmptySeq
  <2>3. fchunk \in Caches /\ fnative \in Caches /\ epoch \in Nat /\ callee \subseteq 0..epoch
    BY <1>1 DEF Caches
  <2> QED BY <1>1, <1>2, <2>1, <2>2, <2>3 DEF TypeOK, GType
<1>4. BodyInv /\ CoreInv /\ CodeInv
  BY <1>1, <1>2 DEF BodyInv, CoreInv, CacheIsLookup, CodeInv
<1>5. MeantInv /\ ActsInv /\ SoFar /\ SameAsInterpreter
  BY <1>1 DEF MeantInv, ActsInv, SoFar, SameAsInterpreter, Ended
<1> QED BY <1>3, <1>4, <1>5 DEF IInv

LEMMA StepIInv == IInv /\ [Next]_vars => IInv'
<1> SUFFICES ASSUME IInv, [Next]_vars PROVE IInv'
  OBVIOUS
<1>1. CASE \E b \in BodiesG : Define("fn", b)
  BY <1>1, DefineKeeps
<1>2. CASE Define("mfn", <<>>)
  BY <1>2, DefineKeeps
<1>3. CASE \E v \in Values : Assign(v)
  BY <1>3, AssignKeeps
<1>4. CASE OtherDefines
  BY <1>4, OtherDefinesKeeps
<1>5. CASE \E c \in [opt : {"O0", "O2"}, vm : BOOLEAN, numeric : BOOLEAN] : CallF(c)
  BY <1>5, CallFKeeps
<1>6. CASE Run
  BY <1>6, ApplyKeeps, PlainKeeps, ReturnKeeps, VmRefusesKeeps, VmCallCoreKeeps, VmCallFnKeeps,
     AstCallCoreKeeps, AstCallFnKeeps, CallMfnKeeps DEF Run
<1>7. CASE UNCHANGED vars
  BY <1>7, StutterKeeps
<1> QED BY <1>1, <1>2, <1>3, <1>4, <1>5, <1>6, <1>7 DEF Next

LEMMA Inductive == Spec => []IInv
BY InitIInv, StepIInv, PTL DEF Spec

(* The calls' state has its type: two calls at most are open, one of f     *)
(* under one of g, and the cached epochs are past or present ones.         *)
THEOREM CallTypes == Spec => []TypeOK
<1>1. IInv => TypeOK
  BY DEF IInv
<1> QED BY <1>1, Inductive, PTL

(* vm_call_name: a callee cached at the current epoch is the function the  *)
(* environment holds, after any number of definitions, by any evaluator.   *)
THEOREM CalleeCache == Spec => []CacheIsLookup
<1>1. IInv => CacheIsLookup
  BY DEF IInv, CoreInv
<1> QED BY <1>1, Inductive, PTL

(* apply_function_inner, try_vm_single, vm_call_name and the trampoline:   *)
(* whichever tiers answer it, a careful call prints and answers what the   *)
(* interpreter would have, for all bodies, caches and definitions.         *)
THEOREM TiersAgree == Spec => []SameAsInterpreter
<1>1. IInv => SameAsInterpreter
  BY DEF IInv
<1> QED BY <1>1, Inductive, PTL
-----------------------------------------------------------------------------
(* How often e occurs in two sequences, one after the other. *)
Places(s, e) == {i \in 1..Len(s) : s[i] = e}

LEMMA PlacesFinite ==
  ASSUME NEW T, NEW s \in Seq(T), NEW e
  PROVE  /\ Places(s, e) \in SUBSET (1..Len(s)) /\ IsFiniteSet(Places(s, e))
         /\ Count(s, e) = Cardinality(Places(s, e)) /\ Count(s, e) \in Nat
<1>1. Len(s) \in Nat
  BY LenProperties
<1>2. IsFiniteSet(1..Len(s))
  BY <1>1, FS_Interval
<1>3. Places(s, e) \in SUBSET (1..Len(s))
  BY DEF Places
<1>4. IsFiniteSet(Places(s, e))
  BY <1>2, <1>3, FS_Subset
<1> QED BY <1>3, <1>4, FS_CardinalityType DEF Count, Places

LEMMA CountConcat ==
  ASSUME NEW T, NEW s \in Seq(T), NEW t \in Seq(T), NEW e
  PROVE  Count(s \o t, e) = Count(s, e) + Count(t, e)
<1>1. Len(s) \in Nat /\ Len(t) \in Nat
  BY LenProperties
<1>2. PICK n : n = Len(s)
  OBVIOUS
<1>3. PICK st : st = s \o t
  OBVIOUS
<1>4. /\ st \in Seq(T) /\ Len(st) = n + Len(t) /\ n \in Nat
      /\ \A i \in 1..n : st[i] = s[i]
      /\ \A i \in 1..Len(t) : st[n + i] = t[i]
  <2>1. st \in Seq(T) /\ Len(st) = Len(s) + Len(t)
    BY <1>3, ConcatProperties
  <2>2. \A i \in 1..(Len(s) + Len(t)) : st[i] = IF i <= Len(s) THEN s[i] ELSE t[i - Len(s)]
    BY <1>3, ConcatProperties
  <2>3. \A i \in 1..Len(t) : /\ n + i \in 1..(Len(s) + Len(t)) /\ ~(n + i <= Len(s))
                             /\ (n + i) - Len(s) = i
    BY <1>1, <1>2
  <2> QED BY <1>1, <1>2, <2>1, <2>2, <2>3
<1>5. PICK A : A = Places(s, e)
  OBVIOUS
<1>6. PICK B : B = Places(t, e)
  OBVIOUS
<1> DEFINE C == {n + i : i \in B}
<1>7. /\ IsFiniteSet(A) /\ A \in SUBSET (1..n) /\ Count(s, e) = Cardinality(A)
      /\ IsFiniteSet(B) /\ B \in SUBSET (1..Len(t)) /\ Count(t, e) = Cardinality(B)
      /\ Count(st, e) = Cardinality(Places(st, e))
  BY <1>2, <1>4, <1>5, <1>6, PlacesFinite
<1>8. IsFiniteSet(C) /\ Cardinality(C) = Cardinality(B)
  <2> DEFINE f == [i \in B |-> n + i]
  <2>1. f \in [B -> C] /\ \A i, j \in B : f[i] = f[j] => i = j
    BY <1>4, <1>7
  <2>2. \A c \in C : \E i \in B : f[i] = c
    OBVIOUS
  <2>3. f \in Bijection(B, C)
    BY <2>1, <2>2 DEF Bijection, Injection, Surjection, IsInjective
  <2> QED BY <1>7, <2>3, FS_Bijection DEF ExistsBijection
<1>9. Places(st, e) = A \cup C
  <2>1. ASSUME NEW i \in Places(st, e) PROVE i \in A \cup C
    <3>1. i \in 1..(n + Len(t)) /\ st[i] = e
      BY <1>4 DEF Places
    <3>2. CASE i <= n
      BY <1>2, <1>4, <1>5, <3>1, <3>2 DEF Places
    <3>3. CASE i > n
      <4>1. i - n \in 1..Len(t) /\ n + (i - n) = i
        BY <1>1, <1>4, <3>1, <3>3
      <4>2. t[i - n] = e
        BY <1>4, <3>1, <4>1
      <4> QED BY <1>6, <4>1, <4>2 DEF Places
    <3> QED BY <1>4, <3>1, <3>2, <3>3
  <2>2. ASSUME NEW i \in A PROVE i \in Places(st, e)
    BY <1>1, <1>2, <1>4, <1>5 DEF Places
  <2>3. ASSUME NEW i \in B PROVE n + i \in Places(st, e)
    BY <1>1, <1>2, <1>4, <1>6 DEF Places
  <2> QED BY <2>1, <2>2, <2>3
<1>10. A \cap C = {}
  BY <1>1, <1>4, <1>7
<1> HIDE DEF C
<1>11. Cardinality(A \cup C) = Cardinality(A) + Cardinality(C)
  <2>1. Cardinality(A \cup C) = Cardinality(A) + Cardinality(C) - Cardinality(A \cap C)
    BY <1>7, <1>8, FS_Union
  <2>2. Cardinality(A) \in Nat /\ Cardinality(C) \in Nat /\ Cardinality(A \cap C) = 0
    BY <1>7, <1>8, <1>10, FS_CardinalityType, FS_EmptySet
  <2> QED BY <2>1, <2>2
<1> QED BY <1>3, <1>7, <1>8, <1>9, <1>11

LEMMA CountNone == \A e : Count(<<>>, e) = 0
<1> TAKE e
<1>1. {i \in 1..Len(<<>>) : <<>>[i] = e} = {}
  BY EmptySeq
<1> QED BY <1>1, FS_EmptySet DEF Count
-----------------------------------------------------------------------------
(* How much of the two bodies the open calls have done, and what it says. *)
FDone == IF Jumped THEN Len(fbody) - 1 ELSE acts[1].pc - 1
GDone == IF Alone THEN 0 ELSE Top.pc - 1
Said(e) == Count(Joined(FSays, FDone), e) + Count(Joined(GSays, GDone), e)

(* A call, careful or not, has printed at least that. *)
Printed == status = "run" /\ ~BuiltinBaked(cfg) => \A e \in Who : Count(out, e) >= Said(e)

LInv == IInv /\ Printed /\ NothingLost

LEMMA DoneFacts ==
  ASSUME IInv, status = "run"
  PROVE  /\ FDone \in 0..Len(fbody) /\ GDone \in 0..Len(g.body)
         /\ Alone => FDone = Top.pc - 1 /\ GDone = 0
         /\ Nested => FDone = acts[1].pc - 1 /\ GDone = Top.pc - 1
         /\ Jumped => FDone = Len(fbody) - 1 /\ GDone = Top.pc - 1
<1> USE DEF IInv
<1>1. Len(fbody) \in Nat /\ Len(g.body) \in Nat /\ acts[1].pc \in Nat \ {0} /\ Top.pc \in Nat \ {0}
  BY BodyFacts, ActFacts
<1>2. CASE Alone
  <2>1. Top = acts[1] /\ FCall(Top) /\ ~Jumped /\ ~Nested
    BY <1>2, ActFacts DEF Alone, Nested, Jumped
  <2>2. Top.pc <= Len(fbody) + 1
    BY <2>1 DEF FCall
  <2> HIDE DEF IInv
  <2> QED BY <1>1, <1>2, <2>1, <2>2 DEF FDone, GDone
<1>3. CASE Nested
  <2>1. Top = acts[2] /\ FCall(acts[1]) /\ GCall(Top) /\ ~Jumped /\ ~Alone
    BY <1>3, ActFacts DEF Alone, Nested, Jumped
  <2>2. acts[1].pc <= Len(fbody) + 1 /\ Top.pc <= Len(g.body) + 1
    BY <2>1 DEF FCall, GCall
  <2>3. FDone = acts[1].pc - 1 /\ GDone = Top.pc - 1
    BY <2>1, Zenon DEF FDone, GDone
  <2> HIDE DEF IInv
  <2>4. \A p \in Nat \ {0}, n \in Nat : p <= n + 1 => p - 1 \in 0..n
    OBVIOUS
  <2>5. FDone \in 0..Len(fbody) /\ GDone \in 0..Len(g.body)
    BY <1>1, <2>2, <2>3, <2>4
  <2> QED BY <2>1, <2>3, <2>5
<1>4. CASE Jumped
  <2>1. Top = acts[1] /\ GCall(Top) /\ ~Nested /\ ~Alone /\ Len(fbody) # 0
    BY <1>4, ActFacts, BodyFacts, EmptySeq DEF Alone, Nested, Jumped
  <2>2. Top.pc <= Len(g.body) + 1
    BY <2>1 DEF GCall
  <2> HIDE DEF IInv
  <2> QED BY <1>1, <1>4, <2>1, <2>2 DEF FDone, GDone
<1> QED BY <1>2, <1>3, <1>4 DEF ActsInv

(* What k steps of a body say is counted piece by piece. *)
LEMMA CountPieces ==
  ASSUME IInv, NEW e
  PROVE  /\ \A k \in 0..Len(fbody) : Count(Joined(FSays, k), e) \in Nat
         /\ \A k \in 0..Len(g.body) : Count(Joined(GSays, k), e) \in Nat
         /\ \A k \in 1..Len(fbody) : /\ Count(FSays[k], e) \in Nat
                                     /\ Count(Joined(FSays, k), e)
                                          = Count(Joined(FSays, k - 1), e) + Count(FSays[k], e)
         /\ \A k \in 1..Len(g.body) : /\ Count(GSays[k], e) \in Nat
                                      /\ Count(Joined(GSays, k), e)
                                           = Count(Joined(GSays, k - 1), e) + Count(GSays[k], e)
         /\ Count(Joined(FSays, 0), e) = 0 /\ Count(Joined(GSays, 0), e) = 0
         /\ Count(out, e) \in Nat
<1> USE DEF IInv
<1>1. \A k \in 0..Len(fbody) : Joined(FSays, k) \in Seq(Who)
  BY FPieces
<1>2. \A k \in 0..Len(g.body) : Joined(GSays, k) \in Seq(Who)
  BY GPieces
<1>3. \A s \in Seq(Who) : Count(s, e) \in Nat
  BY PlacesFinite
<1>4. \A s, t \in Seq(Who) : Count(s \o t, e) = Count(s, e) + Count(t, e)
  BY CountConcat
<1>5. out \in Seq(Who)
  BY DEF TypeOK, Who
<1>6. Len(fbody) \in Nat /\ Len(g.body) \in Nat
  BY BodyFacts
<1>7. ASSUME NEW k \in 1..Len(fbody)
      PROVE  /\ FSays[k] \in Seq(Who) /\ k - 1 \in 0..Len(fbody)
             /\ Joined(FSays, k) = Joined(FSays, k - 1) \o FSays[k]
  <2>1. k - 1 \in Nat /\ k - 1 < Len(fbody) /\ (k - 1) + 1 = k /\ k - 1 \in 0..Len(fbody)
    BY <1>6
  <2> QED BY <2>1, FPieces
<1>8. ASSUME NEW k \in 1..Len(g.body)
      PROVE  /\ GSays[k] \in Seq(Who) /\ k - 1 \in 0..Len(g.body)
             /\ Joined(GSays, k) = Joined(GSays, k - 1) \o GSays[k]
  <2>1. k - 1 \in Nat /\ k - 1 < Len(g.body) /\ (k - 1) + 1 = k /\ k - 1 \in 0..Len(g.body)
    BY <1>6
  <2> QED BY <2>1, GPieces
<1> HIDE DEF IInv
<1> QED BY <1>1, <1>2, <1>3, <1>4, <1>5, <1>7, <1>8, JoinedNone, CountNone

(* What is said is a number, and what all of f says is what was meant.     *)
LEMMA SaidFacts ==
  ASSUME IInv, status = "run", NEW e
  PROVE  /\ Said(e) \in Nat /\ Count(out, e) \in Nat
         /\ \A k \in 0..Len(fbody) : Count(Joined(FSays, k), e) \in Nat
         /\ Count(MeantOut, e) = Count(Joined(FSays, Len(fbody)), e)
         /\ Count(SaysOf("g", g.body), e) = Count(Joined(GSays, Len(g.body)), e)
         /\ meant.out = MeantOut
<1>1. MeantOut = Joined(FSays, Len(fbody)) /\ SaysOf("g", g.body) = Joined(GSays, Len(g.body))
  BY FPieces, GPieces DEF IInv
<1>2. meant.out = MeantOut
  BY DEF IInv, MeantInv
<1>3. FDone \in 0..Len(fbody) /\ GDone \in 0..Len(g.body)
  BY DoneFacts
<1>4. /\ \A k \in 0..Len(fbody) : Count(Joined(FSays, k), e) \in Nat
      /\ \A k \in 0..Len(g.body) : Count(Joined(GSays, k), e) \in Nat
      /\ Count(out, e) \in Nat
  BY CountPieces
<1>5. Said(e) \in Nat
  <2>1. Count(Joined(FSays, FDone), e) \in Nat /\ Count(Joined(GSays, GDone), e) \in Nat
    BY <1>3, <1>4
  <2> QED BY <2>1 DEF Said
<1> QED BY <1>1, <1>2, <1>4, <1>5

LEMMA SaidNow == IInv /\ status = "run" => \A e \in Who : Said(e) \in Nat /\ Count(out, e) \in Nat
BY SaidFacts

LEMMA SaidNext ==
  (IInv /\ status = "run" => \A e \in Who : Said(e) \in Nat /\ Count(out, e) \in Nat)'
BY SaidNow, PTL

(* A step of the call that prints at least what it does. *)
LEMMA GoesOnPrinted ==
  ASSUME LInv, IInv', UNCHANGED program, SameG, status = "run", status' = "run",
         \A e \in Who : Said(e)' - Said(e) <= Count(out', e) - Count(out, e)
  PROVE  LInv'
<1>1. BuiltinBaked(cfg)' <=> BuiltinBaked(cfg)
  BY SameTiers DEF BuiltinBaked, program, SameG, CallsG, Lowers
<1>2. ASSUME ~BuiltinBaked(cfg), NEW e \in Who PROVE Count(out', e) >= Said(e)'
  <2>1. Said(e) \in Nat /\ Count(out, e) \in Nat
    BY SaidFacts DEF LInv
  <2>2. Said(e)' \in Nat /\ Count(out', e) \in Nat
    BY SaidNext
  <2>3. Count(out, e) >= Said(e)
    BY <1>2 DEF LInv, Printed
  <2> QED BY <2>1, <2>2, <2>3
<1>3. Printed'
  BY <1>1, <1>2 DEF Printed
<1>4. NothingLost'
  BY DEF NothingLost
<1> QED BY <1>3, <1>4 DEF LInv

(* What is said, in terms of the state after a step of the call. *)
LEMMA SaidMoves ==
  ASSUME UNCHANGED program, SameG
  PROVE  \A e : Said(e)' = Count(Joined(FSays, FDone'), e) + Count(Joined(GSays, GDone'), e)
<1>1. FSays' = FSays /\ GSays' = GSays
  BY SameMeaning
<1> QED BY <1>1 DEF Said

(* The step before, of either body. *)
LEMMA OneMore ==
  ASSUME IInv, status = "run", UNCHANGED program, SameG, NEW e
  PROVE  /\ FDone' = FDone /\ GDone' = GDone => Said(e)' = Said(e)
         /\ FDone < Len(fbody) /\ FDone' = FDone + 1 /\ GDone' = GDone
              => Said(e)' = Said(e) + Count(FSays[FDone + 1], e)
         /\ GDone < Len(g.body) /\ GDone' = GDone + 1 /\ FDone' = FDone
              => Said(e)' = Said(e) + Count(GSays[GDone + 1], e)
         /\ FDone' \in {0, FDone} /\ GDone' = 0 => Said(e)' <= Said(e)
<1>1. /\ FDone \in 0..Len(fbody) /\ GDone \in 0..Len(g.body)
      /\ Len(fbody) \in Nat /\ Len(g.body) \in Nat
  BY DoneFacts, BodyFacts DEF IInv
<1>2. /\ Said(e)' = Count(Joined(FSays, FDone'), e) + Count(Joined(GSays, GDone'), e)
      /\ Said(e) = Count(Joined(FSays, FDone), e) + Count(Joined(GSays, GDone), e)
  BY SaidMoves DEF Said
<1>3. Count(Joined(FSays, FDone), e) \in Nat /\ Count(Joined(GSays, GDone), e) \in Nat
  BY <1>1, CountPieces
<1>4. ASSUME FDone < Len(fbody)
      PROVE  /\ Count(FSays[FDone + 1], e) \in Nat
             /\ Count(Joined(FSays, FDone + 1), e)
                  = Count(Joined(FSays, FDone), e) + Count(FSays[FDone + 1], e)
  <2>1. FDone + 1 \in 1..Len(fbody) /\ (FDone + 1) - 1 = FDone
    BY <1>1, <1>4
  <2> QED BY <2>1, CountPieces
<1>5. ASSUME GDone < Len(g.body)
      PROVE  /\ Count(GSays[GDone + 1], e) \in Nat
             /\ Count(Joined(GSays, GDone + 1), e)
                  = Count(Joined(GSays, GDone), e) + Count(GSays[GDone + 1], e)
  <2>1. GDone + 1 \in 1..Len(g.body) /\ (GDone + 1) - 1 = GDone
    BY <1>1, <1>5
  <2> QED BY <2>1, CountPieces
<1>6. Count(Joined(FSays, 0), e) = 0 /\ Count(Joined(GSays, 0), e) = 0
  BY CountPieces
<1> QED BY <1>2, <1>3, <1>4, <1>5, <1>6

(* Where the open calls are after the top one was replaced. *)
LEMMA DoneAfter ==
  ASSUME IInv, status = "run", UNCHANGED program, NEW a \in ActType, a.fn = Top.fn, SetTop(a)
  PROVE  /\ Alone => FDone' = a.pc - 1 /\ GDone' = 0
         /\ Nested => FDone' = FDone /\ GDone' = a.pc - 1
         /\ Jumped => FDone' = FDone /\ GDone' = a.pc - 1
<1> USE DEF IInv
<1>1. /\ acts' \in Seq(ActType) /\ Len(acts') = Len(acts)
      /\ Len(acts) = 1 => acts'[1] = a
      /\ Len(acts) = 2 => acts'[2] = a /\ acts'[1] = acts[1]
  BY SetTopFacts
<1>2. fbody' = fbody
  BY DEF program
<1>3. ASSUME Alone PROVE FDone' = a.pc - 1 /\ GDone' = 0
  <2>1. Len(acts) = 1 /\ Top.fn = "f"
    BY <1>3, ActFacts DEF Alone
  <2>2. Alone' /\ ~Jumped'
    BY <1>1, <2>1 DEF Alone, Jumped
  <2> QED BY <1>1, <2>1, <2>2 DEF FDone, GDone
<1>4. ASSUME Nested PROVE FDone' = FDone /\ GDone' = a.pc - 1
  <2>1. Len(acts) = 2 /\ ~Jumped
    BY <1>4 DEF Nested, Jumped
  <2>2. ~Alone' /\ ~Jumped' /\ Top' = a
    BY <1>1, <2>1 DEF Alone, Jumped, Top
  <2> QED BY <1>1, <2>1, <2>2 DEF FDone, GDone
<1>5. ASSUME Jumped PROVE FDone' = FDone /\ GDone' = a.pc - 1
  <2>1. Len(acts) = 1 /\ Top.fn = "g"
    BY <1>5, ActFacts DEF Jumped
  <2>2. ~Alone' /\ Jumped' /\ Top' = a
    BY <1>1, <2>1 DEF Alone, Jumped, Top
  <2> QED BY <1>2, <1>5, <2>2 DEF FDone, GDone
<1> QED BY <1>3, <1>4, <1>5

(* The top call goes on by one step, which says `says`. *)
LEMMA AdvancePrinted ==
  ASSUME LInv, IInv', UNCHANGED program, SameG, status = "run", status' = "run",
         Top.tier # "apply", ~AtEnd, NEW x \in Seq(Answers), SetTop(Advanced(x)),
         NEW says \in Seq(Who), out' = out \o says,
         Top.fn = "f" => says = FSays[Top.pc],
         Top.fn = "g" => says = GSays[Top.pc]
  PROVE  LInv'
<1>0. IInv
  BY DEF LInv
<1>1. PICK a : a = Advanced(x)
  OBVIOUS
<1>2. a \in ActType /\ a.fn = Top.fn /\ a.pc = Top.pc + 1 /\ Top.pc \in Nat \ {0}
  <2>1. Top \in ActType /\ Top.pc \in Nat \ {0}
    BY <1>0, ActFacts DEF IInv
  <2>2. PICK t : t = Top
    OBVIOUS
  <2>3. t \in ActType /\ a = [t EXCEPT !.pc = @ + 1, !.ans = @ \o x]
    BY <1>1, <2>1, <2>2 DEF Advanced
  <2>4. a \in ActType /\ a.fn = t.fn /\ a.pc = t.pc + 1
    BY <2>3, AdvancedAct, Zenon
  <2> QED BY <2>1, <2>2, <2>4
<1>3. /\ Alone => FDone' = a.pc - 1 /\ GDone' = 0
      /\ Nested => FDone' = FDone /\ GDone' = a.pc - 1
      /\ Jumped => FDone' = FDone /\ GDone' = a.pc - 1
  BY <1>0, <1>1, <1>2, DoneAfter
<1>4. \A e : /\ Count(out', e) = Count(out, e) + Count(says, e)
             /\ Count(out, e) \in Nat /\ Count(says, e) \in Nat
  <2>1. out \in Seq(Who)
    BY <1>0 DEF IInv, TypeOK, Who
  <2> QED BY <2>1, CountConcat, PlacesFinite
<1>5. /\ Alone => FDone = Top.pc - 1 /\ GDone = 0
      /\ Nested \/ Jumped => GDone = Top.pc - 1
  BY <1>0, DoneFacts
<1>6. \A e \in Who : Said(e) \in Nat
  BY <1>0, SaidNow
<1>7. CASE Alone
  <2>1. Top.fn = "f" /\ Top.pc \in 1..Len(fbody)
    BY <1>0, <1>7, TopStep, ActFacts DEF Alone, IInv
  <2>2. /\ FDone' = FDone + 1 /\ GDone' = GDone /\ FDone < Len(fbody)
        /\ FDone + 1 = Top.pc
    BY <1>2, <1>3, <1>5, <1>7, <2>1
  <2>3. \A e \in Who : Said(e)' = Said(e) + Count(says, e)
    BY <1>0, <2>1, <2>2, OneMore
  <2> QED BY <1>4, <1>6, <2>3, GoesOnPrinted
<1>8. CASE Nested \/ Jumped
  <2>1. Top.fn = "g" /\ Top.pc \in 1..Len(g.body)
    BY <1>0, <1>8, TopStep, ActFacts DEF Nested, Jumped, IInv
  <2>2. /\ GDone' = GDone + 1 /\ FDone' = FDone /\ GDone < Len(g.body)
        /\ GDone + 1 = Top.pc
    BY <1>2, <1>3, <1>5, <1>8, <2>1
  <2>3. \A e \in Who : Said(e)' = Said(e) + Count(says, e)
    BY <1>0, <2>1, <2>2, OneMore
  <2> QED BY <1>4, <1>6, <2>3, GoesOnPrinted
<1> QED BY <1>0, <1>7, <1>8 DEF IInv, ActsInv

(* The top call starts over: nothing that was printed is taken back. *)
LEMMA RestartPrinted ==
  ASSUME LInv, IInv', UNCHANGED program, SameG, status = "run", status' = "run",
         NEW tier \in Tiers, SetTop(Act(Top.fn, tier)), out' = out, ~Jumped
  PROVE  LInv'
<1>0. IInv
  BY DEF LInv
<1>1. PICK a : a = Act(Top.fn, tier)
  OBVIOUS
<1>2. a \in ActType /\ a.fn = Top.fn /\ a.pc = 1 /\ a.pc - 1 = 0
  <2>1. Top.fn \in {"f", "g"}
    BY <1>0, ActFacts DEF IInv, ActType
  <2> QED BY <1>1, <2>1, EmptySeq DEF Act, ActType
<1>3. FDone' \in {0, FDone} /\ GDone' = 0
  <2>1. Alone \/ Nested
    BY <1>0 DEF IInv, ActsInv
  <2> QED BY <1>0, <1>1, <1>2, <2>1, DoneAfter
<1>4. \A e \in Who : /\ Said(e)' <= Said(e)
                     /\ Said(e) \in Nat /\ Said(e)' \in Nat /\ Count(out, e) \in Nat
  BY <1>0, <1>3, OneMore, SaidNow, SaidNext
<1> QED BY <1>4, GoesOnPrinted

(* The top call answers: f goes on, or the call of f is done. *)
LEMMA AnswerPrinted ==
  ASSUME LInv, IInv', UNCHANGED program, SameG, status = "run", out' = out,
         NEW a, Answer(a),
         ~Nested /\ ~BuiltinBaked(cfg) => \A e \in Who : Count(MeantOut, e) <= Count(out, e),
         Nested => \A e \in Who : Count(SaysOf("g", g.body), e) <= Count(Joined(GSays, GDone), e)
  PROVE  LInv'
<1>0. IInv
  BY DEF LInv
<1>1. Len(acts) \in {1, 2}
  BY <1>0, ActFacts DEF IInv
<1>2. CASE ~Nested
  <2>1. Len(acts) = 1
    BY <1>0, <1>2 DEF IInv, ActsInv, Alone, Jumped
  <2>2. status' = "done"
    BY <2>1 DEF Answer
  <2>3. meant'.out = MeantOut /\ cfg' = cfg
    BY <1>0, SaidFacts DEF program
  <2>4. BuiltinBaked(cfg)' <=> BuiltinBaked(cfg)
    BY SameTiers DEF BuiltinBaked, program, SameG, CallsG, Lowers
  <2>5. ASSUME ~BuiltinBaked(cfg), NEW e \in {"f", "g"}
        PROVE  Count(out', e) >= Count(meant'.out, e)
    <3>1. e \in Who /\ Count(MeantOut, e) \in Nat /\ Count(out, e) \in Nat
      <4>1. Len(fbody) \in 0..Len(fbody)
        BY <1>0, BodyFacts DEF IInv
      <4> QED BY <1>0, <4>1, SaidFacts DEF Who
    <3>2. Count(MeantOut, e) <= Count(out, e)
      BY <1>2, <2>5, <3>1
    <3> QED BY <2>3, <3>1, <3>2
  <2>6. NothingLost'
    BY <2>4, <2>5 DEF NothingLost
  <2>7. Printed'
    BY <2>2 DEF Printed
  <2> QED BY <2>6, <2>7 DEF LInv
<1>3. CASE Nested
  <2>1. /\ Len(acts) = 2 /\ Waits(acts[1]) /\ acts[1].fn = "f" /\ acts[1] \in ActType
        /\ acts[1].pc \in Nat \ {0} /\ g.kind = "fn"
    BY <1>0, <1>3, ActFacts DEF Nested, GCall, IInv
  <2>2. PICK b : b = [acts[1] EXCEPT !.pc = @ + 1, !.ans = Append(@, <<"fn">>)]
    OBVIOUS
  <2>3. b.pc = acts[1].pc + 1 /\ b.fn = "f"
    BY <2>1, <2>2 DEF ActType
  <2>4. acts' = Append(SubSeq(acts, 1, Len(acts) - 2), b) /\ status' = "run"
    BY <2>1, <2>2 DEF Answer
  <2>5. Len(acts') = 1 /\ acts'[1] = b
    <3>1. SubSeq(acts, 1, Len(acts) - 2) = <<>>
      BY <2>1, SubSeqEmpty
    <3> QED BY <2>4, <3>1
  <2>6. FDone = acts[1].pc - 1 /\ GDone \in 0..Len(g.body)
    BY <1>0, <1>3, DoneFacts
  <2>7. FDone' = FDone + 1 /\ GDone' = 0
    <3>1. Alone' /\ ~Jumped'
      BY <2>3, <2>5 DEF Alone, Jumped
    <3> QED BY <2>1, <2>3, <2>5, <2>6, <3>1 DEF FDone, GDone
  <2>8. /\ FDone + 1 \in 1..Len(fbody) /\ (FDone + 1) - 1 = FDone /\ fbody[FDone + 1] \in Calls
    BY <1>0, <2>1, <2>6, BodyFacts DEF Waits, IInv
  <2>9. FSays[FDone + 1] = SaysOf("g", g.body)
    <3>1. FSays[FDone + 1] = StepSays(fbody[FDone + 1])
      BY <1>0, <2>8, FPieces DEF IInv
    <3>2. fbody[FDone + 1] # "say"
      BY <2>8 DEF Calls
    <3> QED BY <2>1, <2>8, <3>1, <3>2 DEF StepSays
  <2>10. ASSUME NEW e \in Who PROVE Said(e)' <= Said(e)
    <3>1. /\ Said(e)' = Count(Joined(FSays, FDone + 1), e) + Count(Joined(GSays, 0), e)
          /\ Said(e) = Count(Joined(FSays, FDone), e) + Count(Joined(GSays, GDone), e)
      BY <2>7, SaidMoves DEF Said
    <3>2. /\ Count(Joined(FSays, FDone + 1), e)
               = Count(Joined(FSays, FDone), e) + Count(SaysOf("g", g.body), e)
          /\ Count(SaysOf("g", g.body), e) \in Nat /\ Count(Joined(GSays, 0), e) = 0
      BY <1>0, <2>8, <2>9, CountPieces
    <3>3. Count(Joined(FSays, FDone), e) \in Nat /\ Count(Joined(GSays, GDone), e) \in Nat
      <4>1. FDone \in 0..Len(fbody)
        BY <1>0, DoneFacts
      <4> QED BY <1>0, <2>6, <4>1, CountPieces
    <3>4. Count(SaysOf("g", g.body), e) <= Count(Joined(GSays, GDone), e)
      BY <1>3
    <3> QED BY <3>1, <3>2, <3>3, <3>4
  <2>11. \A e \in Who : Said(e) \in Nat /\ Said(e)' \in Nat /\ Count(out, e) \in Nat
    BY <1>0, <2>4, SaidNow, SaidNext
  <2> QED BY <2>4, <2>10, <2>11, GoesOnPrinted
<1> QED BY <1>2, <1>3

(* f opens a call of g, above it or in its place: it has said nothing yet. *)
LEMMA OpenPrinted ==
  ASSUME LInv, IInv', UNCHANGED program, SameG, status = "run", status' = "run", out' = out,
         Alone, ~AtEnd,
         \/ \E tier \in Tiers : acts' = Append(acts, Act("g", tier))
         \/ Here = "tail" /\ \E x : acts' = <<[Act("g", "ast") EXCEPT !.ans = x]>>
  PROVE  LInv'
<1>0. IInv
  BY DEF LInv
<1>1. /\ acts \in Seq(ActType) /\ Len(acts) = 1 /\ Top = acts[1] /\ Top.fn = "f"
      /\ Top.pc \in 1..Len(fbody) /\ Here = fbody[Top.pc]
  BY <1>0, ActFacts, TopStep DEF Alone, IInv
<1>2. FDone = Top.pc - 1 /\ GDone = 0 /\ fbody' = fbody
  BY <1>0, DoneFacts DEF program
<1>3. FDone' = FDone /\ GDone' = 0
  <2>1. ASSUME NEW tier \in Tiers, acts' = Append(acts, Act("g", tier))
        PROVE  FDone' = FDone /\ GDone' = 0
    <3>1. PICK b : b = Act("g", tier)
      OBVIOUS
    <3>2. b.fn = "g" /\ b.pc = 1 /\ b.pc - 1 = 0 /\ b \in ActType
      BY <3>1, EmptySeq DEF Act, ActType
    <3>3. Len(acts') = 2 /\ acts'[1] = acts[1] /\ acts'[2] = b
      BY <1>1, <2>1, <3>1, <3>2, AppendOne
    <3>4. ~Alone' /\ ~Jumped' /\ Top' = b
      BY <3>3 DEF Alone, Jumped, Top
    <3> QED BY <1>1, <1>2, <3>2, <3>3, <3>4 DEF FDone, GDone
  <2>2. ASSUME Here = "tail", NEW x, acts' = <<[Act("g", "ast") EXCEPT !.ans = x]>>
        PROVE  FDone' = FDone /\ GDone' = 0
    <3>1. PICK b : b = [Act("g", "ast") EXCEPT !.ans = x]
      OBVIOUS
    <3>2. b.fn = "g" /\ b.pc = 1 /\ b.pc - 1 = 0
      BY <3>1 DEF Act
    <3>3. Len(acts') = 1 /\ acts'[1] = b
      BY <2>2, <3>1
    <3>4. ~Alone' /\ Jumped' /\ Top' = b
      BY <3>2, <3>3 DEF Alone, Jumped, Top
    <3>5. Top.pc = Len(fbody)
      BY <1>0, <1>1, <2>2, BodyFacts DEF IInv
    <3> QED BY <1>2, <3>2, <3>4, <3>5 DEF FDone, GDone
  <2> QED BY <2>1, <2>2
<1>4. \A e \in Who : /\ Said(e)' = Said(e)
                     /\ Said(e) \in Nat /\ Count(out, e) \in Nat
  BY <1>0, <1>2, <1>3, OneMore, SaidNow
<1> QED BY <1>4, GoesOnPrinted
-----------------------------------------------------------------------------
LEMMA PlainPrinted ==
  ASSUME LInv, Plain
  PROVE  LInv'
<1>0. IInv /\ IInv'
  BY PlainKeeps DEF LInv
<1>1. /\ status = "run" /\ Top.tier # "apply" /\ ~AtEnd /\ Here \notin Calls
      /\ SetTop(Advanced(<<>>)) /\ status' = "run" /\ UNCHANGED program /\ g' = g
      /\ out' = IF Here = "say" THEN Append(out, Top.fn) ELSE out
  BY DEF Plain, Going, Calls
<1>2. SameG /\ <<>> \in Seq(Answers)
  BY <1>1, EmptySeq DEF SameG
<1>3. PICK says : says = IF Here = "say" THEN <<Top.fn>> ELSE <<>>
  OBVIOUS
<1>4. says \in Seq(Who) /\ out' = out \o says
  <2>1. out \in Seq(Who) /\ Top.fn \in Who
    BY <1>0, <1>1, ActFacts DEF IInv, TypeOK, Who, ActType
  <2>2. says \in Seq(Who)
    BY <1>3, <2>1, EmptySeq
  <2> QED BY <1>1, <1>3, <2>1, <2>2, AppendIsConcat, ConcatEmptySeq
<1>5. Top.fn = "f" => says = FSays[Top.pc]
  <2> SUFFICES ASSUME Top.fn = "f" PROVE says = FSays[Top.pc]
    OBVIOUS
  <2>1. Top.pc \in 1..Len(fbody) /\ Here = fbody[Top.pc]
    BY <1>0, <1>1, TopStep
  <2>2. FSays[Top.pc] = StepSays(Here)
    BY <1>0, <2>1, FPieces DEF IInv
  <2> QED BY <1>1, <1>3, <2>2 DEF StepSays
<1>6. Top.fn = "g" => says = GSays[Top.pc]
  <2> SUFFICES ASSUME Top.fn = "g" PROVE says = GSays[Top.pc]
    OBVIOUS
  <2>1. Top.pc \in 1..Len(g.body) /\ Here = g.body[Top.pc]
    BY <1>0, <1>1, TopStep
  <2> QED BY <1>0, <1>3, <2>1, GPieces DEF IInv
<1> QED BY <1>0, <1>1, <1>2, <1>4, <1>5, <1>6, AdvancePrinted

LEMMA ReturnPrinted ==
  ASSUME LInv, Return
  PROVE  LInv'
<1>0. IInv /\ IInv'
  BY ReturnKeeps DEF LInv
<1>1. /\ status = "run" /\ AtEnd /\ Answer(Top.ans)
      /\ UNCHANGED program /\ g' = g /\ out' = out /\ SameG
  BY DEF Return, SameG
<1>2. Top.pc \in Nat \ {0} /\ Len(fbody) \in Nat /\ Len(g.body) \in Nat
  BY <1>0, <1>1, ActFacts, BodyFacts DEF IInv
<1>3. ASSUME Nested \/ Jumped PROVE GDone = Len(g.body)
  <2>1. GCall(Top) /\ Body = g.body
    BY <1>0, <1>1, <1>3, ActFacts DEF IInv, Nested, Jumped
  <2>2. GDone = Top.pc - 1
    BY <1>0, <1>1, <1>3, DoneFacts
  <2> QED BY <1>1, <1>2, <2>1, <2>2 DEF AtEnd, GCall
<1>4. ASSUME Nested, NEW e \in Who
      PROVE  Count(SaysOf("g", g.body), e) <= Count(Joined(GSays, GDone), e)
  <2>1. Len(g.body) \in 0..Len(g.body)
    BY <1>2
  <2>2. Count(Joined(GSays, Len(g.body)), e) \in Nat
    BY <1>0, <2>1, CountPieces
  <2> QED BY <1>0, <1>1, <1>3, <1>4, <2>2, SaidFacts
<1>5. ASSUME ~Nested, NEW e \in Who PROVE Count(MeantOut, e) = Said(e)
  <2>1. Len(fbody) \in 0..Len(fbody) /\ Len(g.body) \in 0..Len(g.body)
    BY <1>2
  <2>2. /\ Count(MeantOut, e) = Count(Joined(FSays, Len(fbody)), e)
        /\ Count(MeantOut, e) \in Nat
        /\ Said(e) = Count(Joined(FSays, FDone), e) + Count(Joined(GSays, GDone), e)
    BY <1>0, <1>1, <2>1, SaidFacts DEF Said
  <2>3. CASE Alone
    <3>1. FCall(Top) /\ Body = fbody
      BY <1>0, <1>1, <2>3, ActFacts DEF IInv, Alone, Nested, Jumped
    <3>2. FDone = Top.pc - 1 /\ GDone = 0
      BY <1>0, <1>1, <2>3, DoneFacts
    <3>3. FDone = Len(fbody)
      BY <1>1, <1>2, <3>1, <3>2 DEF AtEnd, FCall
    <3>4. Count(Joined(GSays, 0), e) = 0
      BY <1>0, CountPieces
    <3> QED BY <2>2, <3>2, <3>3, <3>4
  <2>4. CASE Jumped
    <3>1. GCall(Top) /\ fbody # <<>> /\ fbody[Len(fbody)] = "tail"
      BY <1>0, <1>1, <2>4, ActFacts DEF IInv, Jumped
    <3>2. FDone = Len(fbody) - 1 /\ GDone = Len(g.body)
      BY <1>0, <1>1, <1>3, <2>4, DoneFacts
    <3>3. Len(fbody) \in 1..Len(fbody)
      BY <1>0, <3>1, BodyFacts, EmptySeq DEF IInv
    <3>4. Count(Joined(FSays, Len(fbody)), e)
            = Count(Joined(FSays, Len(fbody) - 1), e) + Count(FSays[Len(fbody)], e)
      BY <1>0, <3>3, CountPieces
    <3>5. FSays[Len(fbody)] = SaysOf("g", g.body)
      <4>1. FSays[Len(fbody)] = StepSays("tail")
        BY <1>0, <3>1, <3>3, FPieces DEF IInv
      <4> QED BY <3>1, <4>1 DEF StepSays, GCall, Calls
    <3>6. Count(SaysOf("g", g.body), e) = Count(Joined(GSays, Len(g.body)), e)
      BY <1>0, <1>1, SaidFacts
    <3> QED BY <2>2, <3>2, <3>4, <3>5, <3>6
  <2> QED BY <1>0, <1>1, <1>5, <2>3, <2>4 DEF IInv, ActsInv
<1>6. ASSUME ~Nested, ~BuiltinBaked(cfg), NEW e \in Who PROVE Count(MeantOut, e) <= Count(out, e)
  <2>1. Said(e) \in Nat /\ Count(out, e) \in Nat
    BY <1>0, <1>1, SaidNow
  <2>2. Count(out, e) >= Said(e)
    BY <1>1, <1>6 DEF LInv, Printed
  <2> QED BY <1>5, <1>6, <2>1, <2>2
<1> QED BY <1>0, <1>1, <1>4, <1>6, AnswerPrinted

LEMMA VmRefusesPrinted ==
  ASSUME LInv, VmRefuses
  PROVE  LInv'
<1>0. IInv /\ IInv'
  BY VmRefusesKeeps DEF LInv
<1>1. /\ status = "run" /\ Top.tier \in {"vm", "named"} /\ Refused
      /\ UNCHANGED program /\ g' = g /\ out' = out /\ SameG
  BY DEF VmRefuses, SameG
<1>2. PICK tier : tier = IF Top.tier = "named" THEN "apply" ELSE "ast"
  OBVIOUS
<1>3. tier \in Tiers /\ SetTop(Act(Top.fn, tier)) /\ status' = "run"
  BY <1>1, <1>2 DEF Refused, Going, Tiers
<1>4. ~Jumped
  BY <1>0, <1>1, ActFacts DEF IInv
<1> QED BY <1>0, <1>1, <1>3, <1>4, RestartPrinted

(* A call that prints nothing itself: f goes on. *)
LEMMA SilentPrinted ==
  ASSUME LInv, IInv', UNCHANGED program, SameG, status = "run", status' = "run", out' = out,
         Top.tier # "apply", ~AtEnd, Here \in Calls, g.kind # "fn",
         NEW e \in Answers, SetTop(Advanced(<<e>>))
  PROVE  LInv'
<1>0. IInv
  BY DEF LInv
<1>1. Top.fn = "f" /\ Top.pc \in 1..Len(fbody) /\ Here = fbody[Top.pc]
  BY <1>0, TopStep
<1>2. FSays[Top.pc] = <<>>
  <2>1. FSays[Top.pc] = StepSays(Here)
    BY <1>0, <1>1, FPieces DEF IInv
  <2> QED BY <2>1 DEF StepSays, Calls
<1>3. <<>> \in Seq(Who) /\ out' = out \o <<>>
  BY <1>0, EmptySeq, ConcatEmptySeq DEF IInv, TypeOK, Who
<1>4. <<e>> \in Seq(Answers)
  BY <1>0, AnswerTypes DEF IInv
<1>5. Top.fn # "g"
  BY <1>1
<1> QED BY <1>1, <1>2, <1>3, <1>4, <1>5, AdvancePrinted

(* An error prints nothing, and the call does not answer. *)
LEMMA FailPrinted ==
  ASSUME LInv, IInv', Fail
  PROVE  LInv'
BY DEF LInv, Fail, Printed, NothingLost

LEMMA VmCallCorePrinted ==
  ASSUME LInv, VmCallCore
  PROVE  LInv'
<1>0. IInv /\ IInv'
  BY VmCallCoreKeeps DEF LInv
<1>1. /\ status = "run" /\ Top.tier = "vm" /\ ~AtEnd /\ Here \in Calls
      /\ UNCHANGED program /\ g' = g /\ out' = out /\ SameG /\ (Hit \/ g.kind \in CoreKinds)
  BY DEF VmCallCore, InVm, SameG
<1>2. g.kind = core /\ core \in CoreKinds
  BY <1>0, <1>1 DEF IInv, CoreInv, CacheIsLookup, TypeOK
<1>3. CASE Fail
  BY <1>0, <1>3, FailPrinted
<1>4. CASE Refused
  <2>1. SetTop(Act(Top.fn, "ast")) /\ status' = "run" /\ "ast" \in Tiers
    BY <1>1, <1>4 DEF Refused, Going, Tiers
  <2>2. ~Jumped
    BY <1>0, <1>1, ActFacts DEF IInv
  <2> QED BY <1>0, <1>1, <2>1, <2>2, RestartPrinted
<1>5. CASE SetTop(Advanced(<<<<"plain">>>>)) /\ Going
  <2>1. status' = "run" /\ <<"plain">> \in Answers /\ g.kind # "fn" /\ Top.tier # "apply"
    BY <1>0, <1>1, <1>2, <1>5, AnswerTypes DEF Going, CoreKinds, IInv
  <2> QED BY <1>0, <1>1, <1>5, <2>1, SilentPrinted
<1> QED BY <1>3, <1>4, <1>5 DEF VmCallCore

LEMMA VmCallFnPrinted ==
  ASSUME LInv, VmCallFn
  PROVE  LInv'
<1>0. IInv /\ IInv'
  BY VmCallFnKeeps DEF LInv
<1>1. /\ status = "run" /\ Top.tier = "vm" /\ ~AtEnd /\ Here \in Calls /\ g.kind = "fn"
      /\ UNCHANGED program /\ out' = out /\ status' = "run"
      /\ \E tier \in {"named", "apply"} : acts' = Append(acts, Act("g", tier))
      /\ \E chunk : g' = [g EXCEPT !.chunk = chunk]
  BY DEF VmCallFn, InVm, Going
<1>2. SameG
  <2>1. g \in GType
    BY <1>0, BodyFacts DEF IInv
  <2> QED BY <1>1, <2>1 DEF SameG, GType
<1>3. Alone
  <2>1. Top.fn = "f"
    BY <1>0, <1>1, TopStep
  <2> QED BY <1>0, <1>1, <2>1, ActFacts DEF IInv
<1>4. \E tier \in Tiers : acts' = Append(acts, Act("g", tier))
  BY <1>1 DEF Tiers
<1> QED BY <1>0, <1>1, <1>2, <1>3, <1>4, OpenPrinted

LEMMA AstCallCorePrinted ==
  ASSUME LInv, AstCallCore
  PROVE  LInv'
<1>0. IInv /\ IInv'
  BY AstCallCoreKeeps DEF LInv
<1>1. /\ status = "run" /\ Top.tier \in {"ast", "trampoline"} /\ ~AtEnd /\ Here \in Calls
      /\ UNCHANGED program /\ g' = g /\ out' = out /\ SameG /\ g.kind \in CoreKinds
  BY DEF AstCallCore, InAst, SameG
<1>2. CASE Fail
  BY <1>0, <1>2, FailPrinted
<1>3. CASE SetTop(Advanced(<<<<g.kind>>>>)) /\ Going
  <2>1. PICK e : e = <<g.kind>>
    OBVIOUS
  <2>2. /\ status' = "run" /\ e \in Answers /\ SetTop(Advanced(<<e>>)) /\ g.kind # "fn"
        /\ Top.tier # "apply"
    BY <1>0, <1>1, <1>3, <2>1, AnswerTypes DEF Going, CoreKinds, IInv
  <2> QED BY <1>0, <1>1, <2>2, SilentPrinted
<1> QED BY <1>2, <1>3 DEF AstCallCore

LEMMA AstCallFnPrinted ==
  ASSUME LInv, AstCallFn
  PROVE  LInv'
<1>0. IInv /\ IInv'
  BY AstCallFnKeeps DEF LInv
<1>1. /\ status = "run" /\ ~AtEnd /\ Here \in Calls /\ status' = "run"
      /\ UNCHANGED program /\ g' = g /\ out' = out /\ SameG
  BY DEF AstCallFn, InAst, SameG, Going
<1>2. Alone
  <2>1. Top.fn = "f"
    BY <1>0, <1>1, TopStep
  <2> QED BY <1>0, <1>1, <2>1, ActFacts DEF IInv
<1>3. \/ \E tier \in Tiers : acts' = Append(acts, Act("g", tier))
      \/ Here = "tail" /\ \E x : acts' = <<[Act("g", "ast") EXCEPT !.ans = x]>>
  BY DEF AstCallFn, Jumps, Tiers
<1> QED BY <1>0, <1>1, <1>2, <1>3, OpenPrinted

LEMMA CallMfnPrinted ==
  ASSUME LInv, CallMfn
  PROVE  LInv'
<1>0. IInv /\ IInv'
  BY CallMfnKeeps DEF LInv
<1>1. /\ status = "run" /\ Top.tier # "apply" /\ ~AtEnd /\ Here \in Calls
      /\ UNCHANGED program /\ out' = out /\ g.kind = "mfn" /\ g.kind # "fn" /\ status' = "run"
  BY DEF CallMfn, InVm, InAst, Going
<1>2. g \in GType /\ global \in Values /\ g.baked \in Values
  BY <1>0 DEF IInv, TypeOK, GType
<1>3. SameG
  <2>1. PICK hot : g' = [g EXCEPT !.calls = IF (cfg.numeric /\ g.hot = "unset") /\ @ < Threshold
                                            THEN @ + 1 ELSE @,
                                  !.hot = hot,
                                  !.baked = IF hot # g.hot THEN global ELSE @]
    BY DEF CallMfn
  <2> QED BY <1>2, <2>1 DEF SameG, GType
<1>4. PICK v : v = IF cfg.numeric /\ g.hot = "some" THEN g.baked ELSE global
  OBVIOUS
<1>5. PICK e : e = <<"mfn", v>>
  OBVIOUS
<1>6. SetTop(Advanced(<<e>>)) /\ e \in Answers
  <2>1. SetTop(Advanced(<<e>>))
    BY <1>4, <1>5 DEF CallMfn
  <2>2. v \in Values
    BY <1>2, <1>4
  <2> QED BY <1>0, <1>5, <2>1, <2>2, AnswerTypes DEF IInv
<1> QED BY <1>0, <1>1, <1>3, <1>6, SilentPrinted

(* Native code prints nothing, and runs for bodies that print nothing,     *)
(* unless it has a builtin in it that g no longer is.                      *)
LEMMA ApplyPrinted ==
  ASSUME LInv, Apply
  PROVE  LInv'
<1>0. IInv /\ IInv'
  BY ApplyKeeps DEF LInv
<1>1. status = "run" /\ Top.tier = "apply" /\ UNCHANGED program /\ out' = out
  BY DEF Apply
<1>2. PICK native \in Caches, chunk \in Caches :
        /\ native = "some" => Lowers(Body)
        /\ chunk = "some" => Compiles(Body)
        /\ SetCaches(chunk, native)
        /\ \/ cfg.opt = "O2" /\ cfg.numeric /\ native = "some" /\ Answer(NativeAns(Body))
           \/ \E t \in {"trampoline", "vm", "ast"} :
                /\ Going /\ SetTop(Act(Top.fn, t))
                /\ t = "trampoline" <=> Trampolined(Body)
                /\ t = "vm" => cfg.vm /\ chunk = "some"
  BY <1>0, ApplyWays
<1>3. SameG
  <2>1. g \in GType
    BY <1>0, BodyFacts DEF IInv
  <2> QED BY <1>2, <2>1 DEF SameG, SetCaches, GType
<1>4. ~Jumped
  BY <1>0, <1>1, ActFacts DEF IInv
<1>5. ASSUME cfg.opt = "O2", cfg.numeric, Lowers(Body), Answer(NativeAns(Body))
      PROVE  LInv'
  <2>1. ASSUME Nested, NEW e \in Who
        PROVE  Count(SaysOf("g", g.body), e) <= Count(Joined(GSays, GDone), e)
    <3>1. Body = g.body
      BY <1>0, <1>1, <2>1, ActFacts DEF IInv
    <3>2. \A i \in 1..Len(g.body) : g.body[i] # "say"
      BY <1>5, <3>1 DEF Lowers, Calls
    <3>3. \A i \in 1..Len(g.body) : GSays[i] = <<>>
      BY <1>0, <3>2, GPieces DEF IInv
    <3>4. SaysOf("g", g.body) = <<>>
      BY <1>0, <3>3, GPieces, BodyFacts, JoinedEmpty DEF IInv
    <3>5. Count(SaysOf("g", g.body), e) = 0
      BY <3>4, CountNone
    <3>6. Count(Joined(GSays, GDone), e) \in Nat
      BY <1>0, <1>1, DoneFacts, CountPieces
    <3> QED BY <3>5, <3>6
  <2>2. ASSUME ~Nested, ~BuiltinBaked(cfg), NEW e \in Who
        PROVE  Count(MeantOut, e) <= Count(out, e)
    <3>1. Body = fbody
      BY <1>0, <1>1, <1>4, <2>2, ActFacts DEF IInv
    <3>2. \A i \in 1..Len(fbody) : /\ fbody[i] # "say"
                                   /\ fbody[i] \in Calls => core = "plain"
      BY <1>5, <3>1 DEF Lowers, Calls
    <3>3. ASSUME NEW i \in 1..Len(fbody), fbody[i] \in Calls PROVE g.kind = "plain"
      <4>1. CallsG(fbody) /\ core = "plain"
        BY <3>2, <3>3 DEF CallsG
      <4> QED BY <1>5, <2>2, <3>1, <4>1 DEF BuiltinBaked
    <3>4. \A i \in 1..Len(fbody) : FSays[i] = <<>>
      <4> TAKE i \in 1..Len(fbody)
      <4>1. FSays[i] = StepSays(fbody[i])
        BY <1>0, FPieces DEF IInv
      <4>2. StepSays(fbody[i]) = <<>>
        BY <3>2, <3>3 DEF StepSays
      <4> QED BY <4>1, <4>2
    <3>5. MeantOut = <<>>
      BY <1>0, <3>4, FPieces, BodyFacts, JoinedEmpty DEF IInv
    <3>6. Count(MeantOut, e) = 0
      BY <3>5, CountNone
    <3>7. Count(out, e) \in Nat
      BY <1>0, CountPieces
    <3> QED BY <3>6, <3>7
  <2> QED BY <1>0, <1>1, <1>3, <1>5, <2>1, <2>2, AnswerPrinted
<1>6. ASSUME NEW t \in {"trampoline", "vm", "ast"}, Going, SetTop(Act(Top.fn, t))
      PROVE  LInv'
  <2>1. status' = "run" /\ t \in Tiers
    BY <1>1, <1>6 DEF Going, Tiers
  <2> QED BY <1>0, <1>1, <1>3, <1>4, <1>6, <2>1, RestartPrinted
<1> QED BY <1>2, <1>5, <1>6
-----------------------------------------------------------------------------
(* Between two calls there is nothing to compare. *)
LEMMA IdlePrinted ==
  ASSUME IInv', status' \notin {"run", "done"}
  PROVE  LInv'
BY DEF LInv, Printed, NothingLost

LEMMA CallFPrinted ==
  ASSUME LInv, NEW c \in [opt : {"O0", "O2"}, vm : BOOLEAN, numeric : BOOLEAN], CallF(c)
  PROVE  LInv'
<1>0. IInv /\ IInv'
  BY CallFKeeps DEF LInv
<1>1. acts' = <<Act("f", "apply")>> /\ out' = <<>> /\ status' = "run"
  BY DEF CallF
<1>2. FDone' = 0 /\ GDone' = 0
  <2>1. PICK a : a = Act("f", "apply")
    OBVIOUS
  <2>2. a.fn = "f" /\ a.pc = 1 /\ a.pc - 1 = 0
    BY <2>1 DEF Act
  <2>3. Len(acts') = 1 /\ acts'[1] = a
    BY <1>1, <2>1
  <2>4. Alone' /\ ~Jumped'
    BY <2>2, <2>3 DEF Alone, Jumped
  <2> QED BY <2>2, <2>3, <2>4 DEF FDone, GDone
<1>3. ASSUME NEW e \in Who PROVE Count(out', e) >= Said(e)'
  <2>1. \A F : Count(Joined(F, 0), e) = 0
    BY JoinedNone, CountNone
  <2>2. Said(e)' = Count(Joined(FSays', FDone'), e) + Count(Joined(GSays', GDone'), e)
    BY DEF Said
  <2>3. Said(e)' = 0
    BY <1>2, <2>1, <2>2
  <2>4. Count(out', e) = 0
    BY <1>1, CountNone
  <2> QED BY <2>3, <2>4
<1>4. Printed'
  BY <1>3 DEF Printed
<1>5. NothingLost'
  BY <1>1 DEF NothingLost
<1> QED BY <1>0, <1>4, <1>5 DEF LInv

(* Nothing of the call changes. *)
LEMMA SamePrinted ==
  ASSUME LInv, IInv', UNCHANGED <<core, fbody, g, cfg, acts, out, status, meant>>
  PROVE  LInv'
<1>1. BuiltinBaked(cfg)' <=> BuiltinBaked(cfg)
  BY DEF BuiltinBaked, CallsG, Lowers
<1>2. FSays' = FSays /\ GSays' = GSays
  BY DEF FSays, GSays, StepSays
<1>3. FDone' = FDone /\ GDone' = GDone
  BY DEF FDone, GDone, Alone, Jumped, Top
<1>4. \A e : Said(e)' = Said(e)
  BY <1>2, <1>3 DEF Said
<1> QED BY <1>1, <1>4 DEF LInv, Printed, NothingLost

LEMMA StepLInv == LInv /\ [Next]_vars => LInv'
<1> SUFFICES ASSUME LInv, [Next]_vars PROVE LInv'
  OBVIOUS
<1>0. IInv'
  BY StepIInv DEF LInv
<1>1. CASE \E b \in BodiesG : Define("fn", b)
  BY <1>0, <1>1, IdlePrinted DEF Define, Idle
<1>2. CASE Define("mfn", <<>>)
  BY <1>0, <1>2, IdlePrinted DEF Define, Idle
<1>3. CASE \E v \in Values : Assign(v)
  BY <1>0, <1>3, IdlePrinted DEF Assign, Idle
<1>4. CASE OtherDefines
  BY <1>0, <1>4, SamePrinted DEF OtherDefines
<1>5. CASE \E c \in [opt : {"O0", "O2"}, vm : BOOLEAN, numeric : BOOLEAN] : CallF(c)
  BY <1>5, CallFPrinted
<1>6. CASE Run
  BY <1>6, ApplyPrinted, PlainPrinted, ReturnPrinted, VmRefusesPrinted, VmCallCorePrinted,
     VmCallFnPrinted, AstCallCorePrinted, AstCallFnPrinted, CallMfnPrinted DEF Run
<1>7. CASE UNCHANGED vars
  BY <1>0, <1>7, SamePrinted DEF vars
<1> QED BY <1>1, <1>2, <1>3, <1>4, <1>5, <1>6, <1>7 DEF Next

LEMMA InitLInv == Init => LInv
<1> SUFFICES ASSUME Init PROVE LInv
  OBVIOUS
<1>1. status = "idle"
  BY DEF Init
<1> QED BY <1>1, InitIInv DEF LInv, Printed, NothingLost

(* apply_function_inner, try_vm_single and vm_call_name, going down the    *)
(* tiers: a call that answers, careful or not, has printed each thing at   *)
(* least as often as the interpreter would have, unless native code had    *)
(* another g in it.                                                        *)
THEOREM FallingBackLosesNothing == Spec => []NothingLost
<1>1. LInv => NothingLost
  BY DEF LInv
<1>2. Spec => []LInv
  BY InitLInv, StepLInv, PTL DEF Spec
<1> QED BY <1>1, <1>2, PTL
=============================================================================
