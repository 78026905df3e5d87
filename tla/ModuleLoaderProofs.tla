--------------------------- MODULE ModuleLoaderProofs ---------------------------
(***************************************************************************)
(* Proofs about ModuleLoader: that a load collects exactly what the root   *)
(* reaches and reports real cycles only (LoadIsExact), in an order in which*)
(* imported modules come first (DependencyOrder), and what the evaluator,  *)
(* which knows modules by path alone, then binds (BindsTheFileNamed,       *)
(* NoSilentRebinding).                                                     *)
(*                                                                         *)
(* The walk keeps its whole history in its stack and its units, and the    *)
(* invariant says how: the frames are a path of the import graph           *)
(* (StackInv), a frame or a unit has recorded a prefix of its file's       *)
(* imports, each resolved (RecordInv), the units are the loaded files in an*)
(* order in which each target precedes its importer (DepsInv), and nothing *)
(* was loaded that the root does not reach (ReachInv).  NameInv and        *)
(* CollectInv relate the paths that name the units to the items collected  *)
(* under them.                                                             *)
(***************************************************************************)
EXTENDS ModuleLoader, SequenceTheorems, FiniteSetTheorems, WellFoundedInduction, TLAPS

Target(f, i) == Resolve(f, imports[f][i].path)

DepFiles == {deps[i].file : i \in 1..Len(deps)}

StackFiles == {stack[k].file : k \in 1..Len(stack)}

(* A unit recorded the first imports of its file, as they resolve. *)
Records(u) ==
  /\ Len(u.resolved) <= Len(imports[u.file])
  /\ \A i \in 1..Len(u.resolved) :
       /\ u.resolved[i].path = imports[u.file][i].path
       /\ u.resolved[i].kind = imports[u.file][i].kind
       /\ u.resolved[i].target = Target(u.file, i)

(* Some file read so far imports f as p. *)
Names(p, f) ==
  \E g \in Files : \E i \in 1..Len(imports[g]) :
    /\ imports[g][i].path = p /\ Target(g, i) = f
    /\ g \in StackFiles \cup done

(* Frame v is that of the import frame u is at. *)
Loads(u, v) ==
  /\ Len(u.resolved) + 1 <= Len(imports[u.file])
  /\ v.path = imports[u.file][Len(u.resolved) + 1].path
  /\ v.file = Target(u.file, Len(u.resolved) + 1)

StackInv ==
  /\ stack # <<>> /\ stack[1].file = RootFile
  /\ \A k \in 1..Len(stack) : stack[k].file \in Files
  /\ \A j, k \in 1..Len(stack) : stack[j].file = stack[k].file => j = k
  /\ \A k \in 1..(Len(stack) - 1) : Loads(stack[k], stack[k + 1])

RecordInv ==
  /\ \A k \in 1..Len(stack) :
       /\ Records(stack[k])
       /\ \A i \in 1..Len(stack[k].resolved) :
            stack[k].resolved[i].target \in Hosted \cup DepFiles
  /\ \A f \in Files : f \notin StackFiles \cup done => imports[f] = <<>>

DepsInv ==
  /\ DepFiles = (done \ {RootFile}) \cup done_embedded
  /\ \A j, k \in 1..Len(deps) : deps[j].file = deps[k].file => j = k
  /\ \A k \in 1..Len(deps) :
       IF deps[k].file \in Files
       THEN Records(deps[k]) /\ Len(deps[k].resolved) = Len(imports[deps[k].file])
       ELSE deps[k].resolved = <<>> /\ deps[k].path = deps[k].file
  /\ \A k \in 1..Len(deps) : \A i \in 1..Len(deps[k].resolved) :
       deps[k].resolved[i].target \in Hosted \cup {deps[j].file : j \in 1..(k - 1)}

(* The root is done last, and with it the walk. *)
PhaseInv ==
  /\ phase = "load" => RootFile \notin done
  /\ phase \in {"eval", "done"} => RootFile \in done
  /\ phase # "failed" => why = "none"
  /\ \A k \in 1..Len(stack) :
       stack[k].file \in done =>
         /\ stack[k].file = RootFile /\ Len(stack) = 1
         /\ Len(stack[1].resolved) = Len(imports[RootFile])

ReachInv == StackFiles \cup done \subseteq Reachable

NameInv == \A k \in 1..Len(deps) : Names(deps[k].path, deps[k].file)

CollectInv ==
  /\ phase = "load" => evaluated = 0 /\ bound = {}
  /\ DOMAIN module_items = {deps[k].path : k \in 1..evaluated}
  /\ \A p \in DOMAIN module_items :
       \E k \in 1..evaluated : deps[k].path = p /\ module_items[p] = deps[k].file
  /\ \A b \in bound :
       \/ \E k \in 1..evaluated : b.importer = deps[k].file
       \/ b.importer = RootFile /\ phase \notin {"load", "eval"}

WalkInv == StackInv /\ RecordInv /\ DepsInv /\ PhaseInv /\ ReachInv

EvalInv == NameInv /\ CollectInv /\ BindsTheFileNamed /\ NoSilentRebinding

CycleInv == why = "cycle" => Cyclic

IInv == TypeOK /\ WalkInv /\ EvalInv /\ CycleInv
-----------------------------------------------------------------------------
(* A nonempty set of naturals has a least element.                         *)
LEMMA LeastElement ==
  ASSUME NEW T \in SUBSET Nat, T # {}
  PROVE  \E m \in T : \A n \in T : m <= n
<1> DEFINE R == OpToRel(<, Nat)
<1>1. IsWellFoundedOn(R, Nat)
  BY NatLessThanWellFounded
<1>2. \A y, x \in Nat : y < x => <<y, x>> \in R
  BY DEF OpToRel
<1> HIDE DEF R
<1>3. PICK m \in T : \A y \in T : ~(<<y, m>> \in R)
  BY <1>1, WFMin
<1>4. \A n \in T : m <= n
  <2> TAKE n \in T
  <2>1. n \in Nat /\ m \in Nat
    OBVIOUS
  <2>2. ~(n < m)
    BY <1>2, <1>3, <2>1, Zenon
  <2> QED BY <2>1, <2>2
<1> QED BY <1>4

LEMMA NoneBelowOne == 1..0 = {}
<1>1. \A k \in 1..0 : FALSE
  OBVIOUS
<1> QED BY <1>1, Zenon

(* Files, embedded modules, hosted namespaces and "no file" are told apart. *)
LEMMA TargetKinds ==
  /\ Files \cap Embedded = {} /\ Files \cap Hosted = {}
  /\ Missing \notin Targets
BY FilesAssumption DEF Targets

(* What a frame or a unit holds.                                           *)
LEMMA UnitFacts ==
  ASSUME NEW s \in Seq(Units)
  PROVE  /\ Len(s) \in Nat
         /\ \A k \in 1..Len(s) :
              /\ s[k] \in Units
              /\ s[k].path \in Paths \cup {NoPath}
              /\ s[k].file \in Files \cup Embedded
              /\ s[k].resolved \in Seq(ResolvedImports)
              /\ Len(s[k].resolved) \in Nat
<1>1. Len(s) \in Nat /\ \A k \in 1..Len(s) : s[k] \in Units
  BY LenProperties, ElementOfSeq
<1>2. \A u \in Units : /\ u.path \in Paths \cup {NoPath} /\ u.file \in Files \cup Embedded
                       /\ u.resolved \in Seq(ResolvedImports)
  BY DEF Units
<1> QED BY <1>1, <1>2, LenProperties

LEMMA ImportFacts ==
  ASSUME imports \in [Files -> Seq(Imports)], NEW f \in Files
  PROVE  /\ imports[f] \in Seq(Imports) /\ Len(imports[f]) \in Nat
         /\ \A i \in 1..Len(imports[f]) :
              /\ imports[f][i].path \in Paths /\ imports[f][i].kind \in Kinds
              /\ Target(f, i) \in Targets \cup {Missing}
              /\ Target(f, i) \in Embedded \cup Hosted => Target(f, i) = imports[f][i].path
<1>1. imports[f] \in Seq(Imports) /\ Len(imports[f]) \in Nat
  BY LenProperties
<1>2. \A i \in 1..Len(imports[f]) : imports[f][i] \in Imports
  BY <1>1, ElementOfSeq
<1>3. \A i \in 1..Len(imports[f]) : imports[f][i].path \in Paths /\ imports[f][i].kind \in Kinds
  BY <1>2 DEF Imports
<1>4. \A p \in Paths : /\ Resolve(f, p) \in Targets \cup {Missing}
                       /\ Resolve(f, p) \in Embedded \cup Hosted => Resolve(f, p) = p
  <2> TAKE p \in Paths
  <2>1. FileOf[f][p] \in Files \cup {Missing}
    BY FilesAssumption
  <2>2. FileOf[f][p] \notin Embedded \cup Hosted
    BY <2>1, TargetKinds DEF Targets
  <2> QED BY <2>1, <2>2 DEF Resolve, Targets
<1> QED BY <1>1, <1>3, <1>4 DEF Target

(* Stack r is s after the import its last frame is at is recorded.         *)
Recorded(s, r, t) ==
  LET n == Len(s)
      f == s[n].file
      i == Len(s[n].resolved) + 1
  IN  /\ r \in Seq(Units) /\ Len(r) = n
      /\ \A k \in 1..n : r[k].path = s[k].path /\ r[k].file = s[k].file
      /\ \A k \in 1..(n - 1) : r[k] = s[k]
      /\ Len(r[n].resolved) = i
      /\ \A j \in 1..(i - 1) : r[n].resolved[j] = s[n].resolved[j]
      /\ r[n].resolved[i].path = imports[f][i].path
      /\ r[n].resolved[i].kind = imports[f][i].kind
      /\ r[n].resolved[i].target = t

LEMMA ResolvedFacts ==
  ASSUME imports \in [Files -> Seq(Imports)], NEW s \in Seq(Units), s # <<>>, NEW t \in Targets,
         s[Len(s)].file \in Files,
         Len(s[Len(s)].resolved) + 1 <= Len(imports[s[Len(s)].file])
  PROVE  Recorded(s, Resolved(s, t), t)
<1> DEFINE n == Len(s)
           f == s[n].file
           i == Len(s[n].resolved) + 1
           new == [path |-> imports[f][i].path, kind |-> imports[f][i].kind, target |-> t]
           top == [s[n] EXCEPT !.resolved = Append(@, new)]
           r == [s EXCEPT ![n] = top]
<1>1. n \in Nat \ {0} /\ s[n] \in Units /\ s[n].resolved \in Seq(ResolvedImports)
      /\ Len(s[n].resolved) \in Nat
  BY UnitFacts, EmptySeq
<1>2. i \in 1..Len(imports[f]) /\ Len(imports[f]) \in Nat
  BY <1>1, ImportFacts
<1>3. new \in ResolvedImports
  BY <1>2, ImportFacts DEF ResolvedImports
<1>4. Resolved(s, t) = r
  BY DEF Resolved, Last1
<1> HIDE DEF new
<1>5. top \in Units /\ top.path = s[n].path /\ top.file = s[n].file
      /\ top.resolved = Append(s[n].resolved, new)
  BY <1>1, <1>3, AppendProperties DEF Units
<1>6. /\ Len(top.resolved) = i
      /\ \A j \in 1..(i - 1) : top.resolved[j] = s[n].resolved[j]
      /\ top.resolved[i] = new
  BY <1>1, <1>3, <1>5, AppendProperties
<1> HIDE DEF top
<1>7. r \in Seq(Units) /\ Len(r) = n /\ \A k \in 1..n : r[k] = IF k = n THEN top ELSE s[k]
  BY <1>1, <1>5, ExceptSeq, LenProperties
<1> HIDE DEF r
<1>8. \A k \in 1..n : r[k].path = s[k].path /\ r[k].file = s[k].file
  BY <1>1, <1>5, <1>7
<1>9. r[n] = top /\ \A k \in 1..(n - 1) : r[k] = s[k]
  BY <1>1, <1>7
<1>10. Resolved(s, t) = r /\ new.path = imports[f][i].path /\ new.kind = imports[f][i].kind
       /\ new.target = t
  BY <1>4 DEF new
<1> QED BY <1>1, <1>6, <1>7, <1>8, <1>9, <1>10 DEF Recorded
-----------------------------------------------------------------------------
(* The reachable files: the root, and what a reachable file imports.       *)
LEMMA ReachableFacts ==
  /\ RootFile \in Reachable /\ Reachable \subseteq Files
  /\ \A f \in Reachable, h \in Files : Edge(f, h) => h \in Reachable
<1>1. RootFile \in Reachable /\ Reachable \subseteq Files
  BY FilesAssumption DEF Reachable, Closed
<1>2. ASSUME NEW f \in Reachable, NEW h \in Files, Edge(f, h)
      PROVE  h \in Reachable
  BY <1>2 DEF Reachable, Closed
<1> QED BY <1>1, <1>2

(* They are the least such set.                                            *)
LEMMA ReachableLeast ==
  ASSUME NEW S \in SUBSET Files, RootFile \in S,
         \A f \in S, h \in Files : Edge(f, h) => h \in S
  PROVE  Reachable \subseteq S
BY DEF Reachable, Closed

(* An edge goes to the target of an import.                                *)
LEMMA EdgeTarget ==
  ASSUME NEW f, NEW h
  PROVE  Edge(f, h) <=> \E i \in 1..Len(imports[f]) : Target(f, i) = h
BY DEF Edge, Target

LEMMA ReachGrows ==
  ASSUME \A g, h \in Files : Edge(g, h) => Edge(g, h)'
  PROVE  Reachable \subseteq Reachable'
BY DEF Reachable, Closed

(* The graph is fixed when the imports are.                                *)
LEMMA SameGraph ==
  ASSUME imports' = imports
  PROVE  /\ Reachable' = Reachable /\ Cyclic' = Cyclic /\ Unambiguous' = Unambiguous
         /\ \A f, i : Target(f, i)' = Target(f, i)
<1>1. Reachable' = Reachable
  BY DEF Reachable, Closed, Edge
<1>2. Cyclic' = Cyclic
  BY <1>1 DEF Cyclic, Edge
<1>3. Unambiguous' = Unambiguous
  BY <1>1 DEF Unambiguous
<1>4. \A f, i : Target(f, i)' = Target(f, i)
  BY DEF Target
<1> QED BY <1>1, <1>2, <1>3, <1>4

(* What the imports of a loaded file resolve to.                           *)
LEMMA LoadedTargets ==
  ASSUME TypeOK, WalkInv, RootFile \in done, NEW f \in done, NEW i \in 1..Len(imports[f])
  PROVE  Target(f, i) \in Hosted \cup DepFiles
<1> USE DEF WalkInv
<1>1. stack \in Seq(Units) /\ deps \in Seq(Units) /\ imports \in [Files -> Seq(Imports)]
      /\ done \subseteq Files /\ Len(stack) \in Nat /\ Len(deps) \in Nat
  BY UnitFacts DEF TypeOK
<1>2. CASE f = RootFile
  <2>1. Len(stack) = 1 /\ stack[1].file = RootFile /\ 1 \in 1..Len(stack)
    BY <1>1, EmptySeq DEF StackInv, PhaseInv
  <2>2. Len(stack[1].resolved) = Len(imports[RootFile]) /\ Records(stack[1])
    BY <2>1 DEF PhaseInv, RecordInv
  <2>3. stack[1].resolved[i].target = Target(f, i)
    BY <1>2, <2>1, <2>2 DEF Records
  <2>4. stack[1].resolved[i].target \in Hosted \cup DepFiles
    BY <1>2, <2>1, <2>2 DEF RecordInv
  <2> QED BY <2>3, <2>4
<1>3. CASE f # RootFile
  <2>1. f \in DepFiles /\ f \in Files
    BY <1>1, <1>3 DEF DepsInv
  <2>2. PICK k \in 1..Len(deps) : deps[k].file = f
    BY <2>1 DEF DepFiles
  <2>3. Records(deps[k]) /\ Len(deps[k].resolved) = Len(imports[f])
    BY <2>1, <2>2 DEF DepsInv
  <2>4. deps[k].resolved[i].target = Target(f, i)
    BY <2>2, <2>3 DEF Records
  <2>5. deps[k].resolved[i].target \in Hosted \cup {deps[j].file : j \in 1..(k - 1)}
    BY <2>3, <2>2 DEF DepsInv
  <2>6. {deps[j].file : j \in 1..(k - 1)} \subseteq DepFiles
    BY <1>1 DEF DepFiles
  <2> QED BY <2>4, <2>5, <2>6
<1> QED BY <1>2, <1>3

(* When the root is loaded, the loaded files are those it reaches.         *)
LEMMA LoadedIsReachable ==
  ASSUME TypeOK, WalkInv, RootFile \in done
  PROVE  done = Reachable /\ Loaded = Reachable \ {RootFile}
<1>1. done \subseteq Files /\ done_embedded \subseteq Embedded
      /\ DepFiles = (done \ {RootFile}) \cup done_embedded
      /\ done \subseteq Reachable
  BY DEF TypeOK, WalkInv, DepsInv, ReachInv
<1>2. ASSUME NEW f \in done, NEW h \in Files, Edge(f, h)
      PROVE  h \in done
  <2>1. PICK i \in 1..Len(imports[f]) : Target(f, i) = h
    BY <1>2, EdgeTarget
  <2>2. h \in Hosted \cup DepFiles
    BY <2>1, LoadedTargets
  <2> QED BY <1>1, <2>2, TargetKinds
<1>3. Reachable \subseteq done
  BY <1>1, <1>2, ReachableLeast
<1>4. Loaded = DepFiles \cap Files
  BY DEF Loaded, DepFiles
<1> QED BY <1>1, <1>3, <1>4, TargetKinds

(* And they can be ranked by their units, so that no cycle goes through them. *)
LEMMA LoadedIsAcyclic ==
  ASSUME TypeOK, WalkInv, RootFile \in done
  PROVE  ~Cyclic
<1> SUFFICES ASSUME NEW S \in SUBSET Reachable, S # {}, \A f \in S : \E g \in S : Edge(f, g)
             PROVE  FALSE
  BY DEF Cyclic
<1>1. /\ S \subseteq done /\ done \subseteq Files /\ Len(deps) \in Nat
      /\ imports \in [Files -> Seq(Imports)]
  BY LoadedIsReachable, UnitFacts DEF TypeOK
<1>2. \A f \in S : \E g \in S \cap DepFiles : Edge(f, g)
  <2> TAKE f \in S
  <2>1. PICK g \in S : Edge(f, g)
    OBVIOUS
  <2>2. PICK i \in 1..Len(imports[f]) : Target(f, i) = g
    BY <2>1, EdgeTarget
  <2>3. g \in Hosted \cup DepFiles
    BY <1>1, <2>2, LoadedTargets
  <2>4. g \in DepFiles
    BY <1>1, <2>3, TargetKinds
  <2> QED BY <2>1, <2>4
<1> DEFINE T == {k \in 1..Len(deps) : deps[k].file \in S}
<1>3. T \in SUBSET Nat /\ T # {} /\ T \subseteq 1..Len(deps)
  <2>1. PICK g \in S : g \in DepFiles
    BY <1>2
  <2>2. PICK k \in 1..Len(deps) : deps[k].file = g
    BY <2>1 DEF DepFiles
  <2>3. k \in T
    BY <2>2
  <2>4. T \subseteq 1..Len(deps) /\ 1..Len(deps) \subseteq Nat
    BY <1>1
  <2> QED BY <2>3, <2>4
<1> HIDE DEF T
<1>4. PICK m \in T : \A n \in T : m <= n
  BY <1>3, LeastElement
<1> m \in 1..Len(deps) /\ deps[m].file \in S /\ deps[m].file \in Files
  BY <1>1 DEF T
<1>5. PICK g \in S \cap DepFiles : Edge(deps[m].file, g)
  BY <1>2
<1>6. PICK i \in 1..Len(imports[deps[m].file]) : Target(deps[m].file, i) = g
  BY <1>5, EdgeTarget
<1>7. Records(deps[m]) /\ Len(deps[m].resolved) = Len(imports[deps[m].file])
  BY <1>1 DEF WalkInv, DepsInv
<1>8. deps[m].resolved[i].target = g
  BY <1>6, <1>7 DEF Records
<1>9. g \in Hosted \cup {deps[j].file : j \in 1..(m - 1)}
  <2>1. i \in 1..Len(deps[m].resolved)
    BY <1>6, <1>7
  <2>2. deps[m].resolved[i].target \in Hosted \cup {deps[j].file : j \in 1..(m - 1)}
    BY <2>1 DEF WalkInv, DepsInv
  <2> QED BY <1>8, <2>2
<1>10. PICK j \in 1..(m - 1) : deps[j].file = g
  BY <1>1, <1>9, TargetKinds
<1>11. j \in 1..Len(deps) /\ deps[j].file \in S
  BY <1>1, <1>10
<1>12. j \in T
  BY <1>11 DEF T
<1> QED BY <1>1, <1>4, <1>10, <1>12

(* No import of a loaded file leads nowhere.                               *)
LEMMA LoadedHasNoHoles ==
  ASSUME TypeOK, WalkInv, RootFile \in done, NEW f \in done, NEW i \in 1..Len(imports[f])
  PROVE  Target(f, i) # Missing
<1>1. Target(f, i) \in Hosted \cup DepFiles
  BY LoadedTargets
<1>2. DepFiles \subseteq Files \cup Embedded
  BY DEF TypeOK, WalkInv, DepsInv
<1> QED BY <1>1, <1>2, TargetKinds DEF Targets
-----------------------------------------------------------------------------
(* The top frame and the import it is at.                                  *)
LEMMA TopFacts ==
  ASSUME TypeOK, StackInv
  PROVE  /\ stack \in Seq(Units) /\ Len(stack) \in Nat \ {0}
         /\ Len(stack) \in 1..Len(stack) /\ 1 \in 1..Len(stack)
         /\ Top = stack[Len(stack)] /\ Top \in Units /\ Top.file \in Files
         /\ Top.resolved \in Seq(ResolvedImports) /\ Len(Top.resolved) \in Nat
         /\ imports[Top.file] \in Seq(Imports) /\ Len(imports[Top.file]) \in Nat
<1>1. stack \in Seq(Units) /\ Len(stack) \in Nat \ {0}
  BY EmptySeq, LenProperties DEF TypeOK, StackInv
<1>2. Top = stack[Len(stack)]
  BY DEF Top, Last1
<1>3. Len(stack) \in 1..Len(stack) /\ 1 \in 1..Len(stack)
  BY <1>1
<1>4. Top \in Units /\ Top.file \in Files /\ Top.resolved \in Seq(ResolvedImports)
      /\ Len(Top.resolved) \in Nat
  BY <1>1, <1>2, <1>3, UnitFacts DEF StackInv
<1>5. imports[Top.file] \in Seq(Imports) /\ Len(imports[Top.file]) \in Nat
  BY <1>4, ImportFacts DEF TypeOK
<1> QED BY <1>1, <1>2, <1>3, <1>4, <1>5

LEMMA HereFacts ==
  ASSUME TypeOK, StackInv, AtImport
  PROVE  LET i == Len(Top.resolved) + 1
         IN  /\ i \in 1..Len(imports[Top.file])
             /\ Here.path = imports[Top.file][i].path /\ Here.path \in Paths
             /\ Resolve(Top.file, Here.path) = Target(Top.file, i)
<1> DEFINE i == Len(Top.resolved) + 1
<1>1. i \in 1..Len(imports[Top.file])
  BY TopFacts DEF AtImport
<1>2. Here.path = imports[Top.file][i].path
  BY DEF Here
<1>3. Here.path \in Paths
  BY <1>1, <1>2, TopFacts, ImportFacts DEF TypeOK
<1> QED BY <1>1, <1>2, <1>3 DEF Target

(* While files are loaded, none on the stack is done.                      *)
LEMMA StackNotDone ==
  ASSUME PhaseInv, phase = "load", NEW k \in 1..Len(stack)
  PROVE  stack[k].file \notin done
BY DEF PhaseInv

(* Recording an import, in the stack or in what is left of it when its top *)
(* is popped, keeps the stack's invariants, if the target is hosted or     *)
(* among the units by then.                                                *)
LEMMA RecordStep ==
  ASSUME TypeOK, StackInv, RecordInv, NEW s \in Seq(Units), s # <<>>, Len(s) <= Len(stack),
         \A k \in 1..Len(s) : s[k] = stack[k],
         Len(s[Len(s)].resolved) + 1 <= Len(imports[s[Len(s)].file]),
         NEW t \in Targets, t = Target(s[Len(s)].file, Len(s[Len(s)].resolved) + 1),
         t \in Hosted \cup DepFiles', DepFiles \subseteq DepFiles',
         stack' = Resolved(s, t), imports' = imports,
         StackFiles \cup done \subseteq {s[k].file : k \in 1..Len(s)} \cup done'
  PROVE  /\ stack' \in Seq(Units) /\ Len(stack') = Len(s)
         /\ StackInv' /\ RecordInv'
         /\ \A k \in 1..Len(s) : stack'[k].file = s[k].file
<1> DEFINE n == Len(s)
           f == s[n].file
           i == Len(s[n].resolved) + 1
<1>1. n = Len(s) /\ f = s[n].file /\ i = Len(s[n].resolved) + 1
  OBVIOUS
<1>2. i <= Len(imports[f]) /\ t = Target(f, i) /\ n <= Len(stack)
      /\ \A k \in 1..n : s[k] = stack[k]
  OBVIOUS
<1> HIDE DEF n, f, i
<1>3. /\ n \in Nat \ {0} /\ Len(stack) \in Nat /\ n \in 1..n /\ f \in Files
      /\ Len(s[n].resolved) \in Nat /\ imports \in [Files -> Seq(Imports)]
  <2>1. n \in Nat \ {0} /\ Len(stack) \in Nat
    BY <1>1, UnitFacts, EmptySeq DEF TypeOK
  <2>2. n \in 1..n /\ n \in 1..Len(stack)
    BY <1>2, <2>1
  <2>3. f \in Files
    BY <1>1, <1>2, <2>2 DEF StackInv
  <2> QED BY <1>1, <2>1, <2>2, <2>3, UnitFacts DEF TypeOK
<1>4. Len(imports[f]) \in Nat /\ i \in Nat /\ i \in 1..Len(imports[f])
  BY <1>1, <1>2, <1>3, ImportFacts
<1>5. \A k \in 1..n : k # n => k \in 1..(n - 1)
  BY <1>3
<1>6. /\ stack' \in Seq(Units) /\ Len(stack') = n
      /\ \A k \in 1..n : stack'[k].path = s[k].path /\ stack'[k].file = s[k].file
      /\ \A k \in 1..(n - 1) : stack'[k] = s[k]
      /\ Len(stack'[n].resolved) = i
      /\ \A j \in 1..(i - 1) : stack'[n].resolved[j] = s[n].resolved[j]
      /\ stack'[n].resolved[i].path = imports[f][i].path
      /\ stack'[n].resolved[i].kind = imports[f][i].kind
      /\ stack'[n].resolved[i].target = t
  <2>1. s[Len(s)].file \in Files
    BY <1>1, <1>3
  <2>2. Recorded(s, Resolved(s, t), t)
    BY <1>3, <2>1, ResolvedFacts
  <2> QED BY <1>1, <2>2 DEF Recorded
<1>7. \A k \in 1..n : Records(s[k]) /\ \A j \in 1..Len(s[k].resolved) :
                                        s[k].resolved[j].target \in Hosted \cup DepFiles
  <2>1. \A k \in 1..n : k \in 1..Len(stack)
    BY <1>2, <1>3
  <2> QED BY <1>2, <2>1 DEF RecordInv
<1>8. \A k \in 1..n : s[k].file \in Files /\ (k # n => Loads(s[k], s[k + 1]))
  <2> TAKE k \in 1..n
  <2>1. k \in 1..Len(stack) /\ s[k] = stack[k]
    BY <1>2, <1>3
  <2>2. ASSUME k # n PROVE Loads(s[k], s[k + 1])
    <3>1. k + 1 \in 1..n /\ k \in 1..(Len(stack) - 1)
      BY <1>2, <1>3, <2>2
    <3>2. s[k + 1] = stack[k + 1] /\ Loads(stack[k], stack[k + 1])
      BY <1>2, <3>1 DEF StackInv
    <3> QED BY <2>1, <3>2
  <2> QED BY <2>1, <2>2 DEF StackInv
<1>9. StackInv'
  <2>1. 1 \in 1..n /\ s[1] = stack[1]
    BY <1>2, <1>3
  <2>2. stack' # <<>> /\ stack'[1].file = RootFile
    <3>1. stack' # <<>>
      BY <1>3, <1>6, EmptySeq
    <3>2. stack'[1].file = s[1].file
      BY <1>6, <2>1
    <3>3. stack[1].file = RootFile
      BY DEF StackInv
    <3> QED BY <2>1, <3>1, <3>2, <3>3
  <2>3. \A k \in 1..n : stack'[k].file \in Files
    BY <1>6, <1>8
  <2>4. \A j, k \in 1..n : stack'[j].file = stack'[k].file => j = k
    <3> TAKE j, k \in 1..n
    <3>1. j \in 1..Len(stack) /\ k \in 1..Len(stack)
      BY <1>2, <1>3
    <3>2. s[j] = stack[j] /\ s[k] = stack[k]
      BY <1>2
    <3>3. stack'[j].file = s[j].file /\ stack'[k].file = s[k].file
      BY <1>6
    <3> QED BY <3>1, <3>2, <3>3 DEF StackInv
  <2>5. \A k \in 1..(n - 1) : Loads(stack'[k], stack'[k + 1])
    <3> TAKE k \in 1..(n - 1)
    <3>1. k \in 1..n /\ k # n /\ k + 1 \in 1..n
      BY <1>3
    <3>2. stack'[k] = s[k]
      BY <1>6
    <3>3. stack'[k + 1].path = s[k + 1].path /\ stack'[k + 1].file = s[k + 1].file
      BY <1>6, <3>1
    <3> QED BY <1>8, <3>1, <3>2, <3>3 DEF Loads
  <2>6. \A k \in 1..(n - 1) : Loads(stack[k], stack[k + 1])'
    BY <2>5 DEF Loads, Target
  <2> QED BY <1>6, <2>2, <2>3, <2>4, <2>6 DEF StackInv
<1>10. \A k \in 1..n : Records(stack'[k])
  <2> TAKE k \in 1..n
  <2>1. CASE k = n
    <3>1. Records(s[n])
      BY <1>3, <1>7
    <3>2. \A j \in 1..i : j \in 1..(i - 1) \/ j = i
      BY <1>4
    <3>3. \A j \in 1..(i - 1) :
            /\ stack'[n].resolved[j].path = imports[f][j].path
            /\ stack'[n].resolved[j].kind = imports[f][j].kind
            /\ stack'[n].resolved[j].target = Target(f, j)
      <4>1. Len(s[n].resolved) = i - 1
        BY <1>1, <1>3
      <4> QED BY <1>1, <1>6, <3>1, <4>1 DEF Records
    <3>4. stack'[n].file = f /\ i <= Len(imports[f])
      BY <1>1, <1>2, <1>3, <1>4, <1>6
    <3>5. Len(stack'[n].resolved) = i /\ \A j \in 1..i :
            /\ stack'[n].resolved[j].path = imports[f][j].path
            /\ stack'[n].resolved[j].kind = imports[f][j].kind
            /\ stack'[n].resolved[j].target = Target(f, j)
      <4> SUFFICES ASSUME NEW j \in 1..i
                   PROVE  /\ stack'[n].resolved[j].path = imports[f][j].path
                          /\ stack'[n].resolved[j].kind = imports[f][j].kind
                          /\ stack'[n].resolved[j].target = Target(f, j)
        BY <1>6
      <4>1. CASE j = i
        BY <1>2, <1>6, <4>1
      <4>2. CASE j \in 1..(i - 1)
        BY <3>3, <4>2
      <4> QED BY <3>2, <4>1, <4>2
    <3> QED BY <2>1, <3>4, <3>5 DEF Records
  <2>2. CASE k # n
    BY <1>5, <1>6, <1>7, <2>2
  <2> QED BY <2>1, <2>2
<1>11. \A k \in 1..n : \A j \in 1..Len(stack'[k].resolved) :
         stack'[k].resolved[j].target \in Hosted \cup DepFiles'
  <2> TAKE k \in 1..n
  <2>1. CASE k = n
    <3> TAKE j \in 1..Len(stack'[k].resolved)
    <3>1. CASE j = i
      <4>1. stack'[k].resolved[j].target = t
        BY <1>6, <2>1, <3>1
      <4> QED BY <4>1
    <3>2. CASE j # i
      <4>1. j \in 1..i
        BY <1>6, <2>1
      <4>2. j \in 1..(i - 1) /\ j \in 1..Len(s[n].resolved)
        BY <1>1, <1>3, <1>4, <3>2, <4>1
      <4>3. s[n].resolved[j].target \in Hosted \cup DepFiles
        BY <1>3, <1>7, <4>2
      <4>4. stack'[k].resolved[j] = s[n].resolved[j]
        BY <1>6, <2>1, <4>2
      <4> QED BY <4>3, <4>4
    <3> QED BY <3>1, <3>2
  <2>2. CASE k # n
    <3>1. stack'[k] = s[k]
      BY <1>5, <1>6, <2>2
    <3> QED BY <1>7, <3>1
  <2> QED BY <2>1, <2>2
<1>12. RecordInv'
  <2>1. \A k \in 1..n : Records(stack[k])'
    BY <1>10 DEF Records, Target
  <2>2. StackFiles' = {s[k].file : k \in 1..n}
    <3>1. StackFiles' = {stack'[k].file : k \in 1..n}
      BY <1>6 DEF StackFiles
    <3>2. \A k \in 1..n : stack'[k].file = s[k].file
      BY <1>6
    <3> QED BY <3>1, <3>2
  <2>3. \A g \in Files : g \notin (StackFiles \cup done)' => imports'[g] = <<>>
    BY <1>1, <2>2 DEF RecordInv
  <2>4. Len(stack') = n
    BY <1>6
  <2> QED BY <1>11, <2>1, <2>3, <2>4 DEF RecordInv
<1> QED BY <1>1, <1>6, <1>9, <1>12
-----------------------------------------------------------------------------
LEMMA InitInv == ASSUME Init PROVE IInv
<1>1. /\ Len(stack) = 1 /\ stack[1] = Frame(NoPath, RootFile) /\ stack \in Seq(Units)
      /\ deps = <<>> /\ Len(deps) = 0 /\ RootFile \in Files
  <2>1. Frame(NoPath, RootFile) \in Units
    BY FilesAssumption DEF Frame, Units
  <2> QED BY <2>1, FilesAssumption DEF Init
<1>2. stack[1].file = RootFile /\ stack[1].path = NoPath /\ stack[1].resolved = <<>>
      /\ Len(stack[1].resolved) = 0
  BY <1>1 DEF Frame
<1>3. PICK l \in ImportLists[RootFile] : imports = [f \in Files |-> IF f = RootFile THEN l ELSE <<>>]
  BY DEF Init
<1>4. imports \in [Files -> Seq(Imports)]
  BY <1>1, <1>3, FilesAssumption
<1>5. TypeOK
  BY <1>1, <1>4 DEF Init, TypeOK
<1>6. Len(imports[RootFile]) \in Nat
  BY <1>1, <1>4, ImportFacts
<1>7. StackFiles = {RootFile} /\ DepFiles = {}
  BY <1>1, <1>2 DEF StackFiles, DepFiles
<1>8. StackInv
  <2>1. stack # <<>> /\ \A k \in 1..1 : k = 1
    <3>1. \A k \in 1..1 : k = 1
      OBVIOUS
    <3>2. stack # <<>>
      BY <1>1 DEF Init
    <3> QED BY <3>1, <3>2
  <2>2. 1..(1 - 1) = {}
    OBVIOUS
  <2> QED BY <1>1, <1>2, <2>1, <2>2 DEF StackInv
<1>9. RecordInv
  BY <1>1, <1>2, <1>3, <1>6, <1>7 DEF RecordInv, Records, Init
<1>10. DepsInv
  BY <1>1, <1>7 DEF DepsInv, Init
<1>11. PhaseInv /\ ReachInv
  BY <1>7, ReachableFacts DEF Init, PhaseInv, ReachInv
<1>12. EvalInv
  BY <1>1 DEF EvalInv, NameInv, CollectInv, BindsTheFileNamed, NoSilentRebinding, Init
<1> QED BY <1>5, <1>8, <1>9, <1>10, <1>11, <1>12 DEF IInv, WalkInv, CycleInv, Init
-----------------------------------------------------------------------------
(* The steps that leave the units alone, and load at most the root.        *)
LEMMA SameDeps ==
  ASSUME DepsInv, imports' = imports, deps' = deps, done_embedded' = done_embedded,
         done' \ {RootFile} = done \ {RootFile}
  PROVE  DepsInv' /\ DepFiles' = DepFiles
<1>1. DepFiles' = DepFiles
  BY DEF DepFiles
<1>2. DepsInv'
  BY <1>1 DEF DepsInv, Records, Target
<1> QED BY <1>1, <1>2

(* The steps that leave the walk alone.                                    *)
LEMMA SameWalk ==
  ASSUME WalkInv, NameInv, UNCHANGED <<imports, loader>>, phase' # "load",
         phase' \in {"eval", "done"} => RootFile \in done, phase' # "failed" => why' = "none"
  PROVE  WalkInv' /\ NameInv'
<1>1. /\ imports' = imports /\ stack' = stack /\ done' = done /\ done_embedded' = done_embedded
      /\ deps' = deps
  BY DEF loader
<1>2. StackFiles' = StackFiles /\ DepFiles' = DepFiles
  BY <1>1 DEF StackFiles, DepFiles
<1>3. StackInv'
  BY <1>1 DEF WalkInv, StackInv, Loads, Target
<1>4. RecordInv'
  BY <1>1, <1>2 DEF WalkInv, RecordInv, Records, Target
<1>5. DepsInv'
  BY <1>1, SameDeps DEF WalkInv
<1>6. PhaseInv'
  BY <1>1 DEF WalkInv, PhaseInv
<1>7. ReachInv'
  BY <1>1, <1>2, SameGraph DEF WalkInv, ReachInv
<1>8. NameInv'
  BY <1>1, <1>2 DEF NameInv, Names, Target
<1> QED BY <1>3, <1>4, <1>5, <1>6, <1>7, <1>8 DEF WalkInv

(* The steps that load leave the evaluator alone, which has not begun.     *)
LEMMA SameEval ==
  ASSUME phase = "load", CollectInv, UNCHANGED evaluator, why' # "not loaded"
  PROVE  CollectInv' /\ BindsTheFileNamed' /\ NoSilentRebinding'
<1>1. evaluated = 0 /\ evaluated' = 0 /\ bound' = {} /\ module_items' = module_items
  BY DEF CollectInv, evaluator
<1>2. DOMAIN module_items = {}
  <2>1. DOMAIN module_items = {deps[k].path : k \in 1..0}
    BY <1>1 DEF CollectInv
  <2>2. 1..0 = {}
    BY NoneBelowOne
  <2> QED BY <2>1, <2>2
<1>3. DOMAIN module_items' = {deps'[k].path : k \in 1..evaluated'}
  <2>1. 1..0 = {}
    BY NoneBelowOne
  <2>2. DOMAIN module_items' = {}
    BY <1>1, <1>2
  <2> QED BY <1>1, <2>1, <2>2
<1>4. CollectInv'
  BY <1>1, <1>2, <1>3 DEF CollectInv
<1>5. BindsTheFileNamed' /\ NoSilentRebinding'
  BY <1>1 DEF BindsTheFileNamed, NoSilentRebinding
<1> QED BY <1>4, <1>5

(* What named a unit still does while the files read only grow.            *)
LEMMA NamesKept ==
  ASSUME \A g \in StackFiles \cup done : imports'[g] = imports[g],
         StackFiles \cup done \subseteq (StackFiles \cup done)',
         NEW p, NEW f, Names(p, f)
  PROVE  Names(p, f)'
BY DEF Names, Target

(* A unit appended to `deps` keeps their invariant.                        *)
LEMMA AppendUnit ==
  ASSUME TypeOK, DepsInv, NEW e \in Units, e.file \notin DepFiles, imports' = imports,
         deps' = Append(deps, e),
         IF e.file \in Files
         THEN Records(e) /\ Len(e.resolved) = Len(imports[e.file])
         ELSE e.resolved = <<>> /\ e.path = e.file,
         \A i \in 1..Len(e.resolved) : e.resolved[i].target \in Hosted \cup DepFiles,
         (done' \ {RootFile}) \cup done_embedded' =
           ((done \ {RootFile}) \cup done_embedded) \cup {e.file}
  PROVE  /\ deps' \in Seq(Units) /\ DepsInv' /\ DepFiles' = DepFiles \cup {e.file}
         /\ Len(deps) \in Nat /\ Len(deps') = Len(deps) + 1 /\ deps'[Len(deps) + 1] = e
         /\ \A k \in 1..Len(deps) : deps'[k] = deps[k]
<1> DEFINE n == Len(deps)
<1>1. /\ n \in Nat /\ deps' \in Seq(Units) /\ Len(deps') = n + 1 /\ deps'[n + 1] = e
      /\ \A k \in 1..n : deps'[k] = deps[k]
  <2>1. deps \in Seq(Units) /\ n \in Nat
    BY UnitFacts DEF TypeOK
  <2> QED BY <2>1, AppendProperties
<1> HIDE DEF n
<1>2. \A k \in 1..(n + 1) : k \in 1..n \/ k = n + 1
  BY <1>1
<1>3. DepFiles = {deps[k].file : k \in 1..n}
  BY DEF DepFiles, n
<1>4. DepFiles' = DepFiles \cup {e.file}
  <2>1. DepFiles' = {deps'[k].file : k \in 1..(n + 1)}
    BY <1>1 DEF DepFiles
  <2>2. 1..(n + 1) = 1..n \cup {n + 1}
    BY <1>1
  <2> QED BY <1>1, <1>3, <2>1, <2>2
<1>5. \A j, k \in 1..(n + 1) : deps'[j].file = deps'[k].file => j = k
  <2> TAKE j, k \in 1..(n + 1)
  <2>1. CASE j \in 1..n /\ k \in 1..n
    BY <1>1, <2>1 DEF DepsInv, n
  <2>2. CASE j = n + 1 /\ k \in 1..n
    BY <1>1, <1>3, <2>2
  <2>3. CASE j \in 1..n /\ k = n + 1
    BY <1>1, <1>3, <2>3
  <2>4. CASE j = n + 1 /\ k = n + 1
    BY <2>4
  <2> QED BY <1>2, <2>1, <2>2, <2>3, <2>4
<1>6. \A k \in 1..(n + 1) :
        IF deps'[k].file \in Files
        THEN Records(deps'[k]) /\ Len(deps'[k].resolved) = Len(imports[deps'[k].file])
        ELSE deps'[k].resolved = <<>> /\ deps'[k].path = deps'[k].file
  <2> TAKE k \in 1..(n + 1)
  <2>1. CASE k \in 1..n
    BY <1>1, <2>1 DEF DepsInv, n
  <2>2. CASE k = n + 1
    BY <1>1, <2>2
  <2> QED BY <1>2, <2>1, <2>2
<1>7. \A k \in 1..(n + 1) : \A i \in 1..Len(deps'[k].resolved) :
        deps'[k].resolved[i].target \in Hosted \cup {deps'[j].file : j \in 1..(k - 1)}
  <2> TAKE k \in 1..(n + 1)
  <2>1. CASE k \in 1..n
    <3>1. deps'[k] = deps[k]
      BY <1>1, <2>1
    <3>2. \A j \in 1..(k - 1) : deps'[j] = deps[j]
      BY <1>1, <2>1
    <3>3. \A i \in 1..Len(deps[k].resolved) :
            deps[k].resolved[i].target \in Hosted \cup {deps[j].file : j \in 1..(k - 1)}
      BY <2>1 DEF DepsInv, n
    <3>4. {deps[j].file : j \in 1..(k - 1)} = {deps'[j].file : j \in 1..(k - 1)}
      BY <3>2
    <3> QED BY <3>1, <3>3, <3>4
  <2>2. CASE k = n + 1
    <3>1. deps'[k] = e /\ k - 1 = n
      BY <1>1, <2>2
    <3>2. {deps'[j].file : j \in 1..n} = DepFiles
      BY <1>1, <1>3
    <3> QED BY <3>1, <3>2
  <2> QED BY <1>2, <2>1, <2>2
<1>8. DepFiles' = (done' \ {RootFile}) \cup done_embedded'
  BY <1>4 DEF DepsInv
<1>9. \A k \in 1..(n + 1) :
        IF deps'[k].file \in Files
        THEN Records(deps[k])' /\ Len(deps'[k].resolved) = Len(imports'[deps'[k].file])
        ELSE deps'[k].resolved = <<>> /\ deps'[k].path = deps'[k].file
  BY <1>6 DEF Records, Target
<1>10. DepsInv'
  BY <1>1, <1>5, <1>7, <1>8, <1>9 DEF DepsInv
<1> QED BY <1>1, <1>4, <1>10 DEF n
-----------------------------------------------------------------------------
(* An import of a loaded file, or of a hosted namespace.                   *)
LEMMA ImportKnownKeeps == ASSUME IInv, ImportLoaded \/ ImportHosted PROVE IInv'
<1> USE DEF IInv, WalkInv, EvalInv
<1> DEFINE t == Resolve(Top.file, Here.path)
<1>1. /\ phase = "load" /\ AtImport /\ t \in done \cup Hosted /\ stack' = Resolved(stack, t)
      /\ UNCHANGED <<imports, done, done_embedded, deps, phase, why, evaluator>>
  BY DEF ImportLoaded, ImportHosted
<1>2. /\ imports' = imports /\ done' = done /\ done_embedded' = done_embedded /\ deps' = deps
      /\ phase' = phase /\ why' = why /\ why = "none" /\ UNCHANGED evaluator
  BY <1>1 DEF PhaseInv
<1>3. DepFiles' = DepFiles /\ DepsInv'
  BY <1>2, SameDeps
<1>4. t \in Hosted \cup DepFiles /\ t \in Targets
  BY <1>1 DEF TypeOK, PhaseInv, DepsInv, Targets
<1>5. /\ stack \in Seq(Units) /\ Len(stack) \in Nat /\ stack # <<>> /\ Top = stack[Len(stack)]
      /\ Len(stack[Len(stack)].resolved) + 1 <= Len(imports[stack[Len(stack)].file])
      /\ t = Target(stack[Len(stack)].file, Len(stack[Len(stack)].resolved) + 1)
  BY <1>1, TopFacts, HereFacts DEF StackInv
<1> HIDE DEF t
<1>6. /\ stack' \in Seq(Units) /\ Len(stack') = Len(stack) /\ StackInv' /\ RecordInv'
      /\ \A k \in 1..Len(stack) : stack'[k].file = stack[k].file
  <2>1. StackFiles \cup done \subseteq {stack[k].file : k \in 1..Len(stack)} \cup done'
    BY <1>2 DEF StackFiles
  <2>2. Len(stack) <= Len(stack) /\ \A k \in 1..Len(stack) : stack[k] = stack[k]
    BY <1>5
  <2> QED BY <1>1, <1>2, <1>3, <1>4, <1>5, <2>1, <2>2, RecordStep
<1>7. StackFiles' = StackFiles
  BY <1>6 DEF StackFiles
<1>8. TypeOK'
  BY <1>2, <1>6 DEF TypeOK, evaluator
<1>10. PhaseInv'
  BY <1>1, <1>2, <1>6 DEF PhaseInv
<1>11. ReachInv'
  BY <1>2, <1>7, SameGraph DEF ReachInv
<1>12. NameInv'
  BY <1>2, <1>7, NamesKept DEF NameInv
<1>13. CollectInv' /\ BindsTheFileNamed' /\ NoSilentRebinding'
  BY <1>1, <1>2, SameEval
<1> QED BY <1>2, <1>3, <1>6, <1>8, <1>10, <1>11, <1>12, <1>13 DEF CycleInv

(* An import of an embedded module.                                        *)
LEMMA ImportEmbeddedKeeps == ASSUME IInv, ImportEmbedded PROVE IInv'
<1> USE DEF IInv, WalkInv, EvalInv
<1>0. PICK p : p = Resolve(Top.file, Here.path)
  OBVIOUS
<1> DEFINE e == [path |-> p, file |-> p, resolved |-> <<>>]
<1>1. /\ phase = "load" /\ AtImport /\ p \in Embedded /\ stack' = Resolved(stack, p)
      /\ done_embedded' = done_embedded \cup {p}
      /\ deps' = IF p \in done_embedded THEN deps ELSE Append(deps, e)
      /\ UNCHANGED <<imports, done, phase, why, evaluator>>
  BY <1>0 DEF ImportEmbedded
<1>2. /\ imports' = imports /\ done' = done /\ phase' = phase /\ why' = why /\ why = "none"
      /\ UNCHANGED evaluator
  BY <1>1 DEF PhaseInv
<1>3. /\ stack \in Seq(Units) /\ Len(stack) \in Nat /\ stack # <<>> /\ Top = stack[Len(stack)]
      /\ Len(stack) \in 1..Len(stack) /\ Top.file \in Files
      /\ Len(stack[Len(stack)].resolved) + 1 <= Len(imports[stack[Len(stack)].file])
      /\ p = Target(stack[Len(stack)].file, Len(stack[Len(stack)].resolved) + 1)
  BY <1>0, <1>1, TopFacts, HereFacts DEF StackInv
<1>4. p = Here.path /\ p \in Targets /\ p \notin Files
  <2>1. p = Here.path
    BY <1>0, <1>1, <1>3, HereFacts, ImportFacts DEF TypeOK
  <2> QED BY <1>1, <2>1, TargetKinds DEF Targets
<1>5. e \in Units /\ e.file = p /\ e.path = p /\ e.resolved = <<>> /\ Len(e.resolved) = 0
  BY <1>1, <1>4, FilesAssumption, EmptySeq DEF Units
<1>6. Names(p, p)'
  <2> DEFINE i == Len(Top.resolved) + 1
  <2>1. i \in 1..Len(imports[Top.file]) /\ imports[Top.file][i].path = p
        /\ Target(Top.file, i) = p
    BY <1>0, <1>1, <1>4, HereFacts
  <2>2. Top.file \in StackFiles
    BY <1>3 DEF StackFiles
  <2>3. StackFiles' = StackFiles
    <3>1. Recorded(stack, stack', p)
      BY <1>1, <1>3, <1>4, ResolvedFacts DEF TypeOK
    <3>2. Len(stack') = Len(stack) /\ \A k \in 1..Len(stack) : stack'[k].file = stack[k].file
      BY <3>1 DEF Recorded
    <3> QED BY <3>2 DEF StackFiles
  <2> HIDE DEF i
  <2> QED BY <1>2, <1>3, <2>1, <2>2, <2>3 DEF Names, Target
<1> HIDE DEF e
<1>7. /\ deps' \in Seq(Units) /\ DepsInv' /\ p \in DepFiles' /\ DepFiles \subseteq DepFiles'
      /\ Len(deps) \in Nat /\ Len(deps) <= Len(deps')
      /\ \A k \in 1..Len(deps') : (k \in 1..Len(deps) /\ deps'[k] = deps[k]) \/ deps'[k] = e
  <2>1. CASE p \in done_embedded
    <3>1. deps' = deps /\ done_embedded' = done_embedded
      BY <1>1, <2>1
    <3>2. DepFiles' = DepFiles /\ DepsInv'
      BY <1>2, <3>1, SameDeps
    <3>3. p \in DepFiles
      BY <2>1 DEF DepsInv
    <3>4. deps \in Seq(Units) /\ Len(deps) \in Nat
      BY UnitFacts DEF TypeOK
    <3> QED BY <3>1, <3>2, <3>3, <3>4
  <2>2. CASE p \notin done_embedded
    <3>1. deps' = Append(deps, e) /\ e.file \notin DepFiles /\ e.file \notin Files
      BY <1>1, <1>4, <1>5, <2>2 DEF DepsInv, TypeOK
    <3>2. (done' \ {RootFile}) \cup done_embedded' =
            ((done \ {RootFile}) \cup done_embedded) \cup {e.file}
      BY <1>1, <1>2, <1>5
    <3>3. \A i \in 1..Len(e.resolved) : e.resolved[i].target \in Hosted \cup DepFiles
      BY <1>5, NoneBelowOne
    <3>4. /\ deps' \in Seq(Units) /\ DepsInv' /\ DepFiles' = DepFiles \cup {e.file}
          /\ Len(deps) \in Nat /\ Len(deps') = Len(deps) + 1 /\ deps'[Len(deps) + 1] = e
          /\ \A k \in 1..Len(deps) : deps'[k] = deps[k]
      BY <1>2, <1>5, <3>1, <3>2, <3>3, AppendUnit
    <3>5. \A k \in 1..Len(deps') : k \in 1..Len(deps) \/ k = Len(deps) + 1
      BY <3>4
    <3> QED BY <1>5, <3>4, <3>5
  <2> QED BY <2>1, <2>2
<1>8. /\ stack' \in Seq(Units) /\ Len(stack') = Len(stack) /\ StackInv' /\ RecordInv'
      /\ \A k \in 1..Len(stack) : stack'[k].file = stack[k].file
  <2>1. StackFiles \cup done \subseteq {stack[k].file : k \in 1..Len(stack)} \cup done'
    BY <1>2 DEF StackFiles
  <2>2. Len(stack) <= Len(stack) /\ \A k \in 1..Len(stack) : stack[k] = stack[k]
    BY <1>3
  <2> QED BY <1>1, <1>2, <1>3, <1>4, <1>7, <2>1, <2>2, RecordStep
<1>9. StackFiles' = StackFiles
  BY <1>8 DEF StackFiles
<1>10. TypeOK'
  <2>1. done_embedded' \subseteq Embedded
    BY <1>1 DEF TypeOK
  <2>2. evaluated' \in 0..Len(deps')
    BY <1>2, <1>7 DEF TypeOK, evaluator
  <2> QED BY <1>2, <1>7, <1>8, <2>1, <2>2 DEF TypeOK, evaluator
<1>11. PhaseInv'
  BY <1>1, <1>2, <1>8 DEF PhaseInv
<1>12. ReachInv'
  BY <1>2, <1>9, SameGraph DEF ReachInv
<1>13. NameInv'
  <2> SUFFICES ASSUME NEW k \in 1..Len(deps') PROVE Names(deps[k].path, deps[k].file)'
    BY DEF NameInv
  <2>1. CASE k \in 1..Len(deps) /\ deps'[k] = deps[k]
    <3>1. Names(deps[k].path, deps[k].file)
      BY <2>1 DEF NameInv
    <3> QED BY <1>2, <1>9, <2>1, <3>1 DEF Names, Target
  <2>2. CASE deps'[k] = e
    BY <1>5, <1>6, <2>2 DEF Names, Target
  <2> QED BY <1>7, <2>1, <2>2
<1>14. CollectInv' /\ BindsTheFileNamed' /\ NoSilentRebinding'
  BY <1>1, <1>2, SameEval
<1> QED BY <1>2, <1>7, <1>8, <1>10, <1>11, <1>12, <1>13, <1>14 DEF CycleInv
-----------------------------------------------------------------------------
(* An import of a file that is not loaded yet.                             *)
LEMMA DescendKeeps == ASSUME IInv, Descend PROVE IInv'
<1> USE DEF IInv, WalkInv, EvalInv
<1>1. PICK f : f = Resolve(Top.file, Here.path)
  OBVIOUS
<1>2. PICK l \in ImportLists[f] : Reads(f, l)
  BY <1>1 DEF Descend
<1>3. PICK e : e = Frame(Here.path, f)
  OBVIOUS
<1>4. /\ phase = "load" /\ AtImport /\ f \in Files \ done /\ ~OnStack(f)
      /\ stack' = Append(stack, e) /\ imports' = [imports EXCEPT ![f] = l]
      /\ done' = done /\ done_embedded' = done_embedded /\ deps' = deps /\ phase' = phase
      /\ why' = why /\ why = "none" /\ UNCHANGED evaluator
  BY <1>1, <1>2, <1>3 DEF Descend, Reads, PhaseInv
<1> DEFINE n == Len(stack)
           i == Len(stack[n].resolved) + 1
<1>5. /\ stack \in Seq(Units) /\ n \in Nat \ {0} /\ n \in 1..n /\ stack[n].file \in Files
      /\ i \in 1..Len(imports[stack[n].file]) /\ Target(stack[n].file, i) = f
      /\ Here.path = imports[stack[n].file][i].path /\ Here.path \in Paths
      /\ Len(imports[stack[n].file]) \in Nat
  BY <1>1, <1>4, TopFacts, HereFacts
<1>6. e \in Units /\ e.path = Here.path /\ e.file = f /\ e.resolved = <<>> /\ Len(e.resolved) = 0
  BY <1>3, <1>4, <1>5, EmptySeq DEF Frame, Units
<1>7. i = Len(stack[n].resolved) + 1 /\ n = Len(stack)
  OBVIOUS
<1> HIDE DEF n, i
<1>8. /\ stack' \in Seq(Units) /\ Len(stack') = n + 1 /\ stack'[n + 1] = e
      /\ \A k \in 1..n : stack'[k] = stack[k]
  BY <1>4, <1>5, <1>6, <1>7, AppendProperties
<1>9. \A k \in 1..(n + 1) : k \in 1..n \/ k = n + 1
  BY <1>5
<1>10. StackFiles' = StackFiles \cup {f} /\ f \notin StackFiles
  <2>1. StackFiles' = {stack'[k].file : k \in 1..(n + 1)}
    BY <1>8 DEF StackFiles
  <2>2. StackFiles = {stack[k].file : k \in 1..n}
    BY <1>7 DEF StackFiles
  <2>3. 1..(n + 1) = 1..n \cup {n + 1}
    BY <1>5
  <2>4. StackFiles' = StackFiles \cup {f}
    BY <1>6, <1>8, <2>1, <2>2, <2>3
  <2> QED BY <1>4, <2>4 DEF OnStack, StackFiles
<1>11. /\ imports[f] = <<>> /\ imports' \in [Files -> Seq(Imports)]
       /\ \A g \in Files : g # f => imports'[g] = imports[g]
  <2>1. l \in Seq(Imports)
    BY <1>4, FilesAssumption
  <2> QED BY <1>4, <1>10, <2>1 DEF RecordInv, TypeOK
<1>12. \A g \in StackFiles \cup done : g # f /\ g \in Files /\ imports'[g] = imports[g]
  <2>1. StackFiles \subseteq Files /\ done \subseteq Files
    BY DEF StackInv, StackFiles, TypeOK
  <2> QED BY <1>4, <1>10, <1>11, <2>1
<1>13. \A k \in 1..n : stack[k].file \in StackFiles
  BY <1>7 DEF StackFiles
<1>14. TypeOK'
  BY <1>4, <1>8, <1>11 DEF TypeOK, evaluator
<1>15. StackInv'
  <2>1. 1 \in 1..n /\ stack' # <<>>
    BY <1>4, <1>5, <1>6, AppendProperties
  <2>2. stack'[1].file = RootFile
    BY <1>8, <2>1 DEF StackInv
  <2>3. \A k \in 1..(n + 1) : stack'[k].file \in Files
    BY <1>4, <1>6, <1>7, <1>8, <1>9 DEF StackInv
  <2>4. \A j, k \in 1..(n + 1) : stack'[j].file = stack'[k].file => j = k
    <3> TAKE j, k \in 1..(n + 1)
    <3>1. CASE j \in 1..n /\ k \in 1..n
      BY <1>7, <1>8, <3>1 DEF StackInv
    <3>2. CASE j \in 1..n /\ k = n + 1
      BY <1>6, <1>8, <1>10, <1>13, <3>2
    <3>3. CASE j = n + 1 /\ k \in 1..n
      BY <1>6, <1>8, <1>10, <1>13, <3>3
    <3> QED BY <1>9, <3>1, <3>2, <3>3
  <2>5. \A k \in 1..n : Loads(stack[k], stack[k + 1])'
    <3> TAKE k \in 1..n
    <3>1. stack'[k] = stack[k] /\ imports'[stack[k].file] = imports[stack[k].file]
      BY <1>8, <1>12, <1>13
    <3>2. CASE k # n
      <4>1. k + 1 \in 1..n /\ k \in 1..(n - 1)
        BY <1>5, <3>2
      <4>2. Loads(stack[k], stack[k + 1]) /\ stack'[k + 1] = stack[k + 1]
        BY <1>7, <1>8, <4>1 DEF StackInv
      <4> QED BY <3>1, <4>2 DEF Loads, Target
    <3>3. CASE k = n
      <4>1. stack'[k + 1] = e
        BY <1>8, <3>3
      <4>2. /\ Len(stack[k].resolved) + 1 <= Len(imports[stack[k].file])
            /\ e.path = imports[stack[k].file][Len(stack[k].resolved) + 1].path
            /\ e.file = Target(stack[k].file, Len(stack[k].resolved) + 1)
        BY <1>5, <1>6, <1>7, <3>3
      <4> QED BY <3>1, <4>1, <4>2 DEF Loads, Target
    <3> QED BY <3>2, <3>3
  <2>6. Len(stack') = n + 1 /\ Len(stack') - 1 = n
    BY <1>5, <1>8
  <2> QED BY <2>1, <2>2, <2>3, <2>4, <2>5, <2>6 DEF StackInv
<1>16. DepFiles' = DepFiles /\ (DepFiles \cap Files) \subseteq done
  BY <1>4, TargetKinds DEF DepFiles, DepsInv, TypeOK
<1>17. RecordInv'
  <2>1. \A k \in 1..(n + 1) : /\ Records(stack[k])'
                              /\ \A j \in 1..Len(stack'[k].resolved) :
                                   stack'[k].resolved[j].target \in Hosted \cup DepFiles
    <3> TAKE k \in 1..(n + 1)
    <3>1. CASE k \in 1..n
      <4>1. stack'[k] = stack[k] /\ imports'[stack[k].file] = imports[stack[k].file]
        BY <1>8, <1>12, <1>13, <3>1
      <4>2. /\ Records(stack[k])
            /\ \A j \in 1..Len(stack[k].resolved) :
                 stack[k].resolved[j].target \in Hosted \cup DepFiles
        BY <1>7, <3>1 DEF RecordInv
      <4> QED BY <4>1, <4>2 DEF Records, Target
    <3>2. CASE k = n + 1
      <4>1. stack'[k].resolved = <<>> /\ Len(stack'[k].resolved) = 0 /\ stack'[k].file = f
        BY <1>6, <1>8, <3>2
      <4>2. Len(imports'[f]) \in Nat
        BY <1>4, <1>11, LenProperties
      <4> QED BY <4>1, <4>2, NoneBelowOne DEF Records
    <3> QED BY <1>9, <3>1, <3>2
  <2>2. \A g \in Files : g \notin (StackFiles \cup done)' => imports'[g] = <<>>
    BY <1>4, <1>10, <1>11 DEF RecordInv
  <2> QED BY <1>8, <1>16, <2>1, <2>2 DEF RecordInv
<1>18. DepsInv'
  <2>1. \A k \in 1..Len(deps) :
          IF deps'[k].file \in Files
          THEN Records(deps[k])' /\ Len(deps'[k].resolved) = Len(imports'[deps'[k].file])
          ELSE deps'[k].resolved = <<>> /\ deps'[k].path = deps'[k].file
    <3> TAKE k \in 1..Len(deps)
    <3>1. CASE deps[k].file \in Files
      <4>1. deps[k].file \in done
        BY <1>16, <3>1 DEF DepFiles
      <4>2. imports'[deps[k].file] = imports[deps[k].file] /\ deps'[k] = deps[k]
        BY <1>4, <1>12, <4>1
      <4>3. Records(deps[k]) /\ Len(deps[k].resolved) = Len(imports[deps[k].file])
        BY <3>1 DEF DepsInv
      <4> QED BY <3>1, <4>2, <4>3 DEF Records, Target
    <3>2. CASE deps[k].file \notin Files
      BY <1>4, <3>2 DEF DepsInv
    <3> QED BY <3>1, <3>2
  <2>2. DepFiles' = (done' \ {RootFile}) \cup done_embedded'
    BY <1>4, <1>16 DEF DepsInv
  <2>3. \A j, k \in 1..Len(deps) : deps'[j].file = deps'[k].file => j = k
    BY <1>4 DEF DepsInv
  <2>4. \A k \in 1..Len(deps) : \A j \in 1..Len(deps'[k].resolved) :
          deps'[k].resolved[j].target \in Hosted \cup {deps'[m].file : m \in 1..(k - 1)}
    BY <1>4 DEF DepsInv
  <2>5. Len(deps') = Len(deps)
    BY <1>4
  <2> QED BY <2>1, <2>2, <2>3, <2>4, <2>5 DEF DepsInv
<1>19. PhaseInv'
  <2>1. \A k \in 1..(n + 1) : stack'[k].file \notin done'
    <3> TAKE k \in 1..(n + 1)
    <3>1. CASE k \in 1..n
      BY <1>4, <1>7, <1>8, <3>1, StackNotDone
    <3>2. CASE k = n + 1
      BY <1>4, <1>6, <1>8, <3>2
    <3> QED BY <1>9, <3>1, <3>2
  <2> QED BY <1>4, <1>8, <2>1 DEF PhaseInv
<1>20. ReachInv'
  <2>1. ASSUME NEW g \in Files, NEW h \in Files, Edge(g, h) PROVE Edge(g, h)'
    <3>1. g # f
      BY <1>11, <2>1, NoneBelowOne, EmptySeq DEF Edge
    <3> QED BY <1>11, <2>1, <3>1 DEF Edge
  <2>2. Reachable \subseteq Reachable'
    BY <2>1, ReachGrows
  <2>3. Edge(stack[n].file, f)
    BY <1>5, EdgeTarget
  <2>5. f \in Reachable
    BY <1>4, <1>5, <1>13, <2>3, ReachableFacts DEF ReachInv
  <2> QED BY <1>4, <1>10, <2>2, <2>5 DEF ReachInv
<1>21. NameInv'
  <2>1. StackFiles \cup done \subseteq (StackFiles \cup done)'
    BY <1>4, <1>10
  <2>2. \A g \in StackFiles \cup done : imports'[g] = imports[g]
    BY <1>12
  <2> QED BY <1>4, <2>1, <2>2, NamesKept DEF NameInv
<1>22. CollectInv' /\ BindsTheFileNamed' /\ NoSilentRebinding'
  BY <1>4, SameEval
<1> QED BY <1>4, <1>14, <1>15, <1>17, <1>18, <1>19, <1>20, <1>21, <1>22 DEF CycleInv
-----------------------------------------------------------------------------
(* The stack's files from the second occurrence of a file on are a cycle.  *)
LEMMA CycleFound ==
  ASSUME TypeOK, StackInv, ReachInv, AtImport, NEW j \in 1..Len(stack),
         stack[j].file = Resolve(Top.file, Here.path)
  PROVE  Cyclic
<1> DEFINE n == Len(stack)
           S == {stack[k].file : k \in j..n}
<1>1. /\ n \in Nat /\ j \in 1..n /\ stack[n].file \in Files
      /\ Len(stack[n].resolved) + 1 \in 1..Len(imports[stack[n].file])
      /\ Target(stack[n].file, Len(stack[n].resolved) + 1) = stack[j].file
  BY TopFacts, HereFacts
<1>2. S \subseteq StackFiles /\ stack[j].file \in S
  BY <1>1 DEF StackFiles
<1>3. \A k \in j..n : \E g \in S : Edge(stack[k].file, g)
  <2> TAKE k \in j..n
  <2>1. CASE k = n
    <3>1. Edge(stack[n].file, stack[j].file)
      BY <1>1, EdgeTarget
    <3> QED BY <1>2, <2>1, <3>1
  <2>2. CASE k # n
    <3>1. k \in 1..(n - 1) /\ k + 1 \in j..n /\ k \in 1..n
      BY <1>1, <2>2
    <3>2. Loads(stack[k], stack[k + 1]) /\ stack[k].file \in Files
      BY <3>1 DEF StackInv
    <3>3. Len(stack[k].resolved) + 1 \in 1..Len(imports[stack[k].file])
      <4>1. Len(stack[k].resolved) \in Nat /\ Len(imports[stack[k].file]) \in Nat
        BY <3>1, <3>2, UnitFacts, ImportFacts DEF TypeOK
      <4> QED BY <3>2, <4>1 DEF Loads
    <3>4. Edge(stack[k].file, stack[k + 1].file)
      BY <3>2, <3>3, EdgeTarget DEF Loads
    <3>5. stack[k + 1].file \in S
      BY <3>1
    <3> QED BY <3>4, <3>5
  <2> QED BY <2>1, <2>2
<1>4. \A f \in S : \E g \in S : Edge(f, g)
  BY <1>3
<1>5. S \in SUBSET Reachable
  BY <1>2 DEF ReachInv
<1> HIDE DEF S
<1> QED BY <1>2, <1>4, <1>5 DEF Cyclic

(* An import that leads nowhere, to a file being loaded, or to one that    *)
(* cannot be read.                                                         *)
LEMMA FailureKeeps == ASSUME IInv, NotFound \/ LoadFails PROVE IInv'
<1> USE DEF IInv, EvalInv
<1>1. /\ phase = "load" /\ AtImport /\ phase' = "failed" /\ why' \in {"missing", "cycle", "broken"}
      /\ UNCHANGED <<imports, loader, evaluator>>
      /\ why' = "cycle" => OnStack(Resolve(Top.file, Here.path))
  BY DEF NotFound, LoadFails, Fail
<1>2. WalkInv' /\ NameInv'
  BY <1>1, SameWalk
<1>3. CollectInv' /\ BindsTheFileNamed' /\ NoSilentRebinding'
  BY <1>1, SameEval
<1>4. TypeOK'
  BY <1>1 DEF TypeOK, loader, evaluator
<1>5. CycleInv'
  <2> SUFFICES ASSUME why' = "cycle" PROVE Cyclic'
    BY DEF CycleInv
  <2>1. Cyclic
    BY <1>1, CycleFound DEF OnStack, WalkInv
  <2> QED BY <1>1, <2>1, SameGraph
<1> QED BY <1>2, <1>3, <1>4, <1>5

(* The root's last import is recorded, and loading is over.                *)
LEMMA FinishRootKeeps == ASSUME IInv, Finish, Len(stack) = 1 PROVE IInv'
<1> USE DEF IInv, WalkInv, EvalInv
<1>1. /\ phase = "load" /\ ~AtImport /\ done' = done \cup {Top.file} /\ phase' = "eval"
      /\ stack' = stack /\ deps' = deps /\ imports' = imports /\ done_embedded' = done_embedded
      /\ why' = why /\ why = "none" /\ UNCHANGED evaluator
  BY DEF Finish, PhaseInv
<1>2. Top.file = RootFile /\ stack[1].file = RootFile /\ \A k \in 1..Len(stack) : k = 1
  BY TopFacts DEF StackInv
<1>3. Len(stack[1].resolved) = Len(imports[RootFile])
  <2>1. Records(stack[1]) /\ Top = stack[1]
    BY TopFacts DEF RecordInv
  <2>2. Len(Top.resolved) \in Nat /\ Len(imports[Top.file]) \in Nat
    BY TopFacts
  <2> QED BY <1>1, <1>2, <2>1, <2>2 DEF AtImport, Records
<1>4. StackFiles' = StackFiles /\ DepFiles' = DepFiles /\ RootFile \in StackFiles
  <2>1. 1 \in 1..Len(stack)
    BY TopFacts
  <2> QED BY <1>1, <1>2, <2>1 DEF StackFiles, DepFiles
<1>5. TypeOK'
  BY <1>1, <1>2, FilesAssumption DEF TypeOK, evaluator
<1>6. StackInv'
  BY <1>1 DEF StackInv, Loads, Target
<1>7. RecordInv'
  BY <1>1, <1>4 DEF RecordInv, Records, Target
<1>8. DepsInv'
  <2>1. done' \ {RootFile} = done \ {RootFile}
    BY <1>1, <1>2
  <2> QED BY <1>1, <2>1, SameDeps
<1>9. PhaseInv'
  BY <1>1, <1>2, <1>3 DEF PhaseInv
<1>10. ReachInv'
  BY <1>1, <1>2, <1>4, SameGraph DEF ReachInv
<1>11. NameInv'
  BY <1>1, <1>4, NamesKept DEF NameInv
<1>12. CollectInv' /\ BindsTheFileNamed' /\ NoSilentRebinding'
  BY <1>1, SameEval
<1> QED BY <1>1, <1>5, <1>6, <1>7, <1>8, <1>9, <1>10, <1>11, <1>12 DEF CycleInv

(* A module's last import is recorded: its unit is appended to `deps`, and *)
(* its importer goes on.                                                   *)
LEMMA FinishModuleKeeps == ASSUME IInv, Finish, Len(stack) # 1 PROVE IInv'
<1> USE DEF IInv, WalkInv, EvalInv
<1>1. PICK e : e = Top
  OBVIOUS
<1>2. PICK s : s = Front(stack)
  OBVIOUS
<1>3. /\ phase = "load" /\ ~AtImport /\ done' = done \cup {e.file} /\ phase' = phase
      /\ stack' = Resolved(s, e.file) /\ deps' = Append(deps, e) /\ imports' = imports
      /\ done_embedded' = done_embedded /\ why' = why /\ why = "none" /\ UNCHANGED evaluator
  BY <1>1, <1>2 DEF Finish, PhaseInv
<1> DEFINE n == Len(stack)
<1>4. /\ stack \in Seq(Units) /\ n \in Nat /\ n > 1 /\ n - 1 \in Nat \ {0} /\ n - 1 \in 1..n
      /\ n \in 1..n /\ e = stack[n] /\ e \in Units /\ e.file \in Files
      /\ Len(e.resolved) \in Nat /\ Len(imports[e.file]) \in Nat
  <2>1. stack \in Seq(Units) /\ n \in Nat \ {0} /\ n # 1 /\ n \in 1..n
    BY TopFacts
  <2>2. e = stack[n] /\ e \in Units /\ e.file \in Files
        /\ Len(e.resolved) \in Nat /\ Len(imports[e.file]) \in Nat
    BY <1>1, TopFacts
  <2> HIDE DEF n
  <2>3. n \in Nat /\ n > 1
    BY <2>1
  <2>4. n - 1 \in Nat /\ n - 1 # 0 /\ n - 1 \in 1..n
    BY <2>3
  <2> QED BY <2>1, <2>2, <2>3, <2>4
<1>5. /\ s \in Seq(Units) /\ Len(s) = n - 1 /\ s # <<>>
      /\ \A k \in 1..(n - 1) : s[k] = stack[k] /\ k \in 1..n /\ k # n
  <2>1. s = SubSeq(stack, 1, n - 1)
    BY <1>2 DEF Front
  <2>2. n - 1 \in Int /\ \A k \in 1..(n - 1) : stack[k] \in Units /\ k \in 1..n /\ k # n
    BY <1>4, UnitFacts
  <2>3. /\ SubSeq(stack, 1, n - 1) \in Seq(Units)
        /\ Len(SubSeq(stack, 1, n - 1)) = IF 1 <= n - 1 THEN n - 1 - 1 + 1 ELSE 0
        /\ \A k \in 1..(n - 1 - 1 + 1) : SubSeq(stack, 1, n - 1)[k] = stack[1 + k - 1]
    BY <2>2, SubSeqProperties
  <2>4. Len(s) = n - 1 /\ \A k \in 1..(n - 1) : s[k] = stack[k]
    BY <1>4, <2>1, <2>3
  <2> QED BY <1>4, <2>1, <2>2, <2>3, <2>4, EmptySeq
<1>6. /\ n = Len(stack) /\ s[n - 1] = stack[n - 1] /\ Loads(stack[n - 1], e)
      /\ Len(stack[n - 1].resolved) + 1 \in 1..Len(imports[stack[n - 1].file])
      /\ stack[n - 1].file \in Files
  <2>1. n - 1 \in 1..(n - 1) /\ n - 1 + 1 = n
    BY <1>4
  <2>2. Loads(stack[n - 1], e) /\ stack[n - 1].file \in Files
    BY <1>4, <2>1 DEF StackInv
  <2>3. Len(stack[n - 1].resolved) \in Nat /\ Len(imports[stack[n - 1].file]) \in Nat
    BY <1>4, <2>2, UnitFacts, ImportFacts DEF TypeOK
  <2>4. Len(stack[n - 1].resolved) + 1 <= Len(imports[stack[n - 1].file])
    BY <2>2 DEF Loads
  <2>5. Len(stack[n - 1].resolved) + 1 \in 1..Len(imports[stack[n - 1].file])
    BY <2>3, <2>4
  <2>6. s[n - 1] = stack[n - 1]
    BY <1>5, <2>1
  <2> QED BY <2>2, <2>5, <2>6
<1> HIDE DEF n
<1>7. /\ e.file \notin DepFiles /\ e.file # RootFile /\ e.file \in Targets
      /\ \A k \in 1..n : stack[k].file \notin done
  <2>1. \A k \in 1..n : stack[k].file \notin done
    BY <1>3, <1>6, StackNotDone
  <2>2. e.file # RootFile
    BY <1>4, <1>6 DEF StackInv
  <2> QED BY <1>4, <2>1, <2>2, TargetKinds DEF DepsInv, TypeOK, Targets
<1>8. /\ Records(e) /\ Len(e.resolved) = Len(imports[e.file])
      /\ \A i \in 1..Len(e.resolved) : e.resolved[i].target \in Hosted \cup DepFiles
  <2>1. /\ Records(e)
        /\ \A i \in 1..Len(e.resolved) : e.resolved[i].target \in Hosted \cup DepFiles
    BY <1>4, <1>6 DEF RecordInv
  <2> QED BY <1>1, <1>3, <1>4, <2>1 DEF AtImport, Records
<1>9. /\ deps' \in Seq(Units) /\ DepsInv' /\ DepFiles' = DepFiles \cup {e.file}
      /\ Len(deps) \in Nat /\ Len(deps') = Len(deps) + 1 /\ deps'[Len(deps) + 1] = e
      /\ \A k \in 1..Len(deps) : deps'[k] = deps[k]
  <2>1. (done' \ {RootFile}) \cup done_embedded' =
          ((done \ {RootFile}) \cup done_embedded) \cup {e.file}
    BY <1>3, <1>7
  <2> QED BY <1>3, <1>4, <1>7, <1>8, <2>1, AppendUnit
<1>10. StackFiles = {s[k].file : k \in 1..(n - 1)} \cup {e.file}
  <2>1. 1..n = 1..(n - 1) \cup {n}
    BY <1>4
  <2>2. StackFiles = {stack[k].file : k \in 1..n}
    BY <1>6 DEF StackFiles
  <2> QED BY <1>4, <1>5, <2>1, <2>2
<1>11. /\ stack' \in Seq(Units) /\ Len(stack') = n - 1 /\ StackInv' /\ RecordInv'
       /\ \A k \in 1..(n - 1) : stack'[k].file = s[k].file
  <2>1. StackFiles \cup done \subseteq {s[k].file : k \in 1..Len(s)} \cup done'
    BY <1>3, <1>5, <1>10
  <2>2. e.file = Target(s[Len(s)].file, Len(s[Len(s)].resolved) + 1)
        /\ Len(s[Len(s)].resolved) + 1 <= Len(imports[s[Len(s)].file])
    BY <1>5, <1>6 DEF Loads
  <2>3. Len(s) <= Len(stack) /\ \A k \in 1..Len(s) : s[k] = stack[k]
    BY <1>4, <1>5, <1>6
  <2>4. e.file \in Hosted \cup DepFiles' /\ DepFiles \subseteq DepFiles'
    BY <1>9
  <2> QED BY <1>3, <1>5, <1>7, <2>1, <2>2, <2>3, <2>4, RecordStep
<1>12. StackFiles' = {s[k].file : k \in 1..(n - 1)} /\ (StackFiles \cup done)' = StackFiles \cup done
  <2>1. StackFiles' = {stack'[k].file : k \in 1..(n - 1)}
    BY <1>11 DEF StackFiles
  <2>2. StackFiles' = {s[k].file : k \in 1..(n - 1)}
    BY <1>11, <2>1
  <2> QED BY <1>3, <1>10, <2>2
<1>13. TypeOK'
  <2>1. evaluated' \in 0..Len(deps')
    BY <1>3, <1>9 DEF TypeOK, evaluator
  <2> QED BY <1>3, <1>4, <1>9, <1>11, <2>1 DEF TypeOK, evaluator
<1>14. PhaseInv'
  <2>1. \A k \in 1..(n - 1) : stack'[k].file \notin done'
    <3> TAKE k \in 1..(n - 1)
    <3>1. stack'[k].file = stack[k].file /\ k \in 1..n /\ k # n
      BY <1>5, <1>11
    <3>2. stack[k].file # e.file
      BY <1>4, <1>6, <3>1 DEF StackInv
    <3> QED BY <1>3, <1>7, <3>1, <3>2
  <2> QED BY <1>3, <1>7, <1>11, <2>1 DEF PhaseInv
<1>15. ReachInv'
  BY <1>3, <1>12, SameGraph DEF ReachInv
<1>16. NameInv'
  <2> SUFFICES ASSUME NEW k \in 1..(Len(deps) + 1) PROVE Names(deps[k].path, deps[k].file)'
    BY <1>9 DEF NameInv
  <2>1. CASE k \in 1..Len(deps)
    <3>1. Names(deps[k].path, deps[k].file) /\ deps'[k] = deps[k]
      BY <1>9, <2>1 DEF NameInv
    <3> QED BY <1>3, <1>12, <3>1 DEF Names, Target
  <2>2. CASE k = Len(deps) + 1
    <3>1. stack[n - 1].file \in (StackFiles \cup done)'
      BY <1>4, <1>6, <1>12 DEF StackFiles
    <3>2. Names(e.path, e.file)
      BY <1>6, <1>12, <3>1 DEF Names, Loads
    <3>3. deps'[k] = e
      BY <1>9, <2>2
    <3> QED BY <1>3, <1>12, <3>2, <3>3 DEF Names, Target
  <2> QED BY <1>9, <2>1, <2>2
<1>17. CollectInv' /\ BindsTheFileNamed' /\ NoSilentRebinding'
  BY <1>3, SameEval
<1> QED BY <1>3, <1>9, <1>11, <1>13, <1>14, <1>15, <1>16, <1>17 DEF CycleInv
-----------------------------------------------------------------------------
(* What FirstBad answers: the first import that cannot be bound.           *)
LEMMA FirstBadFacts ==
  ASSUME NEW u, Len(u.resolved) \in Nat
  PROVE  /\ FirstBad(u) = 0 =>
              \A i \in 1..Len(u.resolved) : Known(u.resolved[i].path) /\ ~Conflict(u, i)
         /\ FirstBad(u) # 0 => FirstBad(u) \in 1..Len(u.resolved)
<1> DEFINE bad == {i \in 1..Len(u.resolved) : ~Known(u.resolved[i].path) \/ Conflict(u, i)}
<1>1. FirstBad(u) = IF bad = {} THEN 0 ELSE CHOOSE i \in bad : \A j \in bad : i <= j
  BY DEF FirstBad
<1>2. bad \subseteq 1..Len(u.resolved) /\ bad \in SUBSET Nat
  OBVIOUS
<1>3. \A i \in 1..Len(u.resolved) : i \notin bad => Known(u.resolved[i].path) /\ ~Conflict(u, i)
  OBVIOUS
<1> HIDE DEF bad
<1>4. CASE bad = {}
  BY <1>1, <1>3, <1>4
<1>5. CASE bad # {}
  <2>1. \E i \in bad : \A j \in bad : i <= j
    BY <1>2, <1>5, LeastElement
  <2>2. FirstBad(u) \in bad
    BY <1>1, <1>5, <2>1
  <2>3. FirstBad(u) \in 1..Len(u.resolved)
    BY <1>2, <2>2
  <2>4. FirstBad(u) # 0
    BY <2>3
  <2> QED BY <2>3, <2>4
<1> QED BY <1>4, <1>5

(* What Unambiguous says of two imports.                                   *)
LEMMA UnambiguousFacts ==
  ASSUME Unambiguous, NEW f \in Reachable, NEW g \in Reachable,
         NEW i \in 1..Len(imports[f]), NEW j \in 1..Len(imports[g])
  PROVE  imports[f][i].path = imports[g][j].path <=> Target(f, i) = Target(g, j)
<1> DEFINE pairs(h) == {<<imports[h][k].path, Resolve(h, imports[h][k].path)>> : k \in 1..Len(imports[h])}
           used == UNION {pairs(h) : h \in Reachable}
<1>1. \A u, v \in used : u[1] = v[1] <=> u[2] = v[2]
  BY DEF Unambiguous
<1>2. <<imports[f][i].path, Target(f, i)>> \in pairs(f)
      /\ <<imports[g][j].path, Target(g, j)>> \in pairs(g)
  BY DEF Target
<1> HIDE DEF pairs
<1>3. <<imports[f][i].path, Target(f, i)>> \in used /\ <<imports[g][j].path, Target(g, j)>> \in used
  BY <1>2
<1> HIDE DEF used
<1> QED BY <1>1, <1>3

(* The unit whose imports are bound next, the root's last.                 *)
Current == IF evaluated < Len(deps) THEN deps[evaluated + 1] ELSE Top

LEMMA CurrentFacts ==
  ASSUME IInv, phase = "eval"
  PROVE  /\ Current \in Units /\ Len(Current.resolved) \in Nat
         /\ evaluated \in Nat /\ Len(deps) \in Nat /\ evaluated <= Len(deps)
         /\ \A k \in 1..evaluated : deps[k].file # Current.file
         /\ evaluated < Len(deps) => Current = deps[evaluated + 1] /\ evaluated + 1 \in 1..Len(deps)
         /\ evaluated >= Len(deps) => Current = Top /\ Current.file = RootFile
         /\ \A i \in 1..Len(Current.resolved) :
              /\ Current.file \in Reachable /\ i \in 1..Len(imports[Current.file])
              /\ Current.resolved[i].path = imports[Current.file][i].path
              /\ Current.resolved[i].target = Target(Current.file, i)
              /\ Target(Current.file, i) \in Hosted \cup {deps[j].file : j \in 1..evaluated}
<1> USE DEF IInv, WalkInv
<1>1. /\ deps \in Seq(Units) /\ Len(deps) \in Nat /\ evaluated \in Nat /\ evaluated <= Len(deps)
      /\ \A k \in 1..Len(deps) : deps[k] \in Units /\ Len(deps[k].resolved) \in Nat
  <2>1. deps \in Seq(Units) /\ evaluated \in 0..Len(deps)
    BY DEF TypeOK
  <2>2. Len(deps) \in Nat /\ \A k \in 1..Len(deps) : deps[k] \in Units /\ Len(deps[k].resolved) \in Nat
    BY <2>1, UnitFacts
  <2> QED BY <2>1, <2>2
<1>2. RootFile \in done /\ done \subseteq Reachable /\ RootFile \notin DepFiles
  <2>1. RootFile \in done /\ done \subseteq Reachable
    BY DEF PhaseInv, ReachInv
  <2> QED BY <2>1, TargetKinds, FilesAssumption DEF DepsInv, TypeOK
<1>3. CASE evaluated < Len(deps)
  <2> DEFINE m == evaluated + 1
  <2>1. Current = deps[m] /\ m \in 1..Len(deps) /\ m - 1 = evaluated
    BY <1>1, <1>3 DEF Current
  <2> HIDE DEF m
  <2>2. \A k \in 1..evaluated : k \in 1..Len(deps) /\ k # m
    BY <1>1, <2>1
  <2>3. \A k \in 1..evaluated : deps[k].file # deps[m].file
    BY <2>1, <2>2 DEF DepsInv
  <2>4. \A i \in 1..Len(deps[m].resolved) :
          deps[m].resolved[i].target \in Hosted \cup {deps[j].file : j \in 1..evaluated}
    BY <2>1 DEF DepsInv
  <2>5. CASE deps[m].file \in Files
    <3>1. deps[m].file \in Reachable
      BY <1>2, <2>1, <2>5, TargetKinds DEF DepFiles, DepsInv, TypeOK
    <3>2. Records(deps[m]) /\ Len(deps[m].resolved) = Len(imports[deps[m].file])
      BY <2>1, <2>5 DEF DepsInv
    <3> QED BY <1>1, <1>3, <2>1, <2>3, <2>4, <3>1, <3>2 DEF Records, m
  <2>6. CASE deps[m].file \notin Files
    <3>1. Len(deps[m].resolved) = 0
      BY <2>1, <2>6, EmptySeq DEF DepsInv
    <3> QED BY <1>1, <1>3, <2>1, <2>3, <3>1, NoneBelowOne DEF m
  <2> QED BY <2>5, <2>6
<1>4. CASE evaluated >= Len(deps)
  <2>1. Current = Top /\ evaluated = Len(deps)
    BY <1>1, <1>4 DEF Current
  <2>2. Len(stack) = 1 /\ stack[1].file = RootFile /\ 1 \in 1..Len(stack) /\ Top = stack[1]
        /\ Top \in Units /\ Len(Top.resolved) \in Nat
    BY <1>2, TopFacts DEF StackInv, PhaseInv
  <2>3. /\ Records(Top) /\ Len(Top.resolved) = Len(imports[RootFile])
        /\ \A i \in 1..Len(Top.resolved) : Top.resolved[i].target \in Hosted \cup DepFiles
    BY <1>2, <2>2 DEF RecordInv, PhaseInv
  <2>4. DepFiles = {deps[j].file : j \in 1..evaluated}
    BY <2>1 DEF DepFiles
  <2>5. \A k \in 1..evaluated : deps[k].file # RootFile
    BY <1>2, <2>4
  <2>6. Current.file = RootFile /\ RootFile \in Reachable
    BY <1>2, <2>1, <2>2 DEF StackInv
  <2>7. \A i \in 1..Len(Current.resolved) :
          /\ i \in 1..Len(imports[Current.file])
          /\ Current.resolved[i].path = imports[Current.file][i].path
          /\ Current.resolved[i].target = Target(Current.file, i)
          /\ Target(Current.file, i) \in Hosted \cup {deps[j].file : j \in 1..evaluated}
    BY <2>1, <2>3, <2>4, <2>6 DEF Records
  <2>8. ~(evaluated < Len(deps)) /\ Current \in Units /\ Len(Current.resolved) \in Nat
    BY <1>1, <1>4, <2>1, <2>2
  <2>9. \A k \in 1..evaluated : deps[k].file # Current.file
    BY <2>5, <2>6
  <2>10. evaluated >= Len(deps) => Current = Top /\ Current.file = RootFile
    BY <2>1, <2>6
  <2>11. evaluated < Len(deps) => Current = deps[evaluated + 1] /\ evaluated + 1 \in 1..Len(deps)
    BY <2>8
  <2>12. \A i \in 1..Len(Current.resolved) :
           /\ Current.file \in Reachable /\ i \in 1..Len(imports[Current.file])
           /\ Current.resolved[i].path = imports[Current.file][i].path
           /\ Current.resolved[i].target = Target(Current.file, i)
           /\ Target(Current.file, i) \in Hosted \cup {deps[j].file : j \in 1..evaluated}
    BY <2>6, <2>7
  <2>13. /\ Current \in Units /\ Len(Current.resolved) \in Nat
         /\ evaluated \in Nat /\ Len(deps) \in Nat /\ evaluated <= Len(deps)
    BY <1>1, <2>8
  <2> QED BY <2>9, <2>10, <2>11, <2>12, <2>13, Zenon
<1>5. evaluated < Len(deps) \/ evaluated >= Len(deps)
  BY <1>1
<1> QED BY <1>3, <1>4, <1>5, Zenon

(* In a program without ambiguous paths every import is known when its turn*)
(* comes, and what it binds are the items of its target.                   *)
LEMMA BindsTarget ==
  ASSUME IInv, phase = "eval", Unambiguous, NEW i \in 1..Len(Current.resolved)
  PROVE  /\ Known(Current.resolved[i].path)
         /\ Provider(Current.resolved[i].path) = Current.resolved[i].target
<1> USE DEF IInv, WalkInv, EvalInv
<1>1. PICK f : f = Current.file
  OBVIOUS
<1>2. PICK p : p = Current.resolved[i].path
  OBVIOUS
<1>3. PICK t : t = Current.resolved[i].target
  OBVIOUS
<1>4. /\ f \in Reachable /\ f \in Files /\ i \in 1..Len(imports[f]) /\ p = imports[f][i].path
      /\ t = Target(f, i) /\ t \in Hosted \cup {deps[j].file : j \in 1..evaluated} /\ p \in Paths
  <2>1. /\ f \in Reachable /\ i \in 1..Len(imports[f]) /\ p = imports[f][i].path
        /\ t = Target(f, i) /\ t \in Hosted \cup {deps[j].file : j \in 1..evaluated}
    BY <1>1, <1>2, <1>3, CurrentFacts
  <2> QED BY <2>1, ReachableFacts, ImportFacts DEF TypeOK
<1>5. \A k \in 1..evaluated : deps[k].path = p <=> deps[k].file = t
  <2> TAKE k \in 1..evaluated
  <2>1. k \in 1..Len(deps)
    BY CurrentFacts
  <2>2. PICK g \in Files : \E j \in 1..Len(imports[g]) :
          /\ imports[g][j].path = deps[k].path /\ Target(g, j) = deps[k].file
          /\ g \in StackFiles \cup done
    BY <2>1 DEF NameInv, Names
  <2>3. g \in Reachable
    BY <2>2 DEF ReachInv
  <2> QED BY <1>4, <2>2, <2>3, UnambiguousFacts
<1>6. p \in Embedded \cup Hosted => t = p
  BY <1>4 DEF Target, Resolve
<1>7. Known(p)
  <2>1. CASE t \in Hosted
    <3>1. t = p
      BY <1>4, <2>1, ImportFacts DEF TypeOK
    <3> QED BY <2>1, <3>1 DEF Known
  <2>2. CASE t \notin Hosted
    <3>1. PICK j \in 1..evaluated : deps[j].file = t
      BY <1>4, <2>2
    <3>2. deps[j].path = p
      BY <1>5, <3>1
    <3> QED BY <3>2 DEF Known, CollectInv
  <2> QED BY <2>1, <2>2
<1>8. Provider(p) = t
  <2>1. CASE p \in DOMAIN module_items
    <3>1. PICK k \in 1..evaluated : deps[k].path = p /\ module_items[p] = deps[k].file
      BY <2>1 DEF CollectInv
    <3> QED BY <1>5, <2>1, <3>1 DEF Provider
  <2>2. CASE p \notin DOMAIN module_items
    BY <1>6, <1>7, <2>2 DEF Known, Provider
  <2> QED BY <2>1, <2>2
<1> QED BY <1>2, <1>3, <1>7, <1>8

(* Binding the imports of the current unit.                                *)
LEMMA BindStep ==
  ASSUME IInv, phase = "eval", FirstBad(Current) = 0, imports' = imports, why' = why,
         bound' = bound \cup Bindings(Current)
  PROVE  /\ \A b \in bound' : b.target \in Targets /\ b.provider \in Targets
         /\ \A b \in bound' : b \in bound \/ b.importer = Current.file
         /\ BindsTheFileNamed' /\ NoSilentRebinding'
<1> USE DEF IInv, WalkInv, EvalInv
<1>1. PICK u : u = Current
  OBVIOUS
<1> DEFINE r(i) == u.resolved[i]
<1>2. /\ u \in Units /\ Len(u.resolved) \in Nat
      /\ \A i \in 1..Len(u.resolved) : r(i).target \in Targets
  <2>1. u \in Units /\ u.resolved \in Seq(ResolvedImports) /\ Len(u.resolved) \in Nat
    BY <1>1, CurrentFacts DEF Units
  <2>2. \A i \in 1..Len(u.resolved) : u.resolved[i] \in ResolvedImports
    BY <2>1, ElementOfSeq
  <2> QED BY <2>1, <2>2 DEF ResolvedImports
<1>3. \A i \in 1..Len(u.resolved) : Known(r(i).path) /\ ~Conflict(u, i)
  BY <1>1, <1>2, FirstBadFacts
<1>4. \A b \in Bindings(u) : \E i \in 1..Len(u.resolved) :
        /\ b.importer = u.file /\ b.path = r(i).path /\ b.kind = r(i).kind
        /\ b.target = r(i).target /\ b.provider = Provider(r(i).path)
        /\ b = [importer |-> u.file, path |-> r(i).path, kind |-> r(i).kind,
                target |-> r(i).target, provider |-> Provider(r(i).path)]
  BY DEF Bindings
<1>5. \A p : Known(p) => Provider(p) \in Targets
  BY DEF Known, Provider, TypeOK, Targets
<1>6. \A b \in Bindings(u) : b.target \in Targets /\ b.provider \in Targets /\ b.importer = u.file
  BY <1>2, <1>3, <1>4, <1>5
<1>7. BindsTheFileNamed'
  <2> SUFFICES ASSUME Unambiguous, NEW b \in bound', b.provider # b.target PROVE FALSE
    <3>1. why' # "not loaded" /\ Unambiguous' = Unambiguous
      BY SameGraph DEF PhaseInv
    <3> QED BY <3>1 DEF BindsTheFileNamed
  <2>1. b \in Bindings(u)
    BY <1>1 DEF BindsTheFileNamed
  <2>2. PICK i \in 1..Len(u.resolved) : b.target = r(i).target /\ b.provider = Provider(r(i).path)
    BY <1>4, <2>1
  <2> QED BY <1>1, <2>2, BindsTarget
<1>8. NoSilentRebinding'
  <2> SUFFICES ASSUME NEW a \in bound', NEW b \in bound', a.importer = b.importer,
                      a.kind = "star", b.kind = "star", a # b
               PROVE  ItemsOf[a.provider] \cap ItemsOf[b.provider] = {}
    BY DEF NoSilentRebinding
  <2>1. \A c \in bound : c.importer # u.file
    BY <1>1, CurrentFacts DEF CollectInv
  <2>2. CASE a \in bound /\ b \in bound
    BY <2>2 DEF NoSilentRebinding
  <2>3. CASE a \in Bindings(u) /\ b \in Bindings(u)
    <3>1. PICK i \in 1..Len(u.resolved) :
            /\ a.kind = r(i).kind /\ a.provider = Provider(r(i).path)
            /\ a = [importer |-> u.file, path |-> r(i).path, kind |-> r(i).kind,
                    target |-> r(i).target, provider |-> Provider(r(i).path)]
      BY <1>4, <2>3
    <3>2. PICK j \in 1..Len(u.resolved) :
            /\ b.kind = r(j).kind /\ b.provider = Provider(r(j).path)
            /\ b = [importer |-> u.file, path |-> r(j).path, kind |-> r(j).kind,
                    target |-> r(j).target, provider |-> Provider(r(j).path)]
      BY <1>4, <2>3
    <3>3. i # j
      BY <3>1, <3>2
    <3>4. ASSUME NEW k \in 1..Len(u.resolved), NEW m \in 1..Len(u.resolved), m < k,
                 r(k).kind = "star", r(m).kind = "star"
          PROVE  ItemsOf[Provider(r(k).path)] \cap ItemsOf[Provider(r(m).path)] = {}
      <4>1. m \in {q \in 1..(k - 1) : u.resolved[q].kind = "star" /\ Known(u.resolved[q].path)}
        BY <1>2, <1>3, <3>4
      <4>2. ItemsOf[Provider(u.resolved[m].path)] \subseteq StarNames(u, k)
        BY <4>1 DEF StarNames
      <4>3. ~Conflict(u, k)
        BY <1>3
      <4>4. ItemsOf[Provider(u.resolved[k].path)] \cap StarNames(u, k) = {}
        BY <3>4, <4>3 DEF Conflict
      <4> QED BY <4>2, <4>4
    <3>5. i < j \/ j < i
      BY <1>2, <3>3
    <3> QED BY <3>1, <3>2, <3>4, <3>5
  <2>4. CASE a \in bound /\ b \in Bindings(u)
    BY <1>6, <2>1, <2>4
  <2>5. CASE a \in Bindings(u) /\ b \in bound
    BY <1>6, <2>1, <2>5
  <2> QED BY <1>1, <2>2, <2>3, <2>4, <2>5
<1> QED BY <1>1, <1>6, <1>7, <1>8 DEF TypeOK

(* A dependency is evaluated.                                              *)
LEMMA EvalModuleKeeps == ASSUME IInv, EvalModule PROVE IInv'
<1> USE DEF IInv, EvalInv
<1>1. PICK u : u = deps[evaluated + 1]
  OBVIOUS
<1>2. /\ phase = "eval" /\ evaluated < Len(deps) /\ FirstBad(u) = 0
      /\ bound' = bound \cup Bindings(u) /\ module_items' = Collect(module_items, u.path, u.file)
      /\ evaluated' = evaluated + 1 /\ phase' = phase /\ why' = why
      /\ UNCHANGED <<imports, loader>>
  BY <1>1 DEF EvalModule
<1>3. /\ u = Current /\ u \in Units /\ evaluated \in Nat /\ Len(deps) \in Nat
      /\ evaluated + 1 \in 1..Len(deps)
  BY <1>1, <1>2, CurrentFacts
<1>4. WalkInv' /\ NameInv'
  BY <1>2, SameWalk DEF WalkInv, PhaseInv
<1>5. u.path \in Paths /\ u.file \in Files \cup Embedded
  <2>1. Names(u.path, u.file)
    BY <1>1, <1>3 DEF NameInv
  <2>2. u.path \in Paths
    BY <2>1, ImportFacts DEF Names, TypeOK
  <2> QED BY <1>3, <2>2 DEF Units
<1>6. /\ DOMAIN module_items' = DOMAIN module_items \cup {u.path}
      /\ \A p \in DOMAIN module_items' :
           module_items'[p] = IF p = u.path THEN u.file ELSE module_items[p]
  BY <1>2 DEF Collect
<1>7. /\ \A b \in bound' : b.target \in Targets /\ b.provider \in Targets
      /\ \A b \in bound' : b \in bound \/ b.importer = u.file
      /\ BindsTheFileNamed' /\ NoSilentRebinding'
  BY <1>2, <1>3, BindStep
<1>8. TypeOK'
  <2>1. evaluated' \in 0..Len(deps')
    BY <1>2, <1>3 DEF loader
  <2>2. DOMAIN module_items' \subseteq Paths
    BY <1>5, <1>6 DEF TypeOK
  <2>3. \A p \in DOMAIN module_items' : module_items'[p] \in Files \cup Embedded
    BY <1>5, <1>6 DEF TypeOK
  <2> QED BY <1>2, <1>7, <2>1, <2>2, <2>3 DEF TypeOK, loader
<1>9. CollectInv'
  <2>1. 1..evaluated' = 1..evaluated \cup {evaluated + 1} /\ deps' = deps
    BY <1>2, <1>3 DEF loader
  <2>2. DOMAIN module_items' = {deps'[k].path : k \in 1..evaluated'}
    <3>1. DOMAIN module_items = {deps[k].path : k \in 1..evaluated}
      BY DEF CollectInv
    <3> QED BY <1>1, <1>6, <2>1, <3>1
  <2>3. \A p \in DOMAIN module_items' :
          \E k \in 1..evaluated' : deps'[k].path = p /\ module_items'[p] = deps'[k].file
    <3> TAKE p \in DOMAIN module_items'
    <3>1. CASE p = u.path
      BY <1>1, <1>6, <2>1, <3>1
    <3>2. CASE p # u.path
      <4>1. PICK k \in 1..evaluated : deps[k].path = p /\ module_items[p] = deps[k].file
        BY <1>6, <3>2 DEF CollectInv
      <4> QED BY <1>6, <2>1, <3>2, <4>1
    <3> QED BY <3>1, <3>2
  <2>4. \A b \in bound' : \E k \in 1..evaluated' : b.importer = deps'[k].file
    <3> TAKE b \in bound'
    <3>1. CASE b \in bound
      BY <1>2, <2>1, <3>1 DEF CollectInv
    <3>2. CASE b.importer = u.file
      BY <1>1, <2>1, <3>2
    <3> QED BY <1>7, <3>1, <3>2
  <2> QED BY <1>2, <2>2, <2>3, <2>4 DEF CollectInv
<1>10. CycleInv'
  BY <1>2, SameGraph DEF CycleInv
<1> QED BY <1>4, <1>7, <1>8, <1>9, <1>10

(* The root is evaluated.                                                  *)
LEMMA EvalRootKeeps == ASSUME IInv, EvalRoot PROVE IInv'
<1> USE DEF IInv, EvalInv
<1>1. /\ phase = "eval" /\ evaluated = Len(deps) /\ FirstBad(Top) = 0 /\ phase' = "done"
      /\ bound' = bound \cup Bindings(Top) /\ why' = why /\ module_items' = module_items
      /\ evaluated' = evaluated /\ UNCHANGED <<imports, loader>>
  BY DEF EvalRoot
<1>2. Top = Current /\ Current.file = RootFile
  BY <1>1, CurrentFacts
<1>3. WalkInv' /\ NameInv'
  BY <1>1, SameWalk DEF WalkInv, PhaseInv
<1>4. /\ \A b \in bound' : b.target \in Targets /\ b.provider \in Targets
      /\ \A b \in bound' : b \in bound \/ b.importer = RootFile
      /\ BindsTheFileNamed' /\ NoSilentRebinding'
  BY <1>1, <1>2, BindStep
<1>5. TypeOK'
  BY <1>1, <1>4 DEF TypeOK, loader
<1>6. CollectInv'
  <2>1. deps' = deps
    BY <1>1 DEF loader
  <2> QED BY <1>1, <1>4, <2>1 DEF CollectInv
<1>7. CycleInv'
  BY <1>1, SameGraph DEF CycleInv
<1> QED BY <1>3, <1>4, <1>5, <1>6, <1>7

(* Some import of the current unit cannot be bound.                        *)
LEMMA BindFailsKeeps == ASSUME IInv, BindFails PROVE IInv'
<1> USE DEF IInv, EvalInv
<1> DEFINE i == FirstBad(Current)
<1>1. /\ phase = "eval" /\ i # 0 /\ phase' = "failed"
      /\ why' = IF Known(Current.resolved[i].path) THEN "conflict" ELSE "not loaded"
      /\ UNCHANGED <<imports, loader, evaluator>>
  BY DEF BindFails, Fail, Current
<1>2. WalkInv' /\ NameInv'
  BY <1>1, SameWalk
<1>3. i \in 1..Len(Current.resolved)
  BY <1>1, CurrentFacts, FirstBadFacts
<1>4. why' = "not loaded" => ~Unambiguous
  BY <1>1, <1>3, BindsTarget
<1> HIDE DEF i
<1>5. BindsTheFileNamed' /\ NoSilentRebinding'
  <2>1. bound' = bound /\ Unambiguous' = Unambiguous
    BY <1>1, SameGraph DEF evaluator
  <2> QED BY <1>4, <2>1 DEF BindsTheFileNamed, NoSilentRebinding
<1>6. TypeOK'
  BY <1>1 DEF TypeOK, loader, evaluator
<1>7. CollectInv'
  <2>1. bound' = bound /\ deps' = deps /\ module_items' = module_items /\ evaluated' = evaluated
    BY <1>1 DEF loader, evaluator
  <2>2. \A b \in bound : \/ \E k \in 1..evaluated : b.importer = deps[k].file
                         \/ b.importer = RootFile /\ phase \notin {"load", "eval"}
    BY DEF CollectInv
  <2>3. /\ DOMAIN module_items = {deps[k].path : k \in 1..evaluated}
        /\ \A p \in DOMAIN module_items :
             \E k \in 1..evaluated : deps[k].path = p /\ module_items[p] = deps[k].file
    BY DEF CollectInv
  <2>4. \A b \in bound' : \E k \in 1..evaluated' : b.importer = deps'[k].file
    BY <1>1, <2>1, <2>2
  <2>5. phase' # "load"
    BY <1>1
  <2> QED BY <2>1, <2>3, <2>4, <2>5 DEF CollectInv
<1>8. CycleInv'
  BY <1>1 DEF CycleInv
<1> QED BY <1>2, <1>5, <1>6, <1>7, <1>8
-----------------------------------------------------------------------------
LEMMA StepInv == ASSUME IInv, [Next]_vars PROVE IInv'
<1>1. CASE ImportLoaded \/ ImportHosted
  BY <1>1, ImportKnownKeeps
<1>2. CASE ImportEmbedded
  BY <1>2, ImportEmbeddedKeeps
<1>3. CASE Descend
  BY <1>3, DescendKeeps
<1>4. CASE NotFound \/ LoadFails
  BY <1>4, FailureKeeps
<1>5. CASE Finish
  BY <1>5, FinishRootKeeps, FinishModuleKeeps
<1>6. CASE EvalModule
  BY <1>6, EvalModuleKeeps
<1>7. CASE EvalRoot
  BY <1>7, EvalRootKeeps
<1>8. CASE BindFails
  BY <1>8, BindFailsKeeps
<1>9. CASE UNCHANGED vars
  <2>1. /\ imports' = imports /\ stack' = stack /\ done' = done /\ done_embedded' = done_embedded
        /\ deps' = deps /\ phase' = phase /\ why' = why /\ module_items' = module_items
        /\ evaluated' = evaluated /\ bound' = bound
    BY <1>9 DEF vars
  <2> USE DEF IInv, WalkInv, EvalInv
  <2>2. StackFiles' = StackFiles /\ Reachable' = Reachable
    BY <2>1, SameGraph DEF StackFiles
  <2>3. TypeOK' /\ StackInv'
    BY <2>1 DEF TypeOK, StackInv, Loads, Target
  <2>4. RecordInv' /\ DepsInv' /\ PhaseInv'
    BY <2>1, <2>2, SameDeps DEF RecordInv, Records, Target, PhaseInv
  <2>5. ReachInv' /\ CycleInv' /\ BindsTheFileNamed'
    <3>1. Cyclic' = Cyclic /\ Unambiguous' = Unambiguous
      BY <2>1, SameGraph
    <3> QED BY <2>1, <2>2, <3>1 DEF ReachInv, CycleInv, BindsTheFileNamed
  <2>6. NameInv'
    BY <2>1, <2>2 DEF NameInv, Names, Target
  <2>7. CollectInv' /\ NoSilentRebinding'
    BY <2>1 DEF CollectInv, NoSilentRebinding
  <2> QED BY <2>3, <2>4, <2>5, <2>6, <2>7
<1> QED BY <1>1, <1>2, <1>3, <1>4, <1>5, <1>6, <1>7, <1>8, <1>9 DEF Next, Ended

LEMMA Inductive == Spec => []IInv
<1>1. Init => IInv
  BY InitInv
<1>2. IInv /\ [Next]_vars => IInv'
  BY StepInv
<1> QED BY <1>1, <1>2, PTL DEF Spec

(* The types of the walk's and the evaluator's state (load_module,         *)
(* eval_module).                                                           *)
THEOREM LoaderTypes == Spec => []TypeOK
<1>1. IInv => TypeOK
  BY DEF IInv
<1> QED BY <1>1, Inductive, PTL

(* A load that succeeds collected exactly the files the root reaches, from *)
(* a graph without cycles or holes, and a reported cycle is one            *)
(* (load_module).                                                          *)
THEOREM LoadExact == Spec => []LoadIsExact
<1>1. IInv => LoadIsExact
  <2> SUFFICES ASSUME IInv PROVE LoadIsExact
    OBVIOUS
  <2> USE DEF IInv
  <2>1. ASSUME phase \in {"eval", "done"}
        PROVE  /\ Loaded = Reachable \ {RootFile} /\ ~Cyclic
               /\ \A f \in Reachable : \A i \in 1..Len(imports[f]) :
                    Resolve(f, imports[f][i].path) # Missing
    <3>1. RootFile \in done
      BY <2>1 DEF WalkInv, PhaseInv
    <3> QED BY <3>1, LoadedIsReachable, LoadedIsAcyclic, LoadedHasNoHoles DEF Target
  <2> QED BY <2>1 DEF LoadIsExact, CycleInv
<1> QED BY <1>1, Inductive, PTL

(* A file is one unit however many import it, and what a module imports    *)
(* was collected before it (load_module, ModuleGraph).                     *)
THEOREM PostOrder == Spec => []DependencyOrder
<1>1. IInv => DependencyOrder
  <2> SUFFICES ASSUME IInv, NEW i \in 1..Len(deps)
               PROVE  /\ \A j \in 1..(i - 1) : deps[j].file # deps[i].file
                      /\ \A k \in 1..Len(deps[i].resolved) :
                           LET t == deps[i].resolved[k].target
                           IN  t \in Hosted \/ \E j \in 1..(i - 1) : deps[j].file = t
    BY DEF DependencyOrder
  <2>1. \A j \in 1..(i - 1) : j \in 1..Len(deps) /\ j # i
    <3>1. Len(deps) \in Nat
      BY UnitFacts DEF IInv, TypeOK
    <3> QED BY <3>1
  <2>2. \A j \in 1..(i - 1) : deps[j].file # deps[i].file
    BY <2>1 DEF IInv, WalkInv, DepsInv
  <2>3. \A k \in 1..Len(deps[i].resolved) :
          deps[i].resolved[k].target \in Hosted \cup {deps[j].file : j \in 1..(i - 1)}
    BY DEF IInv, WalkInv, DepsInv
  <2> QED BY <2>2, <2>3
<1> QED BY <1>1, Inductive, PTL

(* Where paths are not ambiguous, an import binds the items of the file it *)
(* was resolved to, although the evaluator looks them up by path alone,    *)
(* and no loaded module is reported missing (bind_imports, module_items).  *)
THEOREM BindsByPath == Spec => []BindsTheFileNamed
<1>1. IInv => BindsTheFileNamed
  BY DEF IInv, EvalInv
<1> QED BY <1>1, Inductive, PTL

(* No star import rebinds a name of an earlier one (bind_imports, E0031).  *)
THEOREM NoRebinding == Spec => []NoSilentRebinding
<1>1. IInv => NoSilentRebinding
  BY DEF IInv, EvalInv
<1> QED BY <1>1, Inductive, PTL
=============================================================================
