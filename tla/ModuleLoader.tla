----------------------------- MODULE ModuleLoader -----------------------------
(***************************************************************************)
(* Loading a program (prima-runtime, module.rs and eval/entry.rs): a depth-*)
(* first walk of the files the root reaches, then the evaluation of the    *)
(* collected dependencies in post-order, each binding its imports from the *)
(* items collected so far, and last the root module.                       *)
(*                                                                         *)
(* An import names a path (`a::b`).  The loader resolves it against the    *)
(* importing file's directory to a file; the evaluator knows modules by    *)
(* the path alone.  A module body that fails, and the policies a module    *)
(* runs under, are in module Session.                                      *)
(***************************************************************************)
EXTENDS Naturals, Sequences, SequencesExt, FiniteSets

CONSTANTS
  Files,        \* module files, by canonical path
  RootFile,     \* the file the program is started from
  Broken,       \* files that cannot be read or parsed
  Paths,        \* import paths, joined with ::
  NoPath,       \* the root module's path
  Embedded,     \* paths of the embedded standard-library modules
  Hosted,       \* paths of the Rust-hosted namespaces
  FileOf,       \* importing file -> path -> file, or Missing (resolve)
  Missing,
  MaxStack,     \* bound: depth of load_module's recursion
  ItemsOf,      \* file, embedded or hosted path -> names of its public items
  ImportLists   \* file -> the import lists it may hold
                \* (an import is [path, kind], kind "namespace" or "star")

Targets == Files \cup Embedded \cup Hosted

Kinds == {"namespace", "star"}

Imports == [path : Paths, kind : Kinds]

ASSUME FilesAssumption ==
  /\ IsFiniteSet(Files) /\ RootFile \in Files
  /\ Broken \subseteq Files \ {RootFile}
  /\ Embedded \cup Hosted \subseteq Paths
  /\ NoPath \notin Paths
  /\ FileOf \in [Files -> [Paths -> Files \cup {Missing}]]
  /\ Missing \notin Files \cup Paths /\ Files \cap Paths = {}
  /\ \A f \in Files : \A l \in ImportLists[f] : l \in Seq(Imports)

VARIABLES
  imports,       \* file -> the import list read from it, <<>> before that
  stack,         \* frames of load_module, the root's first
  done,          \* files loaded
  done_embedded, \* embedded modules loaded
  deps,          \* dependency units in post-order
  phase,         \* "load", "eval", "done" or "failed"
  why,           \* what made it fail
  module_items,  \* path -> the target whose items were collected under it
  evaluated,     \* number of dependencies evaluated
  bound          \* every import bound: importer, path, target, items taken

vars == <<imports, stack, done, done_embedded, deps, phase, why, module_items,
          evaluated, bound>>

loader == <<stack, done, done_embedded, deps>>

evaluator == <<module_items, evaluated, bound>>

Last1(s) == s[Len(s)]

Top == Last1(stack)

(* The import the top frame is at. *)
Here == imports[Top.file][Len(Top.resolved) + 1]

AtImport == Len(Top.resolved) < Len(imports[Top.file])

(* resolve_import: embedded sources and hosted namespaces come before files. *)
Resolve(f, p) ==
  IF p \in Embedded \cup Hosted THEN p ELSE FileOf[f][p]

(* Mutant: a module cannot import itself, but longer cycles are missed. *)
OnStackTop(f) == Top.file = f

OnStack(f) == \E i \in 1..Len(stack) : stack[i].file = f

Fail(reason) == phase' = "failed" /\ why' = reason

Frame(p, f) == [path |-> p, file |-> f, resolved |-> <<>>]

(* Mutant: the import keeps the path it was written with, unresolved. *)
ResolvedKeepsPath(s, target) ==
  [s EXCEPT ![Len(s)].resolved =
     Append(@, [path |-> imports[Last1(s).file][Len(@) + 1].path,
                kind |-> imports[Last1(s).file][Len(@) + 1].kind,
                target |-> imports[Last1(s).file][Len(@) + 1].path])]

(* imports.push(ResolvedImport { .. }) in the top frame of s. *)
Resolved(s, target) ==
  [s EXCEPT ![Len(s)].resolved =
     Append(@, [path |-> imports[Last1(s).file][Len(@) + 1].path,
                kind |-> imports[Last1(s).file][Len(@) + 1].kind,
                target |-> target])]

Init ==
  /\ \E l \in ImportLists[RootFile] :
       imports = [f \in Files |-> IF f = RootFile THEN l ELSE <<>>]
  /\ stack = <<Frame(NoPath, RootFile)>>
  /\ done = {} /\ done_embedded = {}
  /\ deps = <<>>
  /\ phase = "load"
  /\ why = "none"
  /\ module_items = <<>>
  /\ evaluated = 0
  /\ bound = {}
-----------------------------------------------------------------------------
(* The import is of a file already loaded. *)
ImportLoaded ==
  /\ phase = "load" /\ AtImport
  /\ LET target == Resolve(Top.file, Here.path)
     IN  /\ target \in done
         /\ stack' = Resolved(stack, target)
  /\ UNCHANGED <<imports, done, done_embedded, deps, phase, why, evaluator>>

(* The import is of a Rust-hosted namespace: no file, no dependency. *)
ImportHosted ==
  /\ phase = "load" /\ AtImport
  /\ LET target == Resolve(Top.file, Here.path)
     IN  /\ target \in Hosted
         /\ stack' = Resolved(stack, target)
  /\ UNCHANGED <<imports, done, done_embedded, deps, phase, why, evaluator>>

(* The import is of an embedded module: a unit without imports of its own, *)
(* pushed the first time.                                                  *)
ImportEmbedded ==
  /\ phase = "load" /\ AtImport
  /\ LET p == Resolve(Top.file, Here.path)
     IN  /\ p \in Embedded
         /\ stack' = Resolved(stack, p)
         /\ done_embedded' = done_embedded \cup {p}
         /\ deps' = IF p \in done_embedded THEN deps
                    ELSE Append(deps, [path |-> p, file |-> p, resolved |-> <<>>])
  /\ UNCHANGED <<imports, done, phase, why, evaluator>>

(* A file's imports are read; its text does not change during the load. *)
Reads(f, l) == imports[f] \in {<<>>, l} /\ imports' = [imports EXCEPT ![f] = l]

(* Mutant: a file counts as loaded from the moment its load starts. *)
DescendMarksDone ==
  /\ phase = "load" /\ AtImport
  /\ LET f == Resolve(Top.file, Here.path)
     IN  /\ f \in Files \ done /\ ~OnStack(f) /\ f \notin Broken
         /\ Len(stack) < MaxStack
         /\ stack' = Append(stack, Frame(Here.path, f))
         /\ done' = done \cup {f}
         /\ \E l \in ImportLists[f] : Reads(f, l)
  /\ UNCHANGED <<done_embedded, deps, phase, why, evaluator>>

(* load_module on a file not loaded yet: read and parse it, descend into it. *)
Descend ==
  /\ phase = "load" /\ AtImport
  /\ LET f == Resolve(Top.file, Here.path)
     IN  /\ f \in Files \ done /\ ~OnStack(f) /\ f \notin Broken
         /\ Len(stack) < MaxStack
         /\ stack' = Append(stack, Frame(Here.path, f))
         /\ \E l \in ImportLists[f] : Reads(f, l)
  /\ UNCHANGED <<done, done_embedded, deps, phase, why, evaluator>>

(* No file has the path the import names. *)
NotFound ==
  /\ phase = "load" /\ AtImport
  /\ Resolve(Top.file, Here.path) = Missing
  /\ Fail("missing")
  /\ UNCHANGED <<imports, loader, evaluator>>

(* load_module fails: the file is being loaded already, or it cannot be    *)
(* read or parsed.                                                         *)
LoadFails ==
  /\ phase = "load" /\ AtImport
  /\ LET f == Resolve(Top.file, Here.path)
     IN  /\ f \in Files \ done
         /\ \/ OnStack(f) /\ Fail("cycle")
            \/ ~OnStack(f) /\ f \in Broken /\ Fail("broken")
  /\ UNCHANGED <<imports, loader, evaluator>>

(* Mutant: the unit is prepended, as a reverse post-order would have it. *)
FinishPrepend ==
  /\ phase = "load" /\ ~AtImport
  /\ done' = done \cup {Top.file}
  /\ IF Len(stack) = 1
     THEN /\ phase' = "eval"
          /\ UNCHANGED <<stack, deps>>
     ELSE /\ stack' = Resolved(Front(stack), Top.file)
          /\ deps' = <<Top>> \o deps
          /\ UNCHANGED phase
  /\ UNCHANGED <<imports, done_embedded, why, evaluator>>

(* load_module returns: the file is done, its unit goes to `deps` and its  *)
(* importer records the import; or it was the root, and evaluation starts. *)
Finish ==
  /\ phase = "load" /\ ~AtImport
  /\ done' = done \cup {Top.file}
  /\ IF Len(stack) = 1
     THEN /\ phase' = "eval"
          /\ UNCHANGED <<stack, deps>>
     ELSE /\ stack' = Resolved(Front(stack), Top.file)
          /\ deps' = Append(deps, Top)
          /\ UNCHANGED phase
  /\ UNCHANGED <<imports, done_embedded, why, evaluator>>
-----------------------------------------------------------------------------
(* What an import of the path binds: the collected items, or the hosted    *)
(* namespace of that name.                                                 *)
Known(p) == p \in DOMAIN module_items \cup Hosted

Provider(p) == IF p \in DOMAIN module_items THEN module_items[p] ELSE p

(* Names bound by the star imports of unit u before its i-th import. *)
StarNames(u, i) ==
  UNION {ItemsOf[Provider(u.resolved[j].path)] :
           j \in {k \in 1..(i - 1) : u.resolved[k].kind = "star" /\ Known(u.resolved[k].path)}}

(* Mutant: a later star import silently rebinds a name. *)
ConflictNamespaceOnly(u, i) ==
  LET r == u.resolved[i]
  IN  /\ r.kind = "namespace"
      /\ \E j \in 1..(i - 1) : u.resolved[j].kind = "namespace" /\ u.resolved[j].path = r.path

(* E0031: a namespace bound twice, or a name two star imports share. *)
Conflict(u, i) ==
  LET r == u.resolved[i]
  IN  IF r.kind = "namespace"
      THEN \E j \in 1..(i - 1) : u.resolved[j].kind = "namespace" /\ u.resolved[j].path = r.path
      ELSE ItemsOf[Provider(r.path)] \cap StarNames(u, i) # {}

(* The first import of u that cannot be bound, 0 if all can. *)
FirstBad(u) ==
  LET bad == {i \in 1..Len(u.resolved) :
                ~Known(u.resolved[i].path) \/ Conflict(u, i)}
  IN  IF bad = {} THEN 0 ELSE CHOOSE i \in bad : \A j \in bad : i <= j

Bindings(u) ==
  {[importer |-> u.file, path |-> u.resolved[i].path, kind |-> u.resolved[i].kind,
    target |-> u.resolved[i].target, provider |-> Provider(u.resolved[i].path)] :
      i \in 1..Len(u.resolved)}

(* Mutant: the collected items are cleared for each module. *)
CollectClears(items, p, f) == [q \in {p} |-> f]

(* module_items.insert(unit.path.join("::"), items) *)
Collect(items, p, f) ==
  [q \in DOMAIN items \cup {p} |-> IF q = p THEN f ELSE items[q]]

(* eval_module: bind the imports of the next dependency (bind_imports),    *)
(* evaluate it, collect its items under its path.                          *)
EvalModule ==
  /\ phase = "eval" /\ evaluated < Len(deps)
  /\ LET u == deps[evaluated + 1]
     IN  /\ FirstBad(u) = 0
         /\ bound' = bound \cup Bindings(u)
         /\ module_items' = Collect(module_items, u.path, u.file)
  /\ evaluated' = evaluated + 1
  /\ UNCHANGED <<imports, loader, phase, why>>

(* eval_file: the root's imports are bound last. *)
EvalRoot ==
  /\ phase = "eval" /\ evaluated = Len(deps)
  /\ FirstBad(Top) = 0
  /\ bound' = bound \cup Bindings(Top)
  /\ phase' = "done"
  /\ UNCHANGED <<imports, loader, why, module_items, evaluated>>

(* bind_imports fails: R0008 for an unknown path, E0031 for a conflict. *)
BindFails ==
  /\ phase = "eval"
  /\ LET u == IF evaluated < Len(deps) THEN deps[evaluated + 1] ELSE Top
         i == FirstBad(u)
     IN  /\ i # 0
         /\ Fail(IF Known(u.resolved[i].path) THEN "conflict" ELSE "not loaded")
  /\ UNCHANGED <<imports, loader, evaluator>>

(* Nothing follows success or failure. *)
Ended == phase \in {"done", "failed"} /\ UNCHANGED vars

Next ==
  \/ ImportLoaded \/ ImportHosted \/ ImportEmbedded
  \/ Descend \/ NotFound \/ LoadFails \/ Finish
  \/ EvalModule \/ EvalRoot \/ BindFails
  \/ Ended

Spec == Init /\ [][Next]_vars

(* The loader is one thread that runs to its end. *)
FairSpec == Spec /\ WF_vars(Next)
-----------------------------------------------------------------------------
ResolvedImports == [path : Paths, kind : Kinds, target : Targets]

Units == [path : Paths \cup {NoPath}, file : Files \cup Embedded,
          resolved : Seq(ResolvedImports)]

(* Types of the loader's state. *)
TypeOK ==
  /\ imports \in [Files -> Seq(Imports)]
  /\ stack \in Seq(Units)
  /\ done \subseteq Files
  /\ done_embedded \subseteq Embedded
  /\ deps \in Seq(Units)
  /\ phase \in {"load", "eval", "done", "failed"}
  /\ why \in {"none", "missing", "cycle", "broken", "conflict", "not loaded"}
  /\ DOMAIN module_items \subseteq Paths
  /\ \A p \in DOMAIN module_items : module_items[p] \in Files \cup Embedded
  /\ evaluated \in 0..Len(deps)
  /\ \A b \in bound : b.target \in Targets /\ b.provider \in Targets

(* The import graph, and the files the root reaches in it: those in every  *)
(* set of files that holds the root and what its files import.             *)
Edge(f, g) == \E i \in 1..Len(imports[f]) : Resolve(f, imports[f][i].path) = g

Closed ==
  {S \in SUBSET Files : RootFile \in S /\ \A f \in S, h \in Files : Edge(f, h) => h \in S}

Reachable == LET closed == Closed IN {f \in Files : \A S \in closed : f \in S}

(* Some set of reachable files in which each one imports another. *)
Cyclic ==
  \E S \in SUBSET Reachable :
    S # {} /\ \A f \in S : \E g \in S : Edge(f, g)

Loaded == {deps[i].file : i \in 1..Len(deps)} \cap Files

(* A load that succeeds collected each file the root reaches, once, from   *)
(* an import graph without cycles or holes; a reported cycle is one.       *)
LoadIsExact ==
  /\ phase \in {"eval", "done"} =>
       /\ Loaded = Reachable \ {RootFile}
       /\ ~Cyclic
       /\ \A f \in Reachable : \A i \in 1..Len(imports[f]) :
            Resolve(f, imports[f][i].path) # Missing
  /\ why = "cycle" => Cyclic

(* A file is one unit, however many import it, and imported modules        *)
(* precede their importers, so that what a module binds has been evaluated.*)
DependencyOrder ==
  \A i \in 1..Len(deps) :
    /\ \A j \in 1..(i - 1) : deps[j].file # deps[i].file
    /\ \A k \in 1..Len(deps[i].resolved) :
         LET t == deps[i].resolved[k].target
         IN  t \in Hosted \/ \E j \in 1..(i - 1) : deps[j].file = t

(* The paths under which the program names its files are not ambiguous: a  *)
(* path names one file from everywhere, and a file has one path.           *)
Unambiguous ==
  LET used == UNION {{<<imports[f][i].path, Resolve(f, imports[f][i].path)>> :
                        i \in 1..Len(imports[f])} : f \in Reachable}
  IN  \A u, v \in used : u[1] = v[1] <=> u[2] = v[2]

(* In such a program an import binds the items of the file it resolves to, *)
(* and no loaded module is reported as not loaded.                         *)
BindsTheFileNamed ==
  (why = "not loaded" \/ \E b \in bound : b.provider # b.target) => ~Unambiguous

(* Two star imports that share a name never both succeed in one module.    *)
NoSilentRebinding ==
  \A a, b \in bound :
    a.importer = b.importer /\ a.kind = "star" /\ b.kind = "star" /\ a # b
      => ItemsOf[a.provider] \cap ItemsOf[b.provider] = {}

(* The walk ends on every program, cyclic ones included.                   *)
LoadEnds == <>(phase \in {"done", "failed"})

(* One file is one module body (SPECIFICATIONS 15.3), for every program:   *)
(* what is bound comes from the file the loader resolved the import to.    *)
ImportBindsItsFile == \A b \in bound : b.provider = b.target
=============================================================================
