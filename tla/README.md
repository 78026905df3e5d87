# A TLA+ model of the Prima interpreter

Prima is a mathematical scripting language.  A `.pra` program is parsed, its
imports are loaded, and an evaluator interprets it: numbers stay numbers,
anything else becomes a node of a process-wide symbolic expression pool.
Functions may move from the interpreter to a bytecode VM and to compiled code,
explicit parallel loops run on a thread pool, and `prima check` and `prima fmt`
read the same programs without running them.

This directory holds TLA+ modules that model the implementation, TLC
configurations that check them on small instances, and TLAPS proofs that hold
for every instance.  `PROJECT.json` lists the components, the runs, the mutants
that show what each property is sensitive to, the source lines each definition
models, the hazards and the theorems.

## 1. The system

| component | state | operations | hard behaviour |
|---|---|---|---|
| lexer, parser (`prima-syntax`) | tokens left, nesting count, struct-literal switch | one function per grammar rule | state that every rule must give back on every way out |
| expression pool (`prima-core/expr_pool.rs`) | `store`, `global` (hash to ids), `alloc` lock; one per process | `intern`, `get`, constructors that canonicalise | concurrent interning, three locks, hash collisions, contents equal to nothing (NaN) |
| canonical forms, simplifier, numbers (`prima-core`) | none kept | `add_n`, `mul_n`, `pow2`, `simplify`, `collapse_expr` | rules that apply to shapes other rules made, in any order |
| symbol table (`symbol.rs`) | name to id, one per process | get-or-insert | concurrent, the first display text wins |
| evaluator session (`eval/entry.rs`, `stmt.rs`) | policy stack `config`, `current_module`, `self_stack`, `self_values`, collected modules | entry points, dependency loads, calls, methods, `with config` | every body can end by an error, a `return` or a `?`; an evaluator is used again after a failure |
| classes and instances (`eval/class.rs`) | `class_defs` by name, `instances` | class statements, struct literals, fields, methods, associated functions | visibility decided from what happens to be on the stacks |
| module loader (`module.rs`, `entry.rs`) | `stack`, `done`, `deps`; `module_items` | `load_module`, `eval_module`, `bind_imports` | cycles, diamonds, relative paths, name conflicts |
| `parfor` (`eval/stmt.rs`) | snapshot, chunks, per-task writes | check, dispatch, iterate, merge | tasks on several threads, failures, cancellation |
| environments (`eval/env.rs`) | scope chain, `FUNC_EPOCH` | define, look up, assign existing | caches keyed by the epoch |
| calls (`eval/apply.rs`, `opt.rs`) | hot counters, chunk and callee caches | tier choice, fallback, tail calls | stale callees, effects before a fallback |
| bytecode compiler and VM (`vm/`) | slots, temporaries; frame, operand stack | `compile_*`, `run_vm` | registers reused too early, fused forms, bodies started again |
| registry of compiled callables (`jit.rs`) | map of bounded size, handles | `register`, `lookup`, `call` | eviction while other threads hold clones, environments of another thread |
| derivatives (`diff.rs`, `ad.rs`) | tape with a memo | `derivative`, `grad`, `limit` | shared subexpressions; a rule used where it does not apply |
| checker (`check/`) | scopes, signatures | passes over the tree | rules of its own for names and reachability, beside the interpreter's |
| formatter (`src/fmt/`) | the file | print, `--check`, `--write` | a precedence table of its own; it overwrites the program |
| C ABI (`capi.rs`) | per-thread program cache, cancellation flag | call, cancel, reset | several hosts share one flag |
| standard library (`prima-stdlib`), CLI (`src/`) | registries, generator state, REPL buffer | registration, functions, commands | shared generator state |

How they interact: the command line or a host enters an evaluator; the loader
parses units and gives them to it in dependency order; each is evaluated under
the policies on the stack and its items are collected under its path for the
importers after it.  A call tries native code, the VM and the interpreter in
that order; a limit of one starts the body again in the next.  Every symbolic
operation, on the evaluating thread or in a `parfor` task, builds canonical
nodes in the one pool and simplifies them.  A `parfor` runs one fresh evaluator
per chunk on rayon threads and joins them before the next statement; tasks may
call compiled callables from the process-wide registry, whose interpreted form
belongs to the evaluating thread.  The host may set the cancellation flag at
any moment.  `check` and `fmt` share the parser with the interpreter and
nothing else.  Nothing but source files is persisted and there is no network:
the failures that matter are errors in the middle of an operation, interleaved
threads, cancellation, and two parts of the program that read the same text by
rules of their own.

## 2. The modules

| module | models | checked by |
|---|---|---|
| `HashConsing` | what `intern` promises: an indivisible find-or-append | as a property of `ExprPool` |
| `ExprPool` | `intern`/`find` with the locks, one action per critical section | `MCExprPool`, `ExprPoolProofs` |
| `Session` | the evaluator's stacks through any sequence of bodies | `MCSession`, `SessionProofs` |
| `Access` | classes, instances and the visibility of their members | `MCAccess`, `AccessProofs` |
| `ModuleLoader` | the walk of the import graph, evaluation order, import binding | `MCModuleLoader`, `ModuleLoaderProofs` |
| `Parfor` | the parallel loop, from its checks to its merge | `MCParfor`, `ParforProofs` |
| `CallTiers` | calls through native code, VM, interpreter and trampoline, with their caches | `MCCallTiers`, `CallTiersProofs` |
| `Values` | values, and what operators and methods make of them | through `Vm` |
| `Script` | a `fn` body and what the interpreter makes of it | through `Vm` |
| `VmCompile` | the bytecode compiler | through `Vm` |
| `Machine` | one call on the virtual machine, and the fallback, for any chunk | `MCVm`, `MachineProofs` |
| `Vm` | the compiler's chunks on the machine, compared with `Script` | `MCVm` |
| `JitRegistry` | handles, eviction, calls by several threads | `MCJitRegistry`, `JitRegistryProofs` |
| `Syntax`, `Parser` | lexer, tree and grammar | `MCFmt`, `MCCheck` |
| `Printer`, `Fmt` | the printer; the `fmt` command over a file | `MCFmt` |
| `Checker`, `Collector` | the passes of `prima check` | `MCCheck` |
| `Runner`, `Check` | what running a program does with names and flow; the two commands over a file | `MCCheck` |
| `Field`, `Symbolic` | exact values; canonical forms, simplifier, value of an expression | `MCCalculus` |
| `Calculus` | symbolic derivatives, tape, dual numbers, limits | `MCCalculus` |

Composition: `Machine` takes the compiler and the interpreter as parameters
(`Compiled`, `Interpreted`), so that it can be reasoned about for any chunk; `Vm`
puts compiler, machine and interpreter side by side on one body; `Fmt` composes parser and printer; `Check` composes parser, checker and
the runner; `Calculus` composes the constructors, the simplifier and the three
derivatives.  `Vm` instantiates `Script` a second time with the loop formula
off: that is the meaning a body is compared with.

### ExprPool

`store` is the vector of contents and an id is a position of it; `global[h]` is
the bucket of hash `h`; `alloc` and `writer` hold the two locks and `Readers(s)`
the threads with a read guard on a shard of the concurrent map.  A thread goes
from `Call` through `OpenBucket` and one `Compare` per candidate (`find` takes
the store's read lock for each comparison and keeps the shard's guard over the
scan), then `Lock`, the scan again, `WriteLock`, `Push`, `Insert` and `Return`.
Contents are model values.  `Equal` is the derived `PartialEq`: symmetric and
transitive, but a NaN is not equal to itself, and 0.0 and -0.0 are equal with
different hashes; the instance has all of these, and three contents of one hash.
The abstract specification `HashConsing` has a call, an indivisible hit or
append, and a return; `RefinesHashConsing` maps `store` to its table and the
thread's position to called, done or idle.

### Session

`frames` is the native call stack.  A frame keeps what Rust's stack keeps (the
module to restore, the receiver) and two auxiliary fields no action reads to
choose what happens: the policy its body is meant to run under and the height
of the policy stack.  `flow` says how the top body is being left.  `Enter` is
any of the entry points (`file` for `eval_file*`, which forgets collected
modules, `memory` for `eval_program` and `eval_value*`), `LoadModule`/`LeaveLoad`
is `eval_module`, `BeginRoot`/`LeaveRoot` the entry module, `HostCall` a call
from the C ABI into a kept environment, and the other actions are calls,
methods, `with` blocks and interruptions.  `CallEnds` is where a `return` is
consumed and `catch_propagate` turns a `?` into a value.

`eval_module` pops the policy stack whether or not a block was pushed.  The
model keeps that; `PolicyNests` is true all the same, for all policies but `vm`,
because what an emptied stack answers (`DEFAULT_CONFIG`) differs from the
default in `vm` alone.

### Access

`frames` are the open bodies: the imports or the code of a module, functions,
methods, associated functions.  A frame knows the module its text is in and, for
a method, its class; `inner`, the receiver of the innermost open method, is
there for the properties only.  `Enter`, `Import`, `BeginCode` and `Leave` are
`eval_module` and the entry points, `Define` is a class statement
(`build_class_def` and `register_class`: by name, the last one wins, and an
import registers again), `Construct` a struct literal with its base, `ReadField`,
`CallMethod` and `CallAssociated` the uses of members, `MatchField` a pattern and
`VmCallMethod` the method dispatch of the VM.  A denied use and `Fail` unwind
everything that is open.  `access` is the last use of a member with what the
property needs of its surroundings.  An instance may reach any body, as arguments
and results can carry it.

### ModuleLoader

A file's import list is chosen when it is read, so a run covers every program
whose lists come from `ImportLists`.  `Descend` pushes a frame of `load_module`,
`Finish` pops it, marks the file done and appends its unit; `ImportLoaded`,
`ImportHosted` and `ImportEmbedded` are the imports that need no descent.  The
evaluation phase binds each unit's imports from `module_items`, which is keyed
by path, and collects its items.  Selective imports of a name behave as star
imports of that one name; aliases are left out.

### Parfor

A body is a sequence of steps with affine slots.  `Start` is the prologue up to
the dispatch, `Iterate` one index in one task, `Interrupted` and `TaskEnds` its
other ends, `Join` the merge on the evaluating thread, `Cancel` the host.
`Meaning` is an independent reading of the documentation: each slot takes the
last write to it in index order, all values read before the loop.  `ForLoop` is
the sequential loop over the same body.

### CallTiers

A function `f` calls a name `g`, which is a core builtin until the program
defines its own.  A body is a sequence of kinds of steps (printing, arithmetic,
arithmetic that overflows, something the VM's compiler or its executor refuses,
a call, a tail call).  `acts` is the stack of open calls with the tier each is
on.  `Apply` is `apply_function_inner`: native code if there is any and it does
not deoptimise (one step, it is pure), the VM if policy and compiler allow, or
the interpreter; at O2 a body in tail form goes to the trampoline at once.
`VmRefuses` and the refusing case of `VmCallCore` are the capability limits:
`Refused` starts the body again, a call by name from the VM through
`apply_function` (which tries the VM once more), an applied one on the
interpreter.  `VmCallCore`, `VmCallFn`, `AstCallCore`, `AstCallFn` and `CallMfn`
are calls of `g` by its kind and the caller's tier; `callee` is the call sites'
cache, `Define` and `OtherDefines` advance the epoch that validates it.

The abstract meaning of a call is what the interpreter alone would print and
answer in the state the call starts in (`meant`).  `SameAsInterpreter` compares
the two at the end of a call.  Five kinds of program tell the tiers apart, and
`Careful` excludes exactly those, each where the code departs: effects before a
VM limit; a function's name as an argument on the VM (`map(sq, A)` inside a
`fn` is an error there); `return derivative(..)` or `return map(..)` at O2,
where the trampoline applies the builtin to values and it refuses them; an MFn
compiled while its variable had another value; and native code of a `fn` calling
a `to_f64` that the program has redefined.  The properties `CacheIsLookup`,
`NothingLost` and `CallEnds` hold for those programs as well (`NothingLost`
excepts the last kind).

### Values, Script, VmCompile, Machine, Vm

`Script` has the statements and expressions of a `fn` body as records and the
interpreter as functions from a state (scopes, globals, flow) to the next,
with `for` by its loop or, when `LoopFormula` holds, by the closed form.
`VmCompile` is the compiler: a state with the code, the bindings of names to
slots, the temporaries to use again and a flag for refusals, and one operator
per `compile_*` function, including the fused branches, the loop idioms
(sums, copies, fills) and the register forms.  `Machine` runs a chunk one
instruction per step over `slots` and `stack`; `Limit` is a capability limit, after
which the body is interpreted from its beginning with whatever the chunk did to
the globals.  Interpreter and machine share the values and their operators
(`Values`), as they share `eval_binary` and its helpers in the code.

The machine trusts its chunks: an instruction that finds the operand stack empty
or names no slot goes on with `Nil` (`exec.rs:66`, `exec.rs:136`).  What it relies on
is stated of chunks.  `Fits`: slots and jump targets exist.  `Disciplined`: besides, every
position has one operand depth, the same on each path to it and zero where a
statement starts.  `Takes` and `Puts` say what each instruction does to the depth,
after the comments of `op.rs`.  That the machine then misses no operand and no slot
(`FindsItsOperands`) and hands nothing from one statement to the next
(`StackEmptyBetweenStatements`) is proved; that the compiler's chunks are of this
kind is checked body by body (`ChunksDisciplined`).  A unary plus is
compiled to a `Dup` and leaves an operand behind; `ChunksDisciplined` excludes it.

The compiler's comments promise that observable behaviour never changes.
`Departures` computes, from the body alone, the reasons for which it does: a
binding made in a block and used after it (`comp.rs:232`), a `for` whose bound or
step changes during the loop or whose variable is assigned (`comp.rs:560`),
operands evaluated in another order than they are changed in, a position that
is not one (`a[t]` with a tuple), an effect on an outer name before a limit, and
a sum the interpreter itself replaces by a formula that does not apply
(`stmt.rs:863`).  `SameAnswer` is about every other body, and `Departures` is
checked to be enough by that run.

### JitRegistry

`entries` is the map, `nextId` the counter, `calls[t]` what thread `t` has open
with the clone it holds.  `TakeId` and `Insert` are the two halves of `register`
(the counter is atomic, the map locked after it), `Lookup` and `Run` those of
`call`: the clone is made under the lock, the callable runs without it, `Return`
drops the clone.  `StartParfor`, `StartChunk`, `EndChunk`, `EndParfor` are the
loop around them.  `freed` and `missed` record where the last reference to a
callable went and which lookups found nothing.

### Syntax, Parser, Printer, Fmt

A text is a sequence of atoms (words, literals, operator characters, blanks,
doc lines, TeX symbols), a tree is a node with kind, labels and children.  `Syntax` is the
lexer's longest match and keyword recognition, f-strings with their nested
texts, the parser's state and its primitives (`Peek`, `Expect`, `Enter`,
`Leave`, ..).  `Parser` has one operator per parse function; they call each
other through `Rule`, by name.  `Printer` is the formatter's text for every
kind of node, parentheses re-inserted from its own binding powers.  `Fmt` is the
command: `Start` in one of three modes, `SyntaxErrors` or `Parsed`, then `Show`,
`Check` or `Write`, over one file, any number of times.  `WriteKeepsProgram`
says that the tree survives a `--write`, for every program without a node of the
shapes that `LosesParentheses` and `LosesATree` name one by one (`Kept`); one of the
shapes of `MayOutgrow` may be refused for the parser's budgets, and for nothing else.

### Checker, Collector, Runner, Check

`Checker` walks names and scopes (undefined names and functions, unused
bindings, `self`, duplicates), `Collector` the rest: inferred types and call
signatures, `?`, annotations, imports, policy keys, unreachable statements.  A
report is a set of codes with names.  `Runner` is what running the program does
with names, functions, classes, modules, `return`, `?` and `self`, with numbers
and everything else as symbolic values; it records which bindings were read
and which statements ran.  `Check` writes a file line by line, checks it and
runs it.

### Field, Symbolic, Calculus

An expression is the content of its node.  `Symbolic` has the constructors
(`add_n`, `mul_n`, `pow2` and what is built from them: flattening, folding of
numbers, ranks) and the simplifier's rules at levels 2
and 3.  The numeric value of an expression, a float in the code, is a residue
modulo a prime in `Field`: sums, products and quotients are exact, so equality
needs no tolerance, and the elementary functions are fixed functions of residues
with the identities the rules rely on.  `Calculus` has the operations of the
evaluator on symbolic values as actions and, as functions of the expression, the
symbolic derivative, the tape (built through its memo, run backward for all
variables), the dual numbers and L'Hôpital's loop.  `meant` is the value the same
operations give on numbers.

## 3. The runs

| run | states | what it shows |
|---|---|---|
| `expr_pool` | 51 thousand | one id per content, answers resolve, no deadlock, each call returns, refinement of a table that only grows |
| `session` | 271 thousand | policies nest, receiver stacks match, current module, entry-only policies |
| `access` | 54 thousand | private members inside methods of their class only, and always there; `pub(mod)` members open to their module while it is evaluated, closed to others while another is |
| `module_loader` | 58 thousand | exact load, order without duplicates, binding, conflicts, termination |
| `parfor` | 162 thousand | the meaning, all-or-nothing, exact count, equality with `for`, termination |
| `call_tiers` | 467 thousand | every tier and cache answers as the interpreter, callee caches are exact, nothing is lost, calls end |
| `vm` | 358 thousand | the compiler's chunks are what the machine relies on, no operand or slot is missing, statements leave the stack empty, what a fallback finds changed, the VM answers as the interpreter, calls end |
| `jit_registry` | 1.08 million | interpreted callables run on their own thread, a handle is lost by age only, who drops the last reference |
| `fmt` | 41 thousand | the parser gives back its nesting count and switch, a written file has the tree it had, unless it has one of the shapes named in `Kept` |
| `check` | 11 thousand | an accepted program does not stop for what the check rules out, unreachable code does not run, unused bindings are not read |
| `calculus` | 15 thousand | canonical forms and the simplifier keep the value; `grad`, tape and dual numbers agree |
| `access_at_home` | violation | a module's function is refused its own module's `pub(mod)` members after the load |

Bounds, and why they are enough:

* `MaxCalls` (pool): one call for each of three threads.  The pool's state after
  a call is a store and buckets that other threads' calls produce as well; a
  duplicate needs two threads, a wrong hit a third content in the bucket.
* `MaxFrames` (session): four open bodies: a load or root, a `with`, a method of
  an instance, and a method of a builtin class or another instance.  The stack
  operations touch only the top, and entries repeat without bound.
* `MaxFrames`, `MaxInstances` (access): a module's code, a method and what it
  calls; two instances, of the same or of different classes; three class
  statements, two of one name in two modules.  Entries repeat without bound, so
  everything a failed body leaves behind meets every later one.
* five files in two directories, lists of at most two imports (module loader):
  self-imports, cycles of two and three files, diamonds, a path that names two
  files, a file with two paths, missing and unparsable files, embedded and
  hosted modules.  `MaxStack` is never reached, since a file is on the stack at
  most once.
* two threads, arrays of five and three elements, integers to 7 (`parfor`): up to three
  chunks, empty and short ranges, downward, stepped and overflowing ones, bodies
  of one or two steps with clashing, neighbouring and out-of-bounds slots.
* eleven bodies of `f` and six of `g`, two values, two definitions, a threshold of
  two (`call_tiers`): each pair of steps whose order matters, each tier with its
  caches empty, filled and stale, a definition before, between and during calls.
  `MaxEpoch` is reached after a cached callee was invalidated and cached again;
  the hot counter stops at `Threshold`, beyond which nothing looks at it.
* two families of bodies (`vm`): every expression of two levels over two
  parameters and a literal in every statement that compiles into a slot, which
  uses up and frees temporaries in every order; every pair of some forty
  statements with three endings, with each statement form, fused form, idiom
  and fallback, called with small numbers.
* a registry of two entries, four registrations, two tasks, calls two deep
  (`jit_registry`): every registration after the second evicts while a task
  holds a clone, and a callable can register and call others.  The capacity of
  1024 in the code only makes the same states later.
* one expression of two operators under every kind of node, with every pair of
  operators, a program for each form of statement and one for each shape the
  printer changes (`fmt`): precedence and parentheses relate a node to its parent
  and to its operand's first and last token.  The one text that grows with every
  write is in `MCFmtFStrings` alone.
  `MaxRecursion` 12 and `MaxExprDepth` 20, 512 and 2000 in the code, are there to be met:
  texts within each and beyond each are among them.
* an import or definition, any line and a use (`check`): a property of the
  checker fails on a definition and a use of it, with one import or scope
  between.  `MaxCalls` 5 bounds recursion.
* two operations on one variable of the program with seven operands, two points
  (`calculus`): rules look at a node and its children.  `LHopitalMaxIter` is the
  code's.

Fairness.  `ExprPool` assumes weak fairness of each thread inside a call: the
scheduler runs every thread, and the code's locks are granted (the model gives
a lock when it is free, and no thread can be passed over for ever as each has
finitely many calls).  Starting a call is not assumed.  `ModuleLoader` is one
thread that goes on until it ends.  `Parfor` assumes that the evaluating thread
and the pool, taken together, do not stop; cancellation is not assumed.
`CallTiers` and `Vm` are one thread that goes on with a call it has begun;
definitions and new calls are not assumed.  The other modules state no liveness.

Further configurations are not runs; each ends in a violation that shows one
statement of a comment or document the code does not keep.  They are checked by
hand, `tlc -config <name>.cfg <module>`:

| configuration | module | statement | what it shows |
|---|---|---|---|
| `MCCalculusLimit` | `MCCalculus` | `LimitIsValue` | `limit(x, y, 0)` is 0 instead of `x` |
| `MCFmtParentheses` | `MCFmt` | `ParenthesesReinserted` | `--write` drops parentheses the tree needs |
| `MCFmtFStrings` | `MCFmt` | `FStringsIdempotent` | an f-string grows with each `--write` |

Others have no configuration of their own.  With the named one as the only property, the module's configuration ends in
a violation: `VmDefaultOn` and `SelfIsReceiver` (`MCSession`), `SameDataSameId` (`MCExprPool`), `PrintsOnce`
and `HotAnswersAgree` (`MCCallTiers`),
`PrivateStaysInClass` (`MCAccess`),
`DefinedIsNotReported` (`MCCheck`), `LastReferenceOnEvaluator`
(`MCJitRegistry`), `ImportBindsItsFile` (`MCModuleLoader`) and
`AcceptedCallsRun` (`MCParfor`).  In `MCVm`, `Functions <- AnswersDiffer` shows a
`let` of a block that is still visible to the compiler after it (`NeverChanged`) and
the formula for a sum from 1 that includes the end of the range
(`FormulaIsTheLoop`); `Functions <- ResetsItsVariable` a `for` that never ends on the
VM, as its body resets its variable (`CallEnds`).

## 4. The findings

One is a run:

* `access_at_home`: `pub(mod)` is decided by the module being loaded
  (`class.rs:456`), which for a call after the loads is the entry module.

The others, each with the configuration or the statement that shows it:

* VM: `compile_block` opens no scope (`NeverChanged`, `comp.rs:232`); `for` keeps its
  variable in a slot the body may assign, and evaluates its bound again
  (`ResetsItsVariable`, `comp.rs:560-561`); the fallback re-runs the whole body, also when the refused
  instruction comes after an effect (`PrintsOnce`).
* Interpreter: the closed form of a loop that sums its variable from 1 includes
  the end of the range, which the loop leaves out (`FormulaIsTheLoop`, `stmt.rs:863-864`); `self` prefers the
  instance stack over the value stack (`SelfIsReceiver`); `eval_module` pops a
  policy that was not pushed, and the default with `vm` on is replaced by
  `DEFAULT_CONFIG` with `vm` off (`VmDefaultOn`).
* Pool: `intern` promises one id per `ExprData`; the derived equality makes NaN an
  exception, so each NaN grows the pool (`SameDataSameId`).
* Modules: items are keyed by the path as written, files by canonical path
  (`ImportBindsItsFile`).
* Parallel loops: the purity check accepts calls of mathematical functions that
  the tasks' environments do not have (`AcceptedCallsRun`).
* Compiled code: an assignment to a variable that a compiled MFn reads does not
  invalidate its native code (`HotAnswersAgree`); the last `Arc` of a callable can
  go on a rayon thread when tasks register (`LastReferenceOnEvaluator`,
  `jit.rs:83-86`).
* Classes: the language's documents say that only the class's own methods can
  access a private member (`docs/SPECIFICATIONS-en_US.md:271`).  Method calls the VM
  dispatches (`vm/helpers.rs:148`), struct patterns (`pattern.rs:80`) and
  associated functions (`class.rs:35`) check nothing, and a function that a
  method calls may read the private fields of the method's class
  (`PrivateStaysInClass`).
* Formatter: the printer takes everything but an operator for an atom
  (`MCFmtParentheses`, `fmt/expr.rs:94`).  A lambda called in place or used as an
  operand, a call of a field's value, a struct literal before a postfix and a `match`
  at the beginning of a statement lose the parentheses they need.  When the expression
  of an interpolation ends with a brace, the blank that separates it from the closing
  brace is written after the format spec (`MCFmtFStrings`, `fmt/expr.rs:385`), and the
  lexer takes it for a part of the spec.  Besides, `--write` loses a TeX symbol's backslash (`\pi`
  becomes the name `pi`), the parentheses of a constructor pattern without arguments,
  the comma of a tuple of one element, the blank of a lambda without parameters (`||`
  is an operator), the return type of a mathematical definition, the place of
  annotations of methods, and comments; it writes a signature without a body in a
  form it cannot read.  `LosesParentheses` and `LosesATree` name these shapes.  What it
  writes can need more of the parser's budgets than what it read (`MayOutgrow`): a
  signed exponent is put in parentheses, `else if let` becomes a nested block.  The parser refuses `else if
  let` after `if let` and a field of a struct literal, and cuts an f-string at
  the `::` of a path.  The nesting budget is documented for every tree
  (`parser.rs:10-15`) and counted without postfix chains (`expr.rs:234-237`).
* Checker: names defined later are reported (`DefinedIsNotReported`, `names.rs:11-13`);
  `map(g, ..)` with an unknown `g` and `n::h(1)` without a module `n` are
  accepted; a value that a function defined above its `let` reads, a field by
  shorthand and a class's name are reported as unused; a comparison has the
  inferred type `Expr`; the output of a comprehension is checked before its
  clauses bind, and a match guard before its pattern does.  `RuledOut` and
  `DefinedFirst` name the cases the properties except.
* Symbolic layer: a product that repeats `\pi` or `\i` inside an angle is simplified as
  if it had one (`sin(\pi*\pi)` is 0), which `ValueKept` excepts; the documented
  rule for the power one half does not exist; `limit` differentiates numerator and
  denominator in every round that ends without two numbers (`MCCalculusLimit`,
  `diff.rs:167`), also when they do not both vanish, so that an expression in another
  symbol is differentiated until it is 0; `grad` orders by interning and
  compiled gradients by parameters.

## 5. The proofs

`ExprPoolProofs` is about `ExprPool` for any set of threads, any contents and
hash function, and any `Equal` that is symmetric and transitive.

* `TypeCorrect`: the types (`TypeOK`).
* `Invariance`: the inductive invariant `IInv`.  Uniqueness of entries is not
  inductive: a push keeps it only because the scan under the lock has looked at
  all entries of the hash, which needs that buckets list exactly the entries
  with their hash (`FiledInv`, `ListedInv`, up to the one entry the lock's
  holder is about to publish), that only the holder is past its second scan
  (`AllocInv`), that candidates before the cursor do not match (`ScanInv`), and
  so that a content about to be pushed is absent (`MissInv`).
* `NoDuplicateEntries` and `AnswersCanonical` follow, and
  `IdEqualityIsContentEquality`: where equality of contents is identity, ids are
  equal exactly when contents are, which is what lets the symbolic layer compare
  expressions in constant time.
* `StoreAppendOnly`: no step changes an entry.
* `Refinement`: every step of the pool is a step of `HashConsing` or changes
  nothing there.

`SessionProofs` is about `Session` for any policies, blocks, modules, receivers
and depth of calls, under the assumptions on the constants alone (blocks are
functions on known policies, the entry-only ones do not include `vm`, names are
distinct).

* `SessionTypes`: the types (`TypeOK`).
* `SessionInductive`: the inductive invariant.  A `with` block is left by
  popping, so what the top of the stack is says nothing about what the pop will
  uncover.  The strengthening is that every open frame has its policy at its
  own height of the stack (`PolicyInv`), that heights grow by one at a `with`
  and nowhere else above the first frame (`HeightInv`), that a frame above the
  first is never a load or a root (`KindInv`), and that under a load, whose end
  pops whether or not it pushed, there is nothing but a default (`BaseInv`).
* `SessionPolicies` (`PolicyNests`), `SessionModule` (`ModuleTracksLoad`) and
  `SessionEntryPolicies` (`EntryPolicyOnly`) follow.
* `SessionReceivers` (`SelfStacksMatchCalls`): an entry of a receiver stack belongs
  to the frame below which just that many methods of its kind are open
  (`MethodCount`, a cardinality); opening and leaving a frame change the count by one
  or not at all, and an error leaves frames one by one, so it pops what they pushed.

`AccessProofs` is about `Access` for any modules, class statements, members,
instances and depth of calls.

* `AccessTypes`: the types (`TypeOK`).
* `PrivateMembers` (`PrivateInsideMethods`), `OwnMembers` (`OwnMembersOpen`) and
  `ModuleMembers` (`ModuleMembersByModule`).  A use is judged by the top of
  `selfStack` and by `currentModule`, the properties speak of the bodies open.
  The inductive invariant ties them at every depth, since a return uncovers what
  was below: `StackInv` says that the stack has one receiver per open method and
  that each body's innermost receiver is the entry at the number of methods up
  to it (`Depth`, a cardinality, with lemmas on how it changes when a body is
  opened or left); `MethodInv` that a method's receiver is of the method's class,
  for which the registry must hold a class under its own name (`RegistryInv`);
  `ModuleInv` that the current module is the first body's, so that the module whose
  evaluation is under way decides about `pub(mod)` (`JudgedByLoad`), of which the
  property states the cases where that is the rule of the language's documents.  That an error pops
  exactly the receivers of the bodies it leaves (`UnwindAll`) is what makes the
  invariant hold for an evaluator that is used again after a failure.

`JitRegistryProofs` is about `JitRegistry` for any number of threads, capacity and
forms.

* `EvaluatorAlone` (`FallbackOnlyOnEvaluator`): the forms of a call on a task are
  chosen when the task is given its argument, so what has to be shown is that a
  rayon thread holds nothing outside a chunk and that a chunk runs only while the
  evaluating thread waits (`TaskInv`).
* `MissedAreOld` (`MissMeansExpired`): inserts may come in another order than the
  numbers were taken, so that the map is no window of the newest handles; a
  registered handle is in it or at least `Capacity` were taken after it (`AgeInv`).
* `LastReferences` (`LastReferenceUnlessTasksRegister`): the handles that tasks
  hold stay in the map as long as no task registers (`OwnerInv`).

`ModuleLoaderProofs` is about `ModuleLoader` for any files, paths, import lists
and resolution of paths.

* `LoaderTypes`: the types (`TypeOK`).
* `LoadExact` (`LoadIsExact`) and `PostOrder` (`DependencyOrder`).  The walk keeps
  its history in its stack and its units: the frames are a path of the import
  graph (`StackInv`), a frame or a unit has recorded what a prefix of its imports
  resolves to (`RecordInv`), the units hold every loaded file once, in an order in
  which each target comes before its importer (`DepsInv`), and nothing is loaded
  that the root does not reach (`ReachInv`).  The set of files reached is the
  least one that holds the root and is closed under imports, so that exactness
  is: the units of a walk that ended are closed.  A graph without cycles is one in
  which the units come in this order.
* `BindsByPath` (`BindsTheFileNamed`) and `NoRebinding` (`NoSilentRebinding`): the
  items under a path are those of the last unit loaded under it (`NameInv`,
  `CollectInv`), and every unit a module imports has been collected by then.

`CallTiersProofs` is about `CallTiers` for any bodies, values and threshold.

* `CallTypes`: the types (`TypeOK`).
* `CalleeCache` (`CacheIsLookup`): cached epochs are past or present ones, and a
  definition makes a new one.
* `TiersAgree` (`SameAsInterpreter`).  The property compares the end of a call with
  what the interpreter makes of the whole body at the call's start.  The
  invariant says what an open call must have printed and answered so far: the
  pieces of the steps before its position, put together (`SoFar`, by the
  lemmas on `Joined`), with two more shapes when f waits for a call of g and when it
  jumped to one.  Beside it stand in which tier each open call may be (`ActsInv`),
  that the caches hold code of bodies their tiers accept (`CodeInv`), and that
  the meaning taken down at the start has not changed (`MeantInv`): an MFn may be
  compiled on the way, with the variable's value, which keeps the call careful.
  A refused body starts again, and a careful one had printed nothing; native code
  answers at once, and what it answers is the pieces of all the steps.
* `FallingBackLosesNothing` (`NothingLost`) is about every call, careful or not.  A
  body that starts again after it printed has printed too much, so nothing equates
  `out` with the position any more; what holds is that each printer occurs in `out` at
  least as often as in what the open calls have done since they last started
  (`Printed`).  Starting again only lowers that number; an answer of g adds to f what g
  had done; native code runs for bodies without output.  Occurrences in a
  concatenation add up (`CountConcat`), so the pieces of `SoFar` can be counted.

`ParforProofs` is about `Parfor` for any arrays, bodies, ranges within the integers,
number of threads and schedule.

* `LoopTypes`: the types (`TypeOK`).
* `NothingHalfDone` (`AllOrNothing`): the bindings change in the last merge only.
* `ExactCount` (`CountIsExact`): the multiples of the step inside the range are the
  first ones, as many as the rounded quotient says (`InsideFacts`).
* `OrderOfTasksDoesNotShow` (`ResultIsMeaning`).  `Means(f, k, j)` says that every slot
  of the arrays `f` holds the last write of the steps before position `(k, j)` of the
  sequential order, or what it held.  A write moves it one step on (`MeansWrite`), an
  iteration's writes one iteration (`IterationFacts`).  Invariant for a task
  (`Task`): whatever arrays mean the loop up to the start of its chunk mean it up to
  the task's place once its writes are merged in, and those are the writes of the
  iterations it has done, none of which fails.  As chunks are consecutive and cover the
  indices (`ChunkFacts`, `ChunkCover`), the merge leads from the start of the loop to its
  end, where `Means` determines the arrays (`MeansEnd`).
* `LikeTheForLoop` (`IndependentIsSequential`): where no two steps touch one slot, a step
  of the sequential loop reads what the task read from the snapshot
  (`ForStepWrites`), so that `for` moves `Means` in the same way.

`MachineProofs` is about `Machine` for any functions, arguments and globals, any
compiler and any interpreter.

* `FrameFits` (`TypeOK`): the frame has the slots the chunk asks for, and `ip` stays in
  the code.
* `NoUnderflow` (`FindsItsOperands`) and `StackDiscipline` (`StackEmptyBetweenStatements`).
  Neither is inductive: what an instruction finds depends on how the machine came
  there.  The invariant is that the stack holds exactly `Depths(chunk, n)[ip]`
  operands.  An instruction keeps it by `Takes` and `Puts`, a jump because the depth
  at its target is the depth after it (`Balanced`); the loop around a body and the
  branches that meet again need nothing else.  TLC checked the invariant on the run's
  bodies first.
* `OnlyElementStores` (`RerunSeesElementStores`): a call starts over with what the chunk
  did to the globals, and that is at most elements of arrays that it stores into.
  The one instruction that writes a global keeps its name and its length
  (`Replaced`), so the interpreter meets arrays of the lengths they had.
* `FallbackIsInterpretation` (`RerunIsFirstRun`, an action property): if the chunk stores
  into no global, the interpretation after its giving up is the one that would have
  been made without the VM, answer and globals.  Those `Departures` excludes for
  `rerun` store into one.

The hypotheses on chunks, `Fits` and `Disciplined`, are stated in the properties.
They are not empty: `ChunksDisciplined` states that each chunk of the run meets them.

Induction over the naturals is used throughout, in the form that a non-empty set
of naturals has a least element (`LeastElement`).

Only model-checked: everything under fairness (`InternReturns`, `LoadEnds`,
`LoopEnds`, `CallEnds`).  The compiler, parser, printer, checker and
the symbolic layer are recursive operators on trees: what they compute for every
tree needs induction over data, which is outside the prover's reach, as liveness is;
so the properties of `Vm` (`ChunksDisciplined`, `SameAnswer`), `Fmt`
(`ParserBalanced`, `WriteKeepsProgram`), `Check` (`AcceptedNeverFails`,
`UnreachableNeverRuns`, `UnusedIsNeverRead`) and `Calculus` (`ValueKept`,
`DerivativesAgree`) stay with the runs.

## 6. Not modelled

* Functions that neither keep nor share state and are covered by the
  repository's tests, or are floating point: the numerical functions of the
  standard library, statistics and plots, the conversions of numbers, the
  `collapse` family with its precisions and undefined-handling policies, broadcasting,
  text output, the accent table.  The generator in `stats.rs` is shared by all
  threads and drawn in two steps; it is listed as a hazard.
* The JIT code generator and the C header and documentation generators: text or
  machine code from a tree.  What accepting, caching and leaving native code
  means for a call is `CallTiers`.
* The symbol table (one map under one lock), the C ABI's program cache and the
  registries filled at start-up.
* The command line apart from `fmt`, `check` and what `run` does: glue and
  input and output.

Within what is modelled, the following is left out.

* `Session` and `CallTiers`: arity errors, layered functions, recursion, programs
  compiled for the VM as a whole, the kind of number an answer is (native
  code answers floating point).
* `Access`: operator overloads, which call methods without a check as the VM
  does; methods of the builtin classes; what methods compute.
* `Values` and the machine: division, powers, strings, dictionaries, sets, slices, `to_f64`; calls
  inside a body are `CallTiers`'s.  Integers are unbounded: an instruction whose
  small integers overflow takes the general path.
* `Syntax`: line breaks, indentation, comments and positions, and so the places
  where a rule refuses a line break; edits of the file by others while a command
  runs.
* `Checker`: positions, help texts and severities.  `Runner` leaves out what has no
  bearing on names and flow.
* `Symbolic`: simplification levels 0 and 1, order by id among terms of one
  rank, floats and complex numbers.

## 7. Plan

1. `CapiCache`: cached programs and the shared cancellation flag; the symbol table
   beside the pool.
2. `CallTiers`, continued: early returns and recursion, layered functions, callees
   of a program compiled as a whole.  Operator overloads in `Access`.

The theorems worth most are those that a caller relies on without looking: that
a cached or compiled call is the call the source names, that loads are in
dependency order, and that a parallel loop does not depend on its schedule.
