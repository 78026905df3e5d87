-------------------------------- MODULE Check --------------------------------
(* A file that is written line by line; each text is checked (`prima check`)  *)
(* and run (`prima run`).  Neither command changes the file, so the order and  *)
(* the number of times do not matter; running does not ask the checker.        *)
EXTENDS Collector, Runner

CONSTANT MenuAt      \* the lines that may stand at each place of the file

VARIABLES file,      \* the text, line by line
          phase,     \* what was done with this text: "written", "checked", "ran"
          report,    \* what checking it found
          outcome    \* what running it did

vars == <<file, phase, report, outcome>>

Text == FlattenSeq(file)
Tree == Parse(Text).out
NoReport == [errors |-> {}, unused |-> {}, unreachable |-> {}]
NoOutcome == [err |-> "", read |-> {}, ran |-> {}]

\* A syntax error ends the check, and the run.
Checked(s) == IF Bad(s) THEN [NoReport EXCEPT !.errors = {<<s.err, "syntax">>}] ELSE CheckProgram(s.out)
Outcome(r) == [err |-> r.err, read |-> r.read, ran |-> ToSet(r.ran)]
Ran(s) == IF Bad(s) THEN [NoOutcome EXCEPT !.err = "syntax"] ELSE Outcome(RunProgram(s.out))

Init == file = <<>> /\ phase = "written" /\ report = NoReport /\ outcome = NoOutcome

WriteLine(l) ==
    /\ l \notin ToSet(file)
    /\ file' = Append(file, l)
    /\ phase' = "written"
    /\ report' = NoReport
    /\ outcome' = NoOutcome

CheckFile ==
    /\ phase = "written"
    /\ report' = Checked(Parse(Text))
    /\ phase' = "checked"
    /\ UNCHANGED <<file, outcome>>

RunFile ==
    /\ phase = "checked"
    /\ outcome' = Ran(Parse(Text))
    /\ phase' = "ran"
    /\ UNCHANGED <<file, report>>

\* The lines that may come next.
Menu(k) == IF k > Len(MenuAt) THEN {} ELSE MenuAt[k]
Next == (\E l \in Menu(Len(file) + 1) : WriteLine(l)) \/ CheckFile \/ RunFile

Spec == Init /\ [][Next]_vars

-----------------------------------------------------------------------------
\* The names a program binds to values, and those it calls.
RECURSIVE ValueNames(_), CalledNames(_)
ValueNames(n) ==
    UNION {ValueNames(c) : c \in ToSet(n.c)}
    \cup (CASE n.k = "Binding" -> {n.v[1]}
            [] n.k = "ClassDef" -> {n.v[1]}
            [] n.k \in {"Const", "Param", "For"} /\ n.c # <<>> -> {n.c[1].v[1]}
            [] OTHER -> {})
CalledNames(n) ==
    UNION {CalledNames(c) : c \in ToSet(n.c)}
    \cup (IF n.k = "Call" /\ n.c[1].k = "Path" /\ Len(n.c[1].v) = 1 THEN {n.c[1].v[1]} ELSE {})
CallsFunctions(p) ==
    UNION {CalledNames(n) : n \in ToSet(p)} \cap UNION {ValueNames(n) : n \in ToSet(p)} = {}
\* `self` stands in methods only; the checker asks no more than that it stands
\* in some function (names.rs:567).
RECURSIVE SelfIn(_)
SelfIn(n) == n.k = "Self" \/ \E c \in ToSet(n.c) : c.k # "ClassDef" /\ SelfIn(c)
SelfInMethods(p) == \A n \in ToSet(p) : n.k \in {"FnDef", "Pub"} => ~SelfIn(n)

\* What the checker exists to rule out before anything runs (spec 16.2): the
\* program does not stop because a name it calls is unknown, a `return` or a `?`
\* leaves the program, an import or m::item finds nothing, a policy or a builtin
\* is unknown, or `self` is nobody.
RuledOut(p) ==
    {"return outside", "propagated", "no module", "no item", "unknown policy", "E0055"}
    \cup (IF CallsFunctions(p) THEN {"unknown function"} ELSE {})
    \cup (IF SelfInMethods(p) THEN {"self outside"} ELSE {})

\* A file that passes the check does not fail in any of those ways when it runs.
AcceptedNeverFails ==
    phase = "ran" /\ report.errors = {} /\ outcome.err # "" => outcome.err \notin RuledOut(Tree)

\* What the checker calls unreachable is never executed (check/unreachable.rs).
UnreachableNeverRuns == report.unreachable \cap outcome.ran = {}

\* The names a node mentions, and those a statement of a program defines.
RECURSIVE Mentions(_)
Mentions(n) == (IF n.k = "Path" THEN {n.v[1]} ELSE {}) \cup UNION {Mentions(c) : c \in ToSet(n.c)}
Defines(n) == ItemNames(Item1(n))
DefinedFirst(p) ==
    \A i \in DOMAIN p : \A j \in i..Len(p) : Mentions(p[i]) \cap Defines(p[j]) = {}
\* A binding the checker calls unused is not read when the program runs, when
\* the program defines its names before the functions that use them (W0003).
UnusedIsNeverRead ==
    \/ report.unused \cap outcome.read = {}
    \/ ~DefinedFirst(Tree)

\* A name the program itself defines is not reported as undefined (names.rs:11-13,
\* "so defined-elsewhere symbols are not misreported as undefined").
DefinedIsNotReported ==
    LET undefined == {e[2] : e \in {e \in report.errors : e[1] = "E0040"}}
    IN undefined = {} \/ undefined \cap UNION {Defines(n) : n \in ToSet(Tree)} = {}
=============================================================================
