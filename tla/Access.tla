-------------------------------- MODULE Access --------------------------------
(***************************************************************************)
(* Classes, instances and who may touch their members (prima-runtime,      *)
(* eval/class.rs).  The evaluator keeps one registry of classes by name,   *)
(* one table of instances, the stack of receivers of the open methods and  *)
(* the name of the module being loaded; a member's visibility is decided   *)
(* from these when it is used.  Modules are evaluated one after the other, *)
(* then the entry module and what a host enters again; every body may call *)
(* functions, methods and associated functions, and end by an error, which *)
(* leaves everything open.  An instance may have reached any code as an    *)
(* argument or a result.                                                   *)
(***************************************************************************)
EXTENDS Integers, FiniteSets, Sequences, SequencesExt

CONSTANTS
  Modules,      \* the modules imported
  Root,         \* the entry module, whose name is empty
  Defs,         \* the class statements of the program
  Name,         \* def -> the name of the class
  Home,         \* def -> the module its statement is in
  Exported,     \* the definitions marked `pub`
  Fields,       \* def -> field -> visibility
  Methods,      \* def -> method with a receiver -> visibility
  Associated,   \* def -> the functions without a receiver -> visibility
  MaxFrames,    \* bound: open bodies
  MaxInstances  \* bound: instances

Homes == Modules \union {Root}
Names == {Name[d] : d \in Defs}
Visibilities == {"pub", "mod", "priv"}
Members == UNION {DOMAIN Fields[d] \union DOMAIN Methods[d] \union DOMAIN Associated[d] : d \in Defs}

ASSUME AccessAssumption ==
  /\ Root \notin Modules
  /\ DOMAIN Name = Defs /\ Home \in [Defs -> Homes] /\ Exported \subseteq Defs
  /\ \A d \in Defs : \A f \in DOMAIN Fields[d] : Fields[d][f] \in Visibilities
  /\ \A d \in Defs : \A m \in DOMAIN Methods[d] : Methods[d][m] \in Visibilities
  /\ MaxFrames \in Nat /\ MaxInstances \in Nat

(* A frame is a body under way: the imports or the code of a module, a     *)
(* function, a method or an associated function.  home is the module its   *)
(* text is in and class the class of a method.  inner says what the        *)
(* nesting of the bodies means, the receiver of the innermost method open  *)
(* or 0; no action reads it to choose what happens.                        *)
VARIABLES
  classDefs,      \* name -> the definitions registered last (at most one)
  items,          \* module -> what an import of it registers
  loaded,         \* the modules evaluated
  instances,      \* handle -> its class and its fields
  selfStack,      \* self_stack
  currentModule,  \* current_module
  frames,         \* the bodies under way
  access          \* the use of a member that the last step made (at most one)

vars == <<classDefs, items, loaded, instances, selfStack, currentModule, frames, access>>

Init ==
  /\ classDefs = [n \in Names |-> {}]
  /\ items = [m \in Homes |-> {}]
  /\ loaded = {}
  /\ instances = <<>>
  /\ selfStack = <<>>
  /\ currentModule = Root
  /\ frames = <<>>
  /\ access = {}

Top == frames[Len(frames)]

Running == frames # <<>> /\ Top.kind # "imports"

(***************************************************************************)
(* Entering and leaving bodies.                                            *)
(***************************************************************************)
Push(kind, home, class, inner) ==
  /\ Len(frames) < MaxFrames
  /\ frames' = Append(frames, [kind |-> kind, home |-> home, class |-> class,
                               inner |-> inner])

(* `eval_module`, which notes the module, and the entry points, which do   *)
(* not and may be used again.  One module is evaluated at a time, so what  *)
(* `eval_module` puts back is the name of the entry module.                *)
Enter(m) ==
  /\ frames = <<>>
  /\ m \notin loaded
  /\ currentModule' = IF m = Root THEN currentModule ELSE m
  /\ Push("imports", m, "", 0)
  /\ access' = {}
  /\ UNCHANGED <<classDefs, items, loaded, instances, selfStack>>

Registered(defs, entries) ==
  [n \in Names |-> IF \E e \in entries : Name[e.def] = n
                   THEN {e \in entries : Name[e.def] = n} ELSE defs[n]]

(* `bind_imports`: the classes imported are registered again, all those of *)
(* a module imported as a namespace, those named by `from .. import`.      *)
Import(m) ==
  /\ frames # <<>> /\ Top.kind = "imports"
  /\ m \in loaded
  /\ \E chosen \in SUBSET items[m] : classDefs' = Registered(classDefs, chosen)
  /\ access' = {}
  /\ UNCHANGED <<items, loaded, instances, selfStack, currentModule, frames>>

BeginCode ==
  /\ frames # <<>> /\ Top.kind = "imports"
  /\ frames' = [frames EXCEPT ![Len(frames)].kind = "body"]
  /\ access' = {}
  /\ UNCHANGED <<classDefs, items, loaded, instances, selfStack, currentModule>>

(* A function of a module that has been evaluated, or is being. *)
CallFunction(h) ==
  /\ Running
  /\ h \in loaded \union {frames[1].home}
  /\ Push("fn", h, "", Top.inner)
  /\ access' = {}
  /\ UNCHANGED <<classDefs, items, loaded, instances, selfStack, currentModule>>

PopSelf == IF Top.kind = "method" THEN Front(selfStack) ELSE selfStack

Return ==
  /\ Running /\ Len(frames) > 1
  /\ frames' = Front(frames)
  /\ selfStack' = PopSelf
  /\ access' = {}
  /\ UNCHANGED <<classDefs, items, loaded, instances, currentModule>>

PutBack == IF frames[1].home = Root THEN currentModule ELSE Root

Leave ==
  /\ Running /\ Len(frames) = 1
  /\ frames' = <<>>
  /\ loaded' = loaded \union ({Top.home} \ {Root})
  /\ currentModule' = PutBack
  /\ access' = {}
  /\ UNCHANGED <<classDefs, items, instances, selfStack>>

OpenMethods == Cardinality({i \in DOMAIN frames : frames[i].kind = "method"})

(* What a failing module has collected is dropped. *)
Dropped == [items EXCEPT ![frames[1].home] = {}]

(* Methods that leave by `?` before they pop. *)
UnwindKeepingSelf ==
  /\ frames' = <<>>
  /\ currentModule' = PutBack
  /\ items' = Dropped
  /\ UNCHANGED <<classDefs, loaded, instances, selfStack>>

(* A module that leaves by `?` before the name is put back. *)
UnwindKeepingModule ==
  /\ frames' = <<>>
  /\ selfStack' = SubSeq(selfStack, 1, Len(selfStack) - OpenMethods)
  /\ items' = Dropped
  /\ UNCHANGED <<classDefs, loaded, instances, currentModule>>

(* An error leaves every body: each open method pops its receiver on the   *)
(* way, as `call_method_inner` keeps the result until it has, and          *)
(* `eval_module` puts the module back.                                     *)
Unwind ==
  /\ frames' = <<>>
  /\ selfStack' = SubSeq(selfStack, 1, Len(selfStack) - OpenMethods)
  /\ currentModule' = PutBack
  /\ items' = Dropped
  /\ UNCHANGED <<classDefs, loaded, instances>>

Fail == frames # <<>> /\ Unwind /\ access' = {}

(***************************************************************************)
(* Class statements and struct literals.                                   *)
(***************************************************************************)
(* `build_class_def` notes the module of the moment; a later definition    *)
(* with the same name wins.  `collect_pub` keeps what is `pub` at the top  *)
(* level of a module.                                                      *)
Define(d) ==
  /\ Running /\ Top.home = Home[d]
  /\ LET entry == [def |-> d, module |-> currentModule]
     IN /\ classDefs' = [classDefs EXCEPT ![Name[d]] = {entry}]
        /\ items' = IF Top.kind = "body" /\ d \in Exported
                    THEN [items EXCEPT ![Top.home] =
                            {e \in @ : Name[e.def] # Name[d]} \union {entry}]
                    ELSE items
  /\ access' = {}
  /\ UNCHANGED <<loaded, instances, selfStack, currentModule, frames>>

(* `..base` must be an instance of the class the literal names. *)
BaseFits(b, n) == b = 0 \/ (b \in DOMAIN instances /\ instances[b].class = n)

(* `T { fields, ..base }`: no field unknown (E0060), none missing (E0061). *)
Construct(n, given, b) ==
  /\ Running /\ Len(instances) < MaxInstances
  /\ BaseFits(b, n)
  /\ \E e \in classDefs[n] :
       LET fields == given \union (IF b = 0 THEN {} ELSE instances[b].fields)
       IN /\ given \subseteq DOMAIN Fields[e.def]
          /\ DOMAIN Fields[e.def] \subseteq fields
          /\ instances' = Append(instances, [class |-> n, fields |-> fields])
  /\ access' = {}
  /\ UNCHANGED <<classDefs, items, loaded, selfStack, currentModule, frames>>

(***************************************************************************)
(* Uses of members.                                                        *)
(***************************************************************************)
InMethodOfOutermost(n) == selfStack # <<>> /\ instances[Head(selfStack)].class = n

(* `in_method_of`: the receiver on top of the stack is of the class named. *)
InMethodOf(n) == selfStack # <<>> /\ instances[Last(selfStack)].class = n

Accessible(e, vis) ==
  \/ vis = "pub"
  \/ vis = "mod" /\ currentModule = e.module
  \/ vis = "priv" /\ InMethodOf(Name[e.def])

Use(way, e, vis, ok) ==
  access' = {[way |-> way, vis |-> vis, class |-> Name[e.def], module |-> e.module,
              by |-> Top, load |-> frames[1].home, ok |-> ok]}

Denied(way, e, vis) ==
  /\ ~ Accessible(e, vis)
  /\ Use(way, e, vis, FALSE)
  /\ Unwind

(* The instance's class is looked up by name. *)
DefOf(id) == classDefs[instances[id].class]

(* `eval_field`: `x.f`. *)
ReadField(id, f) ==
  /\ Running /\ id \in DOMAIN instances
  /\ \E e \in DefOf(id) :
       /\ f \in DOMAIN Fields[e.def]
       /\ \/ Denied("field", e, Fields[e.def][f])
          \/ /\ Accessible(e, Fields[e.def][f])
             /\ f \in instances[id].fields
             /\ Use("field", e, Fields[e.def][f], TRUE)
             /\ UNCHANGED <<classDefs, items, loaded, instances, selfStack, currentModule, frames>>

(* A pattern `T { f }` takes the field whatever its visibility. *)
MatchField(id, f) ==
  /\ Running /\ id \in DOMAIN instances
  /\ f \in instances[id].fields
  /\ \E e \in DefOf(id) : f \in DOMAIN Fields[e.def] /\ Use("pattern", e, Fields[e.def][f], TRUE)
  /\ UNCHANGED <<classDefs, items, loaded, instances, selfStack, currentModule, frames>>

OpenMethod(id, e) ==
  /\ Push("method", Home[e.def], Name[e.def], id)
  /\ selfStack' = Append(selfStack, id)
  /\ UNCHANGED <<classDefs, items, loaded, instances, currentModule>>

(* `eval_method_call`: `x.m(..)`. *)
CallMethod(id, m) ==
  /\ Running /\ id \in DOMAIN instances
  /\ \E e \in DefOf(id) :
       /\ m \in DOMAIN Methods[e.def]
       /\ \/ Denied("method", e, Methods[e.def][m])
          \/ /\ Accessible(e, Methods[e.def][m])
             /\ Use("method", e, Methods[e.def][m], TRUE)
             /\ OpenMethod(id, e)

(* `vm_method_value`: the same call in a function the VM runs. *)
VmCallMethod(id, m) ==
  /\ Running /\ Top.kind = "fn" /\ id \in DOMAIN instances
  /\ \E e \in DefOf(id) :
       /\ m \in DOMAIN Methods[e.def]
       /\ Use("vm", e, Methods[e.def][m], TRUE)
       /\ OpenMethod(id, e)

(* `call_associated`: `T::m(..)`, whatever its visibility. *)
CallAssociated(n, m) ==
  /\ Running
  /\ \E e \in classDefs[n] :
       /\ m \in DOMAIN Associated[e.def]
       /\ Use("associated", e, Associated[e.def][m], TRUE)
       /\ Push("associated", Home[e.def], n, Top.inner)
  /\ UNCHANGED <<classDefs, items, loaded, instances, selfStack, currentModule>>

Handles == 1..MaxInstances

Next ==
  \/ \E m \in Homes : Enter(m) \/ Import(m) \/ CallFunction(m)
  \/ BeginCode \/ Return \/ Leave \/ Fail
  \/ \E d \in Defs : Define(d)
  \/ \E n \in Names, given \in SUBSET Members, b \in {0} \union Handles : Construct(n, given, b)
  \/ \E id \in Handles, f \in Members :
       \/ ReadField(id, f)
       \/ MatchField(id, f)
       \/ CallMethod(id, f)
       \/ VmCallMethod(id, f)
  \/ \E n \in Names, m \in Members : CallAssociated(n, m)

Spec == Init /\ [][Next]_vars

-----------------------------------------------------------------------------
Entries == [def : Defs, module : Homes]
Kinds == {"imports", "body", "fn", "method", "associated"}
Frame == [kind : Kinds, home : Homes, class : Names \union {""}, inner : Nat]
Ways == {"field", "method", "vm", "pattern", "associated"}

TypeOK ==
  /\ classDefs \in [Names -> SUBSET Entries]
  /\ items \in [Homes -> SUBSET Entries]
  /\ loaded \subseteq Modules
  /\ instances \in Seq([class : Names, fields : SUBSET Members])
  /\ selfStack \in Seq(DOMAIN instances)
  /\ currentModule \in Homes
  /\ frames \in Seq(Frame)

Checked(a) == a.way \in {"field", "method"}

(* A private member is used only while a method of an instance of its      *)
(* class is open, the innermost of all methods open, however the bodies    *)
(* before ended: a receiver an error left on the stack would open the      *)
(* members of its class to everybody (class.rs, `in_method_of`).           *)
PrivateInsideMethods ==
  \A a \in access :
    Checked(a) /\ a.vis = "priv" /\ a.ok =>
      a.by.inner \in DOMAIN instances /\ instances[a.by.inner].class = a.class

(* And the other way: the code of a method is never refused a private      *)
(* member of its own class, through whatever calls it was reached.         *)
OwnMembersOpen ==
  \A a \in access :
    a.vis = "priv" /\ ~ a.ok => ~ (a.by.kind = "method" /\ a.by.class = a.class)

(* A `pub(mod)` member is open to code of the module that defined its      *)
(* class while that module is evaluated, and closed to code of other       *)
(* modules while another is: a load that failed leaves no module behind    *)
(* that would open its members (class.rs, `field_accessible`; entry.rs,    *)
(* `eval_module`).  Which of the two decides when they differ is not said  *)
(* here; see ModuleMembersOpenAtHome.                                      *)
ModuleMembersByModule ==
  \A a \in access :
    Checked(a) /\ a.vis = "mod" =>
      /\ a.by.home = a.module /\ a.load = a.module => a.ok
      /\ a.by.home # a.module /\ a.load # a.module => ~ a.ok

(* What the language says of private members: "only the class's own        *)
(* methods can access" (docs, classes).                                    *)
PrivateStaysInClass ==
  \A a \in access :
    a.vis = "priv" /\ a.ok => a.by.kind \in {"method", "associated"} /\ a.by.class = a.class

(* And of `pub(mod)` members: "visible to all items within this module,    *)
(* invisible outside" (docs, classes), "readable only inside the defining  *)
(* module" (class.rs:452).  The code asks which module is being loaded: a  *)
(* function of the module called after its load is refused.                *)
ModuleMembersOpenAtHome ==
  \A a \in access : a.vis = "mod" /\ a.by.home = a.module => a.ok
=============================================================================
