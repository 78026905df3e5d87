----------------------------- MODULE HashConsing -----------------------------
(***************************************************************************)
(* What interning an expression promises its callers (ExprPool::intern):   *)
(* an append-only table in which a call finds its entry, or adds it, in    *)
(* one indivisible step between the call and the return.                   *)
(*                                                                         *)
(* Same is the test the pool answers hits by: equal content hash and equal *)
(* content (the derived PartialEq of ExprData).                            *)
(***************************************************************************)
EXTENDS Naturals, Sequences

CONSTANTS
  Threads,  \* callers: the evaluating thread and the tasks of parallel loops
  Data,     \* contents (ExprData)
  Hash,     \* content -> content hash
  Equal     \* pairs of contents that ExprData's PartialEq finds equal

VARIABLES
  table,    \* the entries, an id is a position
  phase,    \* thread -> "idle", "called" or "done"
  arg,      \* thread -> content being interned
  answer,   \* thread -> id the call will return
  returned  \* every <<content, id>> handed to a caller so far

vars == <<table, phase, arg, answer, returned>>

Same(d, e) == Hash[d] = Hash[e] /\ <<d, e>> \in Equal

Init ==
  /\ table = <<>>
  /\ phase = [t \in Threads |-> "idle"]
  /\ arg \in [Threads -> Data]
  /\ answer = [t \in Threads |-> 0]
  /\ returned = {}

Call(t, d) ==
  /\ phase[t] = "idle"
  /\ phase' = [phase EXCEPT ![t] = "called"]
  /\ arg' = [arg EXCEPT ![t] = d]
  /\ UNCHANGED <<table, answer, returned>>

(* The content is in the table: answer its id. *)
Hit(t, i) ==
  /\ phase[t] = "called"
  /\ Same(table[i], arg[t])
  /\ phase' = [phase EXCEPT ![t] = "done"]
  /\ answer' = [answer EXCEPT ![t] = i]
  /\ UNCHANGED <<table, arg, returned>>

(* Only a content the table does not hold is appended. *)
Add(t) ==
  /\ phase[t] = "called"
  /\ \A i \in 1..Len(table) : ~Same(table[i], arg[t])
  /\ phase' = [phase EXCEPT ![t] = "done"]
  /\ table' = Append(table, arg[t])
  /\ answer' = [answer EXCEPT ![t] = Len(table) + 1]
  /\ UNCHANGED <<arg, returned>>

Return(t) ==
  /\ phase[t] = "done"
  /\ phase' = [phase EXCEPT ![t] = "idle"]
  /\ returned' = returned \cup {<<arg[t], answer[t]>>}
  /\ UNCHANGED <<table, arg, answer>>

Next ==
  \E t \in Threads :
    \/ \E d \in Data : Call(t, d)
    \/ \E i \in 1..Len(table) : Hit(t, i)
    \/ Add(t)
    \/ Return(t)

Spec == Init /\ [][Next]_vars
=============================================================================
