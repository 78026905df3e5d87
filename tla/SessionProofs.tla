----------------------------- MODULE SessionProofs -----------------------------
(***************************************************************************)
(* Proofs about Session: its types, that policies nest (PolicyNests), that *)
(* the current module is the one being loaded (ModuleTracksLoad), that     *)
(* entry-only policies stay with the entry module (EntryPolicyOnly), and   *)
(* that the receiver stacks list the open methods (SelfStacksMatchCalls).  *)
(*                                                                         *)
(* The first is not inductive: a `with` block is left by popping, so one   *)
(* has to know what is under the top of the stack.  The strengthening is   *)
(* that every open frame, not only the top one, has its policy at its      *)
(* height of the stack, and that heights grow by one at `with` and nowhere *)
(* else above the first frame.  The last is a matter of counting: the k-th *)
(* entry of a stack belongs to the frame below which k - 1 methods of its  *)
(* kind are open.                                                          *)
(***************************************************************************)
EXTENDS Session, SequenceTheorems, FiniteSetTheorems, TLAPS

FrameType == [kind : Kinds, policy : Configs, prev : Modules \cup {Root},
              rcv : Instances \cup Builtins \cup {Nobody}, height : Nat]

(* The policy at height h of the stack, height 0 being DEFAULT_CONFIG. *)
Height(stack, h) == IF h = 0 THEN Bottom ELSE stack[h]

PhaseInv ==
  /\ phase = "body" <=> frames # <<>>
  /\ phase # "body" => flow = "run"

KindInv ==
  \A i \in 1..Len(frames) :
    IF i = 1 THEN frames[i].kind \in {"load", "root", "func"}
             ELSE frames[i].kind \in {"func", "method", "with"}

HeightInv ==
  /\ frames # <<>> => Top.height = Len(config)
  /\ \A i, j \in 1..Len(frames) : i <= j => frames[i].height <= frames[j].height
  /\ \A i \in 2..Len(frames) :
       frames[i].height = IF frames[i].kind = "with" THEN frames[i - 1].height + 1
                          ELSE frames[i - 1].height

PolicyInv ==
  \A i \in 1..Len(frames) : SameButVm(Height(config, frames[i].height), frames[i].policy)

(* Between frames, and under the first one, there is nothing but defaults. *)
BaseInv ==
  /\ frames = <<>> => Len(config) <= 1 /\ SameButVm(Current(config), Default)
  /\ frames # <<>> /\ frames[1].kind = "func" =>
       frames[1].height <= 1 /\ SameButVm(frames[1].policy, Default)
  /\ frames # <<>> /\ frames[1].kind = "load" =>
       /\ frames[1].height <= 2
       /\ frames[1].height = 2 => SameButVm(config[1], Default)

PollutingInv ==
  \A i \in 1..Len(frames) :
    frames[1].kind = "load" /\ (\A j \in 2..i : frames[j].kind # "with")
      => \A k \in Polluting : frames[i].policy[k] = Default[k]

ModuleInv ==
  /\ ModuleTracksLoad
  /\ frames # <<>> => frames[1].prev = Root

Inv == PhaseInv /\ KindInv /\ HeightInv /\ PolicyInv /\ BaseInv /\ PollutingInv /\ ModuleInv

IInv == TypeOK /\ Inv
-----------------------------------------------------------------------------
(* Config::apply gives a policy again. *)
LEMMA OverlayType ==
  ASSUME NEW c \in Configs, NEW b \in Blocks
  PROVE  Overlay(c, b) \in Configs
BY KeysAssumption DEF Overlay, Configs

(* DEFAULT_CONFIG differs from the default in vm alone. *)
LEMMA BottomType == Bottom \in Configs /\ Default \in Configs /\ SameButVm(Bottom, Default)
BY KeysAssumption DEF Bottom, Configs, SameButVm

(* current_config answers a policy, the one at the top. *)
LEMMA CurrentType ==
  ASSUME NEW s \in Seq(Configs)
  PROVE  /\ Current(s) \in Configs
         /\ Current(s) = Height(s, Len(s))
BY BottomType DEF Current, Height

(* What Vec::pop leaves of a stack. *)
LEMMA PopFacts ==
  ASSUME NEW S, NEW s \in Seq(S)
  PROVE  /\ Pop(s) \in Seq(S)
         /\ s # <<>> => Len(Pop(s)) = Len(s) - 1
         /\ s = <<>> => Pop(s) = <<>>
         /\ \A i \in 1..(Len(s) - 1) : Pop(s)[i] = s[i]
<1>1. CASE s = <<>>
  <2>1. Len(s) = 0
    BY <1>1, EmptySeq
  <2> QED BY <1>1, <2>1 DEF Pop
<1>2. CASE s # <<>>
  <2> DEFINE n == Len(s) - 1
  <2>1. Len(s) \in Nat \ {0} /\ n \in Int
    BY <1>2, EmptySeq
  <2>2. \A i \in 1..n : s[i] \in S
    BY <2>1, ElementOfSeq
  <2>3. Pop(s) = SubSeq(s, 1, n)
    BY <1>2 DEF Pop
  <2> HIDE DEF n
  <2>4. /\ SubSeq(s, 1, n) \in Seq(S)
        /\ Len(SubSeq(s, 1, n)) = IF 1 <= n THEN n - 1 + 1 ELSE 0
        /\ \A i \in 1..(n - 1 + 1) : SubSeq(s, 1, n)[i] = s[1 + i - 1]
    BY <2>1, <2>2, SubSeqProperties
  <2>5. n = Len(s) - 1
    BY DEF n
  <2> QED BY <1>2, <2>1, <2>3, <2>4, <2>5
<1> QED BY <1>1, <1>2

(* The call stack and its top. *)
LEMMA FrameFacts ==
  ASSUME TypeOK
  PROVE  /\ frames \in Seq(FrameType) /\ Len(frames) \in Nat
         /\ config \in Seq(Configs) /\ Len(config) \in Nat
         /\ \A i \in 1..Len(frames) : frames[i] \in FrameType
         /\ frames = <<>> <=> Len(frames) = 0
         /\ frames # <<>> => Len(frames) >= 1 /\ Top = frames[Len(frames)] /\ Top \in FrameType
<1>1. frames \in Seq(FrameType) /\ config \in Seq(Configs)
  BY DEF TypeOK, FrameType
<1>2. /\ Len(frames) \in Nat /\ Len(config) \in Nat
      /\ \A i \in 1..Len(frames) : frames[i] \in FrameType
  BY <1>1, LenProperties, ElementOfSeq
<1>3. frames = <<>> <=> Len(frames) = 0
  BY <1>1, <1>2, EmptySeq
<1>4. ASSUME frames # <<>> PROVE Len(frames) >= 1 /\ Top = frames[Len(frames)] /\ Top \in FrameType
  BY <1>2, <1>3, <1>4 DEF Top
<1> QED BY <1>1, <1>2, <1>3, <1>4

(* Setting the same keys keeps two policies equal but for vm. *)
LEMMA OverlaySame ==
  ASSUME NEW c \in Configs, NEW d \in Configs, NEW b \in Blocks, SameButVm(c, d)
  PROVE  SameButVm(Overlay(c, b), Overlay(d, b))
BY DEF SameButVm, Overlay

(* Agreeing but for vm is transitive. *)
LEMMA SameTransitive ==
  ASSUME NEW c, NEW d, NEW e, SameButVm(c, d), SameButVm(d, e)
  PROVE  SameButVm(c, e)
BY DEF SameButVm

(* The policy of a new frame and the one of the caller. *)
LEMMA MeantFacts ==
  ASSUME TypeOK, NEW b \in Blocks \cup {NoBlock}
  PROVE  /\ Meant(b) \in Configs
         /\ b = NoBlock => Meant(b) = IF frames = <<>> THEN Default ELSE Top.policy
         /\ b # NoBlock =>
              Meant(b) = Overlay(IF frames = <<>> THEN Default ELSE Top.policy, b)
<1>1. (IF frames = <<>> THEN Default ELSE Top.policy) \in Configs
  BY BottomType, FrameFacts DEF FrameType
<1> QED BY <1>1, OverlayType DEF Meant, Top

(* Opening a frame above another keeps the invariant. *)
LEMMA OpenInner ==
  ASSUME IInv, TypeOK', frames # <<>>, phase' = phase, flow' = flow,
         current_module' = current_module,
         NEW f \in FrameType, f.kind \in {"func", "method", "with"},
         frames' = Append(frames, f), f.height = Len(config'),
         \/ f.kind # "with" /\ config' = config /\ f.policy = Top.policy
         \/ /\ f.kind = "with"
            /\ \E c \in Configs : config' = Append(config, c) /\ SameButVm(c, f.policy)
  PROVE  Inv'
<1> USE DEF IInv
<1> DEFINE n == Len(frames)
<1>1. /\ n \in Nat /\ n > 0 /\ Len(frames') = n + 1 /\ frames' # <<>>
      /\ frames'[n + 1] = f
      /\ \A i \in 1..n : frames'[i] = frames[i]
      /\ Top = frames[n]
  BY FrameFacts, AppendProperties
<1>2. /\ Len(config) \in Nat
      /\ \A i \in 1..Len(config) : config'[i] = config[i]
      /\ Len(config') = IF f.kind = "with" THEN Len(config) + 1 ELSE Len(config)
  <2>1. CASE f.kind # "with"
    BY <2>1, FrameFacts
  <2>2. CASE f.kind = "with"
    <3>1. PICK c \in Configs : config' = Append(config, c)
      BY <2>2
    <3> QED BY <2>2, <3>1, FrameFacts, AppendProperties
  <2> QED BY <2>1, <2>2
<1>10. \A i \in 1..n : frames[i].height \in 0..Len(config)
  <2>1. frames[n].height = Len(config) /\ \A i \in 1..n : frames[i].height <= frames[n].height
    BY <1>1, FrameFacts DEF Inv, HeightInv
  <2>2. \A i \in 1..n : frames[i].height \in Nat
    BY FrameFacts DEF FrameType
  <2> QED BY <1>2, <2>1, <2>2
<1>3. PhaseInv'
  BY <1>1 DEF Inv, PhaseInv
<1>4. KindInv'
  BY <1>1 DEF Inv, KindInv
<1>5. HeightInv'
  <2>1. Top' = f /\ f.height = Len(config')
    BY <1>1 DEF Top
  <2>2. ASSUME NEW i \in 1..Len(frames'), NEW j \in 1..Len(frames'), i <= j
        PROVE  frames'[i].height <= frames'[j].height
    <3>1. CASE j = n + 1
      BY <1>1, <1>2, <1>10, <2>1, <2>2, <3>1
    <3>2. CASE j # n + 1
      BY <1>1, <2>2, <3>2 DEF Inv, HeightInv
    <3> QED BY <3>1, <3>2
  <2>3. ASSUME NEW i \in 2..Len(frames')
        PROVE  frames'[i].height = IF frames'[i].kind = "with" THEN frames'[i - 1].height + 1
                                   ELSE frames'[i - 1].height
    <3>1. CASE i = n + 1
      BY <1>1, <1>2, <2>1, <3>1 DEF Inv, HeightInv
    <3>2. CASE i # n + 1
      BY <1>1, <3>2 DEF Inv, HeightInv
    <3> QED BY <3>1, <3>2
  <2> QED BY <2>1, <2>2, <2>3 DEF HeightInv
<1>6. PolicyInv'
  <2> SUFFICES ASSUME NEW i \in 1..Len(frames')
               PROVE  SameButVm(Height(config', frames'[i].height), frames'[i].policy)
    BY DEF PolicyInv
  <2>1. CASE i \in 1..n
    <3>1. frames'[i] = frames[i] /\ frames[i].height \in 0..Len(config)
      BY <1>1, <1>10, <2>1
    <3>2. Height(config', frames[i].height) = Height(config, frames[i].height)
      BY <1>2, <3>1 DEF Height
    <3> QED BY <2>1, <3>1, <3>2 DEF Inv, PolicyInv
  <2>2. CASE i = n + 1 /\ f.kind # "with"
    <3>1. f.height = frames[n].height /\ config' = config
      BY <1>1, <2>2 DEF Inv, HeightInv
    <3>2. SameButVm(Height(config, frames[n].height), frames[n].policy)
      BY <1>1 DEF Inv, PolicyInv
    <3> QED BY <1>1, <2>2, <3>1, <3>2
  <2>3. CASE i = n + 1 /\ f.kind = "with"
    <3>1. PICK c \in Configs : config' = Append(config, c) /\ SameButVm(c, f.policy)
      BY <2>3
    <3>2. f.height = Len(config) + 1 /\ config'[Len(config) + 1] = c
      BY <1>2, <2>3, <3>1 DEF TypeOK
    <3>3. Height(config', f.height) = c
      BY <1>2, <3>2 DEF Height
    <3> QED BY <1>1, <2>3, <3>1, <3>3
  <2> QED BY <1>1, <2>1, <2>2, <2>3
<1>7. BaseInv'
  <2>1. frames'[1] = frames[1] /\ frames[1].height \in 0..Len(config)
    BY <1>1, <1>10
  <2> QED BY <1>1, <1>2, <2>1 DEF Inv, BaseInv
<1>8. PollutingInv'
  <2> SUFFICES ASSUME NEW i \in 1..Len(frames'), frames'[1].kind = "load",
                      \A j \in 2..i : frames'[j].kind # "with", NEW k \in Polluting
               PROVE  frames'[i].policy[k] = Default[k]
    BY DEF PollutingInv
  <2>1. CASE i \in 1..n
    BY <1>1, <2>1 DEF Inv, PollutingInv
  <2>2. CASE i = n + 1
    <3>1. f.kind # "with" /\ \A j \in 2..n : frames[j].kind # "with"
      BY <1>1, <2>2
    <3>2. frames[n].policy[k] = Default[k]
      BY <1>1, <3>1 DEF Inv, PollutingInv
    <3> QED BY <1>1, <2>2, <3>1, <3>2
  <2> QED BY <1>1, <2>1, <2>2
<1>9. ModuleInv'
  BY <1>1 DEF Inv, ModuleInv, ModuleTracksLoad
<1> QED BY <1>3, <1>4, <1>5, <1>6, <1>7, <1>8, <1>9 DEF Inv

(* Leaving a frame above another keeps the invariant: the `with` block that *)
(* pushed a policy pops it, and no other body changes the stack.            *)
LEMMA CloseInner ==
  ASSUME IInv, TypeOK', Len(frames) > 1, frames' = Pop(frames),
         phase' = "body", current_module' = current_module,
         config' = IF Top.kind = "with" THEN Pop(config) ELSE config
  PROVE  Inv'
<1> USE DEF IInv
<1> DEFINE n == Len(frames) - 1
<1>1. /\ n \in Nat /\ n > 0 /\ Len(frames) = n + 1 /\ Len(frames') = n /\ frames' # <<>>
      /\ \A i \in 1..n : frames'[i] = frames[i]
      /\ Top = frames[n + 1] /\ Top' = frames[n]
      /\ \A i \in 1..(n + 1) : frames[i].height \in Nat
  <2>1. /\ frames # <<>> /\ n \in Nat /\ n > 0 /\ Len(frames) = n + 1 /\ Len(frames') = n
        /\ \A i \in 1..n : frames'[i] = frames[i]
    BY FrameFacts, PopFacts
  <2>2. Top = frames[n + 1] /\ \A i \in 1..(n + 1) : frames[i].height \in Nat
    BY <2>1, FrameFacts DEF FrameType
  <2>3. frames' # <<>>
    BY <2>1, EmptySeq
  <2> QED BY <2>1, <2>2, <2>3 DEF Top
<1>2. /\ Len(config) \in Nat /\ Len(config) = frames[n + 1].height
      /\ Len(config') = frames[n].height
      /\ \A i \in 1..Len(config') : config'[i] = config[i]
  <2>1. Len(config) \in Nat /\ Len(config) = frames[n + 1].height
    BY <1>1, FrameFacts DEF Inv, HeightInv
  <2>2. frames[n + 1].height = IF Top.kind = "with" THEN frames[n].height + 1
                               ELSE frames[n].height
    BY <1>1 DEF Inv, HeightInv
  <2>3. CASE Top.kind = "with"
    <3>1. config # <<>>
      BY <1>1, <2>1, <2>2, <2>3, EmptySeq
    <3>2. /\ Len(Pop(config)) = Len(config) - 1
          /\ \A i \in 1..(Len(config) - 1) : Pop(config)[i] = config[i]
      BY <3>1, FrameFacts, PopFacts
    <3>3. config' = Pop(config) /\ frames[n].height = Len(config) - 1
      BY <1>1, <2>1, <2>2, <2>3
    <3> QED BY <1>1, <2>1, <3>2, <3>3
  <2>4. CASE Top.kind # "with"
    BY <1>1, <2>1, <2>2, <2>4
  <2> QED BY <2>1, <2>3, <2>4
<1>3. \A i \in 1..n : frames[i].height \in 0..Len(config')
  BY <1>1, <1>2 DEF Inv, HeightInv
<1>4. PhaseInv' /\ KindInv'
  BY <1>1 DEF Inv, PhaseInv, KindInv
<1>5. HeightInv'
  <2>1. Top'.height = Len(config')
    BY <1>1, <1>2
  <2>2. \A i, j \in 1..n : i <= j => frames[i].height <= frames[j].height
    BY <1>1 DEF Inv, HeightInv
  <2>3. \A i \in 2..n : frames[i].height = IF frames[i].kind = "with" THEN frames[i - 1].height + 1
                                            ELSE frames[i - 1].height
    BY <1>1 DEF Inv, HeightInv
  <2>4. \A i \in 2..n : i \in 1..n /\ i - 1 \in 1..n
    BY <1>1
  <2>5. \A i \in 2..n : /\ frames'[i] = frames[i]
                        /\ frames'[i - 1] = frames[i - 1]
    BY <1>1, <2>4
  <2> HIDE DEF n
  <2> QED BY <1>1, <2>1, <2>2, <2>3, <2>5 DEF HeightInv
<1>6. PolicyInv'
  <2> SUFFICES ASSUME NEW i \in 1..n
               PROVE  SameButVm(Height(config', frames[i].height), frames[i].policy)
    BY <1>1 DEF PolicyInv
  <2>1. Height(config', frames[i].height) = Height(config, frames[i].height)
    BY <1>2, <1>3 DEF Height
  <2> QED BY <1>1, <2>1 DEF Inv, PolicyInv
<1>7. BaseInv'
  <2>1. frames'[1] = frames[1] /\ frames[1].height \in 0..Len(config') /\ frames # <<>>
    BY <1>1, <1>3, FrameFacts
  <2>2. frames[1].height = 2 => config'[1] = config[1]
    BY <1>2, <2>1
  <2> QED BY <1>1, <2>1, <2>2 DEF Inv, BaseInv
<1>8. PollutingInv'
  <2> SUFFICES ASSUME NEW i \in 1..n, frames'[1].kind = "load",
                      \A j \in 2..i : frames'[j].kind # "with", NEW k \in Polluting
               PROVE  frames'[i].policy[k] = Default[k]
    BY <1>1 DEF PollutingInv
  <2>1. 1 \in 1..n /\ i \in 1..Len(frames) /\ \A j \in 2..i : j \in 1..n
    BY <1>1
  <2>2. frames'[i] = frames[i] /\ frames'[1] = frames[1]
        /\ \A j \in 2..i : frames'[j] = frames[j]
    BY <1>1, <2>1
  <2> QED BY <2>1, <2>2 DEF Inv, PollutingInv
<1>9. ModuleInv'
  <2>1. frames'[1] = frames[1] /\ frames # <<>>
    BY <1>1, FrameFacts
  <2> QED BY <1>1, <2>1 DEF Inv, ModuleInv, ModuleTracksLoad
<1> QED BY <1>4, <1>5, <1>6, <1>7, <1>8, <1>9 DEF Inv

(* Opening the first frame. *)
LEMMA OpenFirst ==
  ASSUME IInv, TypeOK', frames = <<>>, phase' = "body",
         NEW f \in FrameType, frames' = Append(frames, f),
         f.kind \in {"load", "root", "func"}, f.height = Len(config'), f.prev = Root,
         current_module' # Root <=> f.kind = "load",
         SameButVm(Current(config'), f.policy),
         f.kind = "func" => Len(config') <= 1 /\ SameButVm(f.policy, Default),
         f.kind = "load" =>
           /\ Len(config') <= 2
           /\ Len(config') = 2 => SameButVm(config'[1], Default)
           /\ \A k \in Polluting : f.policy[k] = Default[k]
  PROVE  Inv'
<1> USE DEF IInv
<1>1. Len(frames') = 1 /\ frames'[1] = f /\ frames' # <<>> /\ Top' = f
  BY FrameFacts, AppendProperties, EmptySeq DEF Top
<1>2. Len(config') \in Nat /\ config' \in Seq(Configs)
  BY LenProperties DEF TypeOK
<1>3. PhaseInv' /\ KindInv'
  BY <1>1 DEF PhaseInv, KindInv
<1>4. HeightInv'
  BY <1>1, <1>2 DEF HeightInv
<1>5. PolicyInv'
  <2>1. Current(config') = Height(config', Len(config'))
    BY <1>2, CurrentType
  <2> QED BY <1>1, <2>1 DEF PolicyInv
<1>6. BaseInv'
  BY <1>1 DEF BaseInv
<1>7. PollutingInv'
  BY <1>1 DEF PollutingInv
<1>8. ModuleInv'
  BY <1>1 DEF ModuleInv, ModuleTracksLoad
<1> QED BY <1>3, <1>4, <1>5, <1>6, <1>7, <1>8 DEF Inv

(* Nothing is open. *)
LEMMA NoFrames ==
  ASSUME frames' = <<>>, phase' # "body", flow' = "run", current_module' = Root,
         Len(config') <= 1, SameButVm(Current(config'), Default)
  PROVE  Inv'
<1>1. Len(frames') = 0
  BY EmptySeq
<1>2. PhaseInv' /\ BaseInv' /\ ModuleInv'
  BY DEF PhaseInv, BaseInv, ModuleInv, ModuleTracksLoad
<1>3. KindInv' /\ HeightInv' /\ PolicyInv' /\ PollutingInv'
  BY <1>1 DEF KindInv, HeightInv, PolicyInv, PollutingInv
<1> QED BY <1>2, <1>3 DEF Inv

(* No frame is opened or left. *)
LEMMA SameFrames ==
  ASSUME Inv, UNCHANGED <<frames, config, current_module, phase>>,
         phase # "body" => flow' = "run"
  PROVE  Inv'
BY DEF Inv, PhaseInv, KindInv, HeightInv, PolicyInv, BaseInv, PollutingInv, ModuleInv,
       ModuleTracksLoad, Top
-----------------------------------------------------------------------------
(* One frame, or more than one. *)
LEMMA Depth ==
  ASSUME IInv, phase = "body"
  PROVE  /\ frames # <<>> /\ Len(frames) >= 1
         /\ Top.kind \in {"load", "root"} => Len(frames) = 1
         /\ Top.kind \in {"method", "with"} => Len(frames) > 1
         /\ Len(frames) = 1 => Top = frames[1] /\ Pop(frames) = <<>>
<1> USE DEF IInv
<1>1. /\ frames # <<>> /\ Len(frames) \in Nat /\ Len(frames) >= 1 /\ Top = frames[Len(frames)]
      /\ frames \in Seq(FrameType)
  BY FrameFacts DEF Inv, PhaseInv
<1>2. /\ Len(frames) = 1 => Top.kind \in {"load", "root", "func"}
      /\ Len(frames) # 1 => Top.kind \in {"func", "method", "with"}
  <2>1. Len(frames) \in 1..Len(frames)
    BY <1>1
  <2> QED BY <1>1, <2>1 DEF Inv, KindInv
<1>3. ASSUME Len(frames) = 1 PROVE Pop(frames) = <<>>
  <2>1. Pop(frames) \in Seq(FrameType) /\ Len(Pop(frames)) = 0
    BY <1>1, <1>3, PopFacts
  <2> QED BY <2>1, EmptySeq
<1>4. Top.kind \in {"load", "root"} => Len(frames) = 1
  BY <1>2
<1>5. Top.kind \in {"method", "with"} => Len(frames) > 1
  <2>1. \A k \in Nat : k >= 1 /\ k # 1 => k > 1
    OBVIOUS
  <2>2. Top.kind \in {"method", "with"} => Len(frames) # 1
    BY <1>2
  <2> QED BY <1>1, <2>1, <2>2, Zenon
<1>6. Len(frames) = 1 => Top = frames[1]
  BY <1>1
<1> QED BY <1>1, <1>3, <1>4, <1>5, <1>6

(* Nothing is open outside bodies, and the base of the stack is a default. *)
LEMMA Outside ==
  ASSUME IInv, phase # "body"
  PROVE  /\ frames = <<>> /\ current_module = Root /\ flow = "run"
         /\ Len(config) <= 1 /\ SameButVm(Current(config), Default)
BY DEF IInv, Inv, PhaseInv, BaseInv, ModuleInv, ModuleTracksLoad

(* <<Config::default()>>, what reset_config leaves. *)
LEMMA ResetFacts ==
  /\ <<Default>> \in Seq(Configs) /\ Len(<<Default>>) <= 1
  /\ SameButVm(Current(<<Default>>), Default)
<1>1. Default \in Configs /\ SameButVm(Default, Default)
  BY BottomType DEF SameButVm
<1>2. <<Default>> \in Seq(Configs) /\ Len(<<Default>>) = 1 /\ <<Default>>[1] = Default
  BY <1>1
<1>3. <<Default>> # <<>>
  BY <1>2, EmptySeq
<1> QED BY <1>1, <1>2, <1>3 DEF Current

(* What is left when a dependency's policy, pushed or not, is popped. *)
LEMMA PopBase ==
  ASSUME NEW c \in Seq(Configs), Len(c) <= 2, Len(c) = 2 => SameButVm(c[1], Default)
  PROVE  /\ Pop(c) \in Seq(Configs) /\ Len(Pop(c)) <= 1
         /\ SameButVm(Current(Pop(c)), Default)
<1>1. Pop(c) \in Seq(Configs) /\ Len(c) \in Nat /\ Len(Pop(c)) \in Nat
  BY PopFacts, LenProperties
<1>2. CASE Pop(c) = <<>>
  BY <1>1, <1>2, BottomType, EmptySeq DEF Current
<1>3. CASE Pop(c) # <<>>
  <2>1. c # <<>> /\ Len(Pop(c)) = Len(c) - 1 /\ Len(Pop(c)) >= 1
    BY <1>1, <1>3, PopFacts, EmptySeq
  <2>2. Len(c) = 2 /\ Len(Pop(c)) = 1 /\ Pop(c)[1] = c[1]
    BY <1>1, <2>1, PopFacts
  <2> QED BY <1>1, <1>3, <2>2 DEF Current
<1> QED BY <1>2, <1>3

(* push_module_config *)
LEMMA PushedFacts ==
  ASSUME NEW s \in Seq(Configs), NEW b \in Blocks \cup {NoBlock}
  PROVE  /\ Pushed(s, b) \in Seq(Configs) /\ Len(s) \in Nat
         /\ b = NoBlock => Pushed(s, b) = s
         /\ b # NoBlock => /\ b \in Blocks /\ Overlay(Current(s), b) \in Configs
                           /\ Pushed(s, b) = Append(s, Overlay(Current(s), b))
                           /\ Len(Pushed(s, b)) = Len(s) + 1
                           /\ Pushed(s, b)[Len(s) + 1] = Overlay(Current(s), b)
                           /\ \A i \in 1..Len(s) : Pushed(s, b)[i] = s[i]
<1>1. CASE b = NoBlock
  BY <1>1, LenProperties DEF Pushed
<1>2. CASE b # NoBlock
  <2>1. b \in Blocks /\ Overlay(Current(s), b) \in Configs
    BY <1>2, CurrentType, OverlayType
  <2> QED BY <1>2, <2>1, LenProperties, AppendProperties DEF Pushed
<1> QED BY <1>1, <1>2

(* The frame that is left. *)
LEMMA CloseFacts ==
  ASSUME TypeOK
  PROVE  Pop(frames) \in Seq(FrameType) /\ Pop(config) \in Seq(Configs)
BY FrameFacts, PopFacts
-----------------------------------------------------------------------------
(* The first frame opened on a stack of at most one policy, with block b.  *)
LEMMA FirstFacts ==
  ASSUME IInv, phase # "body", NEW b \in Blocks \cup {NoBlock}, config' = Pushed(config, b)
  PROVE  /\ config' \in Seq(Configs) /\ Len(config') \in Nat /\ Len(config') <= 2
         /\ SameButVm(Current(config'), Meant(b))
         /\ Len(config') = 2 => SameButVm(config'[1], Default)
         /\ b = NoBlock => Meant(b) = Default
         /\ b # NoBlock => Meant(b) = Overlay(Default, b)
<1> USE DEF IInv
<1>1. /\ frames = <<>> /\ Len(config) <= 1 /\ SameButVm(Current(config), Default)
      /\ config \in Seq(Configs) /\ Len(config) \in Nat
  BY Outside, FrameFacts
<1>2. /\ config' \in Seq(Configs) /\ Len(config') \in Nat
      /\ b = NoBlock => config' = config
      /\ b # NoBlock => /\ b \in Blocks /\ Overlay(Current(config), b) \in Configs
                        /\ Len(config') = Len(config) + 1
                        /\ config'[Len(config) + 1] = Overlay(Current(config), b)
                        /\ \A i \in 1..Len(config) : config'[i] = config[i]
  BY <1>1, PushedFacts, LenProperties
<1>3. Current(config) \in Configs /\ Current(config) = Height(config, Len(config))
  BY <1>1, CurrentType
<1>4. Current(config') = Height(config', Len(config'))
  BY <1>2, CurrentType
<1>5. (b = NoBlock => Meant(b) = Default) /\ (b # NoBlock => Meant(b) = Overlay(Default, b))
  BY <1>1, MeantFacts
<1>6. CASE b = NoBlock
  <2>1. config' = config /\ Meant(b) = Default
    BY <1>2, <1>5, <1>6
  <2>2. SameButVm(Current(config'), Meant(b))
    BY <1>1, <2>1, Zenon
  <2>3. Len(config') <= 1
    BY <1>1, <2>1
  <2> QED BY <1>2, <1>5, <1>6, <2>2, <2>3
<1>7. CASE b # NoBlock
  <2>1. Current(config') = Overlay(Current(config), b)
    BY <1>1, <1>2, <1>4, <1>7 DEF Height
  <2>2. SameButVm(Overlay(Current(config), b), Overlay(Default, b))
    BY <1>1, <1>2, <1>3, <1>7, BottomType, OverlaySame
  <2>3. ASSUME Len(config') = 2 PROVE SameButVm(config'[1], Default)
    <3>1. Len(config) = 1 /\ config'[1] = config[1]
      BY <1>1, <1>2, <1>7, <2>3
    <3>2. Current(config) = config[1]
      BY <1>3, <3>1 DEF Height
    <3> QED BY <1>1, <3>1, <3>2
  <2> QED BY <1>1, <1>2, <1>5, <1>7, <2>1, <2>2, <2>3
<1> QED BY <1>6, <1>7

(* Enter: the stack is reset before anything is evaluated. *)
LEMMA EnterStep ==
  ASSUME IInv, NEW e \in {"file", "memory"}, Enter(e)
  PROVE  IInv'
<1>1. TypeOK'
  BY ResetFacts DEF Enter, IInv, TypeOK, selfs
<1>2. frames' = <<>> /\ phase' # "body" /\ flow' = "run" /\ current_module' = Root
  BY Outside DEF Enter
<1>3. Len(config') <= 1 /\ SameButVm(Current(config'), Default)
  BY ResetFacts DEF Enter
<1> QED BY <1>1, <1>2, <1>3, NoFrames DEF IInv

(* ImportFails: nothing was pushed, and nothing is popped. *)
LEMMA ImportFailsStep ==
  ASSUME IInv, ImportFails
  PROVE  IInv'
<1>1. phase # "body" /\ (config' = config \/ config' = <<Default>>)
  BY DEF ImportFails, GiveUp
<1>2. TypeOK'
  BY <1>1, ResetFacts DEF ImportFails, GiveUp, IInv, TypeOK, selfs, Flows
<1>3. frames' = <<>> /\ phase' # "body" /\ flow' = "run" /\ current_module' = Root
  BY <1>1, Outside DEF ImportFails, GiveUp
<1>4. Len(config') <= 1 /\ SameButVm(Current(config'), Default)
  BY <1>1, ResetFacts, Outside
<1> QED BY <1>2, <1>3, <1>4, NoFrames DEF IInv

(* LoadModule: the block E0021 let through sets no entry-only policy. *)
LEMMA LoadModuleStep ==
  ASSUME IInv, NEW m \in Modules, NEW b \in Blocks \cup {NoBlock}, LoadModule(m, b)
  PROVE  IInv'
<1>1. phase # "body" /\ config' = Pushed(config, b)
  BY DEF LoadModule
<1>2. /\ frames = <<>> /\ current_module = Root /\ flow = "run"
      /\ config' \in Seq(Configs) /\ Len(config') \in Nat /\ Len(config') <= 2
      /\ SameButVm(Current(config'), Meant(b))
      /\ Len(config') = 2 => SameButVm(config'[1], Default)
  BY <1>1, Outside, FirstFacts
<1>3. PICK f : f = Frame("load", b, Root, Nobody)
  OBVIOUS
<1>10. /\ f \in FrameType /\ f.kind = "load" /\ f.prev = Root /\ f.height = Len(config')
       /\ f.policy = Meant(b)
  <2>1. Meant(b) \in Configs /\ Len(config') \in Nat
    BY <1>2, MeantFacts, LenProperties DEF IInv
  <2> QED BY <1>2, <1>3, <2>1 DEF Frame, FrameType, Kinds
<1>11. frames' = Append(frames, f) /\ frames' \in Seq(FrameType)
  <2>1. frames' = Append(frames, f)
    BY <1>2, <1>3 DEF LoadModule, Open
  <2> QED BY <1>10, <2>1, FrameFacts, AppendProperties DEF IInv
<1>4. TypeOK'
  BY <1>2, <1>11 DEF LoadModule, IInv, TypeOK, selfs, FrameType
<1>5. \A k \in Polluting : Meant(b)[k] = Default[k]
  <2>1. CASE b = NoBlock
    BY <1>1, <2>1, FirstFacts
  <2>2. CASE b # NoBlock
    <3>1. Meant(b) = Overlay(Default, b) /\ DOMAIN b \cap Polluting = {}
      BY <1>1, <2>2, FirstFacts DEF LoadModule, Allowed
    <3> QED BY <3>1, KeysAssumption DEF Overlay
  <2> QED BY <2>1, <2>2
<1>6. phase' = "body" /\ current_module' # Root
  BY NamesAssumption DEF LoadModule
<1>7. Inv'
  BY <1>2, <1>4, <1>5, <1>6, <1>10, <1>11, OpenFirst
<1> QED BY <1>4, <1>7 DEF IInv

(* BeginRoot: the entry's block goes on top of a default. *)
LEMMA BeginRootStep ==
  ASSUME IInv, NEW b \in Blocks \cup {NoBlock}, BeginRoot(b)
  PROVE  IInv'
<1>1. phase # "body" /\ config' = Pushed(config, b)
  BY DEF BeginRoot
<1>2. /\ frames = <<>> /\ current_module = Root /\ flow = "run"
      /\ config' \in Seq(Configs) /\ SameButVm(Current(config'), Meant(b))
  BY <1>1, Outside, FirstFacts
<1>3. PICK f : f = Frame("root", b, Root, Nobody)
  OBVIOUS
<1>10. /\ f \in FrameType /\ f.kind = "root" /\ f.prev = Root /\ f.height = Len(config')
       /\ f.policy = Meant(b)
  <2>1. Meant(b) \in Configs /\ Len(config') \in Nat
    BY <1>2, MeantFacts, LenProperties DEF IInv
  <2> QED BY <1>2, <1>3, <2>1 DEF Frame, FrameType, Kinds
<1>11. frames' = Append(frames, f) /\ frames' \in Seq(FrameType)
  <2>1. frames' = Append(frames, f)
    BY <1>2, <1>3 DEF BeginRoot, Open
  <2> QED BY <1>10, <2>1, FrameFacts, AppendProperties DEF IInv
<1>4. TypeOK'
  BY <1>2, <1>11 DEF BeginRoot, IInv, TypeOK, selfs, FrameType
<1>5. phase' = "body" /\ current_module' = Root
  BY <1>2 DEF BeginRoot
<1>7. Inv'
  BY <1>2, <1>4, <1>5, <1>10, <1>11, OpenFirst
<1> QED BY <1>4, <1>7 DEF IInv

(* HostCall: a function of the host runs under the default. *)
LEMMA HostCallStep ==
  ASSUME IInv, HostCall
  PROVE  IInv'
<1>1. phase # "body" /\ config' = Pushed(config, NoBlock)
  BY DEF HostCall, Pushed
<1>2. /\ frames = <<>> /\ current_module = Root /\ flow = "run" /\ Meant(NoBlock) = Default
      /\ config' \in Seq(Configs) /\ SameButVm(Current(config'), Default) /\ Len(config') <= 1
  BY <1>1, Outside, FirstFacts DEF HostCall
<1>3. PICK f : f = Frame("func", NoBlock, Root, Nobody)
  OBVIOUS
<1>10. /\ f \in FrameType /\ f.kind = "func" /\ f.prev = Root /\ f.height = Len(config')
       /\ f.policy = Default
  <2>1. Meant(NoBlock) \in Configs /\ Len(config') \in Nat
    BY <1>2, MeantFacts, LenProperties DEF IInv
  <2> QED BY <1>2, <1>3, <2>1 DEF Frame, FrameType, Kinds
<1>11. frames' = Append(frames, f) /\ frames' \in Seq(FrameType)
  <2>1. frames' = Append(frames, f)
    BY <1>2, <1>3 DEF HostCall, Open
  <2> QED BY <1>10, <2>1, FrameFacts, AppendProperties DEF IInv
<1>4. TypeOK'
  BY <1>2, <1>11 DEF HostCall, IInv, TypeOK, selfs, FrameType
<1>5. phase' = "body" /\ current_module' = Root /\ SameButVm(Default, Default)
  BY <1>2 DEF HostCall, SameButVm
<1>7. Inv'
  BY <1>2, <1>4, <1>5, <1>10, <1>11, OpenFirst
<1> QED BY <1>4, <1>7 DEF IInv

-----------------------------------------------------------------------------
(* A body is run under its policy. *)
LEMMA TopPolicy ==
  ASSUME IInv, frames # <<>>
  PROVE  /\ SameButVm(Current(config), Top.policy) /\ Current(config) \in Configs
         /\ Top.height = Len(config) /\ Top.policy \in Configs
<1>1. Len(frames) \in 1..Len(frames) /\ Top = frames[Len(frames)] /\ Top \in FrameType
  BY FrameFacts DEF IInv
<1>2. SameButVm(Height(config, Top.height), Top.policy) /\ Top.height = Len(config)
  BY <1>1 DEF IInv, Inv, PolicyInv, HeightInv
<1>3. Current(config) \in Configs /\ Current(config) = Height(config, Len(config))
  BY FrameFacts, CurrentType DEF IInv
<1> QED BY <1>1, <1>2, <1>3 DEF FrameType

(* CallFunc: a body without a block runs under its caller's policy. *)
LEMMA CallFuncStep ==
  ASSUME IInv, CallFunc
  PROVE  IInv'
<1>1. /\ phase = "body" /\ phase' = phase /\ flow' = flow /\ config' = config
      /\ current_module' = current_module
  BY DEF CallFunc, CanOpen, Running
<1>2. /\ frames # <<>> /\ Meant(NoBlock) \in Configs /\ Meant(NoBlock) = Top.policy
      /\ Len(config') \in Nat /\ current_module \in Modules \cup {Root}
  BY <1>1, Depth, MeantFacts, FrameFacts DEF IInv, TypeOK
<1>3. PICK f : f = Frame("func", NoBlock, current_module, Nobody)
  OBVIOUS
<1>4. f \in FrameType /\ f.kind = "func" /\ f.height = Len(config') /\ f.policy = Top.policy
  BY <1>2, <1>3 DEF Frame, FrameType, Kinds
<1>5. frames' = Append(frames, f) /\ frames' \in Seq(FrameType)
  <2>1. frames' = Append(frames, f)
    BY <1>3 DEF CallFunc, Open
  <2> QED BY <1>4, <2>1, FrameFacts, AppendProperties DEF IInv
<1>6. TypeOK'
  BY <1>5 DEF CallFunc, IInv, TypeOK, selfs, FrameType
<1>7. Inv'
  BY <1>1, <1>2, <1>4, <1>5, <1>6, OpenInner
<1> QED BY <1>6, <1>7 DEF IInv

(* CallMethod: the same, with a receiver on one of the two stacks. *)
LEMMA CallMethodStep ==
  ASSUME IInv, NEW r \in Instances \cup Builtins, CallMethod(r)
  PROVE  IInv'
<1>1. /\ phase = "body" /\ phase' = phase /\ flow' = flow /\ config' = config
      /\ current_module' = current_module
  BY DEF CallMethod, CanOpen, Running
<1>2. /\ frames # <<>> /\ Meant(NoBlock) \in Configs /\ Meant(NoBlock) = Top.policy
      /\ Len(config') \in Nat /\ current_module \in Modules \cup {Root}
  BY <1>1, Depth, MeantFacts, FrameFacts DEF IInv, TypeOK
<1>3. PICK f : f = Frame("method", NoBlock, current_module, r)
  OBVIOUS
<1>4. f \in FrameType /\ f.kind = "method" /\ f.height = Len(config') /\ f.policy = Top.policy
  BY <1>2, <1>3 DEF Frame, FrameType, Kinds
<1>5. frames' = Append(frames, f) /\ frames' \in Seq(FrameType)
  <2>1. frames' = Append(frames, f)
    BY <1>3 DEF CallMethod, Open
  <2> QED BY <1>4, <2>1, FrameFacts, AppendProperties DEF IInv
<1>6. self_stack' \in Seq(Instances) /\ self_values' \in Seq(Builtins)
  BY AppendProperties DEF CallMethod, IInv, TypeOK
<1>7. TypeOK'
  BY <1>5, <1>6 DEF CallMethod, IInv, TypeOK, FrameType
<1>8. Inv'
  BY <1>1, <1>2, <1>4, <1>5, <1>7, OpenInner
<1> QED BY <1>7, <1>8 DEF IInv

(* EnterWith: the block is applied on top of the current policy. *)
LEMMA EnterWithStep ==
  ASSUME IInv, NEW b \in Blocks, EnterWith(b)
  PROVE  IInv'
<1>1. /\ phase = "body" /\ phase' = phase /\ flow' = flow
      /\ current_module' = current_module
      /\ config' = Append(config, Overlay(Current(config), b))
  BY DEF EnterWith, CanOpen, Running
<1>2. /\ frames # <<>> /\ SameButVm(Current(config), Top.policy) /\ Current(config) \in Configs
      /\ Top.policy \in Configs /\ config \in Seq(Configs)
      /\ current_module \in Modules \cup {Root}
  BY <1>1, Depth, TopPolicy DEF IInv, TypeOK
<1>3. /\ Overlay(Current(config), b) \in Configs
      /\ SameButVm(Overlay(Current(config), b), Overlay(Top.policy, b))
  BY <1>2, OverlayType, OverlaySame
<1>4. config' \in Seq(Configs) /\ Len(config') \in Nat
  BY <1>1, <1>2, <1>3, AppendProperties, LenProperties
<1>5. Meant(b) \in Configs /\ Meant(b) = Overlay(Top.policy, b)
  <2>1. b \in Blocks \cup {NoBlock} /\ b # NoBlock
    BY KeysAssumption
  <2> QED BY <1>2, <2>1, MeantFacts DEF IInv
<1>6. PICK f : f = Frame("with", b, current_module, Nobody)
  OBVIOUS
<1>7. /\ f \in FrameType /\ f.kind = "with" /\ f.height = Len(config')
      /\ f.policy = Overlay(Top.policy, b)
  BY <1>2, <1>4, <1>5, <1>6 DEF Frame, FrameType, Kinds
<1>8. frames' = Append(frames, f) /\ frames' \in Seq(FrameType)
  <2>1. frames' = Append(frames, f)
    BY <1>6 DEF EnterWith, Open
  <2> QED BY <1>7, <2>1, FrameFacts, AppendProperties DEF IInv
<1>9. TypeOK'
  BY <1>4, <1>8 DEF EnterWith, IInv, TypeOK, selfs, FrameType
<1>10. \E c \in Configs : config' = Append(config, c) /\ SameButVm(c, f.policy)
  BY <1>1, <1>3, <1>7
<1>11. Inv'
  BY <1>1, <1>2, <1>7, <1>8, <1>9, <1>10, OpenInner
<1> QED BY <1>9, <1>11 DEF IInv
-----------------------------------------------------------------------------
(* LeaveLoad: popped whether or not it pushed, the stack ends at a default. *)
LEMMA LeaveLoadStep ==
  ASSUME IInv, LeaveLoad
  PROVE  IInv'
<1>1. /\ phase = "body" /\ Top.kind = "load" /\ current_module' = Top.prev /\ frames' = Pop(frames)
      /\ config' = Pop(config) \/ config' = <<Default>>
      /\ phase' \in {"idle", "imports"} /\ flow' = "run"
      /\ module_items' \subseteq module_items \cup {current_module}
  BY DEF LeaveLoad, Close, GiveUp
<1>2. /\ frames # <<>> /\ Len(frames) = 1 /\ Top = frames[1] /\ frames' = <<>>
      /\ Top.height = Len(config)
  BY <1>1, Depth, TopPolicy
<1>3. current_module' = Root /\ current_module # Root
  BY <1>1, <1>2 DEF IInv, Inv, ModuleInv, ModuleTracksLoad
<1>4. /\ config \in Seq(Configs) /\ Len(config) <= 2
      /\ Len(config) = 2 => SameButVm(config[1], Default)
  BY <1>1, <1>2 DEF IInv, Inv, BaseInv, TypeOK
<1>5. config' \in Seq(Configs) /\ Len(config') <= 1 /\ SameButVm(Current(config'), Default)
  <2>1. CASE config' = Pop(config)
    BY <1>4, <2>1, PopBase
  <2>2. CASE config' = <<Default>>
    BY <2>2, ResetFacts
  <2> QED BY <1>1, <2>1, <2>2
<1>6. frames' \in Seq(FrameType)
  BY <1>1, CloseFacts DEF IInv
<1>7. TypeOK'
  BY <1>1, <1>3, <1>5, <1>6 DEF LeaveLoad, IInv, TypeOK, selfs, Flows, FrameType
<1>8. Inv'
  BY <1>1, <1>2, <1>3, <1>5, NoFrames
<1> QED BY <1>7, <1>8 DEF IInv

(* LeaveRoot: the entry point resets the stack. *)
LEMMA LeaveRootStep ==
  ASSUME IInv, LeaveRoot
  PROVE  IInv'
<1>1. /\ phase = "body" /\ Top.kind = "root" /\ frames' = Pop(frames) /\ config' = <<Default>>
      /\ phase' = "idle" /\ flow' = "run" /\ current_module' = current_module
      /\ kept' \in {kept, kept \/ (entry = "file" /\ flow = "run")}
  BY DEF LeaveRoot, Close
<1>2. frames # <<>> /\ Top = frames[1] /\ frames' = <<>>
  BY <1>1, Depth
<1>3. current_module' = Root
  BY <1>1, <1>2 DEF IInv, Inv, ModuleInv, ModuleTracksLoad
<1>4. frames' \in Seq(FrameType) /\ kept' \in BOOLEAN
  BY <1>1, CloseFacts DEF IInv, TypeOK
<1>5. TypeOK'
  BY <1>1, <1>4, ResetFacts DEF LeaveRoot, IInv, TypeOK, selfs, Flows, FrameType
<1>6. Inv'
  BY <1>1, <1>2, <1>3, ResetFacts, NoFrames
<1> QED BY <1>5, <1>6 DEF IInv

(* A call that ends, the host's or a nested one. *)
LEMMA CallEndsInv ==
  ASSUME IInv, TypeOK', CallEnds, phase = "body", Top.kind \in {"func", "method"},
         config' = config, current_module' = current_module
  PROVE  Inv'
<1>1. frames # <<>> /\ Len(frames) >= 1 /\ Len(frames) \in Nat /\ frames' = Pop(frames)
  BY Depth, FrameFacts DEF CallEnds, Close, IInv
<1>2. CASE Len(frames) = 1
  <2>1. /\ Top = frames[1] /\ frames' = <<>> /\ Top.kind = "func" /\ phase' = "idle"
        /\ flow' = "run"
    BY <1>1, <1>2, Depth DEF CallEnds
  <2>2. current_module' = Root
    BY <1>1, <2>1 DEF IInv, Inv, ModuleInv, ModuleTracksLoad
  <2>3. /\ Len(config) <= 1 /\ SameButVm(Current(config), Top.policy)
        /\ SameButVm(Top.policy, Default)
    BY <1>1, <2>1, TopPolicy DEF IInv, Inv, BaseInv
  <2>4. Len(config') <= 1 /\ SameButVm(Current(config'), Default)
    <3>1. SameButVm(Current(config), Default)
      BY <2>3, SameTransitive
    <3> QED BY <2>3, <3>1
  <2> QED BY <2>1, <2>2, <2>4, NoFrames
<1>3. CASE Len(frames) # 1
  <2>1. Len(frames) > 1 /\ phase' = "body" /\ Top.kind # "with"
    <3>1. \A k \in Nat : k >= 1 /\ k # 1 => k > 1
      OBVIOUS
    <3>2. Len(frames) > 1
      BY <1>1, <1>3, <3>1, Zenon
    <3>3. phase' = "body"
      BY <1>3 DEF CallEnds
    <3>4. Top.kind # "with"
      OBVIOUS
    <3> QED BY <3>2, <3>3, <3>4
  <2> QED BY <1>1, <2>1, CloseInner
<1> QED BY <1>2, <1>3

(* LeaveFunc, LeaveMethod and LeaveWith, by CallEndsInv and CloseInner. *)
LEMMA LeaveFuncStep ==
  ASSUME IInv, LeaveFunc
  PROVE  IInv'
<1>1. /\ phase = "body" /\ Top.kind = "func" /\ CallEnds /\ config' = config
      /\ current_module' = current_module
  BY DEF LeaveFunc
<1>2. frames' \in Seq(FrameType)
  BY <1>1, CloseFacts DEF CallEnds, Close, IInv
<1>3. flow' \in Flows /\ phase' \in {"idle", "body"}
  BY <1>1 DEF CallEnds, Flows
<1>4. TypeOK'
  BY <1>2, <1>3 DEF LeaveFunc, IInv, TypeOK, selfs, FrameType
<1>5. Inv'
  BY <1>1, <1>4, CallEndsInv
<1> QED BY <1>4, <1>5 DEF IInv

(* LeaveMethod: besides, the receiver's stack is popped. *)
LEMMA LeaveMethodStep ==
  ASSUME IInv, LeaveMethod
  PROVE  IInv'
<1>1. /\ phase = "body" /\ Top.kind = "method" /\ CallEnds /\ config' = config
      /\ current_module' = current_module
  BY DEF LeaveMethod
<1>2. frames' \in Seq(FrameType)
  BY <1>1, CloseFacts DEF CallEnds, Close, IInv
<1>3. flow' \in Flows /\ phase' \in {"idle", "body"}
  BY <1>1 DEF CallEnds, Flows
<1>4. self_stack' \in Seq(Instances) /\ self_values' \in Seq(Builtins)
  BY PopFacts DEF LeaveMethod, IInv, TypeOK
<1>5. TypeOK'
  BY <1>2, <1>3, <1>4 DEF LeaveMethod, IInv, TypeOK, FrameType
<1>6. Inv'
  BY <1>1, <1>5, CallEndsInv
<1> QED BY <1>5, <1>6 DEF IInv

(* LeaveWith: the only body above the first frame that pops a policy. *)
LEMMA LeaveWithStep ==
  ASSUME IInv, LeaveWith
  PROVE  IInv'
<1>1. /\ phase = "body" /\ phase' = phase /\ Top.kind = "with" /\ config' = Pop(config)
      /\ frames' = Pop(frames) /\ current_module' = current_module
  BY DEF LeaveWith, Close
<1>2. frames' \in Seq(FrameType) /\ config' \in Seq(Configs) /\ Len(frames) > 1
  BY <1>1, CloseFacts, Depth DEF IInv
<1>3. TypeOK'
  BY <1>2 DEF LeaveWith, IInv, TypeOK, selfs, FrameType
<1>4. Inv'
  BY <1>1, <1>2, <1>3, CloseInner
<1> QED BY <1>3, <1>4 DEF IInv

(* Steps that only change how the top frame is being left, and stuttering. *)
LEMMA FlowStep ==
  ASSUME IInv, \/ IgnoreReturn
               \/ \E f \in Flows \ {"run"} : Interrupt(f)
               \/ UNCHANGED vars
  PROVE  IInv'
<1>1. UNCHANGED <<frames, config, current_module, phase>>
  BY DEF IgnoreReturn, Interrupt, vars
<1>2. flow' \in Flows /\ (phase # "body" => flow' = "run")
  BY DEF IgnoreReturn, Interrupt, Running, vars, Flows, IInv, Inv, PhaseInv, TypeOK
<1>3. TypeOK'
  BY <1>1, <1>2 DEF IgnoreReturn, Interrupt, vars, selfs, IInv, TypeOK
<1>4. Inv'
  BY <1>1, <1>2, SameFrames DEF IInv
<1> QED BY <1>3, <1>4 DEF IInv

(* The evaluator starts in the invariant. *)
LEMMA InitIInv == Init => IInv
<1> SUFFICES ASSUME Init PROVE IInv
  OBVIOUS
<1>1. /\ config = <<Default>> /\ frames = <<>> /\ current_module = Root
      /\ phase = "idle" /\ flow = "run"
  BY DEF Init
<1>2. config \in Seq(Configs) /\ Len(config) <= 1 /\ SameButVm(Current(config), Default)
  BY <1>1, ResetFacts
<1>3. /\ frames \in Seq(FrameType) /\ self_stack \in Seq(Instances)
      /\ self_values \in Seq(Builtins) /\ Len(frames) = 0
  BY EmptySeq DEF Init
<1>4. TypeOK
  BY <1>1, <1>2, <1>3 DEF Init, TypeOK, Flows, FrameType
<1>5. PhaseInv /\ BaseInv /\ ModuleInv
  BY <1>1, <1>2 DEF PhaseInv, BaseInv, ModuleInv, ModuleTracksLoad
<1>6. KindInv /\ HeightInv /\ PolicyInv /\ PollutingInv
  BY <1>1, <1>3 DEF KindInv, HeightInv, PolicyInv, PollutingInv
<1> QED BY <1>4, <1>5, <1>6 DEF IInv, Inv

(* Every step keeps it, one case per action. *)
LEMMA StepIInv == IInv /\ [Next]_vars => IInv'
<1> SUFFICES ASSUME IInv, [Next]_vars PROVE IInv'
  OBVIOUS
<1>1. ASSUME NEW e \in {"file", "memory"}, Enter(e) PROVE IInv'
  BY <1>1, EnterStep
<1>2. CASE ImportFails
  BY <1>2, ImportFailsStep
<1>3. ASSUME NEW m \in Modules, NEW b \in Blocks \cup {NoBlock}, LoadModule(m, b) PROVE IInv'
  BY <1>3, LoadModuleStep
<1>4. CASE LeaveLoad
  BY <1>4, LeaveLoadStep
<1>5. ASSUME NEW b \in Blocks \cup {NoBlock}, BeginRoot(b) PROVE IInv'
  BY <1>5, BeginRootStep
<1>6. CASE LeaveRoot
  BY <1>6, LeaveRootStep
<1>7. CASE HostCall
  BY <1>7, HostCallStep
<1>8. CASE CallFunc
  BY <1>8, CallFuncStep
<1>9. CASE LeaveFunc
  BY <1>9, LeaveFuncStep
<1>10. ASSUME NEW r \in Instances \cup Builtins, CallMethod(r) PROVE IInv'
  BY <1>10, CallMethodStep
<1>11. CASE LeaveMethod
  BY <1>11, LeaveMethodStep
<1>12. ASSUME NEW b \in Blocks, EnterWith(b) PROVE IInv'
  BY <1>12, EnterWithStep
<1>13. CASE LeaveWith
  BY <1>13, LeaveWithStep
<1>14. CASE \/ IgnoreReturn
            \/ \E f \in Flows \ {"run"} : Interrupt(f)
            \/ UNCHANGED vars
  BY <1>14, FlowStep
<1> QED
  BY <1>1, <1>2, <1>3, <1>4, <1>5, <1>6, <1>7, <1>8, <1>9, <1>10, <1>11, <1>12, <1>13, <1>14
  DEF Next

(* The strengthened invariant holds whatever the evaluator is asked to do. *)
THEOREM SessionInductive == Spec => []IInv
<1> QED BY InitIInv, StepIInv, PTL DEF Spec

(* The session's state has its types: config is a stack of complete        *)
(* policies, each receiver stack holds receivers of its own kind.          *)
THEOREM SessionTypes == Spec => []TypeOK
<1>1. IInv => TypeOK
  BY DEF IInv
<1> QED BY <1>1, SessionInductive, PTL

(* Whatever was loaded, called, opened and interrupted before, a body runs *)
(* under its own block on top of its caller's policy: every push of the    *)
(* policy stack is popped on every way out (eval_module, eval_with_config).*)
THEOREM SessionPolicies == Spec => []PolicyNests
<1>1. IInv => PolicyNests
  <2> SUFFICES ASSUME IInv PROVE PolicyNests
    OBVIOUS
  <2>1. CASE frames = <<>>
    BY <2>1 DEF IInv, Inv, BaseInv, PolicyNests
  <2>2. CASE frames # <<>>
    BY <2>2, TopPolicy DEF PolicyNests
  <2> QED BY <2>1, <2>2
<1> QED BY <1>1, SessionInductive, PTL

(* current_module is the module being loaded, and the root everywhere      *)
(* else, also after a load that failed (eval_module restores it).          *)
THEOREM SessionModule == Spec => []ModuleTracksLoad
<1>1. IInv => ModuleTracksLoad
  BY DEF IInv, Inv, ModuleInv
<1> QED BY <1>1, SessionInductive, PTL

(* A dependency never runs under an entry-only policy other than the       *)
(* default one, unless a `with` block of its own code sets it: the E0021   *)
(* check of eval_module is enough.                                         *)
THEOREM SessionEntryPolicies == Spec => []EntryPolicyOnly
<1>1. IInv => EntryPolicyOnly
  <2> SUFFICES ASSUME IInv, frames # <<>>, frames[1].kind = "load",
                      \A i \in 2..Len(frames) : frames[i].kind # "with", NEW k \in Polluting
               PROVE  Current(config)[k] = Default[k]
    BY DEF EntryPolicyOnly
  <2>1. Len(frames) \in 1..Len(frames) /\ Top = frames[Len(frames)]
    BY FrameFacts DEF IInv
  <2>2. Top.policy[k] = Default[k]
    BY <2>1 DEF IInv, Inv, PollutingInv
  <2>3. k \in Keys \ {"vm"}
    BY KeysAssumption
  <2> QED BY <2>2, <2>3, TopPolicy DEF SameButVm
<1> QED BY <1>1, SessionInductive, PTL
-----------------------------------------------------------------------------
(* Counting the open methods with a receiver in S. *)
LEMMA CountNat ==
  ASSUME NEW fs, NEW S, NEW k \in Nat
  PROVE  IsFiniteSet(OpenMethods(fs, S, k)) /\ MethodCount(fs, S, k) \in Nat
<1>1. IsFiniteSet(1..k) /\ OpenMethods(fs, S, k) \in SUBSET (1..k)
  BY FS_Interval DEF OpenMethods
<1>2. IsFiniteSet(OpenMethods(fs, S, k))
  BY <1>1, FS_Subset
<1> QED BY <1>2, FS_CardinalityType DEF MethodCount

LEMMA CountNone ==
  ASSUME NEW fs, NEW S
  PROVE  OpenMethods(fs, S, 0) = {} /\ MethodCount(fs, S, 0) = 0
<1>1. OpenMethods(fs, S, 0) = {}
  BY DEF OpenMethods
<1> QED BY <1>1, FS_EmptySet DEF MethodCount

(* One more frame. *)
LEMMA CountStep ==
  ASSUME NEW fs, NEW S, NEW k \in Nat
  PROVE  /\ fs[k + 1].kind = "method" /\ fs[k + 1].rcv \in S =>
              /\ OpenMethods(fs, S, k + 1) = OpenMethods(fs, S, k) \cup {k + 1}
              /\ MethodCount(fs, S, k + 1) = MethodCount(fs, S, k) + 1
         /\ ~(fs[k + 1].kind = "method" /\ fs[k + 1].rcv \in S) =>
              /\ OpenMethods(fs, S, k + 1) = OpenMethods(fs, S, k)
              /\ MethodCount(fs, S, k + 1) = MethodCount(fs, S, k)
<1>1. ASSUME fs[k + 1].kind = "method", fs[k + 1].rcv \in S
      PROVE  /\ OpenMethods(fs, S, k + 1) = OpenMethods(fs, S, k) \cup {k + 1}
             /\ MethodCount(fs, S, k + 1) = MethodCount(fs, S, k) + 1
  <2>1. /\ OpenMethods(fs, S, k + 1) = OpenMethods(fs, S, k) \cup {k + 1}
        /\ k + 1 \notin OpenMethods(fs, S, k)
    BY <1>1 DEF OpenMethods
  <2>2. IsFiniteSet(OpenMethods(fs, S, k))
    BY CountNat
  <2>3. Cardinality(OpenMethods(fs, S, k) \cup {k + 1}) = Cardinality(OpenMethods(fs, S, k)) + 1
    BY <2>1, <2>2, FS_AddElement
  <2> QED BY <2>1, <2>3 DEF MethodCount
<1>2. ASSUME ~(fs[k + 1].kind = "method" /\ fs[k + 1].rcv \in S)
      PROVE  /\ OpenMethods(fs, S, k + 1) = OpenMethods(fs, S, k)
             /\ MethodCount(fs, S, k + 1) = MethodCount(fs, S, k)
  <2>1. OpenMethods(fs, S, k + 1) = OpenMethods(fs, S, k)
    BY <1>2 DEF OpenMethods
  <2> QED BY <2>1 DEF MethodCount
<1> QED BY <1>1, <1>2

(* The count depends on the first frames alone. *)
LEMMA CountSame ==
  ASSUME NEW fs, NEW gs, NEW S, NEW k \in Nat, \A i \in 1..k : fs[i] = gs[i]
  PROVE  /\ OpenMethods(fs, S, k) = OpenMethods(gs, S, k)
         /\ MethodCount(fs, S, k) = MethodCount(gs, S, k)
<1>1. OpenMethods(fs, S, k) = OpenMethods(gs, S, k)
  BY DEF OpenMethods
<1> QED BY <1>1 DEF MethodCount

(* An open method's number is among those of the stack. *)
LEMMA CountRange ==
  ASSUME NEW fs, NEW S, NEW n \in Nat, NEW i \in OpenMethods(fs, S, n)
  PROVE  i \in 1..n /\ MethodCount(fs, S, i) \in 1..MethodCount(fs, S, n)
<1>1. i \in 1..n /\ i \in Nat /\ i - 1 \in Nat /\ (i - 1) + 1 = i
      /\ fs[i].kind = "method" /\ fs[i].rcv \in S
  BY DEF OpenMethods
<1>2. MethodCount(fs, S, i) = MethodCount(fs, S, i - 1) + 1 /\ MethodCount(fs, S, i - 1) \in Nat
  <2>1. PICK k \in Nat : k = i - 1
    BY <1>1
  <2> QED BY <1>1, <2>1, CountStep, CountNat
<1>3. OpenMethods(fs, S, i) \in SUBSET OpenMethods(fs, S, n)
  BY <1>1 DEF OpenMethods
<1>4. IsFiniteSet(OpenMethods(fs, S, n)) /\ MethodCount(fs, S, n) \in Nat
  BY CountNat
<1>5. MethodCount(fs, S, i) <= MethodCount(fs, S, n)
  BY <1>3, <1>4, FS_Subset DEF MethodCount
<1> QED BY <1>1, <1>2, <1>4, <1>5

(* What Append adds to a sequence. *)
LEMMA AppendAny ==
  ASSUME NEW S, NEW s \in Seq(S), NEW e
  PROVE  /\ Len(s) \in Nat /\ Len(Append(s, e)) = Len(s) + 1
         /\ \A i \in 1..Len(s) : Append(s, e)[i] = s[i]
         /\ Append(s, e)[Len(s) + 1] = e
<1>1. s \in Seq(S \cup {e}) /\ e \in S \cup {e}
  OBVIOUS
<1> QED BY <1>1, AppendProperties, LenProperties

(* No frame, no receiver. *)
LEMMA ListsNothing ==
  ASSUME NEW S
  PROVE  ListsReceivers(<<>>, <<>>, S)
<1>1. Len(<<>>) = 0
  BY EmptySeq
<1> QED BY <1>1, CountNone DEF ListsReceivers

(* A frame that is no method with a receiver in S comes, or goes. *)
LEMMA ListsOther ==
  ASSUME NEW fs, NEW gs, NEW S, NEW stack, Len(fs) \in Nat, Len(gs) = Len(fs) + 1,
         \A i \in 1..Len(fs) : gs[i] = fs[i],
         ~(gs[Len(gs)].kind = "method" /\ gs[Len(gs)].rcv \in S)
  PROVE  ListsReceivers(stack, gs, S) <=> ListsReceivers(stack, fs, S)
<1> DEFINE n == Len(fs)
<1>1. n \in Nat /\ Len(gs) = n + 1
  OBVIOUS
<1>2. OpenMethods(gs, S, n + 1) = OpenMethods(fs, S, n) /\ MethodCount(gs, S, n + 1) = MethodCount(fs, S, n)
  <2>1. OpenMethods(gs, S, n + 1) = OpenMethods(gs, S, n) /\ MethodCount(gs, S, n + 1) = MethodCount(gs, S, n)
    BY <1>1, CountStep
  <2>2. OpenMethods(fs, S, n) = OpenMethods(gs, S, n) /\ MethodCount(fs, S, n) = MethodCount(gs, S, n)
    BY <1>1, CountSame
  <2> QED BY <2>1, <2>2
<1>3. \A i \in OpenMethods(fs, S, n) : gs[i] = fs[i] /\ MethodCount(gs, S, i) = MethodCount(fs, S, i)
  <2>1. ASSUME NEW i \in OpenMethods(fs, S, n)
        PROVE  gs[i] = fs[i] /\ MethodCount(gs, S, i) = MethodCount(fs, S, i)
    <3>1. i \in 1..n /\ i \in Nat /\ \A j \in 1..i : gs[j] = fs[j]
      BY <1>1 DEF OpenMethods
    <3> QED BY <3>1, CountSame
  <2> QED BY <2>1
<1> HIDE DEF n
<1>4. n = Len(fs)
  BY DEF n
<1> QED BY <1>1, <1>2, <1>3, <1>4 DEF ListsReceivers

(* A method with a receiver in S comes: its receiver is pushed. *)
LEMMA ListsPush ==
  ASSUME NEW fs, NEW gs, NEW S, NEW s, NEW t, Len(fs) \in Nat, Len(gs) = Len(fs) + 1,
         \A i \in 1..Len(fs) : gs[i] = fs[i],
         gs[Len(gs)].kind = "method", gs[Len(gs)].rcv \in S,
         Len(s) \in Nat, Len(t) = Len(s) + 1, t[Len(t)] = gs[Len(gs)].rcv,
         \A i \in 1..Len(s) : t[i] = s[i],
         ListsReceivers(s, fs, S)
  PROVE  ListsReceivers(t, gs, S)
<1> DEFINE n == Len(fs)
<1> DEFINE m == Len(s)
<1>1. n \in Nat /\ Len(gs) = n + 1 /\ m \in Nat /\ Len(t) = m + 1
      /\ t[m + 1] = gs[n + 1].rcv
  OBVIOUS
<1>2. m = MethodCount(fs, S, n) /\ \A i \in OpenMethods(fs, S, n) : s[MethodCount(fs, S, i)] = fs[i].rcv
  BY DEF ListsReceivers
<1>3. /\ OpenMethods(gs, S, n + 1) = OpenMethods(fs, S, n) \cup {n + 1}
      /\ MethodCount(gs, S, n + 1) = m + 1
  <2>1. /\ OpenMethods(gs, S, n + 1) = OpenMethods(gs, S, n) \cup {n + 1}
        /\ MethodCount(gs, S, n + 1) = MethodCount(gs, S, n) + 1
    BY <1>1, CountStep
  <2>2. OpenMethods(fs, S, n) = OpenMethods(gs, S, n) /\ MethodCount(fs, S, n) = MethodCount(gs, S, n)
    BY <1>1, CountSame
  <2> QED BY <1>2, <2>1, <2>2
<1>4. ASSUME NEW i \in OpenMethods(fs, S, n)
      PROVE  t[MethodCount(gs, S, i)] = gs[i].rcv
  <2>1. i \in 1..n /\ i \in Nat /\ \A j \in 1..i : gs[j] = fs[j]
    BY <1>1 DEF OpenMethods
  <2>2. MethodCount(gs, S, i) = MethodCount(fs, S, i)
    BY <2>1, CountSame
  <2>3. MethodCount(fs, S, i) \in 1..m
    BY <1>1, <1>2, CountRange
  <2> QED BY <1>2, <2>1, <2>2, <2>3
<1> HIDE DEF n, m
<1>5. t[MethodCount(gs, S, n + 1)] = gs[n + 1].rcv
  BY <1>1, <1>3
<1> QED BY <1>1, <1>3, <1>4, <1>5 DEF ListsReceivers

(* It goes: its receiver, the last one, is popped. *)
LEMMA ListsPop ==
  ASSUME NEW fs, NEW gs, NEW S, NEW s, NEW t, Len(fs) \in Nat, Len(gs) = Len(fs) + 1,
         \A i \in 1..Len(fs) : gs[i] = fs[i],
         gs[Len(gs)].kind = "method", gs[Len(gs)].rcv \in S,
         Len(t) \in Nat, t # <<>> => Len(s) = Len(t) - 1,
         Len(t) # 0 => t # <<>>,
         \A i \in 1..(Len(t) - 1) : s[i] = t[i],
         ListsReceivers(t, gs, S)
  PROVE  ListsReceivers(s, fs, S)
<1> DEFINE n == Len(fs)
<1>1. n \in Nat /\ Len(gs) = n + 1
  OBVIOUS
<1>2. /\ OpenMethods(gs, S, n + 1) = OpenMethods(fs, S, n) \cup {n + 1}
      /\ MethodCount(gs, S, n + 1) = MethodCount(fs, S, n) + 1
      /\ MethodCount(fs, S, n) \in Nat
  <2>1. /\ OpenMethods(gs, S, n + 1) = OpenMethods(gs, S, n) \cup {n + 1}
        /\ MethodCount(gs, S, n + 1) = MethodCount(gs, S, n) + 1
    BY <1>1, CountStep
  <2>2. OpenMethods(fs, S, n) = OpenMethods(gs, S, n) /\ MethodCount(fs, S, n) = MethodCount(gs, S, n)
    BY <1>1, CountSame
  <2> QED BY <1>1, <2>1, <2>2, CountNat
<1>3. /\ Len(t) = MethodCount(fs, S, n) + 1
      /\ \A i \in OpenMethods(gs, S, n + 1) : t[MethodCount(gs, S, i)] = gs[i].rcv
  BY <1>1, <1>2 DEF ListsReceivers
<1>4. Len(s) = MethodCount(fs, S, n) /\ Len(s) = Len(t) - 1
  BY <1>2, <1>3
<1>5. ASSUME NEW i \in OpenMethods(fs, S, n)
      PROVE  s[MethodCount(fs, S, i)] = fs[i].rcv
  <2>1. i \in 1..n /\ i \in Nat /\ \A j \in 1..i : gs[j] = fs[j]
    BY <1>1 DEF OpenMethods
  <2>2. MethodCount(gs, S, i) = MethodCount(fs, S, i)
    BY <2>1, CountSame
  <2>3. MethodCount(fs, S, i) \in 1..MethodCount(fs, S, n)
    BY <1>1, CountRange
  <2>4. i \in OpenMethods(gs, S, n + 1) /\ gs[i] = fs[i]
    BY <1>2, <2>1
  <2> QED BY <1>3, <1>4, <2>2, <2>3, <2>4
<1> QED BY <1>4, <1>5 DEF ListsReceivers
-----------------------------------------------------------------------------
(* The receiver stacks, and what a method frame's receiver can be. *)
SelfInv ==
  /\ SelfStacksMatchCalls
  /\ \A i \in 1..Len(frames) : frames[i].kind = "method" => frames[i].rcv \in Instances \cup Builtins

(* Frames come and go that are no methods; the receiver stacks stay. *)
LEMMA OpenKeepsSelf ==
  ASSUME TypeOK, SelfInv, NEW f, f.kind # "method", frames' = Append(frames, f), UNCHANGED selfs
  PROVE  SelfInv'
<1>1. /\ Len(frames) \in Nat /\ Len(frames') = Len(frames) + 1
      /\ \A i \in 1..Len(frames) : frames'[i] = frames[i]
      /\ frames'[Len(frames')] = f
  BY FrameFacts, AppendAny
<1>2. \A S, st : ListsReceivers(st, frames', S) <=> ListsReceivers(st, frames, S)
  BY <1>1, ListsOther
<1>3. SelfStacksMatchCalls'
  BY <1>2 DEF SelfInv, SelfStacksMatchCalls, selfs
<1>4. ASSUME NEW i \in 1..Len(frames'), frames'[i].kind = "method"
      PROVE  frames'[i].rcv \in Instances \cup Builtins
  <2>1. i # Len(frames')
    BY <1>1, <1>4
  <2>2. i \in 1..Len(frames)
    BY <1>1, <2>1
  <2> QED BY <1>1, <1>4, <2>2 DEF SelfInv
<1> QED BY <1>3, <1>4 DEF SelfInv

LEMMA CloseKeepsSelf ==
  ASSUME TypeOK, SelfInv, frames # <<>>, Top.kind # "method", frames' = Pop(frames), UNCHANGED selfs
  PROVE  SelfInv'
<1>1. /\ Len(frames') \in Nat /\ Len(frames) = Len(frames') + 1
      /\ \A i \in 1..Len(frames') : frames'[i] = frames[i]
      /\ frames[Len(frames)] = Top
  BY FrameFacts, PopFacts
<1>2. \A S, st : ListsReceivers(st, frames, S) <=> ListsReceivers(st, frames', S)
  BY <1>1, ListsOther
<1>3. SelfStacksMatchCalls'
  BY <1>2 DEF SelfInv, SelfStacksMatchCalls, selfs
<1>4. ASSUME NEW i \in 1..Len(frames'), frames'[i].kind = "method"
      PROVE  frames'[i].rcv \in Instances \cup Builtins
  BY <1>1, <1>4 DEF SelfInv
<1> QED BY <1>3, <1>4 DEF SelfInv

(* CallMethod pushes its receiver on the stack of its kind. *)
LEMMA CallMethodKeepsSelf ==
  ASSUME TypeOK, SelfInv, NEW r \in Instances \cup Builtins, CallMethod(r)
  PROVE  SelfInv'
<1>1. PICK f : f = Frame("method", NoBlock, current_module, r)
  OBVIOUS
<1>2. f.kind = "method" /\ f.rcv = r
  BY <1>1 DEF Frame
<1>3. frames' = Append(frames, f)
  BY <1>1 DEF CallMethod, Open
<1>4. /\ Len(frames) \in Nat /\ Len(frames') = Len(frames) + 1
      /\ \A i \in 1..Len(frames) : frames'[i] = frames[i]
      /\ frames'[Len(frames')] = f
  BY <1>3, FrameFacts, AppendAny
<1>5. ListsReceivers(self_stack, frames, Instances) /\ ListsReceivers(self_values, frames, Builtins)
  BY DEF SelfInv, SelfStacksMatchCalls
<1>6. self_stack \in Seq(Instances) /\ self_values \in Seq(Builtins)
  BY DEF TypeOK
<1>7. ASSUME r \in Instances PROVE SelfStacksMatchCalls'
  <2>1. self_stack' = Append(self_stack, r) /\ self_values' = self_values /\ r \notin Builtins
    BY <1>7, NamesAssumption DEF CallMethod
  <2>2. /\ Len(self_stack) \in Nat /\ Len(self_stack') = Len(self_stack) + 1
        /\ self_stack'[Len(self_stack')] = r
        /\ \A i \in 1..Len(self_stack) : self_stack'[i] = self_stack[i]
    BY <1>6, <2>1, AppendAny
  <2>3. ListsReceivers(self_stack', frames', Instances)
    BY <1>2, <1>4, <1>5, <1>7, <2>2, ListsPush
  <2>4. ListsReceivers(self_values', frames', Builtins)
    BY <1>2, <1>4, <1>5, <2>1, ListsOther
  <2> QED BY <2>3, <2>4 DEF SelfStacksMatchCalls
<1>8. ASSUME r \in Builtins PROVE SelfStacksMatchCalls'
  <2>1. self_values' = Append(self_values, r) /\ self_stack' = self_stack /\ r \notin Instances
    BY <1>8, NamesAssumption DEF CallMethod
  <2>2. /\ Len(self_values) \in Nat /\ Len(self_values') = Len(self_values) + 1
        /\ self_values'[Len(self_values')] = r
        /\ \A i \in 1..Len(self_values) : self_values'[i] = self_values[i]
    BY <1>6, <2>1, AppendAny
  <2>3. ListsReceivers(self_values', frames', Builtins)
    BY <1>2, <1>4, <1>5, <1>8, <2>2, ListsPush
  <2>4. ListsReceivers(self_stack', frames', Instances)
    BY <1>2, <1>4, <1>5, <2>1, ListsOther
  <2> QED BY <2>3, <2>4 DEF SelfStacksMatchCalls
<1>9. ASSUME NEW i \in 1..Len(frames'), frames'[i].kind = "method"
      PROVE  frames'[i].rcv \in Instances \cup Builtins
  <2>1. CASE i = Len(frames')
    BY <1>2, <1>4, <2>1
  <2>2. CASE i # Len(frames')
    <3>1. i \in 1..Len(frames)
      BY <1>4, <2>2
    <3> QED BY <1>4, <1>9, <3>1 DEF SelfInv
  <2> QED BY <2>1, <2>2
<1>10. SelfStacksMatchCalls'
  BY <1>7, <1>8
<1> QED BY <1>9, <1>10 DEF SelfInv

(* LeaveMethod pops the stack its receiver was pushed on. *)
LEMMA LeaveMethodKeepsSelf ==
  ASSUME TypeOK, SelfInv, frames # <<>>, LeaveMethod
  PROVE  SelfInv'
<1>1. frames' = Pop(frames) /\ Top.kind = "method"
  BY DEF LeaveMethod, CallEnds, Close
<1>2. /\ Len(frames') \in Nat /\ Len(frames) = Len(frames') + 1
      /\ \A i \in 1..Len(frames') : frames[i] = frames'[i]
      /\ frames[Len(frames)] = Top /\ Len(frames) \in 1..Len(frames)
  BY <1>1, FrameFacts, PopFacts
<1>3. Top.rcv \in Instances \cup Builtins
  BY <1>1, <1>2 DEF SelfInv
<1>4. ListsReceivers(self_stack, frames, Instances) /\ ListsReceivers(self_values, frames, Builtins)
  BY DEF SelfInv, SelfStacksMatchCalls
<1>5. self_stack \in Seq(Instances) /\ self_values \in Seq(Builtins)
  BY DEF TypeOK
<1>6. ASSUME Top.rcv \in Instances PROVE SelfStacksMatchCalls'
  <2>1. self_stack' = Pop(self_stack) /\ self_values' = self_values /\ Top.rcv \notin Builtins
    BY <1>6, NamesAssumption DEF LeaveMethod
  <2>2. /\ Len(self_stack) \in Nat /\ (Len(self_stack) # 0 => self_stack # <<>>)
        /\ self_stack # <<>> => Len(self_stack') = Len(self_stack) - 1
        /\ \A i \in 1..(Len(self_stack) - 1) : self_stack'[i] = self_stack[i]
    BY <1>5, <2>1, PopFacts, LenProperties, EmptySeq
  <2>3. ListsReceivers(self_stack', frames', Instances)
    BY <1>1, <1>2, <1>4, <1>6, <2>2, ListsPop
  <2>4. ListsReceivers(self_values', frames', Builtins)
    BY <1>2, <1>4, <2>1, ListsOther
  <2> QED BY <2>3, <2>4 DEF SelfStacksMatchCalls
<1>7. ASSUME Top.rcv \notin Instances PROVE SelfStacksMatchCalls'
  <2>1. self_values' = Pop(self_values) /\ self_stack' = self_stack /\ Top.rcv \in Builtins
    BY <1>3, <1>7 DEF LeaveMethod
  <2>2. /\ Len(self_values) \in Nat /\ (Len(self_values) # 0 => self_values # <<>>)
        /\ self_values # <<>> => Len(self_values') = Len(self_values) - 1
        /\ \A i \in 1..(Len(self_values) - 1) : self_values'[i] = self_values[i]
    BY <1>5, <2>1, PopFacts, LenProperties, EmptySeq
  <2>3. ListsReceivers(self_values', frames', Builtins)
    BY <1>1, <1>2, <1>4, <2>1, <2>2, ListsPop
  <2>4. ListsReceivers(self_stack', frames', Instances)
    BY <1>2, <1>4, <1>7, <2>1, ListsOther
  <2> QED BY <2>3, <2>4 DEF SelfStacksMatchCalls
<1>8. ASSUME NEW i \in 1..Len(frames'), frames'[i].kind = "method"
      PROVE  frames'[i].rcv \in Instances \cup Builtins
  BY <1>2, <1>8 DEF SelfInv
<1>9. SelfStacksMatchCalls'
  BY <1>6, <1>7
<1> QED BY <1>8, <1>9 DEF SelfInv

(* Steps that leave frames and receivers alone. *)
LEMMA SameKeepsSelf ==
  ASSUME SelfInv, UNCHANGED <<frames, selfs>>
  PROVE  SelfInv'
BY DEF SelfInv, SelfStacksMatchCalls, ListsReceivers, OpenMethods, MethodCount, selfs

LEMMA InitSelf == Init => SelfInv
<1> SUFFICES ASSUME Init PROVE SelfInv
  OBVIOUS
<1>1. frames = <<>> /\ self_stack = <<>> /\ self_values = <<>> /\ Len(frames) = 0
  BY EmptySeq DEF Init
<1> QED BY <1>1, ListsNothing DEF SelfInv, SelfStacksMatchCalls

(* Only methods touch the receivers, and nothing else forgets one. *)
LEMMA StepSelf == IInv /\ SelfInv /\ [Next]_vars => SelfInv'
<1> SUFFICES ASSUME IInv, SelfInv, [Next]_vars PROVE SelfInv'
  OBVIOUS
<1>0. TypeOK
  BY DEF IInv
<1>1. CASE \/ \E e \in {"file", "memory"} : Enter(e)
           \/ ImportFails \/ IgnoreReturn
           \/ \E f \in Flows \ {"run"} : Interrupt(f)
           \/ UNCHANGED vars
  <2>1. UNCHANGED <<frames, selfs>>
    BY <1>1 DEF Enter, ImportFails, IgnoreReturn, Interrupt, vars, selfs
  <2> QED BY <2>1, SameKeepsSelf
<1>2. CASE \/ \E m \in Modules, b \in Blocks \cup {NoBlock} : LoadModule(m, b)
           \/ \E b \in Blocks \cup {NoBlock} : BeginRoot(b)
           \/ HostCall \/ CallFunc
           \/ \E b \in Blocks : EnterWith(b)
  <2>1. /\ UNCHANGED selfs
        /\ \E k \in {"load", "root", "func", "with"}, b \in Blocks \cup {NoBlock} : \E p, r : Open(k, b, p, r)
    BY <1>2 DEF LoadModule, BeginRoot, HostCall, CallFunc, EnterWith
  <2>2. PICK k \in {"load", "root", "func", "with"}, b \in Blocks \cup {NoBlock} : \E p, r : Open(k, b, p, r)
    BY <2>1
  <2>3. PICK p, r : Open(k, b, p, r)
    BY <2>2
  <2>4. PICK f : f = Frame(k, b, p, r)
    OBVIOUS
  <2>5. f.kind = k
    BY <2>4 DEF Frame
  <2>6. frames' = Append(frames, f) /\ f.kind # "method"
    BY <2>3, <2>4, <2>5 DEF Open
  <2> QED BY <1>0, <2>1, <2>6, OpenKeepsSelf
<1>3. CASE LeaveLoad \/ LeaveRoot \/ LeaveFunc \/ LeaveWith
  <2>1. /\ UNCHANGED selfs /\ phase = "body" /\ frames' = Pop(frames)
        /\ Top.kind \in {"load", "root", "func", "with"}
    BY <1>3 DEF LeaveLoad, LeaveRoot, LeaveFunc, LeaveWith, CallEnds, Close
  <2>2. frames # <<>> /\ Top.kind # "method"
    BY <2>1, Depth
  <2> QED BY <1>0, <2>1, <2>2, CloseKeepsSelf
<1>4. ASSUME NEW r \in Instances \cup Builtins, CallMethod(r) PROVE SelfInv'
  BY <1>0, <1>4, CallMethodKeepsSelf
<1>5. CASE LeaveMethod
  <2>1. frames # <<>>
    BY <1>5, Depth DEF LeaveMethod
  <2> QED BY <1>0, <1>5, <2>1, LeaveMethodKeepsSelf
<1> QED BY <1>1, <1>2, <1>3, <1>4, <1>5 DEF Next

(* Each receiver stack lists the open methods of its kind, in order, also  *)
(* after an error or a `?` went through one: call_method pops on every way *)
(* out, from the stack it pushed on.                                       *)
THEOREM SessionReceivers == Spec => []SelfStacksMatchCalls
<1>1. IInv /\ SelfInv /\ [Next]_vars => SelfInv'
  BY StepSelf
<1>2. SelfInv => SelfStacksMatchCalls
  BY DEF SelfInv
<1> QED BY <1>1, <1>2, InitSelf, SessionInductive, PTL DEF Spec
=============================================================================
