------------------------------ MODULE CpuProofs ------------------------------
(***************************************************************************)
(* Proofs about Cpu, for any program, any set of addresses, any room on    *)
(* the stack and any values written to IF and IE.                          *)
(*                                                                         *)
(* CpuInv is inductive.  Type correctness alone is not enough: the bound   *)
(* of the stack needs the room kept while interrupts are enabled, and the  *)
(* masking of a vector needs the effective master enable, with its latch.  *)
(***************************************************************************)
EXTENDS Cpu, SequenceTheorems, TLAPS

CpuInv == TypeOK /\ StackBounded /\ HandlerStartsMasked

(* The stack after a return: one address shorter, the rest in place, and    *)
(* the address taken is an address.                                         *)
LEMMA PopSeq ==
  ASSUME NEW S, NEW s \in Seq(S), s # <<>>
  PROVE  /\ SubSeq(s, 1, Len(s) - 1) \in Seq(S)
         /\ Len(SubSeq(s, 1, Len(s) - 1)) = Len(s) - 1
         /\ \A k \in 1 .. Len(s) - 1 : SubSeq(s, 1, Len(s) - 1)[k] = s[k]
         /\ Len(s) \in 1 .. Len(s)
         /\ s[Len(s)] \in S
PROOF
  <1> DEFINE n == Len(s)
             t == SubSeq(s, 1, n - 1)
  <1>1. n \in Nat \ {0}
    BY EmptySeq
  <1>2. \A k \in 1 .. n : s[k] \in S
    BY ElementOfSeq
  <1>3. \A k \in 1 .. n - 1 : s[k] \in S
    BY <1>1, <1>2
  <1>4. /\ t \in Seq(S)
        /\ Len(t) = IF 1 <= n - 1 THEN n - 1 - 1 + 1 ELSE 0
        /\ \A k \in 1 .. n - 1 - 1 + 1 : t[k] = s[1 + k - 1]
    BY <1>1, <1>3, SubSeqProperties
  <1> HIDE DEF t, n
  <1>5. Len(t) = n - 1
    BY <1>1, <1>4
  <1>6. ASSUME NEW k \in 1 .. n - 1
        PROVE  t[k] = s[k]
    <2>1. k \in 1 .. n - 1 - 1 + 1 /\ 1 + k - 1 = k
      BY <1>1
    <2> QED
      BY <2>1, <1>4
  <1>7. n \in 1 .. n
    BY <1>1
  <1>8. /\ t \in Seq(S)
        /\ Len(t) = n - 1
        /\ \A k \in 1 .. n - 1 : t[k] = s[k]
        /\ n \in 1 .. n
        /\ s[n] \in S
    BY <1>2, <1>4, <1>5, <1>6, <1>7
  <1> QED
    BY <1>8 DEF t, n

(* The vectors are addresses of their own.                                 *)
LEMMA VectorsApart ==
  /\ \A i \in Sources : Vector(i) \in Places /\ Vector(i) \in Vectors
  /\ \A a \in Code : a \in Places /\ a \notin Vectors
  BY CodeAssumption DEF Places, Vectors

(* At power up interrupts are off and the stack is empty.                   *)
LEMMA InitInv == Init => CpuInv
PROOF
  <1> SUFFICES ASSUME Init PROVE CpuInv
    OBVIOUS
  <1> USE DEF Init
  <1>1. Len(stack) = 0 /\ stack \in Seq(Places)
    BY EmptySeq
  <1>2. if_reg \in SUBSET Bits
    BY DEF Bits, VBLANK
  <1>3. TypeOK
    BY <1>1, <1>2, VectorsApart DEF TypeOK
  <1>4. StackBounded
    BY <1>1, StackAssumption DEF StackBounded, HasRoom, Ime
  <1>5. HandlerStartsMasked
    BY <1>1, VectorsApart DEF HandlerStartsMasked, Ime
  <1> QED
    BY <1>3, <1>4, <1>5 DEF CpuInv
-----------------------------------------------------------------------------
(* The steps that leave the stack alone and do not enter a handler keep the *)
(* invariant if they enable interrupts only with room to spare.             *)
LEMMA StraightStep ==
  ASSUME CpuInv,
         if_reg' \in SUBSET Bits, ie' \in SUBSET Bits, halt' \in BOOLEAN,
         ime' \in BOOLEAN, ime_pending' \in BOOLEAN,
         pc' \in Code \/ (pc' = pc /\ (Ime' => Ime)),
         stack' = stack,
         Ime' => Ime \/ HasRoom(1)
  PROVE  CpuInv'
PROOF
  <1>1. TypeOK'
    BY VectorsApart DEF CpuInv, TypeOK
  <1>2. StackBounded'
    BY DEF CpuInv, StackBounded, HasRoom
  <1>3. HandlerStartsMasked'
    BY VectorsApart DEF CpuInv, HandlerStartsMasked
  <1> QED
    BY <1>1, <1>2, <1>3 DEF CpuInv

(* Delivery pushes an address of the program, since a vector is masked, and *)
(* takes up the room kept for it.                                           *)
LEMMA DispatchStep ==
  ASSUME CpuInv, NEW i \in Sources, Dispatch(i)
  PROVE  CpuInv'
PROOF
  <1> USE DEF CpuInv, Dispatch
  <1>1. pc \in Code
    BY VectorsApart DEF TypeOK, HandlerStartsMasked, Places
  <1>2. /\ stack' \in Seq(Places)
        /\ Len(stack') = Len(stack) + 1
        /\ \A k \in 1 .. Len(stack) : stack'[k] = stack[k]
        /\ stack'[Len(stack) + 1] = pc
    BY AppendProperties DEF TypeOK
  <1>3. Len(stack) \in Nat
    BY LenProperties DEF TypeOK
  <1>4. Ime' = FALSE
    BY DEF Ime
  <1>5. TypeOK'
    BY <1>2, VectorsApart DEF TypeOK
  <1>6. StackBounded'
    BY <1>2, <1>3, <1>4, StackAssumption DEF StackBounded, HasRoom
  <1>7. HandlerStartsMasked'
    BY <1>1, <1>2, <1>3, <1>4 DEF HandlerStartsMasked
  <1> QED
    BY <1>5, <1>6, <1>7

(* A call needs room for its return address, and for a handler if one may come. *)
LEMMA CallStep ==
  ASSUME CpuInv, Call
  PROVE  CpuInv'
PROOF
  <1> USE DEF CpuInv, Call, GoesOn, KeepIme
  <1>1. PICK next \in Code : stack' = Append(stack, next)
    OBVIOUS
  <1>2. /\ stack' \in Seq(Places)
        /\ Len(stack') = Len(stack) + 1
        /\ \A k \in 1 .. Len(stack) : stack'[k] = stack[k]
        /\ stack'[Len(stack) + 1] = next
    BY <1>1, VectorsApart, AppendProperties DEF TypeOK
  <1>3. Len(stack) \in Nat
    BY LenProperties DEF TypeOK
  <1>4. Ime' = Ime
    BY DEF Ime, TypeOK
  <1>5. TypeOK'
    BY <1>2, VectorsApart DEF TypeOK, Ime
  <1>6. StackBounded'
    BY <1>2, <1>3, <1>4, StackAssumption DEF StackBounded, HasRoom
  <1>7. HandlerStartsMasked'
    BY <1>2, <1>3, VectorsApart DEF HandlerStartsMasked
  <1> QED
    BY <1>5, <1>6, <1>7

(* A return frees an address, which is what RETI needs to turn interrupts   *)
(* on, and comes back to an address of the program, never to a vector.      *)
LEMMA PopStep ==
  ASSUME CpuInv, Pop, ime' \in BOOLEAN, ime_pending' \in BOOLEAN
  PROVE  CpuInv'
PROOF
  <1> USE DEF CpuInv, Pop
  <1>1. /\ stack' \in Seq(Places)
        /\ Len(stack') = Len(stack) - 1
        /\ \A k \in 1 .. Len(stack) - 1 : stack'[k] = stack[k]
        /\ Len(stack) \in 1 .. Len(stack)
    BY PopSeq DEF TypeOK
  <1>2. Len(stack) \in Nat
    BY LenProperties DEF TypeOK
  <1>3. pc' \in Code
    BY <1>1 DEF HandlerStartsMasked
  <1>4. TypeOK'
    BY <1>1, <1>3, VectorsApart DEF TypeOK
  <1>5. StackBounded'
    BY <1>1, <1>2, StackAssumption DEF StackBounded, HasRoom
  <1>6. HandlerStartsMasked'
    BY <1>1, <1>2, <1>3, VectorsApart DEF HandlerStartsMasked
  <1> QED
    BY <1>4, <1>5, <1>6

(* Every step of the CPU and of the devices keeps the invariant.            *)
LEMMA NextInv == CpuInv /\ [Next]_vars => CpuInv'
PROOF
  <1> SUFFICES ASSUME CpuInv, [Next]_vars PROVE CpuInv'
    OBVIOUS
  <1>0. TypeOK
    BY DEF CpuInv
  <1>1. ASSUME NEW i \in Sources, Dispatch(i) PROVE CpuInv'
    BY <1>1, DispatchStep
  <1>2. CASE HaltedStep
    BY <1>0, <1>2, StraightStep DEF HaltedStep, KeepIme, Ime, TypeOK
  <1>3. ASSUME NEW S \in SelfRaised, Plain(S) PROVE CpuInv'
    <2>1. if_reg' \in SUBSET Bits
      BY <1>0, <1>3 DEF Plain, RequestAwake, SelfRaised, TypeOK, Bits, TIMER
    <2> QED
      BY <1>0, <1>3, <2>1, StraightStep DEF Plain, GoesOn, RequestAwake, KeepIme, Ime, TypeOK
  <1>4. CASE Ei
    BY <1>0, <1>4, StraightStep DEF Ei, GoesOn, Ime, TypeOK
  <1>5. CASE Di
    BY <1>0, <1>5, StraightStep DEF Di, GoesOn, Ime, TypeOK
  <1>6. CASE Halt
    BY <1>0, <1>6, StraightStep DEF Halt, GoesOn, KeepIme, Ime, TypeOK
  <1>7. CASE WriteIf
    BY <1>0, <1>7, StraightStep, ValueAssumption DEF WriteIf, GoesOn, KeepIme, Ime, TypeOK
  <1>8. CASE WriteIe
    BY <1>0, <1>8, StraightStep, ValueAssumption DEF WriteIe, GoesOn, KeepIme, Ime, TypeOK
  <1>9. CASE Call
    BY <1>9, CallStep
  <1>10. CASE Ret
    BY <1>0, <1>10, PopStep DEF Ret, KeepIme, Ime, TypeOK
  <1>11. CASE Reti
    BY <1>11, PopStep DEF Reti
  <1>12. ASSUME NEW S \in SUBSET DeviceSources, DeviceRequest(S) PROVE CpuInv'
    <2>1. if_reg' \in SUBSET Bits
      BY <1>0, <1>12
      DEF DeviceRequest, RequestInterrupts, DeviceSources, TypeOK, Bits, VBLANK, LCD_STAT, TIMER
    <2> QED
      BY <1>0, <1>12, <2>1, StraightStep DEF DeviceRequest, RequestInterrupts, Ime, TypeOK
  <1>13. CASE JoypadPress
    <2>1. if_reg' \in SUBSET Bits
      BY <1>0, <1>13 DEF JoypadPress, RequestWithoutWake, TypeOK, Bits, JOYPAD
    <2> QED
      BY <1>0, <1>13, <2>1, StraightStep DEF JoypadPress, RequestWithoutWake, Ime, TypeOK
  <1>14. CASE UNCHANGED vars
    BY <1>0, <1>14, StraightStep DEF vars, Ime, TypeOK
  <1> QED
    BY <1>1, <1>2, <1>3, <1>4, <1>5, <1>6, <1>7, <1>8, <1>9, <1>10, <1>11, <1>12,
       <1>13, <1>14
    DEF Next, Step, Environment
-----------------------------------------------------------------------------
(* Every behaviour of the CPU keeps the inductive invariant.                *)
THEOREM Invariance == Spec => []CpuInv
PROOF
  <1> QED
    BY InitInv, NextInv, PTL DEF Spec

(* The state of the CPU always has its type: TypeOK of Cpu.                 *)
THEOREM TypeCorrect == Spec => []TypeOK
PROOF
  <1>1. CpuInv => TypeOK
    BY DEF CpuInv
  <1> QED
    BY <1>1, Invariance, PTL

(* Interrupts never overrun the room the program left on its stack.         *)
THEOREM StackIsBounded == Spec => []StackBounded
PROOF
  <1>1. CpuInv => StackBounded
    BY DEF CpuInv
  <1> QED
    BY <1>1, Invariance, PTL

(* Every handler executes its first instruction before another is entered. *)
THEOREM HandlersStartMasked == Spec => []HandlerStartsMasked
PROOF
  <1>1. CpuInv => HandlerStartsMasked
    BY DEF CpuInv
  <1> QED
    BY <1>1, Invariance, PTL
-----------------------------------------------------------------------------
(* Each step of the CPU is a step of the contract.                          *)
LEMMA RunsWhenExecutes == TypeOK /\ Executes => Contract!Runs
  BY DEF TypeOK, Executes, Delivers, Deliverable, Pending,
         Contract!Runs, Contract!Live, Contract!Servable

(* A delivery serves the first of the interrupts that can be served.        *)
LEMMA DispatchServes ==
  ASSUME NEW i \in Sources, Dispatch(i)
  PROVE  Contract!Serve(i)
PROOF
  <1>1. Ime' = FALSE
    BY DEF Dispatch, Ime
  <1> QED
    BY <1>1 DEF Dispatch, IsFirst, Deliverable, Pending, Vector,
       Contract!Serve, Contract!Servable, Contract!Live, Contract!Handler

(* Applying the latch of EI does not turn the master switch.                *)
LEMMA KeepImeKeeps == TypeOK /\ KeepIme => Ime' = Ime
  BY DEF TypeOK, KeepIme, Ime

(* Every step of the CPU is one of the contract, or a stutter.              *)
LEMMA StepKeepsContract ==
  ASSUME TypeOK, Next
  PROVE  Contract!Next
PROOF
  <1>1. ASSUME NEW i \in Sources, Dispatch(i) PROVE Contract!Next
    BY <1>1, DispatchServes DEF Contract!Next
  <1>2. CASE HaltedStep
    <2>1. Contract!Sleep
      BY <1>2, KeepImeKeeps
      DEF HaltedStep, Delivers, Deliverable, Pending,
          Contract!Sleep, Contract!Servable, Contract!Live
    <2> QED
      BY <2>1 DEF Contract!Next
  <1>3. ASSUME NEW S \in SelfRaised, Plain(S) PROVE Contract!Next
    <2>1. if_reg \subseteq if_reg' /\ if_reg' \subseteq if_reg \cup Sources
      BY <1>3 DEF Plain, RequestAwake, SelfRaised, Sources
    <2>2. Contract!Compute
      BY <1>3, <2>1, KeepImeKeeps, RunsWhenExecutes
      DEF Plain, GoesOn, RequestAwake, Contract!Compute
    <2> QED
      BY <2>2 DEF Contract!Next
  <1>4. CASE Ei
    <2>1. Contract!Switch
      BY <1>4, RunsWhenExecutes DEF Ei, GoesOn, Ime, Contract!Switch
    <2> QED
      BY <2>1 DEF Contract!Next
  <1>5. CASE Di
    <2>1. Contract!Switch
      BY <1>5, RunsWhenExecutes DEF Di, GoesOn, Ime, Contract!Switch
    <2> QED
      BY <2>1 DEF Contract!Next
  <1>6. CASE Halt
    <2>1. Contract!Compute
      BY <1>6, KeepImeKeeps, RunsWhenExecutes DEF Halt, GoesOn, Contract!Compute
    <2> QED
      BY <2>1 DEF Contract!Next
  <1>7. CASE WriteIf
    <2>1. Contract!WriteRegister
      BY <1>7, KeepImeKeeps, RunsWhenExecutes, ValueAssumption
      DEF WriteIf, GoesOn, Contract!WriteRegister
    <2> QED
      BY <2>1 DEF Contract!Next
  <1>8. CASE WriteIe
    <2>1. Contract!WriteRegister
      BY <1>8, KeepImeKeeps, RunsWhenExecutes, ValueAssumption
      DEF WriteIe, GoesOn, Contract!WriteRegister
    <2> QED
      BY <2>1 DEF Contract!Next
  <1>9. CASE Call
    <2>1. Contract!Call
      BY <1>9, KeepImeKeeps, RunsWhenExecutes DEF Call, GoesOn, Contract!Call
    <2> QED
      BY <2>1 DEF Contract!Next
  <1>10. CASE Ret
    <2>1. Contract!Return
      BY <1>10, KeepImeKeeps, RunsWhenExecutes DEF Ret, Pop, Contract!Return
    <2> QED
      BY <2>1 DEF Contract!Next
  <1>11. CASE Reti
    <2>1. Contract!Return
      BY <1>11, RunsWhenExecutes DEF Reti, Pop, Ime, Contract!Return
    <2> QED
      BY <2>1 DEF Contract!Next
  <1>12. ASSUME NEW S \in SUBSET DeviceSources, DeviceRequest(S)
         PROVE  Contract!Next
    <2>1. if_reg \subseteq if_reg' /\ if_reg' \subseteq if_reg \cup Sources
      BY <1>12 DEF DeviceRequest, RequestInterrupts, DeviceSources, Sources
    <2>2. halt' \in {halt, FALSE}
      BY <1>12 DEF DeviceRequest, RequestInterrupts, TypeOK
    <2>3. Contract!Request
      BY <1>12, <2>1, <2>2 DEF DeviceRequest, Ime, Contract!Request
    <2> QED
      BY <2>3 DEF Contract!Next
  <1>13. CASE JoypadPress
    <2>1. Contract!Request
      BY <1>13 DEF JoypadPress, RequestWithoutWake, Ime, Sources, Contract!Request
    <2> QED
      BY <2>1 DEF Contract!Next
  <1> QED
    BY <1>1, <1>2, <1>3, <1>4, <1>5, <1>6, <1>7, <1>8, <1>9, <1>10, <1>11, <1>12, <1>13
    DEF Next, Step, Environment

(* cpu_step implements the contract between the program and the interrupt   *)
(* logic, for every program.                                                *)
THEOREM ContractIsKept == Spec => ContractKept
PROOF
  <1>1. Init => Contract!Init
    BY DEF Init, Ime, Bits, VBLANK, Contract!Init
  <1>2. TypeOK /\ [Next]_vars => [Contract!Next]_(Contract!vars)
    <2> SUFFICES ASSUME TypeOK, [Next]_vars PROVE [Contract!Next]_(Contract!vars)
      OBVIOUS
    <2>1. CASE Next
      BY <2>1, StepKeepsContract
    <2>2. CASE UNCHANGED vars
      BY <2>2 DEF vars, Contract!vars, Ime
    <2> QED
      BY <2>1, <2>2
  <1> QED
    BY <1>1, <1>2, TypeCorrect, PTL DEF Spec, ContractKept, Contract!Spec
=============================================================================
