--------------------------- MODULE SpinlockProofs ---------------------------
(***************************************************************************)
(* Mutual exclusion of the spinlock for any set of callers.                *)
(***************************************************************************)
EXTENDS Spinlock, TLAPS

IInv == TypeOK /\ MutualExclusion

LEMMA InitIInv == Init => IInv
  BY DEF Init, IInv, TypeOK, MutualExclusion

(* Who is in, and the word, change only together. *)
LEMMA StepIInv ==
  ASSUME IInv, NEW t \in Threads, Step(t)
  PROVE  IInv'
<1> USE DEF IInv, TypeOK, MutualExclusion
<1>1. CASE CallLock(t)
  BY <1>1 DEF CallLock
<1>2. CASE TestAndSet(t)
  <2>1. CASE l = 0
    BY <1>2, <2>1 DEF TestAndSet
  <2>2. CASE l = 1
    BY <1>2, <2>2 DEF TestAndSet
  <2> QED BY <2>1, <2>2
<1>3. CASE Unlock(t)
  BY <1>3 DEF Unlock
<1> QED BY <1>1, <1>2, <1>3 DEF Step

(* The atomic test-and-set excludes: at most one caller is between lock()  *)
(* and unlock(), whoever and however many they are.                        *)
THEOREM SpinlockExcludes == Spec => []MutualExclusion
<1>1. Init => IInv
  BY InitIInv
<1>2. IInv /\ [Next]_vars => IInv'
  <2> SUFFICES ASSUME IInv, [Next]_vars PROVE IInv'
    OBVIOUS
  <2>1. CASE Next
    BY <2>1, StepIInv DEF Next
  <2>2. CASE UNCHANGED vars
    BY <2>2 DEF vars, IInv, TypeOK, MutualExclusion
  <2> QED BY <2>1, <2>2
<1>3. IInv => MutualExclusion
  BY DEF IInv
<1> QED BY <1>1, <1>2, <1>3, PTL DEF Spec
=============================================================================
