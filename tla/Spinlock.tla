------------------------------ MODULE Spinlock ------------------------------
(***************************************************************************)
(* lock(int* ) and unlock(int* ) of src/Spinlock.cpp: one int, taken with  *)
(* an atomic test-and-set in a loop and given back by storing 0.  Nothing  *)
(* records who holds it, so mutual exclusion is the callers' discipline as *)
(* much as the lock's: unlock stores 0 whoever calls it.  The module is    *)
(* the abstract lock that BLMalloc is shown to use correctly.              *)
(***************************************************************************)
CONSTANT Threads        \* the callers: one per core

VARIABLES
  l,                    \* the int behind the pointer: 0 free, 1 taken
  at                    \* where a caller is: "out", "spin" (in lock) or "in"

vars == <<l, at>>

TypeOK ==
  /\ l \in {0, 1}
  /\ at \in [Threads -> {"out", "spin", "in"}]

Init ==
  /\ l = 0
  /\ at = [t \in Threads |-> "out"]

(* A caller enters lock(). *)
CallLock(t) ==
  /\ at[t] = "out"
  /\ at' = [at EXCEPT ![t] = "spin"]
  /\ UNCHANGED l

(* As TestAndSet, but the old value is read in one step and 1 is stored in *)
(* another: the test no longer sees the store of a caller in between.      *)
TestThenSet(t) ==
  /\ at[t] = "spin"
  /\ l' \in {l, 1}
  /\ at' = [at EXCEPT ![t] = IF l = 0 \/ l' = l THEN "in" ELSE "spin"]

(* One turn of while (__sync_lock_test_and_set(_l, 1)): stores 1, and      *)
(* leaves the loop when the old value was 0.                               *)
TestAndSet(t) ==
  /\ at[t] = "spin"
  /\ l' = 1
  /\ at' = [at EXCEPT ![t] = IF l = 0 THEN "in" ELSE "spin"]

(* A release that forgets the store. *)
UnlockWithoutStore(t) ==
  /\ at[t] = "in"
  /\ at' = [at EXCEPT ![t] = "out"]
  /\ UNCHANGED l

(* unlock(): a holder stores 0. *)
Unlock(t) ==
  /\ at[t] = "in"
  /\ l' = 0
  /\ at' = [at EXCEPT ![t] = "out"]

Step(t) == CallLock(t) \/ TestAndSet(t) \/ Unlock(t)

Next == \E t \in Threads : Step(t)

Spec == Init /\ [][Next]_vars

(* Every core keeps executing: a caller in the loop keeps testing, and a   *)
(* holder reaches its unlock.  Nothing makes a core call lock().           *)
Fairness == \A t \in Threads : WF_vars(TestAndSet(t)) /\ WF_vars(Unlock(t))

FairSpec == Spec /\ Fairness

-----------------------------------------------------------------------------

(* At most one caller is between lock() and unlock(), and the word is 1    *)
(* exactly while there is one: a release can neither free a lock somebody  *)
(* else holds nor leave it taken with nobody inside.                       *)
MutualExclusion ==
  /\ \A t, u \in Threads : at[t] = "in" /\ at[u] = "in" => t = u
  /\ l = 1 <=> \E t \in Threads : at[t] = "in"

(* Nobody spins forever on a lock that nobody gets: while some caller is   *)
(* in the loop, again and again one of them gets in.  That a given caller  *)
(* gets in is not promised: the loop has no queue.                         *)
SomebodyGetsIn ==
  (\E t \in Threads : at[t] = "spin") ~> (\E t \in Threads : at[t] = "in")
=============================================================================
