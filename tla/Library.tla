------------------------------ MODULE Library -------------------------------
(***************************************************************************)
(* The kernel's own library, one user at a time: the clients of the        *)
(* containers, one of String, and one who prints numbers in messages.      *)
(***************************************************************************)
EXTENDS Containers, Strings, Message

CONSTANT Users

vars == <<containerVars, stringVars, numVars, messageVars, user>>

Init ==
  /\ user \in Users
  /\ ContainersInit /\ StringInit /\ NumberInit /\ MessageInit

(* assert_failed, a division by zero, and what comes of a wild pointer or  *)
(* a store past a buffer, do not return.                                   *)
Halted ==
  /\ status # "runs" \/ stopped \/ at \in {"trapped", "broken"} \/ stage = "broken"
  /\ UNCHANGED vars

(* Bound: no block is left. *)
OutOfBlocks == Fresh(block) = {} /\ UNCHANGED vars

Done == (phase = "returned" \/ stage = "shown") /\ UNCHANGED vars

Next ==
  /\ UNCHANGED user
  /\ \/ ContainersNext /\ UNCHANGED <<stringVars, numVars, messageVars>>
     \/ user = "string" /\ StringNext /\ UNCHANGED <<containerVars, numVars, messageVars>>
     \/ user = "message" /\ MessageNext /\ UNCHANGED <<containerVars, stringVars>>
     \/ Halted \/ OutOfBlocks \/ Done

Spec == Init /\ [][Next]_vars
=============================================================================
