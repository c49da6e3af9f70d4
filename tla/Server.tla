------------------------------- MODULE Server -------------------------------
(***************************************************************************)
(* What every service of the backend runs on: one Node process, a database *)
(* behind TypeORM, no transactions and no locks.                           *)
(*                                                                         *)
(* A handler runs until it awaits a repository call; other requests run    *)
(* there.  So a request of the model is a small process, an action is the  *)
(* code from one awaited call to the next, and the frame of a request      *)
(* holds what the handler keeps in its local variables.                    *)
(*                                                                         *)
(* repository.save(entity) on an entity that was loaded before is two      *)
(* round trips.  TypeORM selects the row again and compares; then it       *)
(* updates the columns in which the entity differs from what it selected.  *)
(* The entity is the snapshot the handler loaded some awaits earlier plus  *)
(* its own assignments, so a save also carries columns the handler never   *)
(* touched back to their old values when somebody else changed them.       *)
(***************************************************************************)
CONSTANT
  Faults  \* TRUE: an await may reject, or the process die under a request

ASSUME FaultsAssumption == Faults \in BOOLEAN
=============================================================================
