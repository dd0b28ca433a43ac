----------------------------- MODULE MCStorage -----------------------------
(***************************************************************************)
(* An instance for TLC of two components that store and remove, and share  *)
(* no variable: the track library, and the database file with its backups. *)
(* A step of one leaves the other as it is, and each property speaks of    *)
(* one of them, so each is checked from its initial states while the other *)
(* rests in one of its own.  The component that moves is in focus.         *)
(***************************************************************************)
EXTENDS Library, Startup, TLC

VARIABLE focus   \* the component that moves

storageVars == <<focus, vars, startupVars>>

StorageInit ==
    /\ focus \in {"library", "startup"}
    /\ Init
    /\ StartupInit /\ (focus = "startup" \/ db # Missing)

StorageNext ==
    \/ /\ focus = "library" /\ Next
       /\ UNCHANGED <<focus, startupVars>>
    \/ /\ focus = "startup" /\ StartupNext
       /\ UNCHANGED <<focus, vars>>

StorageSpec == StorageInit /\ [][StorageNext]_storageVars

(* The variables of both have their types, among them that the revision    *)
(* and the clients' copies count what exists, and that a worker that is    *)
(* down holds neither the lock nor a thread.                               *)
StorageTypeOK == LibTypeOK /\ StartupTypeOK

(* The processes run the same code, and no property tells them apart.      *)
Processes == Permutations(Workers)
=============================================================================
