--------------------------- MODULE AnnotationPublish ---------------------------
(***************************************************************************)
(* The publication of a directory of annotations, scripts/                  *)
(* annotation_storage.py: publish_annotation_records writes a whole tree     *)
(* beside the published one and swaps the two by renames.  A rename is       *)
(* atomic; writing and removing a tree are not.  The process may die, or a    *)
(* write may raise, between any two steps.                                   *)
(***************************************************************************)
CONSTANTS Trees,    \* the trees that may be published: sets of annotations
          Partial,  \* a tree some of whose files are there
          NoTree    \* no such directory

TreeAssumption == NoTree # Partial /\ NoTree \notin Trees /\ Partial \notin Trees
ASSUME TreeAssumption

VARIABLES destination, staging, backup,  \* the three directories
          publishing,                    \* where the publisher is
          goal                           \* the tree it publishes

publishVars == <<destination, staging, backup, publishing, goal>>

Steps == {"idle", "recover", "clear", "write", "verify", "remove_old", "swap_out",
          "swap_in", "remove_backup"}

PublishInit == /\ destination = NoTree /\ staging = NoTree /\ backup = NoTree
               /\ publishing = "idle" /\ goal = NoTree

BeginPublish(tree) == /\ publishing = "idle"
                      /\ publishing' = "recover" /\ goal' = tree
                      /\ UNCHANGED <<destination, staging, backup>>

\* _recover_interrupted_publish: the tree of a swap that was cut short comes back; a backup
\* that is not needed goes.
Recover == /\ publishing = "recover"
           /\ IF destination = NoTree /\ backup # NoTree
              THEN /\ destination' = backup /\ backup' = NoTree /\ publishing' = "clear"
              ELSE \/ /\ backup = NoTree /\ publishing' = "clear"
                      /\ UNCHANGED <<destination, backup>>
                   \/ /\ backup \notin {NoTree, Partial} /\ backup' = Partial
                      /\ UNCHANGED <<destination, publishing>>
                   \/ /\ backup = Partial /\ backup' = NoTree /\ publishing' = "clear"
                      /\ UNCHANGED destination
           /\ UNCHANGED <<staging, goal>>

Clear == /\ publishing = "clear"
         /\ staging' = Partial /\ publishing' = "write"
         /\ UNCHANGED <<destination, backup, goal>>

Write == /\ publishing = "write"
         /\ staging' = goal /\ publishing' = "verify"
         /\ UNCHANGED <<destination, backup, goal>>

\* A write raises, or the tree is not the expected one: the staging tree is removed.
WriteFails == /\ publishing \in {"write", "verify"}
              /\ staging' = NoTree /\ publishing' = "idle"
              /\ UNCHANGED <<destination, backup, goal>>

Verify == /\ publishing = "verify" /\ staging = goal
          /\ publishing' = IF destination # NoTree THEN "remove_old" ELSE "swap_in"
          /\ UNCHANGED <<destination, staging, backup, goal>>

RemoveOld == /\ publishing = "remove_old"
             /\ backup' = NoTree /\ publishing' = "swap_out"
             /\ UNCHANGED <<destination, staging, goal>>

\* (Faulty variant of SwapOut: the published tree is removed, not kept.)
RemoveDestination == /\ publishing = "swap_out"
                     /\ destination' = NoTree /\ publishing' = "swap_in"
                     /\ UNCHANGED <<staging, backup, goal>>
SwapOut == /\ publishing = "swap_out"
           /\ backup' = destination /\ destination' = NoTree /\ publishing' = "swap_in"
           /\ UNCHANGED <<staging, goal>>

SwapIn == /\ publishing = "swap_in"
          /\ destination' = staging /\ staging' = NoTree /\ publishing' = "remove_backup"
          /\ UNCHANGED <<backup, goal>>

\* The second rename raises: the backup is put back.
SwapInFails == /\ publishing = "swap_in"
               /\ publishing' = "idle"
               /\ IF backup # NoTree THEN destination' = backup /\ backup' = NoTree
                                     ELSE UNCHANGED <<destination, backup>>
               /\ UNCHANGED <<staging, goal>>

RemoveBackup == /\ publishing = "remove_backup"
                /\ IF backup \in {NoTree, Partial}
                   THEN backup' = NoTree /\ publishing' = "idle"
                   ELSE backup' = Partial /\ UNCHANGED publishing
                /\ UNCHANGED <<destination, staging, goal>>

PublishStep == \/ Recover \/ Clear \/ Write \/ Verify \/ RemoveOld \/ SwapOut \/ SwapIn
               \/ RemoveBackup
PublishFails == WriteFails \/ SwapInFails

\* The publisher dies; its files stay.
PublisherDies == /\ publishing # "idle"
                 /\ publishing' = "idle"
                 /\ UNCHANGED <<destination, staging, backup, goal>>

PublishNext == \/ \E tree \in Trees : BeginPublish(tree)
               \/ PublishStep \/ PublishFails \/ PublisherDies

PublishSpec == PublishInit /\ [][PublishNext]_publishVars

-----------------------------------------------------------------------------
(* Properties. *)

\* The tree that is published, or comes back when the next publisher recovers.
Published == IF destination # NoTree THEN destination ELSE backup

PublishTypeOK ==
    /\ destination \in Trees \cup {NoTree} /\ staging \in Trees \cup {Partial, NoTree}
    /\ backup \in Trees \cup {Partial, NoTree} /\ goal \in Trees \cup {NoTree}
    /\ publishing \in Steps

\* What the promise of publish_annotation_records comes to, "Write and verify a complete
\* tree before swapping it into place": the published tree changes in one step, to the
\* whole of what is being published, whoever dies wherever.
Atomic == INSTANCE AtomicTree WITH tree <- Published
ImplementsAtomic == Atomic!Spec
=============================================================================
