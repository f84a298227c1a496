---------------------------- MODULE InstalledApp ----------------------------
(***************************************************************************)
(* What an update promises, without saying how: the install folder holds   *)
(* one build, and an update replaces it by a newer one in a single step.   *)
(* A folder that holds a mixture of builds is Torn; that takes a mishap    *)
(* (the machine stops, a rollback cannot put a file back, the workspace is *)
(* emptied under the updater), and a later update may repair it.           *)
(***************************************************************************)
EXTENDS Integers

CONSTANTS Builds,   \* the builds ever published, as numbers
          Torn      \* what a mixture of builds counts as, none of Builds

VARIABLES version,  \* the build in the install folder
          mishap    \* something happened that the update cannot make good

Init == version \in Builds /\ mishap = FALSE

Upgrade == /\ version \in Builds
           /\ version' \in {b \in Builds : b > version}
           /\ UNCHANGED mishap

Mishap == mishap' = TRUE /\ version' \in Builds \union {Torn}

\* Only after a mishap can a mixture appear or be replaced by a build again.
Damaged == mishap /\ version' \in Builds \union {Torn} /\ UNCHANGED mishap

Next == Upgrade \/ Mishap \/ Damaged

Spec == Init /\ [][Next]_<<version, mishap>>
=============================================================================
