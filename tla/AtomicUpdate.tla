---------------------------- MODULE AtomicUpdate ----------------------------
(***************************************************************************)
(* What an update promises, whatever interrupts it: the version and the    *)
(* configuration a device comes back with change only one at a time.  A    *)
(* commit adds to the configuration; an update puts a newer version in the *)
(* place of the whole old one, in one step, and takes the configuration    *)
(* over as it is.                                                          *)
(***************************************************************************)
EXTENDS Naturals

VARIABLES
  version,        \* the version that is in place, or that recovery restores
  configuration   \* how many commits are in the configuration that goes with it

Init == version = 0 /\ configuration = 0

Update == version' \in Nat /\ version' > version /\ UNCHANGED configuration

Commit == configuration' = configuration + 1 /\ UNCHANGED version

Next == Update \/ Commit
Spec == Init /\ [][Next]_<<version, configuration>>
=============================================================================
