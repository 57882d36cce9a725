----------------------------- MODULE MCSeedBoot -----------------------------
(***************************************************************************)
(* Values of the constants of SeedBoot for the runs of TLC.                *)
(***************************************************************************)
EXTENDS SeedBoot, TLC

CONSTANTS c1, c2, c3, a1, a2

\* docker-compose.yml hands SEED_* to the backend alone: where they are set, the
\* worker's container seeds the accounts of the defaults besides.
OwnAccounts == [c \in Containers |-> IF c = c3 THEN a2 ELSE a1]

=============================================================================
