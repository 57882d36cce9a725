--------------------------- MODULE MCCatalogCache ---------------------------
(***************************************************************************)
(* Values of the constants of CatalogCache for the runs of TLC.            *)
(***************************************************************************)
EXTENDS CatalogCache

CONSTANTS b1, b2, a1, a2

=============================================================================
