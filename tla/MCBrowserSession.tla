-------------------------- MODULE MCBrowserSession --------------------------
(***************************************************************************)
(* Values of the constants of BrowserSession for the runs of TLC.          *)
(***************************************************************************)
EXTENDS BrowserSession

CONSTANTS t1, t2, u1, u2

=============================================================================
