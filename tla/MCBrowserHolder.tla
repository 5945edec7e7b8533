-------------------------- MODULE MCBrowserHolder --------------------------
(***************************************************************************)
(* A page that makes five calls in any order its interface allows.         *)
(***************************************************************************)
EXTENDS BrowserHolder
=============================================================================
