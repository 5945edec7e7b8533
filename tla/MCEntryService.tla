--------------------------- MODULE MCEntryService ---------------------------
(***************************************************************************)
(* The whole service, every operation of it, from empty tables: one member *)
(* joins, logs in, rebinds, uses its sessions and obtains credentials, two *)
(* calls at a time, and every call must end.                               *)
(***************************************************************************)
EXTENDS EntryService, TLC

CONSTANTS m1, d1, v1, p1, c1, c2

MCVoucherExpiry == v1 :> 3
MCAuthorizations == {[member |-> m1, device |-> d1, expiresAt |-> 4]}
=============================================================================
