--------------------------- MODULE MCVendorGuard ---------------------------
(* A small instance of VendorGuard for TLC. *)
EXTENDS VendorGuard
=============================================================================
