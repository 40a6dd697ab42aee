---------------------------- MODULE MCOrderPage ----------------------------
(* Small instances of OrderPage for TLC.                                    *)
EXTENDS OrderPage

=============================================================================
