----------------------------- MODULE MCDelivery -----------------------------
(***************************************************************************)
(* Small instances of Delivery.tla for TLC.                                *)
(***************************************************************************)
EXTENDS DeliveryProps
=============================================================================
