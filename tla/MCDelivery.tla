----------------------------- MODULE MCDelivery -----------------------------
(***************************************************************************)
(* The instances of MCNetwork, with the history of module Delivery.        *)
(***************************************************************************)
EXTENDS MCNetwork, Delivery
=============================================================================
