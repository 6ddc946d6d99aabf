---------------------------- MODULE MCDeliveries ----------------------------
(* Small instances of Deliveries for TLC.                                  *)
EXTENDS Deliveries, TLC

(* A client may name one of the ledger's own sources.                      *)
AckSourcesDef == {"manual", "delivery_retry"}
DeliverySymmetry == Permutations(Receipts) \cup Permutations(Keys)
=============================================================================
