---------------------------- MODULE MCDurability ----------------------------
(* The instances of Durability for TLC need numbers only.                    *)
EXTENDS Durability
=============================================================================
