---------------------------- MODULE MCAvlTree ----------------------------
(* AvlTree with enough keys for a deletion that rotates below the root and *)
(* goes on to the root.                                                    *)
EXTENDS AvlTree

CONSTANT MaxKey

MCKeys == 1 .. MaxKey
MCAddresses == 1 .. MaxKey
=============================================================================
