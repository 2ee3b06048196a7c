---------------------------- MODULE MCUDPForward ----------------------------
(***************************************************************************)
(* Small instances of UDPForward: source addresses are interchangeable.    *)
(***************************************************************************)
EXTENDS UDPForward

Symm == Permutations(Sources)

=============================================================================
