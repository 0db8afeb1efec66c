--------------------------- MODULE MCSatelliteLink ---------------------------
(***************************************************************************)
(* Small instances of SatelliteLink: one workflow and one plain command.   *)
(***************************************************************************)
EXTENDS SatelliteLink, TLC

CONSTANTS w1, p1, p2, a, b

(* The workflow may be delivered again, the plain command is not.           *)
MCDeliveries == [c \in Commands |-> IF c = w1 THEN 2 ELSE 1]
SocketSymmetry == Permutations(Sockets)
=============================================================================
