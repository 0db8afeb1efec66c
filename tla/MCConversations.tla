--------------------------- MODULE MCConversations ---------------------------
(***************************************************************************)
(* Small instances of Conversations: one or two conversations, two         *)
(* sessions of one device.                                                 *)
(***************************************************************************)
EXTENDS Conversations

CONSTANTS q1, q2, q3, s1, s2, d1, c1, c2, k1, k2, b1, b2

MCConversation == [s \in Sessions |-> c1]
MCTwoConversations == [s \in Sessions |-> IF s = s1 THEN c1 ELSE c2]
MCOwner == [s \in Sessions |-> d1]
=============================================================================
