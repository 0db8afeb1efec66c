---------------------- MODULE MCConversationRefinement ----------------------
(***************************************************************************)
(* A small instance of ConversationRefinement: one conversation, two       *)
(* sessions.                                                               *)
(***************************************************************************)
EXTENDS ConversationRefinement

CONSTANTS q1, q2, q3, s1, s2, d1, c1, k1, k2, b1, b2

MCConversation == [s \in Sessions |-> c1]
MCOwner == [s \in Sessions |-> d1]
=============================================================================
