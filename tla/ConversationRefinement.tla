----------------------- MODULE ConversationRefinement -----------------------
(***************************************************************************)
(* Conversations implements ConversationHistory: the history of a          *)
(* conversation is its messages by ordinal, the open question its active   *)
(* run.  The mapping has a value only while the ordinals of a conversation *)
(* are 1, 2, 3, ... without a gap or a double.                             *)
(***************************************************************************)
EXTENDS Conversations

Thread == {Conversation[s] : s \in Sessions}

(* The messages of a conversation, and what was told in it.                 *)
Part(M, c) == {m \in M : m.conv = c}
At(M, c, i) == CHOOSE m \in Part(M, c) : m.ordinal = i
Told(M, c) ==
    [i \in 1..Cardinality(Part(M, c)) |->
       [role |-> At(M, c, i).role, turn |-> At(M, c, i).turn]]

Question(active) == IF active = {} THEN NoRequest ELSE CHOOSE q \in active : TRUE

history == [c \in Thread |-> Told(messages, c)]
open == [c \in Thread |-> Question(ActiveRuns(c))]

History == INSTANCE ConversationHistory WITH
    Threads <- Thread,
    Questions <- Requests,
    NoQuestion <- NoRequest

(* Every behaviour of the conversation service is a behaviour of            *)
(* ConversationHistory: questions are asked one at a time, in the order of  *)
(* their ordinals, and only the open one is answered (submit_message,       *)
(* execute_run, cancel_run, reconcile_interrupted_runs).                    *)
ImplementsHistory == History!Spec
=============================================================================
