------------------------ MODULE ConversationHistory -------------------------
(***************************************************************************)
(* What a conversation promises its owner: one history of questions in the *)
(* order they were accepted, each followed at once by its answer or by     *)
(* none, and no new question while one is open.  Conversations implements  *)
(* this specification.                                                     *)
(***************************************************************************)
EXTENDS Sequences

CONSTANTS
    Threads,    \* conversations
    Questions,  \* accepted submissions
    NoQuestion  \* no question is open

VARIABLES
    history,    \* what a conversation holds, in order
    open        \* the question a conversation is working on

vars == <<history, open>>

Entry(r, q) == [role |-> r, turn |-> q]
Said(c) == {history[c][i].turn : i \in DOMAIN history[c]}

Init ==
    /\ history = [c \in Threads |-> <<>>]
    /\ open = [c \in Threads |-> NoQuestion]

Ask(c, q) ==
    /\ open[c] = NoQuestion
    /\ q \notin UNION {Said(d) : d \in Threads}
    /\ history' = [history EXCEPT ![c] = Append(@, Entry("user", q))]
    /\ open' = [open EXCEPT ![c] = q]

AnswerOpen(c) ==
    /\ open[c] # NoQuestion
    /\ history' = [history EXCEPT ![c] = Append(@, Entry("assistant", open[c]))]
    /\ open' = [open EXCEPT ![c] = NoQuestion]

(* A failure, a cancellation, or a restart that gives up all that is open.  *)
GiveUp(C) ==
    /\ open' = [c \in Threads |-> IF c \in C THEN NoQuestion ELSE open[c]]
    /\ UNCHANGED history

Next ==
    \/ \E c \in Threads, q \in Questions : Ask(c, q)
    \/ \E c \in Threads : AnswerOpen(c)
    \/ \E C \in SUBSET Threads : GiveUp(C)

Spec == Init /\ [][Next]_vars
=============================================================================
