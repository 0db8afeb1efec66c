--------------------------- MODULE ToolAuthority ----------------------------
(***************************************************************************)
(* What the tool platform promises about one proposed call: its authority  *)
(* is offered to the owner or granted by policy, spent at most once, and   *)
(* never given again once it is void; a spent authority holds a slot of    *)
(* its anchor's budget until it settles without success.                   *)
(* ToolPlatform implements this specification.                             *)
(***************************************************************************)
EXTENDS Integers, FiniteSets

CONSTANTS
    Calls,    \* proposals
    Anchors,  \* what a budget is counted against: runs, and devices without a run
    NoAnchor, \* the anchor of a call not proposed yet
    Slots     \* executions an anchor may have in use

VARIABLES phase, anchor, outcome

vars == <<phase, anchor, outcome>>

Phase == {"none", "offered", "granted", "void", "spent", "settled"}
Outcome == {"none", "succeeded", "failed", "cancelled"}

InUse(x) == phase[x] = "spent" \/ outcome[x] = "succeeded"
SlotFree(c) == Cardinality({x \in Calls : anchor[x] = anchor[c] /\ InUse(x)}) < Slots

Init ==
    /\ phase = [c \in Calls |-> "none"]
    /\ anchor = [c \in Calls |-> NoAnchor]
    /\ outcome = [c \in Calls |-> "none"]

Propose(c, a, p) ==
    /\ phase[c] = "none"
    /\ p \in {"offered", "granted", "void"}
    /\ phase' = [phase EXCEPT ![c] = p]
    /\ anchor' = [anchor EXCEPT ![c] = a]
    /\ UNCHANGED outcome

Grant(c) ==
    /\ phase[c] = "offered"
    /\ phase' = [phase EXCEPT ![c] = "granted"]
    /\ UNCHANGED <<anchor, outcome>>

(* A refusal, a cancellation or a sweep of expired offers.                  *)
Annul(S) ==
    /\ \A c \in S : phase[c] \in {"offered", "granted"}
    /\ phase' = [c \in Calls |-> IF c \in S THEN "void" ELSE phase[c]]
    /\ UNCHANGED <<anchor, outcome>>

Spend(c) ==
    /\ phase[c] = "granted"
    /\ SlotFree(c)
    /\ phase' = [phase EXCEPT ![c] = "spent"]
    /\ UNCHANGED <<anchor, outcome>>

(* A worker reports, or a restart settles every spent authority it finds.   *)
Settle(S, o) ==
    /\ \A c \in S : phase[c] = "spent"
    /\ o \in Outcome \ {"none"}
    /\ phase' = [c \in Calls |-> IF c \in S THEN "settled" ELSE phase[c]]
    /\ outcome' = [c \in Calls |-> IF c \in S THEN o ELSE outcome[c]]
    /\ UNCHANGED anchor

Next ==
    \/ \E c \in Calls, a \in Anchors, p \in Phase : Propose(c, a, p)
    \/ \E c \in Calls : Grant(c) \/ Spend(c)
    \/ \E S \in SUBSET Calls : Annul(S) \/ \E o \in Outcome : Settle(S, o)

Spec == Init /\ [][Next]_vars
=============================================================================
