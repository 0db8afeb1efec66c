-------------------------- MODULE MCToolRefinement --------------------------
(***************************************************************************)
(* Instance of ToolRefinement, explored in two scenes.  In the first, two  *)
(* calls of one device compete for one execution slot, with or without a   *)
(* run, approved or policy-allowed.  In the second, requests of both tools *)
(* queue for the lock of the device, while approvals expire and one tool   *)
(* comes and goes: four requests over a budget of three, three of them for *)
(* an approval over a budget of one (in effect two), and a rate of two.    *)
(***************************************************************************)
EXTENDS ToolRefinement

CONSTANTS c1, c2, c3, c4, d1, exact, auto

MCCallDevice == [c \in Calls |-> d1]
MCCallTool == [c \in Calls |-> IF c = c2 THEN auto ELSE exact]
MCRunDevices == [r \in Runs |-> Devices]
MCGranted == [d \in Devices |-> Tools]
MCTtl == [x \in Tools |-> 1]
MCRateMax == [x \in Tools |-> 2]

SlotScene ==
    /\ now = 0
    /\ status[c3] = "absent" /\ status[c4] = "absent"
    /\ \A x \in Tools : available[x]

(* c1, c3 and c4 are alike: it is enough that they are requested in turn.  *)
RequestScene ==
    /\ status[c4] # "absent" => status[c3] # "absent"
    /\ status[c3] # "absent" => status[c1] # "absent"
    /\ deciding = {} /\ bootAt = 0
    /\ \A c \in Calls : decider[c] = NoDevice /\ starts[c] = 0 /\ status[c] # "cancelled"
    /\ available[auto]
    /\ \A d \in Devices : active[d]
    /\ \A r \in Runs : sessionOpen[r] /\ runState[r] = "active"

GoesOn == SlotScene' \/ RequestScene'
=============================================================================
