--------------------------- MODULE MCToolPlatform ---------------------------
(***************************************************************************)
(* Small instances of ToolPlatform.                                        *)
(***************************************************************************)
EXTENDS ToolPlatform

CONSTANTS c1, c2, c3, c4, d1, d2, r1, auto, exact

(* One call that the policy allows and one that needs an approval, both of  *)
(* d1; the approver may be d1 itself or the second device of the run.       *)
MCCallDevice == [c \in Calls |-> d1]
MCCallTool == [c \in Calls |-> IF c = c1 THEN exact ELSE auto]
MCRunDevices == [r \in Runs |-> Devices]
MCGranted == [d \in Devices |-> Tools]
MCTtl == [x \in Tools |-> 1]
MCRateMax == [x \in Tools |-> 4]

(* Every call names the one tool, which needs an approval.                  *)
MCOneTool == [c \in Calls |-> exact]
=============================================================================
