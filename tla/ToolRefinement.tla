--------------------------- MODULE ToolRefinement ---------------------------
(***************************************************************************)
(* ToolPlatform implements ToolAuthority: the refinement mapping.  The     *)
(* status column alone does not tell the phase, because a call cancelled   *)
(* with its parent run may still have a live worker: spent is what the     *)
(* executor was invoked for, settled is what has an observation row.       *)
(***************************************************************************)
EXTENDS ToolPlatform

CallPhase(c) ==
    IF status[c] = "absent" THEN "none"
    ELSE IF starts[c] = 0
         THEN CASE status[c] = "awaiting_approval" -> "offered"
                [] status[c] = "approved" -> "granted"
                [] OTHER -> "void"
         ELSE IF obs[c] = "none" THEN "spent" ELSE "settled"

(* Calls of a run share its budget; calls without a run share the device's. *)
RunAnchor(r) == [run |-> r, device |-> NoDevice]
DeviceAnchor(d) == [run |-> NoRun, device |-> d]
CallAnchor(c) ==
    IF status[c] = "absent" THEN RunAnchor(NoRun)
    ELSE IF run[c] = NoRun THEN DeviceAnchor(Device(c)) ELSE RunAnchor(run[c])

Anchors == {RunAnchor(r) : r \in Runs} \cup {DeviceAnchor(d) : d \in Devices}
phase == [c \in Calls |-> CallPhase(c)]
anchor == [c \in Calls |-> CallAnchor(c)]

Authority == INSTANCE ToolAuthority WITH
    NoAnchor <- RunAnchor(NoRun),
    Slots <- MaxExecutions,
    outcome <- obs

(* Every behaviour of the tool platform is a behaviour of ToolAuthority:    *)
(* authority is spent at most once, within the budget of its anchor, and is *)
(* never given back (request_tool to reconcile_stale_executing).            *)
ImplementsAuthority == Authority!Spec
=============================================================================
