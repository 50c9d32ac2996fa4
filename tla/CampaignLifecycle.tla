--------------------------- MODULE CampaignLifecycle ---------------------------
(***************************************************************************)
(* What the campaign registry, the halt flag and the entry gate promise    *)
(* together, with no exchange, no orders and no handlers: which statuses a *)
(* campaign passes through, that one campaign follows another only when    *)
(* that has ended, that a halt is for good and shuts the entry gate, and   *)
(* over which campaigns the gate may open.  A halt does not keep an open   *)
(* that was already scheduled from registering its campaign; it is the     *)
(* gate that keeps it from placing anything.  GridCampaign implements it.  *)
(***************************************************************************)

VARIABLES
  status,  \* of the symbol's registered campaign, "NONE" before the first
  gate,    \* entries may be placed
  halted   \* an operator has to look before anything starts again

lifecycleVars == <<status, gate, halted>>

Active   == status \in {"OPENING", "ACTIVE", "DEGRADED"}
Inactive == status \in {"NONE", "FAILED", "CLOSED"}

LifecycleInit == status = "NONE" /\ ~gate /\ ~halted

\* One campaign at a time.
Prepare == Inactive /\ status' = "OPENING" /\ UNCHANGED <<gate, halted>>

\* Opened in full, or a protected position found again.
Establish == Active /\ status' = "ACTIVE" /\ UNCHANGED <<gate, halted>>

\* Given up.
Fail == Active /\ status' = "FAILED" /\ UNCHANGED <<gate, halted>>

\* Trouble with exposure, which may come after the campaign was given up: but
\* then the halt is already there.
Degrade ==
  /\ Active \/ (status = "FAILED" /\ halted)
  /\ status' = "DEGRADED"
  /\ UNCHANGED <<gate, halted>>

\* The position of an opened campaign is gone and so are its orders.
Close ==
  /\ status \in {"ACTIVE", "DEGRADED"}
  /\ status' = "CLOSED"
  /\ UNCHANGED <<gate, halted>>

HaltNow   == halted' = TRUE /\ gate' = FALSE /\ UNCHANGED status
CloseGate == gate' = FALSE /\ UNCHANGED <<status, halted>>

\* A session's recovery has accounted for the campaign: it is known to be
\* opened, closed, or flat with orders still to confirm, which leaves its status
\* as it is.  A campaign still OPENING is not accounted for.
OpenGate ==
  /\ ~halted
  /\ gate' = TRUE
  /\ \/ Inactive /\ UNCHANGED status
     \/ Active /\ status' \in {"ACTIVE", "CLOSED"}
     \/ status \in {"ACTIVE", "DEGRADED"} /\ UNCHANGED status
  /\ UNCHANGED halted

LifecycleNext == \/ Prepare \/ Establish \/ Fail \/ Degrade \/ Close
                 \/ HaltNow \/ CloseGate \/ OpenGate

LifecycleSpec == LifecycleInit /\ [][LifecycleNext]_lifecycleVars
=============================================================================
