----------------------------- MODULE JobStates -----------------------------
(***************************************************************************)
(* The job state machine of crates/transcodarr-core/src/job.rs.            *)
(***************************************************************************)

(* The legal edges are written out here as job.rs writes them.             *)
Terminal == {"Succeeded", "Failed", "Cancelled", "DeadLettered", "NeedsOperator"}

States == Terminal \cup
  {"Pending", "Blocked", "Eligible", "Assigned", "Running", "Verifying",
   "Committing", "Retrying"}

IsTerminal(s) == s \in Terminal

(* The states in which a job occupies a slot on its agent; the server's    *)
(* HELD_STATES are the same four.                                          *)
HoldsCapacity(s) == s \in {"Assigned", "Running", "Verifying", "Committing"}

CanTransition(from, to) ==
  /\ ~IsTerminal(from)
  /\ \/ to = "Cancelled"
     \/ from = "Pending"    /\ to \in {"Blocked", "Eligible"}
     \/ from = "Blocked"    /\ to = "Eligible"
     \/ from = "Eligible"   /\ to \in {"Blocked", "Assigned"}
     \/ from = "Assigned"   /\ to \in {"Running", "Retrying", "Failed"}
     \/ from = "Running"    /\ to \in {"Verifying", "Retrying", "Failed"}
     \/ from = "Verifying"  /\ to \in {"Committing", "Retrying", "Failed"}
     \/ from = "Committing" /\ to \in {"Succeeded", "Retrying", "Failed",
                                       "NeedsOperator"}
     \/ from = "Retrying"   /\ to \in {"Eligible", "Blocked", "DeadLettered",
                                       "Failed"}
=============================================================================
