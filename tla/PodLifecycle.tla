---------------------------- MODULE PodLifecycle ----------------------------
(***************************************************************************)
(* What the backend promises about a session's pod: it is started once; a  *)
(* supervisor takes charge of it when its first tunnel is registered, and  *)
(* keeps it in charge until the pod is deleted; a deleted pod stays        *)
(* deleted; and a supervised pod is deleted in the end.  Where a deletion  *)
(* may fail or the process may die, the supervisor may lose the pod.       *)
(***************************************************************************)
CONSTANTS Sessions, MayAbandon

VARIABLE phase

Phases == {"absent", "started", "supervised", "deleted"}

PhaseOK == phase \in [Sessions -> Phases]

Init == phase = [s \in Sessions |-> "absent"]

Start(s) ==
    /\ phase[s] = "absent"
    /\ phase' = [phase EXCEPT ![s] = "started"]

Supervise(s) ==
    /\ phase[s] = "started"
    /\ phase' = [phase EXCEPT ![s] = "supervised"]

Delete(s) ==
    /\ phase[s] \in {"started", "supervised"}
    /\ phase' = [phase EXCEPT ![s] = "deleted"]

(* A restart loses every supervised pod at once. *)
Abandon ==
    /\ MayAbandon
    /\ \E lost \in SUBSET Sessions :
         /\ \A s \in lost : phase[s] = "supervised"
         /\ phase' = [s \in Sessions |->
                        IF s \in lost THEN "started" ELSE phase[s]]

Next ==
    \/ \E s \in Sessions : Start(s) \/ Supervise(s) \/ Delete(s)
    \/ Abandon

Safe == Init /\ [][Next]_phase

Reap(s) == phase[s] = "supervised" /\ Delete(s)

Spec == Safe /\ \A s \in Sessions : WF_phase(Reap(s))
=============================================================================
