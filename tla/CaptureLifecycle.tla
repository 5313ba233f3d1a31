-------------------------- MODULE CaptureLifecycle --------------------------
(***************************************************************************)
(* What a camera back-end promises its caller about each buffer it is     *)
(* handed (spec.md 4.4, 5 and 8), with no streams, host or metadata:      *)
(* a buffer submitted in a request is either finished within the call or  *)
(* held by the HAL until one later finish, and a buffer is finished at     *)
(* most once per submission.  "idle" is a buffer never submitted, "held"   *)
(* one submitted and not yet finished, "done" one finished since its last  *)
(* submission.                                                             *)
(***************************************************************************)
CONSTANT Bufs

VARIABLE phase

Phases == {"idle", "held", "done"}

LifecycleTypeOK == phase \in [Bufs -> Phases]

LifecycleInit == phase = [b \in Bufs |-> "idle"]

\* A request of buffers the caller owns: the ones in `kept` stay with the
\* HAL, the others are finished before the call returns.
Submit(R, kept) ==
    /\ R # {}
    /\ \A b \in R : phase[b] # "held"
    /\ kept \subseteq R
    /\ phase' = [b \in Bufs |->
                   IF b \in kept THEN "held"
                   ELSE IF b \in R THEN "done" ELSE phase[b]]

\* A held buffer is finished (by a deferred completion).
Finish(b) ==
    /\ phase[b] = "held"
    /\ phase' = [phase EXCEPT ![b] = "done"]

LifecycleNext ==
    \/ \E R \in SUBSET Bufs, kept \in SUBSET Bufs : Submit(R, kept)
    \/ \E b \in Bufs : Finish(b)

LifecycleSpec == LifecycleInit /\ [][LifecycleNext]_phase

\* Every buffer the HAL holds is eventually finished.
EventuallyFinished == \A b \in Bufs : phase[b] = "held" ~> phase[b] = "done"

=============================================================================
