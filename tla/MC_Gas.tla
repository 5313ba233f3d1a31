------------------------------ MODULE MC_Gas ------------------------------
(* Model-checking instance of GasQemuCamera. *)
EXTENDS GasQemuCamera, MC_CameraValues

=============================================================================
