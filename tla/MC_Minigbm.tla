---------------------------- MODULE MC_Minigbm ----------------------------
(* Model-checking instance of MinigbmQemuCamera. *)
EXTENDS MinigbmQemuCamera, MC_CameraValues

=============================================================================
