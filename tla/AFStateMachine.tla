--------------------------- MODULE AFStateMachine ---------------------------
(***************************************************************************)
(* The autofocus state machine used by BaseQemuCamera (mAFStateMachine,   *)
(* constructed as mAFStateMachine(200, 1, 2)).  Its implementation is not *)
(* part of src/, so it is modelled from spec.md section 4.1:              *)
(*   evaluate(mode, trigger) and reevaluate(), a START trigger in an      *)
(*   active mode scans for a bounded number of steps and then converges,  *)
(*   CANCEL returns to idle, a disabled mode forces idle.                 *)
(* The focus distance is a function of the state and is not kept apart.  *)
(***************************************************************************)
EXTENDS Naturals

CONSTANT Settle            \* number of re-evaluations a scan takes to converge

ASSUME Settle \in Nat \ {0}

AfModes    == {"OFF", "AUTO"}
AfTriggers == {"IDLE", "START", "CANCEL"}
AfStates   == {"INACTIVE", "SCANNING", "FOCUSED"}

\* The machine's memory between calls: the state, the last mode and the
\* re-evaluations left before a scan converges.
AfRecords == [state : AfStates, mode : AfModes, left : 0 .. Settle]

AfInit == [state |-> "INACTIVE", mode |-> "OFF", left |-> 0]

\* reevaluate(): advance the time-based settling only.
Reevaluate(af) ==
    IF af.state = "SCANNING"
    THEN IF af.left <= 1
         THEN [af EXCEPT !.state = "FOCUSED", !.left = 0]
         ELSE [af EXCEPT !.left = @ - 1]
    ELSE af

\* A slip: a START that schedules one re-evaluation too many.
EvaluateScanTooLong(af, mode, trigger) ==
    CASE mode = "OFF"         -> [state |-> "INACTIVE", mode |-> mode, left |-> 0]
      [] trigger = "START"    -> [state |-> "SCANNING", mode |-> mode, left |-> Settle + 1]
      [] trigger = "CANCEL"   -> [state |-> "INACTIVE", mode |-> mode, left |-> 0]
      [] OTHER                -> Reevaluate([af EXCEPT !.mode = mode])

\* evaluate(mode, trigger).
Evaluate(af, mode, trigger) ==
    CASE mode = "OFF"         -> [state |-> "INACTIVE", mode |-> mode, left |-> 0]
      [] trigger = "START"    -> [state |-> "SCANNING", mode |-> mode, left |-> Settle]
      [] trigger = "CANCEL"   -> [state |-> "INACTIVE", mode |-> mode, left |-> 0]
      [] OTHER                -> Reevaluate([af EXCEPT !.mode = mode])

=============================================================================
