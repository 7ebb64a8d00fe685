------------------------- MODULE TerminalLifecycle -------------------------
(***************************************************************************)
(* What the terminal runtime promises about every terminal session it      *)
(* launches, whatever the transport (runtime.rs: a run is one              *)
(* start_*_session call; its stop_flag, its entry in `terminals` and the   *)
(* threads it spawns).                                                     *)
(*                                                                         *)
(* A run is launched once, and is over in exactly one of two ways:         *)
(*   - the user stops it, and nothing more is reported about it; or        *)
(*   - it ends by itself, and one exit event reports it.                   *)
(*                                                                         *)
(* This is the abstract specification; SshTerminal implements it.          *)
(***************************************************************************)

CONSTANTS
  Runs          \* the terminal sessions that may be launched

VARIABLES
  phase         \* what has become of each run

Phases == {"new", "live", "stopped", "ending", "exited"}

Move(r, from, to) ==
  /\ phase[r] = from
  /\ phase' = [phase EXCEPT ![r] = to]

(* A launched run is registered and its stop flag is clear.                *)
Launch(r) == Move(r, "new", "live")

(* stop_terminal raises the flag first: the run ends silently.             *)
Stop(r) == Move(r, "live", "stopped")

(* finalize_terminal raises the flag first: the run owes an exit event.    *)
End(r) == Move(r, "live", "ending")

(* The exit event is emitted.                                              *)
Report(r) == Move(r, "ending", "exited")

Init == phase = [r \in Runs |-> "new"]

Next == \E r \in Runs : Launch(r) \/ Stop(r) \/ End(r) \/ Report(r)

Spec == Init /\ [][Next]_phase

=============================================================================
