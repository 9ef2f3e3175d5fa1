--------------------- MODULE AbstractSystemInterrupter ---------------------
(***************************************************************************)
(* What AbstractSystemInterrupter promises to the callables that share it: *)
(* before each piece of work a unit asks check_next_sync_call, which       *)
(* answers true while nobody has succeeded and false afterwards; the unit  *)
(* whose work succeeds calls handle_success, and when that call returns    *)
(* everybody has been told.                                                *)
(***************************************************************************)
CONSTANT Unit

VARIABLES
  finished,   \* has the success been announced?
  phase       \* phase[u]: what unit u is doing

vars == <<finished, phase>>

Move(u, from, to) ==
  /\ phase[u] = from
  /\ phase' = [phase EXCEPT ![u] = to]

Init ==
  /\ finished = FALSE
  /\ phase = [u \in Unit |-> "idle"]

(* check_next_sync_call returns true. *)
GoOn(u) ==
  /\ ~finished
  /\ Move(u, "idle", "working")
  /\ UNCHANGED finished

(* check_next_sync_call returns false. *)
Stop(u) ==
  /\ finished
  /\ Move(u, "idle", "stopped")
  /\ UNCHANGED finished

(* The unit runs out of work. *)
Exhaust(u) ==
  /\ Move(u, "idle", "ended")
  /\ UNCHANGED finished

(* A piece of work fails, succeeds, or throws. *)
Work(u) ==
  /\ \E to \in {"idle", "announcing", "ended"} : Move(u, "working", to)
  /\ UNCHANGED finished

(* handle_success takes effect, and returns. *)
Announce(u) ==
  /\ phase[u] = "announcing"
  /\ finished' = TRUE
  /\ UNCHANGED phase

Return(u) ==
  /\ finished' = TRUE
  /\ \E to \in {"idle", "ended"} : Move(u, "announcing", to)

Next ==
  \E u \in Unit :
    \/ GoOn(u)
    \/ Stop(u)
    \/ Exhaust(u)
    \/ Work(u)
    \/ Announce(u)
    \/ Return(u)

Spec == Init /\ [][Next]_vars
=============================================================================
