----------------------------- MODULE QuietPoint -----------------------------
(***************************************************************************)
(* What the global consistency module (Mode 2) promises to the loader: a   *)
(* transition is only reported done if, at some moment after it began, no  *)
(* activation of a safe span existed anywhere in the system.  The module   *)
(* core.c reports progress through its enum xk_state; occupants stands for *)
(* the activations of safe spans, quiet remembers whether such a moment    *)
(* has been seen since the current transition began.                       *)
(***************************************************************************)
CONSTANT Activations          \* every activation a safe span can have

VARIABLES phase, occupants, quiet

vars == <<phase, occupants, quiet>>

Forward == {"PENDING", "DONE", "FAILED"}
Reverse == {"REVERSE_PENDING", "REVERSE_DONE", "REVERSE_FAILED"}

TypeOK ==
  /\ phase \in {"IDLE"} \union Forward \union Reverse
  /\ occupants \subseteq Activations
  /\ quiet \in BOOLEAN

Init ==
  /\ phase = "IDLE"
  /\ occupants = {}
  /\ quiet = FALSE

\* Threads enter and leave safe spans whatever the transition does.
Move ==
  /\ occupants' \in SUBSET Activations
  /\ quiet' = (quiet \/ occupants' = {})
  /\ UNCHANGED phase

\* A transition begins with the stack scan; only then does quiet start anew.
Begin(from, pending) ==
  /\ phase = from
  /\ phase' = pending
  /\ quiet' = (occupants = {})
  /\ UNCHANGED occupants

\* Done is announced only after a quiet moment.
Finish(pending, done) ==
  /\ phase = pending
  /\ quiet
  /\ phase' = done
  /\ UNCHANGED <<occupants, quiet>>

\* The timeout may strike at any time while the transition is pending.
Fail(pending, failed) ==
  /\ phase = pending
  /\ phase' = failed
  /\ UNCHANGED <<occupants, quiet>>

\* The module goes away only from a final phase: a transition that was done
\* is always followed by a reverse transition, one that failed never is.
Unload ==
  /\ phase \in {"FAILED", "REVERSE_DONE", "REVERSE_FAILED"}
  /\ phase' = "IDLE"
  /\ UNCHANGED <<occupants, quiet>>

Next ==
  \/ Move
  \/ Begin("IDLE", "PENDING")
  \/ Finish("PENDING", "DONE")
  \/ Fail("PENDING", "FAILED")
  \/ Begin("DONE", "REVERSE_PENDING")
  \/ Finish("REVERSE_PENDING", "REVERSE_DONE")
  \/ Fail("REVERSE_PENDING", "REVERSE_FAILED")
  \/ Unload

Spec == Init /\ [][Next]_vars
=============================================================================
