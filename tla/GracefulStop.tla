--------------------------- MODULE GracefulStop ---------------------------
(***************************************************************************)
(* What an adapter promises of the way it stops (README of each SDK: "in-   *)
(* flight drain on shutdown"): once it stops it takes no new work, and it   *)
(* acknowledges the shutdown, or exits, only when the work it had taken is  *)
(* done, whatever made it stop.                                             *)
(***************************************************************************)
CONSTANT Work

VARIABLES phase,   \* "serving" | "stopping" | "acked" | "over"
          work     \* the handlers in flight

stopVars == <<phase, work>>

StopTypeOK == /\ phase \in {"serving", "stopping", "acked", "over"}
              /\ work \subseteq Work

StopInit == phase = "serving" /\ work = {}

Take(w) == /\ phase = "serving" /\ w \notin work
           /\ work' = work \cup {w}
           /\ UNCHANGED phase

Complete(w) == /\ w \in work
               /\ work' = work \ {w}
               /\ UNCHANGED phase

BeginStop == /\ phase = "serving" /\ phase' = "stopping"
             /\ UNCHANGED work

Acknowledge == /\ phase = "stopping" /\ work = {}
               /\ phase' = "acked"
               /\ UNCHANGED work

\* EOF and signals are not acknowledged.  With nothing in flight, the stop and
\* the exit are one step.
Exit == /\ work = {} /\ phase # "over" /\ phase' = "over"
        /\ UNCHANGED work

StopNext == \/ \E w \in Work : Take(w) \/ Complete(w)
            \/ BeginStop \/ Acknowledge \/ Exit

StopSpec == StopInit /\ [][StopNext]_stopVars
============================================================================
