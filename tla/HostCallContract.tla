------------------------- MODULE HostCallContract -------------------------
(***************************************************************************)
(* What `broker.memory_recall`, `broker.llm_complete` and the final reply   *)
(* of `broker.llm_complete_stream` promise a plugin author, with nothing    *)
(* said of futures, the pending registry, timers or the reader: every call *)
(* is answered at most once, by the first verdict heard for it, and is     *)
(* given up only while no verdict has been heard.                          *)
(***************************************************************************)
CONSTANT Calls

VARIABLES heard,    \* the first verdict heard for each call, if any
          verdict   \* where each call stands for the author who issued it

contractVars == <<heard, verdict>>

Heard == {"result", "malformed", "server", "transport"}

\* What the author sees: the verdicts heard, plus the ones of the SDK itself.
Settled == {"result", "decode", "server", "transport", "timeout",
            "cancelled", "dropped"}

\* A malformed result is a decode error for the author.
Seen(v) == IF v = "malformed" THEN "decode" ELSE v

ContractTypeOK == /\ heard \in [Calls -> Heard \cup {"none"}]
                  /\ verdict \in [Calls -> Settled \cup {"idle", "open"}]

ContractInit == /\ heard = [c \in Calls |-> "none"]
                /\ verdict = [c \in Calls |-> "idle"]

Issue(c) == /\ verdict[c] = "idle"
            /\ verdict' = [verdict EXCEPT ![c] = "open"]
            /\ UNCHANGED heard

\* The request could not be written: it never was outstanding.
Refuse(c) == /\ verdict[c] = "idle"
             /\ verdict' = [verdict EXCEPT ![c] = "transport"]
             /\ UNCHANGED heard

\* Verdicts may reach several calls at once (shutdown abandons them all), but
\* each call hears only one, and only while somebody may still ask for it: a
\* dropped stream may hear its reply too, and that changes nothing.
Hear(C) == /\ \A c \in C : heard[c] = "none" /\ verdict[c] \in {"open", "dropped"}
           /\ \E v \in [C -> Heard] :
                heard' = [c \in Calls |-> IF c \in C THEN v[c] ELSE heard[c]]
           /\ UNCHANGED verdict

Deliver(c) == /\ verdict[c] = "open" /\ heard[c] # "none"
              /\ verdict' = [verdict EXCEPT ![c] = Seen(heard[c])]
              /\ UNCHANGED heard

\* Timeout or cancellation, by the SDK or the author: nothing was heard.
GiveUp(c) == /\ verdict[c] = "open" /\ heard[c] = "none"
             /\ \E v \in {"timeout", "transport", "cancelled"} :
                  verdict' = [verdict EXCEPT ![c] = v]
             /\ UNCHANGED heard

\* The author lets go of a stream without asking for its final reply, or could
\* not even get hold of it.
Drop(c) == /\ verdict[c] \in {"idle", "open"}
           /\ verdict' = [verdict EXCEPT ![c] = "dropped"]
           /\ UNCHANGED heard

ContractNext == \/ \E c \in Calls : Issue(c) \/ Refuse(c) \/ Deliver(c)
                                    \/ GiveUp(c) \/ Drop(c)
                \/ \E C \in SUBSET Calls : Hear(C)

ContractSpec == ContractInit /\ [][ContractNext]_contractVars
============================================================================
