----------------------------- MODULE PyAdapter -----------------------------
(***************************************************************************)
(* `PluginAdapter.run` (adapter.py) around the host calls of PyHostCalls:   *)
(* the reader loop over stdin, the tasks it spawns for `broker.event` and   *)
(* `tool.invoke`, the two ways to stop (a `shutdown` request; EOF, a signal *)
(* or an exception of the loop), and the host at the other end of the pipe. *)
(*                                                                          *)
(* A step is what the event loop runs between two awaits of one task.       *)
(***************************************************************************)
EXTENDS PyHostCalls

CONSTANTS
  MaxTasks,        \* bound: events and tool invocations the host sends
  PipeCap,         \* bound: frames in stdin that were not read yet
  MaxSignals,      \* bound: SIGTERMs sent to the process
  LateSignals,     \* whether one may come after `finally` removed the handlers
  OneShots,        \* the frames the host sends once: see OneShotsAssumption
  AuthorFaults     \* what plugin authors may do: see AuthorFaultsAssumption

OneShotsAssumption ==
  OneShots \subseteq {"request",    \* initialize, an unknown method, a bad tool.invoke:
                                    \* the reader itself replies
                      "noise",      \* a line that is skipped: oversized, malformed,
                                    \* blank, an unknown notification
                      "fatal",      \* a frame the reader chokes on: an unhashable id,
                                    \* a delta whose params are no object
                      "shutdown"}

AuthorFaultsAssumption ==
  AuthorFaults \subseteq {"badDetails",    \* ToolInvocationError with unserializable data
                          "cancelFinal",   \* a cancelled await of final_result
                          "lateStream"}    \* opening a stream once the adapter stops

ASSUME AdapterAssumption == /\ MaxTasks \in Nat \ {0}
                            /\ PipeCap \in Nat \ {0}
                            /\ MaxSignals \in Nat
                            /\ LateSignals \in BOOLEAN
                            /\ OneShotsAssumption
                            /\ AuthorFaultsAssumption

Tasks == 1 .. MaxTasks

Frame == [type : {"event", "tool", "request", "noise", "fatal", "shutdown"}]
           \cup [type : {"reply"}, id : Ids, r : ReplyKinds]
           \cup [type : {"delta"}, id : Ids, n : 1 .. MaxChunks]
NoLine == [type |-> "none"]

VARIABLES
  stdin,      \* frames written by the host and not read yet
  host,       \* "up" | "closed": our stdin is closed | "gone": stdout is broken too
  invited,    \* host: how many events and tool invocations it has sent
  oneShot,    \* host: the one-shot frames it has sent
  signals,    \* SIGTERMs received
  line,       \* the result of `read_task`, when it has one
  stop,       \* `stop_event`
  pc,         \* where `run` is
  raised,     \* whether an exception ends `run`
  acked,      \* whether the shutdown was replied to
  nextTask,   \* how many handler tasks were created
  task,       \* the state of each handler task
  isTool,     \* whether it serves a tool.invoke
  inflight,   \* `_inflight`
  drainSet,   \* the snapshot `_drain_inflight` gathers
  replies,    \* replies written per tool invocation
  owner       \* the task that issued each call; 0: none

loopVars == <<line, stop, pc, raised, acked, drainSet>>
taskVars == <<nextTask, task, isTool, inflight, replies>>
envVars  == <<stdin, host, invited, oneShot, signals>>
vars     == <<callVars, loopVars, taskVars, envVars, owner>>

TypeOK ==
  /\ CallsTypeOK
  /\ stdin \in Seq(Frame) /\ Len(stdin) <= PipeCap
  /\ host \in {"up", "closed", "gone"}
  /\ invited \in 0 .. MaxTasks /\ oneShot \subseteq OneShots
  /\ signals \in 0 .. MaxSignals
  /\ line \in Frame \cup {NoLine}
  /\ stop \in BOOLEAN /\ raised \in BOOLEAN /\ acked \in BOOLEAN
  /\ pc \in {"serving", "draining", "onshutdown", "finaldrain", "exited", "killed"}
  /\ nextTask \in 0 .. MaxTasks
  /\ task \in [Tasks -> {"none", "running", "returned", "done"}]
  /\ isTool \in [Tasks -> BOOLEAN]
  /\ inflight \subseteq Tasks /\ drainSet \subseteq Tasks
  /\ replies \in [Tasks -> 0 .. 2]
  /\ owner \in [Ids -> 0 .. MaxTasks]

Init ==
  /\ CallsInit
  /\ stdin = <<>> /\ host = "up" /\ invited = 0 /\ oneShot = {} /\ signals = 0
  /\ line = NoLine /\ stop = FALSE /\ pc = "serving" /\ raised = FALSE /\ acked = FALSE
  /\ nextTask = 0
  /\ task = [t \in Tasks |-> "none"]
  /\ isTool = [t \in Tasks |-> FALSE]
  /\ inflight = {} /\ drainSet = {}
  /\ replies = [t \in Tasks |-> 0]
  /\ owner = [i \in Ids |-> 0]

Alive == pc \notin {"exited", "killed"}

----------------------------------------------------------------------------
(* The end of run: its `finally` *)

\* Mutant: run returns with tasks in flight.
Drain_None == drainSet' = {} /\ pc' = "exited"

\* Nothing awaits before the drain, so with no task in flight run returns.
Drain == /\ drainSet' = inflight
         /\ pc' = IF inflight = {} THEN "exited" ELSE "finaldrain"

\* Mutant: the outstanding calls are not abandoned.
Finally_NoAbandon(exc) == /\ Drain
                          /\ raised' = exc
                          /\ UNCHANGED <<sdkVars, abandons>>

\* Remove the signal handlers, close stdin, abandon, drain.
Finally(exc) == /\ AbandonPending
                /\ Drain
                /\ raised' = exc

----------------------------------------------------------------------------
(* The reader loop *)

\* reader.readline() completes; the loop has not been woken yet.
ReadLine ==
  /\ pc = "serving" /\ line = NoLine /\ stdin # <<>>
  /\ line' = Head(stdin) /\ stdin' = Tail(stdin)
  /\ UNCHANGED <<callVars, stop, pc, raised, acked, drainSet, taskVars,
                 host, invited, oneShot, signals, owner>>

\* The loop wakes with stop_event set: a line that was read is not looked at.
WakeStopped ==
  /\ pc = "serving" /\ stop
  /\ line' = NoLine
  /\ Finally(FALSE)
  /\ UNCHANGED <<hostVars, stop, acked, taskVars, envVars, owner>>

\* readline returned nothing: the host closed stdin and all of it was read.
WakeEof ==
  /\ pc = "serving" /\ ~stop /\ line = NoLine
  /\ stdin = <<>> /\ host # "up"
  /\ Finally(FALSE)
  /\ UNCHANGED <<hostVars, line, stop, acked, taskVars, envVars, owner>>

\* Mutant: the loop awaits the handler it started before it looks at a line.
Handling_Awaits(type) == /\ pc = "serving" /\ ~stop /\ line.type = type
                         /\ inflight = {}
                         /\ line' = NoLine

\* The loop wakes with a line of this type to handle.
Handling(type) == /\ pc = "serving" /\ ~stop /\ line.type = type
                  /\ line' = NoLine

\* One task per event and per tool invocation; the loop does not await it.
HandleWork ==
  \E tool \in BOOLEAN :
  /\ Handling(IF tool THEN "tool" ELSE "event")
  /\ nextTask' = nextTask + 1
  /\ task' = [task EXCEPT ![nextTask'] = "running"]
  /\ isTool' = [isTool EXCEPT ![nextTask'] = tool]
  /\ inflight' = inflight \cup {nextTask'}
  /\ UNCHANGED <<callVars, stop, pc, raised, acked, drainSet, replies, envVars, owner>>

\* The reader replies itself; a broken pipe is not caught, and ends run.
HandleRequest ==
  /\ Handling("request")
  /\ IF host = "gone"
       THEN Finally(TRUE) /\ UNCHANGED hostVars
       ELSE UNCHANGED <<callVars, pc, raised, drainSet>>
  /\ UNCHANGED <<stop, acked, taskVars, envVars, owner>>

HandleNoise ==
  /\ Handling("noise")
  /\ UNCHANGED <<callVars, stop, pc, raised, acked, drainSet, taskVars, envVars, owner>>

\* An exception of the loop itself, before the frame changed anything.
HandleFatal ==
  /\ Handling("fatal")
  /\ Finally(TRUE)
  /\ UNCHANGED <<hostVars, stop, acked, taskVars, envVars, owner>>

\* A readable reply, an unreadable one, or one for an id that is unknown.
HandleReply ==
  /\ Handling("reply")
  /\ IF line.r = "unreadable" /\ line.id \in pending
       THEN /\ RouteUnreadable(line.id)
            /\ IF fut[line.id] = "unset"
                 THEN Drain /\ raised' = TRUE
                 ELSE UNCHANGED <<pc, raised, drainSet>>
       ELSE /\ RouteResponse(line.id, line.r)
            /\ UNCHANGED <<abandons, pc, raised, drainSet>>
  /\ UNCHANGED <<hostVars, stop, acked, taskVars, envVars, owner>>

HandleDelta ==
  /\ Handling("delta")
  /\ RouteDelta(line.id, line.n)
  /\ UNCHANGED <<hostVars, abandons, stop, pc, raised, acked, drainSet, taskVars,
                 envVars, owner>>

\* Mutant: the handlers in flight are not waited for.
HandleShutdown_NoDrain ==
  /\ Handling("shutdown")
  /\ AbandonPending
  /\ drainSet' = {}
  /\ pc' = "draining"
  /\ UNCHANGED <<hostVars, stop, raised, acked, taskVars, envVars, owner>>

\* Mutant: the handlers are waited for before their calls are abandoned.
HandleShutdown_NoAbandon ==
  /\ Handling("shutdown")
  /\ drainSet' = inflight
  /\ pc' = "draining"
  /\ UNCHANGED <<callVars, stop, raised, acked, taskVars, envVars, owner>>

\* shutdown: abandon, then wait for the handlers that are in flight.
HandleShutdown ==
  /\ Handling("shutdown")
  /\ AbandonPending
  /\ drainSet' = inflight
  /\ pc' = "draining"
  /\ UNCHANGED <<hostVars, stop, raised, acked, taskVars, envVars, owner>>

\* gather returns when every task of the snapshot has left `_inflight`.
DrainDone ==
  /\ pc = "draining" /\ drainSet \cap inflight = {}
  /\ pc' = "onshutdown"
  /\ UNCHANGED <<callVars, line, stop, raised, acked, drainSet, taskVars, envVars, owner>>

\* on_shutdown has returned (or raised, which is logged): acknowledge, and
\* leave the loop.  A broken pipe leaves it too, by an exception.
ReplyShutdown ==
  /\ pc = "onshutdown"
  /\ acked' = (host # "gone")
  /\ Finally(host = "gone")
  /\ UNCHANGED <<hostVars, line, stop, taskVars, envVars, owner>>

FinalDrainDone ==
  /\ pc = "finaldrain" /\ drainSet \cap inflight = {}
  /\ pc' = "exited"
  /\ UNCHANGED <<callVars, line, stop, raised, acked, drainSet, taskVars, envVars, owner>>

Loop == \/ ReadLine \/ WakeStopped \/ WakeEof
        \/ HandleWork \/ HandleRequest \/ HandleNoise \/ HandleFatal
        \/ HandleReply \/ HandleDelta \/ HandleShutdown
        \/ DrainDone \/ ReplyShutdown \/ FinalDrainDone

----------------------------------------------------------------------------
(* Handlers *)

Calls(t) == {i \in Ids : owner[i] = t}
unchangedByCalls == <<hostVars, abandons, loopVars, taskVars, envVars>>

\* A running handler calls the host.  With the pipe broken every write fails.
HandlerCalls(t) ==
  /\ Alive /\ task[t] = "running" /\ nextId \in Ids
  /\ \/ \E m \in Methods : \/ (Request(nextId, m) /\ host # "gone")
                            \/ RequestFails(nextId, m)
     \/ OpenStream(nextId) /\ (pc = "serving" \/ "lateStream" \in AuthorFaults)
  /\ owner' = [owner EXCEPT ![nextId] = t]
  /\ UNCHANGED unchangedByCalls

\* The task of llm_complete_stream that writes the request.
SendTask(i) ==
  /\ Alive
  /\ IF host = "gone" THEN SendStreamFails(i) ELSE SendStream(i)
  /\ UNCHANGED <<unchangedByCalls, owner>>

\* The SDK's part of a single-shot call: the timer and the waking task.
CallTimer(i)  == Alive /\ TimerFires(i) /\ UNCHANGED <<unchangedByCalls, owner>>
CallWakes(i)  == /\ Alive /\ (CancelFuture(i) \/ Resume(i) \/ GiveUp(i))
                 /\ UNCHANGED <<unchangedByCalls, owner>>
\* The author's part of a stream.
Iterates(i)   == Alive /\ NextChunk(i) /\ UNCHANGED <<unchangedByCalls, owner>>
AsksFinal(i)  == /\ Alive /\ (FinalResult(i) \/ FinalReturns(i) \/ DropStream(i))
                 /\ UNCHANGED <<unchangedByCalls, owner>>
Interrupts(i) == /\ Alive
                 /\ \/ AuthorCancels(i)
                    \/ CancelFinal(i) /\ "cancelFinal" \in AuthorFaults
                 /\ UNCHANGED <<unchangedByCalls, owner>>

\* How the body of a handler ends.  CancelledError, raised by awaiting a
\* final_result that was cancelled before, is no Exception.
Endings(t) == {"result", "raised"}
                \cup (AuthorFaults \cap {"badDetails"})
                \cup {o \in {"cancelled"} : \E i \in Calls(t) : outcome[i] = o}

\* Mutant: an exception of the handler is logged, not answered.
HandlerReturns_Silent(t) ==
  /\ Alive /\ task[t] = "running"
  /\ \A i \in Calls(t) : caller[i] = "done"
  /\ \E how \in Endings(t) :
       replies' = IF isTool[t] /\ host # "gone" /\ how = "result"
                    THEN [replies EXCEPT ![t] = @ + 1] ELSE replies
  /\ task' = [task EXCEPT ![t] = "returned"]
  /\ UNCHANGED <<callVars, loopVars, nextTask, isTool, inflight, envVars, owner>>

\* _dispatch_tool answers a result or an error, once the handler is done;
\* nothing is written when serializing the error raises, when a CancelledError
\* passes, or when the pipe is broken.  _dispatch_event never answers.
HandlerReturns(t) ==
  /\ Alive /\ task[t] = "running"
  /\ \A i \in Calls(t) : caller[i] = "done"
  /\ \E how \in Endings(t) :
       replies' = IF isTool[t] /\ host # "gone" /\ how \notin {"badDetails", "cancelled"}
                    THEN [replies EXCEPT ![t] = @ + 1] ELSE replies
  /\ task' = [task EXCEPT ![t] = "returned"]
  /\ UNCHANGED <<callVars, loopVars, nextTask, isTool, inflight, envVars, owner>>

\* The done callback.  The send tasks of the handler were made ready before
\* it, and the event loop runs what is ready in order.
Discard(t) ==
  /\ Alive /\ task[t] = "returned" /\ Calls(t) \cap unsent = {}
  /\ task' = [task EXCEPT ![t] = "done"]
  /\ inflight' = inflight \ {t}
  /\ UNCHANGED <<callVars, loopVars, nextTask, isTool, replies, envVars, owner>>

----------------------------------------------------------------------------
(* The host and the supervisor of the process *)

unchangedByHost == <<sdkVars, abandons, loopVars, taskVars, signals, owner>>

Send1(f) == /\ host = "up" /\ Len(stdin) < PipeCap
            /\ stdin' = Append(stdin, f)

HostInvites ==
  /\ invited < MaxTasks
  /\ invited' = invited + 1
  /\ \E k \in {"event", "tool"} : Send1([type |-> k])
  /\ UNCHANGED <<hostVars, host, oneShot, unchangedByHost>>

HostOneShot ==
  \E k \in OneShots \ oneShot :
    /\ oneShot' = oneShot \cup {k}
    /\ Send1([type |-> k])
    /\ UNCHANGED <<hostVars, host, invited, unchangedByHost>>

HostAnswers ==
  \E i \in sent, r \in ReplyKinds :
    /\ answers[i] < MaxAnswers
    /\ answers' = [answers EXCEPT ![i] = @ + 1]
    /\ Send1([type |-> "reply", id |-> i, r |-> r])
    /\ UNCHANGED <<deltas, host, invited, oneShot, unchangedByHost>>

HostSendsDelta ==
  \E i \in sent :
    /\ kind[i] = "stream" /\ answers[i] = 0 /\ deltas[i] < MaxChunks
    /\ deltas' = [deltas EXCEPT ![i] = @ + 1]
    /\ Send1([type |-> "delta", id |-> i, n |-> deltas'[i]])
    /\ UNCHANGED <<answers, host, invited, oneShot, unchangedByHost>>

\* The host closes our stdin, or dies.
HostCloses ==
  /\ \/ host = "up" /\ host' \in {"closed", "gone"}
     \/ host = "closed" /\ host' = "gone"
  /\ UNCHANGED <<hostVars, stdin, invited, oneShot, unchangedByHost>>

\* SIGTERM: the handler sets stop_event, until `finally` has removed it; then
\* the signal has its default action.
Sigterm ==
  /\ Alive /\ signals < MaxSignals
  /\ pc = "finaldrain" => LateSignals
  /\ signals' = signals + 1
  /\ IF pc = "finaldrain"
       THEN pc' = "killed" /\ UNCHANGED stop
       ELSE stop' = TRUE /\ UNCHANGED pc
  /\ UNCHANGED <<callVars, line, raised, acked, drainSet, taskVars,
                 stdin, host, invited, oneShot, owner>>

Environment == HostInvites \/ HostOneShot \/ HostAnswers \/ HostSendsDelta
               \/ HostCloses \/ Sigterm

Next == \/ Loop
        \/ \E t \in Tasks : HandlerCalls(t) \/ HandlerReturns(t) \/ Discard(t)
        \/ \E i \in Ids : SendTask(i) \/ CallTimer(i) \/ CallWakes(i)
                          \/ Iterates(i) \/ AsksFinal(i) \/ Interrupts(i)
        \/ Environment

Spec == Init /\ [][Next]_vars

\* The event loop runs what is ready, its timers fire, and what the host wrote
\* is read.
LoopFairness ==
  /\ WF_vars(Loop)
  /\ \A t \in Tasks : WF_vars(Discard(t))
  /\ \A i \in Ids : /\ WF_vars(SendTask(i))
                    /\ WF_vars(CallTimer(i))
                    /\ WF_vars(CallWakes(i))

\* Handlers end, once the calls they wait for have ended: they go through the
\* streams they open and do not block elsewhere.
HandlerFairness ==
  /\ \A t \in Tasks : WF_vars(HandlerReturns(t))
  /\ \A i \in Ids : WF_vars(Iterates(i)) /\ WF_vars(AsksFinal(i))

LoopSpec == Spec /\ LoopFairness
FairSpec == Spec /\ LoopFairness /\ HandlerFairness

----------------------------------------------------------------------------
(* Properties *)

\* The shutdown is acknowledged only when every tool.invoke that was read was
\* answered, once ("after draining in-flight handler tasks", README.md:132).
AckAfterReplies == acked => \A t \in Tasks : isTool[t] => replies[t] = 1

\* The acknowledgement is the last frame: no reply, and no request of a
\* handler or of a stream's send task, is written after it.
AckIsLast == [][acked => sent' = sent /\ replies' = replies]_vars

\* A handler that blocks does not stop the reader: whatever the handlers do,
\* the loop goes on to empty stdin, or stops.
ReaderGoesOn == []<>(pc # "serving" \/ (stdin = <<>> /\ line = NoLine))

\* A shutdown that was read is acknowledged, unless the host is gone.
ShutdownAcked == pc = "draining" ~> acked \/ host = "gone"

\* A signal, or the end of stdin, ends run.
StopEnds == stop \/ host # "up" ~> ~Alive

\* The adapter stops the way GracefulStop says.
Graceful == INSTANCE GracefulStop WITH
  Work  <- Tasks,
  work  <- inflight,
  phase <- CASE pc = "serving" -> "serving"
             [] pc \in {"draining", "onshutdown"} -> "stopping"
             [] pc = "finaldrain" -> IF acked THEN "acked" ELSE "stopping"
             [] OTHER -> "over"

StopsGracefully == Graceful!StopSpec
============================================================================
