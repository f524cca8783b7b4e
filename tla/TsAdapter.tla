------------------------------ MODULE TsAdapter ------------------------------
(***************************************************************************)
(* The TypeScript SDK: `PluginAdapter.run` (adapter.ts), the host calls and *)
(* the write chain of `BrokerSender` (broker.ts), `AsyncChannel` and        *)
(* `LlmStream` (host.ts).                                                   *)
(*                                                                          *)
(* Node runs one turn after the other.  A turn begins with data on stdin, a *)
(* timer or a signal, and goes on with the reactions of promises, which run *)
(* here in any order, until none is left (`Quiet`).  Then node looks for    *)
(* promises that were rejected and that nobody listens to, and ends the     *)
(* process if there are any (`Crash`).                                      *)
(***************************************************************************)
EXTENDS Naturals, Sequences, FiniteSets, SequencesExt

CONSTANTS
  MaxTasks,      \* bound: events and tool invocations the host sends
  MaxCalls,      \* bound: requests the handlers issue
  MaxChunks,     \* bound: deltas the host sends for one stream
  PipeCap,       \* bound: lines in stdin that were not read yet
  MaxSignals,    \* bound: SIGTERMs sent to the process
  MaxBusy,       \* bound: what a handler awaits beside the SDK
  OneShots,      \* frames the host sends once, beside events and tools
  Faults         \* what an author or a supervisor may do; see FaultsAssumption

FaultsAssumption ==
  Faults \subseteq {"busyStream",   \* await something else between two chunks
                    "dropStream",   \* never look at stream.result
                    "lateStream",   \* open a stream while the adapter drains
                    "badDetails",   \* ToolError details JSON.stringify rejects
                    "lateSignal"}   \* a signal when run has let go of them

ASSUME TsAssumption ==
  /\ MaxTasks \in Nat \ {0} /\ MaxCalls \in Nat \ {0}
  /\ MaxChunks \in Nat \ {0} /\ PipeCap \in Nat \ {0} /\ MaxSignals \in Nat
  /\ MaxBusy \in Nat
  /\ OneShots \subseteq {"other", "shutdown"}
  /\ FaultsAssumption

Tasks == 1 .. MaxTasks
Ids   == 1 .. MaxCalls

Line == [type : {"event", "tool", "other", "shutdown"}]
          \cup [type : {"reply"}, id : Ids, r : {"result", "malformed", "error"}]
          \cup [type : {"delta"}, id : Ids, n : 1 .. MaxChunks]

VARIABLES
  \* the host
  pipe,       \* lines written to our stdin and not read
  closed,     \* the host closed our stdin
  invited,    \* events and tool invocations sent
  oneShot,    \* one-shot frames sent
  deltas,     \* deltas sent per stream
  answered,   \* ids replied to
  signals,    \* SIGTERMs sent
  \* run
  lines,      \* lines that readline has emitted and the loop has not taken
  rlClosed,   \* the readline interface is closed
  stopped,    \* `stopped`
  pc,         \* where run is
  acked,      \* the shutdown was replied to
  \* the detached tasks
  inflight,   \* `inflight`
  nextTask,   \* tasks created
  isTool,     \* whether a task serves a tool.invoke
  replies,    \* replies written per tool invocation
  broken,     \* a task was rejected: its reply could not be encoded
  \* the calls
  nextId,     \* `nextId`
  kind,       \* "none" | "recall" | "complete" | "stream" per id
  pending,    \* the keys of `pending`
  chain,      \* `writeChain`: requests that wait to be written
  sent,       \* requests on the wire
  settled,    \* the promise of a call, or `result` of a stream
  buf,        \* `chunks.buf` of a stream
  shut,       \* streams whose channel is closed
  \* the authors
  at,         \* "none" | "body" | "busy" | "waiting" | "pulling" | "result" | "done"
  naps,       \* how often a handler has been busy
  call,       \* the call a handler is in; 0: none
  listened,   \* streams whose `result` somebody has awaited
  got,        \* chunks yielded per stream
  outcome     \* what a call gave its author

hostVars   == <<pipe, closed, invited, oneShot, deltas, answered, signals>>
runVars    == <<lines, rlClosed, stopped, pc, acked>>
taskVars   == <<inflight, nextTask, isTool, replies, broken>>
callVars   == <<nextId, kind, pending, chain, sent, settled, buf, shut>>
authorVars == <<at, naps, call, listened, got, outcome>>
vars       == <<hostVars, runVars, taskVars, callVars, authorVars>>

Verdicts == {"result", "malformed", "server", "transport", "timeout"}

TypeOK ==
  /\ pipe \in Seq(Line) /\ closed \in BOOLEAN
  /\ invited \in 0 .. MaxTasks /\ oneShot \subseteq OneShots
  /\ deltas \in [Ids -> 0 .. MaxChunks] /\ answered \subseteq Ids
  /\ signals \in 0 .. MaxSignals
  /\ lines \in Seq(Line)
  /\ rlClosed \in BOOLEAN /\ stopped \in BOOLEAN /\ acked \in BOOLEAN
  /\ pc \in {"loop", "drain", "finaldrain", "exited", "killed"}
  /\ inflight \subseteq Tasks /\ nextTask \in 0 .. MaxTasks
  /\ isTool \in [Tasks -> BOOLEAN] /\ replies \in [Tasks -> 0 .. 1]
  /\ broken \in BOOLEAN
  /\ nextId \in 0 .. MaxCalls
  /\ kind \in [Ids -> {"none", "recall", "complete", "stream"}]
  /\ pending \subseteq Ids /\ chain \in Seq(Ids) /\ sent \subseteq Ids
  /\ settled \in [Ids -> Verdicts \cup {"none", "open"}]
  /\ buf \in [Ids -> Seq(1 .. MaxChunks)] /\ shut \subseteq Ids
  /\ at \in [Tasks -> {"none", "body", "busy", "waiting", "pulling", "result", "done"}]
  /\ naps \in [Tasks -> 0 .. MaxBusy]
  /\ call \in [Tasks -> 0 .. MaxCalls] /\ listened \subseteq Ids
  /\ got \in [Ids -> Seq(1 .. MaxChunks)]
  /\ outcome \in [Ids -> {"none", "result", "decode", "server", "transport",
                          "timeout", "dropped"}]

Init ==
  /\ pipe = <<>> /\ closed = FALSE /\ invited = 0 /\ oneShot = {}
  /\ deltas = [i \in Ids |-> 0] /\ answered = {} /\ signals = 0
  /\ lines = <<>> /\ rlClosed = FALSE /\ stopped = FALSE
  /\ pc = "loop" /\ acked = FALSE
  /\ inflight = {} /\ nextTask = 0 /\ isTool = [t \in Tasks |-> FALSE]
  /\ replies = [t \in Tasks |-> 0] /\ broken = FALSE
  /\ nextId = 0 /\ kind = [i \in Ids |-> "none"]
  /\ pending = {} /\ chain = <<>> /\ sent = {}
  /\ settled = [i \in Ids |-> "none"]
  /\ buf = [i \in Ids |-> <<>>] /\ shut = {}
  /\ at = [t \in Tasks |-> "none"] /\ call = [t \in Tasks |-> 0]
  /\ naps = [t \in Tasks |-> 0]
  /\ listened = {} /\ got = [i \in Ids |-> <<>>]
  /\ outcome = [i \in Ids |-> "none"]

----------------------------------------------------------------------------
(* The registry *)

\* The entries in P leave the registry with verdict v: singles are resolved or
\* rejected, streams are closed and their result is.  A promise that is settled
\* stays as it is.
Settle(P, v) ==
  /\ pending' = pending \ P
  /\ settled' = [i \in Ids |-> IF i \in P /\ settled[i] = "open" THEN v ELSE settled[i]]
  /\ shut' = shut \cup {i \in P : kind[i] = "stream"}

\* abandonPending
AbandonPending ==
  /\ Settle(pending, "transport")
  /\ UNCHANGED <<nextId, kind, chain, sent, buf>>

\* Only memoryRecall looks at the shape of a result; the others read what is
\* there, and default the rest.
Verdict(i, r) ==
  IF r = "error" THEN "server"
  ELSE IF r = "malformed" /\ kind[i] = "recall" THEN "malformed" ELSE "result"

\* Mutant: an error leaves the iterator of a stream open.
RouteResponse_LeavesOpen(i, r) ==
  /\ pending' = pending \ {i}
  /\ settled' = IF i \in pending THEN [settled EXCEPT ![i] = Verdict(i, r)] ELSE settled
  /\ shut' = IF i \in pending /\ kind[i] = "stream" /\ r # "error" THEN shut \cup {i} ELSE shut
  /\ UNCHANGED <<nextId, kind, chain, sent, buf>>

\* routeResponse; a response to an id that is not registered is dropped.
RouteResponse(i, r) ==
  /\ Settle({i} \cap pending, Verdict(i, r))
  /\ UNCHANGED <<nextId, kind, chain, sent, buf>>

\* routeDelta
RouteDelta(i, n) ==
  /\ buf' = IF i \in pending /\ kind[i] = "stream" THEN [buf EXCEPT ![i] = Append(@, n)] ELSE buf
  /\ UNCHANGED <<nextId, kind, pending, chain, sent, settled, shut>>

----------------------------------------------------------------------------
(* Turns *)

Alive == pc # "killed"

RunWaits == \/ pc = "loop" /\ lines = <<>> /\ ~rlClosed /\ ~stopped
            \/ pc \in {"drain", "finaldrain"} /\ inflight # {}
            \/ pc = "exited"

AuthorWaits(t) ==
  \/ at[t] \in {"none", "busy", "done"}
  \/ at[t] \in {"waiting", "result"} /\ settled[call[t]] = "open"
  \/ at[t] = "pulling" /\ buf[call[t]] = <<>> /\ call[t] \notin shut

\* No reaction of a promise is left to run.
Quiet == RunWaits /\ chain = <<>> /\ \A t \in Tasks : AuthorWaits(t)

\* A rejected promise that nobody listens to: the result of a stream, or the
\* promise of a task whose reply could not be encoded.
Unhandled ==
  \/ broken
  \/ \E i \in Ids \ listened : kind[i] = "stream" /\ settled[i] \in {"server", "transport"}

Crash ==
  /\ Quiet /\ Unhandled
  /\ pc' = "killed"
  /\ UNCHANGED <<hostVars, lines, rlClosed, stopped, acked, taskVars, callVars, authorVars>>

TurnBegins == Quiet /\ ~Unhandled

\* stdin has data, and readline emits its lines; or it has ended, and readline
\* closes.
Data ==
  /\ TurnBegins /\ ~rlClosed
  /\ \/ pipe # <<>> /\ lines' = lines \o pipe /\ pipe' = <<>> /\ UNCHANGED rlClosed
     \/ pipe = <<>> /\ closed /\ rlClosed' = TRUE /\ UNCHANGED <<pipe, lines>>
  /\ UNCHANGED <<closed, invited, oneShot, deltas, answered, signals,
                 stopped, pc, acked, taskVars, callVars, authorVars>>

\* Mutant: the entry is left in the registry.
TimerFires_KeepsEntry(i) ==
  /\ TurnBegins /\ i \in pending /\ kind[i] \in {"recall", "complete"}
  /\ settled' = [settled EXCEPT ![i] = IF @ = "open" THEN "timeout" ELSE @]
  /\ UNCHANGED <<hostVars, runVars, taskVars, nextId, kind, pending, chain, sent,
                 buf, shut, authorVars>>

\* The timer of request; whoever settles the call clears it.
TimerFires(i) ==
  /\ TurnBegins /\ i \in pending /\ kind[i] \in {"recall", "complete"}
  /\ Settle({i}, "timeout")
  /\ UNCHANGED <<hostVars, runVars, taskVars, nextId, kind, chain, sent, buf, authorVars>>

\* onSig closes the readline interface.  The `finally` of run has let go of the
\* signals before it drains: node's default ends the process then.
Sigterm ==
  /\ TurnBegins /\ signals < MaxSignals /\ pc # "exited"
  /\ signals' = signals + 1
  /\ IF pc # "finaldrain" THEN rlClosed' = TRUE /\ UNCHANGED pc
                          ELSE "lateSignal" \in Faults /\ pc' = "killed" /\ UNCHANGED rlClosed
  /\ UNCHANGED <<pipe, closed, invited, oneShot, deltas, answered,
                 lines, stopped, acked, taskVars, callVars, authorVars>>

\* What an author awaits beside the SDK is over.
BusyEnds(t) ==
  /\ TurnBegins /\ at[t] = "busy"
  /\ at' = [at EXCEPT ![t] = "body"]
  /\ UNCHANGED <<hostVars, runVars, taskVars, callVars, naps, call, listened, got, outcome>>

----------------------------------------------------------------------------
(* run *)

\* The loop takes the next line, also when readline has been closed since.
Handling(types) ==
  /\ pc = "loop" /\ ~stopped /\ lines # <<>>
  /\ Head(lines).type \in types
  /\ lines' = Tail(lines)
  /\ UNCHANGED <<hostVars, rlClosed, stopped, acked>>

\* dispatchEvent, handleToolInvoke: a detached task.
HandleWork ==
  /\ Handling({"event", "tool"})
  /\ nextTask' = nextTask + 1
  /\ inflight' = inflight \cup {nextTask'}
  /\ at' = [at EXCEPT ![nextTask'] = "body"]
  /\ isTool' = [isTool EXCEPT ![nextTask'] = Head(lines).type = "tool"]
  /\ UNCHANGED <<pc, replies, broken, callVars, naps, call, listened, got, outcome>>

\* Frames the loop answers at once, and lines it skips.
HandleHere ==
  /\ Handling({"other"})
  /\ UNCHANGED <<pc, taskVars, callVars, authorVars>>

HandleReply ==
  /\ Handling({"reply"})
  /\ RouteResponse(Head(lines).id, Head(lines).r)
  /\ UNCHANGED <<pc, taskVars, authorVars>>

HandleDelta ==
  /\ Handling({"delta"})
  /\ RouteDelta(Head(lines).id, Head(lines).n)
  /\ UNCHANGED <<pc, taskVars, authorVars>>

\* Mutant: the calls are not abandoned.
HandleShutdown_NoAbandon ==
  /\ Handling({"shutdown"})
  /\ pc' = "drain"
  /\ UNCHANGED <<callVars, taskVars, authorVars>>

\* replyShutdown abandons the calls and waits for the tasks.
HandleShutdown ==
  /\ Handling({"shutdown"})
  /\ AbandonPending
  /\ pc' = "drain"
  /\ UNCHANGED <<taskVars, authorVars>>

\* Mutant: the tasks are not awaited.
ReplyShutdown_NoDrain ==
  /\ pc = "drain"
  /\ acked' = TRUE /\ stopped' = TRUE /\ rlClosed' = TRUE /\ pc' = "loop"
  /\ UNCHANGED <<hostVars, lines, taskVars, callVars, authorVars>>

\* ... then onShutdown, the reply, `stopped`, and readline is closed.
ReplyShutdown ==
  /\ pc = "drain" /\ inflight = {}
  /\ acked' = TRUE /\ stopped' = TRUE /\ rlClosed' = TRUE /\ pc' = "loop"
  /\ UNCHANGED <<hostVars, lines, taskVars, callVars, authorVars>>

\* Mutant: the `finally` does not wait for the tasks.
Leave_NoDrain ==
  /\ pc = "loop" /\ (stopped \/ (lines = <<>> /\ rlClosed))
  /\ AbandonPending
  /\ rlClosed' = TRUE /\ pc' = "exited"
  /\ UNCHANGED <<hostVars, lines, stopped, acked, taskVars, authorVars>>

\* The loop ends; the `finally` closes readline and abandons the calls.
Leave ==
  /\ pc = "loop" /\ (stopped \/ (lines = <<>> /\ rlClosed))
  /\ AbandonPending
  /\ rlClosed' = TRUE /\ pc' = "finaldrain"
  /\ UNCHANGED <<hostVars, lines, stopped, acked, taskVars, authorVars>>

FinalDrainDone ==
  /\ pc = "finaldrain" /\ inflight = {}
  /\ pc' = "exited"
  /\ UNCHANGED <<hostVars, lines, rlClosed, stopped, acked, taskVars, callVars, authorVars>>

\* The write chain writes its next request; one that cannot be encoded is
\* taken back, and the chain goes on.
WriteNext ==
  /\ chain # <<>> /\ chain' = Tail(chain)
  /\ \/ sent' = sent \cup {Head(chain)} /\ UNCHANGED <<pending, settled, shut>>
     \/ Settle({Head(chain)}, "transport") /\ UNCHANGED sent
  /\ UNCHANGED <<hostVars, runVars, taskVars, nextId, kind, buf, authorVars>>

Run == /\ Alive
       /\ \/ HandleWork \/ HandleHere \/ HandleReply \/ HandleDelta
          \/ HandleShutdown \/ ReplyShutdown \/ Leave \/ FinalDrainDone \/ WriteNext

----------------------------------------------------------------------------
(* The handlers *)

In(t, where) == Alive /\ at[t] = where
Goes(t, where) == at' = [at EXCEPT ![t] = where]

\* request, llmCompleteStream: allocate, register, join the write chain.
StartCall(t) ==
  /\ In(t, "body") /\ call[t] = 0 /\ nextId < MaxCalls
  /\ nextId' = nextId + 1
  /\ \E k \in {"recall", "complete", "stream"} :
       /\ k = "stream" => pc = "loop" \/ "lateStream" \in Faults
       /\ kind' = [kind EXCEPT ![nextId'] = k]
       /\ Goes(t, IF k = "stream" THEN "body" ELSE "waiting")
  /\ pending' = pending \cup {nextId'}
  /\ chain' = Append(chain, nextId')
  /\ settled' = [settled EXCEPT ![nextId'] = "open"]
  /\ call' = [call EXCEPT ![t] = nextId']
  /\ UNCHANGED <<hostVars, runVars, taskVars, sent, buf, shut, naps, listened, got, outcome>>

EndCall(t, o) ==
  /\ outcome' = [outcome EXCEPT ![call[t]] = o]
  /\ call' = [call EXCEPT ![t] = 0]
  /\ Goes(t, "body")

\* Mutant: memoryRecall does not look at the shape of its result.
CallReturns_Unchecked(t) ==
  /\ (In(t, "waiting") \/ In(t, "result")) /\ settled[call[t]] # "open"
  /\ EndCall(t, IF settled[call[t]] = "malformed" THEN "result" ELSE settled[call[t]])
  /\ UNCHANGED <<hostVars, runVars, taskVars, callVars, naps, listened, got>>

\* The promise the author awaits is settled.
CallReturns(t) ==
  /\ (In(t, "waiting") \/ In(t, "result")) /\ settled[call[t]] # "open"
  /\ EndCall(t, IF settled[call[t]] = "malformed" THEN "decode" ELSE settled[call[t]])
  /\ UNCHANGED <<hostVars, runVars, taskVars, callVars, naps, listened, got>>

InStream(t) == In(t, "body") /\ call[t] # 0

\* `for await` asks the channel for a chunk,
Pull(t) ==
  /\ InStream(t) /\ (buf[call[t]] # <<>> \/ call[t] \notin shut)
  /\ Goes(t, "pulling")
  /\ UNCHANGED <<hostVars, runVars, taskVars, callVars, naps, call, listened, got, outcome>>

\* and gets the oldest one, or the end when there is none in a closed channel.
Pulled(t) ==
  /\ In(t, "pulling")
  /\ \/ /\ buf[call[t]] # <<>>
        /\ got' = [got EXCEPT ![call[t]] = Append(@, Head(buf[call[t]]))]
        /\ buf' = [buf EXCEPT ![call[t]] = Tail(@)]
     \/ buf[call[t]] = <<>> /\ call[t] \in shut /\ UNCHANGED <<got, buf>>
  /\ Goes(t, "body")
  /\ UNCHANGED <<hostVars, runVars, taskVars, nextId, kind, pending, chain, sent,
                 settled, shut, naps, call, listened, outcome>>

\* await stream.result
AskResult(t) ==
  /\ InStream(t)
  /\ listened' = listened \cup {call[t]}
  /\ Goes(t, "result")
  /\ UNCHANGED <<hostVars, runVars, taskVars, callVars, naps, call, got, outcome>>

\* The author goes on without the stream, also before its request is written.
DropStream(t) ==
  /\ InStream(t) /\ "dropStream" \in Faults
  /\ EndCall(t, "dropped")
  /\ UNCHANGED <<hostVars, runVars, taskVars, callVars, naps, listened, got>>

\* The author awaits something that is not the SDK's.
GetsBusy(t) ==
  /\ In(t, "body") /\ (call[t] = 0 \/ "busyStream" \in Faults)
  /\ naps[t] < MaxBusy /\ naps' = [naps EXCEPT ![t] = @ + 1]
  /\ Goes(t, "busy")
  /\ UNCHANGED <<hostVars, runVars, taskVars, callVars, call, listened, got, outcome>>

\* Mutant: a tool whose result cannot be encoded gets no reply.
Return_Silent(t) ==
  /\ In(t, "body") /\ call[t] = 0
  /\ \E n \in {0, 1} :
       replies' = [replies EXCEPT ![t] = IF isTool[t] THEN n ELSE 0]
  /\ inflight' = inflight \ {t}
  /\ Goes(t, "done")
  /\ UNCHANGED <<hostVars, runVars, nextTask, isTool, broken, callVars, naps, call, listened,
                 got, outcome>>

\* The handler returns or throws; a tool is answered, with its result or an
\* error.  An error whose details cannot be encoded rejects the task instead.
Return(t) ==
  /\ In(t, "body") /\ call[t] = 0
  /\ \E encodable \in {TRUE} \cup {b \in {FALSE} : "badDetails" \in Faults /\ isTool[t]} :
       /\ replies' = [replies EXCEPT ![t] = IF isTool[t] /\ encodable THEN 1 ELSE 0]
       /\ broken' = (broken \/ ~encodable)
  /\ inflight' = inflight \ {t}
  /\ Goes(t, "done")
  /\ UNCHANGED <<hostVars, runVars, nextTask, isTool, callVars, naps, call, listened, got, outcome>>

Handler(t) == \/ StartCall(t) \/ CallReturns(t) \/ Pull(t) \/ Pulled(t) \/ AskResult(t)
              \/ DropStream(t) \/ GetsBusy(t) \/ Return(t)

----------------------------------------------------------------------------
(* The host *)

Process == <<runVars, taskVars, callVars, authorVars>>

Write(f) == ~closed /\ Len(pipe) < PipeCap /\ pipe' = Append(pipe, f)

HostInvites ==
  /\ invited < MaxTasks /\ invited' = invited + 1
  /\ \E k \in {"event", "tool"} : Write([type |-> k])
  /\ UNCHANGED <<closed, oneShot, deltas, answered, signals, Process>>

HostOneShot ==
  /\ \E k \in OneShots \ oneShot : oneShot' = oneShot \cup {k} /\ Write([type |-> k])
  /\ UNCHANGED <<closed, invited, deltas, answered, signals, Process>>

HostAnswers ==
  /\ \E i \in sent \ answered, r \in {"result", "malformed", "error"} :
       answered' = answered \cup {i} /\ Write([type |-> "reply", id |-> i, r |-> r])
  /\ UNCHANGED <<closed, invited, oneShot, deltas, signals, Process>>

HostSendsDelta ==
  /\ \E i \in sent \ answered :
       /\ kind[i] = "stream" /\ deltas[i] < MaxChunks
       /\ deltas' = [deltas EXCEPT ![i] = @ + 1]
       /\ Write([type |-> "delta", id |-> i, n |-> deltas'[i]])
  /\ UNCHANGED <<closed, invited, oneShot, answered, signals, Process>>

HostCloses ==
  /\ ~closed /\ closed' = TRUE
  /\ UNCHANGED <<pipe, invited, oneShot, deltas, answered, signals, Process>>

Host == HostInvites \/ HostOneShot \/ HostAnswers \/ HostSendsDelta \/ HostCloses

Turn == Data \/ Sigterm \/ Crash

Next == \/ Run
        \/ Turn
        \/ \E t \in Tasks : Handler(t) \/ BusyEnds(t)
        \/ \E i \in Ids : TimerFires(i)
        \/ Host

Spec == Init /\ [][Next]_vars

\* Node runs every reaction, serves stdin and fires every timer.
LoopFairness ==
  /\ WF_vars(Run) /\ WF_vars(Data) /\ WF_vars(Crash)
  /\ \A t \in Tasks : WF_vars(Handler(t))
  /\ \A i \in Ids : WF_vars(TimerFires(i))

\* What handlers await beside the SDK ends.
HandlerFairness == \A t \in Tasks : WF_vars(BusyEnds(t))

LoopSpec == Spec /\ LoopFairness
FairSpec == Spec /\ LoopFairness /\ HandlerFairness

----------------------------------------------------------------------------
(* Properties *)

\* The registry holds exactly the calls that are open: none that is over stays,
\* and none is open that neither a reply, its timer nor an abandon would find.
RegistryIsOpenCalls == pending = {i \in Ids : settled[i] = "open"}

\* What the iterator yielded and will yield is the host's stream in order; a
\* stream with a result lost nothing of it, and no iterator waits for more
\* once its stream is over (host.ts: "Resolves after every delta has been
\* delivered").
StreamFaithful ==
  \A i \in Ids : kind[i] = "stream" =>
    /\ \A k \in DOMAIN (got[i] \o buf[i]) : (got[i] \o buf[i])[k] = k
    /\ settled[i] = "result" => Len(got[i]) + Len(buf[i]) = deltas[i]
    /\ settled[i] # "open" => i \in shut

\* Acknowledged: every handler ended, and every tool.invoke that was read was
\* answered once.
AckAfterReplies ==
  acked => /\ inflight = {}
           /\ \A t \in 1 .. nextTask : isTool[t] => replies[t] = 1

\* After the acknowledgement no handler replies or issues a request: what may
\* still be written are requests that joined the write chain before it, which
\* the acknowledgement does not go through.
AckEndsWork == [][acked => UNCHANGED <<replies, nextId>>]_vars

\* ... and the write chain had written them all.
AckIsLast == [][acked => sent' = sent /\ replies' = replies]_vars

\* A shutdown that was read is acknowledged (README.md: "`{ ok: true }` after
\* draining in-flight tasks").
ShutdownAcked == pc = "drain" ~> acked

\* The adapter stops the way GracefulStop says.
Graceful == INSTANCE GracefulStop WITH
  Work  <- Tasks,
  work  <- inflight,
  phase <- CASE pc = "exited" -> "over"
             [] pc # "exited" /\ acked -> "acked"
             [] pc \in {"drain", "finaldrain"} /\ ~acked -> "stopping"
             [] OTHER -> "serving"

StopsGracefully == Graceful!StopSpec

InCall(i) == \E t \in Tasks : call[t] = i

\* What a call has heard, and where it stands for the author who issued it.
HeardOf(i) == IF settled[i] \in {"open", "timeout"} THEN "none" ELSE settled[i]

VerdictOf(i) == CASE kind[i] = "none" -> "idle"
                  [] kind[i] # "none" /\ InCall(i) -> "open"
                  [] OTHER -> outcome[i]

\* The author's view of every call is the contract of the host calls.
Contract == INSTANCE HostCallContract WITH
  Calls   <- Ids,
  heard   <- [i \in Ids |-> HeardOf(i)],
  verdict <- [i \in Ids |-> VerdictOf(i)]

ImplementsContract == Contract!ContractSpec
============================================================================
