----------------------------- MODULE PhpAdapter -----------------------------
(***************************************************************************)
(* The PHP SDK: `PluginAdapter::run` (PluginAdapter.php), the fiber         *)
(* `Scheduler`, the `PendingRegistry` (Host.php) and the host calls of      *)
(* `BrokerSender`.                                                          *)
(*                                                                          *)
(* One thread: the main loop reads at most one line, handles it, looks for  *)
(* the end of stdin and resumes every handler fiber once.  A fiber keeps    *)
(* the thread until it suspends, so while `running` is a fiber nothing but  *)
(* that fiber, the host, a signal and the clock can step.                   *)
(***************************************************************************)
EXTENDS Naturals, Sequences, FiniteSets, SequencesExt

CONSTANTS
  MaxTasks,      \* bound: events and tool invocations the host sends
  MaxCalls,      \* bound: requests the handlers issue
  MaxChunks,     \* bound: deltas the host sends for one stream
  PipeCap,       \* bound: lines in stdin that were not read yet
  MaxSignals,    \* bound: SIGTERMs sent to the process
  OneShots,      \* frames the host sends once, beside events and tools
  HostEndings,   \* how the host may end our stdin: "closes", "midline" (within a line)
  AuthorFaults   \* "badDetails": ToolError data that json_encode rejects;
                 \* "chunkSuspends", "chunkThrows": what an onChunk callback may do;
                 \* "badParams": options that make llmParams throw

ASSUME PhpAssumption ==
  /\ MaxTasks \in Nat \ {0} /\ MaxCalls \in Nat \ {0}
  /\ MaxChunks \in Nat \ {0} /\ PipeCap \in Nat \ {0} /\ MaxSignals \in Nat
  /\ OneShots \subseteq {"other", "fatal", "shutdown"}
  /\ HostEndings \subseteq {"closes", "midline"}
  /\ AuthorFaults \subseteq {"badDetails", "chunkSuspends", "chunkThrows", "badParams"}

Tasks == 1 .. MaxTasks
Ids   == 1 .. MaxCalls

Line == [type : {"event", "tool", "other", "fatal", "shutdown", "partial"}]
          \cup [type : {"reply"}, id : Ids, r : {"result", "error"}]
          \cup [type : {"delta"}, id : Ids, n : 1 .. MaxChunks]
NoLine == [type |-> "none"]

VARIABLES
  \* the host
  pipe,       \* lines written to our stdin and not read
  closed,     \* the host closed our stdin
  invited,    \* events and tool invocations sent
  oneShot,    \* one-shot frames sent
  deltas,     \* deltas sent per stream
  answered,   \* ids replied to
  signals,    \* SIGTERMs sent
  \* the main loop
  buffer,     \* `stdinBuffer`, as lines; the last may be partial
  eof,        \* feof(STDIN)
  line,       \* the line read in this iteration
  stopped,    \* `stopped`
  pc,         \* where the main loop is
  acked,      \* the shutdown was replied to
  \* Scheduler
  inflight,   \* the suspended fibers, in order
  todo,       \* the fibers this tick has not resumed yet
  running,    \* the fiber that has the thread; 0: the main loop
  nextTask,   \* fibers created
  isTool,     \* whether a fiber serves a tool.invoke
  replies,    \* replies written per tool invocation
  \* PendingRegistry
  nextId,     \* ids allocated
  kind,       \* "none" | "single" | "stream" | "unsent" (a stream never asked for), per id
  reg,        \* the keys of `entries`
  done,       \* the entries marked done
  result,     \* whether an entry holds a result
  error,      \* "none" | "server" | "transport"
  chunks,     \* the chunks of an entry
  \* BrokerSender, in the fibers
  at,         \* "none" | "body" | "single" | "stream" | "chunk" | "done", per fiber
  call,       \* the call a fiber is in; 0: none
  snap,       \* the snapshot of the entry a stream loop works on
  cursor,     \* chunks passed to onChunk
  late,       \* ids whose deadline has passed
  outcome     \* what a call gave its author

hostVars == <<pipe, closed, invited, oneShot, deltas, answered, signals>>
loopVars == <<buffer, eof, line, stopped, pc, acked>>
taskVars == <<inflight, todo, running, nextTask, isTool, replies>>
regVars  == <<nextId, kind, reg, done, result, error, chunks>>
callVars == <<at, call, snap, cursor, late, outcome>>
vars     == <<hostVars, loopVars, taskVars, regVars, callVars>>

HostTypes ==
  /\ pipe \in Seq(Line) /\ closed \in BOOLEAN
  /\ invited \in 0 .. MaxTasks /\ oneShot \subseteq OneShots
  /\ deltas \in [Ids -> 0 .. MaxChunks] /\ answered \subseteq Ids
  /\ signals \in 0 .. MaxSignals

LoopTypes ==
  /\ buffer \in Seq(Line) /\ line \in Line \cup {NoLine}
  /\ eof \in BOOLEAN /\ stopped \in BOOLEAN /\ acked \in BOOLEAN
  /\ pc \in {"read", "handle", "eof", "tick", "drain", "finaldrain", "exited"}

TaskTypes ==
  /\ inflight \in Seq(Tasks) /\ todo \in Seq(Tasks)
  /\ running \in 0 .. MaxTasks /\ nextTask \in 0 .. MaxTasks
  /\ isTool \in [Tasks -> BOOLEAN] /\ replies \in [Tasks -> 0 .. 1]

RegTypes ==
  /\ nextId \in 0 .. MaxCalls
  /\ kind \in [Ids -> {"none", "single", "stream", "unsent"}]
  /\ reg \subseteq Ids /\ done \subseteq Ids /\ result \subseteq Ids
  /\ error \in [Ids -> {"none", "server", "transport"}]
  /\ chunks \in [Ids -> Seq(1 .. MaxChunks)]

CallTypes ==
  /\ at \in [Tasks -> {"none", "body", "single", "stream", "chunk", "done"}]
  /\ call \in [Tasks -> 0 .. MaxCalls]
  /\ snap \in [Tasks -> [done : BOOLEAN, len : Nat]]
  /\ cursor \in [Ids -> Nat]
  /\ late \subseteq Ids
  /\ outcome \in [Ids -> {"none", "result", "server", "transport", "timeout", "dropped"}]

TypeOK == HostTypes /\ LoopTypes /\ TaskTypes /\ RegTypes /\ CallTypes

Init ==
  /\ pipe = <<>> /\ closed = FALSE /\ invited = 0 /\ oneShot = {}
  /\ deltas = [i \in Ids |-> 0] /\ answered = {} /\ signals = 0
  /\ buffer = <<>> /\ eof = FALSE /\ line = NoLine /\ stopped = FALSE
  /\ pc = "read" /\ acked = FALSE
  /\ inflight = <<>> /\ todo = <<>> /\ running = 0 /\ nextTask = 0
  /\ isTool = [t \in Tasks |-> FALSE] /\ replies = [t \in Tasks |-> 0]
  /\ nextId = 0 /\ kind = [i \in Ids |-> "none"]
  /\ reg = {} /\ done = {} /\ result = {}
  /\ error = [i \in Ids |-> "none"] /\ chunks = [i \in Ids |-> <<>>]
  /\ at = [t \in Tasks |-> "none"] /\ call = [t \in Tasks |-> 0]
  /\ snap = [t \in Tasks |-> [done |-> FALSE, len |-> 0]]
  /\ cursor = [i \in Ids |-> 0] /\ late = {}
  /\ outcome = [i \in Ids |-> "none"]

----------------------------------------------------------------------------
(* PendingRegistry *)

\* abandonAll: every entry is marked failed, the ones already done included.
AbandonAll ==
  /\ done' = done \cup reg
  /\ error' = [i \in Ids |-> IF i \in reg THEN "transport" ELSE error[i]]
  /\ UNCHANGED <<nextId, kind, reg, result, chunks>>

\* resolveResponse: an error is never cleared, a result never removed.
ResolveResponse(i, r) ==
  /\ IF i \notin reg THEN UNCHANGED <<done, result, error>>
     ELSE /\ done' = done \cup {i}
          /\ IF r = "error" THEN error' = [error EXCEPT ![i] = "server"] /\ UNCHANGED result
                            ELSE result' = result \cup {i} /\ UNCHANGED error
  /\ UNCHANGED <<nextId, kind, reg, chunks>>

\* Mutant: the chunk replaces the ones before it.
AppendChunk_Replaces(i, n) ==
  /\ chunks' = IF i \in reg /\ kind[i] = "stream"
                 THEN [chunks EXCEPT ![i] = <<n>>] ELSE chunks
  /\ UNCHANGED <<nextId, kind, reg, done, result, error>>

\* appendChunk
AppendChunk(i, n) ==
  /\ chunks' = IF i \in reg /\ kind[i] = "stream"
                 THEN [chunks EXCEPT ![i] = Append(@, n)] ELSE chunks
  /\ UNCHANGED <<nextId, kind, reg, done, result, error>>

\* throwIfError, and else the result.
Verdict(i) == IF error[i] # "none" THEN error[i] ELSE "result"

----------------------------------------------------------------------------
(* The main loop *)

Main(p) == pc = p /\ running = 0

\* Mutant: the `finally` does not drain.
Finally_NoDrain ==
  /\ AbandonAll
  /\ todo' = <<>>
  /\ pc' = "exited"

\* The `finally` of run: abandon, then drain what is suspended.
Finally ==
  /\ AbandonAll
  /\ todo' = inflight
  /\ pc' = IF inflight = <<>> THEN "exited" ELSE "finaldrain"

\* stream_select + fread take what is in the pipe, or learn of its end; then
\* the first complete line of the buffer is popped.  A line without its
\* newline stays.
ReadLine ==
  /\ Main("read") /\ ~stopped
  /\ pipe' = <<>>
  /\ eof' = (eof \/ (pipe = <<>> /\ closed))
  /\ LET all == buffer \o pipe
     IN  IF all # <<>> /\ Head(all).type # "partial"
           THEN line' = Head(all) /\ buffer' = Tail(all) /\ pc' = "handle"
           ELSE line' = NoLine /\ buffer' = all /\ pc' = "eof"
  /\ UNCHANGED <<closed, invited, oneShot, deltas, answered, signals,
                 stopped, acked, taskVars, regVars, callVars>>

\* The loop condition fails.
Leave ==
  /\ Main("read") /\ stopped
  /\ Finally
  /\ UNCHANGED <<hostVars, buffer, eof, line, stopped, acked,
                 inflight, running, nextTask, isTool, replies, callVars>>

Handling(type) == Main("handle") /\ line.type = type /\ line' = NoLine

\* dispatchEvent, handleToolInvoke: Scheduler::spawn starts the fiber at once;
\* it is in flight from then on, first as the running one.
HandleWork ==
  \E tool \in BOOLEAN :
  /\ Handling(IF tool THEN "tool" ELSE "event")
  /\ nextTask' = nextTask + 1
  /\ running' = nextTask'
  /\ at' = [at EXCEPT ![nextTask'] = "body"]
  /\ isTool' = [isTool EXCEPT ![nextTask'] = tool]
  /\ pc' = "eof"
  /\ UNCHANGED <<hostVars, buffer, eof, stopped, acked, inflight, todo, replies,
                 regVars, call, snap, cursor, late, outcome>>

\* Frames the main loop answers itself, and lines it skips.
HandleHere ==
  /\ Handling("other")
  /\ pc' = "eof"
  /\ UNCHANGED <<hostVars, buffer, eof, stopped, acked, taskVars, regVars, callVars>>

\* A request whose id is a float, a list, ...: a TypeError leaves the loop.
HandleFatal ==
  /\ Handling("fatal")
  /\ Finally
  /\ UNCHANGED <<hostVars, buffer, eof, stopped, acked,
                 inflight, running, nextTask, isTool, replies, callVars>>

HandleReply ==
  /\ Handling("reply")
  /\ ResolveResponse(line.id, line.r)
  /\ pc' = "eof"
  /\ UNCHANGED <<hostVars, buffer, eof, stopped, acked, taskVars, callVars>>

HandleDelta ==
  /\ Handling("delta")
  /\ AppendChunk(line.id, line.n)
  /\ pc' = "eof"
  /\ UNCHANGED <<hostVars, buffer, eof, stopped, acked, taskVars, callVars>>

\* replyShutdown: abandon, then drain.
HandleShutdown ==
  /\ Handling("shutdown")
  /\ AbandonAll
  /\ todo' = inflight
  /\ pc' = "drain"
  /\ UNCHANGED <<hostVars, buffer, eof, stopped, acked,
                 inflight, running, nextTask, isTool, replies, callVars>>

\* Scheduler::drain ticks until nothing is in flight.
DrainAgain ==
  /\ running = 0 /\ pc \in {"drain", "finaldrain"}
  /\ todo = <<>> /\ inflight # <<>>
  /\ todo' = inflight
  /\ UNCHANGED <<hostVars, loopVars, inflight, running, nextTask, isTool, replies,
                 regVars, callVars>>

\* Mutant: one tick in place of drain.
ReplyShutdown_OneTick ==
  /\ Main("drain") /\ todo = <<>>
  /\ acked' = TRUE /\ stopped' = TRUE
  /\ pc' = "eof"
  /\ UNCHANGED <<hostVars, buffer, eof, line, taskVars, regVars, callVars>>

\* onShutdown, the reply, and `stopped`.
ReplyShutdown ==
  /\ Main("drain") /\ todo = <<>> /\ inflight = <<>>
  /\ acked' = TRUE /\ stopped' = TRUE
  /\ pc' = "eof"
  /\ UNCHANGED <<hostVars, buffer, eof, line, taskVars, regVars, callVars>>

FinalDrainDone ==
  /\ Main("finaldrain") /\ todo = <<>> /\ inflight = <<>>
  /\ pc' = "exited"
  /\ UNCHANGED <<hostVars, buffer, eof, line, stopped, acked, taskVars, regVars, callVars>>

\* Mutant: the end of stdin is not looked for.
LookForEof_Never ==
  /\ Main("eof")
  /\ pc' = "tick" /\ todo' = inflight
  /\ UNCHANGED <<regVars, hostVars, buffer, eof, line, stopped, acked,
                 inflight, running, nextTask, isTool, replies, callVars>>

\* feof and an empty buffer leave the loop before the tick.
LookForEof ==
  /\ Main("eof")
  /\ IF eof /\ buffer = <<>>
       THEN Finally
       ELSE pc' = "tick" /\ todo' = inflight /\ UNCHANGED regVars
  /\ UNCHANGED <<hostVars, buffer, eof, line, stopped, acked,
                 inflight, running, nextTask, isTool, replies, callVars>>

TickDone ==
  /\ Main("tick") /\ todo = <<>>
  /\ pc' = "read"
  /\ UNCHANGED <<hostVars, buffer, eof, line, stopped, acked, taskVars, regVars, callVars>>

\* Scheduler::tick resumes the next fiber.
ResumeFiber ==
  /\ running = 0 /\ todo # <<>> /\ pc \in {"tick", "drain", "finaldrain"}
  /\ running' = Head(todo) /\ todo' = Tail(todo)
  /\ UNCHANGED <<hostVars, loopVars, inflight, nextTask, isTool, replies,
                 regVars, callVars>>

Loop == \/ ReadLine \/ Leave \/ HandleWork \/ HandleHere \/ HandleFatal
        \/ HandleReply \/ HandleDelta \/ HandleShutdown \/ DrainAgain
        \/ ReplyShutdown \/ FinalDrainDone \/ LookForEof \/ TickDone \/ ResumeFiber

----------------------------------------------------------------------------
(* The fibers *)

Has(t, where) == running = t /\ at[t] = where

\* Fiber::suspend(): a new fiber joins the ones in flight.
Suspend(t) ==
  /\ running' = 0
  /\ inflight' = IF t \in ToSet(inflight) THEN inflight ELSE Append(inflight, t)
  /\ UNCHANGED <<todo, nextTask, isTool, replies>>

\* The author's code suspends by itself.
AuthorSuspends(t) ==
  /\ Has(t, "body")
  /\ Suspend(t)
  /\ UNCHANGED <<hostVars, loopVars, regVars, callVars>>

\* request / llmCompleteStream up to their loop: allocId, register, write.
StartCall(t) ==
  /\ Has(t, "body") /\ nextId < MaxCalls
  /\ nextId' = nextId + 1
  /\ \E k \in {"single", "stream"} :
       /\ kind' = [kind EXCEPT ![nextId'] = k]
       /\ at' = [at EXCEPT ![t] = k]
  /\ reg' = reg \cup {nextId'}
  /\ call' = [call EXCEPT ![t] = nextId']
  /\ UNCHANGED <<hostVars, loopVars, taskVars, done, result, error, chunks,
                 snap, cursor, late, outcome>>

\* llmCompleteStream when llmParams throws: the entry is registered already, and
\* stays; no request is written.
StartCallThrows(t) ==
  /\ Has(t, "body") /\ nextId < MaxCalls /\ "badParams" \in AuthorFaults
  /\ nextId' = nextId + 1
  /\ kind' = [kind EXCEPT ![nextId'] = "unsent"]
  /\ reg' = reg \cup {nextId'}
  /\ outcome' = [outcome EXCEPT ![nextId'] = "dropped"]
  /\ UNCHANGED <<hostVars, loopVars, taskVars, done, result, error, chunks,
                 at, call, snap, cursor, late>>

\* Mutant: the entry is not forgotten.
EndCall_KeepsEntry(t, o) ==
  /\ outcome' = [outcome EXCEPT ![call[t]] = o]
  /\ call' = [call EXCEPT ![t] = 0]
  /\ at' = [at EXCEPT ![t] = "body"]
  /\ UNCHANGED <<nextId, kind, reg, done, result, error, chunks, snap, late>>

\* The call ends: forget the entry, go back to the author's code.
EndCall(t, o) ==
  /\ reg' = reg \ {call[t]}
  /\ outcome' = [outcome EXCEPT ![call[t]] = o]
  /\ call' = [call EXCEPT ![t] = 0]
  /\ at' = [at EXCEPT ![t] = "body"]
  /\ UNCHANGED <<nextId, kind, done, result, error, chunks, snap, late>>

\* Mutant: the deadline is looked at first.
PollSingle_DeadlineFirst(t) ==
  /\ Has(t, "single")
  /\ \/ call[t] \in late /\ EndCall(t, "timeout") /\ UNCHANGED <<taskVars, cursor>>
     \/ call[t] \in done \ late /\ EndCall(t, Verdict(call[t])) /\ UNCHANGED <<taskVars, cursor>>
     \/ call[t] \notin late \cup done /\ Suspend(t) /\ UNCHANGED <<regVars, callVars>>
  /\ UNCHANGED <<hostVars, loopVars>>

\* Mutant: there is no deadline.
PollSingle_NoDeadline(t) ==
  /\ Has(t, "single")
  /\ \/ call[t] \in done /\ EndCall(t, Verdict(call[t])) /\ UNCHANGED <<taskVars, cursor>>
     \/ call[t] \notin done /\ Suspend(t) /\ UNCHANGED <<regVars, callVars>>
  /\ UNCHANGED <<hostVars, loopVars>>

\* request: a done entry is looked at before the deadline.
PollSingle(t) ==
  /\ Has(t, "single")
  /\ \/ call[t] \in done /\ EndCall(t, Verdict(call[t])) /\ UNCHANGED <<taskVars, cursor>>
     \/ call[t] \in late \ done /\ EndCall(t, "timeout") /\ UNCHANGED <<taskVars, cursor>>
     \/ call[t] \notin late \cup done /\ Suspend(t) /\ UNCHANGED <<regVars, callVars>>
  /\ UNCHANGED <<hostVars, loopVars>>

\* llmCompleteStream, top of its loop: peek copies the entry.
PeekStream(t) ==
  /\ Has(t, "stream")
  /\ snap' = [snap EXCEPT ![t] = [done |-> call[t] \in done, len |-> Len(chunks[call[t]])]]
  /\ at' = [at EXCEPT ![t] = "chunk"]
  /\ UNCHANGED <<hostVars, loopVars, taskVars, regVars, call, cursor, late, outcome>>

\* onChunk for the next chunk of the snapshot; the callback may suspend, or
\* throw: the call ends then, and its entry stays in the registry.
PassChunk(t) ==
  /\ Has(t, "chunk") /\ cursor[call[t]] < snap[t].len
  /\ cursor' = [cursor EXCEPT ![call[t]] = @ + 1]
  /\ \/ UNCHANGED <<taskVars, at, call, outcome>>
     \/ "chunkSuspends" \in AuthorFaults /\ Suspend(t) /\ UNCHANGED <<at, call, outcome>>
     \/ /\ "chunkThrows" \in AuthorFaults
        /\ at' = [at EXCEPT ![t] = "body"] /\ call' = [call EXCEPT ![t] = 0]
        /\ outcome' = [outcome EXCEPT ![call[t]] = "dropped"]
        /\ UNCHANGED taskVars
  /\ UNCHANGED <<hostVars, loopVars, regVars, snap, late>>

\* The snapshot is used up: its `done` ends the call, with what landed since
\* (the flush peeks again) and the verdict of now; else the deadline is looked
\* at, and the fiber suspends.
EndSnapshot(t) ==
  /\ Has(t, "chunk") /\ cursor[call[t]] = snap[t].len
  /\ \/ /\ snap[t].done
        /\ cursor' = [cursor EXCEPT ![call[t]] = Len(chunks[call[t]])]
        /\ EndCall(t, Verdict(call[t]))
        /\ UNCHANGED taskVars
     \/ /\ ~snap[t].done /\ call[t] \in late
        /\ EndCall(t, "timeout") /\ UNCHANGED <<taskVars, cursor>>
     \/ /\ ~snap[t].done /\ call[t] \notin late
        /\ Suspend(t)
        /\ at' = [at EXCEPT ![t] = "stream"]
        /\ UNCHANGED <<regVars, call, snap, cursor, late, outcome>>
  /\ UNCHANGED <<hostVars, loopVars>>

\* Scheduler::tick keeps the fibers that have not terminated; one that never
\* suspended was not among them.
Terminates(t) ==
  /\ running' = 0
  /\ \/ t \notin ToSet(inflight) /\ UNCHANGED inflight
     \/ \E p \in DOMAIN inflight : inflight[p] = t /\ inflight' = RemoveAt(inflight, p)

\* The handler returns or throws.  A tool is answered with its result or an
\* error; an error that cannot be encoded becomes a blank line.
Return(t) ==
  /\ Has(t, "body")
  /\ Terminates(t)
  /\ at' = [at EXCEPT ![t] = "done"]
  /\ \E encodable \in {TRUE} \cup {b \in {FALSE} : "badDetails" \in AuthorFaults} :
       replies' = IF isTool[t] /\ encodable
                    THEN [replies EXCEPT ![t] = @ + 1] ELSE replies
  /\ UNCHANGED <<hostVars, loopVars, todo, nextTask, isTool, regVars,
                 call, snap, cursor, late, outcome>>

Fiber(t) == \/ AuthorSuspends(t) \/ StartCall(t) \/ StartCallThrows(t) \/ PollSingle(t)
            \/ PeekStream(t) \/ PassChunk(t) \/ EndSnapshot(t) \/ Return(t)

----------------------------------------------------------------------------
(* The host, the supervisor and the clock *)

Others == <<buffer, eof, line, pc, acked, taskVars, regVars, at, call, snap, cursor, outcome>>

Write(f) == ~closed /\ Len(pipe) < PipeCap /\ pipe' = Append(pipe, f)

HostInvites ==
  /\ invited < MaxTasks /\ invited' = invited + 1
  /\ \E k \in {"event", "tool"} : Write([type |-> k])
  /\ UNCHANGED <<closed, oneShot, deltas, answered, signals, stopped, late, Others>>

HostOneShot ==
  /\ \E k \in OneShots \ oneShot : oneShot' = oneShot \cup {k} /\ Write([type |-> k])
  /\ UNCHANGED <<closed, invited, deltas, answered, signals, stopped, late, Others>>

HostAnswers ==
  /\ \E i \in (1 .. nextId) \ answered, r \in {"result", "error"} :
       /\ kind[i] # "unsent"
       /\ answered' = answered \cup {i}
       /\ Write([type |-> "reply", id |-> i, r |-> r])
  /\ UNCHANGED <<closed, invited, oneShot, deltas, signals, stopped, late, Others>>

HostSendsDelta ==
  /\ \E i \in (1 .. nextId) \ answered :
       /\ kind[i] = "stream" /\ deltas[i] < MaxChunks
       /\ deltas' = [deltas EXCEPT ![i] = @ + 1]
       /\ Write([type |-> "delta", id |-> i, n |-> deltas'[i]])
  /\ UNCHANGED <<closed, invited, oneShot, answered, signals, stopped, late, Others>>

\* The host closes our stdin or dies, perhaps in the middle of a line.
HostEnds ==
  /\ ~closed /\ closed' = TRUE
  /\ \/ "closes" \in HostEndings /\ UNCHANGED pipe
     \/ "midline" \in HostEndings /\ Write([type |-> "partial"])
  /\ UNCHANGED <<invited, oneShot, deltas, answered, signals, stopped, late, Others>>

\* The handlers of pcntl_signal stay installed to the end.
Sigterm ==
  /\ signals < MaxSignals /\ pc # "exited"
  /\ signals' = signals + 1 /\ stopped' = TRUE
  /\ UNCHANGED <<pipe, closed, invited, oneShot, deltas, answered, late, Others>>

DeadlinePasses(i) ==
  /\ i \in reg /\ late' = late \cup {i} /\ late' # late
  /\ UNCHANGED <<hostVars, stopped, Others>>

Environment == HostInvites \/ HostOneShot \/ HostAnswers \/ HostSendsDelta
               \/ HostEnds \/ Sigterm

Next == \/ Loop
        \/ \E t \in Tasks : Fiber(t)
        \/ \E i \in Ids : DeadlinePasses(i)
        \/ Environment

Spec == Init /\ [][Next]_vars

\* The loop goes on and deadlines pass; a fiber that has the thread gives it
\* back or ends.
LoopFairness ==
  /\ WF_vars(Loop)
  /\ \A i \in Ids : WF_vars(DeadlinePasses(i))
  /\ \A t \in Tasks : WF_vars(Fiber(t) /\ ~StartCall(t))

\* Handlers end, after the calls they wait for.
HandlerFairness == \A t \in Tasks : SF_vars(Return(t))

LoopSpec == Spec /\ LoopFairness
FairSpec == Spec /\ LoopFairness /\ HandlerFairness

----------------------------------------------------------------------------
(* Properties *)

InCall(i) == \E t \in Tasks : call[t] = i

\* The registry holds exactly the calls that some fiber is in: nothing leaks,
\* and no fiber polls an entry that has vanished.
RegistryIsCalls == reg = {i \in Ids : InCall(i)}

\* What onChunk was given and what it will be given is the host's stream, in
\* order; a call that gave its author a result was given all of it.
StreamFaithful ==
  \A i \in Ids : kind[i] = "stream" =>
    /\ \A k \in DOMAIN chunks[i] : chunks[i][k] = k
    /\ outcome[i] = "result" => cursor[i] = deltas[i]

\* Acknowledged: every handler ended, and every tool.invoke that was read was
\* answered once.
AckAfterReplies ==
  acked => /\ inflight = <<>>
           /\ \A t \in Tasks : isTool[t] => replies[t] = 1

\* Abandoning fails the calls that are outstanding, and leaves alone the ones
\* the host has answered (CHANGELOG 0.3.0).
AbandonKeepsAnswers ==
  [][\A i \in Ids : i \in done /\ i \in reg' => Verdict(i)' = Verdict(i)]_vars

\* A shutdown that was read is acknowledged.
ShutdownAcked == pc = "drain" ~> acked

\* The end of stdin ends run.
EofEnds == closed ~> pc = "exited"

Suspended == ToSet(inflight) \cup ({running} \ {0})

\* The adapter stops the way GracefulStop says, whatever signals it gets.
Graceful == INSTANCE GracefulStop WITH
  Work  <- Tasks,
  work  <- Suspended,
  phase <- CASE pc = "exited" -> "over"
             [] pc # "exited" /\ acked -> "acked"
             [] pc \in {"drain", "finaldrain"} /\ ~acked -> "stopping"
             [] OTHER -> "serving"

StopsGracefully == Graceful!StopSpec

\* What a call has heard, and where it stands for the author who issued it.
HeardOf(i) == IF i \in done THEN Verdict(i) ELSE "none"

VerdictOf(i) == CASE kind[i] = "none" -> "idle"
                  [] kind[i] # "none" /\ InCall(i) -> "open"
                  [] OTHER -> outcome[i]

\* The author's view of every call is the contract of the host calls.
Contract == INSTANCE HostCallContract WITH
  Calls   <- Ids,
  heard   <- [i \in Ids |-> HeardOf(i)],
  verdict <- [i \in Ids |-> VerdictOf(i)]

ImplementsContract == Contract!ContractSpec
============================================================================
