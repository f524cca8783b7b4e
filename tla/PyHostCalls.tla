---------------------------- MODULE PyHostCalls ----------------------------
(***************************************************************************)
(* The child-to-host calls of the Python SDK: `BrokerSender` (broker.py),   *)
(* the response routing of `PluginAdapter` (adapter.py) and `LlmStream`     *)
(* (host.py), which share one registry, `_pending`.                         *)
(*                                                                          *)
(* One asyncio thread runs everything, so a step is what happens between    *)
(* two awaits.  Writes never wait (nothing awaits while it holds the write  *)
(* lock), so registering a request and writing it is one step.              *)
(*                                                                          *)
(* The host is the environment: it replies to what was sent, and may reply  *)
(* twice; it may also stream on after its reply.                            *)
(***************************************************************************)
EXTENDS Naturals, Sequences, FiniteSets

CONSTANTS
  MaxCalls,      \* bound: requests issued in a behaviour
  MaxChunks,     \* bound: deltas the host sends for one stream
  MaxAnswers,    \* bound: replies the host sends to one request
  Methods,       \* the single-shot calls authors make: "recall", "complete"
  ReplyKinds,    \* what the host may answer: see ReplyKindsAssumption
  TimerCancels   \* TRUE: asyncio.wait_for of 3.12+, whose timer cancels the
                 \* future; FALSE: 3.10/3.11, whose timer only wakes the waiter

ReplyKindsAssumption ==
  ReplyKinds \subseteq {"result",       \* a well-formed "result"
                        "malformed",    \* a "result" of the wrong shape
                        "error",        \* an "error" object
                        "unreadable"}   \* an "error" the router cannot read

ASSUME CallsAssumption == /\ MaxCalls \in Nat \ {0}
                          /\ MaxChunks \in Nat \ {0}
                          /\ MaxAnswers \in Nat
                          /\ Methods \subseteq {"recall", "complete"}
                          /\ ReplyKindsAssumption
                          /\ TimerCancels \in BOOLEAN

Ids == 1 .. MaxCalls
SingleKinds == {"recall", "complete"}   \* memory_recall, llm_complete
END == 0             \* _STREAM_END; chunks are numbered from 1

VARIABLES
  nextId,     \* the next value of `_id_alloc`
  kind,       \* "none", "stream" or one of SingleKinds, per id
  pending,    \* the keys of `_pending`
  unsent,     \* streams whose `_send_stream_request` task has not run yet
  sent,       \* ids whose request frame is on the wire
  fut,        \* the future of the call: of the request, or `final` of a stream
  chunks,     \* the `chunks` queue of a stream
  caller,     \* where the author's coroutine is in the call
  outcome,    \* what the call gave its author
  got,        \* history: the chunks the author's iterator yielded
  deltas,     \* host: deltas sent per stream
  answers,    \* host: replies sent per id
  abandons    \* how many times `_abandon_pending` has run

sdkVars  == <<nextId, kind, pending, unsent, sent, fut, chunks, caller, outcome, got>>
hostVars == <<deltas, answers>>
callVars == <<sdkVars, hostVars, abandons>>

SdkTypeOK ==
  /\ nextId \in 1 .. (MaxCalls + 1)
  /\ kind \in [Ids -> {"none", "stream"} \cup SingleKinds]
  /\ pending \subseteq Ids /\ unsent \subseteq Ids /\ sent \subseteq Ids
  /\ fut \in [Ids -> {"none", "unset", "result", "malformed", "server",
                      "transport", "cancelled"}]
  /\ chunks \in [Ids -> Seq(0 .. MaxChunks)]
  /\ caller \in [Ids -> {"none", "waiting", "expired", "cancelling",
                         "iterating", "drained", "final", "done"}]
  /\ outcome \in [Ids -> {"none", "result", "decode", "raw", "server",
                          "transport", "timeout", "cancelled", "dropped"}]
  /\ got \in [Ids -> Seq(1 .. MaxChunks)]

HostTypeOK ==
  /\ deltas \in [Ids -> 0 .. MaxChunks]
  /\ answers \in [Ids -> 0 .. MaxAnswers]

CallsTypeOK == SdkTypeOK /\ HostTypeOK /\ abandons \in 0 .. 2

CallsInit ==
  /\ nextId = 1
  /\ kind = [i \in Ids |-> "none"]
  /\ pending = {} /\ unsent = {} /\ sent = {}
  /\ fut = [i \in Ids |-> "none"]
  /\ chunks = [i \in Ids |-> <<>>]
  /\ caller = [i \in Ids |-> "none"]
  /\ outcome = [i \in Ids |-> "none"]
  /\ got = [i \in Ids |-> <<>>]
  /\ deltas = [i \in Ids |-> 0]
  /\ answers = [i \in Ids |-> 0]
  /\ abandons = 0

----------------------------------------------------------------------------
(* Issuing a call *)

\* _request (memory_recall, llm_complete): allocate, register, write.
Request(i, m) ==
  /\ i = nextId /\ i \in Ids
  /\ nextId' = i + 1
  /\ kind' = [kind EXCEPT ![i] = m]
  /\ pending' = pending \cup {i}
  /\ sent' = sent \cup {i}
  /\ fut' = [fut EXCEPT ![i] = "unset"]
  /\ caller' = [caller EXCEPT ![i] = "waiting"]
  /\ UNCHANGED <<unsent, chunks, outcome, got>>

\* _request when the write raises (broken pipe, unserializable params): the
\* entry is popped again and the author gets RpcTransportError.
RequestFails(i, m) ==
  /\ i = nextId /\ i \in Ids
  /\ nextId' = i + 1
  /\ kind' = [kind EXCEPT ![i] = m]
  /\ caller' = [caller EXCEPT ![i] = "done"]
  /\ outcome' = [outcome EXCEPT ![i] = "transport"]
  /\ UNCHANGED <<pending, unsent, sent, fut, chunks, got>>

\* llm_complete_stream: register the entry, then leave the write to a task.  When
\* the params cannot be built in between (a message that is no mapping), the
\* author has an exception and no stream, and the entry stays.
OpenStream(i) ==
  /\ i = nextId /\ i \in Ids
  /\ nextId' = i + 1
  /\ kind' = [kind EXCEPT ![i] = "stream"]
  /\ pending' = pending \cup {i}
  /\ fut' = [fut EXCEPT ![i] = "unset"]
  /\ \/ /\ unsent' = unsent \cup {i}
        /\ caller' = [caller EXCEPT ![i] = "iterating"]
        /\ UNCHANGED outcome
     \/ /\ caller' = [caller EXCEPT ![i] = "done"]
        /\ outcome' = [outcome EXCEPT ![i] = "dropped"]
        /\ UNCHANGED unsent
  /\ UNCHANGED <<sent, chunks, got>>

\* _send_stream_request
SendStream(i) ==
  /\ i \in unsent
  /\ unsent' = unsent \ {i}
  /\ sent' = sent \cup {i}
  /\ UNCHANGED <<nextId, kind, pending, fut, chunks, caller, outcome, got>>

\* Mutant: the final reply of a stream that could not be sent is forgotten.
SendStreamFails_Forgets(i) ==
  /\ i \in unsent
  /\ unsent' = unsent \ {i}
  /\ pending' = pending \ {i}
  /\ chunks' = [chunks EXCEPT ![i] = Append(@, END)]
  /\ UNCHANGED <<nextId, kind, sent, fut, caller, outcome, got>>

\* Mutant: ... or its iterator is not ended.
SendStreamFails_NoEnd(i) ==
  /\ i \in unsent
  /\ unsent' = unsent \ {i}
  /\ pending' = pending \ {i}
  /\ fut' = [fut EXCEPT ![i] = IF @ = "unset" THEN "transport" ELSE @]
  /\ UNCHANGED <<nextId, kind, sent, chunks, caller, outcome, got>>

\* _send_stream_request when the write raises: pop, end the iterator, and fail
\* the final reply unless something already settled it.
SendStreamFails(i) ==
  /\ i \in unsent
  /\ unsent' = unsent \ {i}
  /\ pending' = pending \ {i}
  /\ chunks' = [chunks EXCEPT ![i] = Append(@, END)]
  /\ fut' = [fut EXCEPT ![i] = IF @ = "unset" THEN "transport" ELSE @]
  /\ UNCHANGED <<nextId, kind, sent, caller, outcome, got>>

----------------------------------------------------------------------------
(* Routing what the host says *)

\* The verdict a readable reply puts in the future of call i.
Verdict(i, r) ==
  CASE r = "error" -> "server"
    [] r = "malformed" /\ kind[i] = "stream" -> "transport"
    [] OTHER -> r

\* _route_response: the entry is popped first, a stream's iterator is ended,
\* and a future that is already done (cancelled) keeps what it has.
RouteResponse(i, r) ==
  /\ pending' = pending \ {i}
  /\ chunks' = IF i \in pending /\ kind[i] = "stream"
                 THEN [chunks EXCEPT ![i] = Append(@, END)]
                 ELSE chunks
  /\ fut' = IF i \in pending /\ fut[i] = "unset"
              THEN [fut EXCEPT ![i] = Verdict(i, r)]
              ELSE fut
  /\ UNCHANGED <<nextId, kind, unsent, sent, caller, outcome, got>>

\* Mutant: a chunk is handed to an author who is iterating, not queued.
RouteDelta_Unqueued(i, n) ==
  /\ chunks' = IF i \in pending /\ kind[i] = "stream" /\ caller[i] = "iterating"
                 THEN [chunks EXCEPT ![i] = Append(@, n)]
                 ELSE chunks
  /\ UNCHANGED <<nextId, kind, pending, unsent, sent, fut, caller, outcome, got>>

\* _route_delta: unknown and non-stream ids are dropped.
RouteDelta(i, n) ==
  /\ chunks' = IF i \in pending /\ kind[i] = "stream"
                 THEN [chunks EXCEPT ![i] = Append(@, n)]
                 ELSE chunks
  /\ UNCHANGED <<nextId, kind, pending, unsent, sent, fut, caller, outcome, got>>

\* Mutant: only the iterators of the streams are ended.
AbandonEntries_NoFinal(P) ==
  /\ chunks' = [i \in Ids |-> IF i \in P /\ kind[i] = "stream"
                                THEN Append(chunks[i], END) ELSE chunks[i]]
  /\ fut' = [i \in Ids |-> IF i \in P /\ kind[i] \in SingleKinds /\ fut[i] = "unset"
                             THEN "transport" ELSE fut[i]]
  /\ pending' = {}
  /\ abandons' = abandons + 1
  /\ UNCHANGED <<nextId, kind, unsent, sent, caller, outcome, got>>

\* _abandon_pending over the entries in P.
AbandonEntries(P) ==
  /\ chunks' = [i \in Ids |-> IF i \in P /\ kind[i] = "stream"
                                THEN Append(chunks[i], END) ELSE chunks[i]]
  /\ fut' = [i \in Ids |-> IF i \in P /\ fut[i] = "unset"
                             THEN "transport" ELSE fut[i]]
  /\ pending' = {}
  /\ abandons' = abandons + 1
  /\ UNCHANGED <<nextId, kind, unsent, sent, caller, outcome, got>>

AbandonPending == AbandonEntries(pending)

\* An "error" that is no object, or whose code is no number: _route_response
\* has popped the entry (and ended the iterator) when it raises, and the
\* exception takes the reader down through run's finally, which abandons the
\* other entries before anything else runs.
RouteUnreadable(i) ==
  /\ i \in pending
  /\ IF fut[i] = "unset"
       THEN /\ chunks' = [j \in Ids |-> IF j \in pending /\ kind[j] = "stream"
                                          THEN Append(chunks[j], END) ELSE chunks[j]]
            /\ fut' = [j \in Ids |-> IF j \in pending \ {i} /\ fut[j] = "unset"
                                       THEN "transport" ELSE fut[j]]
            /\ pending' = {}
            /\ abandons' = abandons + 1
            /\ UNCHANGED <<nextId, kind, unsent, sent, caller, outcome, got>>
       ELSE RouteResponse(i, "error") /\ UNCHANGED abandons

----------------------------------------------------------------------------
(* The author's side of a single-shot call: asyncio.wait_for in _request *)

\* The timer of wait_for fires, or the author cancels the waiting task.  The
\* task has not run yet; under 3.12+ the future is cancelled at once.
Interrupt(i, why) ==
  /\ caller[i] = "waiting"
  /\ caller' = [caller EXCEPT ![i] = why]
  /\ fut' = [fut EXCEPT ![i] = IF TimerCancels /\ @ = "unset" THEN "cancelled" ELSE @]
  /\ UNCHANGED <<nextId, kind, pending, unsent, sent, chunks, outcome, got>>

TimerFires(i)    == Interrupt(i, "expired")
AuthorCancels(i) == Interrupt(i, "cancelling")

\* 3.10/3.11: the woken waiter cancels a future that is still unset, and waits
\* one more turn of the loop for the cancellation.
CancelFuture(i) ==
  /\ caller[i] \in {"expired", "cancelling"}
  /\ ~TimerCancels /\ fut[i] = "unset"
  /\ fut' = [fut EXCEPT ![i] = "cancelled"]
  /\ UNCHANGED <<nextId, kind, pending, unsent, sent, chunks, caller, outcome, got>>

Finish(i, o) ==
  /\ caller' = [caller EXCEPT ![i] = "done"]
  /\ outcome' = [outcome EXCEPT ![i] = o]

\* The methods decode what wait_for returns.  memory_recall turns every result
\* of the wrong shape into RpcDecodeError; LlmCompleteResult.from_json may also
\* raise AttributeError or ValueError, which llm_complete lets through.
Reports(i) ==
  IF fut[i] # "malformed" THEN {fut[i]}
  ELSE {"decode"} \cup {e \in {"raw"} : kind[i] = "complete"}

\* Mutant: the outcome is looked up in the registry the router has popped from.
Resume_Registered(i) ==
  /\ caller[i] = "waiting" /\ i \in pending
  /\ fut[i] \in {"result", "malformed", "server", "transport"}
  /\ \E o \in Reports(i) : Finish(i, o)
  /\ UNCHANGED <<nextId, kind, pending, unsent, sent, fut, chunks, got>>

\* wait_for returns what the future holds.  The entry was popped by whoever
\* settled the future; no one pops it here.
Resume(i) ==
  /\ \/ caller[i] = "waiting"
     \/ caller[i] \in {"expired", "cancelling"} /\ ~TimerCancels
  /\ fut[i] \in {"result", "malformed", "server", "transport"}
  /\ \E o \in Reports(i) : Finish(i, o)
  /\ UNCHANGED <<nextId, kind, pending, unsent, sent, fut, chunks, got>>

\* Mutant: a reply that beat the wake-up is not looked for.
GiveUp_Eager(i) ==
  /\ caller[i] \in {"expired", "cancelling"}
  /\ Finish(i, IF caller[i] = "expired" THEN "timeout" ELSE "transport")
  /\ pending' = pending \ {i}
  /\ UNCHANGED <<nextId, kind, unsent, sent, fut, chunks, got>>

\* wait_for raises TimeoutError, or CancelledError: pop, and the matching
\* RpcError.  Under 3.12+ this happens even when a reply was routed before the
\* timer fired, if the waiter had not run yet.
GiveUp(i) ==
  /\ caller[i] \in {"expired", "cancelling"}
  /\ TimerCancels \/ fut[i] = "cancelled"
  /\ Finish(i, IF caller[i] = "expired" THEN "timeout" ELSE "transport")
  /\ pending' = pending \ {i}
  /\ UNCHANGED <<nextId, kind, unsent, sent, fut, chunks, got>>

----------------------------------------------------------------------------
(* The author's side of a stream: LlmStream *)

\* __anext__: a chunk is yielded, or the end sentinel stops the iteration.
NextChunk(i) ==
  /\ caller[i] = "iterating" /\ chunks[i] # <<>>
  /\ chunks' = [chunks EXCEPT ![i] = Tail(@)]
  /\ IF Head(chunks[i]) = END
       THEN caller' = [caller EXCEPT ![i] = "drained"] /\ UNCHANGED got
       ELSE got' = [got EXCEPT ![i] = Append(@, Head(chunks[i]))] /\ UNCHANGED caller
  /\ UNCHANGED <<nextId, kind, pending, unsent, sent, fut, outcome>>

\* final_result, after the iteration or instead of it.
FinalResult(i) ==
  /\ caller[i] \in {"iterating", "drained"}
  /\ caller' = [caller EXCEPT ![i] = "final"]
  /\ UNCHANGED <<nextId, kind, pending, unsent, sent, fut, chunks, outcome, got>>

\* A final_result that is cancelled (say by a wait_for of the author's) cancels
\* the future it awaits; the entry stays registered.
CancelFinal(i) ==
  /\ caller[i] = "final" /\ fut[i] = "unset"
  /\ fut' = [fut EXCEPT ![i] = "cancelled"]
  /\ UNCHANGED <<nextId, kind, pending, unsent, sent, chunks, caller, outcome, got>>

FinalReturns(i) ==
  /\ caller[i] = "final" /\ fut[i] # "unset"
  /\ Finish(i, fut[i])
  /\ UNCHANGED <<nextId, kind, pending, unsent, sent, fut, chunks, got>>

\* The author never asks; the entry survives until the adapter shuts down.
DropStream(i) ==
  /\ caller[i] \in {"iterating", "drained"}
  /\ Finish(i, "dropped")
  /\ UNCHANGED <<nextId, kind, pending, unsent, sent, fut, chunks, got>>

----------------------------------------------------------------------------
(* The host, and the reader that routes what it says *)

Reading == abandons = 0

HostReplies(i, r) ==
  /\ Reading /\ i \in sent /\ answers[i] < MaxAnswers
  /\ answers' = [answers EXCEPT ![i] = @ + 1]
  /\ UNCHANGED deltas
  /\ IF r = "unreadable" /\ i \in pending
       THEN RouteUnreadable(i)
       ELSE RouteResponse(i, r) /\ UNCHANGED abandons

HostStreams(i) ==
  /\ Reading /\ i \in sent /\ kind[i] = "stream"
  /\ answers[i] = 0 /\ deltas[i] < MaxChunks
  /\ deltas' = [deltas EXCEPT ![i] = @ + 1]
  /\ RouteDelta(i, deltas[i] + 1)
  /\ UNCHANGED <<answers, abandons>>

\* A host that goes on streaming after it replied.
HostStreamsLate(i) ==
  /\ Reading /\ i \in sent /\ kind[i] = "stream" /\ answers[i] > 0
  /\ RouteDelta(i, 1)
  /\ UNCHANGED <<hostVars, abandons>>

\* Shutdown or the end of run: on the shutdown path it happens twice, and
\* handlers may issue calls in between and after, with no reader left.
Abandon == abandons < 2 /\ AbandonPending /\ UNCHANGED hostVars

Issue(i)  == \/ \E m \in Methods : Request(i, m) \/ RequestFails(i, m)
             \/ OpenStream(i)
Send(i)   == SendStream(i) \/ SendStreamFails(i)
Single(i) == TimerFires(i) \/ AuthorCancels(i) \/ CancelFuture(i) \/ Resume(i) \/ GiveUp(i)
Stream(i) == NextChunk(i) \/ FinalResult(i) \/ CancelFinal(i) \/ FinalReturns(i) \/ DropStream(i)
Sdk(i)    == Issue(i) \/ Send(i) \/ Single(i) \/ Stream(i)

CallsNext ==
  \/ \E i \in Ids : Sdk(i) /\ UNCHANGED <<hostVars, abandons>>
  \/ \E i \in Ids, r \in ReplyKinds : HostReplies(i, r)
  \/ \E i \in Ids : HostStreams(i) \/ HostStreamsLate(i)
  \/ Abandon

CallsSpec == CallsInit /\ [][CallsNext]_callVars

\* The event loop runs what is ready and its timers fire; nothing makes the
\* host reply or an author iterate.
CallsFairness ==
  \A i \in Ids : /\ WF_callVars(TimerFires(i) /\ UNCHANGED <<hostVars, abandons>>)
                 /\ WF_callVars(CancelFuture(i) /\ UNCHANGED <<hostVars, abandons>>)
                 /\ WF_callVars((Resume(i) \/ GiveUp(i)) /\ UNCHANGED <<hostVars, abandons>>)

FairCallsSpec == CallsSpec /\ CallsFairness

----------------------------------------------------------------------------
(* Properties *)

InWaitFor(i) == caller[i] \in {"waiting", "expired", "cancelling"}
InStream(i)  == caller[i] \in {"iterating", "drained", "final"}

\* How the registry, the future and the author's coroutine of a call belong
\* together: an entry is registered while its future is open, by a call that
\* was issued; a single-shot call is registered only while _request waits; an
\* interrupted wait has a future that can still be told from an open one.
CallInv(i) ==
  /\ i < nextId <=> kind[i] # "none"
  /\ kind[i] = "none" => /\ fut[i] = "none" /\ caller[i] = "none"
                         /\ i \notin pending /\ i \notin unsent
  /\ InWaitFor(i) => kind[i] \in SingleKinds /\ fut[i] # "none"
  /\ InStream(i) => kind[i] = "stream" /\ fut[i] # "none"
  /\ caller[i] = "waiting" => fut[i] # "cancelled"
  /\ TimerCancels /\ caller[i] \in {"expired", "cancelling"} => fut[i] # "unset"
  /\ kind[i] = "stream" => fut[i] # "malformed"
  /\ i \in unsent => kind[i] = "stream"
  /\ i \in pending => /\ fut[i] \in {"unset", "cancelled"}
                      /\ kind[i] \in SingleKinds => InWaitFor(i)

CallsInv == \A i \in Ids : CallInv(i)

\* Whoever still waits on an unset future can be found through the registry:
\* a reply, or the abandon of a shutdown, will reach it.  (_request,
\* _route_response and _abandon_pending each pop and settle in one step.)
NoOrphan == \A i \in Ids : fut[i] = "unset" => i \in pending

\* An author blocked in `async for` is stopped by a sentinel already queued,
\* or by one that the registry will lead to.
IterationEnds ==
  \A i \in Ids : caller[i] = "iterating" =>
    i \in pending \/ \E k \in DOMAIN chunks[i] : chunks[i][k] = END

\* No single-shot call leaves its entry behind: when its author has the
\* outcome, the registry has forgotten it, on every error path.
NoLeak == \A i \in pending : kind[i] \in SingleKinds => caller[i] # "done"

\* What the iterator yielded and what it will yield, its end included.
Streamed(i) == got[i] \o chunks[i]

\* The chunks come in order and without gaps, and nothing comes after the end
\* mark.
InOrder ==
  \A i \in Ids : \A k \in DOMAIN Streamed(i) :
    Streamed(i)[k] = k \/ \A l \in k .. Len(Streamed(i)) : Streamed(i)[l] = END

\* A stream whose final reply says it succeeded lost no chunk: reading to the
\* end yields everything the host streamed before it (host.py: the final reply
\* "resolves after every delta has been delivered").
NothingLost ==
  \A i \in Ids : kind[i] = "stream" /\ fut[i] = "result" =>
    {Streamed(i)[k] : k \in DOMAIN Streamed(i)} \ {END} = 1 .. deltas[i]

\* The two together: what an author reads of a stream is what the host streamed.
StreamFaithful == InOrder /\ NothingLost

\* When the registry is abandoned, no outstanding call stays unanswered
\* (CHANGELOG 0.3.0: "outstanding host calls are abandoned with
\* RpcTransportError so handlers don't hang").
AbandonAnswersAll ==
  [][abandons' # abandons => \A i \in Ids : fut'[i] # "unset"]_callVars

\* The final reply of a stream reaches its future, even after an await of
\* final_result was cancelled (host.py: "Re-awaitable").
FinalReplyKept ==
  [][\A i \in Ids : /\ kind[i] = "stream" /\ i \in pending /\ i \notin pending'
                    /\ answers'[i] # answers[i]
                    => fut'[i] # "cancelled"]_callVars

\* What a call raises is an RpcError (README.md:95, "Failures raise an RpcError").
FailuresAreRpcErrors == \A i \in Ids : outcome[i] # "raw"

\* Every single-shot call ends, whether or not the host ever replies and
\* whether or not a reader is left.
CallEnds == \A i \in Ids : (caller[i] = "waiting") ~> (caller[i] = "done")

\* The author's view of a call: the verdict its future holds, if any, and what
\* his coroutine got.
HeardOf(i) == IF fut[i] \in {"unset", "cancelled"} THEN "none" ELSE fut[i]

VerdictOf(i) == IF caller[i] = "none" THEN "idle"
                ELSE IF caller[i] = "done" THEN outcome[i]
                ELSE "open"

Contract == INSTANCE HostCallContract WITH
  Calls   <- Ids,
  heard   <- [i \in Ids |-> HeardOf(i)],
  verdict <- [i \in Ids |-> VerdictOf(i)]

\* The author's view of every call is the contract: one verdict, the first one
\* heard, and no timeout once a verdict was heard.
ImplementsContract == Contract!ContractSpec
============================================================================
