-------------------------- MODULE PyAdapter_proofs --------------------------
(***************************************************************************)
(* Theorems about the Python SDK: first about its host calls on their own   *)
(* (PyHostCalls), then about the dispatch loop around them (PyAdapter), for *)
(* every number of calls, chunks, replies, handlers and frames in the pipe, *)
(* and at last about the calls inside a whole adapter.                      *)
(***************************************************************************)
EXTENDS PyAdapter, PipeLemmas, SequenceTheorems, TLAPS


SdkInv == SdkTypeOK /\ CallsInv

----------------------------------------------------------------------------
(* Queues *)

\* A chunk, or the end mark, put on a queue leaves a queue.
LEMMA QueueChunk ==
  ASSUME NEW i \in Ids, NEW c \in 0 .. MaxChunks, SdkTypeOK
  PROVE  [chunks EXCEPT ![i] = Append(@, c)] \in [Ids -> Seq(0 .. MaxChunks)]
<1>1. \A j \in Ids : chunks[j] \in Seq(0 .. MaxChunks)
  BY DEF SdkTypeOK
<1>2. Append(chunks[i], c) \in Seq(0 .. MaxChunks)
  BY <1>1, AppendProperties
<1> QED
  BY <1>2 DEF SdkTypeOK

\* Ending the queues of a set of streams leaves queues.
LEMMA EndStreams ==
  ASSUME NEW P, SdkTypeOK
  PROVE  [i \in Ids |-> IF i \in P /\ kind[i] = "stream"
                          THEN Append(chunks[i], END) ELSE chunks[i]]
           \in [Ids -> Seq(0 .. MaxChunks)]
<1>1. \A j \in Ids : chunks[j] \in Seq(0 .. MaxChunks)
  BY DEF SdkTypeOK
<1>2. END \in 0 .. MaxChunks
  BY CallsAssumption DEF END
<1>3. \A j \in Ids : Append(chunks[j], END) \in Seq(0 .. MaxChunks)
  BY <1>1, <1>2, AppendProperties
<1> QED
  BY <1>1, <1>3

----------------------------------------------------------------------------
(* Issuing a call *)

\* `_request` registers the future it waits on.
LEMMA RequestKeeps ==
  ASSUME SdkInv, NEW i \in Ids, NEW m \in SingleKinds, Request(i, m)
  PROVE  SdkInv'
<1> USE DEF SdkInv, Request
<1>1. SdkTypeOK'
  BY CallsAssumption DEF SdkTypeOK, Ids
<1>2. CallsInv'
  <2> SUFFICES ASSUME NEW j \in Ids PROVE CallInv(j)'
    BY DEF CallsInv
  <2>1. CallInv(j) /\ CallInv(i)
    BY DEF CallsInv
  <2>2. CASE j = i
    BY <2>1, <2>2, CallsAssumption DEF SdkTypeOK, CallInv, InWaitFor, InStream, SingleKinds, Ids
  <2>3. CASE j # i
    BY <2>1, <2>3, CallsAssumption DEF SdkTypeOK, CallInv, InWaitFor, InStream, SingleKinds, Ids
  <2> QED
    BY <2>2, <2>3
<1> QED
  BY <1>1, <1>2

\* A `_request` whose write fails takes its entry back.
LEMMA RequestFailsKeeps ==
  ASSUME SdkInv, NEW i \in Ids, NEW m \in SingleKinds, RequestFails(i, m)
  PROVE  SdkInv'
<1> USE DEF SdkInv, RequestFails
<1>1. SdkTypeOK'
  BY CallsAssumption DEF SdkTypeOK, Ids
<1>2. CallsInv'
  <2> SUFFICES ASSUME NEW j \in Ids PROVE CallInv(j)'
    BY DEF CallsInv
  <2>1. CallInv(j) /\ CallInv(i)
    BY DEF CallsInv
  <2>2. CASE j = i
    BY <2>1, <2>2, CallsAssumption DEF SdkTypeOK, CallInv, InWaitFor, InStream, SingleKinds, Ids
  <2>3. CASE j # i
    BY <2>1, <2>3, CallsAssumption DEF SdkTypeOK, CallInv, InWaitFor, InStream, SingleKinds, Ids
  <2> QED
    BY <2>2, <2>3
<1> QED
  BY <1>1, <1>2

\* `llm_complete_stream` registers the stream before its task runs.
LEMMA OpenStreamKeeps ==
  ASSUME SdkInv, NEW i \in Ids, OpenStream(i)
  PROVE  SdkInv'
<1> USE DEF SdkInv, OpenStream
<1>1. SdkTypeOK'
  <2>1. pending' \subseteq Ids /\ unsent' \subseteq Ids
    BY DEF SdkTypeOK
  <2>2. i \in 1 .. MaxCalls /\ nextId' = i + 1
    BY DEF Ids
  <2>3. nextId' \in 1 .. (MaxCalls + 1)
    <3> HIDE DEF OpenStream, SdkInv
    <3> QED
      BY <2>2, CallsAssumption
  <2>4. kind' \in [Ids -> {"none", "stream"} \cup SingleKinds]
    BY DEF SdkTypeOK
  <2>5. fut' \in [Ids -> {"none", "unset", "result", "malformed", "server",
                           "transport", "cancelled"}]
    BY DEF SdkTypeOK
  <2>6. caller' \in [Ids -> {"none", "waiting", "expired", "cancelling",
                              "iterating", "drained", "final", "done"}]
    BY DEF SdkTypeOK
  <2>7. outcome' \in [Ids -> {"none", "result", "decode", "raw", "server",
                               "transport", "timeout", "cancelled", "dropped"}]
    BY DEF SdkTypeOK
  <2> QED
    BY <2>1, <2>3, <2>4, <2>5, <2>6, <2>7 DEF SdkTypeOK
<1>2. CallsInv'
  <2> SUFFICES ASSUME NEW j \in Ids PROVE CallInv(j)'
    BY DEF CallsInv
  <2>1. CallInv(j) /\ CallInv(i)
    BY DEF CallsInv
  <2>2. CASE j = i
    BY <2>1, <2>2, CallsAssumption DEF SdkTypeOK, CallInv, InWaitFor, InStream, SingleKinds, Ids
  <2>3. CASE j # i
    BY <2>1, <2>3, CallsAssumption DEF SdkTypeOK, CallInv, InWaitFor, InStream, SingleKinds, Ids
  <2> QED
    BY <2>2, <2>3
<1> QED
  BY <1>1, <1>2

\* The send task wrote the request: the stream is as registered.
LEMMA SendStreamKeeps ==
  ASSUME SdkInv, NEW i \in Ids, SendStream(i)
  PROVE  SdkInv'
<1> USE DEF SdkInv, SendStream
<1>1. SdkTypeOK'
  BY DEF SdkTypeOK
<1>2. CallsInv'
  <2> SUFFICES ASSUME NEW j \in Ids PROVE CallInv(j)'
    BY DEF CallsInv
  <2>1. CallInv(j) /\ CallInv(i)
    BY DEF CallsInv
  <2>2. CASE j = i
    BY <2>1, <2>2 DEF SdkTypeOK, CallInv, InWaitFor, InStream, SingleKinds
  <2>3. CASE j # i
    BY <2>1, <2>3 DEF SdkTypeOK, CallInv, InWaitFor, InStream, SingleKinds
  <2> QED
    BY <2>2, <2>3
<1> QED
  BY <1>1, <1>2

\* The send task failed: entry, future and queue are settled in one step.
LEMMA SendStreamFailsKeeps ==
  ASSUME SdkInv, NEW i \in Ids, SendStreamFails(i)
  PROVE  SdkInv'
<1> USE DEF SdkInv, SendStreamFails
<1>1. SdkTypeOK'
  <2>1. chunks' \in [Ids -> Seq(0 .. MaxChunks)]
    BY QueueChunk, CallsAssumption DEF END
  <2> QED
    BY <2>1 DEF SdkTypeOK
<1>2. CallsInv'
  <2> SUFFICES ASSUME NEW j \in Ids PROVE CallInv(j)'
    BY DEF CallsInv
  <2>1. CallInv(j) /\ CallInv(i)
    BY DEF CallsInv
  <2>2. CASE j = i
    BY <2>1, <2>2 DEF SdkTypeOK, CallInv, InWaitFor, InStream, SingleKinds
  <2>3. CASE j # i
    BY <2>1, <2>3 DEF SdkTypeOK, CallInv, InWaitFor, InStream, SingleKinds
  <2> QED
    BY <2>2, <2>3
<1> QED
  BY <1>1, <1>2

----------------------------------------------------------------------------
(* Routing what the host says *)

\* `_route_response` pops an entry and settles its future in one step.
LEMMA RouteResponseKeeps ==
  ASSUME SdkInv, NEW i \in Ids, NEW r, r \in {"result", "malformed", "error"} \/ i \notin pending,
         RouteResponse(i, r)
  PROVE  SdkInv'
<1> USE DEF SdkInv, RouteResponse
<1>1. SdkTypeOK'
  <2>1. chunks' \in [Ids -> Seq(0 .. MaxChunks)]
    BY QueueChunk, CallsAssumption DEF END, SdkTypeOK
  <2>2. i \in pending => Verdict(i, r) \in {"result", "malformed", "server", "transport"}
    BY DEF Verdict
  <2>3. fut' \in [Ids -> {"none", "unset", "result", "malformed", "server",
                         "transport", "cancelled"}]
    BY <2>2 DEF SdkTypeOK
  <2> QED
    BY <2>1, <2>3 DEF SdkTypeOK
<1>2. CallsInv'
  <2> SUFFICES ASSUME NEW j \in Ids PROVE CallInv(j)'
    BY DEF CallsInv
  <2>1. CallInv(j) /\ CallInv(i)
    BY DEF CallsInv
  <2>2. CASE j = i
    BY <2>1, <2>2 DEF SdkTypeOK, Verdict, CallInv, InWaitFor, InStream, SingleKinds
  <2>3. CASE j # i
    BY <2>1, <2>3 DEF SdkTypeOK, Verdict, CallInv, InWaitFor, InStream, SingleKinds
  <2> QED
    BY <2>2, <2>3
<1> QED
  BY <1>1, <1>2

\* `_route_delta` feeds the queue of a registered stream.
LEMMA RouteDeltaKeeps ==
  ASSUME SdkInv, NEW i \in Ids, NEW n \in 1 .. MaxChunks, RouteDelta(i, n)
  PROVE  SdkInv'
<1> USE DEF SdkInv, RouteDelta
<1>1. SdkTypeOK'
  <2>1. chunks' \in [Ids -> Seq(0 .. MaxChunks)]
    BY QueueChunk, CallsAssumption DEF SdkTypeOK
  <2> QED
    BY <2>1 DEF SdkTypeOK
<1>2. CallsInv'
  <2> SUFFICES ASSUME NEW j \in Ids PROVE CallInv(j)'
    BY DEF CallsInv
  <2>1. CallInv(j) /\ CallInv(i)
    BY DEF CallsInv
  <2>2. CASE j = i
    BY <2>1, <2>2 DEF SdkTypeOK, CallInv, InWaitFor, InStream, SingleKinds
  <2>3. CASE j # i
    BY <2>1, <2>3 DEF SdkTypeOK, CallInv, InWaitFor, InStream, SingleKinds
  <2> QED
    BY <2>2, <2>3
<1> QED
  BY <1>1, <1>2

\* `_abandon_pending` clears the registry and settles what was in it.
LEMMA AbandonKeeps ==
  ASSUME SdkInv, AbandonPending
  PROVE  SdkInv'
<1> USE DEF SdkInv, AbandonPending, AbandonEntries
<1>1. SdkTypeOK'
  BY EndStreams DEF SdkTypeOK
<1>2. CallsInv'
  <2> SUFFICES ASSUME NEW j \in Ids PROVE CallInv(j)'
    BY DEF CallsInv
  <2>1. CallInv(j)
    BY DEF CallsInv
  <2> QED
    BY <2>1 DEF SdkTypeOK, CallInv, InWaitFor, InStream, SingleKinds
<1> QED
  BY <1>1, <1>2

\* A reply that raises in `_route_response` pops its entry all the same.
LEMMA RouteUnreadableKeeps ==
  ASSUME SdkInv, NEW i \in Ids, RouteUnreadable(i)
  PROVE  SdkInv'
<1>1. CASE fut[i] = "unset"
  <2> USE <1>1 DEF SdkInv, RouteUnreadable
  <2>1. SdkTypeOK'
    BY EndStreams DEF SdkTypeOK
  <2>2. CallsInv'
    <3> SUFFICES ASSUME NEW j \in Ids PROVE CallInv(j)'
      BY DEF CallsInv
    <3>1. CallInv(j)
      BY DEF CallsInv
    <3> QED
      BY <3>1 DEF SdkTypeOK, CallInv, InWaitFor, InStream, SingleKinds
  <2> QED
    BY <2>1, <2>2
<1>2. CASE fut[i] # "unset"
  BY <1>2, RouteResponseKeeps DEF RouteUnreadable
<1> QED
  BY <1>1, <1>2

----------------------------------------------------------------------------
(* The author's side *)

\* A timer or the author interrupts a call: nothing shared changes.
LEMMA InterruptKeeps ==
  ASSUME SdkInv, NEW i \in Ids, NEW why \in {"expired", "cancelling"}, Interrupt(i, why)
  PROVE  SdkInv'
<1> USE DEF SdkInv, Interrupt
<1>1. SdkTypeOK'
  BY DEF SdkTypeOK
<1>2. CallsInv'
  <2> SUFFICES ASSUME NEW j \in Ids PROVE CallInv(j)'
    BY DEF CallsInv
  <2>1. CallInv(j) /\ CallInv(i)
    BY DEF CallsInv
  <2>2. CASE j = i
    BY <2>1, <2>2 DEF SdkTypeOK, CallInv, InWaitFor, InStream, SingleKinds
  <2>3. CASE j # i
    BY <2>1, <2>3 DEF SdkTypeOK, CallInv, InWaitFor, InStream, SingleKinds
  <2> QED
    BY <2>2, <2>3
<1> QED
  BY <1>1, <1>2

\* The author's cancellation reaches the future `_request` waits on.
LEMMA CancelFutureKeeps ==
  ASSUME SdkInv, NEW i \in Ids, CancelFuture(i)
  PROVE  SdkInv'
<1> USE DEF SdkInv, CancelFuture
<1>1. SdkTypeOK'
  BY DEF SdkTypeOK
<1>2. CallsInv'
  <2> SUFFICES ASSUME NEW j \in Ids PROVE CallInv(j)'
    BY DEF CallsInv
  <2>1. CallInv(j) /\ CallInv(i)
    BY DEF CallsInv
  <2>2. CASE j = i
    BY <2>1, <2>2 DEF SdkTypeOK, CallInv, InWaitFor, InStream, SingleKinds
  <2>3. CASE j # i
    BY <2>1, <2>3 DEF SdkTypeOK, CallInv, InWaitFor, InStream, SingleKinds
  <2> QED
    BY <2>2, <2>3
<1> QED
  BY <1>1, <1>2

\* `_request` returns or raises what its future holds.
LEMMA ResumeKeeps ==
  ASSUME SdkInv, NEW i \in Ids, Resume(i)
  PROVE  SdkInv'
<1> USE DEF SdkInv, Resume, Finish, Reports
<1>1. SdkTypeOK'
  BY DEF SdkTypeOK
<1>2. CallsInv'
  <2> SUFFICES ASSUME NEW j \in Ids PROVE CallInv(j)'
    BY DEF CallsInv
  <2>1. CallInv(j) /\ CallInv(i)
    BY DEF CallsInv
  <2>2. CASE j = i
    BY <2>1, <2>2 DEF SdkTypeOK, CallInv, InWaitFor, InStream, SingleKinds
  <2>3. CASE j # i
    BY <2>1, <2>3 DEF SdkTypeOK, CallInv, InWaitFor, InStream, SingleKinds
  <2> QED
    BY <2>2, <2>3
<1> QED
  BY <1>1, <1>2

\* `_request` gives up and takes its entry back.
LEMMA GiveUpKeeps ==
  ASSUME SdkInv, NEW i \in Ids, GiveUp(i)
  PROVE  SdkInv'
<1> USE DEF SdkInv, GiveUp, Finish
<1>1. SdkTypeOK'
  BY DEF SdkTypeOK
<1>2. CallsInv'
  <2> SUFFICES ASSUME NEW j \in Ids PROVE CallInv(j)'
    BY DEF CallsInv
  <2>1. CallInv(j) /\ CallInv(i)
    BY DEF CallsInv
  <2>2. CASE j = i
    BY <2>1, <2>2 DEF SdkTypeOK, CallInv, InWaitFor, InStream, SingleKinds
  <2>3. CASE j # i
    BY <2>1, <2>3 DEF SdkTypeOK, CallInv, InWaitFor, InStream, SingleKinds
  <2> QED
    BY <2>2, <2>3
<1> QED
  BY <1>1, <1>2

\* `__anext__` takes one item from the queue.
LEMMA NextChunkKeeps ==
  ASSUME SdkInv, NEW i \in Ids, NextChunk(i)
  PROVE  SdkInv'
<1> USE DEF SdkInv, NextChunk
<1>1. SdkTypeOK'
  <2>1. chunks[i] \in Seq(0 .. MaxChunks) /\ got[i] \in Seq(1 .. MaxChunks)
    BY DEF SdkTypeOK
  <2>2. Head(chunks[i]) \in 0 .. MaxChunks /\ Tail(chunks[i]) \in Seq(0 .. MaxChunks)
    BY <2>1, HeadTailProperties
  <2>3. chunks' \in [Ids -> Seq(0 .. MaxChunks)]
    BY <2>2 DEF SdkTypeOK
  <2>4. CASE Head(chunks[i]) = END
    BY <2>3, <2>4 DEF SdkTypeOK
  <2>5. CASE Head(chunks[i]) # END
    <3>1. Head(chunks[i]) \in 1 .. MaxChunks
      BY <2>2, <2>5, CallsAssumption DEF END
    <3>2. Append(got[i], Head(chunks[i])) \in Seq(1 .. MaxChunks)
      BY <2>1, <3>1, AppendProperties
    <3> QED
      BY <2>3, <2>5, <3>2 DEF SdkTypeOK
  <2> QED
    BY <2>4, <2>5
<1>2. CallsInv'
  <2> SUFFICES ASSUME NEW j \in Ids PROVE CallInv(j)'
    BY DEF CallsInv
  <2>1. CallInv(j) /\ CallInv(i)
    BY DEF CallsInv
  <2>2. CASE j = i
    BY <2>1, <2>2 DEF SdkTypeOK, CallInv, InWaitFor, InStream, SingleKinds
  <2>3. CASE j # i
    BY <2>1, <2>3 DEF SdkTypeOK, CallInv, InWaitFor, InStream, SingleKinds
  <2> QED
    BY <2>2, <2>3
<1> QED
  BY <1>1, <1>2

\* `final_result` starts to wait.
LEMMA FinalResultKeeps ==
  ASSUME SdkInv, NEW i \in Ids, FinalResult(i)
  PROVE  SdkInv'
<1> USE DEF SdkInv, FinalResult
<1>1. SdkTypeOK'
  BY DEF SdkTypeOK
<1>2. CallsInv'
  <2> SUFFICES ASSUME NEW j \in Ids PROVE CallInv(j)'
    BY DEF CallsInv
  <2>1. CallInv(j) /\ CallInv(i)
    BY DEF CallsInv
  <2>2. CASE j = i
    BY <2>1, <2>2 DEF SdkTypeOK, CallInv, InWaitFor, InStream, SingleKinds
  <2>3. CASE j # i
    BY <2>1, <2>3 DEF SdkTypeOK, CallInv, InWaitFor, InStream, SingleKinds
  <2> QED
    BY <2>2, <2>3
<1> QED
  BY <1>1, <1>2

\* A cancelled `final_result` cancels the final future.
LEMMA CancelFinalKeeps ==
  ASSUME SdkInv, NEW i \in Ids, CancelFinal(i)
  PROVE  SdkInv'
<1> USE DEF SdkInv, CancelFinal
<1>1. SdkTypeOK'
  BY DEF SdkTypeOK
<1>2. CallsInv'
  <2> SUFFICES ASSUME NEW j \in Ids PROVE CallInv(j)'
    BY DEF CallsInv
  <2>1. CallInv(j) /\ CallInv(i)
    BY DEF CallsInv
  <2>2. CASE j = i
    BY <2>1, <2>2 DEF SdkTypeOK, CallInv, InWaitFor, InStream, SingleKinds
  <2>3. CASE j # i
    BY <2>1, <2>3 DEF SdkTypeOK, CallInv, InWaitFor, InStream, SingleKinds
  <2> QED
    BY <2>2, <2>3
<1> QED
  BY <1>1, <1>2

\* `final_result` returns or raises what the final future holds.
LEMMA FinalReturnsKeeps ==
  ASSUME SdkInv, NEW i \in Ids, FinalReturns(i)
  PROVE  SdkInv'
<1> USE DEF SdkInv, FinalReturns, Finish
<1>1. SdkTypeOK'
  <2>1. fut[i] \in {"result", "server", "transport", "cancelled"}
    BY DEF SdkTypeOK, CallsInv, CallInv, InStream
  <2> QED
    BY <2>1 DEF SdkTypeOK
<1>2. CallsInv'
  <2> SUFFICES ASSUME NEW j \in Ids PROVE CallInv(j)'
    BY DEF CallsInv
  <2>1. CallInv(j) /\ CallInv(i)
    BY DEF CallsInv
  <2>2. CASE j = i
    BY <2>1, <2>2 DEF SdkTypeOK, CallInv, InWaitFor, InStream, SingleKinds
  <2>3. CASE j # i
    BY <2>1, <2>3 DEF SdkTypeOK, CallInv, InWaitFor, InStream, SingleKinds
  <2> QED
    BY <2>2, <2>3
<1> QED
  BY <1>1, <1>2

\* The author lets go of a stream: the registry keeps it.
LEMMA DropStreamKeeps ==
  ASSUME SdkInv, NEW i \in Ids, DropStream(i)
  PROVE  SdkInv'
<1> USE DEF SdkInv, DropStream, Finish
<1>1. SdkTypeOK'
  BY DEF SdkTypeOK
<1>2. CallsInv'
  <2> SUFFICES ASSUME NEW j \in Ids PROVE CallInv(j)'
    BY DEF CallsInv
  <2>1. CallInv(j) /\ CallInv(i)
    BY DEF CallsInv
  <2>2. CASE j = i
    BY <2>1, <2>2 DEF SdkTypeOK, CallInv, InWaitFor, InStream, SingleKinds
  <2>3. CASE j # i
    BY <2>1, <2>3 DEF SdkTypeOK, CallInv, InWaitFor, InStream, SingleKinds
  <2> QED
    BY <2>2, <2>3
<1> QED
  BY <1>1, <1>2

----------------------------------------------------------------------------
(* The whole of PyHostCalls *)

\* Every step of the SDK keeps the invariant of the SDK, whoever composes it.
LEMMA SdkStep ==
  ASSUME SdkInv, NEW i \in Ids, Sdk(i)
  PROVE  SdkInv'
<1>1. CASE Issue(i)
  BY <1>1, RequestKeeps, RequestFailsKeeps, OpenStreamKeeps, CallsAssumption
     DEF Issue, SingleKinds
<1>2. CASE Send(i)
  BY <1>2, SendStreamKeeps, SendStreamFailsKeeps DEF Send
<1>3. CASE Single(i)
  BY <1>3, InterruptKeeps, CancelFutureKeeps, ResumeKeeps, GiveUpKeeps
     DEF Single, TimerFires, AuthorCancels
<1>4. CASE Stream(i)
  BY <1>4, NextChunkKeeps, FinalResultKeeps, CancelFinalKeeps, FinalReturnsKeeps,
     DropStreamKeeps DEF Stream
<1> QED
  BY <1>1, <1>2, <1>3, <1>4 DEF Sdk

IInv == SdkInv /\ HostTypeOK /\ abandons \in 0 .. 2

\* The inductive invariant holds at the start.
LEMMA InitInv == CallsInit => IInv
<1> SUFFICES ASSUME CallsInit PROVE IInv
  OBVIOUS
<1>1. SdkTypeOK
  BY CallsAssumption DEF CallsInit, SdkTypeOK, Ids
<1>2. CallsInv
  BY CallsAssumption DEF CallsInit, CallsInv, CallInv, InWaitFor, InStream, SingleKinds, Ids
<1>3. HostTypeOK /\ abandons \in 0 .. 2
  BY CallsAssumption DEF CallsInit, HostTypeOK, Ids
<1> QED
  BY <1>1, <1>2, <1>3 DEF IInv, SdkInv

\* The host replies, once more than needed if it likes.
LEMMA HostRepliesKeeps ==
  ASSUME IInv, NEW i \in Ids, NEW r \in ReplyKinds, HostReplies(i, r)
  PROVE  IInv'
<1>1. HostTypeOK'
  BY CallsAssumption DEF HostReplies, IInv, HostTypeOK
<1>2. abandons' \in 0 .. 2
  BY DEF HostReplies, RouteUnreadable, Reading, IInv
<1>3. SdkInv'
  <2>1. CASE r = "unreadable" /\ i \in pending
    BY <2>1, RouteUnreadableKeeps DEF HostReplies, IInv
  <2>2. CASE ~(r = "unreadable" /\ i \in pending)
    BY <2>2, RouteResponseKeeps, CallsAssumption
       DEF HostReplies, IInv, ReplyKindsAssumption
  <2> QED
    BY <2>1, <2>2
<1> QED
  BY <1>1, <1>2, <1>3 DEF IInv

\* The host streams, late or not.
LEMMA HostStreamsKeeps ==
  ASSUME IInv, NEW i \in Ids, HostStreams(i) \/ HostStreamsLate(i)
  PROVE  IInv'
<1>1. CASE HostStreams(i)
  <2>1. deltas[i] + 1 \in 1 .. MaxChunks
    BY <1>1, CallsAssumption DEF HostStreams, IInv, HostTypeOK
  <2>2. SdkInv'
    BY <1>1, <2>1, RouteDeltaKeeps DEF HostStreams, IInv
  <2> QED
    BY <1>1, <2>1, <2>2 DEF HostStreams, IInv, HostTypeOK
<1>2. CASE HostStreamsLate(i)
  <2>1. SdkInv'
    BY <1>2, RouteDeltaKeeps, CallsAssumption DEF HostStreamsLate, IInv
  <2> QED
    BY <1>2, <2>1 DEF HostStreamsLate, hostVars, IInv, HostTypeOK
<1> QED
  BY <1>1, <1>2

\* Every step of PyHostCalls keeps the inductive invariant.
LEMMA NextInv == IInv /\ [CallsNext]_callVars => IInv'
<1> SUFFICES ASSUME IInv, [CallsNext]_callVars PROVE IInv'
  OBVIOUS
<1>1. ASSUME NEW i \in Ids, Sdk(i), UNCHANGED <<hostVars, abandons>>
      PROVE  IInv'
  BY <1>1, SdkStep DEF IInv, HostTypeOK, hostVars
<1>2. ASSUME NEW i \in Ids, NEW r \in ReplyKinds, HostReplies(i, r)
      PROVE  IInv'
  BY <1>2, HostRepliesKeeps
<1>3. ASSUME NEW i \in Ids, HostStreams(i) \/ HostStreamsLate(i)
      PROVE  IInv'
  BY <1>3, HostStreamsKeeps
<1>4. CASE Abandon
  BY <1>4, AbandonKeeps
     DEF Abandon, AbandonPending, AbandonEntries, IInv, HostTypeOK, hostVars
<1>5. CASE UNCHANGED callVars
  BY <1>5 DEF callVars, sdkVars, hostVars, IInv, SdkInv, SdkTypeOK, HostTypeOK,
              CallsInv, CallInv, InWaitFor, InStream, SingleKinds
<1> QED
  BY <1>1, <1>2, <1>3, <1>4, <1>5 DEF CallsNext

\* The state that broker.py and adapter.py share is typed, and belongs together, at
\* every await: what all the theorems below rest on.
THEOREM Inductive == CallsSpec => []IInv
  BY InitInv, NextInv, PTL DEF CallsSpec

\* The state of the host calls keeps its type.
THEOREM CallsTypes == CallsSpec => []CallsTypeOK
<1>1. IInv => CallsTypeOK
  BY DEF IInv, SdkInv, CallsTypeOK
<1> QED
  BY <1>1, Inductive, PTL

\* The registry, the future and the author's coroutine of every call belong
\* together at every await (broker.py and adapter.py pop and settle in one step).
THEOREM CallsBelong == CallsSpec => []CallsInv
<1>1. IInv => CallsInv
  BY DEF IInv, SdkInv
<1> QED
  BY <1>1, Inductive, PTL

\* No single-shot call leaves an entry in the registry behind, whichever of the
\* reply, the timer, a cancellation, a failed write and the shutdown came first.
THEOREM RegistryForgets == CallsSpec => []NoLeak
<1>1. IInv => NoLeak
  BY DEF IInv, SdkInv, SdkTypeOK, CallsInv, CallInv, InWaitFor, NoLeak, SingleKinds
<1> QED
  BY <1>1, Inductive, PTL

----------------------------------------------------------------------------
(* What the reader does *)

\* A reply, readable or not, or a chunk is routed, or the registry is abandoned.
Routing ==
  \/ \E i \in Ids, r \in ReplyKinds :
       \/ RouteResponse(i, r) /\ (r = "unreadable" => i \notin pending) /\ UNCHANGED abandons
       \/ r = "unreadable" /\ RouteUnreadable(i)
  \/ \E i \in Ids, n \in 1 .. MaxChunks : RouteDelta(i, n) /\ UNCHANGED abandons
  \/ AbandonPending

\* Whatever the host says, the reader routes it.
LEMMA ReaderRoutes ==
  ASSUME IInv,
         \/ \E i \in Ids, r \in ReplyKinds : HostReplies(i, r)
         \/ \E i \in Ids : HostStreams(i) \/ HostStreamsLate(i)
         \/ Abandon
  PROVE  Routing
<1>1. ASSUME NEW i \in Ids, HostStreams(i)
      PROVE  Routing
  <2>1. deltas[i] + 1 \in 1 .. MaxChunks
    BY <1>1, CallsAssumption DEF HostStreams, IInv, HostTypeOK
  <2> QED
    BY <1>1, <2>1 DEF HostStreams, Routing
<1>2. ASSUME NEW i \in Ids, HostStreamsLate(i)
      PROVE  Routing
  <2>1. 1 \in 1 .. MaxChunks
    BY CallsAssumption
  <2> QED
    BY <1>2, <2>1 DEF HostStreamsLate, Routing
<1>3. ASSUME NEW i \in Ids, NEW r \in ReplyKinds, HostReplies(i, r)
      PROVE  Routing
  BY <1>3 DEF HostReplies, Routing
<1>4. CASE Abandon
  BY <1>4 DEF Abandon, Routing
<1> QED
  BY <1>1, <1>2, <1>3, <1>4

\* So a step is one of the SDK, or of the reader.
LEMMA CallsSteps ==
  ASSUME IInv, CallsNext
  PROVE  Routing \/ \E i \in Ids : Sdk(i) /\ UNCHANGED <<hostVars, abandons>>
BY ReaderRoutes DEF CallsNext

\* A verdict leaves no future unset, and none that is unset is made.
LEMMA RoutingSettles ==
  ASSUME SdkTypeOK, Routing, NEW j \in Ids
  PROVE  \/ fut'[j] = fut[j]
         \/ fut[j] = "unset" /\ fut'[j] \in {"result", "malformed", "server", "transport"}
<1> DEFINE Settles == \/ fut'[j] = fut[j]
                      \/ fut[j] = "unset" /\ fut'[j] \in {"result", "malformed", "server", "transport"}
<1>1. ASSUME NEW i \in Ids, NEW r \in ReplyKinds, RouteResponse(i, r),
             r = "unreadable" => i \notin pending \/ fut[i] # "unset"
      PROVE  Settles
  BY <1>1, CallsAssumption DEF RouteResponse, Verdict, ReplyKindsAssumption, SdkTypeOK
<1>2. ASSUME NEW i \in Ids, RouteUnreadable(i)
      PROVE  Settles
  BY <1>2 DEF RouteUnreadable, RouteResponse, SdkTypeOK
<1>3. ASSUME NEW i \in Ids, NEW m \in 1 .. MaxChunks, RouteDelta(i, m)
      PROVE  Settles
  BY <1>3 DEF RouteDelta
<1>4. CASE AbandonPending
  BY <1>4 DEF AbandonPending, AbandonEntries, SdkTypeOK
<1> QED
  BY <1>1, <1>2, <1>3, <1>4 DEF Routing

----------------------------------------------------------------------------
(* Nobody is stranded, as long as the router can read the replies *)

Readable == "unreadable" \notin ReplyKinds

\* No step leaves an unset future out of the registry when replies are readable.
LEMMA NoOrphanStep ==
  ASSUME Readable, IInv, NoOrphan, Routing \/ \E i \in Ids : Sdk(i)
  PROVE  NoOrphan'
<1> USE DEF NoOrphan
<1>1. ASSUME NEW i \in Ids, Sdk(i)
      PROVE  NoOrphan'
  <2> SUFFICES ASSUME NEW j \in Ids, fut'[j] = "unset"
               PROVE  j \in pending'
    OBVIOUS
  <2>1. CallInv(i) /\ CallInv(j) /\ SdkTypeOK
    BY DEF IInv, SdkInv, CallsInv
  <2>2. CASE Issue(i)
    BY <2>1, <2>2 DEF Issue, Request, RequestFails, OpenStream, SdkTypeOK
  <2>3. CASE Send(i)
    BY <2>1, <2>3 DEF Send, SendStream, SendStreamFails, SdkTypeOK
  <2>4. CASE TimerFires(i) \/ AuthorCancels(i) \/ CancelFuture(i) \/ Resume(i)
    BY <2>1, <2>4
       DEF TimerFires, AuthorCancels, Interrupt, CancelFuture, Resume, SdkTypeOK
  <2>5. CASE GiveUp(i)
    BY <2>1, <2>5 DEF GiveUp, CallInv, SdkTypeOK
  <2>6. CASE Stream(i)
    BY <2>1, <2>6
       DEF Stream, NextChunk, FinalResult, CancelFinal, FinalReturns, DropStream, SdkTypeOK
  <2> QED
    BY <1>1, <2>2, <2>3, <2>4, <2>5, <2>6 DEF Sdk, Single
<1>2. ASSUME NEW i \in Ids, NEW r \in ReplyKinds, RouteResponse(i, r)
      PROVE  NoOrphan'
  <2>1. r \in {"result", "malformed", "error"}
    BY CallsAssumption DEF ReplyKindsAssumption, Readable
  <2>2. Verdict(i, r) # "unset"
    BY <2>1 DEF Verdict
  <2> QED
    BY <1>2, <2>2 DEF RouteResponse, IInv, SdkInv, SdkTypeOK
<1>3. ASSUME NEW i \in Ids, NEW n \in 1 .. MaxChunks, RouteDelta(i, n)
      PROVE  NoOrphan'
  BY <1>3 DEF RouteDelta
<1>4. CASE AbandonPending
  BY <1>4 DEF AbandonPending, AbandonEntries
<1> QED
  BY <1>1, <1>2, <1>3, <1>4 DEF Routing, Readable

\* Whoever still waits on an unset future is in the registry, where a reply or
\* the abandon of a shutdown finds him.
THEOREM NobodyOrphaned == ASSUME Readable PROVE CallsSpec => []NoOrphan
<1>1. CallsInit => NoOrphan
  BY DEF CallsInit, NoOrphan
<1>2. IInv /\ NoOrphan /\ [CallsNext]_callVars => NoOrphan'
  <2>1. ASSUME IInv, NoOrphan, UNCHANGED callVars
        PROVE  NoOrphan'
    BY <2>1 DEF callVars, sdkVars, NoOrphan
  <2> QED
    BY <2>1, NoOrphanStep, CallsSteps
<1> QED
  BY <1>1, <1>2, Inductive, PTL DEF CallsSpec

\* A step that counts as an abandon settles every future that was registered.
LEMMA AbandonStep ==
  ASSUME Readable, NoOrphan, IInv, Routing, abandons' # abandons
  PROVE  \A i \in Ids : fut'[i] # "unset"
BY CallsAssumption DEF Routing, Readable, AbandonPending, AbandonEntries, NoOrphan

\* Abandoning the registry answers every outstanding call (CHANGELOG 0.3.0).
THEOREM AbandonAnswers == ASSUME Readable PROVE CallsSpec => AbandonAnswersAll
<1>1. NoOrphan /\ IInv /\ [CallsNext]_callVars
        => [abandons' # abandons => \A i \in Ids : fut'[i] # "unset"]_callVars
  BY AbandonStep, CallsSteps
<1> QED
  BY <1>1, Inductive, NobodyOrphaned, PTL DEF CallsSpec, AbandonAnswersAll

----------------------------------------------------------------------------
(* The iterator of a stream *)

HasEnd(s) == \E k \in DOMAIN s : s[k] = END

\* A queue that ends goes on ending when something is put on it, and the end
\* mark makes any queue end.
LEMMA EndStays ==
  ASSUME NEW s \in Seq(0 .. MaxChunks), NEW c \in 0 .. MaxChunks,
         HasEnd(s) \/ c = END
  PROVE  HasEnd(Append(s, c))
<1> DEFINE t == Append(s, c)
<1>1. /\ Len(t) = Len(s) + 1 /\ DOMAIN t = 1 .. Len(t) /\ DOMAIN s = 1 .. Len(s)
      /\ Len(s) \in Nat
      /\ \A k \in 1 .. Len(s) : t[k] = s[k]
      /\ t[Len(s) + 1] = c
  BY AppendProperties, LenProperties
<1>2. CASE HasEnd(s)
  <2>1. PICK k \in DOMAIN s : s[k] = END
    BY <1>2 DEF HasEnd
  <2>2. k \in DOMAIN t /\ t[k] = END
    BY <1>1, <2>1
  <2> QED
    BY <2>2 DEF HasEnd
<1>3. CASE c = END
  <2>1. Len(s) + 1 \in DOMAIN t /\ t[Len(s) + 1] = END
    BY <1>1, <1>3
  <2> QED
    BY <2>1 DEF HasEnd
<1> QED
  BY <1>2, <1>3

\* Taking a chunk, and not the end mark, off a queue leaves its end there.
LEMMA EndRemains ==
  ASSUME NEW s \in Seq(0 .. MaxChunks), s # <<>>, HasEnd(s), Head(s) # END
  PROVE  HasEnd(Tail(s))
<1>1. PICK k \in DOMAIN s : s[k] = END
  BY DEF HasEnd
<1>2. /\ DOMAIN s = 1 .. Len(s) /\ Len(s) \in Nat
      /\ Len(Tail(s)) = Len(s) - 1
      /\ DOMAIN Tail(s) = 1 .. Len(s) - 1
      /\ \A j \in 1 .. Len(s) - 1 : Tail(s)[j] = s[j + 1]
      /\ Head(s) = s[1]
  BY HeadTailProperties, LenProperties
<1>3. k \in 2 .. Len(s)
  BY <1>1, <1>2
<1>4. k - 1 \in DOMAIN Tail(s) /\ Tail(s)[k - 1] = END
  BY <1>1, <1>2, <1>3
<1> QED
  BY <1>4 DEF HasEnd

Ends(i) == caller[i] = "iterating" => i \in pending \/ HasEnd(chunks[i])

\* No step of the SDK leaves an iterator without an end to come.
LEMMA SdkEnds ==
  ASSUME IInv, \A j \in Ids : Ends(j), NEW i \in Ids, Sdk(i), NEW j \in Ids
  PROVE  Ends(j)'
<1> USE DEF Ends
<1>1. /\ SdkTypeOK /\ CallInv(i) /\ CallInv(j)
      /\ Ends(j)
      /\ chunks[j] \in Seq(0 .. MaxChunks)
      /\ END \in 0 .. MaxChunks
  BY CallsAssumption DEF IInv, SdkInv, CallsInv, SdkTypeOK, END
<1>2. CASE Issue(i)
  BY <1>1, <1>2 DEF Issue, Request, RequestFails, OpenStream, SdkTypeOK
<1>3. CASE SendStream(i)
  BY <1>1, <1>3 DEF SendStream
<1>4. CASE SendStreamFails(i)
  <2>1. HasEnd(Append(chunks[j], END))
    BY <1>1, EndStays
  <2> QED
    BY <1>1, <1>4, <2>1 DEF SendStreamFails, SdkTypeOK
<1>5. CASE Single(i)
  BY <1>1, <1>5
     DEF Single, TimerFires, AuthorCancels, Interrupt, CancelFuture, Resume, GiveUp, Finish,
         SdkTypeOK, CallInv, InWaitFor, InStream, SingleKinds
<1>6. CASE NextChunk(i)
  <2>1. CASE j # i
    BY <1>1, <1>6, <2>1 DEF NextChunk, SdkTypeOK
  <2>2. CASE j = i /\ Head(chunks[i]) = END
    BY <1>1, <1>6, <2>2 DEF NextChunk, SdkTypeOK
  <2>3. CASE j = i /\ Head(chunks[i]) # END
    <3>1. HasEnd(chunks[i]) => HasEnd(Tail(chunks[i]))
      BY <1>1, <1>6, <2>3, EndRemains DEF NextChunk
    <3> QED
      BY <1>1, <1>6, <2>3, <3>1 DEF NextChunk, SdkTypeOK
  <2> QED
    BY <2>1, <2>2, <2>3
<1>7. CASE FinalResult(i) \/ CancelFinal(i) \/ FinalReturns(i) \/ DropStream(i)
  BY <1>1, <1>7 DEF FinalResult, CancelFinal, FinalReturns, DropStream, Finish, SdkTypeOK
<1> QED
  BY <1>2, <1>3, <1>4, <1>5, <1>6, <1>7 DEF Sdk, Send, Stream

\* Neither does the reader, nor an abandon.
LEMMA ReaderEnds ==
  ASSUME IInv, \A j \in Ids : Ends(j), NEW j \in Ids, Routing
  PROVE  Ends(j)'
<1> USE DEF Ends
<1>1. /\ SdkTypeOK /\ CallInv(j) /\ Ends(j)
      /\ chunks[j] \in Seq(0 .. MaxChunks)
      /\ END \in 0 .. MaxChunks
      /\ HasEnd(Append(chunks[j], END))
  BY CallsAssumption, EndStays DEF IInv, SdkInv, CallsInv, SdkTypeOK, END
<1>2. caller[j] = "iterating" => kind[j] = "stream"
  BY <1>1 DEF CallInv, InStream
<1>3. ASSUME NEW i \in Ids, NEW r, RouteResponse(i, r)
      PROVE  Ends(j)'
  BY <1>1, <1>2, <1>3 DEF RouteResponse, SdkTypeOK
<1>4. ASSUME NEW i \in Ids, RouteUnreadable(i)
      PROVE  Ends(j)'
  <2>1. CASE fut[i] = "unset"
    BY <1>1, <1>2, <1>4, <2>1 DEF RouteUnreadable, SdkTypeOK
  <2>2. CASE fut[i] # "unset"
    BY <1>3, <1>4, <2>2 DEF RouteUnreadable
  <2> QED
    BY <2>1, <2>2
<1>5. ASSUME NEW i \in Ids, NEW n \in 1 .. MaxChunks, RouteDelta(i, n)
      PROVE  Ends(j)'
  <2>1. HasEnd(chunks[j]) => HasEnd(Append(chunks[j], n))
    BY <1>1, EndStays
  <2> QED
    BY <1>1, <1>5, <2>1 DEF RouteDelta, SdkTypeOK
<1>6. CASE AbandonPending
  BY <1>1, <1>2, <1>6 DEF AbandonPending, AbandonEntries, SdkTypeOK
<1> QED
  BY <1>3, <1>4, <1>5, <1>6 DEF Routing

\* An author who iterates has an end mark in his queue, or an entry in the
\* registry that will lead to one: also when the send task failed, when the
\* reply was unreadable, and when the registry was abandoned.
THEOREM IterationsEnd == CallsSpec => []IterationEnds
<1>1. IterationEnds <=> \A j \in Ids : Ends(j)
  BY DEF IterationEnds, Ends, HasEnd
<1>2. CallsInit => \A j \in Ids : Ends(j)
  BY DEF CallsInit, Ends
<1>3. IInv /\ (\A j \in Ids : Ends(j)) /\ [CallsNext]_callVars => (\A j \in Ids : Ends(j))'
  <2> SUFFICES ASSUME IInv, \A j \in Ids : Ends(j), [CallsNext]_callVars, NEW j \in Ids
               PROVE  Ends(j)'
    OBVIOUS
  <2>1. CASE UNCHANGED callVars
    BY <2>1 DEF callVars, sdkVars, Ends, HasEnd
  <2>2. CASE CallsNext
    BY <2>2, SdkEnds, ReaderEnds, CallsSteps
  <2> QED
    BY <2>1, <2>2
<1>4. (\A j \in Ids : Ends(j)) => IterationEnds
  BY <1>1
<1> QED
  BY <1>2, <1>3, <1>4, Inductive, PTL DEF CallsSpec

----------------------------------------------------------------------------
(* The contract *)

\* A call that may still hear a verdict is one that the author issued, and has
\* not given up: either it is open, or it is a stream he let go of.
Unheard(i) == /\ fut[i] = "unset" => VerdictOf(i) \in {"open", "dropped"}
              /\ kind[i] \in {"none", "stream"} \cup Methods

AllUnheard == \A i \in Ids : Unheard(i)

\* The builds and the methods for which the contract is kept: with the timer of
\* 3.12 it is not (run py_timeout_race), and llm_complete may raise what is none
\* of the contract's verdicts.
Keeps == ~TimerCancels /\ "complete" \notin Methods

USE DEF HeardOf, VerdictOf

\* When only verdicts are heard, the contract hears them.
LEMMA Hears ==
  ASSUME \A j \in Ids : VerdictOf(j)' = VerdictOf(j),
         \A j \in Ids : HeardOf(j)' = HeardOf(j)
                        \/ /\ HeardOf(j) = "none" /\ HeardOf(j)' \in Contract!Heard
                           /\ VerdictOf(j) \in {"open", "dropped"}
  PROVE  Contract!ContractNext
<1>1. PICK C \in SUBSET Ids : C = {j \in Ids : HeardOf(j)' # HeardOf(j)}
  OBVIOUS
<1> DEFINE v == [j \in C |-> HeardOf(j)']
<1>2. \E w \in [C -> Contract!Heard] :
        [j \in Ids |-> HeardOf(j)]' = [j \in Ids |-> IF j \in C THEN w[j] ELSE HeardOf(j)]
  <2>1. v \in [C -> Contract!Heard]
    BY <1>1
  <2>2. \A j \in Ids : HeardOf(j)' = IF j \in C THEN v[j] ELSE HeardOf(j)
    BY <1>1
  <2> QED
    BY <2>1, <2>2
<1>3. Contract!Hear(C)
  BY <1>1, <1>2 DEF Contract!Hear
<1> QED
  BY <1>3 DEF Contract!ContractNext

\* When one call moves on and nothing is heard, the contract moves it on.
LEMMA Moves ==
  ASSUME NEW i \in Ids,
         \A j \in Ids : HeardOf(j)' = HeardOf(j),
         \A j \in Ids \ {i} : VerdictOf(j)' = VerdictOf(j),
         \/ VerdictOf(i) = "idle" /\ VerdictOf(i)' \in {"open", "transport", "dropped"}
         \/ VerdictOf(i) = "open" /\ VerdictOf(i)' = "dropped"
         \/ VerdictOf(i) = "open" /\ HeardOf(i) # "none"
              /\ VerdictOf(i)' = Contract!Seen(HeardOf(i))
         \/ VerdictOf(i) = "open" /\ HeardOf(i) = "none"
              /\ VerdictOf(i)' \in {"timeout", "transport", "cancelled"}
  PROVE  Contract!ContractNext
<1>1. Contract!Issue(i) \/ Contract!Refuse(i) \/ Contract!Drop(i)
        \/ Contract!Deliver(i) \/ Contract!GiveUp(i)
  BY DEF Contract!Issue, Contract!Refuse, Contract!Drop, Contract!Deliver, Contract!GiveUp
<1> QED
  BY <1>1 DEF Contract!ContractNext

\* Every step of the SDK is one of the contract, or none.
LEMMA SdkImplements ==
  ASSUME Keeps, IInv, AllUnheard, NEW i \in Ids, Sdk(i)
  PROVE  Contract!ContractNext \/ UNCHANGED Contract!contractVars
<1>1. SdkTypeOK /\ CallInv(i) /\ Unheard(i)
  BY DEF IInv, SdkInv, CallsInv, AllUnheard
<1>2. ASSUME \A j \in Ids : HeardOf(j)' = HeardOf(j) /\ VerdictOf(j)' = VerdictOf(j)
      PROVE  Contract!ContractNext
  BY <1>2, Hears
<1>3. CASE Issue(i)
  <2>1. caller[i] = "none" /\ fut[i] = "none"
    BY <1>1, <1>3 DEF Issue, Request, RequestFails, OpenStream, CallInv, SdkTypeOK, Ids
  <2>2. \A j \in Ids : HeardOf(j)' = HeardOf(j)
    BY <1>1, <1>3, <2>1 DEF Issue, Request, RequestFails, OpenStream, SdkTypeOK
  <2>3. \A j \in Ids \ {i} : VerdictOf(j)' = VerdictOf(j)
    BY <1>1, <1>3 DEF Issue, Request, RequestFails, OpenStream, SdkTypeOK
  <2>4. VerdictOf(i) = "idle" /\ VerdictOf(i)' \in {"open", "transport", "dropped"}
    BY <1>1, <1>3, <2>1 DEF Issue, Request, RequestFails, OpenStream, SdkTypeOK
  <2> QED
    BY <2>2, <2>3, <2>4, Moves
<1>4. CASE SendStream(i)
  BY <1>2, <1>4 DEF SendStream
<1>5. CASE SendStreamFails(i)
  <2>1. \A j \in Ids : VerdictOf(j)' = VerdictOf(j)
    BY <1>5 DEF SendStreamFails
  <2>2. \A j \in Ids : HeardOf(j)' = HeardOf(j)
                       \/ /\ HeardOf(j) = "none" /\ HeardOf(j)' \in Contract!Heard
                          /\ VerdictOf(j) \in {"open", "dropped"}
    BY <1>1, <1>5 DEF SendStreamFails, SdkTypeOK, Unheard, Contract!Heard
  <2> QED
    BY <2>1, <2>2, Hears
<1>6. CASE TimerFires(i) \/ AuthorCancels(i) \/ CancelFuture(i) \/ CancelFinal(i)
           \/ NextChunk(i) \/ FinalResult(i)
  <2>1. \A j \in Ids : HeardOf(j)' = HeardOf(j)
    BY <1>1, <1>6
       DEF TimerFires, AuthorCancels, Interrupt, CancelFuture, CancelFinal, NextChunk,
           FinalResult, Keeps, SdkTypeOK
  <2>2. \A j \in Ids : VerdictOf(j)' = VerdictOf(j)
    BY <1>1, <1>6
       DEF TimerFires, AuthorCancels, Interrupt, CancelFuture, CancelFinal, NextChunk,
           FinalResult, SdkTypeOK
  <2> QED
    BY <1>2, <2>1, <2>2
<1>7. ASSUME NEW o, Finish(i, o), UNCHANGED fut,
             caller[i] \notin {"none", "done"},
             \/ o = "dropped"
             \/ HeardOf(i) # "none" /\ o = Contract!Seen(HeardOf(i))
             \/ HeardOf(i) = "none" /\ o \in {"timeout", "transport", "cancelled"}
      PROVE  Contract!ContractNext
  <2>1. \A j \in Ids : HeardOf(j)' = HeardOf(j)
    BY <1>7
  <2>2. \A j \in Ids \ {i} : VerdictOf(j)' = VerdictOf(j)
    BY <1>1, <1>7 DEF Finish, SdkTypeOK
  <2>3. VerdictOf(i) = "open" /\ VerdictOf(i)' = o
    BY <1>1, <1>7 DEF Finish, SdkTypeOK
  <2> QED
    BY <1>7, <2>1, <2>2, <2>3, Moves
<1>8. CASE Resume(i)
  <2>1. kind[i] # "complete"
    BY <1>1 DEF Unheard, Keeps
  <2>2. PICK o \in Reports(i) : Finish(i, o)
    BY <1>8 DEF Resume
  <2>3. HeardOf(i) # "none" /\ o = Contract!Seen(HeardOf(i))
    BY <1>8, <2>1, <2>2 DEF Resume, Reports, Contract!Seen
  <2> QED
    BY <1>7, <1>8, <2>2, <2>3 DEF Resume
<1>9. CASE GiveUp(i)
  BY <1>7, <1>9 DEF GiveUp, Keeps
<1>10. CASE FinalReturns(i)
  <2>1. fut[i] \notin {"none", "malformed", "unset"}
    BY <1>1, <1>10 DEF FinalReturns, CallInv, InStream
  <2>2. \/ HeardOf(i) # "none" /\ fut[i] = Contract!Seen(HeardOf(i))
        \/ HeardOf(i) = "none" /\ fut[i] = "cancelled"
    BY <2>1 DEF Contract!Seen
  <2> QED
    BY <1>7, <1>10, <2>2 DEF FinalReturns
<1>11. CASE DropStream(i)
  BY <1>7, <1>11 DEF DropStream
<1> QED
  BY <1>3, <1>4, <1>5, <1>6, <1>8, <1>9, <1>10, <1>11 DEF Sdk, Send, Single, Stream

\* So is every step of the reader, and every abandon.
LEMMA ReaderImplements ==
  ASSUME IInv, AllUnheard, Routing
  PROVE  Contract!ContractNext
<1>1. SdkTypeOK /\ \A j \in Ids : Unheard(j)
  BY DEF IInv, SdkInv, AllUnheard
<1>2. UNCHANGED <<caller, outcome>>
  BY DEF Routing, RouteResponse, RouteUnreadable, RouteDelta, AbandonPending, AbandonEntries
<1>3. \A j \in Ids : VerdictOf(j)' = VerdictOf(j)
  BY <1>2
<1>4. \A j \in Ids : HeardOf(j)' = HeardOf(j)
                     \/ /\ HeardOf(j) = "none" /\ HeardOf(j)' \in Contract!Heard
                        /\ VerdictOf(j) \in {"open", "dropped"}
  BY <1>1, RoutingSettles DEF Unheard, Contract!Heard
<1> QED
  BY <1>3, <1>4, Hears

\* An unset future stays one that may hear a verdict, whatever the SDK does.
LEMMA SdkUnheard ==
  ASSUME Keeps, IInv, AllUnheard, NEW i \in Ids, Sdk(i)
  PROVE  AllUnheard'
<1> SUFFICES ASSUME NEW j \in Ids PROVE Unheard(j)'
  BY DEF AllUnheard
<1> USE DEF Unheard
<1>1. /\ SdkTypeOK /\ CallInv(i) /\ Unheard(j)
      /\ Methods \subseteq SingleKinds
  BY CallsAssumption DEF IInv, SdkInv, CallsInv, AllUnheard, SingleKinds
<1>2. CASE Issue(i)
  <2>1. fut[i] = "none"
    BY <1>1, <1>2 DEF Issue, Request, RequestFails, OpenStream, CallInv, SdkTypeOK, Ids
  <2>2. CASE \E m \in Methods : Request(i, m)
    BY <1>1, <2>2 DEF Request, SdkTypeOK
  <2>3. CASE \E m \in Methods : RequestFails(i, m)
    BY <1>1, <2>1, <2>3 DEF RequestFails, SdkTypeOK
  <2>4. CASE OpenStream(i)
    BY <1>1, <2>4 DEF OpenStream, SdkTypeOK
  <2> QED
    BY <1>2, <2>2, <2>3, <2>4 DEF Issue
<1>3. CASE Send(i)
  BY <1>1, <1>3 DEF Send, SendStream, SendStreamFails, SdkTypeOK
<1>4. CASE TimerFires(i) \/ AuthorCancels(i) \/ CancelFuture(i) \/ CancelFinal(i)
           \/ NextChunk(i) \/ FinalResult(i)
  BY <1>1, <1>4
     DEF TimerFires, AuthorCancels, Interrupt, CancelFuture, CancelFinal, NextChunk,
         FinalResult, SdkTypeOK
<1>5. CASE Resume(i) \/ GiveUp(i) \/ FinalReturns(i) \/ DropStream(i)
  BY <1>1, <1>5 DEF Resume, GiveUp, FinalReturns, DropStream, Finish, Keeps, SdkTypeOK
<1> QED
  BY <1>2, <1>3, <1>4, <1>5 DEF Sdk, Single, Stream

\* ... and whatever is read: no future becomes unset by it.
LEMMA ReaderUnheard ==
  ASSUME IInv, AllUnheard, Routing
  PROVE  AllUnheard'
<1> SUFFICES ASSUME NEW j \in Ids PROVE Unheard(j)'
  BY DEF AllUnheard
<1>1. SdkTypeOK /\ Unheard(j)
  BY DEF IInv, SdkInv, AllUnheard
<1>2. UNCHANGED <<caller, outcome, kind>>
  BY DEF Routing, RouteResponse, RouteUnreadable, RouteDelta, AbandonPending, AbandonEntries
<1>3. fut'[j] = "unset" => fut[j] = "unset"
  BY <1>1, RoutingSettles
<1> QED
  BY <1>1, <1>2, <1>3 DEF Unheard

\* Where wait_for leaves the future alone until the waiter has run (3.10 and
\* 3.11) and the results are decoded without surprises, the author's view of
\* the calls is HostCallContract: each call gets one verdict, the first one
\* heard for it, and is given up only while none was heard.
THEOREM CallsKeepContract == ASSUME Keeps PROVE CallsSpec => ImplementsContract
<1>1. CallsInit => Contract!ContractInit /\ AllUnheard
  <2> SUFFICES ASSUME CallsInit PROVE Contract!ContractInit /\ AllUnheard
    OBVIOUS
  <2>1. \A i \in Ids : /\ HeardOf(i) = "none" /\ VerdictOf(i) = "idle"
                       /\ fut[i] = "none" /\ kind[i] = "none"
    BY DEF CallsInit
  <2> QED
    BY <2>1 DEF Contract!ContractInit, AllUnheard, Unheard
<1>2. IInv /\ AllUnheard /\ [CallsNext]_callVars
        => AllUnheard' /\ [Contract!ContractNext]_(Contract!contractVars)
  <2> SUFFICES ASSUME IInv, AllUnheard, [CallsNext]_callVars
               PROVE  AllUnheard' /\ [Contract!ContractNext]_(Contract!contractVars)
    OBVIOUS
  <2>1. CASE UNCHANGED callVars
    BY <2>1 DEF callVars, sdkVars, AllUnheard, Unheard, Contract!contractVars
  <2>2. CASE \E i \in Ids : Sdk(i)
    BY <2>2, SdkUnheard, SdkImplements
  <2>3. CASE Routing
    BY <2>3, ReaderUnheard, ReaderImplements
  <2> QED
    BY <2>1, <2>2, <2>3, CallsSteps
<1> QED
  BY <1>1, <1>2, Inductive, PTL DEF CallsSpec, ImplementsContract, Contract!ContractSpec

HIDE DEF HeardOf, VerdictOf

----------------------------------------------------------------------------
(* What an author reads of a stream *)

Ordered(s)  == \A k \in DOMAIN s : s[k] = k \/ \A l \in k .. Len(s) : s[l] = END
Whole(s, n) == Len(s) = n /\ \A k \in DOMAIN s : s[k] = k
Content(s)  == {s[k] : k \in DOMAIN s} \ {END}

\* The end mark behind an ordered stream leaves it ordered, and adds no chunk.
LEMMA EndOrdered ==
  ASSUME NEW s \in Seq(0 .. MaxChunks), Ordered(s)
  PROVE  Ordered(Append(s, END)) /\ Content(Append(s, END)) = Content(s)
<1> DEFINE t == Append(s, END)
<1>1. /\ Len(t) = Len(s) + 1 /\ DOMAIN t = 1 .. Len(t) /\ DOMAIN s = 1 .. Len(s)
      /\ Len(s) \in Nat
      /\ \A k \in 1 .. Len(s) : t[k] = s[k]
      /\ t[Len(s) + 1] = END
  BY CallsAssumption, AppendProperties, LenProperties DEF END
<1> HIDE DEF t
<1>2. Ordered(t)
  <2> SUFFICES ASSUME NEW k \in DOMAIN t, t[k] # k, NEW l \in k .. Len(t)
               PROVE  t[l] = END
    BY DEF Ordered
  <2>1. CASE l = Len(s) + 1
    BY <1>1, <2>1
  <2>2. CASE l # Len(s) + 1
    <3>1. k \in DOMAIN s /\ s[k] # k /\ l \in k .. Len(s)
      BY <1>1, <2>2
    <3> QED
      BY <1>1, <3>1 DEF Ordered
  <2> QED
    BY <2>1, <2>2
<1>3. Content(t) = Content(s)
  BY <1>1 DEF Content
<1> QED
  BY <1>2, <1>3 DEF t

\* The next chunk behind a whole stream makes a whole stream.
LEMMA ChunkWhole ==
  ASSUME NEW s \in Seq(0 .. MaxChunks), NEW n \in Nat, Whole(s, n)
  PROVE  Whole(Append(s, n + 1), n + 1)
<1>1. Append(s, n + 1) \in Seq(Nat) /\ s \in Seq(Nat)
  BY CallsAssumption
<1> QED
  BY <1>1 DEF Whole

\* A whole stream is ordered and has the chunks it should have.
LEMMA WholeOrdered ==
  ASSUME NEW s \in Seq(0 .. MaxChunks), NEW n \in Nat, Whole(s, n)
  PROVE  Ordered(s) /\ Content(s) = 1 .. n
<1>1. DOMAIN s = 1 .. n
  BY LenProperties DEF Whole
<1>2. Content(s) = 1 .. n
  <2>1. \A k \in DOMAIN s : s[k] = k /\ s[k] # END
    BY <1>1 DEF Whole, END
  <2> QED
    BY <1>1, <2>1 DEF Content
<1> QED
  BY <1>2 DEF Ordered, Whole

\* Reading a chunk off the queue leaves the stream as it is; reading its end
\* leaves it ordered, with the chunks it has.
LEMMA ChunkRead ==
  ASSUME NEW g \in Seq(1 .. MaxChunks), NEW c \in Seq(0 .. MaxChunks), c # <<>>
  PROVE  /\ Head(c) # END => Append(g, Head(c)) \o Tail(c) = g \o c
         /\ Head(c) = END /\ Ordered(g \o c) =>
              Ordered(g \o Tail(c)) /\ Content(g \o Tail(c)) = Content(g \o c)
<1>0. g \in Seq(0 .. MaxChunks) /\ Len(g) \in Nat /\ Len(c) \in Nat /\ Len(c) > 0
      /\ DOMAIN g = 1 .. Len(g)
      /\ \A k \in DOMAIN g : g[k] # END
  BY CallsAssumption, LenProperties, EmptySeq DEF END
<1> DEFINE s == g \o c
           t == g \o Tail(c)
<1>1. /\ Tail(c) \in Seq(0 .. MaxChunks) /\ Len(Tail(c)) = Len(c) - 1 /\ Head(c) = c[1]
      /\ \A k \in 1 .. Len(c) - 1 : Tail(c)[k] = c[k + 1]
  BY HeadTailProperties
<1>2. /\ Len(s) = Len(g) + Len(c) /\ DOMAIN s = 1 .. Len(s)
      /\ \A k \in 1 .. Len(s) : s[k] = IF k <= Len(g) THEN g[k] ELSE c[k - Len(g)]
  BY <1>0, ConcatProperties, LenProperties
<1>3. /\ Len(t) = Len(g) + Len(c) - 1 /\ DOMAIN t = 1 .. Len(t)
      /\ \A k \in 1 .. Len(t) : t[k] = IF k <= Len(g) THEN g[k] ELSE c[k - Len(g) + 1]
  BY <1>0, <1>1, ConcatProperties, LenProperties
<1>4. ASSUME Head(c) # END
      PROVE  Append(g, Head(c)) \o Tail(c) = s
  BY <1>0, <1>1
<1>5. ASSUME Head(c) = END, Ordered(s)
      PROVE  Ordered(t) /\ Content(t) = Content(s)
  <2> HIDE DEF s, t
  <2>1. Len(g) + 1 \in DOMAIN s /\ s[Len(g) + 1] = END
    BY <1>0, <1>1, <1>2, <1>5
  <2>2. \A l \in Len(g) + 1 .. Len(s) : s[l] = END
    BY <1>0, <1>2, <1>5, <2>1 DEF Ordered, END
  <2>3. \A k \in DOMAIN t : t[k] = IF k <= Len(g) THEN g[k] ELSE END
    BY <1>0, <1>2, <1>3, <2>2
  <2>4. \A k \in DOMAIN g : k \in DOMAIN s /\ k \in DOMAIN t /\ s[k] = g[k] /\ t[k] = g[k]
    BY <1>0, <1>2, <1>3
  <2>5. Ordered(t)
    <3> SUFFICES ASSUME NEW k \in DOMAIN t, t[k] # k, NEW l \in k .. Len(t)
                 PROVE  t[l] = END
      BY DEF Ordered
    <3>1. k > Len(g)
      <4> SUFFICES ASSUME k <= Len(g) PROVE FALSE
        BY <1>0, <1>3
      <4>1. k \in DOMAIN g /\ s[k] # k
        BY <1>0, <1>3, <2>4
      <4> QED
        BY <1>0, <1>2, <1>5, <2>4, <4>1 DEF Ordered
    <3> QED
      BY <1>0, <1>3, <2>3, <3>1
  <2>6. \A x : x \in Content(t) <=> \E k \in DOMAIN g : x = g[k]
    BY <1>0, <1>3, <2>3, <2>4 DEF Content
  <2>7. \A x : x \in Content(s) <=> \E k \in DOMAIN g : x = g[k]
    BY <1>0, <1>2, <2>2, <2>4 DEF Content
  <2> QED
    BY <2>5, <2>6, <2>7
<1> QED
  BY <1>4, <1>5

\* The next thing on the queue is part of the stream.
LEMMA LastQueued ==
  ASSUME NEW g \in Seq(1 .. MaxChunks), NEW c \in Seq(0 .. MaxChunks), c # <<>>
  PROVE  \E k \in DOMAIN (g \o c) : (g \o c)[k] = Head(c)
<1>1. g \in Seq(0 .. MaxChunks) /\ Len(g) \in Nat /\ Len(c) \in Nat /\ Len(c) > 0
  BY CallsAssumption, LenProperties, EmptySeq
<1>2. Len(g) + 1 \in DOMAIN (g \o c) /\ (g \o c)[Len(g) + 1] = c[1] /\ c[1] = Head(c)
  BY <1>1, ConcatProperties, LenProperties, HeadTailProperties
<1> QED
  BY <1>2

\* A stream of which d chunks were routed: what was read and what is queued is
\* all of it while the entry is registered, and when the final reply is a result.
StreamAt(i, d) ==
  /\ Ordered(Streamed(i))
  /\ kind[i] = "stream" /\ i \in pending => Whole(Streamed(i), d)
  /\ kind[i] = "stream" /\ fut[i] = "result" => Content(Streamed(i)) = 1 .. d
  /\ kind[i] = "none" => i \notin sent /\ got[i] = <<>> /\ chunks[i] = <<>> /\ d = 0

\* The final reply comes once the host is done with a stream.
RepliedWith(i, replied) ==
  /\ kind[i] = "stream" /\ i \in pending => ~replied
  /\ kind[i] = "stream" /\ fut[i] = "result" => replied
  /\ kind[i] = "none" => ~replied

\* Here the host's chunks and replies are routed as they are sent.
StreamInv(i) == StreamAt(i, deltas[i]) /\ RepliedWith(i, answers[i] > 0)

AllStreams == \A i \in Ids : StreamInv(i)

\* The types of a stream.
LEMMA StreamTypes ==
  ASSUME IInv, NEW j \in Ids
  PROVE  /\ got[j] \in Seq(1 .. MaxChunks) /\ chunks[j] \in Seq(0 .. MaxChunks)
         /\ Streamed(j) \in Seq(0 .. MaxChunks)
         /\ deltas[j] \in 0 .. MaxChunks /\ answers[j] \in 0 .. MaxAnswers
         /\ MaxChunks \in Nat /\ MaxAnswers \in Nat
         /\ SdkTypeOK /\ HostTypeOK /\ CallInv(j)
<1>1. got[j] \in Seq(1 .. MaxChunks) /\ chunks[j] \in Seq(0 .. MaxChunks)
  BY DEF IInv, SdkInv, SdkTypeOK
<1>2. got[j] \in Seq(0 .. MaxChunks)
  BY <1>1, CallsAssumption
<1>3. Streamed(j) \in Seq(0 .. MaxChunks)
  BY <1>1, <1>2, ConcatProperties DEF Streamed
<1> QED
  BY <1>1, <1>3, CallsAssumption DEF IInv, SdkInv, CallsInv, HostTypeOK

\* Append and concatenation.
LEMMA AppendBehind ==
  ASSUME NEW g \in Seq(0 .. MaxChunks), NEW c \in Seq(0 .. MaxChunks), NEW x \in 0 .. MaxChunks
  PROVE  g \o Append(c, x) = Append(g \o c, x)
OBVIOUS

\* What is put on the queue is put behind the stream.
LEMMA QueuedBehind ==
  ASSUME IInv, NEW j \in Ids, NEW x \in 0 .. MaxChunks,
         chunks'[j] = Append(chunks[j], x), got'[j] = got[j]
  PROVE  Streamed(j)' = Append(Streamed(j), x)
<1>1. got[j] \in Seq(0 .. MaxChunks) /\ chunks[j] \in Seq(0 .. MaxChunks)
  BY StreamTypes, CallsAssumption
<1>2. Streamed(j)' = got[j] \o Append(chunks[j], x)
  BY DEF Streamed
<1> QED
  BY <1>1, <1>2, AppendBehind DEF Streamed

\* A stream that is ended, and whose entry is gone, has what it had.
LEMMA EndKeeps ==
  ASSUME IInv, NEW j \in Ids, NEW d \in Nat, StreamAt(j, d),
         chunks'[j] = chunks[j] \/ (chunks'[j] = Append(chunks[j], END) /\ j \notin pending'),
         got'[j] = got[j], kind'[j] = kind[j], kind[j] # "none",
         j \in pending' => j \in pending,
         fut'[j] = "result" => fut[j] = "result" \/ j \in pending
  PROVE  StreamAt(j, d)'
<1>1. /\ Streamed(j) \in Seq(0 .. MaxChunks) /\ END \in 0 .. MaxChunks
  BY StreamTypes, CallsAssumption DEF END
<1>2. /\ Ordered(Streamed(j)')
      /\ Content(Streamed(j)') = Content(Streamed(j))
      /\ j \in pending' => Streamed(j)' = Streamed(j)
  <2>1. CASE chunks'[j] = chunks[j]
    <3>1. Streamed(j)' = Streamed(j)
      BY <2>1 DEF Streamed
    <3> QED
      BY <3>1 DEF StreamAt
  <2>2. CASE chunks'[j] = Append(chunks[j], END) /\ j \notin pending'
    <3>1. Streamed(j)' = Append(Streamed(j), END)
      BY <1>1, <2>2, QueuedBehind
    <3> QED
      BY <1>1, <2>2, <3>1, EndOrdered DEF StreamAt
  <2> QED
    BY <2>1, <2>2
<1>3. ASSUME kind[j] = "stream", j \in pending
      PROVE  Content(Streamed(j)) = 1 .. d
  BY <1>1, <1>3, WholeOrdered DEF StreamAt
<1> QED
  BY <1>1, <1>2, <1>3 DEF StreamAt

\* The steps of the SDK keep every stream.
LEMMA SdkStreams ==
  ASSUME IInv, NEW i \in Ids, Sdk(i), NEW j \in Ids, NEW d \in Nat, StreamAt(j, d)
  PROVE  StreamAt(j, d)'
<1>0. SdkTypeOK /\ CallInv(j) /\ CallInv(i) /\ nextId \in Nat
  BY StreamTypes DEF SdkTypeOK
<1>1. ASSUME got'[j] = got[j], chunks'[j] = chunks[j], kind'[j] = kind[j],
             j \in pending' => j \in pending, j \in sent' => j \in sent \/ kind[j] # "none",
             fut'[j] = "result" => fut[j] = "result"
      PROVE  StreamAt(j, d)'
  <2>1. Streamed(j)' = Streamed(j)
    BY <1>1 DEF Streamed
  <2> QED
    BY <1>1, <2>1 DEF StreamAt
<1>2. CASE Issue(i)
  <2>1. CASE i = j
    <3>1. kind[j] = "none"
      BY <1>0, <1>2, <2>1 DEF Issue, Request, RequestFails, OpenStream, CallInv
    <3>2. got'[j] = <<>> /\ chunks'[j] = <<>> /\ fut'[j] # "result" /\ kind'[j] # "none"
      BY <1>0, <1>2, <2>1, <3>1, CallsAssumption
         DEF Issue, Request, RequestFails, OpenStream, SdkTypeOK, StreamAt, CallInv
    <3>3. Streamed(j)' = <<>>
      BY <3>2 DEF Streamed
    <3> QED
      BY <3>1, <3>2, <3>3 DEF StreamAt, Ordered, Whole
  <2>2. CASE i # j
    BY <1>0, <1>1, <1>2, <2>2 DEF Issue, Request, RequestFails, OpenStream, SdkTypeOK
  <2> QED
    BY <2>1, <2>2
<1>3. CASE SendStream(i)
  BY <1>0, <1>1, <1>3 DEF SendStream, CallInv
<1>4. CASE SendStreamFails(i)
  <2>1. kind[i] # "none" /\ i \notin pending'
    BY <1>0, <1>4 DEF SendStreamFails, CallInv
  <2> QED
    BY <1>0, <1>4, <2>1, EndKeeps, <1>1 DEF SendStreamFails, SdkTypeOK
<1>5. CASE Single(i)
  BY <1>0, <1>1, <1>5
     DEF Single, TimerFires, AuthorCancels, Interrupt, CancelFuture, Resume, GiveUp, Finish,
         SdkTypeOK
<1>6. CASE NextChunk(i)
  <2>1. CASE j # i
    BY <1>0, <1>1, <1>6, <2>1 DEF NextChunk, SdkTypeOK
  <2>2. CASE j = i
    <3>1. /\ kind[i] = "stream" /\ chunks[i] # <<>>
          /\ chunks'[i] = Tail(chunks[i])
          /\ Head(chunks[i]) = END => got'[i] = got[i]
          /\ Head(chunks[i]) # END => got'[i] = Append(got[i], Head(chunks[i]))
          /\ kind' = kind /\ pending' = pending /\ fut' = fut /\ sent' = sent
      BY <1>0, <1>6 DEF NextChunk, SdkTypeOK, CallInv, InStream
    <3>2. CASE Head(chunks[i]) # END
      <4>1. Streamed(i)' = Streamed(i)
        BY <3>1, <3>2, StreamTypes, ChunkRead DEF Streamed
      <4> QED
        BY <2>2, <3>1, <4>1 DEF StreamAt
    <3>3. CASE Head(chunks[i]) = END
      <4>1. Ordered(Streamed(i)') /\ Content(Streamed(i)') = Content(Streamed(i))
        BY <2>2, <3>1, <3>3, StreamTypes, ChunkRead DEF Streamed, StreamAt
      <4>2. i \notin pending
        <5> SUFFICES ASSUME i \in pending PROVE FALSE
          OBVIOUS
        <5>1. Whole(Streamed(i), d) /\ Streamed(i) \in Seq(0 .. MaxChunks)
          BY <2>2, <3>1, StreamTypes DEF StreamAt
        <5>2. \E k \in DOMAIN Streamed(i) : Streamed(i)[k] = END
          BY <3>1, <3>3, StreamTypes, LastQueued DEF Streamed
        <5> QED
          BY <5>1, <5>2, LenProperties DEF Whole, END
      <4> QED
        BY <2>2, <3>1, <4>1, <4>2 DEF StreamAt
    <3> QED
      BY <3>2, <3>3
  <2> QED
    BY <2>1, <2>2
<1>7. CASE FinalResult(i) \/ CancelFinal(i) \/ FinalReturns(i) \/ DropStream(i)
  BY <1>0, <1>1, <1>7 DEF FinalResult, CancelFinal, FinalReturns, DropStream, Finish, SdkTypeOK
<1> QED
  BY <1>2, <1>3, <1>4, <1>5, <1>6, <1>7 DEF Sdk, Send, Stream

\* The SDK registers only calls that are new, gives no result, and forgets no call.
LEMMA SdkGivesNoResult ==
  ASSUME IInv, NEW i \in Ids, Sdk(i), NEW j \in Ids
  PROVE  /\ j \in pending' => j \in pending \/ kind[j] = "none"
         /\ fut'[j] = "result" => fut[j] = "result"
         /\ kind[j] # "none" => kind'[j] = kind[j]
         /\ kind[j] = "none" => fut[j] # "result"
         /\ sent \subseteq sent'
<1>0. SdkTypeOK /\ CallInv(j) /\ CallInv(i) /\ nextId \in Nat
  BY StreamTypes DEF SdkTypeOK
<1>4. kind[j] = "none" => fut[j] # "result"
  BY <1>0 DEF CallInv
<1>1. CASE Issue(i)
  <2>1. kind[i] = "none"
    BY <1>0, <1>1 DEF Issue, Request, RequestFails, OpenStream, CallInv
  <2> QED
    BY <1>0, <1>1, <1>4, <2>1 DEF Issue, Request, RequestFails, OpenStream, SdkTypeOK
<1>2. CASE Send(i) \/ Single(i)
  BY <1>0, <1>2, <1>4
     DEF Send, SendStream, SendStreamFails, Single, TimerFires, AuthorCancels, Interrupt,
         CancelFuture, Resume, GiveUp, Finish, SdkTypeOK
<1>3. CASE Stream(i)
  BY <1>0, <1>3, <1>4
     DEF Stream, NextChunk, FinalResult, CancelFinal, FinalReturns, DropStream, Finish, SdkTypeOK
<1> QED
  BY <1>1, <1>2, <1>3 DEF Sdk

\* A reply that is routed ends its stream, with all that was routed before it.
LEMMA ReplyStreams ==
  ASSUME IInv, NEW i \in Ids, NEW r, RouteResponse(i, r) \/ RouteUnreadable(i),
         NEW j \in Ids, NEW d \in Nat, StreamAt(j, d)
  PROVE  StreamAt(j, d)'
<1>0. SdkTypeOK /\ CallInv(j)
  BY StreamTypes
<1>1. CASE kind[j] = "none"
  <2>1. j \notin pending
    BY <1>0, <1>1 DEF CallInv
  <2>2. chunks'[j] = chunks[j] /\ got' = got /\ kind' = kind /\ sent' = sent
    BY <1>0, <2>1 DEF RouteResponse, RouteUnreadable, SdkTypeOK
  <2>3. Streamed(j)' = Streamed(j)
    BY <2>2 DEF Streamed
  <2> QED
    BY <1>1, <2>2, <2>3 DEF StreamAt
<1>2. CASE kind[j] # "none"
  <2>1. /\ got'[j] = got[j] /\ kind'[j] = kind[j]
        /\ j \in pending' => j \in pending
        /\ chunks'[j] = chunks[j] \/ (chunks'[j] = Append(chunks[j], END) /\ j \notin pending')
    BY <1>0 DEF RouteResponse, RouteUnreadable, SdkTypeOK
  <2>2. fut'[j] = "result" => fut[j] = "result" \/ j \in pending
    BY <1>0 DEF RouteResponse, RouteUnreadable, SdkTypeOK
  <2> QED
    BY <1>2, <2>1, <2>2, EndKeeps
<1> QED
  BY <1>1, <1>2

\* It gives a result to nobody else, and takes its own entry out.
LEMMA ReplyIsOwn ==
  ASSUME IInv, NEW i \in Ids, NEW r, RouteResponse(i, r) \/ RouteUnreadable(i), NEW j \in Ids
  PROVE  /\ j \in pending' => j \in pending /\ j # i
         /\ fut'[j] = "result" => fut[j] = "result" \/ (j = i /\ i \in pending)
         /\ kind' = kind
BY StreamTypes DEF RouteResponse, RouteUnreadable, SdkTypeOK

\* A chunk that is routed to a stream is put behind it, when it is the next one.
LEMMA ChunkStreams ==
  ASSUME IInv, NEW i \in Ids, NEW d \in Nat, d + 1 \in 1 .. MaxChunks, RouteDelta(i, d + 1),
         StreamAt(i, d), i \in pending, kind[i] = "stream"
  PROVE  StreamAt(i, d + 1)'
<1>0. /\ SdkTypeOK /\ CallInv(i) /\ d + 1 \in 0 .. MaxChunks
      /\ Streamed(i) \in Seq(0 .. MaxChunks)
  BY StreamTypes
<1>1. Streamed(i)' = Append(Streamed(i), d + 1)
  BY <1>0, QueuedBehind DEF RouteDelta, SdkTypeOK
<1>2. Streamed(i)' \in Seq(0 .. MaxChunks) /\ Whole(Streamed(i)', d + 1)
  BY <1>0, <1>1, ChunkWhole, AppendProperties DEF StreamAt
<1>3. Ordered(Streamed(i)')
  BY <1>2, WholeOrdered
<1>4. fut[i] # "result"
  BY <1>0 DEF CallInv
<1> QED
  BY <1>0, <1>2, <1>3, <1>4 DEF RouteDelta, StreamAt

\* A chunk of another stream, or one that comes when the entry is gone, leaves a
\* stream alone.
LEMMA ChunkElsewhere ==
  ASSUME IInv, NEW i \in Ids, NEW n, RouteDelta(i, n), NEW j \in Ids, NEW d \in Nat,
         StreamAt(j, d), j # i \/ i \notin pending \/ kind[i] # "stream"
  PROVE  StreamAt(j, d)'
<1>1. Streamed(j)' = Streamed(j)
  BY StreamTypes DEF RouteDelta, Streamed, SdkTypeOK
<1> QED
  BY StreamTypes, <1>1 DEF RouteDelta, StreamAt, SdkTypeOK

\* An abandon ends every stream.
LEMMA AbandonStreams ==
  ASSUME IInv, AbandonPending, NEW j \in Ids, NEW d \in Nat, StreamAt(j, d)
  PROVE  /\ StreamAt(j, d)'
         /\ j \notin pending' /\ kind' = kind
         /\ fut'[j] = "result" => fut[j] = "result"
<1>0. SdkTypeOK /\ CallInv(j)
  BY StreamTypes
<1>1. j \notin pending' /\ kind' = kind /\ (fut'[j] = "result" => fut[j] = "result")
  BY <1>0 DEF AbandonPending, AbandonEntries
<1>2. CASE kind[j] = "none"
  <2>1. Streamed(j)' = Streamed(j)
    BY <1>0, <1>2 DEF AbandonPending, AbandonEntries, CallInv, Streamed
  <2> QED
    BY <1>0, <1>1, <1>2, <2>1 DEF AbandonPending, AbandonEntries, CallInv, StreamAt
<1>3. CASE kind[j] # "none"
  BY <1>0, <1>1, <1>3, EndKeeps DEF AbandonPending, AbandonEntries, SdkTypeOK
<1> QED
  BY <1>1, <1>2, <1>3

\* Here a chunk that is routed is the next one, and a reply the last thing.
LEMMA ReaderStreams ==
  ASSUME IInv, AllStreams,
         \/ \E i \in Ids, r \in ReplyKinds : HostReplies(i, r)
         \/ \E i \in Ids : HostStreams(i) \/ HostStreamsLate(i)
         \/ Abandon
  PROVE  AllStreams'
<1> SUFFICES ASSUME NEW j \in Ids PROVE StreamInv(j)'
  BY DEF AllStreams
<1>0. /\ SdkTypeOK /\ HostTypeOK /\ MaxChunks \in Nat /\ MaxAnswers \in Nat
      /\ deltas[j] \in Nat /\ deltas[j] \in 0 .. MaxChunks /\ answers[j] \in Nat
      /\ CallInv(j)
  BY StreamTypes
<1>1. PICK d \in Nat : d = deltas[j]
  BY <1>0
<1>2. StreamAt(j, d) /\ RepliedWith(j, answers[j] > 0)
  BY <1>1 DEF AllStreams, StreamInv
<1>3. ASSUME NEW i \in Ids, NEW r \in ReplyKinds, HostReplies(i, r)
      PROVE  StreamInv(j)'
  <2>1. /\ deltas' = deltas /\ i \in sent /\ (RouteResponse(i, r) \/ RouteUnreadable(i))
        /\ answers' = [answers EXCEPT ![i] = @ + 1]
    BY <1>3 DEF HostReplies
  <2>2. StreamAt(j, d)'
    BY <1>0, <1>1, <1>2, <2>1, ReplyStreams
  <2>3. /\ j \in pending' => j \in pending /\ j # i
        /\ fut'[j] = "result" => fut[j] = "result" \/ j = i
        /\ kind' = kind
    BY <2>1, ReplyIsOwn
  <2>4. kind[j] = "none" => j # i
    BY <1>2, <2>1 DEF StreamAt
  <2>5. /\ j = i => answers'[j] > 0
        /\ j # i => answers'[j] = answers[j]
    BY <1>0, <2>1 DEF HostTypeOK
  <2>6. RepliedWith(j, answers[j] > 0)'
    BY <1>2, <2>3, <2>4, <2>5 DEF RepliedWith
  <2>7. deltas'[j] = d
    BY <1>1, <2>1
  <2> QED
    BY <2>2, <2>6, <2>7 DEF StreamInv
<1>4. ASSUME NEW i \in Ids, HostStreams(i)
      PROVE  StreamInv(j)'
  <2>1. /\ i \in sent /\ RouteDelta(i, deltas[i] + 1) /\ deltas[i] + 1 \in 1 .. MaxChunks
        /\ deltas' = [deltas EXCEPT ![i] = @ + 1] /\ answers' = answers /\ answers[i] = 0
        /\ kind[i] = "stream"
    BY <1>0, <1>4 DEF HostStreams, HostTypeOK
  <2>2. RepliedWith(j, answers[j] > 0)'
    BY <1>2, <2>1 DEF RepliedWith, RouteDelta
  <2>3. CASE j = i /\ i \in pending
    <3>1. deltas'[j] = d + 1
      BY <1>0, <1>1, <2>1, <2>3 DEF HostTypeOK
    <3>2. StreamAt(j, d + 1)'
      BY <1>0, <1>1, <1>2, <2>1, <2>3, ChunkStreams
    <3> QED
      BY <2>2, <3>1, <3>2 DEF StreamInv
  <2>4. CASE j = i /\ i \notin pending
    <3>1. StreamAt(j, d)'
      BY <1>0, <1>1, <1>2, <2>1, <2>4, ChunkElsewhere
    <3>2. kind'[j] = "stream" /\ j \notin pending' /\ fut'[j] # "result"
      BY <1>2, <2>1, <2>4 DEF RepliedWith, RouteDelta
    <3> QED
      BY <2>2, <3>1, <3>2 DEF StreamInv, StreamAt
  <2>5. CASE j # i
    <3>1. deltas'[j] = d
      BY <1>0, <1>1, <2>1, <2>5 DEF HostTypeOK
    <3>2. StreamAt(j, d)'
      BY <1>0, <1>1, <1>2, <2>1, <2>5, ChunkElsewhere
    <3> QED
      BY <2>2, <3>1, <3>2 DEF StreamInv
  <2> QED
    BY <2>3, <2>4, <2>5
<1>5. ASSUME NEW i \in Ids, HostStreamsLate(i)
      PROVE  StreamInv(j)'
  <2>1. i \notin pending
    BY <1>5 DEF HostStreamsLate, AllStreams, StreamInv, RepliedWith
  <2>2. StreamAt(j, d)'
    BY <1>0, <1>1, <1>2, <1>5, <2>1, ChunkElsewhere DEF HostStreamsLate
  <2>3. RepliedWith(j, answers[j] > 0)' /\ deltas'[j] = d
    BY <1>1, <1>2, <1>5 DEF HostStreamsLate, hostVars, RepliedWith, RouteDelta
  <2> QED
    BY <2>2, <2>3 DEF StreamInv
<1>6. CASE Abandon
  <2>1. deltas' = deltas /\ answers' = answers /\ AbandonPending
    BY <1>6 DEF Abandon, hostVars
  <2>2. /\ StreamAt(j, d)' /\ j \notin pending' /\ kind' = kind
        /\ fut'[j] = "result" => fut[j] = "result"
    BY <1>0, <1>1, <1>2, <2>1, AbandonStreams
  <2>3. RepliedWith(j, answers[j] > 0)'
    BY <1>2, <2>1, <2>2 DEF RepliedWith
  <2> QED
    BY <1>1, <2>1, <2>2, <2>3 DEF StreamInv
<1> QED
  BY <1>3, <1>4, <1>5, <1>6

\* What an author reads of a stream is what the host streamed: in order, and
\* whole when its final reply says so.
THEOREM StreamsAreFaithful == CallsSpec => []StreamFaithful
<1>1. CallsInit => AllStreams
  BY DEF CallsInit, AllStreams, StreamInv, StreamAt, RepliedWith, Streamed, Ordered
<1>2. IInv /\ AllStreams /\ [CallsNext]_callVars => AllStreams'
  <2> SUFFICES ASSUME IInv, AllStreams, [CallsNext]_callVars
               PROVE  AllStreams'
    OBVIOUS
  <2>1. CASE UNCHANGED callVars
    BY <2>1 DEF callVars, sdkVars, hostVars, AllStreams, StreamInv, StreamAt, RepliedWith, Streamed
  <2>2. CASE \E i \in Ids : Sdk(i) /\ UNCHANGED <<hostVars, abandons>>
    <3> SUFFICES ASSUME NEW i \in Ids, Sdk(i), UNCHANGED hostVars, NEW j \in Ids
                 PROVE  StreamInv(j)'
      BY <2>2 DEF AllStreams
    <3>0. PICK d \in Nat : d = deltas[j]
      BY StreamTypes
    <3>1. deltas' = deltas /\ answers' = answers
      BY DEF hostVars
    <3>2. StreamAt(j, d)'
      BY <3>0, SdkStreams DEF AllStreams, StreamInv
    <3>3. /\ j \in pending' => j \in pending \/ kind[j] = "none"
          /\ fut'[j] = "result" => fut[j] = "result"
          /\ kind[j] # "none" => kind'[j] = kind[j]
          /\ kind[j] = "none" => fut[j] # "result"
      BY SdkGivesNoResult
    <3>4. RepliedWith(j, answers[j] > 0)'
      BY <3>1, <3>3 DEF RepliedWith, AllStreams, StreamInv
    <3> QED
      BY <3>0, <3>1, <3>2, <3>4 DEF StreamInv
  <2>3. CASE \/ \E i \in Ids, r \in ReplyKinds : HostReplies(i, r)
             \/ \E i \in Ids : HostStreams(i) \/ HostStreamsLate(i)
             \/ Abandon
    BY <2>3, ReaderStreams
  <2> QED
    BY <2>1, <2>2, <2>3 DEF CallsNext
<1>3. AllStreams => StreamFaithful
  BY DEF AllStreams, StreamInv, StreamAt, Ordered, Content, StreamFaithful, InOrder, NothingLost
<1> QED
  BY <1>1, <1>2, <1>3, Inductive, PTL DEF CallsSpec

----------------------------------------------------------------------------
(* The dispatch loop *)


\* The handlers the host has asked for and the loop has not started.
Waiting == Cardinality(WorkIn(stdin)) + (IF IsWork(line) THEN 1 ELSE 0)

\* Every handler the loop starts was asked for.
WorkCount == nextTask + Waiting <= invited

\* The registry is abandoned once by the shutdown, and once by `finally`.
AbandonCount == /\ pc = "serving" => abandons = 0
                /\ pc \in {"draining", "onshutdown"} => abandons <= 1

\* A handler is in flight from the step that starts it to its done callback,
\* and answers at most once.
TaskInv(t) ==
  /\ task[t] = "none" <=> t > nextTask
  /\ t \in inflight <=> task[t] \in {"running", "returned"}
  /\ task[t] \in {"none", "running"} => replies[t] = 0
  /\ task[t] = "none" => ~isTool[t]

TasksInv == \A t \in Tasks : TaskInv(t)

\* A send task that has not run belongs to a handler that is in flight.
SendersInv == \A i \in unsent : owner[i] \in Tasks /\ task[owner[i]] \in {"running", "returned"}

\* What a drain waits for covers what is in flight, and nothing is in flight
\* once it has ended.
DrainInv ==
  /\ pc \in {"draining", "finaldrain"} => inflight \subseteq drainSet
  /\ pc \in {"onshutdown", "exited"} => inflight = {}
  /\ acked => pc = "exited"

AdapterInv == /\ TypeOK /\ CallsInv /\ WorkCount /\ AbandonCount
              /\ TasksInv /\ SendersInv /\ DrainInv

----------------------------------------------------------------------------
(* The invariant, over the steps *)

\* The adapter starts in its invariant.
LEMMA InitAdapter == Init => AdapterInv
<1> SUFFICES ASSUME Init PROVE AdapterInv
  OBVIOUS
<1>1. SdkInv /\ HostTypeOK /\ abandons = 0
  BY InitInv, CallsAssumption DEF Init, IInv, CallsInit
<1>2. stdin \in Seq(Frame) /\ WorkIn(stdin) = {}
  BY DEF Init, WorkIn
<1>3. Waiting = 0
  <2>1. Cardinality(WorkIn(stdin)) = 0
    BY <1>2, FS_EmptySet
  <2>2. ~IsWork(line)
    BY DEF Init, IsWork, NoLine
  <2> QED
    BY <2>1, <2>2 DEF Waiting
<1>4. TypeOK
  <2>1. CallsTypeOK /\ Len(stdin) = 0
    BY <1>1 DEF Init, SdkInv, CallsTypeOK
  <2>2. PipeCap \in Nat /\ MaxTasks \in Nat /\ MaxSignals \in Nat
    BY AdapterAssumption
  <2>3. /\ task \in [Tasks -> {"none", "running", "returned", "done"}]
        /\ isTool \in [Tasks -> BOOLEAN]
        /\ replies \in [Tasks -> 0 .. 2]
        /\ owner \in [Ids -> 0 .. MaxTasks]
    BY <2>2 DEF Init
  <2>4. Len(stdin) <= PipeCap
    BY <2>1, <2>2
  <2>5. /\ stop \in BOOLEAN /\ raised \in BOOLEAN /\ acked \in BOOLEAN
        /\ host \in {"up", "closed", "gone"} /\ line \in Frame \cup {NoLine}
        /\ pc \in {"serving", "draining", "onshutdown", "finaldrain", "exited", "killed"}
        /\ oneShot \subseteq OneShots /\ inflight \subseteq Tasks /\ drainSet \subseteq Tasks
    BY DEF Init
  <2>6. invited \in 0 .. MaxTasks /\ signals \in 0 .. MaxSignals /\ nextTask \in 0 .. MaxTasks
    BY <2>2 DEF Init
  <2> QED
    BY <1>2, <2>1, <2>3, <2>4, <2>5, <2>6 DEF TypeOK
<1>5. WorkCount /\ AbandonCount /\ TasksInv /\ SendersInv /\ DrainInv
  BY <1>1, <1>3, CallsAssumption
     DEF Init, CallsInit, WorkCount, AbandonCount, TasksInv, TaskInv, SendersInv, DrainInv, Tasks
<1> QED
  BY <1>1, <1>4, <1>5 DEF AdapterInv, SdkInv

\* The loop, the handlers and the pipe are as the SDK finds them.
LEMMA SdkOnly ==
  ASSUME AdapterInv, SdkInv', unsent' \subseteq unsent,
         UNCHANGED <<unchangedByCalls, owner>>
  PROVE  AdapterInv'
<1> USE DEF unchangedByCalls, hostVars, loopVars, taskVars, envVars
<1>1. TypeOK'
  BY DEF AdapterInv, TypeOK, CallsTypeOK, HostTypeOK, SdkInv
<1>2. (WorkCount /\ AbandonCount)'
  BY DEF AdapterInv, WorkCount, Waiting, AbandonCount
<1>3. (TasksInv /\ DrainInv)'
  BY DEF AdapterInv, TasksInv, TaskInv, DrainInv
<1>4. SendersInv'
  BY DEF AdapterInv, SendersInv
<1> QED
  BY <1>1, <1>2, <1>3, <1>4 DEF AdapterInv, SdkInv

\* The steps of a call, the author's and the SDK's, are steps of PyHostCalls.
CallStep(i) == SendTask(i) \/ CallTimer(i) \/ CallWakes(i)
               \/ Iterates(i) \/ AsksFinal(i) \/ Interrupts(i)

\* A step of one host call, and of the author who waits for it, keeps the
\* invariant.
LEMMA CallStepKeeps ==
  ASSUME AdapterInv, NEW i \in Ids, CallStep(i)
  PROVE  AdapterInv'
<1> USE DEF CallStep, SendTask, CallTimer, CallWakes, Iterates, AsksFinal, Interrupts
<1>1. Sdk(i)
  BY DEF Sdk, Send, Single, Stream
<1>2. SdkInv'
  BY <1>1, SdkStep DEF AdapterInv, SdkInv, TypeOK, CallsTypeOK
<1>3. unsent' \subseteq unsent
  BY DEF SendStream, SendStreamFails, TimerFires, AuthorCancels, Interrupt, CancelFuture,
         Resume, GiveUp, NextChunk, FinalResult, CancelFinal, FinalReturns, DropStream
<1> QED
  BY <1>2, <1>3, SdkOnly

\* A handler calls the host: its send task, if any, is its own.
LEMMA HandlerCallsKeeps ==
  ASSUME AdapterInv, NEW t \in Tasks, HandlerCalls(t)
  PROVE  AdapterInv'
<1> USE DEF HandlerCalls, unchangedByCalls, hostVars, loopVars, taskVars, envVars
<1>1. Sdk(nextId) /\ nextId \in Ids
  BY DEF Sdk, Issue
<1>2. SdkInv'
  BY <1>1, SdkStep DEF AdapterInv, SdkInv, TypeOK, CallsTypeOK
<1>3. owner' \in [Ids -> 0 .. MaxTasks]
  BY AdapterAssumption DEF AdapterInv, TypeOK, Tasks
<1>4. TypeOK'
  BY <1>2, <1>3 DEF AdapterInv, TypeOK, CallsTypeOK, HostTypeOK, SdkInv
<1>5. (WorkCount /\ AbandonCount)'
  BY DEF AdapterInv, WorkCount, Waiting, AbandonCount
<1>6. (TasksInv /\ DrainInv)'
  BY DEF AdapterInv, TasksInv, TaskInv, DrainInv
<1>7. SendersInv'
  BY DEF AdapterInv, SendersInv, TypeOK, Request, RequestFails, OpenStream
<1> QED
  BY <1>2, <1>4, <1>5, <1>6, <1>7 DEF AdapterInv, SdkInv

\* A handler ends: it was in flight, stays in flight and has answered once.
LEMMA HandlerReturnsKeeps ==
  ASSUME AdapterInv, NEW t \in Tasks, HandlerReturns(t)
  PROVE  AdapterInv'
<1> USE DEF HandlerReturns, callVars, sdkVars, hostVars, loopVars, envVars
<1>1. /\ replies[t] = 0 /\ task[t] = "running"
      /\ task' = [task EXCEPT ![t] = "returned"]
      /\ replies' = [replies EXCEPT ![t] = 1] \/ replies' = replies
  <2>1. replies[t] = 0
    BY DEF AdapterInv, TasksInv, TaskInv
  <2>2. replies' = [replies EXCEPT ![t] = replies[t] + 1] \/ replies' = replies
    OBVIOUS
  <2> QED
    BY <2>1, <2>2
<1>2. TypeOK'
  BY <1>1 DEF AdapterInv, TypeOK, CallsTypeOK, SdkTypeOK, HostTypeOK
<1>3. CallsInv'
  BY DEF AdapterInv, CallsInv, CallInv, InWaitFor, InStream
<1>4. (WorkCount /\ AbandonCount /\ DrainInv)'
  BY DEF AdapterInv, WorkCount, Waiting, AbandonCount, DrainInv
<1>5. TasksInv'
  BY <1>1 DEF AdapterInv, TasksInv, TaskInv, TypeOK
<1>6. SendersInv'
  BY <1>1 DEF AdapterInv, SendersInv, TypeOK
<1> QED
  BY <1>2, <1>3, <1>4, <1>5, <1>6 DEF AdapterInv

\* The done callback takes a handler out of flight whose send tasks have run.
LEMMA DiscardKeeps ==
  ASSUME AdapterInv, NEW t \in Tasks, Discard(t)
  PROVE  AdapterInv'
<1> USE DEF Discard, callVars, sdkVars, hostVars, loopVars, envVars
<1>1. TypeOK'
  BY DEF AdapterInv, TypeOK, CallsTypeOK, SdkTypeOK, HostTypeOK
<1>2. CallsInv'
  BY DEF AdapterInv, CallsInv, CallInv, InWaitFor, InStream
<1>3. (WorkCount /\ AbandonCount /\ DrainInv)'
  BY DEF AdapterInv, WorkCount, Waiting, AbandonCount, DrainInv
<1>4. TasksInv'
  BY DEF AdapterInv, TasksInv, TaskInv, TypeOK
<1>5. SendersInv'
  <2> SUFFICES ASSUME NEW i \in unsent
               PROVE  task'[owner[i]] \in {"running", "returned"}
    BY DEF AdapterInv, SendersInv
  <2>1. owner[i] # t
    BY DEF Calls, AdapterInv, TypeOK, CallsTypeOK, SdkTypeOK
  <2> QED
    BY <2>1 DEF AdapterInv, SendersInv, TypeOK
<1> QED
  BY <1>1, <1>2, <1>3, <1>4, <1>5 DEF AdapterInv

----------------------------------------------------------------------------
(* The steps of the loop *)

\* What is waiting is a number, and a line that was handled waits no more.
LEMMA WaitingNat ==
  ASSUME TypeOK
  PROVE  Waiting \in Nat /\ Cardinality(WorkIn(stdin)) \in Nat
BY WorkFinite DEF TypeOK, Waiting

\* The numbers of WorkCount are numbers.
LEMMA Numbers ==
  ASSUME TypeOK
  PROVE  nextTask \in Nat /\ invited \in Nat /\ invited <= MaxTasks /\ MaxTasks \in Nat
BY AdapterAssumption DEF TypeOK

\* Finishing the line in hand starts no handler.
LEMMA LineDone ==
  ASSUME AdapterInv, line' \in {line, NoLine}, UNCHANGED <<stdin, invited, nextTask>>
  PROVE  WorkCount'
<1>1. Waiting \in Nat /\ Cardinality(WorkIn(stdin)) \in Nat
  BY WaitingNat DEF AdapterInv
<1>2. ~IsWork(NoLine)
  BY DEF IsWork, NoLine
<1>3. Waiting' <= Waiting /\ Waiting' \in Nat
  BY <1>1, <1>2 DEF Waiting
<1>4. nextTask \in Nat /\ invited \in Nat
  BY Numbers DEF AdapterInv
<1>5. nextTask + Waiting <= invited
  BY DEF AdapterInv, WorkCount
<1>6. \A m, n, w, v \in Nat : n + w <= m /\ v <= w => n + v <= m
  OBVIOUS
<1>7. nextTask + Waiting' <= invited
  BY <1>1, <1>3, <1>4, <1>5, <1>6
<1> QED
  BY <1>7 DEF WorkCount

\* A line is handled, or skipped, within the loop.
LEMMA GoesOn ==
  ASSUME AdapterInv, SdkInv', line' \in {line, NoLine},
         UNCHANGED <<hostVars, unsent, abandons, stop, pc, raised, acked, drainSet, taskVars,
                     envVars, owner>>
  PROVE  AdapterInv'
<1> USE DEF hostVars, taskVars, envVars
<1>1. TypeOK'
  BY DEF AdapterInv, TypeOK, CallsTypeOK, HostTypeOK, SdkInv
<1>2. WorkCount'
  BY LineDone
<1>3. (AbandonCount /\ TasksInv /\ DrainInv)'
  BY DEF AdapterInv, AbandonCount, TasksInv, TaskInv, DrainInv
<1>4. SendersInv'
  BY DEF AdapterInv, SendersInv
<1> QED
  BY <1>1, <1>2, <1>3, <1>4 DEF AdapterInv, SdkInv

\* The `finally` of run, from the loop or behind an acknowledgement.
LEMMA RunEnds ==
  ASSUME AdapterInv, SdkInv', Drain, pc \in {"serving", "onshutdown"},
         abandons' = abandons + 1, raised' \in BOOLEAN,
         acked' \in BOOLEAN, acked' => acked \/ pc = "onshutdown",
         line' \in {line, NoLine},
         UNCHANGED <<hostVars, unsent, stop, taskVars, envVars, owner>>
  PROVE  AdapterInv'
<1> USE DEF Drain, hostVars, taskVars, envVars
<1>1. abandons' \in 0 .. 2
  BY DEF AdapterInv, AbandonCount, TypeOK, CallsTypeOK
<1>2. TypeOK'
  <2>1. pc' \in {"finaldrain", "exited"} /\ drainSet' \subseteq Tasks
    BY DEF AdapterInv, TypeOK
  <2> QED
    BY <1>1, <2>1 DEF AdapterInv, TypeOK, CallsTypeOK, HostTypeOK, SdkInv
<1>3. WorkCount'
  BY LineDone
<1>4. (AbandonCount /\ TasksInv)'
  BY DEF AdapterInv, AbandonCount, TasksInv, TaskInv
<1>5. DrainInv'
  BY DEF AdapterInv, DrainInv
<1>6. SendersInv'
  BY DEF AdapterInv, SendersInv
<1> QED
  BY <1>2, <1>3, <1>4, <1>5, <1>6 DEF AdapterInv, SdkInv

\* readline completes: the frame moves from the pipe to the loop.
LEMMA ReadLineKeeps ==
  ASSUME AdapterInv, ReadLine
  PROVE  AdapterInv'
<1> USE DEF ReadLine, callVars, sdkVars, hostVars, taskVars
<1>1. /\ stdin \in Seq(Frame) /\ stdin # <<>>
      /\ Head(stdin) \in Frame /\ Tail(stdin) \in Seq(Frame)
      /\ Len(Tail(stdin)) <= PipeCap
  BY HeadTailProperties, AdapterAssumption DEF AdapterInv, TypeOK
<1>2. TypeOK'
  BY <1>1 DEF AdapterInv, TypeOK, CallsTypeOK, SdkTypeOK, HostTypeOK
<1>3. CallsInv'
  BY DEF AdapterInv, CallsInv, CallInv, InWaitFor, InStream
<1>4. WorkCount'
  <2> DEFINE first == IF IsWork(Head(stdin)) THEN 1 ELSE 0
  <2>1. /\ Cardinality(WorkIn(stdin)) \in Nat
        /\ Cardinality(WorkIn(Tail(stdin))) \in Nat
        /\ Cardinality(WorkIn(Tail(stdin))) + first <= Cardinality(WorkIn(stdin))
    BY <1>1, WorkFinite, WorkTail
  <2>2. ~IsWork(line)
    BY DEF IsWork, NoLine
  <2>3. Waiting = Cardinality(WorkIn(stdin)) + 0
    BY <2>2 DEF Waiting
  <2>4. Waiting' = Cardinality(WorkIn(Tail(stdin))) + first
    BY DEF Waiting
  <2>5. first \in Nat
    OBVIOUS
  <2> QED
    BY <2>1, <2>3, <2>4, <2>5 DEF AdapterInv, TypeOK, WorkCount
<1>5. (AbandonCount /\ TasksInv /\ DrainInv /\ SendersInv)'
  BY DEF AdapterInv, AbandonCount, TasksInv, TaskInv, DrainInv, SendersInv
<1> QED
  BY <1>2, <1>3, <1>4, <1>5 DEF AdapterInv

\* A handler is started: it was asked for, so it is one of Tasks.
LEMMA HandleWorkKeeps ==
  ASSUME AdapterInv, HandleWork
  PROVE  AdapterInv' /\ nextTask' \in Tasks /\ nextTask' \notin inflight
<1> USE DEF HandleWork, Handling, callVars, sdkVars, hostVars, envVars
<1>1. IsWork(line) /\ line' = NoLine /\ nextTask' = nextTask + 1
  <2>1. line.type = "tool" \/ line.type = "event"
    OBVIOUS
  <2> QED
    BY <2>1 DEF IsWork
<1>2. Waiting \in Nat /\ Waiting' \in Nat /\ Waiting = Waiting' + 1
  <2>1. Cardinality(WorkIn(stdin)) \in Nat /\ stdin' = stdin
    BY WaitingNat DEF AdapterInv
  <2>2. ~IsWork(line')
    BY <1>1 DEF IsWork, NoLine
  <2>3. Waiting = Cardinality(WorkIn(stdin)) + 1
    BY <1>1 DEF Waiting
  <2>4. Waiting' = Cardinality(WorkIn(stdin)) + 0
    BY <2>1, <2>2 DEF Waiting
  <2> QED
    BY <2>1, <2>3, <2>4
<1>3. nextTask \in Nat /\ invited \in Nat /\ invited <= MaxTasks /\ MaxTasks \in Nat
  BY Numbers DEF AdapterInv
<1>4. nextTask + Waiting <= invited /\ invited' = invited
  BY DEF AdapterInv, WorkCount
<1>5. /\ (nextTask + 1) + Waiting' <= invited
      /\ nextTask + 1 \in 1 .. MaxTasks
  <2>1. \A m, n, w, v, b \in Nat :
          n + w <= m /\ w = v + 1 /\ m <= b => (n + 1) + v <= m /\ n + 1 \in 1 .. b
    OBVIOUS
  <2> QED
    BY <1>2, <1>3, <1>4, <2>1
<1>6. WorkCount'
  BY <1>1, <1>4, <1>5 DEF WorkCount
<1>7. nextTask' \in Tasks
  BY <1>1, <1>5 DEF Tasks
<1>8. task[nextTask'] = "none" /\ nextTask' \notin inflight
  BY <1>1, <1>7 DEF AdapterInv, TypeOK, TasksInv, TaskInv
<1>9. TypeOK'
  BY <1>1, <1>7 DEF AdapterInv, TypeOK, CallsTypeOK, SdkTypeOK, HostTypeOK, Tasks
<1>10. CallsInv'
  BY DEF AdapterInv, CallsInv, CallInv, InWaitFor, InStream
<1>11. TasksInv'
  <2> SUFFICES ASSUME NEW t \in Tasks PROVE TaskInv(t)'
    BY DEF TasksInv
  <2>1. TaskInv(t) /\ t \in Nat /\ nextTask \in Nat
    BY DEF AdapterInv, TasksInv, Tasks, TypeOK
  <2>2. CASE t = nextTask'
    BY <1>1, <1>7, <1>8, <2>1, <2>2 DEF TaskInv, AdapterInv, TypeOK
  <2>3. CASE t # nextTask'
    BY <1>1, <1>7, <2>1, <2>3 DEF TaskInv, AdapterInv, TypeOK
  <2> QED
    BY <2>2, <2>3
<1>12. (AbandonCount /\ DrainInv)'
  BY DEF AdapterInv, AbandonCount, DrainInv
<1>13. SendersInv'
  BY <1>7, <1>8 DEF AdapterInv, SendersInv, TypeOK
<1> QED
  BY <1>6, <1>7, <1>8, <1>9, <1>10, <1>11, <1>12, <1>13 DEF AdapterInv

\* A reply in the loop's hands is one the host may send, to an id it may use.
LEMMA LineReply ==
  ASSUME TypeOK, line.type = "reply"
  PROVE  line.id \in Ids /\ line.r \in ReplyKinds
BY DEF TypeOK, Frame, NoLine

\* A delta names a call and a chunk.
LEMMA LineDelta ==
  ASSUME TypeOK, line.type = "delta"
  PROVE  line.id \in Ids /\ line.n \in 1 .. MaxChunks
BY DEF TypeOK, Frame, NoLine

\* The steps that end run: a stop, the end of stdin, a fatal line, a request
\* that cannot be answered, the acknowledgement.
LEMMA FinallyKeeps ==
  ASSUME AdapterInv,
         WakeStopped \/ WakeEof \/ HandleFatal \/ (HandleRequest /\ host = "gone")
           \/ ReplyShutdown
  PROVE  AdapterInv'
<1>1. AbandonPending /\ Drain /\ abandons' = abandons + 1 /\ unsent' = unsent
  BY DEF WakeStopped, WakeEof, HandleFatal, HandleRequest, ReplyShutdown, Finally,
         AbandonPending, AbandonEntries
<1>2. SdkInv'
  BY <1>1, AbandonKeeps DEF AdapterInv, SdkInv, TypeOK, CallsTypeOK
<1>6. /\ pc \in {"serving", "onshutdown"}
      /\ raised' \in BOOLEAN /\ acked' \in BOOLEAN
      /\ acked' => acked \/ pc = "onshutdown"
      /\ line' \in {line, NoLine}
      /\ UNCHANGED <<hostVars, stop, taskVars, envVars, owner>>
  <2> USE DEF WakeStopped, WakeEof, HandleFatal, HandleRequest, ReplyShutdown, Finally, Handling
  <2>1. raised' \in BOOLEAN
    OBVIOUS
  <2>2. acked' \in BOOLEAN
    BY DEF AdapterInv, TypeOK
  <2>3. /\ pc \in {"serving", "onshutdown"}
        /\ acked' => acked \/ pc = "onshutdown"
        /\ line' \in {line, NoLine}
        /\ UNCHANGED <<hostVars, stop, taskVars, envVars, owner>>
    OBVIOUS
  <2> QED
    BY <2>1, <2>2, <2>3
<1> QED
  BY <1>1, <1>2, <1>6, RunEnds

\* A line that the loop handles and forgets.
LEMMA LineKeeps ==
  ASSUME AdapterInv, HandleNoise \/ (HandleRequest /\ host # "gone")
  PROVE  AdapterInv'
<1> USE DEF HandleNoise, HandleRequest, Handling, callVars, sdkVars
<1>1. SdkTypeOK'
  BY DEF AdapterInv, TypeOK, CallsTypeOK, SdkTypeOK
<1>2. CallsInv'
  BY DEF AdapterInv, CallsInv, CallInv, InWaitFor, InStream
<1> QED
  BY <1>1, <1>2, GoesOn DEF SdkInv

\* The host's frames are routed; an unreadable reply ends run.
LEMMA RouteKeeps ==
  ASSUME AdapterInv, HandleReply \/ HandleDelta
  PROVE  AdapterInv'
<1>0. SdkInv /\ TypeOK
  BY DEF AdapterInv, SdkInv, TypeOK, CallsTypeOK
<1>1. CASE HandleDelta
  <2>1. line.id \in Ids /\ line.n \in 1 .. MaxChunks
    BY <1>1, <1>0, LineDelta DEF HandleDelta, Handling
  <2>2. SdkInv'
    BY <1>1, <1>0, <2>1, RouteDeltaKeeps DEF HandleDelta
  <2> QED
    BY <1>1, <2>2, GoesOn DEF HandleDelta, Handling, RouteDelta
<1>2. CASE HandleReply
  <2> USE <1>2 DEF HandleReply, Handling
  <2>1. line.id \in Ids /\ line.r \in ReplyKinds
    BY <1>0, LineReply
  <2>2. line.r \in {"result", "malformed", "error", "unreadable"}
    BY <2>1, CallsAssumption DEF ReplyKindsAssumption
  <2>3. CASE line.r = "unreadable" /\ line.id \in pending /\ fut[line.id] = "unset"
    <3>1. SdkInv' /\ abandons' = abandons + 1 /\ unsent' = unsent
      BY <1>0, <2>1, <2>3, RouteUnreadableKeeps DEF RouteUnreadable
    <3>2. Drain /\ raised' \in BOOLEAN /\ acked' = acked /\ pc = "serving"
      BY <2>3
    <3>3. acked' \in BOOLEAN
      BY <1>0, <3>2 DEF TypeOK
    <3> QED
      BY <3>1, <3>2, <3>3, RunEnds
  <2>4. CASE line.r = "unreadable" /\ line.id \in pending /\ fut[line.id] # "unset"
    <3>1. SdkInv' /\ abandons' = abandons /\ unsent' = unsent
      BY <1>0, <2>1, <2>4, RouteUnreadableKeeps DEF RouteUnreadable, RouteResponse
    <3> QED
      BY <2>4, <3>1, GoesOn
  <2>5. CASE ~(line.r = "unreadable" /\ line.id \in pending)
    <3>1. SdkInv' /\ unsent' = unsent
      BY <1>0, <2>1, <2>2, <2>5, RouteResponseKeeps DEF RouteResponse
    <3> QED
      BY <2>5, <3>1, GoesOn
  <2> QED
    BY <2>3, <2>4, <2>5
<1> QED
  BY <1>1, <1>2

\* The shutdown: the registry is abandoned, and what is in flight is waited for.
LEMMA HandleShutdownKeeps ==
  ASSUME AdapterInv, HandleShutdown
  PROVE  AdapterInv'
<1> USE DEF HandleShutdown, Handling, hostVars, taskVars, envVars
<1>1. unsent' = unsent /\ abandons' = abandons + 1
  BY DEF AbandonPending, AbandonEntries
<1>2. abandons' = 1
  BY <1>1 DEF AdapterInv, AbandonCount
<1>6. SdkInv'
  BY AbandonKeeps DEF AdapterInv, SdkInv, TypeOK, CallsTypeOK
<1>7. TypeOK'
  BY <1>2, <1>6 DEF AdapterInv, TypeOK, CallsTypeOK, HostTypeOK, SdkInv
<1>8. WorkCount'
  BY LineDone
<1>9. (AbandonCount /\ TasksInv /\ DrainInv)'
  BY <1>2 DEF AdapterInv, AbandonCount, TasksInv, TaskInv, DrainInv
<1>10. SendersInv'
  BY <1>1 DEF AdapterInv, SendersInv
<1> QED
  BY <1>6, <1>7, <1>8, <1>9, <1>10 DEF AdapterInv, SdkInv

\* A drain ends when nothing is in flight; a late signal kills the process.
LEMMA PlaceKeeps ==
  ASSUME AdapterInv, DrainDone \/ FinalDrainDone \/ Sigterm
  PROVE  AdapterInv'
<1> USE DEF DrainDone, FinalDrainDone, Sigterm, callVars, sdkVars, hostVars, taskVars, envVars
<1>1. TypeOK'
  <2>1. signals' \in 0 .. MaxSignals
    BY AdapterAssumption DEF AdapterInv, TypeOK
  <2> QED
    BY <2>1 DEF AdapterInv, TypeOK, CallsTypeOK, SdkTypeOK, HostTypeOK
<1>2. CallsInv'
  BY DEF AdapterInv, CallsInv, CallInv, InWaitFor, InStream
<1>6. WorkCount'
  BY LineDone
<1>7. (AbandonCount /\ TasksInv /\ DrainInv)'
  BY DEF AdapterInv, AbandonCount, TasksInv, TaskInv, DrainInv
<1>8. SendersInv'
  BY DEF AdapterInv, SendersInv
<1> QED
  BY <1>1, <1>2, <1>6, <1>7, <1>8 DEF AdapterInv

----------------------------------------------------------------------------
(* The steps of the host *)

\* A frame is put into the pipe: its work, if any, is one more invitation.
LEMMA SendKeeps ==
  ASSUME AdapterInv, NEW f \in Frame, Send1(f), HostTypeOK',
         \/ ~IsWork(f) /\ invited' = invited
         \/ invited' = invited + 1 /\ invited < MaxTasks,
         oneShot' \subseteq OneShots,
         UNCHANGED <<host, unchangedByHost>>
  PROVE  AdapterInv'
<1> USE DEF Send1, unchangedByHost, sdkVars, loopVars, taskVars
<1>1. /\ stdin \in Seq(Frame)
      /\ Append(stdin, f) \in Seq(Frame) /\ Len(Append(stdin, f)) <= PipeCap
  BY AppendProperties, AdapterAssumption DEF AdapterInv, TypeOK
<1>2. invited \in Nat /\ invited <= MaxTasks /\ nextTask \in Nat /\ MaxTasks \in Nat
  BY Numbers DEF AdapterInv
<1>3. invited' \in 0 .. MaxTasks
  BY <1>2
<1>4. TypeOK'
  BY <1>1, <1>3 DEF AdapterInv, TypeOK, CallsTypeOK, SdkTypeOK
<1>5. CallsInv'
  BY DEF AdapterInv, CallsInv, CallInv, InWaitFor, InStream
<1>6. WorkCount'
  <2> DEFINE more == IF IsWork(f) THEN 1 ELSE 0
             held == IF IsWork(line) THEN 1 ELSE 0
  <2>1. /\ Cardinality(WorkIn(stdin)) \in Nat
        /\ Cardinality(WorkIn(Append(stdin, f))) \in Nat
        /\ Cardinality(WorkIn(Append(stdin, f))) <= Cardinality(WorkIn(stdin)) + more
    BY <1>1, WorkFinite, WorkAppend
  <2>2. nextTask + (Cardinality(WorkIn(stdin)) + held) <= invited
    BY DEF AdapterInv, WorkCount, Waiting
  <2>3. more \in Nat /\ held \in Nat /\ invited + more <= invited'
    BY <1>2
  <2>4. \A n, c, d, m, h, v, w \in Nat :
          n + (c + h) <= v /\ d <= c + m /\ v + m <= w => n + (d + h) <= w
    OBVIOUS
  <2>5. invited' \in Nat
    BY <1>2
  <2> HIDE DEF more, held
  <2>6. nextTask + (Cardinality(WorkIn(Append(stdin, f))) + held) <= invited'
    BY <1>2, <2>1, <2>2, <2>3, <2>4, <2>5
  <2> QED
    BY <2>6 DEF WorkCount, Waiting, held
<1>7. (AbandonCount /\ TasksInv /\ DrainInv /\ SendersInv)'
  BY DEF AdapterInv, AbandonCount, TasksInv, TaskInv, DrainInv, SendersInv
<1> QED
  BY <1>4, <1>5, <1>6, <1>7 DEF AdapterInv

\* The host closes our stdin, or dies: nothing of ours changes.
LEMMA HostClosesKeeps ==
  ASSUME AdapterInv, HostCloses
  PROVE  AdapterInv'
<1> USE DEF HostCloses, unchangedByHost, sdkVars, hostVars, loopVars, taskVars
<1>1. TypeOK'
  BY DEF AdapterInv, TypeOK, CallsTypeOK, SdkTypeOK, HostTypeOK
<1>2. CallsInv'
  BY DEF AdapterInv, CallsInv, CallInv, InWaitFor, InStream
<1>3. WorkCount'
  BY LineDone
<1>4. (AbandonCount /\ TasksInv /\ DrainInv /\ SendersInv)'
  BY DEF AdapterInv, AbandonCount, TasksInv, TaskInv, DrainInv, SendersInv
<1> QED
  BY <1>1, <1>2, <1>3, <1>4 DEF AdapterInv

\* What the host and the system do keeps the invariant.
LEMMA EnvironmentKeeps ==
  ASSUME AdapterInv, Environment
  PROVE  AdapterInv'
<1>0. /\ HostTypeOK /\ sent \subseteq Ids /\ oneShot \subseteq OneShots
      /\ MaxAnswers \in Nat /\ MaxChunks \in Nat
  BY CallsAssumption DEF AdapterInv, TypeOK, CallsTypeOK, SdkTypeOK
<1>1. CASE HostInvites
  <2>1. PICK k \in {"event", "tool"} : Send1([type |-> k])
    BY <1>1 DEF HostInvites
  <2>2. [type |-> k] \in Frame
    BY DEF Frame
  <2>3. HostTypeOK' /\ oneShot' \subseteq OneShots
    BY <1>0, <1>1 DEF HostInvites, HostTypeOK, hostVars
  <2> QED
    BY <1>1, <2>1, <2>2, <2>3, SendKeeps DEF HostInvites
<1>2. CASE HostOneShot
  <2>1. PICK k \in OneShots \ oneShot : /\ oneShot' = oneShot \cup {k}
                                        /\ Send1([type |-> k])
                                        /\ UNCHANGED <<hostVars, host, invited, unchangedByHost>>
    BY <1>2 DEF HostOneShot
  <2>2. k \in {"request", "noise", "fatal", "shutdown"}
    BY AdapterAssumption DEF OneShotsAssumption
  <2>3. [type |-> k] \in Frame /\ ~IsWork([type |-> k])
    BY <2>2 DEF Frame, IsWork
  <2>4. HostTypeOK' /\ oneShot' \subseteq OneShots
    BY <1>0, <2>1 DEF HostTypeOK, hostVars
  <2> QED
    BY <2>1, <2>3, <2>4, SendKeeps
<1>3. CASE HostAnswers
  <2>1. PICK i \in sent, r \in ReplyKinds :
          /\ answers[i] < MaxAnswers
          /\ answers' = [answers EXCEPT ![i] = @ + 1]
          /\ Send1([type |-> "reply", id |-> i, r |-> r])
          /\ UNCHANGED <<deltas, host, invited, oneShot, unchangedByHost>>
    BY <1>3 DEF HostAnswers
  <2>2. /\ [type |-> "reply", id |-> i, r |-> r] \in Frame
        /\ ~IsWork([type |-> "reply", id |-> i, r |-> r])
    BY <1>0 DEF Frame, IsWork
  <2>3. HostTypeOK'
    BY <1>0, <2>1 DEF HostTypeOK
  <2> QED
    BY <1>0, <2>1, <2>2, <2>3, SendKeeps
<1>4. CASE HostSendsDelta
  <2>1. PICK i \in sent :
          /\ deltas[i] < MaxChunks
          /\ deltas' = [deltas EXCEPT ![i] = @ + 1]
          /\ Send1([type |-> "delta", id |-> i, n |-> deltas'[i]])
          /\ UNCHANGED <<answers, host, invited, oneShot, unchangedByHost>>
    BY <1>4 DEF HostSendsDelta
  <2>2. deltas'[i] \in 1 .. MaxChunks
    BY <1>0, <2>1 DEF HostTypeOK
  <2>3. /\ [type |-> "delta", id |-> i, n |-> deltas'[i]] \in Frame
        /\ ~IsWork([type |-> "delta", id |-> i, n |-> deltas'[i]])
    BY <1>0, <2>2 DEF Frame, IsWork
  <2>4. HostTypeOK'
    BY <1>0, <2>1 DEF HostTypeOK
  <2> QED
    BY <1>0, <2>1, <2>3, <2>4, SendKeeps
<1> QED
  BY <1>1, <1>2, <1>3, <1>4, HostClosesKeeps, PlaceKeeps DEF Environment

----------------------------------------------------------------------------
(* The invariant holds *)

\* A step that changes nothing keeps the invariant.
LEMMA StutterKeeps ==
  ASSUME AdapterInv, UNCHANGED vars
  PROVE  AdapterInv'
<1> USE DEF vars, callVars, sdkVars, hostVars, loopVars, taskVars, envVars
<1>1. SdkInv'
  BY DEF AdapterInv, TypeOK, CallsTypeOK, SdkInv, SdkTypeOK, CallsInv, CallInv, InWaitFor, InStream
<1> QED
  BY <1>1, SdkOnly DEF unchangedByCalls

\* A step of the dispatch loop keeps the invariant.
LEMMA LoopKeeps ==
  ASSUME AdapterInv, Loop
  PROVE  AdapterInv'
<1>1. CASE HandleRequest
  BY <1>1, FinallyKeeps, LineKeeps
<1> QED
  BY <1>1, ReadLineKeeps, FinallyKeeps, LineKeeps, RouteKeeps, HandleWorkKeeps,
     HandleShutdownKeeps, PlaceKeeps DEF Loop

\* Every step of a Python adapter keeps the invariant.
LEMMA AdapterStep == AdapterInv /\ [Next]_vars => AdapterInv'
<1> SUFFICES ASSUME AdapterInv, [Next]_vars PROVE AdapterInv'
  OBVIOUS
<1>1. CASE \E t \in Tasks : HandlerCalls(t) \/ HandlerReturns(t) \/ Discard(t)
  BY <1>1, HandlerCallsKeeps, HandlerReturnsKeeps, DiscardKeeps
<1>2. CASE \E i \in Ids : CallStep(i)
  BY <1>2, CallStepKeeps
<1> QED
  BY <1>1, <1>2, LoopKeeps, EnvironmentKeeps, StutterKeeps DEF Next, CallStep

\* The inductive invariant of the Python adapter: its calls, the handlers it has
\* started, what its drains wait for and what it has acknowledged agree.
THEOREM AdapterInductive == Spec => []AdapterInv
BY InitAdapter, AdapterStep, PTL DEF Spec

\* The state of a Python adapter, its calls and its host has the shape the code
\* gives it: no more handlers are started than were asked for, none answers
\* twice, and the registry is abandoned at most twice.
THEOREM AdapterTypes == Spec => []TypeOK
<1>1. AdapterInv => TypeOK
  BY DEF AdapterInv
<1> QED
  BY <1>1, AdapterInductive, PTL

----------------------------------------------------------------------------
(* The acknowledgement is the last frame *)

\* Once the shutdown is acknowledged nothing is in flight and run has returned:
\* no reply and no request of a handler or a send task is written any more.
THEOREM AckEndsOutput == Spec => AckIsLast
<1>1. AdapterInv /\ [Next]_vars
        => [acked => sent' = sent /\ replies' = replies]_vars
  <2> SUFFICES ASSUME AdapterInv, Next, acked
               PROVE  sent' = sent /\ replies' = replies
    BY DEF vars
  <2>1. ~Alive /\ pc = "exited"
    BY DEF AdapterInv, DrainInv, Alive
  <2>2. ~Loop
    BY <2>1 DEF Loop, ReadLine, WakeStopped, WakeEof, HandleWork, HandleRequest, HandleNoise,
                HandleFatal, HandleReply, HandleDelta, HandleShutdown, Handling, DrainDone,
                ReplyShutdown, FinalDrainDone
  <2>3. Environment
    BY <2>1, <2>2 DEF Next, HandlerCalls, HandlerReturns, Discard, SendTask, CallTimer,
                      CallWakes, Iterates, AsksFinal, Interrupts
  <2> QED
    BY <2>3 DEF Environment, HostInvites, HostOneShot, HostAnswers, HostSendsDelta, HostCloses,
                Sigterm, unchangedByHost, callVars, sdkVars, taskVars
<1> QED
  BY <1>1, AdapterInductive, PTL DEF Spec, AckIsLast

----------------------------------------------------------------------------
(* The acknowledgement comes after every reply *)

\* Error data can be serialized, and nobody cancels an await of final_result.
Tame == "badDetails" \notin AuthorFaults /\ "cancelFinal" \notin AuthorFaults

\* No stream's final reply is cancelled, and no call ends so.
Uncancelled == \A i \in Ids : /\ outcome[i] # "cancelled"
                              /\ kind[i] = "stream" => fut[i] # "cancelled"

\* As long as the pipe is whole, a tool whose handler ended was answered.
Answered == acked \/ host # "gone"
              => \A t \in Tasks : isTool[t] /\ task[t] \in {"returned", "done"}
                                    => replies[t] = 1

\* Only cancelling an await of final_result cancels the future of a stream.
LEMMA UncancelledStep ==
  ASSUME Tame, AdapterInv, Uncancelled, [Next]_vars
  PROVE  Uncancelled'
<1> USE DEF Uncancelled
<1>0. SdkTypeOK /\ CallsInv /\ TypeOK
  BY DEF AdapterInv, TypeOK, CallsTypeOK
<1>1. ASSUME NEW t \in Tasks, HandlerCalls(t)
      PROVE  Uncancelled'
  <2>1. nextId \in Ids /\ CallInv(nextId)
    BY <1>0, <1>1 DEF HandlerCalls, CallsInv
  <2> QED
    BY <1>0, <1>1, <2>1, CallsAssumption
       DEF HandlerCalls, Request, RequestFails, OpenStream, SdkTypeOK
<1>2. ASSUME NEW i \in Ids, CallStep(i)
      PROVE  Uncancelled'
  <2> USE DEF CallStep, SendTask, CallTimer, CallWakes, Iterates, AsksFinal, Interrupts, Alive
  <2> SUFFICES ASSUME NEW j \in Ids
               PROVE  outcome'[j] # "cancelled" /\ (kind'[j] = "stream" => fut'[j] # "cancelled")
    OBVIOUS
  <2>1. CallInv(i) /\ CallInv(j)
    BY <1>0 DEF CallsInv
  <2>2. CASE SendTask(i)
    BY <1>0, <2>2 DEF SendStream, SendStreamFails, SdkTypeOK
  <2>3. CASE TimerFires(i) \/ AuthorCancels(i) \/ CancelFuture(i)
    BY <1>0, <2>1, <2>3
       DEF TimerFires, AuthorCancels, Interrupt, CancelFuture, CallInv, InWaitFor,
           SingleKinds, SdkTypeOK
  <2>4. CASE Resume(i)
    BY <1>0, <2>4 DEF Resume, Reports, Finish, SdkTypeOK
  <2>5. CASE GiveUp(i)
    BY <1>0, <2>5 DEF GiveUp, Finish, SdkTypeOK
  <2>6. CASE NextChunk(i) \/ FinalResult(i) \/ DropStream(i)
    BY <1>0, <2>6 DEF NextChunk, FinalResult, DropStream, Finish, SdkTypeOK
  <2>7. CASE FinalReturns(i)
    BY <1>0, <2>1, <2>7 DEF FinalReturns, Finish, CallInv, InStream, SdkTypeOK
  <2> QED
    BY <1>2, <2>2, <2>3, <2>4, <2>5, <2>6, <2>7 DEF Tame
<1>3. CASE HandleReply
  <2> USE <1>3 DEF HandleReply, Handling
  <2>1. line.id \in Ids /\ line.r \in {"result", "malformed", "error", "unreadable"}
    BY <1>0, LineReply, CallsAssumption DEF ReplyKindsAssumption
  <2>2. CASE line.r = "unreadable" /\ line.id \in pending
    BY <1>0, <2>1, <2>2 DEF RouteUnreadable, RouteResponse, Verdict, SdkTypeOK
  <2>3. CASE ~(line.r = "unreadable" /\ line.id \in pending)
    <3>1. Verdict(line.id, line.r) # "cancelled"
      BY <2>1 DEF Verdict
    <3> QED
      BY <1>0, <2>1, <2>3, <3>1 DEF RouteResponse, SdkTypeOK
  <2> QED
    BY <2>2, <2>3
<1>4. CASE HandleDelta
  BY <1>4 DEF HandleDelta, RouteDelta
<1>5. CASE AbandonPending
  BY <1>5 DEF AbandonPending, AbandonEntries
<1>6. CASE UNCHANGED sdkVars
  BY <1>6 DEF sdkVars
<1>7. CASE Loop
  BY <1>3, <1>4, <1>5, <1>6, <1>7
     DEF Loop, ReadLine, WakeStopped, WakeEof, HandleWork, HandleRequest, HandleNoise,
         HandleFatal, HandleShutdown, DrainDone, ReplyShutdown, FinalDrainDone, Finally, callVars
<1>8. CASE Environment
  BY <1>6, <1>8 DEF Environment, HostInvites, HostOneShot, HostAnswers, HostSendsDelta,
                    HostCloses, Sigterm, unchangedByHost, callVars
<1>9. ASSUME NEW t \in Tasks, HandlerReturns(t) \/ Discard(t)
      PROVE  Uncancelled'
  BY <1>6, <1>9 DEF HandlerReturns, Discard, callVars
<1> QED
  BY <1>1, <1>2, <1>6, <1>7, <1>8, <1>9 DEF Next, CallStep, vars, callVars

\* A handler that ends answers its tool, unless the pipe is broken; and what
\* was answered stays answered.
LEMMA AnsweredStep ==
  ASSUME Tame, AdapterInv, Uncancelled, Answered, [Next]_vars
  PROVE  Answered'
<1> USE DEF Answered
<1>1. ASSUME NEW t \in Tasks, HandlerReturns(t)
      PROVE  Answered'
  <2>1. replies[t] = 0 /\ t \in inflight
    BY <1>1 DEF HandlerReturns, AdapterInv, TasksInv, TaskInv
  <2>2. ~acked
    BY <2>1 DEF AdapterInv, DrainInv
  <2>3. \A how \in Endings(t) : how \notin {"badDetails", "cancelled"}
    BY DEF Endings, Tame, Uncancelled, Calls
  <2>4. isTool[t] /\ host # "gone" => replies' = [replies EXCEPT ![t] = replies[t] + 1]
    BY <1>1, <2>3 DEF HandlerReturns
  <2>5. ~(isTool[t] /\ host # "gone") => replies' = replies
    BY <1>1 DEF HandlerReturns
  <2>6. isTool[t] /\ host # "gone" => replies' = [replies EXCEPT ![t] = 1]
    BY <2>1, <2>4
  <2> QED
    BY <1>1, <2>2, <2>5, <2>6
       DEF HandlerReturns, loopVars, envVars, AdapterInv, TypeOK
<1>2. ASSUME NEW t \in Tasks, Discard(t)
      PROVE  Answered'
  BY <1>2 DEF Discard, loopVars, envVars, AdapterInv, TypeOK
<1>3. CASE HandleWork
  <2>1. nextTask' \in Tasks /\ nextTask' \notin inflight
    BY <1>3, HandleWorkKeeps
  <2> QED
    BY <1>3, <2>1 DEF HandleWork, envVars, AdapterInv, TypeOK
<1>4. CASE UNCHANGED <<task, isTool, replies>> /\ (acked' \/ host' # "gone" => acked \/ host # "gone")
  BY <1>4
<1>5. CASE Loop
  BY <1>3, <1>4, <1>5
     DEF Loop, ReadLine, WakeStopped, WakeEof, HandleRequest, HandleNoise, HandleReply,
         HandleDelta, HandleFatal, HandleShutdown, DrainDone, ReplyShutdown, FinalDrainDone,
         taskVars, envVars
<1>6. CASE Environment
  BY <1>4, <1>6 DEF Environment, HostInvites, HostOneShot, HostAnswers, HostSendsDelta,
                    HostCloses, Sigterm, unchangedByHost, loopVars, taskVars
<1>7. ASSUME NEW t \in Tasks, HandlerCalls(t)
      PROVE  Answered'
  BY <1>4, <1>7 DEF HandlerCalls, unchangedByCalls, loopVars, taskVars, envVars
<1>8. ASSUME NEW i \in Ids, CallStep(i)
      PROVE  Answered'
  BY <1>4, <1>8 DEF CallStep, SendTask, CallTimer, CallWakes, Iterates, AsksFinal, Interrupts,
                    unchangedByCalls, loopVars, taskVars, envVars
<1>9. CASE UNCHANGED vars
  BY <1>4, <1>9 DEF vars, loopVars, taskVars, envVars
<1> QED
  BY <1>1, <1>2, <1>5, <1>6, <1>7, <1>8, <1>9 DEF Next, CallStep

\* The shutdown is acknowledged only when every tool.invoke that was read was
\* answered, once, as long as error data can be serialized and nobody cancels
\* an await of final_result.
THEOREM AcksAfterReplies == ASSUME Tame PROVE Spec => []AckAfterReplies
<1>1. Init => Uncancelled /\ Answered
  BY DEF Init, CallsInit, Uncancelled, Answered
<1>2. AdapterInv /\ Uncancelled /\ Answered /\ [Next]_vars => (Uncancelled /\ Answered)'
  BY UncancelledStep, AnsweredStep
<1>3. AdapterInv /\ Answered => AckAfterReplies
  BY DEF AdapterInv, DrainInv, TasksInv, TaskInv, TypeOK, Answered, AckAfterReplies
<1> QED
  BY <1>1, <1>2, <1>3, AdapterInductive, PTL DEF Spec

----------------------------------------------------------------------------
(* The adapter stops the way GracefulStop says *)

\* A step that takes no work in and completes none.
LEMMA PhaseSteps ==
  ASSUME AdapterInv, inflight' = inflight,
         \/ pc' = pc /\ acked' = acked
         \/ pc = "serving" /\ pc' \in {"draining", "finaldrain"} /\ ~acked'
         \/ pc = "draining" /\ pc' = "onshutdown" /\ ~acked'
         \/ pc \in {"serving", "onshutdown", "finaldrain"} /\ pc' = "exited" /\ inflight = {}
  PROVE  [Graceful!StopNext]_(Graceful!stopVars)
<1>1. acked => pc = "exited"
  BY DEF AdapterInv, DrainInv
<1> USE DEF Graceful!StopNext, Graceful!stopVars, Graceful!BeginStop, Graceful!Exit
<1>2. CASE pc' = pc /\ acked' = acked
  BY <1>2
<1>3. CASE pc = "serving" /\ pc' \in {"draining", "finaldrain"} /\ ~acked'
  BY <1>3
<1>4. CASE pc = "draining" /\ pc' = "onshutdown" /\ ~acked'
  BY <1>4
<1>5. CASE pc \in {"serving", "onshutdown", "finaldrain"} /\ pc' = "exited" /\ inflight = {}
  BY <1>1, <1>5
<1> QED
  BY <1>2, <1>3, <1>4, <1>5

\* Every step of the adapter is a step of GracefulStop, or none.
LEMMA GracefulStep ==
  ASSUME ~LateSignals, AdapterInv, [Next]_vars
  PROVE  [Graceful!StopNext]_(Graceful!stopVars)
<1>0. /\ acked => pc = "exited"
      /\ pc \in {"onshutdown", "exited"} => inflight = {}
      /\ pc \in {"draining", "finaldrain"} => inflight \subseteq drainSet
      /\ acked \in BOOLEAN
  BY DEF AdapterInv, DrainInv, TypeOK
<1>1. CASE HandleWork
  <2>1. nextTask' \in Tasks /\ nextTask' \notin inflight
    BY <1>1, HandleWorkKeeps
  <2>2. Graceful!Take(nextTask')
    BY <1>1, <2>1 DEF HandleWork, Handling, Graceful!Take
  <2> QED
    BY <2>1, <2>2 DEF Graceful!StopNext
<1>2. ASSUME NEW t \in Tasks, Discard(t)
      PROVE  Graceful!StopNext
  <2>1. t \in inflight
    BY <1>2 DEF Discard, AdapterInv, TasksInv, TaskInv
  <2>2. Graceful!Complete(t)
    BY <1>2, <2>1 DEF Discard, loopVars, Graceful!Complete
  <2> QED
    BY <2>2 DEF Graceful!StopNext
<1>3. CASE WakeStopped \/ WakeEof \/ HandleFatal \/ HandleRequest \/ ReplyShutdown
             \/ HandleReply \/ HandleDelta \/ HandleNoise \/ ReadLine \/ HandleShutdown
             \/ DrainDone \/ FinalDrainDone
  BY <1>0, <1>3, PhaseSteps
     DEF WakeStopped, WakeEof, HandleFatal, HandleRequest, ReplyShutdown, HandleReply,
         HandleDelta, HandleNoise, ReadLine, HandleShutdown, DrainDone, FinalDrainDone,
         Handling, Finally, Drain, taskVars
<1>4. CASE Environment
  BY <1>4, PhaseSteps DEF Environment, HostInvites, HostOneShot, HostAnswers, HostSendsDelta,
                          HostCloses, Sigterm, unchangedByHost, loopVars, taskVars
<1>5. ASSUME NEW t \in Tasks, HandlerCalls(t) \/ HandlerReturns(t)
      PROVE  [Graceful!StopNext]_(Graceful!stopVars)
  BY <1>5, PhaseSteps DEF HandlerCalls, HandlerReturns, unchangedByCalls, loopVars, taskVars
<1>6. ASSUME NEW i \in Ids, CallStep(i)
      PROVE  [Graceful!StopNext]_(Graceful!stopVars)
  BY <1>6, PhaseSteps DEF CallStep, SendTask, CallTimer, CallWakes, Iterates, AsksFinal,
                          Interrupts, unchangedByCalls, loopVars, taskVars
<1>7. CASE UNCHANGED vars
  BY <1>7, PhaseSteps DEF vars, loopVars, taskVars
<1> QED
  BY <1>1, <1>2, <1>3, <1>4, <1>5, <1>6, <1>7 DEF Next, Loop, CallStep

\* The adapter takes no work once it stops, and it acknowledges or exits only
\* when what it had taken is done, as long as no signal comes behind `finally`.
THEOREM AdapterStopsGracefully == ASSUME ~LateSignals PROVE Spec => StopsGracefully
<1>1. Init => Graceful!StopInit
  BY DEF Init, Graceful!StopInit
<1>2. AdapterInv /\ [Next]_vars => [Graceful!StopNext]_(Graceful!stopVars)
  BY GracefulStep
<1> QED
  BY <1>1, <1>2, AdapterInductive, PTL DEF Spec, StopsGracefully, Graceful!StopSpec


----------------------------------------------------------------------------
(* The host calls of PyHostCalls, inside the adapter *)

\* The steps of the adapter that are steps of the SDK or of an author.
LEMMA CallsMove ==
  ASSUME \/ \E i \in Ids : CallStep(i)
         \/ \E t \in Tasks : HandlerCalls(t)
  PROVE  \E i \in Ids : Sdk(i) /\ UNCHANGED <<unchangedByCalls>>
<1>1. ASSUME NEW i \in Ids, CallStep(i)
      PROVE  Sdk(i) /\ UNCHANGED <<unchangedByCalls>>
  BY <1>1 DEF CallStep, SendTask, CallTimer, CallWakes, Iterates, AsksFinal, Interrupts,
              Sdk, Send, Single, Stream
<1>2. ASSUME NEW t \in Tasks, HandlerCalls(t)
      PROVE  nextId \in Ids /\ Sdk(nextId) /\ UNCHANGED <<unchangedByCalls>>
  BY <1>2 DEF HandlerCalls, Sdk, Issue
<1> QED
  BY <1>1, <1>2

\* The steps of the loop that reach the registry.
Routes == \/ WakeStopped \/ WakeEof \/ HandleFatal \/ (HandleRequest /\ host = "gone")
          \/ HandleReply \/ HandleDelta \/ HandleShutdown \/ ReplyShutdown

\* They are the reader's part of PyHostCalls.
LEMMA LoopRoutes ==
  ASSUME AdapterInv, Routes
  PROVE  Routing
<1>1. CASE HandleReply
  <2>1. line.id \in Ids /\ line.r \in ReplyKinds
    BY <1>1, LineReply DEF HandleReply, Handling, AdapterInv
  <2> QED
    BY <1>1, <2>1 DEF HandleReply, Routing
<1>2. CASE HandleDelta
  <2>1. line.id \in Ids /\ line.n \in 1 .. MaxChunks
    BY <1>2, LineDelta DEF HandleDelta, Handling, AdapterInv
  <2> QED
    BY <1>2, <2>1 DEF HandleDelta, Routing
<1>3. CASE WakeStopped \/ WakeEof \/ HandleFatal \/ (HandleRequest /\ host = "gone")
           \/ HandleShutdown \/ ReplyShutdown
  <2>1. AbandonPending
    BY <1>3 DEF WakeStopped, WakeEof, HandleFatal, HandleRequest, HandleShutdown,
                ReplyShutdown, Finally
  <2> QED
    BY <2>1 DEF Routing
<1> QED
  BY <1>1, <1>2, <1>3 DEF Routes

\* The other steps leave the calls alone.
Elsewhere == \/ ReadLine \/ HandleWork \/ (HandleRequest /\ host # "gone") \/ HandleNoise
             \/ DrainDone \/ FinalDrainDone
             \/ \E t \in Tasks : HandlerReturns(t) \/ Discard(t)
             \/ Environment \/ UNCHANGED vars

\* And these are all.
LEMMA AdapterMoves ==
  ASSUME [Next]_vars
  PROVE  \/ \E i \in Ids : Sdk(i) /\ UNCHANGED <<unchangedByCalls>>
         \/ Routes
         \/ Elsewhere /\ UNCHANGED <<sdkVars, abandons>>
<1>1. CASE Loop
  BY <1>1 DEF Loop, Routes, Elsewhere, ReadLine, HandleWork, HandleRequest, HandleNoise,
              DrainDone, FinalDrainDone, callVars
<1>2. ASSUME NEW t \in Tasks, HandlerCalls(t) \/ HandlerReturns(t) \/ Discard(t)
      PROVE  \/ \E i \in Ids : Sdk(i) /\ UNCHANGED <<unchangedByCalls>>
             \/ Elsewhere /\ UNCHANGED <<sdkVars, abandons>>
  BY <1>2, CallsMove DEF HandlerReturns, Discard, Elsewhere, callVars
<1>3. CASE \E i \in Ids : CallStep(i)
  BY <1>3, CallsMove
<1>4. CASE Environment
  BY <1>4 DEF Environment, Elsewhere, HostInvites, HostOneShot, HostAnswers, HostSendsDelta,
              HostCloses, Sigterm, unchangedByHost, callVars
<1>5. CASE UNCHANGED vars
  BY <1>5 DEF vars, callVars, Elsewhere
<1> QED
  BY <1>1, <1>2, <1>3, <1>4, <1>5 DEF Next, CallStep

\* So is what the theorems about the calls rest on.
LEMMA AdapterCalls ==
  ASSUME AdapterInv
  PROVE  IInv
BY DEF AdapterInv, TypeOK, CallsTypeOK, IInv, SdkInv

\* Every step of the adapter is, for the calls, one of PyHostCalls, or none.
LEMMA CallsOfAdapter ==
  ASSUME AdapterInv, [Next]_vars
  PROVE  \/ Routing
         \/ \E i \in Ids : Sdk(i) /\ UNCHANGED abandons
         \/ UNCHANGED <<sdkVars, abandons>>
BY AdapterMoves, LoopRoutes DEF unchangedByCalls

\* Inside the adapter too whoever waits on an unset future is in the registry,
\* whatever the pipe holds and however run comes to its end.
THEOREM AdapterOrphansNobody == ASSUME Readable PROVE Spec => []NoOrphan
<1>1. Init => NoOrphan
  BY DEF Init, CallsInit, NoOrphan
<1>2. AdapterInv /\ NoOrphan /\ [Next]_vars => NoOrphan'
  <2>1. ASSUME NoOrphan, UNCHANGED sdkVars
        PROVE  NoOrphan'
    BY <2>1 DEF sdkVars, NoOrphan
  <2> QED
    BY <2>1, AdapterCalls, CallsOfAdapter, NoOrphanStep
<1> QED
  BY <1>1, <1>2, AdapterInductive, PTL DEF Spec

\* The shutdown, the end of stdin, a signal and an exception of the loop answer
\* every outstanding call at once.
THEOREM AdapterAbandonsAll == ASSUME Readable PROVE Spec => AbandonAnswersAll
<1>1. AdapterInv /\ NoOrphan /\ [Next]_vars
        => [abandons' # abandons => \A i \in Ids : fut'[i] # "unset"]_callVars
  BY AdapterCalls, CallsOfAdapter, AbandonStep
<1> QED
  BY <1>1, AdapterInductive, AdapterOrphansNobody, PTL DEF Spec, AbandonAnswersAll

\* A handler that iterates a stream comes to its end, also when the drain of the
\* shutdown waits for it.
THEOREM AdapterIterationsEnd == Spec => []IterationEnds
<1>1. Init => \A j \in Ids : Ends(j)
  BY DEF Init, CallsInit, Ends
<1>2. AdapterInv /\ (\A j \in Ids : Ends(j)) /\ [Next]_vars => (\A j \in Ids : Ends(j))'
  <2> SUFFICES ASSUME AdapterInv, \A j \in Ids : Ends(j), [Next]_vars, NEW j \in Ids
               PROVE  Ends(j)'
    OBVIOUS
  <2>1. CASE UNCHANGED sdkVars
    BY <2>1 DEF sdkVars, Ends, HasEnd
  <2> QED
    BY <2>1, AdapterCalls, CallsOfAdapter, SdkEnds, ReaderEnds
<1>3. (\A j \in Ids : Ends(j)) => IterationEnds
  BY DEF IterationEnds, Ends, HasEnd
<1> QED
  BY <1>1, <1>2, <1>3, AdapterInductive, PTL DEF Spec

\* The calls of a whole adapter, its handlers, its drains and its pipe included,
\* keep HostCallContract.
THEOREM AdapterKeepsContract == ASSUME Keeps PROVE Spec => ImplementsContract
<1>1. Init => Contract!ContractInit /\ AllUnheard
  <2> SUFFICES ASSUME Init PROVE Contract!ContractInit /\ AllUnheard
    OBVIOUS
  <2>1. \A i \in Ids : /\ HeardOf(i) = "none" /\ VerdictOf(i) = "idle"
                       /\ fut[i] = "none" /\ kind[i] = "none"
    BY DEF Init, CallsInit, HeardOf, VerdictOf
  <2> QED
    BY <2>1 DEF Contract!ContractInit, AllUnheard, Unheard
<1>2. AdapterInv /\ AllUnheard /\ [Next]_vars
        => AllUnheard' /\ [Contract!ContractNext]_(Contract!contractVars)
  <2> SUFFICES ASSUME AdapterInv, AllUnheard, [Next]_vars
               PROVE  AllUnheard' /\ [Contract!ContractNext]_(Contract!contractVars)
    OBVIOUS
  <2>1. CASE UNCHANGED sdkVars
    BY <2>1 DEF sdkVars, AllUnheard, Unheard, HeardOf, VerdictOf, Contract!contractVars
  <2>2. CASE \E i \in Ids : Sdk(i)
    BY <2>2, AdapterCalls, SdkUnheard, SdkImplements
  <2>3. CASE Routing
    BY <2>3, AdapterCalls, ReaderUnheard, ReaderImplements
  <2> QED
    BY <2>1, <2>2, <2>3, CallsOfAdapter
<1> QED
  BY <1>1, <1>2, AdapterInductive, PTL DEF Spec, ImplementsContract, Contract!ContractSpec

----------------------------------------------------------------------------
(* What an author reads of a stream, behind the pipe *)

\* What the loop will still handle, the oldest line first.
Flow == IF line = NoLine THEN stdin ELSE <<line>> \o stdin

\* r chunks of stream i were routed.  While the loop serves and the call is
\* registered, what is missing is on its way, before the reply.
StreamUpTo(i, r) ==
  /\ StreamAt(i, r) /\ r <= deltas[i]
  /\ kind[i] = "stream" /\ fut[i] = "result" => r = deltas[i] /\ answers[i] > 0
  /\ pc = "serving" /\ kind[i] = "stream" /\ i \in pending =>
       Holds(Flow, i, r, deltas[i], answers[i] > 0)
  /\ kind[i] = "none" => deltas[i] = 0 /\ answers[i] = 0

\* No line is about a request that was not written.
NoneAhead == \A p \in DOMAIN Flow : Flow[p].type \in {"reply", "delta"} => Flow[p].id \in sent

StreamsInv == NoneAhead /\ \A i \in Ids : \E r \in 0 .. MaxChunks : StreamUpTo(i, r)

\* The types of what the streams are made of.
LEMMA FlowTypes ==
  ASSUME TypeOK
  PROVE  /\ Flow \in Seq(Frame) /\ MaxChunks \in Nat /\ stdin \in Seq(Frame)
         /\ line # NoLine => line \in Frame
         /\ \A f \in Frame : f.type = "delta" => f.n \in Nat
         /\ \A i \in Ids : deltas[i] \in Nat /\ answers[i] \in Nat /\ (answers[i] > 0) \in BOOLEAN
<1>1. stdin \in Seq(Frame) /\ (line # NoLine => line \in Frame)
  BY DEF TypeOK
<1>2. line # NoLine => <<line>> \o stdin \in Seq(Frame)
  <2>1. line # NoLine => <<line>> \in Seq(Frame)
    BY <1>1
  <2> QED
    BY <1>1, <2>1, ConcatProperties
<1>3. \A f \in Frame : f.type = "delta" => f.n \in Nat
  <2>1. MaxChunks \in Nat
    BY CallsAssumption
  <2> QED
    BY <2>1 DEF Frame
<1>4. \A i \in Ids : deltas[i] \in Nat /\ answers[i] \in Nat
  BY CallsAssumption DEF TypeOK, CallsTypeOK, HostTypeOK
<1> QED
  BY <1>1, <1>2, <1>3, <1>4, CallsAssumption DEF Flow

\* How the steps move the flow: readline hands a line to the loop, the loop is
\* done with it, the host puts one behind.
LEMMA FlowMoves ==
  ASSUME TypeOK
  PROVE  /\ line = NoLine /\ stdin # <<>> /\ line' = Head(stdin) /\ stdin' = Tail(stdin) =>
              Flow' = Flow
         /\ line # NoLine /\ line' = NoLine /\ stdin' = stdin =>
              Flow # <<>> /\ Head(Flow) = line /\ Flow' = Tail(Flow)
         /\ \A f \in Frame : line' = line /\ stdin' = Append(stdin, f) => Flow' = Append(Flow, f)
         /\ line' = line /\ stdin' = stdin => Flow' = Flow
<1>0. stdin \in Seq(Frame) /\ (line # NoLine => line \in Frame)
  BY FlowTypes
<1>1. ASSUME stdin # <<>>
      PROVE  Head(stdin) # NoLine /\ <<Head(stdin)>> \o Tail(stdin) = stdin
  <2>1. Head(stdin) \in Frame
    BY <1>0, <1>1, LinesAt
  <2>2. NoLine \notin Frame
    BY DEF NoLine, Frame
  <2> QED
    BY <1>0, <1>1, <2>1, <2>2
<1>2. ASSUME line # NoLine
      PROVE  /\ <<line>> \o stdin # <<>> /\ Head(<<line>> \o stdin) = line
             /\ Tail(<<line>> \o stdin) = stdin
  BY <1>0, <1>2
<1>3. ASSUME NEW f \in Frame, line # NoLine
      PROVE  <<line>> \o Append(stdin, f) = Append(<<line>> \o stdin, f)
  BY <1>0, <1>3
<1> QED
  BY <1>1, <1>2, <1>3 DEF Flow

\* Nobody is ahead of what was sent.
LEMMA AheadStays ==
  ASSUME TypeOK, NoneAhead, sent \subseteq sent',
         \/ Flow' = Flow
         \/ Flow # <<>> /\ Flow' = Tail(Flow)
         \/ \E f \in Frame : /\ Flow' = Append(Flow, f)
                             /\ f.type \in {"reply", "delta"} => f.id \in sent
  PROVE  NoneAhead'
<1>0. Flow \in Seq(Frame)
  BY FlowTypes
<1>1. \A p \in DOMAIN Flow : Flow[p].type \in {"reply", "delta"} => Flow[p].id \in sent
  BY DEF NoneAhead
<1>2. CASE Flow' = Flow
  BY <1>1, <1>2 DEF NoneAhead
<1>3. CASE Flow # <<>> /\ Flow' = Tail(Flow)
  <2>1. \A p \in DOMAIN Tail(Flow) : p + 1 \in DOMAIN Flow /\ Tail(Flow)[p] = Flow[p + 1]
    BY <1>0, <1>3, LinesAt
  <2> QED
    BY <1>1, <1>3, <2>1 DEF NoneAhead
<1>4. ASSUME NEW f \in Frame, Flow' = Append(Flow, f),
             f.type \in {"reply", "delta"} => f.id \in sent
      PROVE  NoneAhead'
  <2>1. \A p \in DOMAIN Append(Flow, f) :
          (p \in DOMAIN Flow /\ Append(Flow, f)[p] = Flow[p]) \/ Append(Flow, f)[p] = f
    BY <1>0, LinesAt
  <2> QED
    BY <1>1, <1>4, <2>1 DEF NoneAhead
<1> QED
  BY <1>2, <1>3, <1>4

\* What is missing is still on its way.
Rest(i, r) ==
  i \in pending' /\ Holds(Flow, i, r, deltas[i], answers[i] > 0)
    => Holds(Flow, i, r, deltas[i], answers[i] > 0)'

\* A step that neither brings a stream forward nor gives it a result.
LEMMA StreamStays ==
  ASSUME NEW i \in Ids, NEW r \in Nat, StreamUpTo(i, r), StreamAt(i, r)', Rest(i, r),
         UNCHANGED <<deltas, answers>>, kind'[i] = kind[i],
         i \in pending' => i \in pending,
         fut'[i] = "result" => fut[i] = "result",
         pc' = "serving" => pc = "serving"
  PROVE  StreamUpTo(i, r)'
BY DEF StreamUpTo, Rest

\* The flow is as it was, or its first line, no chunk of this stream, was handled.
LEMMA RestTaken ==
  ASSUME TypeOK, UNCHANGED <<deltas, answers>>, NEW i \in Ids, NEW r \in Nat,
         \/ Flow' = Flow
         \/ Flow # <<>> /\ Flow' = Tail(Flow) /\ ~IsDelta(Head(Flow), i)
  PROVE  Rest(i, r)
<1>1. Flow \in Seq(Frame) /\ deltas[i] \in Nat /\ (answers[i] > 0) \in BOOLEAN
  BY FlowTypes
<1>2. CASE Flow' = Flow
  BY <1>2 DEF Rest
<1>3. CASE Flow # <<>> /\ Flow' = Tail(Flow) /\ ~IsDelta(Head(Flow), i)
  <2>1. Holds(Flow, i, r, deltas[i], answers[i] > 0) =>
          Holds(Tail(Flow), i, r, deltas[i], answers[i] > 0)
    BY <1>1, <1>3, HoldsTail
  <2> QED
    BY <1>3, <2>1 DEF Rest
<1> QED
  BY <1>2, <1>3

\* The number of chunks that were routed.
LEMMA Counted ==
  ASSUME StreamsInv, NEW i \in Ids
  PROVE  \E r \in Nat : r <= MaxChunks /\ StreamUpTo(i, r)
<1>1. MaxChunks \in Nat
  BY CallsAssumption
<1> QED
  BY <1>1 DEF StreamsInv

\* The steps of the SDK: a call starts with nothing streamed, and nothing about
\* it under way.
LEMMA SdkKeepsStreams ==
  ASSUME AdapterInv, StreamsInv, NEW i \in Ids, Sdk(i), UNCHANGED <<unchangedByCalls>>
  PROVE  StreamsInv'
<1>0. /\ UNCHANGED <<deltas, answers, line, stdin, pc>> /\ TypeOK /\ IInv
      /\ MaxChunks \in Nat
  BY AdapterCalls, FlowTypes DEF unchangedByCalls, hostVars, loopVars, envVars, AdapterInv
<1>1. Flow' = Flow
  BY <1>0, FlowMoves
<1>2. NoneAhead'
  <2>1. sent \subseteq sent'
    BY <1>0, SdkGivesNoResult
  <2> QED
    BY <1>0, <1>1, <2>1, AheadStays DEF StreamsInv
<1>3. ASSUME NEW j \in Ids PROVE \E r \in 0 .. MaxChunks : StreamUpTo(j, r)'
  <2>1. PICK r \in Nat : r <= MaxChunks /\ StreamUpTo(j, r)
    BY Counted
  <2>2. StreamAt(j, r)'
    BY <1>0, <2>1, SdkStreams DEF StreamUpTo
  <2>3. /\ j \in pending' => j \in pending \/ kind[j] = "none"
        /\ fut'[j] = "result" => fut[j] = "result"
        /\ kind[j] # "none" => kind'[j] = kind[j]
        /\ kind[j] = "none" => fut[j] # "result"
    BY <1>0, SdkGivesNoResult
  <2>4. CASE kind[j] # "none"
    <3>1. Rest(j, r)
      BY <1>0, <1>1, RestTaken
    <3>2. StreamUpTo(j, r)'
      BY <1>0, <2>1, <2>2, <2>3, <2>4, <3>1, StreamStays
    <3> QED
      BY <1>0, <2>1, <3>2
  <2>5. CASE kind[j] = "none"
    <3>1. /\ r = 0 /\ j \notin sent /\ deltas[j] = 0 /\ answers[j] = 0
      BY <2>1, <2>5 DEF StreamUpTo, StreamAt
    <3>2. \A p \in DOMAIN Flow : ~IsDelta(Flow[p], j) /\ ~IsReply(Flow[p], j)
      BY <3>1 DEF StreamsInv, NoneAhead, IsDelta, IsReply
    <3>3. Holds(Flow, j, r, deltas[j], answers[j] > 0)
      <4>1. \A n : n \notin r + 1 .. deltas[j]
        BY <3>1
      <4> QED
        BY <3>2, <4>1 DEF Holds
    <3>4. StreamUpTo(j, r)'
      BY <1>0, <1>1, <2>2, <2>3, <2>5, <3>1, <3>3 DEF StreamUpTo
    <3> QED
      BY <1>0, <2>1, <3>4
  <2> QED
    BY <2>4, <2>5
<1> QED
  BY <1>0, <1>2, <1>3 DEF StreamsInv

\* The loop takes the line it handles off the flow.
LEMMA Taken ==
  ASSUME TypeOK, NEW type \in {"event", "tool", "request", "noise", "fatal", "shutdown",
                               "reply", "delta"},
         Handling(type), stdin' = stdin
  PROVE  Flow # <<>> /\ Head(Flow) = line /\ Flow' = Tail(Flow) /\ line.type = type
         /\ line \in Frame
<1>1. line # NoLine /\ line' = NoLine /\ line.type = type
  BY DEF Handling, NoLine
<1> QED
  BY <1>1, FlowMoves, FlowTypes

\* An abandon ends the streams; nothing is routed behind it.
LEMMA AbandonKeepsStreams ==
  ASSUME AdapterInv, StreamsInv, AbandonPending, UNCHANGED <<deltas, answers>>,
         Flow' = Flow \/ (Flow # <<>> /\ Flow' = Tail(Flow))
  PROVE  StreamsInv'
<1>0. TypeOK /\ IInv /\ MaxChunks \in Nat /\ sent' = sent
  BY AdapterCalls, FlowTypes DEF AdapterInv, AbandonPending, AbandonEntries
<1>1. NoneAhead'
  BY <1>0, AheadStays DEF StreamsInv
<1>2. ASSUME NEW j \in Ids PROVE \E r \in 0 .. MaxChunks : StreamUpTo(j, r)'
  <2>1. PICK r \in Nat : r <= MaxChunks /\ StreamUpTo(j, r)
    BY Counted
  <2>2. /\ StreamAt(j, r)' /\ j \notin pending' /\ kind' = kind
        /\ fut'[j] = "result" => fut[j] = "result"
    BY <1>0, <2>1, AbandonStreams DEF StreamUpTo
  <2>3. StreamUpTo(j, r)'
    BY <2>1, <2>2 DEF StreamUpTo
  <2> QED
    BY <1>0, <2>1, <2>3
<1> QED
  BY <1>1, <1>2 DEF StreamsInv

\* A reply is routed: to its stream when every chunk was, for the lines before it
\* were read before it.
LEMMA ReplyKeepsStreams ==
  ASSUME AdapterInv, StreamsInv, HandleReply
  PROVE  StreamsInv'
<1> DEFINE i == line.id
<1>0. /\ TypeOK /\ IInv /\ MaxChunks \in Nat /\ Handling("reply")
      /\ UNCHANGED <<deltas, answers, stdin>> /\ pc = "serving"
      /\ i \in Ids
  BY AdapterCalls, FlowTypes, LineReply DEF AdapterInv, HandleReply, Handling, hostVars, envVars
<1>1. /\ Flow # <<>> /\ Head(Flow) = line /\ Flow' = Tail(Flow) /\ line.type = "reply"
      /\ Flow \in Seq(Frame)
  BY <1>0, Taken, FlowTypes
<1>2. RouteResponse(i, line.r) \/ RouteUnreadable(i)
  BY DEF HandleReply
<1>3. NoneAhead'
  <2>1. sent' = sent
    BY <1>2 DEF RouteResponse, RouteUnreadable
  <2> QED
    BY <1>0, <1>1, <2>1, AheadStays DEF StreamsInv
<1>4. ASSUME NEW j \in Ids PROVE \E r \in 0 .. MaxChunks : StreamUpTo(j, r)'
  <2>1. PICK r \in Nat : r <= MaxChunks /\ StreamUpTo(j, r)
    BY Counted
  <2>2. StreamAt(j, r)'
    BY <1>0, <1>2, <2>1, ReplyStreams DEF StreamUpTo
  <2>3. /\ j \in pending' => j \in pending /\ j # i
        /\ fut'[j] = "result" => fut[j] = "result" \/ (j = i /\ i \in pending)
        /\ kind' = kind
    BY <1>0, <1>2, ReplyIsOwn
  <2>4. CASE j = i /\ i \in pending /\ kind[j] = "stream"
    <3>1. /\ Holds(Flow, j, r, deltas[j], answers[j] > 0) /\ r <= deltas[j]
          /\ IsReply(Head(Flow), j)
      BY <1>0, <1>1, <2>1, <2>4 DEF StreamUpTo, IsReply
    <3>2. deltas[j] \in Nat /\ (answers[j] > 0) \in BOOLEAN
      BY <1>0, FlowTypes
    <3>3. r = deltas[j] /\ answers[j] > 0
      BY <1>1, <2>1, <3>1, <3>2, HoldsReply
    <3>4. StreamUpTo(j, r)'
      BY <1>0, <2>1, <2>2, <2>3, <2>4, <3>3 DEF StreamUpTo
    <3> QED
      BY <1>0, <2>1, <3>4
  <2>5. CASE ~(j = i /\ i \in pending) /\ kind[j] = "stream"
    <3>1. Rest(j, r)
      BY <1>0, <1>1, RestTaken DEF IsDelta
    <3>2. StreamUpTo(j, r)'
      BY <1>0, <2>1, <2>2, <2>3, <2>5, <3>1, StreamStays
    <3> QED
      BY <1>0, <2>1, <3>2
  <2>6. CASE kind[j] # "stream"
    <3>1. StreamUpTo(j, r)'
      BY <1>0, <2>1, <2>2, <2>3, <2>6 DEF StreamUpTo
    <3> QED
      BY <1>0, <2>1, <3>1
  <2> QED
    BY <2>4, <2>5, <2>6
<1> QED
  BY <1>3, <1>4 DEF StreamsInv

\* A chunk is routed: it is the next one of its stream.
LEMMA ChunkKeepsStreams ==
  ASSUME AdapterInv, StreamsInv, HandleDelta
  PROVE  StreamsInv'
<1> DEFINE i == line.id
           n == line.n
<1>0. /\ TypeOK /\ IInv /\ MaxChunks \in Nat /\ Handling("delta")
      /\ UNCHANGED <<deltas, answers, stdin, pc>> /\ pc = "serving"
      /\ i \in Ids /\ n \in 1 .. MaxChunks /\ RouteDelta(i, n)
  BY AdapterCalls, FlowTypes, LineDelta DEF AdapterInv, HandleDelta, Handling, hostVars, envVars
<1>1. /\ Flow # <<>> /\ Head(Flow) = line /\ Flow' = Tail(Flow) /\ line.type = "delta"
      /\ Flow \in Seq(Frame) /\ \A f \in Frame : f.type = "delta" => f.n \in Nat
  BY <1>0, Taken, FlowTypes
<1>2. UNCHANGED <<kind, pending, fut, sent>>
  BY <1>0 DEF RouteDelta
<1>3. NoneAhead'
  BY <1>0, <1>1, <1>2, AheadStays DEF StreamsInv
<1>4. ASSUME NEW j \in Ids PROVE \E r \in 0 .. MaxChunks : StreamUpTo(j, r)'
  <2>1. PICK r \in Nat : r <= MaxChunks /\ StreamUpTo(j, r)
    BY Counted
  <2>2. CASE j = i /\ i \in pending /\ kind[j] = "stream"
    <3>1. PICK d \in Nat, a \in BOOLEAN : d = deltas[j] /\ a = (answers[j] > 0)
      BY <1>0, FlowTypes
    <3>2. Holds(Flow, j, r, d, a) /\ IsDelta(Head(Flow), j)
      BY <1>0, <1>1, <2>1, <2>2, <3>1 DEF StreamUpTo, IsDelta
    <3>3. n = r + 1 /\ r + 1 <= d /\ Holds(Tail(Flow), j, r + 1, d, a)
      BY <1>1, <3>2, HoldsNext
    <3>4. r + 1 \in 1 .. MaxChunks /\ r + 1 \in 0 .. MaxChunks
      BY <1>0, <3>3
    <3>5. StreamAt(j, r + 1)'
      BY <1>0, <2>1, <2>2, <3>3, <3>4, ChunkStreams DEF StreamUpTo
    <3>6. fut[j] # "result"
      BY <1>0, <2>2 DEF IInv, SdkInv, CallsInv, CallInv
    <3>7. StreamUpTo(j, r + 1)'
      BY <1>0, <1>1, <1>2, <2>2, <3>1, <3>3, <3>5, <3>6 DEF StreamUpTo
    <3> QED
      BY <3>4, <3>7
  <2>3. CASE ~(j = i /\ i \in pending /\ kind[j] = "stream")
    <3>1. StreamAt(j, r)'
      BY <1>0, <2>1, <2>3, ChunkElsewhere DEF StreamUpTo
    <3>2. CASE j # i
      <4>1. Rest(j, r)
        BY <1>0, <1>1, <3>2, RestTaken DEF IsDelta
      <4>2. StreamUpTo(j, r)'
        BY <1>0, <1>2, <2>1, <3>1, <4>1, StreamStays
      <4> QED
        BY <1>0, <2>1, <4>2
    <3>3. CASE j = i
      <4>1. StreamUpTo(j, r)'
        BY <1>0, <1>2, <2>1, <2>3, <3>1, <3>3 DEF StreamUpTo
      <4> QED
        BY <1>0, <2>1, <4>1
    <3> QED
      BY <3>2, <3>3
  <2> QED
    BY <2>2, <2>3
<1> QED
  BY <1>3, <1>4 DEF StreamsInv

\* A step that leaves the calls and the host's account of them alone, and puts
\* nothing about a call behind the flow.
LEMMA QuietKeepsStreams ==
  ASSUME AdapterInv, StreamsInv, UNCHANGED <<sdkVars, hostVars>>,
         pc' = "serving" => pc = "serving",
         \/ Flow' = Flow
         \/ Flow # <<>> /\ Flow' = Tail(Flow) /\ Head(Flow).type # "delta"
         \/ \E f \in Frame : Flow' = Append(Flow, f) /\ f.type \notin {"delta", "reply"}
  PROVE  StreamsInv'
<1>0. /\ TypeOK /\ MaxChunks \in Nat /\ Flow \in Seq(Frame)
      /\ UNCHANGED <<kind, pending, fut, sent, got, chunks, deltas, answers>>
  BY FlowTypes DEF AdapterInv, sdkVars, hostVars
<1>1. NoneAhead'
  BY <1>0, AheadStays DEF StreamsInv
<1>2. ASSUME NEW j \in Ids PROVE \E r \in 0 .. MaxChunks : StreamUpTo(j, r)'
  <2>1. PICK r \in Nat : r <= MaxChunks /\ StreamUpTo(j, r)
    BY Counted
  <2>2. StreamAt(j, r)'
    BY <1>0, <2>1 DEF StreamUpTo, StreamAt, Streamed
  <2>3. Rest(j, r)
    <3>1. deltas[j] \in Nat /\ (answers[j] > 0) \in BOOLEAN
      BY <1>0, FlowTypes
    <3>2. ASSUME NEW f \in Frame, Flow' = Append(Flow, f), f.type \notin {"delta", "reply"}
          PROVE  Rest(j, r)
      <4>1. ~IsDelta(f, j) /\ ~IsReply(f, j)
        BY <3>2 DEF IsDelta, IsReply
      <4>2. Holds(Flow, j, r, deltas[j], answers[j] > 0) =>
              Holds(Append(Flow, f), j, r, deltas[j], answers[j] > 0)
        BY <1>0, <3>1, <4>1, HoldsAppend
      <4> QED
        BY <1>0, <3>2, <4>2 DEF Rest
    <3> QED
      BY <1>0, <3>2, RestTaken DEF IsDelta
  <2>4. StreamUpTo(j, r)'
    BY <1>0, <2>1, <2>2, <2>3, StreamStays
  <2> QED
    BY <1>0, <2>1, <2>4
<1> QED
  BY <1>1, <1>2 DEF StreamsInv

\* The host replies, behind all it has streamed.
LEMMA AnswerKeepsStreams ==
  ASSUME AdapterInv, StreamsInv, HostAnswers
  PROVE  StreamsInv'
<1>0. /\ TypeOK /\ MaxChunks \in Nat /\ Flow \in Seq(Frame)
      /\ UNCHANGED <<kind, pending, fut, sent, got, chunks, deltas, line, pc>>
  BY FlowTypes DEF AdapterInv, HostAnswers, unchangedByHost, sdkVars, loopVars
<1>1. PICK i \in sent, v \in ReplyKinds :
        /\ answers' = [answers EXCEPT ![i] = @ + 1]
        /\ stdin' = Append(stdin, [type |-> "reply", id |-> i, r |-> v])
  BY DEF HostAnswers, Send1
<1>2. PICK f \in Frame : f = [type |-> "reply", id |-> i, r |-> v]
  BY <1>0 DEF Frame, TypeOK, CallsTypeOK, SdkTypeOK
<1>3. /\ f.type = "reply" /\ f.id = i /\ i \in Ids
      /\ Flow' = Append(Flow, f)
  BY <1>0, <1>1, <1>2, FlowMoves DEF TypeOK, CallsTypeOK, SdkTypeOK
<1>4. NoneAhead'
  BY <1>0, <1>3, AheadStays DEF StreamsInv
<1>5. ASSUME NEW j \in Ids PROVE \E r \in 0 .. MaxChunks : StreamUpTo(j, r)'
  <2>1. PICK r \in Nat : r <= MaxChunks /\ StreamUpTo(j, r)
    BY Counted
  <2>2. StreamAt(j, r)'
    BY <1>0, <2>1 DEF StreamUpTo, StreamAt, Streamed
  <2>3. /\ deltas[j] \in Nat /\ answers[j] \in Nat /\ answers'[j] \in Nat
        /\ answers[j] > 0 => answers'[j] > 0
        /\ j = i => answers'[j] > 0
        /\ j # i => answers'[j] = answers[j]
    <3>1. answers \in [Ids -> 0 .. MaxAnswers]
      BY <1>0 DEF TypeOK, CallsTypeOK, HostTypeOK
    <3> QED
      BY <1>0, <1>1, <1>3, <3>1, FlowTypes
  <2>4. Holds(Flow, j, r, deltas[j], answers[j] > 0) =>
          Holds(Append(Flow, f), j, r, deltas[j], answers'[j] > 0)
    <3>1. ~IsDelta(f, j) /\ (IsReply(f, j) => answers'[j] > 0)
      BY <1>3, <2>3 DEF IsDelta, IsReply
    <3>2. (answers[j] > 0) \in BOOLEAN /\ (answers'[j] > 0) \in BOOLEAN
      BY <2>3
    <3> QED
      BY <1>0, <2>3, <3>1, <3>2, HoldsAppend
  <2>5. kind[j] = "none" => j # i
    BY <1>3, <2>1 DEF StreamUpTo, StreamAt
  <2>6. StreamUpTo(j, r)'
    BY <1>0, <1>3, <2>1, <2>2, <2>3, <2>4, <2>5 DEF StreamUpTo
  <2> QED
    BY <1>0, <2>1, <2>6
<1> QED
  BY <1>4, <1>5 DEF StreamsInv

\* The host streams: the next chunk, behind the others, of what it has not
\* answered.
LEMMA DeltaKeepsStreams ==
  ASSUME AdapterInv, StreamsInv, HostSendsDelta
  PROVE  StreamsInv'
<1>0. /\ TypeOK /\ MaxChunks \in Nat /\ Flow \in Seq(Frame)
      /\ UNCHANGED <<kind, pending, fut, sent, got, chunks, answers, line, pc>>
      /\ \A f \in Frame : f.type = "delta" => f.n \in Nat
  BY FlowTypes DEF AdapterInv, HostSendsDelta, unchangedByHost, sdkVars, loopVars
<1>1. PICK i \in sent :
        /\ kind[i] = "stream" /\ answers[i] = 0 /\ deltas[i] < MaxChunks
        /\ deltas' = [deltas EXCEPT ![i] = @ + 1]
        /\ stdin' = Append(stdin, [type |-> "delta", id |-> i, n |-> deltas'[i]])
  BY DEF HostSendsDelta, Send1
<1>2. i \in Ids /\ deltas'[i] = deltas[i] + 1 /\ deltas'[i] \in 1 .. MaxChunks
  BY <1>0, <1>1 DEF TypeOK, CallsTypeOK, SdkTypeOK, HostTypeOK
<1>3. PICK f \in Frame : f = [type |-> "delta", id |-> i, n |-> deltas'[i]]
  BY <1>2 DEF Frame
<1>4. /\ f.type = "delta" /\ f.id = i /\ f.n = deltas[i] + 1
      /\ Flow' = Append(Flow, f)
  BY <1>0, <1>1, <1>2, <1>3, FlowMoves
<1>5. NoneAhead'
  BY <1>0, <1>4, AheadStays DEF StreamsInv
<1>6. ASSUME NEW j \in Ids PROVE \E r \in 0 .. MaxChunks : StreamUpTo(j, r)'
  <2>1. PICK r \in Nat : r <= MaxChunks /\ StreamUpTo(j, r)
    BY Counted
  <2>2. StreamAt(j, r)'
    BY <1>0, <2>1 DEF StreamUpTo, StreamAt, Streamed
  <2>3. PICK d \in Nat, a \in BOOLEAN : d = deltas[j] /\ a = (answers[j] > 0)
    BY <1>0, FlowTypes
  <2>4. CASE j = i
    <3>1. ~a /\ r <= d /\ deltas'[j] = d + 1
      <4>1. r <= d /\ deltas'[j] = d + 1
        BY <1>2, <2>1, <2>3, <2>4 DEF StreamUpTo
      <4>2. ~(answers[j] > 0)
        BY <1>1, <2>4
      <4> QED
        BY <2>3, <4>1, <4>2
    <3>2. Holds(Flow, j, r, d, a) => Holds(Append(Flow, f), j, r, d + 1, a)
      BY <1>0, <1>4, <2>4, <2>3, <3>1, HoldsMore DEF IsDelta
    <3>3. fut'[j] # "result"
      BY <1>0, <1>1, <2>1, <2>4 DEF StreamUpTo
    <3>4. r <= d + 1
      BY <3>1
    <3>5. StreamUpTo(j, r)'
      BY <1>0, <1>1, <1>4, <2>1, <2>2, <2>3, <2>4, <3>1, <3>2, <3>3, <3>4 DEF StreamUpTo
    <3> QED
      BY <1>0, <2>1, <3>5
  <2>5. CASE j # i
    <3>1. deltas'[j] = deltas[j]
      BY <1>1, <1>2, <2>5 DEF TypeOK, CallsTypeOK, HostTypeOK
    <3>2. ~IsDelta(f, j) /\ ~IsReply(f, j)
      BY <1>4, <2>5 DEF IsDelta, IsReply
    <3>3. Holds(Flow, j, r, d, a) => Holds(Append(Flow, f), j, r, d, a)
      BY <1>0, <3>2, HoldsAppend
    <3>4. StreamUpTo(j, r)'
      BY <1>0, <1>4, <2>1, <2>2, <2>3, <3>1, <3>3 DEF StreamUpTo
    <3> QED
      BY <1>0, <2>1, <3>4
  <2> QED
    BY <2>4, <2>5
<1> QED
  BY <1>5, <1>6 DEF StreamsInv

\* The steps that do not touch the calls keep the streams.
LEMMA ElsewhereKeepsStreams ==
  ASSUME AdapterInv, StreamsInv, Elsewhere, UNCHANGED <<sdkVars, abandons>>
  PROVE  StreamsInv'
<1>0. TypeOK /\ stdin \in Seq(Frame)
  BY FlowTypes DEF AdapterInv
<1>1. CASE ReadLine
  <2>1. Flow' = Flow /\ UNCHANGED <<hostVars, pc>>
    BY <1>0, <1>1, FlowMoves DEF ReadLine, callVars
  <2> QED
    BY <2>1, QuietKeepsStreams
<1>2. CASE HandleWork \/ HandleNoise \/ (HandleRequest /\ host # "gone")
  <2>1. PICK type \in {"event", "tool", "request", "noise"} :
          Handling(type) /\ UNCHANGED <<hostVars, pc, stdin>>
    BY <1>2 DEF HandleWork, HandleNoise, HandleRequest, callVars, envVars
  <2>2. Flow # <<>> /\ Flow' = Tail(Flow) /\ Head(Flow).type # "delta"
    BY <1>0, <2>1, Taken
  <2> QED
    BY <2>1, <2>2, QuietKeepsStreams
<1>3. CASE \/ DrainDone \/ FinalDrainDone \/ HostCloses \/ Sigterm \/ UNCHANGED vars
           \/ \E t \in Tasks : HandlerReturns(t) \/ Discard(t)
  <2>1. UNCHANGED <<hostVars, line, stdin>> /\ (pc' = "serving" => pc = "serving")
    BY <1>3 DEF DrainDone, FinalDrainDone, HostCloses, Sigterm, HandlerReturns, Discard,
                callVars, taskVars, envVars, loopVars, unchangedByHost, vars
  <2>2. Flow' = Flow
    BY <1>0, <2>1, FlowMoves
  <2> QED
    BY <2>1, <2>2, QuietKeepsStreams
<1>4. CASE HostInvites \/ HostOneShot
  <2>1. PICK k : /\ k \in {"event", "tool"} \cup OneShots
                 /\ stdin' = Append(stdin, [type |-> k])
                 /\ UNCHANGED <<hostVars, line, pc>>
    BY <1>4 DEF HostInvites, HostOneShot, Send1, unchangedByHost, loopVars
  <2>2. k \in {"event", "tool", "request", "noise", "fatal", "shutdown"}
    BY <2>1, AdapterAssumption DEF OneShotsAssumption
  <2>3. [type |-> k] \in Frame /\ [type |-> k].type = k
    BY <2>2 DEF Frame
  <2>4. Flow' = Append(Flow, [type |-> k])
    BY <1>0, <2>1, <2>3, FlowMoves
  <2> QED
    BY <2>1, <2>2, <2>3, <2>4, QuietKeepsStreams
<1> QED
  BY <1>1, <1>2, <1>3, <1>4, AnswerKeepsStreams, DeltaKeepsStreams DEF Elsewhere, Environment

\* The steps that reach the registry keep the streams.
LEMMA RoutesKeepStreams ==
  ASSUME AdapterInv, StreamsInv, Routes
  PROVE  StreamsInv'
<1>0. TypeOK
  BY DEF AdapterInv
<1>1. CASE WakeStopped \/ WakeEof \/ ReplyShutdown
  <2>1. /\ AbandonPending /\ UNCHANGED <<deltas, answers, stdin>>
        /\ line' = NoLine \/ line' = line
    BY <1>1 DEF WakeStopped, WakeEof, ReplyShutdown, Finally, hostVars, envVars
  <2>2. Flow' = Flow \/ (Flow # <<>> /\ Flow' = Tail(Flow))
    BY <1>0, <2>1, FlowMoves
  <2> QED
    BY <2>1, <2>2, AbandonKeepsStreams
<1>2. CASE HandleFatal \/ (HandleRequest /\ host = "gone") \/ HandleShutdown
  <2>1. PICK type \in {"fatal", "request", "shutdown"} :
          Handling(type) /\ AbandonPending /\ UNCHANGED <<deltas, answers, stdin>>
    BY <1>2 DEF HandleFatal, HandleRequest, HandleShutdown, Finally, hostVars, envVars
  <2>2. Flow # <<>> /\ Flow' = Tail(Flow)
    BY <1>0, <2>1, Taken
  <2> QED
    BY <2>1, <2>2, AbandonKeepsStreams
<1> QED
  BY <1>1, <1>2, ReplyKeepsStreams, ChunkKeepsStreams DEF Routes

\* What an author reads of a stream is what the host streamed, whatever else was
\* on the pipe, however late the loop reads it, and wherever run is when a
\* handler reads the rest.
THEOREM AdapterStreamsFaithfully == Spec => []StreamFaithful
<1>1. Init => StreamsInv
  <2> SUFFICES ASSUME Init PROVE StreamsInv
    OBVIOUS
  <2>1. Flow = <<>> /\ NoneAhead
    BY DEF Init, Flow, NoneAhead
  <2>2. ASSUME NEW i \in Ids PROVE StreamUpTo(i, 0)
    BY DEF Init, CallsInit, StreamUpTo, StreamAt, Streamed, Ordered
  <2>3. 0 \in 0 .. MaxChunks
    BY CallsAssumption
  <2> QED
    BY <2>1, <2>2, <2>3 DEF StreamsInv
<1>2. AdapterInv /\ StreamsInv /\ [Next]_vars => StreamsInv'
  BY AdapterMoves, SdkKeepsStreams, RoutesKeepStreams, ElsewhereKeepsStreams
<1>3. StreamsInv => StreamFaithful
  <2> SUFFICES ASSUME StreamsInv, NEW i \in Ids
               PROVE  /\ Ordered(Streamed(i))
                      /\ kind[i] = "stream" /\ fut[i] = "result" =>
                           Content(Streamed(i)) = 1 .. deltas[i]
    BY DEF StreamFaithful, InOrder, NothingLost, Ordered, Content
  <2>1. PICK r \in Nat : StreamUpTo(i, r)
    BY Counted
  <2> QED
    BY <2>1 DEF StreamUpTo, StreamAt
<1> QED
  BY <1>1, <1>2, <1>3, AdapterInductive, PTL DEF Spec
============================================================================
