-------------------------- MODULE TsAdapter_proofs --------------------------
(***************************************************************************)
(* Theorems about the TypeScript adapter, for every number of tasks, calls, *)
(* chunks and lines in the pipe.                                            *)
(***************************************************************************)
EXTENDS TsAdapter, PipeLemmas

\* Every task the loop starts was asked for.
WorkCount ==
  nextTask + (Cardinality(WorkIn(lines)) + Cardinality(WorkIn(pipe))) <= invited

\* A task is in flight from the step that starts it to the one in which it
\* answers; a handler that waits for a call is in it.
TaskInv(t) ==
  /\ at[t] = "none" <=> t > nextTask
  /\ t \in inflight <=> at[t] \notin {"none", "done"}
  /\ at[t] \in {"waiting", "pulling", "result"} => call[t] # 0
  /\ at[t] \in {"none", "done"} => call[t] = 0
  /\ at[t] = "none" => ~isTool[t]

TasksInv == \A t \in Tasks : TaskInv(t)

\* Nothing is in flight once the shutdown is acknowledged or run has returned.
DrainInv == /\ acked => inflight = {} /\ stopped /\ pc # "drain"
            /\ pc = "exited" => inflight = {}

TsInv == TypeOK /\ WorkCount /\ TasksInv /\ DrainInv

----------------------------------------------------------------------------
(* The numbers and the sequences *)

\* The counters, and the work in the pipe and among the lines, are numbers.
LEMMA Numbers ==
  ASSUME TypeOK
  PROVE  /\ nextTask \in Nat /\ invited \in Nat /\ invited <= MaxTasks /\ MaxTasks \in Nat
         /\ Cardinality(WorkIn(lines)) \in Nat /\ Cardinality(WorkIn(pipe)) \in Nat
<1>1. lines \in Seq(Line) /\ pipe \in Seq(Line)
  BY DEF TypeOK
<1> QED
  BY <1>1, WorkFinite, TsAssumption DEF TypeOK

\* What is taken off the chain was on it.
LEMMA ChainTail ==
  ASSUME TypeOK, chain # <<>>
  PROVE  Tail(chain) \in Seq(Ids) /\ Head(chain) \in Ids /\ ToSet(Tail(chain)) \subseteq ToSet(chain)
<1>1. chain \in Seq(Ids)
  BY DEF TypeOK
<1>2. /\ Tail(chain) \in Seq(Ids) /\ Head(chain) \in Ids /\ Len(Tail(chain)) = Len(chain) - 1
      /\ \A k \in 1 .. Len(Tail(chain)) : Tail(chain)[k] = chain[k + 1]
  BY <1>1, HeadTailProperties
<1> QED
  BY <1>1, <1>2 DEF ToSet

\* What is put on the chain is on it, and nothing else.
LEMMA ChainAppend ==
  ASSUME TypeOK, NEW i \in Ids
  PROVE  Append(chain, i) \in Seq(Ids) /\ ToSet(Append(chain, i)) \subseteq ToSet(chain) \cup {i}
<1>1. chain \in Seq(Ids)
  BY DEF TypeOK
<1>2. /\ Append(chain, i) \in Seq(Ids) /\ Len(Append(chain, i)) = Len(chain) + 1
      /\ \A k \in 1 .. Len(chain) : Append(chain, i)[k] = chain[k]
      /\ Append(chain, i)[Len(chain) + 1] = i
  BY <1>1, AppendProperties
<1> QED
  BY <1>1, <1>2 DEF ToSet

\* The line that the loop takes.
LEMMA LineTaken ==
  ASSUME TypeOK, lines # <<>>
  PROVE  /\ Tail(lines) \in Seq(Line) /\ Head(lines) \in Line
         /\ Head(lines).type = "reply" => Head(lines).id \in Ids
         /\ Head(lines).type = "delta" => Head(lines).id \in Ids /\ Head(lines).n \in 1 .. MaxChunks
         /\ Cardinality(WorkIn(Tail(lines))) \in Nat
         /\ Cardinality(WorkIn(Tail(lines))) + (IF IsWork(Head(lines)) THEN 1 ELSE 0)
              <= Cardinality(WorkIn(lines))
<1>1. lines \in Seq(Line)
  BY DEF TypeOK
<1>2. Tail(lines) \in Seq(Line) /\ Head(lines) \in Line
  BY <1>1, HeadTailProperties
<1>3. /\ Head(lines).type = "reply" => Head(lines).id \in Ids
      /\ Head(lines).type = "delta" => Head(lines).id \in Ids /\ Head(lines).n \in 1 .. MaxChunks
  BY <1>2 DEF Line
<1> QED
  BY <1>1, <1>2, <1>3, WorkFinite, WorkTail

\* Settling entries leaves a registry.
LEMMA SettleTypes ==
  ASSUME TypeOK, NEW P \in SUBSET Ids, NEW v \in Verdicts, Settle(P, v)
  PROVE  /\ pending' \subseteq Ids /\ shut' \subseteq Ids
         /\ settled' \in [Ids -> Verdicts \cup {"none", "open"}]
<1>1. pending' \subseteq Ids /\ shut' \subseteq Ids
  <2>1. {i \in P : kind[i] = "stream"} \subseteq Ids
    BY DEF Settle
  <2> QED
    BY <2>1 DEF TypeOK, Settle
<1>2. \A i \in Ids : settled[i] \in Verdicts \cup {"none", "open"}
  BY DEF TypeOK
<1>3. settled' \in [Ids -> Verdicts \cup {"none", "open"}]
  BY <1>2 DEF Settle
<1> QED
  BY <1>1, <1>3

----------------------------------------------------------------------------
(* The invariant, over the steps *)

\* The adapter starts in its invariant.
LEMMA InitTs == Init => TsInv
<1> SUFFICES ASSUME Init PROVE TsInv
  OBVIOUS
<1>0. /\ MaxTasks \in Nat /\ MaxCalls \in Nat /\ MaxSignals \in Nat /\ MaxBusy \in Nat
      /\ MaxChunks \in Nat
  BY TsAssumption
<1>1. /\ pipe \in Seq(Line) /\ lines \in Seq(Line) /\ chain \in Seq(Ids)
      /\ WorkIn(lines) = {} /\ WorkIn(pipe) = {}
  BY DEF Init, WorkIn, ToSet
<1>2. /\ deltas \in [Ids -> 0 .. MaxChunks] /\ replies \in [Tasks -> 0 .. 1]
      /\ naps \in [Tasks -> 0 .. MaxBusy] /\ call \in [Tasks -> 0 .. MaxCalls]
      /\ buf \in [Ids -> Seq(1 .. MaxChunks)] /\ got \in [Ids -> Seq(1 .. MaxChunks)]
  BY <1>0 DEF Init
<1>3. /\ isTool \in [Tasks -> BOOLEAN]
      /\ kind \in [Ids -> {"none", "recall", "complete", "stream"}]
      /\ settled \in [Ids -> Verdicts \cup {"none", "open"}]
      /\ at \in [Tasks -> {"none", "body", "busy", "waiting", "pulling", "result", "done"}]
      /\ outcome \in [Ids -> {"none", "result", "decode", "server", "transport",
                              "timeout", "dropped"}]
  BY DEF Init
<1>4. /\ closed \in BOOLEAN /\ rlClosed \in BOOLEAN /\ stopped \in BOOLEAN /\ acked \in BOOLEAN
      /\ broken \in BOOLEAN /\ pc \in {"loop", "drain", "finaldrain", "exited", "killed"}
      /\ oneShot \subseteq OneShots /\ answered \subseteq Ids /\ inflight \subseteq Tasks
      /\ pending \subseteq Ids /\ sent \subseteq Ids /\ shut \subseteq Ids /\ listened \subseteq Ids
  BY DEF Init
<1>5. /\ invited \in 0 .. MaxTasks /\ signals \in 0 .. MaxSignals
      /\ nextTask \in 0 .. MaxTasks /\ nextId \in 0 .. MaxCalls
  BY <1>0 DEF Init
<1>6. TypeOK
  BY <1>1, <1>2, <1>3, <1>4, <1>5 DEF TypeOK
<1>7. WorkCount
  <2>1. Cardinality(WorkIn(lines)) = 0 /\ Cardinality(WorkIn(pipe)) = 0
    BY <1>1, FS_EmptySet
  <2>2. nextTask = 0 /\ invited = 0
    BY DEF Init
  <2> QED
    BY <2>1, <2>2 DEF WorkCount
<1>8. TasksInv /\ DrainInv
  BY <1>0, <1>1 DEF Init, TasksInv, TaskInv, DrainInv, Tasks
<1> QED
  BY <1>6, <1>7, <1>8 DEF TsInv

\* A line that starts no task is taken.
LEMMA CountKept ==
  ASSUME TypeOK, WorkCount, lines # <<>>, lines' = Tail(lines),
         UNCHANGED <<pipe, invited, nextTask>>
  PROVE  WorkCount'
<1> DEFINE c == Cardinality(WorkIn(lines))
           d == Cardinality(WorkIn(Tail(lines)))
           p == Cardinality(WorkIn(pipe))
<1>1. nextTask \in Nat /\ invited \in Nat /\ c \in Nat /\ p \in Nat
  BY Numbers
<1>2. d \in Nat /\ d + (IF IsWork(Head(lines)) THEN 1 ELSE 0) <= c
  BY LineTaken
<1>3. nextTask + (c + p) <= invited
  BY DEF WorkCount
<1> HIDE DEF c, d, p
<1>4. d <= c
  BY <1>1, <1>2
<1>5. nextTask + (d + p) <= invited
  BY <1>1, <1>2, <1>3, <1>4
<1> QED
  BY <1>5 DEF WorkCount, d, p

\* A task is started: it was asked for, so it is one of Tasks.
LEMMA HandleWorkKeeps ==
  ASSUME TsInv, HandleWork
  PROVE  TsInv' /\ nextTask' \in Tasks /\ nextTask' \notin inflight
<1> USE DEF HandleWork, Handling, hostVars, callVars
<1>0. TypeOK
  BY DEF TsInv
<1>1. IsWork(Head(lines)) /\ lines # <<>>
  BY DEF IsWork
<1> DEFINE c == Cardinality(WorkIn(lines))
           d == Cardinality(WorkIn(Tail(lines)))
           p == Cardinality(WorkIn(pipe))
<1>2. /\ nextTask \in Nat /\ invited \in Nat /\ c \in Nat /\ p \in Nat
      /\ MaxTasks \in Nat /\ invited <= MaxTasks
  BY <1>0, Numbers
<1>3. d \in Nat /\ d + 1 <= c
  BY <1>0, <1>1, LineTaken
<1>4. nextTask + (c + p) <= invited
  BY DEF TsInv, WorkCount
<1>5. (nextTask + 1) + (d + p) <= invited /\ nextTask + 1 \in 1 .. MaxTasks
  <2> HIDE DEF c, d, p
  <2> QED
    BY <1>2, <1>3, <1>4
<1>6. WorkCount'
  BY <1>5 DEF WorkCount
<1>7. nextTask' \in Tasks
  BY <1>5 DEF Tasks
<1>8. at[nextTask'] = "none" /\ nextTask' \notin inflight
  BY <1>2, <1>7 DEF TsInv, TasksInv, TaskInv
<1>9. TypeOK'
  <2>1. Tail(lines) \in Seq(Line)
    BY <1>0, <1>1, LineTaken
  <2>2. nextTask' \in 0 .. MaxTasks
    BY <1>7 DEF Tasks
  <2>3. /\ inflight' \subseteq Tasks
        /\ isTool' \in [Tasks -> BOOLEAN]
        /\ at' \in [Tasks -> {"none", "body", "busy", "waiting", "pulling", "result", "done"}]
    BY <1>0, <1>7 DEF TypeOK
  <2> QED
    BY <1>0, <2>1, <2>2, <2>3 DEF TypeOK
<1>10. TasksInv'
  <2> SUFFICES ASSUME NEW t \in Tasks PROVE TaskInv(t)'
    BY DEF TasksInv
  <2>1. TaskInv(t) /\ t \in Nat
    BY DEF TsInv, TasksInv, Tasks
  <2>2. CASE t = nextTask'
    BY <1>0, <1>2, <1>7, <1>8, <2>1, <2>2 DEF TaskInv, TypeOK
  <2>3. CASE t # nextTask'
    BY <1>0, <1>2, <1>7, <2>1, <2>3 DEF TaskInv, TypeOK
  <2> QED
    BY <2>2, <2>3
<1>11. DrainInv'
  BY DEF TsInv, DrainInv
<1> QED
  BY <1>6, <1>7, <1>8, <1>9, <1>10, <1>11 DEF TsInv

\* The tasks and their handlers are as the loop, the timers and the host find them.
LEMMA TasksStay ==
  ASSUME TsInv, TypeOK', WorkCount', DrainInv',
         UNCHANGED <<inflight, nextTask, isTool, at, call>>
  PROVE  TsInv'
BY DEF TsInv, TasksInv, TaskInv

\* The loop takes a line it answers at once, skips or routes.
LEMMA HandleKeeps ==
  ASSUME TsInv, HandleHere \/ HandleReply \/ HandleDelta \/ HandleShutdown
  PROVE  TsInv'
<1> USE DEF HandleHere, HandleReply, HandleDelta, HandleShutdown, Handling,
            hostVars, taskVars, authorVars, callVars
<1>0. TypeOK /\ WorkCount /\ DrainInv /\ lines # <<>>
  BY DEF TsInv
<1>1. Tail(lines) \in Seq(Line) /\ lines' = Tail(lines)
  BY <1>0, LineTaken
<1>2. /\ pending' \subseteq Ids /\ shut' \subseteq Ids /\ chain' = chain
      /\ settled' \in [Ids -> Verdicts \cup {"none", "open"}]
      /\ buf' \in [Ids -> Seq(1 .. MaxChunks)]
  <2>1. CASE HandleHere
    BY <1>0, <2>1 DEF TypeOK
  <2>2. CASE HandleReply
    <3>1. \A i \in Ids : \A r : Verdict(i, r) \in Verdicts
      BY DEF Verdict, Verdicts
    <3>2. Head(lines).id \in Ids
      BY <1>0, <2>2, LineTaken
    <3> QED
      BY <1>0, <2>2, <3>1, <3>2, SettleTypes DEF RouteResponse, TypeOK
  <2>3. CASE HandleDelta
    <3>1. Head(lines).id \in Ids /\ Head(lines).n \in 1 .. MaxChunks
      BY <1>0, <2>3, LineTaken
    <3>2. buf[Head(lines).id] \in Seq(1 .. MaxChunks)
      BY <1>0, <3>1 DEF TypeOK
    <3>3. Append(buf[Head(lines).id], Head(lines).n) \in Seq(1 .. MaxChunks)
      BY <3>1, <3>2, AppendProperties
    <3> QED
      BY <1>0, <2>3, <3>1, <3>3 DEF RouteDelta, TypeOK
  <2>4. CASE HandleShutdown
    BY <1>0, <2>4, SettleTypes DEF AbandonPending, Verdicts, TypeOK
  <2> QED
    BY <2>1, <2>2, <2>3, <2>4
<1>3. /\ UNCHANGED <<nextId, kind, sent>>
      /\ pc' \in {"loop", "drain"}
      /\ ~acked
  BY <1>0 DEF RouteResponse, RouteDelta, AbandonPending, DrainInv
<1>4. TypeOK'
  BY <1>0, <1>1, <1>2, <1>3 DEF TypeOK
<1>5. WorkCount'
  BY <1>0, <1>1, CountKept
<1>6. DrainInv'
  BY <1>3 DEF DrainInv
<1> QED
  BY <1>2, <1>4, <1>5, <1>6, TasksStay

\* The shutdown is replied to, the loop is left, run returns, a signal comes,
\* or node ends the process.
LEMMA PlaceKeeps ==
  ASSUME TsInv, ReplyShutdown \/ Leave \/ FinalDrainDone \/ Sigterm \/ Crash
  PROVE  TsInv'
<1> USE DEF ReplyShutdown, Leave, FinalDrainDone, Sigterm, Crash,
            hostVars, taskVars, authorVars, callVars
<1>0. TypeOK /\ WorkCount /\ DrainInv
  BY DEF TsInv
<1>1. /\ pending' \subseteq Ids /\ shut' \subseteq Ids
      /\ settled' \in [Ids -> Verdicts \cup {"none", "open"}]
      /\ UNCHANGED <<nextId, kind, chain, sent, buf>>
  <2>1. CASE Leave
    BY <1>0, <2>1, SettleTypes DEF AbandonPending, Verdicts, TypeOK
  <2>2. CASE ~Leave
    BY <1>0, <2>2 DEF TypeOK
  <2> QED
    BY <2>1, <2>2
<1>2. /\ pc' \in {"loop", "finaldrain", "exited", "killed", pc}
      /\ rlClosed' \in BOOLEAN /\ acked' \in BOOLEAN /\ stopped' \in BOOLEAN
  <2>1. rlClosed \in BOOLEAN /\ acked \in BOOLEAN /\ stopped \in BOOLEAN
    BY <1>0 DEF TypeOK
  <2>2. pc' \in {"loop", "finaldrain", "exited", "killed", pc}
    OBVIOUS
  <2>3. /\ rlClosed' \in {rlClosed, TRUE} /\ acked' \in {acked, TRUE}
        /\ stopped' \in {stopped, TRUE}
    OBVIOUS
  <2> QED
    BY <2>1, <2>2, <2>3
<1>3. signals' \in 0 .. MaxSignals
  BY <1>0, TsAssumption DEF TypeOK
<1>4. TypeOK'
  BY <1>0, <1>1, <1>2, <1>3 DEF TypeOK
<1>5. WorkCount'
  BY <1>0 DEF WorkCount
<1>6. DrainInv'
  BY <1>0 DEF DrainInv
<1> QED
  BY <1>1, <1>4, <1>5, <1>6, TasksStay

\* The write chain goes on, a timer fires, stdin has data or has ended.
LEMMA WriteNextKeeps ==
  ASSUME TsInv, WriteNext
  PROVE  TsInv'
<1> USE DEF WriteNext, hostVars, runVars, taskVars, authorVars
<1>0. TypeOK /\ WorkCount /\ DrainInv
  BY DEF TsInv
<1>1. Tail(chain) \in Seq(Ids) /\ Head(chain) \in Ids
  BY <1>0, ChainTail
<1>2. /\ pending' \subseteq Ids /\ shut' \subseteq Ids /\ sent' \subseteq Ids
      /\ settled' \in [Ids -> Verdicts \cup {"none", "open"}]
  <2>1. CASE Settle({Head(chain)}, "transport") /\ UNCHANGED sent
    BY <1>0, <1>1, <2>1, SettleTypes DEF Verdicts, TypeOK
  <2>2. CASE UNCHANGED <<pending, settled, shut>> /\ sent' = sent \cup {Head(chain)}
    BY <1>0, <1>1, <2>2 DEF TypeOK
  <2> QED
    BY <2>1, <2>2
<1>3. TypeOK'
  BY <1>0, <1>1, <1>2 DEF TypeOK
<1>4. WorkCount' /\ DrainInv'
  BY <1>0 DEF WorkCount, DrainInv
<1> QED
  BY <1>1, <1>3, <1>4, TasksStay

\* A timer that fires keeps the invariant.
LEMMA TimerFiresKeeps ==
  ASSUME TsInv, NEW i \in Ids, TimerFires(i)
  PROVE  TsInv'
<1> USE DEF TimerFires, hostVars, runVars, taskVars, authorVars
<1>0. TypeOK /\ WorkCount /\ DrainInv
  BY DEF TsInv
<1>1. /\ pending' \subseteq Ids /\ shut' \subseteq Ids
      /\ settled' \in [Ids -> Verdicts \cup {"none", "open"}]
  BY <1>0, SettleTypes DEF Verdicts
<1>2. TypeOK'
  BY <1>0, <1>1 DEF TypeOK
<1>3. WorkCount' /\ DrainInv'
  BY <1>0 DEF WorkCount, DrainInv
<1> QED
  BY <1>2, <1>3, TasksStay

\* Reading what the pipe holds moves its work to the lines.
LEMMA DataKeeps ==
  ASSUME TsInv, Data
  PROVE  TsInv'
<1> USE DEF Data, taskVars, callVars, authorVars
<1>0. TypeOK /\ WorkCount /\ DrainInv /\ lines \in Seq(Line) /\ pipe \in Seq(Line)
  BY DEF TsInv, TypeOK
<1>1. lines \o pipe \in Seq(Line)
  BY <1>0, ConcatProperties
<1>2. TypeOK'
  <2>1. lines' \in Seq(Line) /\ pipe' \in Seq(Line)
    <3>1. /\ lines' = lines \o pipe \/ lines' = lines
          /\ pipe' = <<>> \/ pipe' = pipe
      OBVIOUS
    <3>2. <<>> \in Seq(Line)
      OBVIOUS
    <3> QED
      BY <1>0, <1>1, <3>1, <3>2
  <2>2. rlClosed' \in BOOLEAN
    BY <1>0 DEF TypeOK
  <2> QED
    BY <1>0, <2>1, <2>2 DEF TypeOK
<1>3. WorkCount'
  <2>1. CASE lines' = lines \o pipe /\ pipe' = <<>>
    <3> DEFINE c == Cardinality(WorkIn(lines))
               d == Cardinality(WorkIn(lines \o pipe))
               p == Cardinality(WorkIn(pipe))
    <3>1. /\ nextTask \in Nat /\ invited \in Nat /\ c \in Nat /\ p \in Nat
          /\ nextTask + (c + p) <= invited
      BY <1>0, Numbers DEF WorkCount
    <3>2. d \in Nat /\ d <= c + p
      BY <1>0, <1>1, WorkConcat, WorkFinite
    <3>3. WorkIn(pipe') = {} /\ Cardinality({}) = 0
      BY <2>1, FS_EmptySet DEF WorkIn
    <3> HIDE DEF c, d, p
    <3>4. nextTask + (d + 0) <= invited
      BY <3>1, <3>2
    <3> QED
      BY <2>1, <3>3, <3>4 DEF WorkCount, d
  <2>2. CASE UNCHANGED <<lines, pipe>>
    BY <1>0, <2>2 DEF WorkCount
  <2> QED
    BY <2>1, <2>2
<1>4. DrainInv'
  BY <1>0 DEF DrainInv
<1> QED
  BY <1>2, <1>3, <1>4, TasksStay

----------------------------------------------------------------------------
(* The steps of the handlers *)

\* What a handler's step leaves alone.
LEMMA HandlersOnly ==
  ASSUME TsInv, TypeOK', TasksInv', inflight' \subseteq inflight \/ ~acked,
         pc = "exited" => inflight' \subseteq inflight,
         UNCHANGED <<lines, pipe, invited, nextTask, pc, acked, stopped>>
  PROVE  TsInv'
BY DEF TsInv, WorkCount, DrainInv

\* A handler starts a call: its request joins the chain.
LEMMA StartCallKeeps ==
  ASSUME TsInv, NEW t \in Tasks, StartCall(t)
  PROVE  TsInv'
<1> USE DEF StartCall, In, Goes, hostVars, runVars, taskVars
<1>0. TypeOK /\ TasksInv
  BY DEF TsInv
<1>1. nextId' \in Ids /\ nextId' # 0 /\ nextId' \in 0 .. MaxCalls
  BY <1>0, TsAssumption DEF TypeOK, Ids
<1>2. Append(chain, nextId') \in Seq(Ids)
  BY <1>0, <1>1, ChainAppend
<1>3. PICK k \in {"recall", "complete", "stream"} :
        /\ kind' = [kind EXCEPT ![nextId'] = k]
        /\ at' = [at EXCEPT ![t] = IF k = "stream" THEN "body" ELSE "waiting"]
  OBVIOUS
<1>4. TypeOK'
  <2>1. /\ at' \in [Tasks -> {"none", "body", "busy", "waiting", "pulling", "result", "done"}]
        /\ kind' \in [Ids -> {"none", "recall", "complete", "stream"}]
        /\ settled' \in [Ids -> Verdicts \cup {"none", "open"}]
        /\ call' \in [Tasks -> 0 .. MaxCalls]
        /\ pending' \subseteq Ids
    BY <1>0, <1>1, <1>3 DEF TypeOK
  <2> QED
    BY <1>0, <1>1, <1>2, <2>1 DEF TypeOK
<1>5. TasksInv'
  <2> SUFFICES ASSUME NEW u \in Tasks PROVE TaskInv(u)'
    BY DEF TasksInv
  <2>1. TaskInv(u)
    BY <1>0 DEF TasksInv
  <2> QED
    BY <1>0, <1>1, <1>3, <2>1 DEF TaskInv, TypeOK
<1> QED
  BY <1>4, <1>5, HandlersOnly

\* A call ends.
LEMMA EndCallKeeps ==
  ASSUME TsInv, NEW t \in Tasks, CallReturns(t) \/ DropStream(t)
  PROVE  TsInv'
<1> USE DEF CallReturns, DropStream, EndCall, In, InStream, Goes,
            hostVars, runVars, taskVars, callVars
<1>0. TypeOK /\ TasksInv
  BY DEF TsInv
<1>1. at[t] \in {"body", "waiting", "result"} /\ call[t] \in Ids
  BY <1>0 DEF TasksInv, TaskInv, TypeOK, Ids
<1>2. PICK o \in {"none", "result", "decode", "server", "transport", "timeout", "dropped"} :
        outcome' = [outcome EXCEPT ![call[t]] = o]
  <2>1. settled[call[t]] \in Verdicts \cup {"none", "open"}
    BY <1>0, <1>1 DEF TypeOK
  <2> QED
    BY <2>1 DEF Verdicts
<1>3. TypeOK'
  <2>1. /\ at' \in [Tasks -> {"none", "body", "busy", "waiting", "pulling", "result", "done"}]
        /\ outcome' \in [Ids -> {"none", "result", "decode", "server", "transport",
                                 "timeout", "dropped"}]
    BY <1>0, <1>2 DEF TypeOK
  <2>2. call' \in [Tasks -> 0 .. MaxCalls]
    <3>1. 0 \in 0 .. MaxCalls /\ call \in [Tasks -> 0 .. MaxCalls]
      BY <1>0, TsAssumption DEF TypeOK
    <3> QED
      BY <3>1
  <2> QED
    BY <1>0, <2>1, <2>2 DEF TypeOK
<1>4. TasksInv'
  <2> SUFFICES ASSUME NEW u \in Tasks PROVE TaskInv(u)'
    BY DEF TasksInv
  <2>1. TaskInv(u)
    BY <1>0 DEF TasksInv
  <2> QED
    BY <1>0, <1>1, <2>1 DEF TaskInv, TypeOK
<1> QED
  BY <1>3, <1>4, HandlersOnly

\* A handler moves on within its call, or outside of any.
LEMMA MoveKeeps ==
  ASSUME TsInv, NEW t \in Tasks,
         Pull(t) \/ Pulled(t) \/ AskResult(t) \/ GetsBusy(t) \/ BusyEnds(t)
  PROVE  TsInv'
<1> USE DEF Pull, Pulled, AskResult, GetsBusy, BusyEnds, In, InStream, Goes,
            hostVars, runVars, taskVars, callVars
<1>0. TypeOK /\ TasksInv
  BY DEF TsInv
<1>1. PICK w \in {"body", "busy", "pulling", "result"} :
        /\ at' = [at EXCEPT ![t] = w]
        /\ w \in {"pulling", "result"} => call[t] # 0
  OBVIOUS
<1>2. at[t] \in {"body", "busy", "pulling"} /\ (at[t] = "pulling" => call[t] \in Ids)
  BY <1>0 DEF TasksInv, TaskInv, TypeOK, Ids
<1>3. /\ UNCHANGED <<call, chain, inflight, nextTask, isTool>>
  OBVIOUS
<1>4. /\ buf' \in [Ids -> Seq(1 .. MaxChunks)] /\ got' \in [Ids -> Seq(1 .. MaxChunks)]
  <2>1. CASE Pulled(t) /\ buf[call[t]] # <<>>
    <3>1. call[t] \in Ids
      BY <1>2, <2>1
    <3>2. buf[call[t]] \in Seq(1 .. MaxChunks) /\ got[call[t]] \in Seq(1 .. MaxChunks)
      BY <1>0, <3>1 DEF TypeOK
    <3>3. Head(buf[call[t]]) \in 1 .. MaxChunks /\ Tail(buf[call[t]]) \in Seq(1 .. MaxChunks)
      BY <2>1, <3>2, HeadTailProperties
    <3>4. Append(got[call[t]], Head(buf[call[t]])) \in Seq(1 .. MaxChunks)
      BY <3>2, <3>3, AppendProperties
    <3> QED
      BY <1>0, <2>1, <3>1, <3>3, <3>4 DEF TypeOK
  <2>2. CASE ~(Pulled(t) /\ buf[call[t]] # <<>>)
    BY <1>0, <2>2 DEF TypeOK
  <2> QED
    BY <2>1, <2>2
<1>5. /\ at' \in [Tasks -> {"none", "body", "busy", "waiting", "pulling", "result", "done"}]
      /\ naps' \in [Tasks -> 0 .. MaxBusy]
      /\ listened' \subseteq Ids
  <2>1. at' \in [Tasks -> {"none", "body", "busy", "waiting", "pulling", "result", "done"}]
    BY <1>0, <1>1 DEF TypeOK
  <2>2. naps' \in [Tasks -> 0 .. MaxBusy]
    <3>1. /\ naps \in [Tasks -> 0 .. MaxBusy] /\ MaxBusy \in Nat
          /\ naps[t] < MaxBusy => naps[t] + 1 \in 0 .. MaxBusy
      BY <1>0, TsAssumption DEF TypeOK
    <3> QED
      BY <3>1
  <2>3. listened' \subseteq Ids
    <3>1. call[t] # 0 => call[t] \in Ids
      BY <1>0 DEF TypeOK, Ids
    <3> QED
      BY <1>0, <3>1 DEF TypeOK
  <2> QED
    BY <2>1, <2>2, <2>3
<1>6. TypeOK'
  BY <1>0, <1>3, <1>4, <1>5 DEF TypeOK
<1>7. TasksInv'
  <2> SUFFICES ASSUME NEW u \in Tasks PROVE TaskInv(u)'
    BY DEF TasksInv
  <2>1. TaskInv(u)
    BY <1>0 DEF TasksInv
  <2> QED
    BY <1>0, <1>1, <1>2, <1>3, <2>1 DEF TaskInv, TypeOK
<1> QED
  BY <1>3, <1>6, <1>7, HandlersOnly

\* A handler ends, in no call.
LEMMA ReturnKeeps ==
  ASSUME TsInv, NEW t \in Tasks, Return(t)
  PROVE  TsInv'
<1> USE DEF Return, In, Goes, hostVars, runVars, callVars
<1>0. TypeOK /\ TasksInv
  BY DEF TsInv
<1>1. TypeOK'
  <2>1. PICK encodable \in BOOLEAN :
          /\ replies' = [replies EXCEPT ![t] = IF isTool[t] /\ encodable THEN 1 ELSE 0]
          /\ broken' = (broken \/ ~encodable)
    OBVIOUS
  <2>2. /\ at' \in [Tasks -> {"none", "body", "busy", "waiting", "pulling", "result", "done"}]
        /\ inflight' \subseteq Tasks
    BY <1>0 DEF TypeOK
  <2>3. replies' \in [Tasks -> 0 .. 1]
    BY <1>0, <2>1 DEF TypeOK
  <2>4. broken' \in BOOLEAN
    BY <2>1
  <2> QED
    BY <1>0, <2>2, <2>3, <2>4 DEF TypeOK
<1>2. TasksInv'
  BY <1>0 DEF TasksInv, TaskInv, TypeOK
<1> QED
  BY <1>1, <1>2, HandlersOnly

----------------------------------------------------------------------------
(* The steps of the host *)

\* A line is put into the pipe: its work, if any, is one more invitation.
LEMMA WriteKeeps ==
  ASSUME TsInv, NEW f \in Line, Write(f),
         \/ ~IsWork(f) /\ invited' = invited
         \/ invited' = invited + 1 /\ invited < MaxTasks,
         oneShot' \subseteq OneShots, answered' \subseteq Ids, deltas' \in [Ids -> 0 .. MaxChunks],
         UNCHANGED <<closed, signals, Process>>
  PROVE  TsInv'
<1> USE DEF Write, Process, runVars, taskVars, callVars, authorVars
<1>0. TypeOK /\ WorkCount /\ DrainInv /\ pipe \in Seq(Line)
  BY DEF TsInv, TypeOK
<1>1. Append(pipe, f) \in Seq(Line)
  BY <1>0, AppendProperties
<1>2. /\ nextTask \in Nat /\ invited \in Nat /\ invited <= MaxTasks /\ MaxTasks \in Nat
      /\ Cardinality(WorkIn(lines)) \in Nat /\ Cardinality(WorkIn(pipe)) \in Nat
  BY <1>0, Numbers
<1>3. invited' \in 0 .. MaxTasks
  BY <1>2
<1>4. TypeOK'
  BY <1>0, <1>1, <1>3 DEF TypeOK
<1>5. WorkCount'
  <2> DEFINE c == Cardinality(WorkIn(lines))
             p == Cardinality(WorkIn(pipe))
             q == Cardinality(WorkIn(Append(pipe, f)))
             more == IF IsWork(f) THEN 1 ELSE 0
  <2>1. q \in Nat /\ q <= p + more
    BY <1>0, <1>1, WorkAppend, WorkFinite
  <2>2. nextTask + (c + p) <= invited
    BY <1>0 DEF WorkCount
  <2>3. more \in Nat /\ invited + more <= invited' /\ invited' \in Nat
    BY <1>2
  <2> HIDE DEF c, p, q, more
  <2>4. \A n, l, d, e, m, v, w \in Nat :
          n + (l + d) <= v /\ e <= d + m /\ v + m <= w => n + (l + e) <= w
    OBVIOUS
  <2>5. c \in Nat /\ p \in Nat
    BY <1>2 DEF c, p
  <2>6. nextTask + (c + q) <= invited'
    BY <1>2, <2>1, <2>2, <2>3, <2>4, <2>5
  <2> QED
    BY <2>6 DEF WorkCount, c, q
<1>6. DrainInv'
  BY <1>0 DEF DrainInv
<1> QED
  BY <1>4, <1>5, <1>6, TasksStay

\* What the host does keeps the invariant.
LEMMA HostKeeps ==
  ASSUME TsInv, Host
  PROVE  TsInv'
<1>0. /\ TypeOK /\ WorkCount /\ DrainInv
      /\ deltas \in [Ids -> 0 .. MaxChunks] /\ answered \subseteq Ids /\ sent \subseteq Ids
      /\ oneShot \subseteq OneShots /\ MaxChunks \in Nat
  BY TsAssumption DEF TsInv, TypeOK
<1>1. CASE HostInvites
  <2>1. PICK k \in {"event", "tool"} : Write([type |-> k])
    BY <1>1 DEF HostInvites
  <2>2. [type |-> k] \in Line
    BY DEF Line
  <2> QED
    BY <1>0, <1>1, <2>1, <2>2, WriteKeeps DEF HostInvites
<1>2. CASE HostOneShot
  <2>1. PICK k \in OneShots \ oneShot : oneShot' = oneShot \cup {k} /\ Write([type |-> k])
    BY <1>2 DEF HostOneShot
  <2>2. k \in {"other", "shutdown"}
    BY TsAssumption
  <2>3. [type |-> k] \in Line /\ ~IsWork([type |-> k])
    BY <2>2 DEF Line, IsWork
  <2> QED
    BY <1>0, <1>2, <2>1, <2>3, WriteKeeps DEF HostOneShot
<1>3. CASE HostAnswers
  <2>1. PICK i \in sent \ answered, r \in {"result", "malformed", "error"} :
          answered' = answered \cup {i} /\ Write([type |-> "reply", id |-> i, r |-> r])
    BY <1>3 DEF HostAnswers
  <2>2. /\ [type |-> "reply", id |-> i, r |-> r] \in Line
        /\ ~IsWork([type |-> "reply", id |-> i, r |-> r])
    BY <1>0 DEF Line, IsWork
  <2> QED
    BY <1>0, <1>3, <2>1, <2>2, WriteKeeps DEF HostAnswers
<1>4. CASE HostSendsDelta
  <2>1. PICK i \in sent \ answered :
          /\ deltas[i] < MaxChunks
          /\ deltas' = [deltas EXCEPT ![i] = @ + 1]
          /\ Write([type |-> "delta", id |-> i, n |-> deltas'[i]])
    BY <1>4 DEF HostSendsDelta
  <2>2. deltas'[i] \in 1 .. MaxChunks
    BY <1>0, <2>1
  <2>3. deltas' \in [Ids -> 0 .. MaxChunks]
    BY <1>0, <2>1
  <2>4. /\ [type |-> "delta", id |-> i, n |-> deltas'[i]] \in Line
        /\ ~IsWork([type |-> "delta", id |-> i, n |-> deltas'[i]])
    BY <1>0, <2>2 DEF Line, IsWork
  <2> QED
    BY <1>0, <1>4, <2>1, <2>3, <2>4, WriteKeeps DEF HostSendsDelta
<1>5. CASE HostCloses
  <2> USE <1>5 DEF HostCloses, Process, runVars, taskVars, callVars, authorVars
  <2>1. TypeOK'
    BY <1>0 DEF TypeOK
  <2>2. WorkCount' /\ DrainInv'
    BY <1>0 DEF WorkCount, DrainInv
  <2> QED
    BY <2>1, <2>2, TasksStay
<1> QED
  BY <1>1, <1>2, <1>3, <1>4, <1>5 DEF Host

----------------------------------------------------------------------------
(* The invariant holds *)

\* A step that changes nothing keeps the invariant.
LEMMA StutterKeeps ==
  ASSUME TsInv, UNCHANGED vars
  PROVE  TsInv'
<1> USE DEF vars, hostVars, runVars, taskVars, callVars, authorVars
<1>1. TypeOK' /\ WorkCount' /\ DrainInv'
  BY DEF TsInv, TypeOK, WorkCount, DrainInv
<1> QED
  BY <1>1, TasksStay

\* Every step of a TypeScript adapter keeps the invariant.
LEMMA TsStep == TsInv /\ [Next]_vars => TsInv'
<1> SUFFICES ASSUME TsInv, [Next]_vars PROVE TsInv'
  OBVIOUS
<1>1. CASE Run
  BY <1>1, HandleWorkKeeps, HandleKeeps, PlaceKeeps, WriteNextKeeps DEF Run
<1>2. CASE Turn
  BY <1>2, DataKeeps, PlaceKeeps DEF Turn
<1>3. ASSUME NEW t \in Tasks, Handler(t) \/ BusyEnds(t)
      PROVE  TsInv'
  BY <1>3, StartCallKeeps, EndCallKeeps, MoveKeeps, ReturnKeeps DEF Handler
<1> QED
  BY <1>1, <1>2, <1>3, TimerFiresKeeps, HostKeeps, StutterKeeps DEF Next

\* The inductive invariant of the TypeScript adapter: the tasks it has started,
\* the calls they wait in, the requests to be written and the end of run agree.
THEOREM TsInductive == Spec => []TsInv
BY InitTs, TsStep, PTL DEF Spec

\* The state of a TypeScript adapter, its calls and its host has the shape the
\* code gives it: no more tasks are started than were asked for.
THEOREM TsTypes == Spec => []TypeOK
<1>1. TsInv => TypeOK
  BY DEF TsInv
<1> QED
  BY <1>1, TsInductive, PTL

----------------------------------------------------------------------------
(* The registry *)

\* Whoever settles a call takes it out of the registry in the same step: a
\* reply, a timer, a write that failed, the abandon of a stop (adapter.ts,
\* broker.ts).
THEOREM RegistryHoldsOpenCalls == Spec => []RegistryIsOpenCalls
<1>1. Init => RegistryIsOpenCalls
  BY DEF Init, RegistryIsOpenCalls
<1>2. TsInv /\ RegistryIsOpenCalls /\ [Next]_vars => RegistryIsOpenCalls'
  <2> SUFFICES ASSUME TypeOK, RegistryIsOpenCalls, [Next]_vars
               PROVE  RegistryIsOpenCalls'
    BY DEF TsInv
  <2> USE DEF RegistryIsOpenCalls
  <2>1. ASSUME NEW P, NEW v \in Verdicts, Settle(P, v)
        PROVE  RegistryIsOpenCalls'
    <3>1. v # "open"
      BY DEF Verdicts
    <3> QED
      BY <2>1, <3>1 DEF Settle
  <2>2. ASSUME NEW i, NEW r, RouteResponse(i, r)
        PROVE  RegistryIsOpenCalls'
    BY <2>1, <2>2 DEF RouteResponse, Verdict, Verdicts
  <2>3. CASE AbandonPending
    BY <2>1, <2>3 DEF AbandonPending, Verdicts
  <2>4. CASE UNCHANGED <<pending, settled>>
    BY <2>4
  <2>5. CASE Run
    BY <2>1, <2>2, <2>3, <2>4, <2>5
       DEF Run, HandleWork, HandleHere, HandleReply, HandleDelta, RouteDelta, HandleShutdown,
           ReplyShutdown, Leave, FinalDrainDone, WriteNext, Verdicts, callVars
  <2>6. CASE Turn
    BY <2>4, <2>6 DEF Turn, Data, Sigterm, Crash, callVars
  <2>7. ASSUME NEW t \in Tasks, StartCall(t)
        PROVE  RegistryIsOpenCalls'
    <3>1. nextId' \in Ids
      BY <2>7, TsAssumption DEF StartCall, TypeOK, Ids
    <3> QED
      BY <2>7, <3>1 DEF StartCall, TypeOK
  <2>8. ASSUME NEW t \in Tasks, Handler(t) \/ BusyEnds(t)
        PROVE  RegistryIsOpenCalls'
    BY <2>4, <2>7, <2>8
       DEF Handler, CallReturns, Pull, Pulled, AskResult, DropStream, GetsBusy, Return, BusyEnds,
           callVars
  <2>9. ASSUME NEW i \in Ids, TimerFires(i)
        PROVE  RegistryIsOpenCalls'
    BY <2>1, <2>9 DEF TimerFires, Verdicts
  <2>10. CASE Host
    BY <2>4, <2>10 DEF Host, HostInvites, HostOneShot, HostAnswers, HostSendsDelta, HostCloses,
                       Process, callVars
  <2> QED
    BY <2>4, <2>5, <2>6, <2>8, <2>9, <2>10 DEF Next, vars, callVars
<1> QED
  BY <1>1, <1>2, TsInductive, PTL DEF Spec

----------------------------------------------------------------------------
(* The acknowledgement *)

\* Nothing is in flight behind the acknowledgement: no task replies, and none
\* puts a request on the write chain any more.
THEOREM AckEndsTheWork == Spec => AckEndsWork
<1>1. TsInv /\ [Next]_vars => [acked => UNCHANGED <<replies, nextId>>]_vars
  <2> SUFFICES ASSUME TsInv, Next, acked
               PROVE  UNCHANGED <<replies, nextId>>
    BY DEF vars
  <2>1. inflight = {} /\ stopped /\ \A t \in Tasks : at[t] \in {"none", "done"} /\ call[t] = 0
    BY DEF TsInv, DrainInv, TasksInv, TaskInv, TypeOK
  <2>2. CASE Run
    BY <2>1, <2>2
       DEF Run, HandleWork, HandleHere, HandleReply, HandleDelta, HandleShutdown, Handling,
           ReplyShutdown, Leave, FinalDrainDone, WriteNext, AbandonPending, taskVars, callVars
  <2>3. CASE Turn
    BY <2>3 DEF Turn, Data, Sigterm, Crash, taskVars, callVars
  <2>4. ASSUME NEW t \in Tasks, Handler(t) \/ BusyEnds(t)
        PROVE  FALSE
    BY <2>1, <2>4
       DEF Handler, StartCall, CallReturns, Pull, Pulled, AskResult, DropStream, GetsBusy, Return,
           BusyEnds, In, InStream
  <2>5. ASSUME NEW i \in Ids, TimerFires(i)
        PROVE  UNCHANGED <<replies, nextId>>
    BY <2>5 DEF TimerFires, taskVars
  <2>6. CASE Host
    BY <2>6 DEF Host, HostInvites, HostOneShot, HostAnswers, HostSendsDelta, HostCloses,
                Process, taskVars, callVars
  <2> QED
    BY <2>2, <2>3, <2>4, <2>5, <2>6 DEF Next
<1> QED
  BY <1>1, TsInductive, PTL DEF Spec, AckEndsWork

\* A task that is over has answered its tool.
Answered == \A t \in Tasks : at[t] = "done" /\ isTool[t] => replies[t] = 1

\* Error details can be serialized.
Serializable == "badDetails" \notin Faults

\* With serializable results, a tool task that is done has its answer.
LEMMA AnsweredStep ==
  ASSUME Serializable, TsInv, Answered, [Next]_vars
  PROVE  Answered'
<1> USE DEF Answered
<1>0. TypeOK
  BY DEF TsInv
<1>1. ASSUME NEW t \in Tasks, Return(t)
      PROVE  Answered'
  <2>1. replies' = [replies EXCEPT ![t] = IF isTool[t] THEN 1 ELSE 0]
    BY <1>1 DEF Return, Serializable
  <2> QED
    BY <1>0, <1>1, <2>1 DEF Return, Goes, TypeOK
<1>2. ASSUME NEW t \in Tasks, NEW w, w # "done", at' = [at EXCEPT ![t] = w],
             UNCHANGED <<isTool, replies>>
      PROVE  Answered'
  BY <1>0, <1>2 DEF TypeOK
<1>3. ASSUME NEW t \in Tasks, Handler(t) \/ BusyEnds(t)
      PROVE  Answered'
  <2>1. CASE Return(t)
    BY <1>1, <2>1
  <2>2. CASE ~Return(t)
    <3>1. PICK w \in {"body", "busy", "waiting", "pulling", "result"} :
            at' = [at EXCEPT ![t] = w]
      BY <1>3, <2>2
         DEF Handler, StartCall, CallReturns, Pull, Pulled, AskResult, DropStream, GetsBusy,
             BusyEnds, EndCall, Goes
    <3>2. UNCHANGED <<isTool, replies>>
      BY <1>3, <2>2
         DEF Handler, StartCall, CallReturns, Pull, Pulled, AskResult, DropStream, GetsBusy,
             BusyEnds, taskVars
    <3> QED
      BY <1>2, <3>1, <3>2
  <2> QED
    BY <2>1, <2>2
<1>4. CASE HandleWork
  BY <1>0, <1>4, HandleWorkKeeps DEF HandleWork, TypeOK
<1>5. CASE UNCHANGED <<at, isTool, replies>>
  BY <1>5
<1>6. CASE Run
  BY <1>4, <1>5, <1>6
     DEF Run, HandleHere, HandleReply, HandleDelta, HandleShutdown, ReplyShutdown, Leave,
         FinalDrainDone, WriteNext, taskVars, authorVars
<1>7. CASE Turn
  BY <1>5, <1>7 DEF Turn, Data, Sigterm, Crash, taskVars, authorVars
<1>8. ASSUME NEW i \in Ids, TimerFires(i)
      PROVE  Answered'
  BY <1>5, <1>8 DEF TimerFires, taskVars, authorVars
<1>9. CASE Host
  BY <1>5, <1>9 DEF Host, HostInvites, HostOneShot, HostAnswers, HostSendsDelta, HostCloses,
                    Process, taskVars, authorVars
<1> QED
  BY <1>3, <1>5, <1>6, <1>7, <1>8, <1>9 DEF Next, vars, taskVars, authorVars

\* The shutdown is acknowledged only when every task is over and every
\* tool.invoke that was read was answered once, as long as error details can be
\* serialized.
THEOREM AcksAfterReplies == ASSUME Serializable PROVE Spec => []AckAfterReplies
<1>1. Init => Answered
  BY DEF Init, Answered
<1>2. TsInv /\ Answered /\ [Next]_vars => Answered'
  BY AnsweredStep
<1>3. TsInv /\ Answered => AckAfterReplies
  <2> SUFFICES ASSUME TsInv, Answered, acked
               PROVE  AckAfterReplies
    BY DEF AckAfterReplies
  <2>1. inflight = {} /\ nextTask \in 0 .. MaxTasks /\ MaxTasks \in Nat
    BY TsAssumption DEF TsInv, DrainInv, TypeOK
  <2>2. \A t \in 1 .. nextTask : t \in Tasks /\ ~(t > nextTask)
    BY <2>1 DEF Tasks
  <2>3. \A t \in 1 .. nextTask : at[t] = "done"
    BY <2>1, <2>2 DEF TsInv, TasksInv, TaskInv
  <2> QED
    BY <2>1, <2>2, <2>3 DEF Answered, AckAfterReplies
<1> QED
  BY <1>1, <1>2, <1>3, TsInductive, PTL DEF Spec

----------------------------------------------------------------------------
(* Node does not end the process, and the adapter stops gracefully *)

\* Authors await nothing else between two chunks, look at the result of their
\* streams and throw what can be encoded, and no signal comes behind `finally`.
Gentle == Faults \subseteq {"lateStream"}

\* A stream whose result nobody awaits yet is in the hands of its author.
StreamsHeld == \A i \in Ids : kind[i] = "stream" /\ i \notin listened
                 => \E t \in Tasks : call[t] = i /\ at[t] \in {"body", "pulling"}

\* A stream that failed ends its iterator.
FailedAreShut == \A i \in Ids : kind[i] = "stream" /\ settled[i] \in {"server", "transport"}
                   => i \in shut

Unharmed == ~broken /\ pc # "killed" /\ StreamsHeld /\ FailedAreShut

\* With its author at work on it, a failed stream is never left unheard at the
\* end of a turn.
LEMMA NobodyUnhandled ==
  ASSUME TsInv, Unharmed, Quiet
  PROVE  ~Unhandled
<1> SUFFICES ASSUME NEW i \in Ids \ listened,
                    kind[i] = "stream", settled[i] \in {"server", "transport"}
             PROVE  FALSE
  BY DEF Unhandled, Unharmed
<1>1. i \in shut
  BY DEF Unharmed, FailedAreShut
<1>2. PICK t \in Tasks : call[t] = i /\ at[t] \in {"body", "pulling"}
  BY DEF Unharmed, StreamsHeld
<1> QED
  BY <1>1, <1>2 DEF Quiet, AuthorWaits

\* A handler's step keeps hold of the streams that are not listened to.
LEMMA HandlerHolds ==
  ASSUME Gentle, TsInv, Unharmed, NEW t \in Tasks, Handler(t) \/ BusyEnds(t)
  PROVE  StreamsHeld'
<1>0. /\ TypeOK
      /\ "busyStream" \notin Faults /\ "dropStream" \notin Faults
  BY DEF TsInv, Gentle
<1> SUFFICES ASSUME NEW i \in Ids, kind'[i] = "stream", i \notin listened'
             PROVE  \E u \in Tasks : call'[u] = i /\ at'[u] \in {"body", "pulling"}
  BY DEF StreamsHeld
<1>1. ASSUME kind[i] = "stream", i \notin listened,
             \A u \in Tasks : call[u] = i /\ at[u] \in {"body", "pulling"}
                                => call'[u] = i /\ at'[u] \in {"body", "pulling"}
      PROVE  \E u \in Tasks : call'[u] = i /\ at'[u] \in {"body", "pulling"}
  <2>1. PICK u \in Tasks : call[u] = i /\ at[u] \in {"body", "pulling"}
    BY <1>1 DEF Unharmed, StreamsHeld
  <2> QED
    BY <1>1, <2>1
<1>2. i # 0
  BY DEF Ids
<1>3. CASE StartCall(t)
  <2> USE <1>3 DEF StartCall, In, Goes, authorVars
  <2>1. nextId' \in Ids
    BY <1>0, TsAssumption DEF TypeOK, Ids
  <2>2. CASE i = nextId'
    BY <1>0, <2>1, <2>2 DEF TypeOK
  <2>3. CASE i # nextId'
    BY <1>0, <1>1, <1>2, <2>1, <2>3 DEF TypeOK
  <2> QED
    BY <2>2, <2>3
<1>4. CASE CallReturns(t)
  BY <1>0, <1>1, <1>4 DEF CallReturns, EndCall, In, Goes, TypeOK, callVars
<1>5. CASE Pull(t) \/ Pulled(t) \/ BusyEnds(t)
  BY <1>0, <1>1, <1>5 DEF Pull, Pulled, BusyEnds, In, InStream, Goes, TypeOK, callVars
<1>6. CASE AskResult(t)
  BY <1>0, <1>1, <1>6 DEF AskResult, In, InStream, Goes, TypeOK, callVars
<1>7. CASE GetsBusy(t) \/ Return(t)
  BY <1>0, <1>1, <1>2, <1>7 DEF GetsBusy, Return, In, Goes, TypeOK, callVars
<1>8. ~DropStream(t)
  BY <1>0 DEF DropStream
<1> QED
  BY <1>3, <1>4, <1>5, <1>6, <1>7, <1>8 DEF Handler

\* A failure and the end of the iterator are one step.
LEMMA FailedShutStep ==
  ASSUME TypeOK, FailedAreShut, [Next]_vars
  PROVE  FailedAreShut'
<1> USE DEF FailedAreShut
<1>1. ASSUME NEW P, NEW v, Settle(P, v), kind' = kind
      PROVE  FailedAreShut'
  BY <1>1 DEF Settle
<1>2. CASE UNCHANGED <<kind, settled, shut>>
  BY <1>2
<1>3. CASE Run
  BY <1>1, <1>2, <1>3
     DEF Run, HandleWork, HandleHere, HandleReply, HandleDelta, RouteResponse, RouteDelta,
         HandleShutdown, ReplyShutdown, Leave, FinalDrainDone, WriteNext, AbandonPending, callVars
<1>4. CASE Turn
  BY <1>2, <1>4 DEF Turn, Data, Sigterm, Crash, callVars
<1>5. ASSUME NEW t \in Tasks, StartCall(t)
      PROVE  FailedAreShut'
  <2>1. nextId' \in Ids
    BY <1>5, TsAssumption DEF StartCall, TypeOK, Ids
  <2> QED
    BY <1>5, <2>1 DEF StartCall, TypeOK
<1>6. ASSUME NEW t \in Tasks, Handler(t) \/ BusyEnds(t)
      PROVE  FailedAreShut'
  BY <1>2, <1>5, <1>6
     DEF Handler, CallReturns, Pull, Pulled, AskResult, DropStream, GetsBusy, Return, BusyEnds,
         callVars
<1>7. ASSUME NEW i \in Ids, TimerFires(i)
      PROVE  FailedAreShut'
  BY <1>1, <1>7 DEF TimerFires
<1>8. CASE Host
  BY <1>2, <1>8 DEF Host, HostInvites, HostOneShot, HostAnswers, HostSendsDelta, HostCloses,
                    Process, callVars
<1> QED
  BY <1>2, <1>3, <1>4, <1>6, <1>7, <1>8 DEF Next, vars, callVars

\* With gentle authors, no step leaves a failed stream that nobody listens to.
LEMMA UnharmedStep ==
  ASSUME Gentle, TsInv, Unharmed, [Next]_vars
  PROVE  Unharmed'
<1>0. /\ TypeOK /\ FailedAreShut'
      /\ "badDetails" \notin Faults /\ "lateSignal" \notin Faults
  BY FailedShutStep DEF TsInv, Unharmed, Gentle
<1>1. ~Crash
  BY NobodyUnhandled DEF Crash
<1>2. CASE UNCHANGED <<broken, kind, listened, call, at>> /\ pc' # "killed"
  BY <1>0, <1>2 DEF Unharmed, StreamsHeld
<1>3. CASE HandleWork
  BY <1>0, <1>3, HandleWorkKeeps
     DEF HandleWork, Unharmed, StreamsHeld, TypeOK, callVars
<1>4. CASE Run
  BY <1>2, <1>3, <1>4
     DEF Run, HandleHere, HandleReply, HandleDelta, RouteResponse, RouteDelta, HandleShutdown,
         ReplyShutdown, Leave, FinalDrainDone, WriteNext, AbandonPending, Unharmed, Alive,
         runVars, taskVars, callVars, authorVars
<1>5. CASE Turn
  BY <1>0, <1>1, <1>2, <1>5
     DEF Turn, Data, Sigterm, Unharmed, taskVars, callVars, authorVars
<1>6. ASSUME NEW t \in Tasks, Handler(t) \/ BusyEnds(t)
      PROVE  Unharmed'
  <2>0. ASSUME Return(t)
        PROVE  ~broken' /\ pc' # "killed"
    <3>1. PICK encodable \in {TRUE} \cup {b \in {FALSE} : "badDetails" \in Faults /\ isTool[t]} :
            broken' = (broken \/ ~encodable)
      BY <2>0 DEF Return
    <3>2. encodable = TRUE
      BY <1>0
    <3>3. ~broken'
      BY <3>1, <3>2, Zenon DEF Unharmed
    <3> QED
      BY <2>0, <3>3 DEF Unharmed, Return, runVars
  <2>1. ~broken' /\ pc' # "killed"
    BY <1>6, <2>0
       DEF Unharmed, Handler, StartCall, CallReturns, Pull, Pulled, AskResult, DropStream,
           GetsBusy, BusyEnds, runVars, taskVars
  <2>2. StreamsHeld'
    BY <1>6, HandlerHolds
  <2> QED
    BY <1>0, <2>1, <2>2 DEF Unharmed
<1>7. ASSUME NEW i \in Ids, TimerFires(i)
      PROVE  Unharmed'
  BY <1>2, <1>7 DEF TimerFires, Unharmed, runVars, taskVars, authorVars
<1>8. CASE Host
  BY <1>2, <1>8 DEF Host, HostInvites, HostOneShot, HostAnswers, HostSendsDelta, HostCloses,
                    Process, Unharmed, runVars, taskVars, callVars, authorVars
<1> QED
  BY <1>2, <1>4, <1>5, <1>6, <1>7, <1>8
     DEF Next, vars, Unharmed, runVars, taskVars, callVars, authorVars

\* With gentle authors, the loop is not broken and the process is not ended.
LEMMA UnharmedInductive == ASSUME Gentle PROVE Spec => []Unharmed
<1>1. Init => Unharmed
  BY DEF Init, Unharmed, StreamsHeld, FailedAreShut
<1>2. TsInv /\ Unharmed /\ [Next]_vars => Unharmed'
  BY UnharmedStep
<1> QED
  BY <1>1, <1>2, TsInductive, PTL DEF Spec

\* Node never ends the process of a plugin whose authors are gentle: no promise
\* is rejected that nobody listens to, whatever the shutdown abandons.
THEOREM NeverCrashes == ASSUME Gentle PROVE Spec => [](pc # "killed")
<1>1. Unharmed => pc # "killed"
  BY DEF Unharmed
<1> QED
  BY <1>1, UnharmedInductive, PTL

\* A step that does not end the process is a step of a graceful stop, or none.
LEMMA GracefulStep ==
  ASSUME TsInv, pc' # "killed", [Next]_vars
  PROVE  [Graceful!StopNext]_(Graceful!stopVars)
<1> USE DEF Graceful!StopNext, Graceful!stopVars
<1>0. /\ TypeOK
      /\ acked => inflight = {} /\ stopped /\ pc # "drain"
      /\ pc = "exited" => inflight = {}
  BY DEF TsInv, DrainInv
<1>1. CASE HandleWork
  <2>1. nextTask' \in Tasks /\ nextTask' \notin inflight
    BY <1>1, HandleWorkKeeps
  <2>2. Graceful!Take(nextTask')
    BY <1>0, <1>1, <2>1 DEF HandleWork, Handling, Graceful!Take
  <2> QED
    BY <2>1, <2>2
<1>2. ASSUME NEW t \in Tasks, Return(t)
      PROVE  Graceful!StopNext
  <2>1. t \in inflight
    BY <1>2 DEF Return, In, TsInv, TasksInv, TaskInv
  <2>2. Graceful!Complete(t)
    BY <1>2, <2>1 DEF Return, runVars, Graceful!Complete
  <2> QED
    BY <2>2
<1>3. CASE HandleShutdown
  BY <1>0, <1>3 DEF HandleShutdown, Handling, taskVars, Graceful!BeginStop
<1>4. CASE ReplyShutdown
  BY <1>0, <1>4 DEF ReplyShutdown, taskVars, Graceful!Acknowledge
<1>5. CASE Leave
  BY <1>0, <1>5 DEF Leave, taskVars, Graceful!BeginStop
<1>6. CASE FinalDrainDone
  BY <1>0, <1>6 DEF FinalDrainDone, taskVars, Graceful!Exit
<1>7. CASE UNCHANGED <<pc, acked, inflight>>
  BY <1>7
<1>8. CASE Run
  BY <1>1, <1>3, <1>4, <1>5, <1>6, <1>7, <1>8
     DEF Run, HandleHere, HandleReply, HandleDelta, Handling, WriteNext, runVars, taskVars
<1>9. CASE Turn
  BY <1>7, <1>9 DEF Turn, Data, Sigterm, Crash, taskVars
<1>10. ASSUME NEW t \in Tasks, Handler(t) \/ BusyEnds(t)
       PROVE  [Graceful!StopNext]_(Graceful!stopVars)
  BY <1>2, <1>7, <1>10
     DEF Handler, StartCall, CallReturns, Pull, Pulled, AskResult, DropStream, GetsBusy, BusyEnds,
         runVars, taskVars
<1>11. ASSUME NEW i \in Ids, TimerFires(i)
       PROVE  [Graceful!StopNext]_(Graceful!stopVars)
  BY <1>7, <1>11 DEF TimerFires, runVars, taskVars
<1>12. CASE Host
  BY <1>7, <1>12 DEF Host, HostInvites, HostOneShot, HostAnswers, HostSendsDelta, HostCloses,
                     Process, runVars, taskVars
<1> QED
  BY <1>7, <1>8, <1>9, <1>10, <1>11, <1>12 DEF Next, vars, runVars, taskVars

\* The adapter takes no work once it stops, and it acknowledges or exits only
\* when what it had taken is done, as long as its authors are gentle.
THEOREM AdapterStopsGracefully == ASSUME Gentle PROVE Spec => StopsGracefully
<1>1. Init => Graceful!StopInit
  BY DEF Init, Graceful!StopInit
<1>2. TsInv /\ (pc # "killed")' /\ [Next]_vars => [Graceful!StopNext]_(Graceful!stopVars)
  BY GracefulStep
<1> QED
  BY <1>1, <1>2, TsInductive, NeverCrashes, PTL DEF Spec, StopsGracefully, Graceful!StopSpec

----------------------------------------------------------------------------
(* What an author reads of a stream *)

\* What the loop will still see of the host, the oldest line first.
Flow == lines \o pipe

\* What a stream yielded and will yield, of what was routed to it.
Routed(i) == got[i] \o buf[i]

\* While a call is registered the rest of its stream is on its way; when it got
\* a result nothing of it is missing.
StreamInv(i) ==
  /\ \A k \in DOMAIN Routed(i) : Routed(i)[k] = k
  /\ i \in pending => /\ Len(Routed(i)) <= deltas[i]
                      /\ Holds(Flow, i, Len(Routed(i)), deltas[i], i \in answered)
  /\ settled[i] = "result" => i \in answered /\ Len(Routed(i)) = deltas[i]
  /\ kind[i] = "stream" /\ i \notin pending => i \in shut
  /\ kind[i] # "stream" => deltas[i] = 0

\* No line is about a request that was not written, and no request that was not
\* made is written or waits to be.
NoneAhead ==
  /\ \A p \in DOMAIN Flow : Flow[p].type \in {"reply", "delta"} => Flow[p].id \in sent
  /\ \A i \in Ids : i > nextId =>
       i \notin sent /\ i \notin ToSet(chain) /\ kind[i] = "none" /\ Routed(i) = <<>>

StreamsInv == NoneAhead /\ \A i \in Ids : StreamInv(i)

\* What a line about a call says.
LEMMA LineTypes ==
  ASSUME NEW f \in Line
  PROVE  /\ f.type \in {"reply", "delta"} => f.id \in Ids
         /\ f.type = "delta" => f.n \in 1 .. MaxChunks
         /\ f.type = "reply" => f.r \in {"result", "malformed", "error"}
BY DEF Line

----------------------------------------------------------------------------
(* The streams, over the steps *)

\* The types of what the streams are made of.
LEMMA StreamTypes ==
  ASSUME TypeOK
  PROVE  /\ Flow \in Seq(Line) /\ MaxChunks \in Nat
         /\ \A i \in Ids : /\ got[i] \in Seq(1 .. MaxChunks) /\ buf[i] \in Seq(1 .. MaxChunks)
                           /\ Routed(i) \in Seq(1 .. MaxChunks) /\ Len(Routed(i)) \in Nat
                           /\ deltas[i] \in Nat /\ (i \in answered) \in BOOLEAN
         /\ \A f \in Line : f.type = "delta" => f.n \in Nat
<1>1. lines \in Seq(Line) /\ pipe \in Seq(Line)
  BY DEF TypeOK
<1>2. \A i \in Ids : got[i] \in Seq(1 .. MaxChunks) /\ buf[i] \in Seq(1 .. MaxChunks)
                     /\ deltas[i] \in 0 .. MaxChunks
  BY DEF TypeOK
<1>3. \A i \in Ids : Routed(i) \in Seq(1 .. MaxChunks)
  BY <1>2, ConcatProperties DEF Routed
<1> QED
  BY <1>1, <1>2, <1>3, LineTypes, ConcatProperties, LenProperties, TsAssumption DEF Flow

\* A chunk behind the buffer is behind the stream, and one moved from the buffer
\* to the author stays where it is.
LEMMA ChunkMoves ==
  ASSUME NEW g \in Seq(1 .. MaxChunks), NEW b \in Seq(1 .. MaxChunks)
  PROVE  /\ \A n \in 1 .. MaxChunks : g \o Append(b, n) = Append(g \o b, n)
         /\ b # <<>> => Append(g, Head(b)) \o Tail(b) = g \o b
<1>1. \A n \in 1 .. MaxChunks : g \o Append(b, n) = Append(g \o b, n)
  OBVIOUS
<1>2. b # <<>> => Append(g, Head(b)) \o Tail(b) = g \o b
  OBVIOUS
<1> QED
  BY <1>1, <1>2

\* How the three that move lines change the flow: the loop takes the oldest,
\* readline moves all of them, the host puts one behind.
LEMMA FlowMoves ==
  ASSUME TypeOK
  PROVE  /\ lines # <<>> /\ lines' = Tail(lines) /\ pipe' = pipe =>
              Flow # <<>> /\ Head(Flow) = Head(lines) /\ Flow' = Tail(Flow)
         /\ lines' = lines \o pipe /\ pipe' = <<>> => Flow' = Flow
         /\ \A f \in Line : lines' = lines /\ pipe' = Append(pipe, f) => Flow' = Append(Flow, f)
<1>1. lines \in Seq(Line) /\ pipe \in Seq(Line)
  BY DEF TypeOK
<1>2. ASSUME lines # <<>>
      PROVE  Flow # <<>> /\ Head(Flow) = Head(lines) /\ Tail(Flow) = Tail(lines) \o pipe
  BY <1>1, <1>2 DEF Flow
<1>3. (lines \o pipe) \o <<>> = lines \o pipe
  BY <1>1
<1>4. \A f \in Line : lines \o Append(pipe, f) = Append(lines \o pipe, f)
  BY <1>1
<1> QED
  BY <1>1, <1>2, <1>3, <1>4 DEF Flow

\* The rest of a stream is where it was, or a line that is not of it was moved.
Rest(i) ==
  i \in pending' /\ Holds(Flow, i, Len(Routed(i)), deltas[i], i \in answered) =>
    Holds(Flow, i, Len(Routed(i)), deltas[i], i \in answered)'

\* A step that neither brings a stream forward nor gives it a result.
LEMMA StreamStays ==
  ASSUME TypeOK, NEW i \in Ids, StreamInv(i), Rest(i),
         Routed(i)' = Routed(i), deltas'[i] = deltas[i],
         kind'[i] = kind[i], i \in answered => i \in answered',
         i \in pending' => i \in pending,
         settled'[i] = "result" => settled[i] = "result",
         i \in shut => i \in shut',
         kind[i] = "stream" /\ i \in pending /\ i \notin pending' => i \in shut'
  PROVE  StreamInv(i)'
BY DEF StreamInv, Rest

\* Neither the flow, nor the streams, nor the host has moved.
LEMMA RestStays ==
  ASSUME TypeOK, UNCHANGED <<deltas, answered>>, Flow' = Flow,
         NEW i \in Ids, Routed(i)' = Routed(i)
  PROVE  Rest(i)
BY DEF Rest

\* The loop takes a line that is no chunk of the stream.
LEMMA RestTaken ==
  ASSUME TypeOK, UNCHANGED <<deltas, answered>>, Flow # <<>>, Flow' = Tail(Flow),
         NEW i \in Ids, Routed(i)' = Routed(i), ~IsDelta(Head(Flow), i)
  PROVE  Rest(i)
<1>1. /\ Flow \in Seq(Line) /\ Len(Routed(i)) \in Nat /\ deltas[i] \in Nat
      /\ (i \in answered) \in BOOLEAN
  BY StreamTypes
<1>2. Holds(Flow, i, Len(Routed(i)), deltas[i], i \in answered) =>
        Holds(Tail(Flow), i, Len(Routed(i)), deltas[i], i \in answered)
  BY <1>1, HoldsTail
<1> QED
  BY <1>2 DEF Rest

\* Settling is over for the ones settled, and leaves the others.
LEMMA SettledStays ==
  ASSUME TypeOK, NEW P, NEW v, v # "result", Settle(P, v),
         UNCHANGED kind, NEW i \in Ids
  PROVE  /\ i \in pending' => i \in pending
         /\ settled'[i] = "result" => settled[i] = "result"
         /\ i \in shut => i \in shut'
         /\ kind[i] = "stream" /\ i \in pending /\ i \notin pending' => i \in shut'
BY DEF Settle

\* Nobody is ahead after a step that starts no call.
LEMMA AheadStays ==
  ASSUME TypeOK, NoneAhead,
         \/ Flow' = Flow
         \/ Flow # <<>> /\ Flow' = Tail(Flow)
         \/ \E f \in Line : /\ Flow' = Append(Flow, f)
                            /\ f.type \in {"reply", "delta"} => f.id \in sent,
         sent \subseteq sent', sent' \subseteq sent \cup ToSet(chain),
         ToSet(chain') \subseteq ToSet(chain), UNCHANGED <<nextId, kind>>,
         \A i \in Ids : i > nextId => Routed(i)' = Routed(i)
  PROVE  NoneAhead'
<1>0. Flow \in Seq(Line)
  BY StreamTypes
<1>1. \A p \in DOMAIN Flow : Flow[p].type \in {"reply", "delta"} => Flow[p].id \in sent
  BY DEF NoneAhead
<1>2. \A p \in DOMAIN Flow' : Flow'[p].type \in {"reply", "delta"} => Flow'[p].id \in sent'
  <2>1. CASE Flow' = Flow
    BY <1>1, <2>1
  <2>2. CASE Flow # <<>> /\ Flow' = Tail(Flow)
    <3>1. \A p \in DOMAIN Tail(Flow) : p + 1 \in DOMAIN Flow /\ Tail(Flow)[p] = Flow[p + 1]
      BY <1>0, <2>2, LinesAt
    <3> QED
      BY <1>1, <2>2, <3>1
  <2>3. ASSUME NEW f \in Line, Flow' = Append(Flow, f),
               f.type \in {"reply", "delta"} => f.id \in sent
        PROVE  \A p \in DOMAIN Flow' : Flow'[p].type \in {"reply", "delta"} => Flow'[p].id \in sent'
    <3>1. \A p \in DOMAIN Append(Flow, f) :
            (p \in DOMAIN Flow /\ Append(Flow, f)[p] = Flow[p]) \/ Append(Flow, f)[p] = f
      BY <1>0, LinesAt
    <3> QED
      BY <1>1, <2>3, <3>1
  <2> QED
    BY <2>1, <2>2, <2>3
<1>3. \A i \in Ids : i > nextId =>
        i \notin sent' /\ i \notin ToSet(chain') /\ kind'[i] = "none" /\ Routed(i)' = <<>>
  BY DEF NoneAhead
<1> QED
  BY <1>2, <1>3 DEF NoneAhead

\* A step that neither routes a chunk or a reply, nor starts a call, nor is the
\* host's.
LEMMA NothingRouted ==
  ASSUME TypeOK, StreamsInv,
         \/ Flow' = Flow
         \/ Flow # <<>> /\ Flow' = Tail(Flow) /\ Head(Flow).type # "delta",
         UNCHANGED <<deltas, answered, kind, nextId>>,
         \A i \in Ids : Routed(i)' = Routed(i),
         \/ UNCHANGED <<pending, settled, shut>>
         \/ \E P, v : v # "result" /\ Settle(P, v),
         sent \subseteq sent', sent' \subseteq sent \cup ToSet(chain),
         ToSet(chain') \subseteq ToSet(chain)
  PROVE  StreamsInv'
<1>1. NoneAhead'
  BY AheadStays DEF StreamsInv
<1>2. ASSUME NEW i \in Ids PROVE StreamInv(i)'
  <2>1. Rest(i)
    BY RestStays, RestTaken DEF IsDelta
  <2>2. /\ i \in pending' => i \in pending
        /\ settled'[i] = "result" => settled[i] = "result"
        /\ i \in shut => i \in shut'
        /\ kind[i] = "stream" /\ i \in pending /\ i \notin pending' => i \in shut'
    BY SettledStays
  <2>3. StreamInv(i)
    BY DEF StreamsInv
  <2> QED
    BY <2>1, <2>2, <2>3, StreamStays
<1> QED
  BY <1>1, <1>2 DEF StreamsInv

\* A reply is routed: to its stream when every chunk was, for the lines before it
\* were read before it.
LEMMA ReplyRouted ==
  ASSUME TypeOK, RegistryIsOpenCalls, StreamsInv, HandleReply
  PROVE  StreamsInv'
<1> DEFINE j == Head(lines).id
           v == Verdict(j, Head(lines).r)
<1>1. /\ Flow # <<>> /\ Head(Flow) = Head(lines) /\ Flow' = Tail(Flow)
      /\ Head(Flow).type = "reply" /\ IsReply(Head(Flow), j)
  <2>1. Head(lines).type = "reply"
    BY DEF HandleReply, Handling
  <2> QED
    BY <2>1, FlowMoves DEF HandleReply, Handling, hostVars, IsReply
<1>2. Settle({j} \cap pending, v) /\ UNCHANGED <<nextId, kind, chain, sent, buf>>
  BY DEF HandleReply, RouteResponse
<1>3. UNCHANGED <<deltas, answered, got>>
  BY DEF HandleReply, Handling, hostVars, authorVars
<1>4. \A i \in Ids : Routed(i)' = Routed(i)
  BY <1>2, <1>3 DEF Routed
<1>5. NoneAhead'
  BY <1>1, <1>2, <1>4, AheadStays DEF StreamsInv
<1>6. ASSUME NEW i \in Ids PROVE StreamInv(i)'
  <2>0. StreamInv(i)
    BY DEF StreamsInv
  <2>1. Rest(i)
    BY <1>1, <1>3, <1>4, RestTaken DEF IsDelta
  <2>2. CASE i \in {j} \cap pending
    <3>1. i \notin pending' /\ (kind[i] = "stream" => i \in shut')
      BY <1>2, <2>2 DEF Settle
    <3>2. i \in answered /\ Len(Routed(i)) = deltas[i]
      <4>1. /\ Flow \in Seq(Line) /\ Len(Routed(i)) \in Nat /\ deltas[i] \in Nat
            /\ (i \in answered) \in BOOLEAN
        BY StreamTypes
      <4>2. /\ Holds(Flow, i, Len(Routed(i)), deltas[i], i \in answered)
            /\ Len(Routed(i)) <= deltas[i] /\ IsReply(Head(Flow), i)
        BY <1>1, <2>0, <2>2 DEF StreamInv
      <4> QED
        BY <1>1, <4>1, <4>2, HoldsReply
    <3> QED
      BY <1>2, <1>3, <1>4, <2>0, <3>1, <3>2 DEF StreamInv
  <2>3. CASE i \notin {j} \cap pending
    <3>1. /\ i \in pending' <=> i \in pending
          /\ settled'[i] = settled[i]
          /\ i \in shut => i \in shut'
      BY <1>2, <2>3 DEF Settle, TypeOK
    <3> QED
      BY <1>2, <1>3, <1>4, <2>0, <2>1, <3>1, StreamStays
  <2> QED
    BY <2>2, <2>3
<1> QED
  BY <1>5, <1>6 DEF StreamsInv

\* A chunk is routed: it is the next one of its stream.
LEMMA ChunkRouted ==
  ASSUME TypeOK, StreamsInv, HandleDelta
  PROVE  StreamsInv'
<1> DEFINE j == Head(lines).id
           n == Head(lines).n
<1>1. /\ Flow # <<>> /\ Head(Flow) = Head(lines) /\ Flow' = Tail(Flow)
      /\ Head(Flow).type = "delta" /\ Flow \in Seq(Line) /\ 1 \in DOMAIN Flow
      /\ Head(Flow) = Flow[1]
  <2>1. Head(lines).type = "delta"
    BY DEF HandleDelta, Handling
  <2> QED
    BY <2>1, FlowMoves, StreamTypes, LinesAt DEF HandleDelta, Handling, hostVars
<1>2. /\ buf' = IF j \in pending /\ kind[j] = "stream" THEN [buf EXCEPT ![j] = Append(@, n)] ELSE buf
      /\ UNCHANGED <<nextId, kind, pending, chain, sent, settled, shut>>
  BY DEF HandleDelta, RouteDelta
<1>3. UNCHANGED <<deltas, answered, got>>
  BY DEF HandleDelta, Handling, hostVars, authorVars
<1>4. j \in sent /\ j \in Ids /\ n \in 1 .. MaxChunks
  <2>1. j \in sent
    BY <1>1 DEF StreamsInv, NoneAhead
  <2>2. Head(Flow) \in Line
    BY <1>1, LinesAt
  <2> QED
    BY <1>1, <2>1, <2>2, LineTypes
<1>5. \A i \in Ids : i # j \/ i \notin pending \/ kind[i] # "stream" => Routed(i)' = Routed(i)
  BY <1>2, <1>3, <1>4 DEF Routed, TypeOK
<1>6. NoneAhead'
  <2>1. \A i \in Ids : i > nextId => i # j
    BY <1>4 DEF StreamsInv, NoneAhead
  <2> QED
    BY <1>1, <1>2, <1>5, <2>1, AheadStays DEF StreamsInv
<1>7. ASSUME NEW i \in Ids PROVE StreamInv(i)'
  <2>0. StreamInv(i)
    BY DEF StreamsInv
  <2>1. CASE i = j /\ i \in pending
    <3> DEFINE r == Len(Routed(i))
    <3>1. /\ r \in Nat /\ deltas[i] \in Nat /\ (i \in answered) \in BOOLEAN
          /\ got[i] \in Seq(1 .. MaxChunks) /\ buf[i] \in Seq(1 .. MaxChunks)
          /\ Routed(i) \in Seq(1 .. MaxChunks)
      BY StreamTypes
    <3>0. \A f \in Line : f.type = "delta" => f.n \in Nat
      BY StreamTypes
    <3>2. Holds(Flow, i, r, deltas[i], i \in answered) /\ IsDelta(Head(Flow), i)
      BY <1>1, <2>0, <2>1 DEF StreamInv, IsDelta
    <3>3. n = r + 1 /\ r + 1 <= deltas[i] /\ Holds(Tail(Flow), i, r + 1, deltas[i], i \in answered)
      <4> DEFINE d == deltas[i]
                 a == i \in answered
      <4>1. /\ r \in Nat /\ d \in Nat /\ a \in BOOLEAN
            /\ Holds(Flow, i, r, d, a) /\ IsDelta(Head(Flow), i)
        BY <3>1, <3>2
      <4> HIDE DEF r, d, a
      <4>2. Head(Flow).n = r + 1 /\ r + 1 <= d /\ Holds(Tail(Flow), i, r + 1, d, a)
        BY <1>1, <3>0, <4>1, HoldsNext
      <4> QED
        BY <1>1, <4>2 DEF d, a
    <3>4. kind[i] = "stream"
      BY <2>0, <3>1, <3>3 DEF StreamInv
    <3>5. Routed(i)' = Append(Routed(i), n)
      <4>1. Routed(i)' = got[i] \o Append(buf[i], n)
        BY <1>2, <1>3, <2>1, <3>4 DEF Routed, TypeOK
      <4>2. got[i] \o Append(buf[i], n) = Append(got[i] \o buf[i], n)
        BY <1>4, <3>1, ChunkMoves
      <4> QED
        BY <4>1, <4>2 DEF Routed
    <3>6. /\ Len(Routed(i)') = r + 1 /\ DOMAIN Routed(i)' = 1 .. r + 1
          /\ Routed(i)'[r + 1] = n /\ \A k \in 1 .. r : Routed(i)'[k] = Routed(i)[k]
      BY <1>4, <3>1, <3>5, AppendProperties, LenProperties
    <3>7. \A k \in DOMAIN Routed(i)' : Routed(i)'[k] = k
      <4>1. \A k \in 1 .. r : Routed(i)[k] = k
        BY <2>0, <3>1, LenProperties DEF StreamInv
      <4> HIDE DEF r, n
      <4> QED
        BY <3>1, <3>3, <3>6, <4>1
    <3>8. settled[i] # "result"
      <4> SUFFICES ASSUME settled[i] = "result" PROVE FALSE
        OBVIOUS
      <4>1. r = deltas[i]
        BY <2>0 DEF StreamInv
      <4> HIDE DEF r
      <4> QED
        BY <3>1, <3>3, <4>1
    <3> QED
      BY <1>1, <1>2, <1>3, <2>0, <2>1, <3>3, <3>4, <3>6, <3>7, <3>8 DEF StreamInv
  <2>2. CASE i # j \/ i \notin pending
    <3>1. Routed(i)' = Routed(i)
      BY <1>5, <2>2
    <3>2. Rest(i)
      <4>1. CASE i # j
        BY <1>1, <1>3, <3>1, <4>1, RestTaken DEF IsDelta
      <4>2. CASE i \notin pending
        BY <1>2, <4>2 DEF Rest
      <4> QED
        BY <2>2, <4>1, <4>2
    <3> QED
      BY <1>2, <1>3, <2>0, <3>1, <3>2, StreamStays
  <2> QED
    BY <2>1, <2>2
<1> QED
  BY <1>6, <1>7 DEF StreamsInv

\* A call starts with nothing streamed, and nothing about it under way.
LEMMA StreamStarts ==
  ASSUME TypeOK, RegistryIsOpenCalls, StreamsInv, NEW t \in Tasks, StartCall(t)
  PROVE  StreamsInv'
<1>0. nextId \in Nat /\ \A i \in Ids : i \in Nat
  BY TsAssumption DEF TypeOK, Ids
<1>1. nextId' = nextId + 1 /\ nextId' \in Ids
  BY <1>0, TsAssumption DEF StartCall, TypeOK, Ids
<1>2. /\ pending' = pending \cup {nextId'} /\ chain' = Append(chain, nextId')
      /\ settled' = [settled EXCEPT ![nextId'] = "open"]
      /\ UNCHANGED <<lines, pipe, deltas, answered, sent, buf, shut, got>>
      /\ \E k \in {"recall", "complete", "stream"} : kind' = [kind EXCEPT ![nextId'] = k]
  BY DEF StartCall, hostVars, runVars
<1>3. Flow' = Flow /\ \A i \in Ids : Routed(i)' = Routed(i)
  BY <1>2 DEF Flow, Routed
<1>4. ToSet(chain') \subseteq ToSet(chain) \cup {nextId'}
  BY <1>1, <1>2, ChainAppend
<1>5. NoneAhead'
  <2>1. \A p \in DOMAIN Flow' : Flow'[p].type \in {"reply", "delta"} => Flow'[p].id \in sent'
    BY <1>2, <1>3 DEF StreamsInv, NoneAhead
  <2>2. ASSUME NEW i \in Ids, i > nextId'
        PROVE  i \notin sent' /\ i \notin ToSet(chain') /\ kind'[i] = "none" /\ Routed(i)' = <<>>
    <3>1. i > nextId /\ i # nextId'
      BY <1>0, <1>1, <2>2
    <3>2. kind'[i] = kind[i]
      BY <1>1, <1>2, <3>1 DEF TypeOK
    <3> QED
      BY <1>2, <1>3, <1>4, <3>1, <3>2 DEF StreamsInv, NoneAhead
  <2> QED
    BY <2>1, <2>2 DEF NoneAhead
<1>6. ASSUME NEW i \in Ids PROVE StreamInv(i)'
  <2>0. StreamInv(i)
    BY DEF StreamsInv
  <2>1. CASE i = nextId'
    <3>1. i > nextId
      BY <1>0, <1>1, <2>1
    <3>2. i \notin sent /\ kind[i] = "none" /\ Routed(i) = <<>>
      BY <3>1 DEF StreamsInv, NoneAhead
    <3>3. deltas[i] = 0 /\ Len(Routed(i)) = 0
      BY <2>0, <3>2, EmptySeq DEF StreamInv
    <3>4. \A p \in DOMAIN Flow : ~IsDelta(Flow[p], i) /\ ~IsReply(Flow[p], i)
      BY <3>2 DEF StreamsInv, NoneAhead, IsDelta, IsReply
    <3>5. \A n : n \notin 0 + 1 .. 0
      OBVIOUS
    <3>6. Holds(Flow, i, 0, 0, i \in answered)
      BY <3>4, <3>5 DEF Holds
    <3>7. settled'[i] # "result" /\ i \in pending'
      BY <1>1, <1>2, <2>1 DEF TypeOK
    <3>8. \A k \in DOMAIN Routed(i)' : Routed(i)'[k] = k
      BY <1>3, <2>0 DEF StreamInv
    <3> QED
      BY <1>2, <1>3, <3>3, <3>6, <3>7, <3>8 DEF StreamInv
  <2>2. CASE i # nextId'
    <3>1. /\ kind'[i] = kind[i] /\ settled'[i] = settled[i]
          /\ i \in pending' <=> i \in pending
      BY <1>1, <1>2, <2>2 DEF TypeOK
    <3>2. Rest(i)
      BY <1>2, <1>3, RestStays
    <3> QED
      BY <1>2, <1>3, <2>0, <3>1, <3>2, StreamStays
  <2> QED
    BY <2>1, <2>2
<1> QED
  BY <1>5, <1>6 DEF StreamsInv

\* The host writes: a reply behind all it has streamed, a chunk behind the one
\* before it, or what is about no call.
LEMMA HostStreams ==
  ASSUME TypeOK, StreamsInv, Host
  PROVE  StreamsInv'
<1> USE DEF Host, HostInvites, HostOneShot, HostAnswers, HostSendsDelta, HostCloses, Write,
            Process, runVars, callVars, authorVars
<1>0. /\ Flow \in Seq(Line)
      /\ \A i \in Ids : /\ deltas[i] \in Nat /\ Len(Routed(i)) \in Nat
                        /\ (i \in answered) \in BOOLEAN
      /\ \A f \in Line : f.type = "delta" => f.n \in Nat
  BY StreamTypes
<1>1. /\ UNCHANGED <<lines, nextId, kind, pending, chain, sent, settled, shut>>
      /\ \A i \in Ids : Routed(i)' = Routed(i)
  BY DEF Routed
<1>2. \A f \in Line : pipe' = Append(pipe, f) => Flow' = Append(Flow, f)
  BY <1>1, FlowMoves
<1>3. ASSUME NEW f \in Line, pipe' = Append(pipe, f), UNCHANGED deltas,
             \A i \in Ids : i \in answered \/ IsReply(f, i) => i \in answered',
             f.type # "delta", f.type = "reply" => f.id \in sent
      PROVE  StreamsInv'
  <2>1. Flow' = Append(Flow, f)
    BY <1>2, <1>3
  <2>2. NoneAhead'
    BY <1>1, <1>3, <2>1, AheadStays DEF StreamsInv
  <2>3. ASSUME NEW i \in Ids PROVE StreamInv(i)'
    <3>0. StreamInv(i)
      BY DEF StreamsInv
    <3>1. Holds(Flow, i, Len(Routed(i)), deltas[i], i \in answered) =>
            Holds(Append(Flow, f), i, Len(Routed(i)), deltas[i], i \in answered')
      <4>1. ~IsDelta(f, i) /\ (i \in answered') \in BOOLEAN
        BY <1>3 DEF IsDelta
      <4> QED
        BY <1>0, <1>3, <4>1, HoldsAppend
    <3>2. Rest(i)
      BY <1>1, <1>3, <2>1, <3>1 DEF Rest
    <3> QED
      BY <1>1, <1>3, <3>0, <3>2, StreamStays
  <2> QED
    BY <2>2, <2>3 DEF StreamsInv
<1>4. CASE HostInvites
  <2>1. PICK k \in {"event", "tool"} : pipe' = Append(pipe, [type |-> k])
    BY <1>4
  <2>2. [type |-> k] \in Line
    BY DEF Line
  <2> QED
    BY <1>3, <1>4, <2>1, <2>2 DEF IsReply
<1>5. CASE HostOneShot
  <2>1. PICK k \in OneShots : pipe' = Append(pipe, [type |-> k])
    BY <1>5
  <2>2. [type |-> k] \in Line /\ k \in {"other", "shutdown"}
    BY TsAssumption DEF Line
  <2> QED
    BY <1>3, <1>5, <2>1, <2>2 DEF IsReply
<1>6. CASE HostAnswers
  <2>1. PICK i \in sent \ answered, r \in {"result", "malformed", "error"} :
          /\ answered' = answered \cup {i}
          /\ pipe' = Append(pipe, [type |-> "reply", id |-> i, r |-> r])
    BY <1>6
  <2>2. [type |-> "reply", id |-> i, r |-> r] \in Line
    BY DEF Line, TypeOK
  <2> QED
    BY <1>3, <1>6, <2>1, <2>2 DEF IsReply
<1>7. CASE HostSendsDelta
  <2>1. PICK j \in sent \ answered :
          /\ kind[j] = "stream" /\ deltas[j] < MaxChunks
          /\ deltas' = [deltas EXCEPT ![j] = @ + 1]
          /\ pipe' = Append(pipe, [type |-> "delta", id |-> j, n |-> deltas'[j]])
    BY <1>7
  <2> DEFINE f == [type |-> "delta", id |-> j, n |-> deltas'[j]]
  <2>2. j \in Ids /\ deltas'[j] = deltas[j] + 1
    BY <2>1 DEF TypeOK
  <2>3. f \in Line /\ f.type = "delta" /\ f.id = j /\ f.n = deltas[j] + 1
    <3>1. deltas'[j] \in 1 .. MaxChunks
      BY <1>0, <2>1, <2>2, TsAssumption
    <3> QED
      BY <2>2, <3>1 DEF Line
  <2> HIDE DEF f
  <2>4. Flow' = Append(Flow, f)
    BY <1>2, <2>1, <2>3 DEF f
  <2>5. NoneAhead'
    BY <1>1, <2>1, <2>3, <2>4, AheadStays DEF StreamsInv
  <2>6. ASSUME NEW i \in Ids PROVE StreamInv(i)'
    <3>0. StreamInv(i)
      BY DEF StreamsInv
    <3>1. answered' = answered
      BY <1>7
    <3>2. CASE i = j
      <4>1. deltas'[i] = deltas[i] + 1 /\ i \notin answered /\ kind[i] = "stream"
        BY <2>1, <2>2, <3>2
      <4>2. ASSUME i \in pending
            PROVE  /\ Len(Routed(i)) <= deltas[i] + 1
                   /\ Holds(Append(Flow, f), i, Len(Routed(i)), deltas[i] + 1, i \in answered)
        <5> DEFINE r == Len(Routed(i))
                   d == deltas[i]
                   a == i \in answered
        <5>1. r \in Nat /\ d \in Nat /\ r <= d /\ a \in BOOLEAN /\ ~a /\ Holds(Flow, i, r, d, a)
          BY <1>0, <3>0, <4>1, <4>2 DEF StreamInv
        <5>2. IsDelta(f, i) /\ f.n = d + 1
          BY <2>3, <3>2 DEF IsDelta
        <5> HIDE DEF r, d, a
        <5>3. r <= d + 1 /\ Holds(Append(Flow, f), i, r, d + 1, a)
          BY <1>0, <2>3, <5>1, <5>2, HoldsMore
        <5> QED
          BY <5>3 DEF r, d, a
      <4>3. settled[i] # "result"
        BY <3>0, <4>1 DEF StreamInv
      <4> QED
        BY <1>1, <2>4, <3>0, <3>1, <4>1, <4>2, <4>3 DEF StreamInv
    <3>3. CASE i # j
      <4>1. deltas'[i] = deltas[i] /\ ~IsDelta(f, i) /\ ~IsReply(f, i)
        BY <2>1, <2>2, <2>3, <3>3 DEF IsDelta, IsReply, TypeOK
      <4>2. Holds(Flow, i, Len(Routed(i)), deltas[i], i \in answered) =>
              Holds(Append(Flow, f), i, Len(Routed(i)), deltas[i], i \in answered)
        BY <1>0, <2>3, <4>1, HoldsAppend
      <4>3. Rest(i)
        BY <1>1, <2>4, <3>1, <4>1, <4>2 DEF Rest
      <4> QED
        BY <1>1, <3>0, <3>1, <4>1, <4>3, StreamStays
    <3> QED
      BY <3>2, <3>3
  <2> QED
    BY <2>5, <2>6 DEF StreamsInv
<1>8. CASE HostCloses
  <2>1. UNCHANGED <<pipe, deltas, answered>>
    BY <1>8
  <2>2. Flow' = Flow
    BY <1>1, <2>1 DEF Flow
  <2> QED
    BY <1>1, <2>1, <2>2, NothingRouted
<1> QED
  BY <1>4, <1>5, <1>6, <1>7, <1>8

\* Every step keeps the streams.
LEMMA StreamsStep ==
  TypeOK /\ RegistryIsOpenCalls /\ StreamsInv /\ [Next]_vars => StreamsInv'
<1> SUFFICES ASSUME TypeOK, RegistryIsOpenCalls, StreamsInv, [Next]_vars
             PROVE  StreamsInv'
  OBVIOUS
<1> USE DEF hostVars, runVars, taskVars, callVars, authorVars
<1>1. ASSUME UNCHANGED <<lines, pipe, got, buf>> PROVE Flow' = Flow /\ \A i \in Ids : Routed(i)' = Routed(i)
  BY <1>1 DEF Flow, Routed
<1>2. ASSUME UNCHANGED <<lines, pipe, deltas, answered, callVars, got>> PROVE StreamsInv'
  BY <1>1, <1>2, NothingRouted
<1>3. ASSUME lines # <<>>, lines' = Tail(lines), UNCHANGED <<pipe, got, buf>>
      PROVE  /\ Flow # <<>> /\ Flow' = Tail(Flow) /\ Head(Flow) = Head(lines)
             /\ \A i \in Ids : Routed(i)' = Routed(i)
  BY <1>3, FlowMoves DEF Routed
<1>4. CASE Run
  <2>1. CASE HandleWork \/ HandleHere
    <3> USE DEF HandleWork, HandleHere, Handling
    <3>1. Head(lines).type # "delta" /\ UNCHANGED <<deltas, answered, callVars>>
      BY <2>1
    <3>2. lines # <<>> /\ lines' = Tail(lines) /\ UNCHANGED <<pipe, got, buf>>
      BY <2>1
    <3> QED
      BY <1>3, <3>1, <3>2, NothingRouted
  <2>2. CASE HandleReply
    BY <2>2, ReplyRouted
  <2>3. CASE HandleDelta
    BY <2>3, ChunkRouted
  <2>4. CASE HandleShutdown
    <3> USE DEF HandleShutdown, Handling, AbandonPending
    <3>1. Head(lines).type # "delta" /\ UNCHANGED <<deltas, answered, kind, nextId, sent, chain>>
      BY <2>4
    <3>2. lines # <<>> /\ lines' = Tail(lines) /\ UNCHANGED <<pipe, got, buf>>
      BY <2>4
    <3>3. Settle(pending, "transport")
      BY <2>4
    <3> QED
      BY <1>3, <3>1, <3>2, <3>3, NothingRouted
  <2>5. CASE Leave
    <3> USE DEF Leave, AbandonPending
    <3>1. UNCHANGED <<lines, pipe, got, buf, deltas, answered, kind, nextId, sent, chain>>
      BY <2>5
    <3>2. Settle(pending, "transport")
      BY <2>5
    <3> QED
      BY <1>1, <3>1, <3>2, NothingRouted
  <2>6. CASE WriteNext
    <3> USE DEF WriteNext
    <3>1. UNCHANGED <<lines, pipe, got, buf, deltas, answered, kind, nextId>>
      BY <2>6
    <3>2. ToSet(chain') \subseteq ToSet(chain) /\ Head(chain) \in ToSet(chain)
      <4>1. chain \in Seq(Ids) /\ chain # <<>>
        BY <2>6 DEF TypeOK
      <4>2. Head(chain) = chain[1] /\ 1 \in 1 .. Len(chain)
        BY <4>1, EmptySeq, LenProperties
      <4> QED
        BY <2>6, <4>1, <4>2, ChainTail, LenProperties DEF ToSet
    <3>3. sent \subseteq sent' /\ sent' \subseteq sent \cup ToSet(chain)
      BY <2>6, <3>2
    <3>4. \/ UNCHANGED <<pending, settled, shut>>
          \/ Settle({Head(chain)}, "transport")
      BY <2>6
    <3> QED
      BY <1>1, <3>1, <3>2, <3>3, <3>4, NothingRouted
  <2>7. CASE ReplyShutdown \/ FinalDrainDone
    BY <1>2, <2>7 DEF ReplyShutdown, FinalDrainDone
  <2> QED
    BY <1>4, <2>1, <2>2, <2>3, <2>4, <2>5, <2>6, <2>7 DEF Run
<1>5. CASE Turn
  <2>1. CASE Data
    <3>1. Flow' = Flow
      BY <2>1, FlowMoves DEF Data, Flow
    <3>2. UNCHANGED <<deltas, answered, callVars, got>>
      BY <2>1 DEF Data
    <3>3. \A i \in Ids : Routed(i)' = Routed(i)
      BY <3>2 DEF Routed
    <3> QED
      BY <3>1, <3>2, <3>3, NothingRouted
  <2>2. CASE Sigterm \/ Crash
    BY <1>2, <2>2 DEF Sigterm, Crash
  <2> QED
    BY <1>5, <2>1, <2>2 DEF Turn
<1>6. ASSUME NEW t \in Tasks, Handler(t) \/ BusyEnds(t) PROVE StreamsInv'
  <2>1. CASE StartCall(t)
    BY <2>1, StreamStarts
  <2>2. CASE Pulled(t)
    <3> USE DEF Pulled, In, Goes
    <3>1. UNCHANGED <<lines, pipe, deltas, answered, nextId, kind, pending, chain, sent,
                      settled, shut>>
      BY <2>2
    <3>2. Flow' = Flow
      BY <3>1 DEF Flow
    <3>3. ASSUME NEW i \in Ids PROVE Routed(i)' = Routed(i)
      <4>1. CASE UNCHANGED <<got, buf>>
        BY <4>1 DEF Routed
      <4>2. CASE /\ buf[call[t]] # <<>>
                 /\ got' = [got EXCEPT ![call[t]] = Append(@, Head(buf[call[t]]))]
                 /\ buf' = [buf EXCEPT ![call[t]] = Tail(@)]
        <5>1. CASE i = call[t]
          <6>1. got'[i] = Append(got[i], Head(buf[i])) /\ buf'[i] = Tail(buf[i])
            BY <4>2, <5>1 DEF TypeOK
          <6>2. got[i] \in Seq(1 .. MaxChunks) /\ buf[i] \in Seq(1 .. MaxChunks) /\ buf[i] # <<>>
            BY <4>2, <5>1, StreamTypes
          <6>3. Append(got[i], Head(buf[i])) \o Tail(buf[i]) = got[i] \o buf[i]
            BY <6>2, ChunkMoves
          <6> QED
            BY <6>1, <6>3 DEF Routed
        <5>2. CASE i # call[t]
          BY <4>2, <5>2 DEF Routed, TypeOK
        <5> QED
          BY <5>1, <5>2
      <4> QED
        BY <2>2, <4>1, <4>2
    <3> QED
      BY <3>1, <3>2, <3>3, NothingRouted
  <2>3. CASE \/ CallReturns(t) \/ Pull(t) \/ AskResult(t) \/ DropStream(t) \/ GetsBusy(t)
             \/ Return(t) \/ BusyEnds(t)
    BY <1>2, <2>3 DEF CallReturns, Pull, AskResult, DropStream, GetsBusy, Return, BusyEnds
  <2> QED
    BY <1>6, <2>1, <2>2, <2>3 DEF Handler
<1>7. ASSUME NEW i \in Ids, TimerFires(i) PROVE StreamsInv'
  <2>1. /\ UNCHANGED <<lines, pipe, got, buf, deltas, answered, kind, nextId, sent, chain>>
        /\ Settle({i}, "timeout")
    BY <1>7 DEF TimerFires
  <2> QED
    BY <1>1, <2>1, NothingRouted
<1>8. CASE Host
  BY <1>8, HostStreams
<1>9. CASE UNCHANGED vars
  BY <1>2, <1>9 DEF vars
<1> QED
  BY <1>4, <1>5, <1>6, <1>7, <1>8, <1>9 DEF Next

\* What an iterator yields is what the host streamed, in its order; a stream with
\* a result lost nothing, and no iterator waits for more once its stream is over:
\* whatever the pipe holds, whenever the host is read, whoever stops the adapter
\* and whatever the author does with the stream (host.ts, broker.ts, adapter.ts).
THEOREM StreamsAreFaithful == Spec => []StreamFaithful
<1>1. Init => StreamsInv
  <2> SUFFICES ASSUME Init PROVE StreamsInv
    OBVIOUS
  <2>1. Flow = <<>> /\ DOMAIN Flow = {} /\ ToSet(chain) = {}
    BY DEF Init, Flow, ToSet
  <2>2. \A i \in Ids : Routed(i) = <<>> /\ Len(Routed(i)) = 0 /\ DOMAIN Routed(i) = {}
    BY DEF Init, Routed
  <2>3. NoneAhead
    BY <2>1, <2>2 DEF Init, NoneAhead
  <2> QED
    BY <2>2, <2>3 DEF Init, StreamsInv, StreamInv
<1>2. TsInv /\ RegistryIsOpenCalls /\ StreamsInv => StreamFaithful
  <2> SUFFICES ASSUME TypeOK, RegistryIsOpenCalls, StreamsInv, NEW i \in Ids, kind[i] = "stream"
               PROVE  /\ \A k \in DOMAIN Routed(i) : Routed(i)[k] = k
                      /\ settled[i] = "result" => Len(got[i]) + Len(buf[i]) = deltas[i]
                      /\ settled[i] # "open" => i \in shut
    BY DEF TsInv, StreamFaithful, Routed
  <2>1. Len(Routed(i)) = Len(got[i]) + Len(buf[i])
    BY StreamTypes, ConcatProperties DEF Routed
  <2>2. StreamInv(i)
    BY DEF StreamsInv
  <2> QED
    BY <2>1, <2>2 DEF StreamInv, RegistryIsOpenCalls
<1>3. TsInv /\ RegistryIsOpenCalls /\ StreamsInv /\ [Next]_vars => StreamsInv'
  BY StreamsStep DEF TsInv
<1> QED
  BY <1>1, <1>2, <1>3, TsInductive, RegistryHoldsOpenCalls, PTL DEF Spec

----------------------------------------------------------------------------
(* The contract *)

\* A call has been settled, or can be, from the step that makes it; while it is
\* open its author is in it, unless he has let go of the stream.
OpenInv(i) ==
  /\ settled[i] = "none" <=> i > nextId
  /\ kind[i] = "none" <=> i > nextId
  /\ settled[i] = "open" => InCall(i) \/ outcome[i] = "dropped"

\* No two handlers are in the same call, and none is in a call to come.
CallsApart ==
  /\ \A t \in Tasks : call[t] <= nextId
  /\ \A t, u \in Tasks : call[t] = call[u] /\ call[t] # 0 => t = u

OpensInv == CallsApart /\ \A i \in Ids : OpenInv(i)

\* A call that is open and gets a verdict, or none.
Heard(i) == settled'[i] = settled[i] \/ (settled[i] = "open" /\ settled'[i] \in Verdicts)

\* When calls are only settled, the contract hears what they are settled with.
LEMMA Hears ==
  ASSUME TypeOK, OpensInv, UNCHANGED <<nextId, kind, call, outcome>>,
         \A i \in Ids : Heard(i)
  PROVE  OpensInv' /\ Contract!ContractNext
<1>1. \A i \in Ids : VerdictOf(i)' = VerdictOf(i)
  BY DEF VerdictOf, InCall
<1>2. ASSUME NEW i \in Ids
      PROVE  \/ HeardOf(i)' = HeardOf(i)
             \/ /\ HeardOf(i) = "none" /\ HeardOf(i)' \in Contract!Heard
                /\ VerdictOf(i) \in {"open", "dropped"}
  <2>1. CASE settled'[i] = settled[i]
    BY <2>1 DEF HeardOf
  <2>2. CASE settled[i] = "open" /\ settled'[i] \in Verdicts
    <3>1. HeardOf(i) = "none" /\ HeardOf(i)' \in Contract!Heard \cup {"none"}
      BY <2>2 DEF HeardOf, Verdicts, Contract!Heard
    <3>2. VerdictOf(i) \in {"open", "dropped"}
      BY <2>2 DEF OpensInv, OpenInv, VerdictOf
    <3> QED
      BY <3>1, <3>2
  <2> QED
    BY <2>1, <2>2 DEF Heard
<1>3. PICK C \in SUBSET Ids : C = {i \in Ids : HeardOf(i)' # HeardOf(i)}
  OBVIOUS
<1> DEFINE v == [i \in C |-> HeardOf(i)']
<1>4. v \in [C -> Contract!Heard]
  BY <1>2, <1>3
<1>5. \A i \in Ids : HeardOf(i)' = IF i \in C THEN v[i] ELSE HeardOf(i)
  BY <1>3
<1>6. Contract!Hear(C)
  <2>1. \A i \in C : HeardOf(i) = "none" /\ VerdictOf(i) \in {"open", "dropped"}
    BY <1>2, <1>3
  <2> QED
    BY <1>1, <1>3, <1>4, <1>5, <2>1 DEF Contract!Hear
<1>7. OpensInv'
  <2>1. CallsApart'
    BY DEF OpensInv, CallsApart
  <2>2. ASSUME NEW i \in Ids PROVE OpenInv(i)'
    <3>1. settled'[i] = "none" <=> settled[i] = "none"
      BY DEF Heard, Verdicts
    <3>2. settled'[i] = "open" => settled[i] = "open"
      BY DEF Heard, Verdicts
    <3> QED
      BY <3>1, <3>2 DEF OpensInv, OpenInv, InCall
  <2> QED
    BY <2>1, <2>2 DEF OpensInv
<1> QED
  BY <1>6, <1>7 DEF Contract!ContractNext

\* Settling entries of the registry settles calls that are open.
LEMMA SettleHears ==
  ASSUME TypeOK, NEW P, NEW v \in Verdicts, Settle(P, v)
  PROVE  \A i \in Ids : Heard(i)
BY DEF Settle, Heard

\* The author makes a call: it is the next one, and his alone.
LEMMA StartIssues ==
  ASSUME TypeOK, OpensInv, NEW t \in Tasks, StartCall(t)
  PROVE  OpensInv' /\ Contract!ContractNext
<1>0. nextId \in Nat /\ (\A i \in Ids : i \in Nat) /\ \A u \in Tasks : call[u] \in Nat
  BY TsAssumption DEF TypeOK, Ids
<1>1. PICK n \in Ids : n = nextId' /\ n = nextId + 1
  BY <1>0, TsAssumption DEF StartCall, TypeOK, Ids
<1>2. PICK k \in {"recall", "complete", "stream"} : kind' = [kind EXCEPT ![n] = k]
  BY <1>1 DEF StartCall
<1>3. /\ settled' = [settled EXCEPT ![n] = "open"]
      /\ call' = [call EXCEPT ![t] = n] /\ call[t] = 0
      /\ UNCHANGED outcome
  BY <1>1 DEF StartCall
<1>4. \A u \in Tasks : call'[u] = IF u = t THEN n ELSE call[u]
  BY <1>3 DEF TypeOK
<1>5. /\ kind'[n] = k /\ settled'[n] = "open"
      /\ \A i \in Ids \ {n} : kind'[i] = kind[i] /\ settled'[i] = settled[i]
  BY <1>1, <1>2, <1>3 DEF TypeOK
<1>6. \A i \in Ids \ {n} : InCall(i)' <=> InCall(i)
  <2> SUFFICES ASSUME NEW i \in Ids \ {n} PROVE InCall(i)' <=> InCall(i)
    OBVIOUS
  <2>1. i # 0 /\ call[t] # i
    BY <1>0, <1>3 DEF Ids
  <2> QED
    BY <1>4, <2>1 DEF InCall
<1>7. InCall(n)'
  BY <1>4 DEF InCall
<1>8. OpensInv'
  <2>1. CallsApart'
    <3>1. \A u \in Tasks : call'[u] <= n
      BY <1>0, <1>1, <1>4 DEF OpensInv, CallsApart
    <3>2. ASSUME NEW u \in Tasks, NEW w \in Tasks, call'[u] = call'[w], call'[u] # 0
          PROVE  u = w
      <4>1. \A x \in Tasks : call[x] # n
        BY <1>0, <1>1 DEF OpensInv, CallsApart
      <4> QED
        BY <1>4, <3>2, <4>1 DEF OpensInv, CallsApart
    <3> QED
      BY <1>1, <3>1, <3>2 DEF CallsApart
  <2>2. ASSUME NEW i \in Ids PROVE OpenInv(i)'
    <3>1. CASE i = n
      BY <1>0, <1>1, <1>5, <1>7, <3>1 DEF OpenInv
    <3>2. CASE i # n
      <4>1. i > nextId' <=> i > nextId
        BY <1>0, <1>1, <3>2
      <4> QED
        BY <1>3, <1>5, <1>6, <3>2, <4>1 DEF OpensInv, OpenInv
    <3> QED
      BY <3>1, <3>2
  <2> QED
    BY <2>1, <2>2 DEF OpensInv
<1>9. kind[n] = "none" /\ settled[n] = "none"
  <2>1. n > nextId
    BY <1>0, <1>1
  <2> QED
    BY <1>1, <2>1 DEF OpensInv, OpenInv
<1>10. \A i \in Ids : HeardOf(i)' = HeardOf(i)
  BY <1>1, <1>5, <1>9 DEF HeardOf
<1>11. /\ \A i \in Ids \ {n} : VerdictOf(i)' = VerdictOf(i)
       /\ VerdictOf(n) = "idle" /\ VerdictOf(n)' = "open"
  <2>1. \A i \in Ids \ {n} : VerdictOf(i)' = VerdictOf(i)
    BY <1>3, <1>5, <1>6 DEF VerdictOf
  <2>2. VerdictOf(n) = "idle"
    BY <1>9 DEF VerdictOf
  <2>3. VerdictOf(n)' = "open"
    BY <1>5, <1>7 DEF VerdictOf
  <2> QED
    BY <2>1, <2>2, <2>3
<1>12. Contract!Issue(n)
  <2>1. /\ \A j \in Ids \ {n} : VerdictOf(j)' = VerdictOf(j)
        /\ VerdictOf(n) = "idle" /\ VerdictOf(n)' = "open"
    BY <1>11
  <2> QED
    BY <1>10, <2>1 DEF Contract!Issue
<1> QED
  BY <1>8, <1>12 DEF Contract!ContractNext

\* The author learns what his call was settled with, or lets go of his stream.
LEMMA EndDelivers ==
  ASSUME TypeOK, OpensInv, NEW t \in Tasks, NEW o, EndCall(t, o), call[t] # 0,
         UNCHANGED <<nextId, kind, settled>>,
         \/ o = "dropped"
         \/ settled[call[t]] # "open"
              /\ o = IF settled[call[t]] = "malformed" THEN "decode" ELSE settled[call[t]]
  PROVE  OpensInv' /\ Contract!ContractNext
<1>0. call[t] \in Ids /\ nextId \in Nat /\ \A u \in Tasks : call[u] \in Nat
  BY TsAssumption DEF TypeOK, Ids
<1>1. PICK i \in Ids : i = call[t]
  BY <1>0
<1>2. /\ \A u \in Tasks : call'[u] = IF u = t THEN 0 ELSE call[u]
      /\ \A j \in Ids : outcome'[j] = IF j = i THEN o ELSE outcome[j]
  BY <1>1 DEF EndCall, TypeOK
<1>3. InCall(i) /\ ~InCall(i)'
  <2>1. \A u \in Tasks : call[u] = i => u = t
    BY <1>1 DEF OpensInv, CallsApart
  <2>2. i # 0
    BY DEF Ids
  <2> QED
    BY <1>1, <1>2, <2>1, <2>2 DEF InCall
<1>4. \A j \in Ids \ {i} : InCall(j)' <=> InCall(j)
  <2> SUFFICES ASSUME NEW j \in Ids \ {i} PROVE InCall(j)' <=> InCall(j)
    OBVIOUS
  <2>1. j # 0 /\ call[t] # j
    BY <1>1 DEF Ids
  <2> QED
    BY <1>2, <2>1 DEF InCall
<1>5. kind[i] # "none" /\ settled[i] # "none"
  <2>1. ~(i > nextId)
    BY <1>0, <1>1 DEF OpensInv, CallsApart
  <2> QED
    BY <2>1 DEF OpensInv, OpenInv
<1>6. OpensInv'
  <2>1. CallsApart'
    BY <1>0, <1>2 DEF OpensInv, CallsApart
  <2>2. ASSUME NEW j \in Ids PROVE OpenInv(j)'
    <3>1. CASE j = i
      <4>1. settled'[i] = "open" => o = "dropped"
        BY <1>1
      <4> QED
        BY <1>2, <3>1, <4>1 DEF OpensInv, OpenInv
    <3>2. CASE j # i
      BY <1>2, <1>4, <3>2 DEF OpensInv, OpenInv
    <3> QED
      BY <3>1, <3>2
  <2> QED
    BY <2>1, <2>2 DEF OpensInv
<1>7. \A j \in Ids : HeardOf(j)' = HeardOf(j)
  BY DEF HeardOf
<1>8. /\ \A j \in Ids \ {i} : VerdictOf(j)' = VerdictOf(j)
      /\ VerdictOf(i) = "open" /\ VerdictOf(i)' = o
  <2>1. \A j \in Ids \ {i} : VerdictOf(j)' = VerdictOf(j)
    BY <1>2, <1>4 DEF VerdictOf
  <2>2. VerdictOf(i) = "open"
    BY <1>3, <1>5 DEF VerdictOf
  <2>3. VerdictOf(i)' = o
    BY <1>2, <1>3, <1>5 DEF VerdictOf
  <2> QED
    BY <2>1, <2>2, <2>3
<1>9. CASE o = "dropped"
  <2>1. Contract!Drop(i)
    BY <1>7, <1>8, <1>9 DEF Contract!Drop
  <2> QED
    BY <1>6, <2>1 DEF Contract!ContractNext
<1>10. CASE settled[i] # "open" /\ o = IF settled[i] = "malformed" THEN "decode" ELSE settled[i]
  <2>1. CASE settled[i] = "timeout"
    <3>1. HeardOf(i) = "none" /\ o = "timeout"
      BY <1>10, <2>1 DEF HeardOf
    <3>2. Contract!GiveUp(i)
      BY <1>7, <1>8, <3>1 DEF Contract!GiveUp
    <3> QED
      BY <1>6, <3>2 DEF Contract!ContractNext
  <2>2. CASE settled[i] # "timeout"
    <3>1. HeardOf(i) # "none" /\ o = Contract!Seen(HeardOf(i))
      BY <1>5, <1>10, <2>2 DEF HeardOf, Contract!Seen
    <3>2. Contract!Deliver(i)
      BY <1>7, <1>8, <3>1 DEF Contract!Deliver
    <3> QED
      BY <1>6, <3>2 DEF Contract!ContractNext
  <2> QED
    BY <2>1, <2>2
<1> QED
  BY <1>1, <1>9, <1>10

\* Every step is one of the contract.
LEMMA ContractStep ==
  TsInv /\ OpensInv /\ [Next]_vars => OpensInv' /\ [Contract!ContractNext]_(Contract!contractVars)
<1> SUFFICES ASSUME TsInv, OpensInv, [Next]_vars
             PROVE  OpensInv' /\ Contract!ContractNext
  OBVIOUS
<1>0. TypeOK
  BY DEF TsInv
<1> USE DEF hostVars, runVars, taskVars, callVars, authorVars
<1>1. ASSUME UNCHANGED <<nextId, kind, call, outcome, settled>>
      PROVE  OpensInv' /\ Contract!ContractNext
  BY <1>0, <1>1, Hears DEF Heard
<1>2. ASSUME UNCHANGED <<nextId, kind, call, outcome>>, NEW P, NEW v \in Verdicts, Settle(P, v)
      PROVE  OpensInv' /\ Contract!ContractNext
  BY <1>0, <1>2, SettleHears, Hears
<1>3. CASE Run
  <2>1. CASE \/ HandleWork \/ HandleHere \/ HandleDelta \/ ReplyShutdown \/ FinalDrainDone
    BY <1>1, <2>1 DEF HandleWork, HandleHere, HandleDelta, RouteDelta, ReplyShutdown,
                      FinalDrainDone
  <2>2. CASE HandleReply
    <3>1. \A i \in Ids : \A r : Verdict(i, r) \in Verdicts
      BY DEF Verdict, Verdicts
    <3>2. Head(lines).id \in Ids
      BY <1>0, <2>2, LineTaken DEF HandleReply, Handling
    <3> QED
      BY <1>2, <2>2, <3>1, <3>2 DEF HandleReply, RouteResponse
  <2>3. CASE HandleShutdown \/ Leave
    <3>1. "transport" \in Verdicts
      BY DEF Verdicts
    <3> QED
      BY <1>2, <2>3, <3>1 DEF HandleShutdown, Leave, AbandonPending
  <2>4. CASE WriteNext
    <3>1. "transport" \in Verdicts
      BY DEF Verdicts
    <3> QED
      BY <1>1, <1>2, <2>4, <3>1 DEF WriteNext
  <2> QED
    BY <1>3, <2>1, <2>2, <2>3, <2>4 DEF Run
<1>4. CASE Turn
  BY <1>1, <1>4 DEF Turn, Data, Sigterm, Crash
<1>5. ASSUME NEW t \in Tasks, Handler(t) \/ BusyEnds(t) PROVE OpensInv' /\ Contract!ContractNext
  <2>1. CASE StartCall(t)
    BY <1>0, <2>1, StartIssues
  <2>2. CASE CallReturns(t)
    <3>1. call[t] # 0
      BY <2>2 DEF CallReturns, In, TsInv, TasksInv, TaskInv
    <3> QED
      BY <1>0, <2>2, <3>1, EndDelivers DEF CallReturns
  <2>3. CASE DropStream(t)
    BY <1>0, <2>3, EndDelivers DEF DropStream, InStream
  <2>4. CASE \/ Pull(t) \/ Pulled(t) \/ AskResult(t) \/ GetsBusy(t) \/ Return(t) \/ BusyEnds(t)
    BY <1>1, <2>4 DEF Pull, Pulled, AskResult, GetsBusy, Return, BusyEnds
  <2> QED
    BY <1>5, <2>1, <2>2, <2>3, <2>4 DEF Handler
<1>6. ASSUME NEW i \in Ids, TimerFires(i) PROVE OpensInv' /\ Contract!ContractNext
  <2>1. "timeout" \in Verdicts
    BY DEF Verdicts
  <2> QED
    BY <1>2, <1>6, <2>1 DEF TimerFires
<1>7. CASE Host
  BY <1>1, <1>7 DEF Host, HostInvites, HostOneShot, HostAnswers, HostSendsDelta, HostCloses, Process
<1>8. CASE UNCHANGED vars
  BY <1>1, <1>8 DEF vars
<1> QED
  BY <1>3, <1>4, <1>5, <1>6, <1>7, <1>8 DEF Next

\* What an author sees of a call is HostCallContract, whatever he does with it,
\* whatever the timers race and whoever abandons it: one verdict, the first one
\* the registry heard, and no timeout once one was heard (broker.ts).
THEOREM CallsKeepContract == Spec => ImplementsContract
<1>1. Init => OpensInv /\ Contract!ContractInit
  <2> SUFFICES ASSUME Init PROVE OpensInv /\ Contract!ContractInit
    OBVIOUS
  <2>1. \A i \in Ids : i > nextId
    BY TsAssumption DEF Init, Ids
  <2>2. OpensInv
    BY <2>1 DEF Init, OpensInv, OpenInv, CallsApart
  <2>3. \A i \in Ids : HeardOf(i) = "none" /\ VerdictOf(i) = "idle"
    BY DEF Init, HeardOf, VerdictOf
  <2> QED
    BY <2>2, <2>3 DEF Contract!ContractInit
<1> QED
  BY <1>1, ContractStep, TsInductive, PTL DEF Spec, ImplementsContract, Contract!ContractSpec
============================================================================
