------------------------- MODULE PhpAdapter_proofs -------------------------
(***************************************************************************)
(* Theorems about the PHP adapter, for every number of handlers, calls,     *)
(* chunks and lines in the pipe.                                            *)
(***************************************************************************)
EXTENDS PhpAdapter, PipeLemmas

\* Every fiber was asked for: what is in the pipe, in the buffer and in the loop's
\* hands was not started yet.
WorkCount ==
  nextTask + ((Cardinality(WorkIn(buffer)) + Cardinality(WorkIn(pipe)))
              + (IF IsWork(line) THEN 1 ELSE 0)) <= invited

\* No fiber is in a queue twice.
Apart(s) == \A p, q \in DOMAIN s : s[p] = s[q] => p = q

\* A fiber is suspended, or running, from the step that starts it to the one in
\* which it terminates; one that polls is in a call.
FiberInv(t) ==
  /\ at[t] = "none" <=> t > nextTask
  /\ t \in Suspended <=> at[t] \notin {"none", "done"}
  /\ at[t] \in {"single", "stream", "chunk"} <=> call[t] # 0
  /\ at[t] = "none" => ~isTool[t]
  /\ at[t] # "done" => replies[t] = 0

FibersInv == \A t \in Tasks : FiberInv(t)

\* A tick has left to resume what is suspended, and each fiber once.
QueueInv ==
  /\ Apart(inflight) /\ Apart(todo)
  /\ ToSet(todo) \subseteq ToSet(inflight) \ {running}
  /\ pc \in {"read", "handle", "eof"} => todo = <<>>

\* Nothing is suspended once the shutdown is acknowledged or run has returned.
StopInv ==
  /\ acked => stopped /\ Suspended = {} /\ pc \notin {"handle", "drain"}
  /\ pc = "exited" => Suspended = {}

PhpInv == TypeOK /\ WorkCount /\ FibersInv /\ QueueInv /\ StopInv

----------------------------------------------------------------------------
(* The queues and the counts *)

\* The first fiber of a queue leaves it.
LEMMA QueueTail ==
  ASSUME NEW s \in Seq(Tasks), s # <<>>, Apart(s)
  PROVE  /\ Tail(s) \in Seq(Tasks) /\ Head(s) \in Tasks /\ Head(s) \in ToSet(s)
         /\ Apart(Tail(s)) /\ ToSet(Tail(s)) = ToSet(s) \ {Head(s)}
<1> DEFINE u == Tail(s)
           l == Len(s)
<1>1. /\ l \in Nat /\ l > 0 /\ DOMAIN s = 1 .. l /\ DOMAIN u = 1 .. l - 1
      /\ u \in Seq(Tasks) /\ Head(s) = s[1] /\ Head(s) \in Tasks
      /\ \A k \in 1 .. l - 1 : u[k] = s[k + 1]
  <2>1. /\ u \in Seq(Tasks) /\ Head(s) \in Tasks /\ Len(u) = l - 1 /\ Head(s) = s[1]
        /\ \A k \in 1 .. l - 1 : u[k] = s[k + 1]
    BY HeadTailProperties
  <2> QED
    BY <2>1, EmptySeq, LenProperties
<1> HIDE DEF u, l
<1>2. Apart(u)
  <2> SUFFICES ASSUME NEW p \in DOMAIN u, NEW q \in DOMAIN u, u[p] = u[q] PROVE p = q
    BY DEF Apart
  <2>1. p + 1 \in DOMAIN s /\ q + 1 \in DOMAIN s /\ s[p + 1] = s[q + 1]
    BY <1>1
  <2> QED
    BY <1>1, <2>1 DEF Apart
<1>3. \A x : x \in ToSet(u) <=> x \in ToSet(s) \ {s[1]}
  <2>1. ASSUME NEW x \in ToSet(u) PROVE x \in ToSet(s) \ {s[1]}
    <3>1. PICK p \in DOMAIN u : x = u[p]
      BY <2>1 DEF ToSet
    <3>2. p + 1 \in DOMAIN s /\ x = s[p + 1] /\ p + 1 # 1 /\ 1 \in DOMAIN s
      BY <1>1, <3>1
    <3> QED
      BY <3>2 DEF ToSet, Apart
  <2>2. ASSUME NEW x \in ToSet(s) \ {s[1]} PROVE x \in ToSet(u)
    <3>1. PICK p \in DOMAIN s : x = s[p] /\ p # 1
      BY <2>2 DEF ToSet
    <3>2. p - 1 \in DOMAIN u /\ u[p - 1] = x
      BY <1>1, <3>1
    <3> QED
      BY <3>2 DEF ToSet
  <2> QED
    BY <2>1, <2>2
<1>4. Head(s) \in ToSet(s)
  BY <1>1 DEF ToSet
<1> QED
  BY <1>1, <1>2, <1>3, <1>4 DEF u

\* A fiber that suspends for the first time joins the queue.
LEMMA QueueAppend ==
  ASSUME NEW s \in Seq(Tasks), NEW t \in Tasks, Apart(s), t \notin ToSet(s)
  PROVE  /\ Append(s, t) \in Seq(Tasks)
         /\ Apart(Append(s, t)) /\ ToSet(Append(s, t)) = ToSet(s) \cup {t}
<1> DEFINE u == Append(s, t)
           l == Len(s)
<1>1. /\ l \in Nat /\ DOMAIN s = 1 .. l /\ DOMAIN u = 1 .. l + 1 /\ u \in Seq(Tasks)
      /\ \A k \in 1 .. l : u[k] = s[k]
      /\ u[l + 1] = t
  BY AppendProperties, LenProperties
<1> HIDE DEF u, l
<1>2. \A k \in DOMAIN s : s[k] # t
  BY DEF ToSet
<1>3. Apart(u)
  BY <1>1, <1>2 DEF Apart
<1>4. \A x : x \in ToSet(u) <=> x \in ToSet(s) \cup {t}
  BY <1>1 DEF ToSet
<1> QED
  BY <1>1, <1>3, <1>4 DEF u

\* A fiber that terminates leaves the queue.
LEMMA QueueRemove ==
  ASSUME NEW s \in Seq(Tasks), NEW p \in DOMAIN s, Apart(s)
  PROVE  /\ RemoveAt(s, p) \in Seq(Tasks)
         /\ Apart(RemoveAt(s, p)) /\ ToSet(RemoveAt(s, p)) = ToSet(s) \ {s[p]}
<1> DEFINE l == Len(s)
           a == SubSeq(s, 1, p - 1)
           b == SubSeq(s, p + 1, l)
           u == a \o b
<1>1. l \in Nat /\ DOMAIN s = 1 .. l /\ p \in 1 .. l
  BY LenProperties
<1>2. /\ a \in Seq(Tasks) /\ Len(a) = p - 1
      /\ \A k \in 1 .. p - 1 : a[k] = s[k]
  <2>1. 1 \in Int /\ p - 1 \in Int /\ \A k \in 1 .. p - 1 : s[k] \in Tasks
    BY <1>1
  <2> HIDE DEF l
  <2>2. /\ a \in Seq(Tasks) /\ Len(a) = IF 1 <= p - 1 THEN (p - 1) - 1 + 1 ELSE 0
        /\ \A k \in 1 .. (p - 1) - 1 + 1 : a[k] = s[1 + k - 1]
    BY <2>1, SubSeqProperties
  <2> HIDE DEF a
  <2> QED
    BY <1>1, <2>2
<1>3. /\ b \in Seq(Tasks) /\ Len(b) = l - p
      /\ \A k \in 1 .. l - p : b[k] = s[p + k]
  <2>1. p + 1 \in Int /\ l \in Int /\ \A k \in p + 1 .. l : s[k] \in Tasks
    BY <1>1
  <2> HIDE DEF l
  <2>2. /\ b \in Seq(Tasks) /\ Len(b) = IF p + 1 <= l THEN l - (p + 1) + 1 ELSE 0
        /\ \A k \in 1 .. l - (p + 1) + 1 : b[k] = s[(p + 1) + k - 1]
    BY <2>1, SubSeqProperties
  <2> HIDE DEF b
  <2>3. l - (p + 1) + 1 = l - p /\ Len(b) = l - p
    BY <1>1, <2>2
  <2>4. ASSUME NEW k \in 1 .. l - p PROVE b[k] = s[p + k]
    <3>1. (p + 1) + k - 1 = p + k
      BY <1>1
    <3> QED
      BY <2>2, <2>3, <3>1
  <2> QED
    BY <2>2, <2>3, <2>4
<1> HIDE DEF a, b, l
<1>4. /\ u \in Seq(Tasks) /\ DOMAIN u = 1 .. l - 1
      /\ \A k \in 1 .. l - 1 : u[k] = IF k < p THEN s[k] ELSE s[k + 1]
  <2>1. /\ u \in Seq(Tasks) /\ Len(u) = (p - 1) + (l - p)
        /\ \A k \in 1 .. (p - 1) + (l - p) : u[k] = IF k <= p - 1 THEN a[k] ELSE b[k - (p - 1)]
    <3>1. /\ u \in Seq(Tasks) /\ Len(u) = Len(a) + Len(b)
          /\ \A k \in 1 .. Len(a) + Len(b) : u[k] = IF k <= Len(a) THEN a[k] ELSE b[k - Len(a)]
      BY <1>2, <1>3, ConcatProperties
    <3> HIDE DEF u
    <3> QED
      BY <1>2, <1>3, <3>1
  <2>2. DOMAIN u = 1 .. l - 1
    BY <1>1, <2>1, LenProperties
  <2> HIDE DEF u
  <2>3. ASSUME NEW k \in 1 .. l - 1
        PROVE  u[k] = IF k < p THEN s[k] ELSE s[k + 1]
    <3>1. CASE k < p
      BY <1>1, <1>2, <2>1, <3>1
    <3>2. CASE ~(k < p)
      <4>1. PICK m \in 1 .. l - p : m = k - (p - 1) /\ p + m = k + 1
        BY <1>1, <3>2
      <4>2. u[k] = b[m]
        BY <1>1, <2>1, <3>2, <4>1
      <4>3. b[m] = s[k + 1]
        BY <1>3, <4>1
      <4> QED
        BY <3>2, <4>2, <4>3
    <3> QED
      BY <3>1, <3>2
  <2> QED
    BY <2>1, <2>2, <2>3
<1>5. RemoveAt(s, p) = u
  BY DEF RemoveAt, a, b, l
<1> HIDE DEF u
<1>6. Apart(u)
  <2> SUFFICES ASSUME NEW i \in DOMAIN u, NEW j \in DOMAIN u, u[i] = u[j] PROVE i = j
    BY DEF Apart
  <2>1. PICK m \in DOMAIN s : u[i] = s[m] /\ m = IF i < p THEN i ELSE i + 1
    BY <1>1, <1>4
  <2>2. PICK n \in DOMAIN s : u[j] = s[n] /\ n = IF j < p THEN j ELSE j + 1
    BY <1>1, <1>4
  <2>3. m = n
    BY <2>1, <2>2 DEF Apart
  <2> QED
    BY <1>1, <1>4, <2>1, <2>2, <2>3
<1>7. ASSUME NEW x \in ToSet(u) PROVE x \in ToSet(s) \ {s[p]}
  <2>1. PICK i \in DOMAIN u : x = u[i]
    BY <1>7 DEF ToSet
  <2>2. PICK m \in DOMAIN s : x = s[m] /\ m # p
    BY <1>1, <1>4, <2>1
  <2> QED
    BY <2>2 DEF ToSet, Apart
<1>8. ASSUME NEW x \in ToSet(s) \ {s[p]} PROVE x \in ToSet(u)
  <2>1. PICK m \in DOMAIN s : x = s[m] /\ m # p
    BY <1>8 DEF ToSet
  <2>2. CASE m < p
    <3>1. m \in DOMAIN u /\ u[m] = x
      BY <1>1, <1>4, <2>1, <2>2
    <3> QED
      BY <3>1 DEF ToSet
  <2>3. CASE m > p
    <3>1. m - 1 \in DOMAIN u /\ u[m - 1] = x
      BY <1>1, <1>4, <2>1, <2>3
    <3> QED
      BY <3>1 DEF ToSet
  <2> QED
    BY <1>1, <2>1, <2>2, <2>3
<1> QED
  BY <1>4, <1>5, <1>6, <1>7, <1>8

\* A queue is empty when nothing is in it.
LEMMA QueueEmpty ==
  ASSUME NEW s \in Seq(Tasks)
  PROVE  s = <<>> <=> ToSet(s) = {}
<1>1. s # <<>> => 1 \in DOMAIN s
  BY EmptySeq, LenProperties
<1>2. DOMAIN <<>> = {}
  OBVIOUS
<1> QED
  BY <1>1, <1>2 DEF ToSet

----------------------------------------------------------------------------
(* Every step keeps the invariant *)

\* Nothing was started and nothing was asked for.
LEMMA InitPhp == Init => PhpInv
<1> SUFFICES ASSUME Init PROVE PhpInv
  OBVIOUS
<1> USE PhpAssumption
<1>1. TypeOK
  <2>1. HostTypes
    <3>1. pipe \in Seq(Line)
      BY EmptySeq DEF Init
    <3>2. invited \in 0 .. MaxTasks /\ signals \in 0 .. MaxSignals
      BY PhpAssumption DEF Init
    <3>4. closed \in BOOLEAN
      BY DEF Init
    <3>3. oneShot \subseteq OneShots /\ deltas \in [Ids -> 0 .. MaxChunks] /\ answered \subseteq Ids
      BY DEF Init
    <3> QED
      BY <3>1, <3>2, <3>3, <3>4 DEF HostTypes
  <2>2. LoopTypes
    BY EmptySeq DEF Init, LoopTypes
  <2>4. TaskTypes /\ RegTypes
    BY EmptySeq DEF Init, TaskTypes, RegTypes
  <2>3. CallTypes
    BY DEF Init, CallTypes
  <2> QED
    BY <2>1, <2>2, <2>3, <2>4 DEF TypeOK
<1>2. WorkCount
  <2>1. WorkIn(<<>>) = {} /\ ~IsWork(NoLine) /\ buffer = <<>> /\ pipe = <<>>
    BY DEF Init, WorkIn, IsWork, NoLine
  <2>2. Cardinality(WorkIn(buffer)) = 0 /\ Cardinality(WorkIn(pipe)) = 0
    BY <2>1, FS_EmptySet
  <2> QED
    BY <2>1, <2>2 DEF Init, WorkCount
<1>3. ToSet(<<>>) = {} /\ Apart(<<>>)
  BY DEF ToSet, Apart
<1>4. FibersInv
  BY <1>3 DEF Init, FibersInv, FiberInv, Suspended, Tasks
<1>5. QueueInv /\ StopInv
  BY <1>3 DEF Init, QueueInv, StopInv
<1> QED
  BY <1>1, <1>2, <1>4, <1>5 DEF PhpInv

\* What the counts and the queues are about.
LEMMA PhpFacts ==
  ASSUME PhpInv
  PROVE  /\ pipe \in Seq(Line) /\ buffer \in Seq(Line) /\ line \in Line \cup {NoLine}
         /\ inflight \in Seq(Tasks) /\ todo \in Seq(Tasks)
         /\ nextTask \in Nat /\ nextTask <= MaxTasks /\ running \in 0 .. MaxTasks
         /\ invited \in Nat /\ invited <= MaxTasks /\ MaxTasks \in Nat
         /\ Cardinality(WorkIn(buffer)) \in Nat /\ Cardinality(WorkIn(pipe)) \in Nat
         /\ 0 \notin Tasks
<1>1. pipe \in Seq(Line) /\ buffer \in Seq(Line)
  BY DEF PhpInv, TypeOK, HostTypes, LoopTypes
<1>2. Cardinality(WorkIn(buffer)) \in Nat /\ Cardinality(WorkIn(pipe)) \in Nat
  BY <1>1, WorkFinite
<1> QED
  BY <1>1, <1>2, PhpAssumption DEF PhpInv, TypeOK, HostTypes, LoopTypes, TaskTypes, Tasks

\* The loop moves on and leaves the fibers and the lines behind the one it handled as they are.
LEMMA QuietKeeps ==
  ASSUME PhpInv, running = 0, line' \in {line, NoLine}, todo' \in {todo, inflight, <<>>},
         UNCHANGED <<pipe, invited, buffer, inflight, running, nextTask, isTool, replies, at, call>>
  PROVE  /\ TaskTypes' /\ WorkCount' /\ FibersInv'
         /\ Apart(inflight)' /\ Apart(todo)'
         /\ (ToSet(todo) \subseteq ToSet(inflight) \ {running})'
         /\ Suspended' = Suspended /\ Suspended = ToSet(inflight)
<1>1. TaskTypes'
  BY EmptySeq DEF PhpInv, TypeOK, TaskTypes
<1>2. WorkCount'
  BY PhpFacts DEF PhpInv, WorkCount, IsWork, NoLine
<1>3. Suspended' = Suspended /\ Suspended = ToSet(inflight)
  BY DEF Suspended
<1>4. FibersInv'
  BY <1>3 DEF PhpInv, FibersInv, FiberInv
<1>5. ToSet(<<>>) = {} /\ Apart(<<>>)
  BY DEF ToSet, Apart
<1>6. ToSet(inflight) \subseteq Tasks
  BY PhpFacts, LenProperties DEF ToSet
<1>7. Apart(inflight)' /\ Apart(todo)'
  BY <1>5 DEF PhpInv, QueueInv
<1>8. (ToSet(todo) \subseteq ToSet(inflight) \ {running})'
  BY <1>5, <1>6, PhpFacts DEF PhpInv, QueueInv
<1> QED
  BY <1>1, <1>2, <1>3, <1>4, <1>7, <1>8

\* Abandoning keeps the types of the registry.
LEMMA AbandonTypes ==
  ASSUME RegTypes, AbandonAll
  PROVE  RegTypes'
BY DEF RegTypes, AbandonAll

\* The loop ends its work.
LEMMA FinallyKeeps ==
  ASSUME PhpInv, running = 0, Finally, line' \in {line, NoLine},
         UNCHANGED <<hostVars, buffer, eof, stopped, acked, inflight, running, nextTask,
                     isTool, replies, callVars>>
  PROVE  PhpInv'
<1>1. todo' \in {todo, inflight, <<>>} /\ pc' \in {"exited", "finaldrain"}
      /\ (pc' = "exited" => inflight = <<>>)
  BY DEF Finally
<1>2. /\ TaskTypes' /\ WorkCount' /\ FibersInv'
      /\ Apart(inflight)' /\ Apart(todo)'
      /\ (ToSet(todo) \subseteq ToSet(inflight) \ {running})'
      /\ Suspended' = Suspended /\ Suspended = ToSet(inflight)
  BY <1>1, QuietKeeps DEF hostVars, callVars
<1>3. HostTypes' /\ CallTypes'
  BY DEF PhpInv, TypeOK, HostTypes, CallTypes, hostVars, callVars
<1>4. LoopTypes'
  BY <1>1 DEF PhpInv, TypeOK, LoopTypes
<1>5. RegTypes'
  BY AbandonTypes DEF PhpInv, TypeOK, Finally
<1>6. QueueInv'
  BY <1>1, <1>2 DEF QueueInv
<1>7. StopInv'
  BY <1>1, <1>2, PhpFacts, QueueEmpty DEF PhpInv, StopInv
<1> QED
  BY <1>2, <1>3, <1>4, <1>5, <1>6, <1>7 DEF PhpInv, TypeOK

LEMMA ReadLineKeeps == ASSUME PhpInv, ReadLine PROVE PhpInv'
<1> DEFINE all == buffer \o pipe
<1>1. /\ all \in Seq(Line)
      /\ Cardinality(WorkIn(all)) \in Nat
      /\ Cardinality(WorkIn(all)) <= Cardinality(WorkIn(buffer)) + Cardinality(WorkIn(pipe))
  <2>1. all \in Seq(Line)
    BY PhpFacts, ConcatProperties
  <2> QED
    BY <2>1, PhpFacts, WorkFinite, WorkConcat
<1>2. ~IsWork(NoLine) /\ Cardinality(WorkIn(<<>>)) = 0
  BY FS_EmptySet DEF IsWork, NoLine, WorkIn
<1>3. /\ UNCHANGED <<taskVars, regVars, callVars, stopped, acked, invited, Suspended>>
      /\ pc = "read" /\ ~stopped /\ running = 0 /\ pc' \in {"handle", "eof"} /\ pipe' = <<>>
  BY DEF ReadLine, Main, taskVars, Suspended
<1>4. \/ all # <<>> /\ line' = Head(all) /\ buffer' = Tail(all)
      \/ line' = NoLine /\ buffer' = all
  BY DEF ReadLine
<1> HIDE DEF all
<1>5. buffer' \in Seq(Line) /\ line' \in Line \cup {NoLine}
  BY <1>1, <1>4, HeadTailProperties
<1>6. HostTypes'
  BY <1>3, EmptySeq DEF PhpInv, TypeOK, HostTypes, ReadLine
<1>7. LoopTypes'
  BY <1>3, <1>5 DEF PhpInv, TypeOK, LoopTypes, ReadLine
<1>8. TaskTypes' /\ RegTypes' /\ CallTypes'
  BY <1>3 DEF PhpInv, TypeOK, TaskTypes, RegTypes, CallTypes, taskVars, regVars, callVars
<1>9. WorkCount'
  <2>1. nextTask' = nextTask /\ invited' = invited
    BY <1>3 DEF taskVars
  <2>2. Cardinality(WorkIn(buffer')) + (IF IsWork(line') THEN 1 ELSE 0)
          <= Cardinality(WorkIn(all))
    <3>1. CASE all # <<>> /\ line' = Head(all) /\ buffer' = Tail(all)
      <4>1. Cardinality(WorkIn(Tail(all))) + (IF IsWork(Head(all)) THEN 1 ELSE 0)
              <= Cardinality(WorkIn(all))
        BY <1>1, <3>1, WorkTail
      <4> QED
        BY <3>1, <4>1
    <3>2. CASE line' = NoLine /\ buffer' = all
      BY <1>1, <1>2, <3>2
    <3> QED
      BY <1>4, <3>1, <3>2
  <2>3. Cardinality(WorkIn(buffer')) \in Nat /\ Cardinality(WorkIn(pipe')) = 0
    BY <1>2, <1>3, <1>5, WorkFinite
  <2> QED
    BY <1>1, <2>1, <2>2, <2>3, PhpFacts DEF PhpInv, WorkCount
<1>10. FibersInv' /\ QueueInv'
  BY <1>3 DEF PhpInv, FibersInv, FiberInv, QueueInv, taskVars, callVars
<1>11. StopInv'
  BY <1>3 DEF PhpInv, StopInv
<1> QED
  BY <1>6, <1>7, <1>8, <1>9, <1>10, <1>11 DEF PhpInv, TypeOK

LEMMA LeaveKeeps == ASSUME PhpInv, Leave PROVE PhpInv'
BY FinallyKeeps DEF Leave, Main

LEMMA HandleFatalKeeps == ASSUME PhpInv, HandleFatal PROVE PhpInv'
BY FinallyKeeps DEF HandleFatal, Handling, Main

\* A fiber starts, and has the thread.
LEMMA HandleWorkKeeps ==
  ASSUME PhpInv, HandleWork
  PROVE  PhpInv' /\ nextTask' \in Tasks \ Suspended /\ Suspended' = Suspended \cup {nextTask'}
<1>1. PICK tool \in BOOLEAN :
        /\ Handling(IF tool THEN "tool" ELSE "event")
        /\ nextTask' = nextTask + 1
        /\ running' = nextTask'
        /\ at' = [at EXCEPT ![nextTask'] = "body"]
        /\ isTool' = [isTool EXCEPT ![nextTask'] = tool]
        /\ pc' = "eof"
        /\ UNCHANGED <<hostVars, buffer, eof, stopped, acked, inflight, todo, replies,
                       regVars, call, snap, cursor, late, outcome>>
  BY DEF HandleWork
<1> DEFINE t == nextTask'
<1>2. /\ IsWork(line) /\ ~IsWork(line') /\ line' = NoLine
      /\ running = 0 /\ pc = "handle"
  BY <1>1 DEF Handling, Main, IsWork, NoLine
<1>3. t \in Tasks /\ nextTask + 1 <= invited
      /\ nextTask' + (Cardinality(WorkIn(buffer)) + Cardinality(WorkIn(pipe))) <= invited
  BY <1>1, <1>2, PhpFacts DEF PhpInv, WorkCount, Tasks
<1>4. HostTypes' /\ RegTypes'
  BY <1>1 DEF PhpInv, TypeOK, HostTypes, RegTypes, hostVars, regVars
<1>5. LoopTypes' /\ CallTypes'
  BY <1>1, <1>2 DEF PhpInv, TypeOK, LoopTypes, CallTypes
<1>6. TaskTypes'
  BY <1>1, <1>3 DEF PhpInv, TypeOK, TaskTypes, Tasks
<1>7. WorkCount'
  BY <1>1, <1>2, <1>3, PhpFacts DEF WorkCount, hostVars
<1>8. Suspended' = Suspended \cup {t} /\ Suspended = ToSet(inflight)
  BY <1>1, <1>2, <1>3, PhpFacts DEF Suspended
<1>9. \A u \in Tasks : u \in ToSet(inflight) => u # t
  <2>1. \A u \in Tasks : u \in Suspended => u <= nextTask
    <3> SUFFICES ASSUME NEW u \in Tasks, u \in Suspended PROVE u <= nextTask
      OBVIOUS
    <3>1. FiberInv(u)
      BY DEF PhpInv, FibersInv
    <3>2. ~(u > nextTask)
      BY <3>1 DEF FiberInv
    <3> QED
      BY <3>2, PhpFacts DEF Tasks
  <2> QED
    BY <1>1, <1>8, <2>1, PhpFacts DEF Tasks
<1>10. FibersInv'
  <2> SUFFICES ASSUME NEW u \in Tasks PROVE FiberInv(u)'
    BY DEF FibersInv
  <2>1. FiberInv(u)
    BY DEF PhpInv, FibersInv
  <2>2. at \in [Tasks -> {"none", "body", "single", "stream", "chunk", "done"}]
        /\ isTool \in [Tasks -> BOOLEAN]
    BY DEF PhpInv, TypeOK, CallTypes, TaskTypes
  <2>3. CASE u = t
    <3>1. FiberInv(u) /\ u > nextTask
      BY <1>1, <2>1, <2>3, PhpFacts
    <3> QED
      BY <1>1, <1>3, <1>8, <2>2, <2>3, <3>1, PhpFacts DEF FiberInv
  <2>4. CASE u # t
    <3>1. (u > nextTask') <=> (u > nextTask)
      BY <1>1, <1>3, <2>4, PhpFacts DEF Tasks
    <3> QED
      BY <1>1, <1>8, <2>1, <2>2, <2>4, <3>1 DEF FiberInv
  <2> QED
    BY <2>3, <2>4
<1>11. QueueInv'
  BY <1>1, <1>2, <1>9, PhpFacts DEF PhpInv, QueueInv, ToSet
<1>12. StopInv'
  BY <1>1, <1>2 DEF PhpInv, StopInv
<1> QED
  BY <1>3, <1>4, <1>5, <1>6, <1>7, <1>8, <1>9, <1>10, <1>11, <1>12 DEF PhpInv, TypeOK

\* A step of the loop that only moves it on, or changes the registry.
LEMMA MoveKeeps ==
  ASSUME PhpInv, running = 0, line' \in {line, NoLine}, todo' \in {todo, inflight, <<>>},
         UNCHANGED <<hostVars, buffer, eof, inflight, running, nextTask, isTool, replies,
                     callVars>>,
         RegTypes', stopped' \in BOOLEAN, acked' \in BOOLEAN,
         pc' \in {"read", "handle", "eof", "tick", "drain", "finaldrain"},
         pc' \in {"read", "handle", "eof"} => todo' = <<>>,
         acked' => stopped' /\ inflight = <<>> /\ pc' \notin {"handle", "drain"}
  PROVE  PhpInv'
<1>1. /\ TaskTypes' /\ WorkCount' /\ FibersInv'
      /\ Apart(inflight)' /\ Apart(todo)'
      /\ (ToSet(todo) \subseteq ToSet(inflight) \ {running})'
      /\ Suspended' = Suspended /\ Suspended = ToSet(inflight)
  BY QuietKeeps DEF hostVars, callVars
<1>2. HostTypes' /\ CallTypes'
  BY DEF PhpInv, TypeOK, HostTypes, CallTypes, hostVars, callVars
<1>3. LoopTypes'
  BY DEF PhpInv, TypeOK, LoopTypes
<1>4. QueueInv'
  BY <1>1 DEF QueueInv
<1>5. StopInv'
  BY <1>1, PhpFacts, QueueEmpty DEF StopInv
<1> QED
  BY <1>1, <1>2, <1>3, <1>4, <1>5 DEF PhpInv, TypeOK

\* What a step of the loop finds.
LEMMA LoopFacts ==
  ASSUME PhpInv, running = 0
  PROVE  /\ acked => stopped /\ inflight = <<>> /\ pc \notin {"handle", "drain"}
         /\ stopped \in BOOLEAN /\ acked \in BOOLEAN
         /\ pc \in {"read", "handle", "eof"} => todo = <<>>
         /\ pc = "exited" => inflight = <<>>
         /\ RegTypes
         /\ pc \in {"read", "handle", "eof", "tick", "drain", "finaldrain", "exited"}
<1>1. Suspended = ToSet(inflight)
  BY DEF Suspended
<1>2. Suspended = {} => inflight = <<>>
  BY <1>1, PhpFacts, QueueEmpty
<1> QED
  BY <1>2 DEF PhpInv, TypeOK, LoopTypes, StopInv, QueueInv

LEMMA HandleHereKeeps == ASSUME PhpInv, HandleHere PROVE PhpInv'
<1>1. running = 0 /\ pc = "handle"
  BY DEF HandleHere, Handling, Main
<1>2. RegTypes'
  BY DEF HandleHere, regVars, PhpInv, TypeOK, RegTypes
<1> QED
  BY <1>1, <1>2, LoopFacts, MoveKeeps DEF HandleHere, Handling, taskVars

LEMMA HandleReplyKeeps == ASSUME PhpInv, HandleReply PROVE PhpInv'
<1>1. running = 0 /\ pc = "handle"
  BY DEF HandleReply, Handling, Main
<1>2. line.id \in Ids
  <2>1. line \in Line \cup {NoLine} /\ line.type = "reply"
    BY PhpFacts DEF HandleReply, Handling
  <2> QED
    BY <2>1 DEF Line, NoLine
<1>3. RegTypes'
  BY <1>2 DEF HandleReply, ResolveResponse, PhpInv, TypeOK, RegTypes
<1> QED
  BY <1>1, <1>3, LoopFacts, MoveKeeps DEF HandleReply, Handling, taskVars

LEMMA HandleDeltaKeeps == ASSUME PhpInv, HandleDelta PROVE PhpInv'
<1>1. running = 0 /\ pc = "handle"
  BY DEF HandleDelta, Handling, Main
<1>2. line.id \in Ids /\ line.n \in 1 .. MaxChunks
  <2>1. line \in Line \cup {NoLine} /\ line.type = "delta"
    BY PhpFacts DEF HandleDelta, Handling
  <2> QED
    BY <2>1 DEF Line, NoLine
<1>3. RegTypes'
  <2>1. chunks[line.id] \in Seq(1 .. MaxChunks)
    BY <1>2 DEF PhpInv, TypeOK, RegTypes
  <2>2. Append(chunks[line.id], line.n) \in Seq(1 .. MaxChunks)
    BY <1>2, <2>1, AppendProperties
  <2> QED
    BY <1>2, <2>2 DEF HandleDelta, AppendChunk, PhpInv, TypeOK, RegTypes
<1> QED
  BY <1>1, <1>3, LoopFacts, MoveKeeps DEF HandleDelta, Handling, taskVars

LEMMA HandleShutdownKeeps == ASSUME PhpInv, HandleShutdown PROVE PhpInv'
<1>1. running = 0 /\ pc = "handle"
  BY DEF HandleShutdown, Handling, Main
<1>2. RegTypes'
  BY <1>1, LoopFacts, AbandonTypes DEF HandleShutdown
<1> QED
  BY <1>1, <1>2, LoopFacts, MoveKeeps DEF HandleShutdown, Handling

LEMMA DrainAgainKeeps == ASSUME PhpInv, DrainAgain PROVE PhpInv'
<1>1. RegTypes'
  BY DEF DrainAgain, regVars, PhpInv, TypeOK, RegTypes
<1>2. running = 0 /\ pc \in {"drain", "finaldrain"}
  BY DEF DrainAgain
<1> QED
  BY <1>1, <1>2, LoopFacts, MoveKeeps DEF DrainAgain, loopVars

LEMMA ReplyShutdownKeeps == ASSUME PhpInv, ReplyShutdown PROVE PhpInv'
<1>1. RegTypes'
  BY DEF ReplyShutdown, regVars, PhpInv, TypeOK, RegTypes
<1>2. running = 0 /\ todo = <<>> /\ inflight = <<>>
  BY DEF ReplyShutdown, Main
<1> QED
  BY <1>1, <1>2, LoopFacts, MoveKeeps DEF ReplyShutdown, taskVars

LEMMA TickDoneKeeps == ASSUME PhpInv, TickDone PROVE PhpInv'
<1>1. RegTypes'
  BY DEF TickDone, regVars, PhpInv, TypeOK, RegTypes
<1>2. running = 0 /\ todo = <<>> /\ pc = "tick"
  BY DEF TickDone, Main
<1> QED
  BY <1>1, <1>2, LoopFacts, MoveKeeps DEF TickDone, taskVars

LEMMA LookForEofKeeps == ASSUME PhpInv, LookForEof PROVE PhpInv'
<1>1. running = 0 /\ pc = "eof"
  BY DEF LookForEof, Main
<1>2. CASE eof /\ buffer = <<>>
  BY <1>1, <1>2, FinallyKeeps DEF LookForEof
<1>3. CASE ~(eof /\ buffer = <<>>)
  <2>1. RegTypes'
    BY <1>3 DEF LookForEof, regVars, PhpInv, TypeOK, RegTypes
  <2> QED
    BY <1>1, <1>3, <2>1, LoopFacts, MoveKeeps DEF LookForEof
<1> QED
  BY <1>2, <1>3

\* The drain of the `finally` is over when nothing is in flight.
LEMMA FinalDrainDoneKeeps == ASSUME PhpInv, FinalDrainDone PROVE PhpInv'
<1>1. /\ running = 0 /\ todo = <<>> /\ inflight = <<>> /\ pc' = "exited"
      /\ line' = line /\ stopped' = stopped /\ acked' = acked
      /\ UNCHANGED <<hostVars, buffer, eof, taskVars, regVars, callVars>>
  BY DEF FinalDrainDone, Main
<1>2. /\ TaskTypes' /\ WorkCount' /\ FibersInv'
      /\ Apart(inflight)' /\ Apart(todo)'
      /\ (ToSet(todo) \subseteq ToSet(inflight) \ {running})'
      /\ Suspended' = Suspended /\ Suspended = ToSet(inflight)
  BY <1>1, QuietKeeps DEF hostVars, callVars, taskVars
<1>3. HostTypes' /\ CallTypes' /\ RegTypes'
  BY <1>1 DEF PhpInv, TypeOK, HostTypes, CallTypes, RegTypes, hostVars, callVars, regVars
<1>4. LoopTypes'
  BY <1>1 DEF PhpInv, TypeOK, LoopTypes
<1>5. QueueInv'
  BY <1>1, <1>2 DEF QueueInv
<1>6. StopInv'
  BY <1>1, <1>2, LoopFacts, PhpFacts, QueueEmpty DEF StopInv
<1> QED
  BY <1>2, <1>3, <1>4, <1>5, <1>6 DEF PhpInv, TypeOK

\* The tick gives the thread to the first fiber it has left.
LEMMA ResumeFiberKeeps == ASSUME PhpInv, ResumeFiber PROVE PhpInv' /\ Suspended' = Suspended
<1>1. /\ running = 0 /\ todo # <<>> /\ running' = Head(todo) /\ todo' = Tail(todo)
      /\ UNCHANGED <<hostVars, loopVars, inflight, nextTask, isTool, replies, regVars, callVars>>
  BY DEF ResumeFiber
<1>2. /\ todo' \in Seq(Tasks) /\ running' \in Tasks /\ running' \in ToSet(todo)
      /\ Apart(todo') /\ ToSet(todo') = ToSet(todo) \ {running'}
  BY <1>1, PhpFacts, QueueTail DEF PhpInv, QueueInv
<1>3. Suspended' = Suspended
  BY <1>1, <1>2, PhpFacts DEF PhpInv, QueueInv, Suspended
<1>4. HostTypes' /\ LoopTypes' /\ RegTypes' /\ CallTypes'
  BY <1>1 DEF PhpInv, TypeOK, HostTypes, LoopTypes, RegTypes, CallTypes,
              hostVars, loopVars, regVars, callVars
<1>5. TaskTypes'
  BY <1>1, <1>2 DEF PhpInv, TypeOK, TaskTypes, Tasks
<1>6. WorkCount'
  BY <1>1 DEF PhpInv, WorkCount, hostVars, loopVars
<1>7. FibersInv'
  BY <1>1, <1>3 DEF PhpInv, FibersInv, FiberInv, callVars
<1>8. QueueInv'
  BY <1>1, <1>2 DEF PhpInv, QueueInv, loopVars
<1>9. StopInv'
  BY <1>1, <1>3 DEF PhpInv, StopInv, loopVars
<1> QED
  BY <1>3, <1>4, <1>5, <1>6, <1>7, <1>8, <1>9 DEF PhpInv, TypeOK

LEMMA LoopKeeps == ASSUME PhpInv, Loop PROVE PhpInv'
BY ReadLineKeeps, LeaveKeeps, HandleWorkKeeps, HandleHereKeeps, HandleFatalKeeps, HandleReplyKeeps,
   HandleDeltaKeeps, HandleShutdownKeeps, DrainAgainKeeps, ReplyShutdownKeeps, FinalDrainDoneKeeps,
   LookForEofKeeps, TickDoneKeeps, ResumeFiberKeeps DEF Loop

\* A suspended fiber is in flight, and stays suspended.
LEMMA SuspendFacts ==
  ASSUME PhpInv, NEW t \in Tasks, running = t, UNCHANGED loopVars,
         UNCHANGED taskVars \/ Suspend(t)
  PROVE  /\ TaskTypes' /\ QueueInv' /\ Suspended' = Suspended
         /\ t \in Suspended /\ UNCHANGED <<nextTask, isTool, replies>>
<1>1. t # 0 /\ t \in Suspended
  BY PhpFacts DEF Suspended
<1>2. CASE UNCHANGED taskVars
  BY <1>1, <1>2 DEF PhpInv, TypeOK, TaskTypes, QueueInv, Suspended, taskVars, loopVars
<1>3. CASE Suspend(t)
  <2>1. /\ running' = 0 /\ UNCHANGED <<todo, nextTask, isTool, replies, pc>>
        /\ inflight' = IF t \in ToSet(inflight) THEN inflight ELSE Append(inflight, t)
    BY <1>3 DEF Suspend, loopVars
  <2>2. /\ inflight' \in Seq(Tasks) /\ Apart(inflight')
        /\ ToSet(inflight') = ToSet(inflight) \cup {t}
    BY <2>1, PhpFacts, QueueAppend DEF PhpInv, QueueInv
  <2>3. TaskTypes'
    BY <2>1, <2>2, PhpFacts DEF PhpInv, TypeOK, TaskTypes
  <2>4. ToSet(todo') \subseteq ToSet(inflight') \ {running'}
    <3>1. ToSet(todo) \subseteq Tasks
      BY PhpFacts, LenProperties DEF ToSet
    <3> QED
      BY <2>1, <2>2, <3>1, PhpFacts DEF PhpInv, QueueInv
  <2>5. QueueInv'
    BY <2>1, <2>2, <2>4 DEF PhpInv, QueueInv
  <2>6. Suspended' = Suspended
    BY <1>1, <2>1, <2>2 DEF Suspended
  <2> QED
    BY <1>1, <2>1, <2>3, <2>5, <2>6
<1> QED
  BY <1>2, <1>3

\* A step of a fiber after which it is still there.
LEMMA StepKeeps ==
  ASSUME PhpInv, NEW t \in Tasks, running = t, UNCHANGED <<hostVars, loopVars>>,
         UNCHANGED taskVars \/ Suspend(t),
         RegTypes', CallTypes',
         \A u \in Tasks \ {t} : at'[u] = at[u] /\ call'[u] = call[u],
         at'[t] \in {"body", "single", "stream", "chunk"},
         at'[t] \in {"single", "stream", "chunk"} <=> call'[t] # 0
  PROVE  PhpInv'
<1>1. /\ TaskTypes' /\ QueueInv' /\ Suspended' = Suspended
      /\ t \in Suspended /\ UNCHANGED <<nextTask, isTool, replies>>
  BY SuspendFacts
<1>2. HostTypes' /\ LoopTypes'
  BY DEF PhpInv, TypeOK, HostTypes, LoopTypes, hostVars, loopVars
<1>3. WorkCount'
  BY <1>1 DEF PhpInv, WorkCount, hostVars, loopVars
<1>4. FibersInv'
  <2> SUFFICES ASSUME NEW u \in Tasks PROVE FiberInv(u)'
    BY DEF FibersInv
  <2>1. FiberInv(u)
    BY DEF PhpInv, FibersInv
  <2>2. CASE u = t
    BY <1>1, <2>1, <2>2 DEF FiberInv
  <2>3. CASE u # t
    <3>1. at'[u] = at[u] /\ call'[u] = call[u]
      BY <2>3
    <3> QED
      BY <1>1, <2>1, <3>1 DEF FiberInv
  <2> QED
    BY <2>2, <2>3
<1>5. StopInv'
  BY <1>1 DEF PhpInv, StopInv, loopVars
<1> QED
  BY <1>1, <1>2, <1>3, <1>4, <1>5 DEF PhpInv, TypeOK

\* What a fiber that has the thread finds.
LEMMA FiberFacts ==
  ASSUME PhpInv, NEW t \in Tasks
  PROVE  /\ RegTypes /\ CallTypes
         /\ at[t] \in {"single", "stream", "chunk"} <=> call[t] # 0
         /\ call[t] # 0 => call[t] \in Ids
         /\ at[t] # "done" => replies[t] = 0
<1>1. FiberInv(t) /\ RegTypes /\ CallTypes
  BY DEF PhpInv, FibersInv, TypeOK
<1>2. call[t] \in 0 .. MaxCalls
  BY <1>1 DEF CallTypes
<1> QED
  BY <1>1, <1>2, PhpAssumption DEF FiberInv, Ids

LEMMA AuthorSuspendsKeeps ==
  ASSUME PhpInv, NEW t \in Tasks, AuthorSuspends(t) PROVE PhpInv'
<1>1. RegTypes' /\ CallTypes'
  BY FiberFacts DEF AuthorSuspends, RegTypes, CallTypes, regVars, callVars
<1> QED
  BY <1>1, FiberFacts, StepKeeps DEF AuthorSuspends, Has, callVars

LEMMA StartCallKeeps ==
  ASSUME PhpInv, NEW t \in Tasks, StartCall(t) PROVE PhpInv'
<1> DEFINE i == nextId'
<1>1. PICK k \in {"single", "stream"} :
        kind' = [kind EXCEPT ![i] = k] /\ at' = [at EXCEPT ![t] = k]
  BY DEF StartCall
<1>2. i \in Ids /\ i \in 0 .. MaxCalls /\ i # 0
  BY FiberFacts, PhpAssumption DEF StartCall, RegTypes, Ids
<1>3. RegTypes'
  BY <1>1, <1>2, FiberFacts DEF StartCall, RegTypes
<1>4. CallTypes'
  BY <1>1, <1>2, FiberFacts DEF StartCall, CallTypes
<1>5. /\ at \in [Tasks -> {"none", "body", "single", "stream", "chunk", "done"}]
      /\ call \in [Tasks -> 0 .. MaxCalls]
  BY FiberFacts DEF CallTypes
<1> QED
  BY <1>1, <1>2, <1>3, <1>4, <1>5, StepKeeps DEF StartCall, Has

\* A call that throws before its loop leaves its fiber where it was.
LEMMA StartCallThrowsKeeps ==
  ASSUME PhpInv, NEW t \in Tasks, StartCallThrows(t) PROVE PhpInv'
<1> DEFINE i == nextId'
<1>1. i \in Ids /\ i \in 0 .. MaxCalls
  BY FiberFacts, PhpAssumption DEF StartCallThrows, RegTypes, Ids
<1>2. RegTypes'
  BY <1>1, FiberFacts DEF StartCallThrows, RegTypes
<1>3. CallTypes'
  BY <1>1, FiberFacts DEF StartCallThrows, CallTypes
<1> QED
  BY <1>2, <1>3, FiberFacts, StepKeeps DEF StartCallThrows, Has

\* A call that ends leaves its fiber in the author's code.
LEMMA EndCallFacts ==
  ASSUME PhpInv, NEW t \in Tasks, NEW o, EndCall(t, o), call[t] \in Ids,
         o \in {"result", "server", "transport", "timeout"},
         cursor' \in [Ids -> Nat]
  PROVE  /\ RegTypes' /\ CallTypes'
         /\ at' = [at EXCEPT ![t] = "body"] /\ call' = [call EXCEPT ![t] = 0]
         /\ at'[t] = "body" /\ call'[t] = 0
         /\ \A u \in Tasks \ {t} : at'[u] = at[u] /\ call'[u] = call[u]
<1>1. RegTypes'
  BY FiberFacts DEF EndCall, RegTypes
<1>2. CallTypes'
  BY FiberFacts, PhpAssumption DEF EndCall, CallTypes
<1> QED
  BY <1>1, <1>2, FiberFacts DEF EndCall, CallTypes

\* The verdict of an entry is an outcome.
LEMMA VerdictType ==
  ASSUME RegTypes, NEW i \in Ids
  PROVE  Verdict(i) \in {"result", "server", "transport"}
BY DEF Verdict, RegTypes

LEMMA PollSingleKeeps ==
  ASSUME PhpInv, NEW t \in Tasks, PollSingle(t) PROVE PhpInv'
<1>1. /\ running = t /\ at[t] = "single" /\ call[t] \in Ids /\ RegTypes /\ CallTypes
      /\ UNCHANGED <<hostVars, loopVars>>
  BY FiberFacts DEF PollSingle, Has
<1>2. ASSUME NEW o \in {"result", "server", "transport", "timeout"},
             EndCall(t, o), UNCHANGED <<taskVars, cursor>>
      PROVE  PhpInv'
  <2>1. cursor' \in [Ids -> Nat]
    BY <1>1, <1>2 DEF CallTypes
  <2> QED
    BY <1>1, <1>2, <2>1, EndCallFacts, StepKeeps
<1>3. CASE Suspend(t) /\ UNCHANGED <<regVars, callVars>>
  <2>1. RegTypes' /\ CallTypes'
    BY <1>1, <1>3 DEF RegTypes, CallTypes, regVars, callVars
  <2> QED
    BY <1>1, <1>3, <2>1, FiberFacts, StepKeeps DEF callVars
<1>4. Verdict(call[t]) \in {"result", "server", "transport"}
  BY <1>1, VerdictType
<1> QED
  BY <1>2, <1>3, <1>4 DEF PollSingle

LEMMA PeekStreamKeeps ==
  ASSUME PhpInv, NEW t \in Tasks, PeekStream(t) PROVE PhpInv'
<1>1. /\ running = t /\ at[t] = "stream" /\ call[t] \in Ids /\ RegTypes /\ CallTypes
  BY FiberFacts DEF PeekStream, Has
<1>2. Len(chunks[call[t]]) \in Nat
  BY <1>1, LenProperties DEF RegTypes
<1>3. RegTypes' /\ CallTypes'
  BY <1>1, <1>2 DEF PeekStream, RegTypes, CallTypes, regVars
<1> QED
  BY <1>1, <1>3, FiberFacts, StepKeeps DEF PeekStream, CallTypes

LEMMA PassChunkKeeps ==
  ASSUME PhpInv, NEW t \in Tasks, PassChunk(t) PROVE PhpInv'
<1>1. /\ running = t /\ at[t] = "chunk" /\ call[t] \in Ids /\ RegTypes /\ CallTypes
      /\ UNCHANGED <<hostVars, loopVars, regVars, snap, late>>
      /\ cursor' = [cursor EXCEPT ![call[t]] = @ + 1]
  BY FiberFacts DEF PassChunk, Has
<1>2. RegTypes' /\ cursor' \in [Ids -> Nat]
  BY <1>1 DEF RegTypes, CallTypes, regVars
<1>3. CASE (UNCHANGED taskVars \/ Suspend(t)) /\ UNCHANGED <<at, call, outcome>>
  <2>1. CallTypes'
    BY <1>1, <1>2, <1>3 DEF CallTypes
  <2> QED
    BY <1>1, <1>2, <1>3, <2>1, FiberFacts, StepKeeps
<1>4. CASE /\ at' = [at EXCEPT ![t] = "body"] /\ call' = [call EXCEPT ![t] = 0]
           /\ outcome' = [outcome EXCEPT ![call[t]] = "dropped"]
           /\ UNCHANGED taskVars
  <2>1. CallTypes'
    BY <1>1, <1>2, <1>4, PhpAssumption DEF CallTypes
  <2>2. at'[t] = "body" /\ call'[t] = 0
    BY <1>1, <1>4 DEF CallTypes
  <2>3. \A u \in Tasks \ {t} : at'[u] = at[u] /\ call'[u] = call[u]
    BY <1>1, <1>4 DEF CallTypes
  <2> QED
    BY <1>1, <1>2, <1>4, <2>1, <2>2, <2>3, StepKeeps
<1> QED
  BY <1>3, <1>4 DEF PassChunk

LEMMA EndSnapshotKeeps ==
  ASSUME PhpInv, NEW t \in Tasks, EndSnapshot(t) PROVE PhpInv'
<1>1. /\ running = t /\ at[t] = "chunk" /\ call[t] \in Ids /\ RegTypes /\ CallTypes
      /\ UNCHANGED <<hostVars, loopVars>>
  BY FiberFacts DEF EndSnapshot, Has
<1>2. Len(chunks[call[t]]) \in Nat /\ Verdict(call[t]) \in {"result", "server", "transport"}
  BY <1>1, LenProperties, VerdictType DEF RegTypes
<1>3. ASSUME NEW o \in {"result", "server", "transport", "timeout"},
             EndCall(t, o), UNCHANGED taskVars, cursor' \in [Ids -> Nat]
      PROVE  PhpInv'
  BY <1>1, <1>3, EndCallFacts, StepKeeps
<1>4. CASE /\ cursor' = [cursor EXCEPT ![call[t]] = Len(chunks[call[t]])]
           /\ EndCall(t, Verdict(call[t])) /\ UNCHANGED taskVars
  <2>1. cursor' \in [Ids -> Nat]
    BY <1>1, <1>2, <1>4 DEF CallTypes
  <2> QED
    BY <1>2, <1>3, <1>4, <2>1
<1>5. CASE EndCall(t, "timeout") /\ UNCHANGED <<taskVars, cursor>>
  <2>1. cursor' \in [Ids -> Nat]
    BY <1>1, <1>5 DEF CallTypes
  <2> QED
    BY <1>3, <1>5, <2>1
<1>6. CASE /\ Suspend(t) /\ at' = [at EXCEPT ![t] = "stream"]
           /\ UNCHANGED <<regVars, call, snap, cursor, late, outcome>>
  <2>1. RegTypes' /\ CallTypes'
    BY <1>1, <1>6 DEF RegTypes, CallTypes, regVars
  <2>2. at'[t] = "stream" /\ \A u \in Tasks \ {t} : at'[u] = at[u]
    BY <1>1, <1>6 DEF CallTypes
  <2> QED
    BY <1>1, <1>6, <2>1, <2>2, FiberFacts, StepKeeps
<1> QED
  BY <1>4, <1>5, <1>6 DEF EndSnapshot

\* A fiber that terminates was suspended, and is not any more.
LEMMA ReturnKeeps ==
  ASSUME PhpInv, NEW t \in Tasks, Return(t)
  PROVE  PhpInv' /\ t \in Suspended /\ Suspended' = Suspended \ {t}
<1>1. /\ running = t /\ at[t] = "body" /\ at' = [at EXCEPT ![t] = "done"]
      /\ Terminates(t) /\ running' = 0 /\ t # 0
      /\ UNCHANGED <<hostVars, loopVars, todo, nextTask, isTool, regVars,
                     call, snap, cursor, late, outcome>>
  BY PhpFacts DEF Return, Has, Terminates
<1>2. replies' \in {replies, [replies EXCEPT ![t] = @ + 1]} /\ replies[t] = 0
  BY <1>1, FiberFacts DEF Return
<1>3. /\ at \in [Tasks -> {"none", "body", "single", "stream", "chunk", "done"}]
      /\ replies \in [Tasks -> 0 .. 1] /\ isTool \in [Tasks -> BOOLEAN]
      /\ call \in [Tasks -> 0 .. MaxCalls]
  BY DEF PhpInv, TypeOK, CallTypes, TaskTypes
<1>4. /\ inflight' \in Seq(Tasks) /\ Apart(inflight')
      /\ ToSet(inflight') = ToSet(inflight) \ {t}
  BY <1>1, PhpFacts, QueueRemove DEF Terminates, PhpInv, QueueInv
<1>5. Suspended' = Suspended \ {t}
  <2>1. 0 \notin ToSet(inflight)
    BY PhpFacts, LenProperties DEF ToSet
  <2> QED
    BY <1>1, <1>4, <2>1 DEF Suspended
<1>13. t \in Suspended
  BY <1>1 DEF Suspended
<1>6. HostTypes' /\ LoopTypes' /\ RegTypes'
  BY <1>1 DEF PhpInv, TypeOK, HostTypes, LoopTypes, RegTypes, hostVars, loopVars, regVars
<1>7. CallTypes'
  BY <1>1 DEF PhpInv, TypeOK, CallTypes
<1>8. TaskTypes'
  BY <1>1, <1>2, <1>3, <1>4, PhpFacts DEF PhpInv, TypeOK, TaskTypes
<1>9. WorkCount'
  BY <1>1 DEF PhpInv, WorkCount, hostVars, loopVars
<1>10. FibersInv'
  <2> SUFFICES ASSUME NEW u \in Tasks PROVE FiberInv(u)'
    BY DEF FibersInv
  <2>1. FiberInv(u)
    BY DEF PhpInv, FibersInv
  <2>2. CASE u = t
    BY <1>1, <1>2, <1>3, <1>5, <2>1, <2>2 DEF FiberInv
  <2>3. CASE u # t
    BY <1>1, <1>2, <1>3, <1>5, <2>1, <2>3 DEF FiberInv
  <2> QED
    BY <2>2, <2>3
<1>11. QueueInv'
  <2>1. ToSet(todo) \subseteq ToSet(inflight) \ {t}
    BY <1>1 DEF PhpInv, QueueInv
  <2>2. 0 \notin ToSet(todo)
    BY PhpFacts, LenProperties DEF ToSet
  <2> QED
    BY <1>1, <1>4, <2>1, <2>2 DEF PhpInv, QueueInv, loopVars
<1>12. StopInv'
  BY <1>1, <1>5 DEF PhpInv, StopInv, loopVars
<1> QED
  BY <1>5, <1>6, <1>7, <1>8, <1>9, <1>10, <1>11, <1>12, <1>13 DEF PhpInv, TypeOK

LEMMA FiberKeeps ==
  ASSUME PhpInv, NEW t \in Tasks, Fiber(t) PROVE PhpInv'
BY AuthorSuspendsKeeps, StartCallKeeps, StartCallThrowsKeeps, PollSingleKeeps, PeekStreamKeeps, PassChunkKeeps,
   EndSnapshotKeeps, ReturnKeeps DEF Fiber

\* What neither the loop nor a fiber does touches no queue.
LEMMA OthersKeep ==
  ASSUME PhpInv, UNCHANGED Others, HostTypes', late' \subseteq Ids,
         stopped' \in BOOLEAN, stopped => stopped',
         Cardinality(WorkIn(pipe')) + invited <= Cardinality(WorkIn(pipe)) + invited',
         Cardinality(WorkIn(pipe')) \in Nat
  PROVE  PhpInv'
<1>1. UNCHANGED <<buffer, eof, line, pc, acked, taskVars, regVars, at, call, snap, cursor, outcome>>
  BY DEF Others
<1>2. Suspended' = Suspended
  BY <1>1 DEF Suspended, taskVars
<1>3. LoopTypes' /\ TaskTypes' /\ RegTypes'
  BY <1>1 DEF PhpInv, TypeOK, LoopTypes, TaskTypes, RegTypes, taskVars, regVars
<1>4. CallTypes'
  BY <1>1 DEF PhpInv, TypeOK, CallTypes
<1>5. WorkCount'
  <2>1. invited' \in Nat
    BY PhpAssumption DEF HostTypes
  <2> QED
    BY <1>1, <2>1, PhpFacts DEF PhpInv, WorkCount, taskVars
<1>6. FibersInv' /\ QueueInv'
  BY <1>1, <1>2 DEF PhpInv, FibersInv, FiberInv, QueueInv, taskVars
<1>7. StopInv'
  BY <1>1, <1>2 DEF PhpInv, StopInv
<1> QED
  BY <1>3, <1>4, <1>5, <1>6, <1>7 DEF PhpInv, TypeOK

\* A line the host writes brings at most its own work.
LEMMA WriteFacts ==
  ASSUME PhpInv, NEW f \in Line, Write(f)
  PROVE  /\ pipe' \in Seq(Line) /\ Cardinality(WorkIn(pipe')) \in Nat
         /\ Cardinality(WorkIn(pipe'))
              <= Cardinality(WorkIn(pipe)) + (IF IsWork(f) THEN 1 ELSE 0)
<1>1. pipe' = Append(pipe, f) /\ pipe' \in Seq(Line)
  BY PhpFacts, AppendProperties DEF Write
<1> QED
  BY <1>1, PhpFacts, WorkFinite, WorkAppend

LEMMA EnvironmentKeeps ==
  ASSUME PhpInv, Environment PROVE PhpInv'
<1> USE PhpAssumption
<1>1. /\ HostTypes /\ late \subseteq Ids /\ stopped \in BOOLEAN
      /\ nextId \in 0 .. MaxCalls
      /\ Cardinality(WorkIn(pipe)) \in Nat /\ invited \in Nat
  BY PhpFacts DEF PhpInv, TypeOK, LoopTypes, RegTypes, CallTypes
<1>2. ASSUME HostInvites PROVE PhpInv'
  <2>1. PICK k \in {"event", "tool"} : Write([type |-> k])
    BY <1>2 DEF HostInvites
  <2>2. [type |-> k] \in Line
    BY DEF Line
  <2>3. /\ pipe' \in Seq(Line) /\ Cardinality(WorkIn(pipe')) \in Nat
        /\ Cardinality(WorkIn(pipe')) <= Cardinality(WorkIn(pipe)) + 1
    BY <1>1, <2>1, <2>2, WriteFacts
  <2>4. /\ invited' = invited + 1 /\ invited < MaxTasks
        /\ UNCHANGED <<closed, oneShot, deltas, answered, signals, stopped, late, Others>>
    BY <1>2 DEF HostInvites
  <2>5. HostTypes'
    BY <1>1, <2>3, <2>4 DEF HostTypes
  <2> QED
    BY <1>1, <2>3, <2>4, <2>5, OthersKeep
<1>3. ASSUME NEW f \in Line, Write(f), ~IsWork(f), invited' = invited, HostTypes' \/ pipe' \notin Seq(Line),
             UNCHANGED <<stopped, late, Others>>
      PROVE  PhpInv'
  <2>1. /\ pipe' \in Seq(Line) /\ Cardinality(WorkIn(pipe')) \in Nat
        /\ Cardinality(WorkIn(pipe')) <= Cardinality(WorkIn(pipe))
    BY <1>1, <1>3, WriteFacts
  <2> QED
    BY <1>1, <1>3, <2>1, OthersKeep
<1>4. ASSUME HostOneShot PROVE PhpInv'
  <2>1. PICK k \in OneShots \ oneShot : oneShot' = oneShot \cup {k} /\ Write([type |-> k])
    BY <1>4 DEF HostOneShot
  <2>2. [type |-> k] \in Line /\ ~IsWork([type |-> k])
    BY DEF Line, IsWork
  <2>3. UNCHANGED <<closed, invited, deltas, answered, signals, stopped, late, Others>>
    BY <1>4 DEF HostOneShot
  <2>4. HostTypes' \/ pipe' \notin Seq(Line)
    BY <1>1, <2>1, <2>3 DEF HostTypes
  <2> QED
    BY <1>3, <2>1, <2>2, <2>3, <2>4
<1>5. ASSUME HostAnswers PROVE PhpInv'
  <2>1. PICK i \in (1 .. nextId) \ answered, r \in {"result", "error"} :
          answered' = answered \cup {i} /\ Write([type |-> "reply", id |-> i, r |-> r])
    BY <1>5 DEF HostAnswers
  <2>2. i \in Ids
    BY <1>1 DEF Ids
  <2>3. [type |-> "reply", id |-> i, r |-> r] \in Line
    BY <2>2 DEF Line
  <2>4. ~IsWork([type |-> "reply", id |-> i, r |-> r])
    BY DEF IsWork
  <2>5. UNCHANGED <<closed, invited, oneShot, deltas, signals, stopped, late, Others>>
    BY <1>5 DEF HostAnswers
  <2>6. HostTypes' \/ pipe' \notin Seq(Line)
    BY <1>1, <2>1, <2>2, <2>5 DEF HostTypes
  <2> QED
    BY <1>3, <2>1, <2>3, <2>4, <2>5, <2>6
<1>6. ASSUME HostSendsDelta PROVE PhpInv'
  <2>1. PICK i \in (1 .. nextId) \ answered :
          /\ deltas[i] < MaxChunks
          /\ deltas' = [deltas EXCEPT ![i] = @ + 1]
          /\ Write([type |-> "delta", id |-> i, n |-> deltas'[i]])
    BY <1>6 DEF HostSendsDelta
  <2>2. i \in Ids
    BY <1>1 DEF Ids
  <2>3. deltas' \in [Ids -> 0 .. MaxChunks] /\ deltas'[i] \in 1 .. MaxChunks
    BY <1>1, <2>1, <2>2 DEF HostTypes
  <2>4. [type |-> "delta", id |-> i, n |-> deltas'[i]] \in Line
    BY <2>2, <2>3 DEF Line
  <2>5. ~IsWork([type |-> "delta", id |-> i, n |-> deltas'[i]])
    BY DEF IsWork
  <2>6. UNCHANGED <<closed, invited, oneShot, answered, signals, stopped, late, Others>>
    BY <1>6 DEF HostSendsDelta
  <2>7. HostTypes' \/ pipe' \notin Seq(Line)
    BY <1>1, <2>3, <2>6 DEF HostTypes
  <2> QED
    BY <1>3, <2>1, <2>4, <2>5, <2>6, <2>7
<1>7. ASSUME HostEnds PROVE PhpInv'
  <2>1. /\ closed' = TRUE
        /\ UNCHANGED <<invited, oneShot, deltas, answered, signals, stopped, late, Others>>
    BY <1>7 DEF HostEnds
  <2>2. HostTypes' \/ pipe' \notin Seq(Line)
    BY <1>1, <2>1 DEF HostTypes
  <2>3. CASE UNCHANGED pipe
    <3>1. HostTypes'
      BY <1>1, <2>2, <2>3 DEF HostTypes
    <3> QED
      BY <1>1, <2>1, <2>3, <3>1, OthersKeep
  <2>4. CASE Write([type |-> "partial"])
    <3>1. [type |-> "partial"] \in Line /\ ~IsWork([type |-> "partial"])
      BY DEF Line, IsWork
    <3> QED
      BY <1>3, <2>1, <2>2, <2>4, <3>1
  <2> QED
    BY <1>7, <2>3, <2>4 DEF HostEnds
<1>8. ASSUME Sigterm PROVE PhpInv'
  <2>1. HostTypes'
    BY <1>1, <1>8 DEF Sigterm, HostTypes
  <2> QED
    BY <1>1, <1>8, <2>1, OthersKeep DEF Sigterm
<1> QED
  BY <1>2, <1>4, <1>5, <1>6, <1>7, <1>8 DEF Environment

LEMMA DeadlinePassesKeeps ==
  ASSUME PhpInv, NEW i \in Ids, DeadlinePasses(i) PROVE PhpInv'
<1>1. HostTypes' /\ late' \subseteq Ids /\ stopped \in BOOLEAN
  BY DEF DeadlinePasses, hostVars, PhpInv, TypeOK, HostTypes, CallTypes, LoopTypes
<1> QED
  BY <1>1, PhpFacts, OthersKeep DEF DeadlinePasses, hostVars

\* The invariant is inductive.
LEMMA NextPhp == ASSUME PhpInv, [Next]_vars PROVE PhpInv'
<1>1. ASSUME UNCHANGED vars PROVE PhpInv'
  <2>1. UNCHANGED Others /\ UNCHANGED <<hostVars, stopped, late>>
    BY <1>1 DEF vars, Others, hostVars, loopVars, callVars
  <2>2. HostTypes' /\ late' \subseteq Ids /\ stopped' \in BOOLEAN
    BY <2>1 DEF hostVars, PhpInv, TypeOK, HostTypes, CallTypes, LoopTypes
  <2> QED
    BY <2>1, <2>2, PhpFacts, OthersKeep DEF hostVars
<1> QED
  BY <1>1, LoopKeeps, FiberKeeps, DeadlinePassesKeeps, EnvironmentKeeps DEF Next

LEMMA SpecPhp == Spec => []PhpInv
BY InitPhp, NextPhp, PTL DEF Spec

----------------------------------------------------------------------------
(* The theorems *)

\* The state of the PHP adapter keeps its type: no more fibers are started than the
\* host asked for, no tool is answered twice, and the queue of the scheduler holds fibers.
THEOREM PhpTypes == Spec => []TypeOK
<1>1. PhpInv => TypeOK
  BY DEF PhpInv
<1> QED
  BY <1>1, SpecPhp, PTL

\* The acknowledgement of a shutdown comes after every handler and every tool
\* reply, if the details of errors can be encoded (replyShutdown, handleToolInvoke).
THEOREM AcksAfterReplies ==
  ASSUME "badDetails" \notin AuthorFaults
  PROVE  Spec => []AckAfterReplies
<1> DEFINE Answered == \A t \in Tasks : at[t] = "done" /\ isTool[t] => replies[t] = 1
<1>1. Init => Answered
  BY DEF Init
<1>2. ASSUME PhpInv, Answered, [Next]_vars PROVE Answered'
  <2>1. /\ at \in [Tasks -> {"none", "body", "single", "stream", "chunk", "done"}]
        /\ replies \in [Tasks -> 0 .. 1] /\ isTool \in [Tasks -> BOOLEAN]
        /\ PhpInv'
    BY <1>2, NextPhp DEF PhpInv, TypeOK, CallTypes, TaskTypes
  <2> SUFFICES ASSUME NEW t \in Tasks, at'[t] = "done", isTool'[t] PROVE replies'[t] = 1
    OBVIOUS
  <2>2. CASE UNCHANGED <<at, isTool, replies>>
    BY <1>2, <2>2
  <2>3. ASSUME NEW u \in Tasks, Return(u) PROVE replies'[t] = 1
    <3>1. /\ at' = [at EXCEPT ![u] = "done"] /\ isTool' = isTool /\ at[u] # "done"
          /\ replies' = IF isTool[u] THEN [replies EXCEPT ![u] = @ + 1] ELSE replies
      BY <2>3 DEF Return, Has
    <3>2. replies[u] = 0
      BY <1>2, <3>1, FiberFacts
    <3> QED
      BY <1>2, <2>1, <3>1, <3>2
  <2>4. ASSUME NEW u \in Tasks, Fiber(u), ~Return(u) PROVE replies'[t] = 1
    <3>1. /\ isTool' = isTool /\ replies' = replies
          /\ \A k \in Tasks : at'[k] = "done" => at[k] = "done"
      BY <2>1, <2>4 DEF Fiber, AuthorSuspends, StartCall, StartCallThrows, PollSingle, PeekStream, PassChunk,
                        EndSnapshot, EndCall, Suspend, taskVars, callVars
    <3> QED
      BY <1>2, <3>1
  <2>5. ASSUME HandleWork PROVE replies'[t] = 1
    <3>1. PICK tool \in BOOLEAN : /\ at' = [at EXCEPT ![nextTask'] = "body"]
                                  /\ isTool' = [isTool EXCEPT ![nextTask'] = tool]
                                  /\ replies' = replies
      BY <2>5 DEF HandleWork
    <3> QED
      BY <1>2, <2>1, <3>1
  <2>6. ASSUME Loop, ~HandleWork PROVE UNCHANGED <<at, isTool, replies>>
    BY <2>6 DEF Loop, ReadLine, Leave, HandleHere, HandleFatal, HandleReply, HandleDelta,
                HandleShutdown, DrainAgain, ReplyShutdown, FinalDrainDone, LookForEof, TickDone,
                ResumeFiber, taskVars, callVars
  <2>7. ASSUME Environment PROVE UNCHANGED <<at, isTool, replies>>
    BY <2>7 DEF Environment, HostInvites, HostOneShot, HostAnswers, HostSendsDelta, HostEnds,
                Sigterm, Others, taskVars
  <2>8. ASSUME NEW i \in Ids, DeadlinePasses(i) PROVE UNCHANGED <<at, isTool, replies>>
    BY <2>8 DEF DeadlinePasses, Others, taskVars
  <2>9. ASSUME UNCHANGED vars PROVE UNCHANGED <<at, isTool, replies>>
    BY <2>9 DEF vars, taskVars, callVars
  <2> QED
    BY <1>2, <2>2, <2>3, <2>4, <2>5, <2>6, <2>7, <2>8, <2>9 DEF Next
<1>3. PhpInv /\ Answered => AckAfterReplies
  <2> SUFFICES ASSUME PhpInv, Answered, acked PROVE AckAfterReplies
    BY DEF AckAfterReplies
  <2>1. Suspended = {}
    BY DEF PhpInv, StopInv
  <2>2. inflight = <<>>
    BY <2>1, PhpFacts, QueueEmpty DEF Suspended
  <2>3. ASSUME NEW t \in Tasks, isTool[t] PROVE at[t] = "done"
    BY <2>1, <2>3 DEF PhpInv, FibersInv, FiberInv
  <2> QED
    BY <2>2, <2>3 DEF AckAfterReplies
<1> QED
  <2> HIDE DEF Answered
  <2> QED
    BY <1>1, <1>2, <1>3, SpecPhp, PTL DEF Spec

\* A fiber that does not terminate stays suspended, or gets there.
LEMMA FiberStays ==
  ASSUME PhpInv, NEW t \in Tasks, Fiber(t), ~Return(t)
  PROVE  Suspended' = Suspended /\ UNCHANGED loopVars
<1>1. running = t /\ UNCHANGED loopVars /\ (UNCHANGED taskVars \/ Suspend(t))
  BY DEF Fiber, AuthorSuspends, StartCall, StartCallThrows, PollSingle, PeekStream, PassChunk, EndSnapshot, Has
<1> QED
  BY <1>1, SuspendFacts

\* Every step is a step of a graceful stop, or none.
LEMMA GracefulStep ==
  ASSUME PhpInv, [Next]_vars
  PROVE  [Graceful!StopNext]_(Graceful!stopVars)
<1> USE DEF Graceful!StopNext, Graceful!stopVars
<1>0. /\ acked => Suspended = {} /\ pc \notin {"handle", "drain"}
      /\ pc = "exited" => Suspended = {}
      /\ running = 0 => Suspended = ToSet(inflight)
      /\ ToSet(<<>>) = {}
  BY DEF PhpInv, StopInv, Suspended, ToSet
<1>1. CASE HandleWork
  <2>1. nextTask' \in Tasks \ Suspended /\ Suspended' = Suspended \cup {nextTask'}
    BY <1>1, HandleWorkKeeps
  <2>2. pc = "handle" /\ pc' = "eof" /\ acked' = acked
    BY <1>1 DEF HandleWork, Handling, Main
  <2>3. Graceful!Take(nextTask')
    BY <1>0, <2>1, <2>2 DEF Graceful!Take
  <2> QED
    BY <2>1, <2>3
<1>2. ASSUME NEW t \in Tasks, Return(t)
      PROVE  Graceful!StopNext
  <2>1. t \in Suspended /\ Suspended' = Suspended \ {t}
    BY <1>2, ReturnKeeps
  <2>2. Graceful!Complete(t)
    BY <1>2, <2>1 DEF Return, loopVars, Graceful!Complete
  <2> QED
    BY <2>2
<1>3. CASE UNCHANGED <<pc, acked, Suspended>>
  BY <1>3
<1>4. ASSUME NEW t \in Tasks, Fiber(t)
      PROVE  [Graceful!StopNext]_(Graceful!stopVars)
  BY <1>2, <1>3, <1>4, FiberStays DEF loopVars
<1>5. ASSUME running = 0, Finally, pc \in {"read", "handle", "eof"},
             UNCHANGED <<acked, inflight, running>>
      PROVE  [Graceful!StopNext]_(Graceful!stopVars)
  <2>1. Suspended' = Suspended /\ Suspended = ToSet(inflight)
    BY <1>0, <1>5 DEF Suspended
  <2>2. CASE inflight = <<>>
    <3>1. Graceful!Exit
      BY <1>0, <1>5, <2>1, <2>2 DEF Finally, Graceful!Exit
    <3> QED
      BY <3>1
  <2>3. CASE inflight # <<>>
    <3>1. ~acked
      BY <1>0, <2>1, <2>3, PhpFacts, QueueEmpty
    <3>2. Graceful!BeginStop
      BY <1>5, <2>1, <2>3, <3>1 DEF Finally, Graceful!BeginStop
    <3> QED
      BY <3>2
  <2> QED
    BY <2>2, <2>3
<1>6. CASE Leave \/ HandleFatal
  BY <1>5, <1>6 DEF Leave, HandleFatal, Handling, Main
<1>7. CASE LookForEof
  <2>1. CASE Finally
    BY <1>5, <1>7, <2>1 DEF LookForEof, Main
  <2>2. CASE ~Finally
    <3>1. /\ pc = "eof" /\ pc' = "tick" /\ UNCHANGED <<acked, Suspended>>
      BY <1>7, <2>2 DEF LookForEof, Main, Suspended
    <3> QED
      BY <3>1
  <2> QED
    BY <2>1, <2>2
<1>8. CASE HandleShutdown
  <2>1. pc = "handle" /\ pc' = "drain" /\ UNCHANGED <<acked, Suspended>>
    BY <1>8 DEF HandleShutdown, Handling, Main, Suspended
  <2>2. Graceful!BeginStop
    BY <1>0, <2>1 DEF Graceful!BeginStop
  <2> QED
    BY <2>2
<1>9. CASE ReplyShutdown
  <2>1. pc = "drain" /\ pc' = "eof" /\ acked' /\ Suspended = {} /\ Suspended' = Suspended
    BY <1>0, <1>9 DEF ReplyShutdown, Main, Suspended, taskVars
  <2>2. Graceful!Acknowledge
    BY <1>0, <2>1 DEF Graceful!Acknowledge
  <2> QED
    BY <2>2
<1>10. CASE FinalDrainDone
  <2>1. /\ pc = "finaldrain" /\ pc' = "exited" /\ acked' = acked
        /\ Suspended = {} /\ Suspended' = Suspended
    BY <1>0, <1>10 DEF FinalDrainDone, Main, Suspended, taskVars
  <2>2. Graceful!Exit
    BY <2>1 DEF Graceful!Exit
  <2> QED
    BY <2>2
<1>11. CASE ReadLine \/ HandleHere \/ HandleReply \/ HandleDelta \/ TickDone
  <2>1. /\ pc \in {"read", "handle", "tick"} /\ pc' \in {"read", "handle", "eof"}
        /\ UNCHANGED <<acked, Suspended>>
    BY <1>11 DEF ReadLine, HandleHere, HandleReply, HandleDelta, TickDone, Handling, Main,
                 Suspended, taskVars
  <2> QED
    BY <2>1
<1>12. CASE DrainAgain \/ ResumeFiber
  BY <1>3, <1>12, ResumeFiberKeeps DEF DrainAgain, ResumeFiber, loopVars, Suspended
<1>13. CASE Environment \/ \E i \in Ids : DeadlinePasses(i)
  BY <1>3, <1>13 DEF Environment, HostInvites, HostOneShot, HostAnswers, HostSendsDelta, HostEnds,
                     Sigterm, DeadlinePasses, Others, taskVars, Suspended
<1>14. CASE UNCHANGED vars
  BY <1>3, <1>14 DEF vars, loopVars, taskVars, Suspended
<1> QED
  BY <1>1, <1>4, <1>6, <1>7, <1>8, <1>9, <1>10, <1>11, <1>12, <1>13, <1>14 DEF Next, Loop

\* The PHP adapter takes no work once it stops, and acknowledges or exits only when
\* what it had taken is done: whatever signals it gets, however its stdin ends
\* and whatever its authors do (run, replyShutdown, Scheduler::drain).
THEOREM AdapterStopsGracefully == Spec => StopsGracefully
<1>1. Init => Graceful!StopInit
  BY DEF Init, Graceful!StopInit, Suspended, ToSet
<1>2. PhpInv /\ [Next]_vars => [Graceful!StopNext]_(Graceful!stopVars)
  BY GracefulStep
<1> QED
  BY <1>1, <1>2, SpecPhp, PTL DEF Spec, StopsGracefully, Graceful!StopSpec

----------------------------------------------------------------------------
(* The fibers and their calls *)

\* No two fibers are in the same call, and none is in a call to come.
CallsApart ==
  /\ \A t \in Tasks : call[t] <= nextId
  /\ \A t, u \in Tasks : call[t] = call[u] /\ call[t] # 0 => t = u

\* A call in progress has no outcome, and a snapshot says of the entry what is
\* still true.
AuthorsInv ==
  /\ CallsApart
  /\ \A i \in Ids : InCall(i) \/ i > nextId => outcome[i] = "none"
  /\ \A t \in Tasks : at[t] = "chunk" /\ snap[t].done => call[t] \in done
  /\ \A t \in Tasks : at[t] = "single" => kind[call[t]] = "single"

LEMMA AuthorsStep ==
  ASSUME PhpInv, AuthorsInv, [Next]_vars
  PROVE  AuthorsInv'
<1>0. /\ nextId \in 0 .. MaxCalls /\ call \in [Tasks -> 0 .. MaxCalls]
      /\ at \in [Tasks -> {"none", "body", "single", "stream", "chunk", "done"}]
      /\ kind \in [Ids -> {"none", "single", "stream", "unsent"}]
      /\ DOMAIN outcome = Ids /\ DOMAIN snap = Tasks
      /\ \A i \in Ids : i # 0
      /\ \A t \in Tasks : /\ at[t] \in {"single", "stream", "chunk"} <=> call[t] # 0
                          /\ call[t] # 0 => call[t] \in Ids
  <2>1. RegTypes /\ CallTypes
    BY DEF PhpInv, TypeOK
  <2>2. \A t \in Tasks : /\ at[t] \in {"single", "stream", "chunk"} <=> call[t] # 0
                         /\ call[t] # 0 => call[t] \in Ids
    BY FiberFacts
  <2>3. \A i \in Ids : i # 0
    BY PhpAssumption DEF Ids
  <2> QED
    BY <2>1, <2>2, <2>3 DEF RegTypes, CallTypes
<1>1. ASSUME UNCHANGED <<nextId, call, at, kind, outcome, snap>>, done \subseteq done'
      PROVE  AuthorsInv'
  BY <1>1 DEF AuthorsInv, CallsApart, InCall
<1>2. ASSUME NEW t \in Tasks, StartCall(t) PROVE AuthorsInv'
  <2> DEFINE i == nextId'
  <2>1. PICK k \in {"single", "stream"} :
          kind' = [kind EXCEPT ![i] = k] /\ at' = [at EXCEPT ![t] = k]
    BY <1>2 DEF StartCall
  <2>2. /\ nextId' = nextId + 1 /\ i \in Ids /\ call' = [call EXCEPT ![t] = i]
        /\ UNCHANGED <<done, snap, outcome>>
    BY <1>0, <1>2, PhpAssumption DEF StartCall, Ids
  <2>3. \A u \in Tasks : call[u] # i /\ call[u] <= nextId
    BY <1>0, <2>2 DEF AuthorsInv, CallsApart
  <2>4. CallsApart'
    BY <1>0, <2>2, <2>3 DEF AuthorsInv, CallsApart
  <2>5. ASSUME NEW j \in Ids, InCall(j)' \/ j > nextId' PROVE outcome'[j] = "none"
    <3>1. CASE j = i
      BY <1>0, <2>2, <3>1 DEF AuthorsInv
    <3>2. CASE j # i
      <4>1. InCall(j) \/ j > nextId
        BY <1>0, <2>2, <2>5, <3>2 DEF InCall, Ids
      <4> QED
        BY <2>2, <4>1 DEF AuthorsInv
    <3> QED
      BY <3>1, <3>2
  <2>6. ASSUME NEW u \in Tasks
        PROVE  /\ at'[u] = "chunk" /\ snap'[u].done => call'[u] \in done'
               /\ at'[u] = "single" => kind'[call'[u]] = "single"
    <3>1. CASE u = t
      BY <1>0, <2>1, <2>2, <3>1
    <3>2. CASE u # t
      BY <1>0, <2>1, <2>2, <2>3, <3>2 DEF AuthorsInv
    <3> QED
      BY <3>1, <3>2
  <2> QED
    BY <2>4, <2>5, <2>6 DEF AuthorsInv
<1>3. ASSUME NEW t \in Tasks, at[t] \in {"single", "stream", "chunk"},
             \A i \in Ids \ {call[t]} : outcome'[i] = outcome[i], call' = [call EXCEPT ![t] = 0],
             at' = [at EXCEPT ![t] = "body"], UNCHANGED <<nextId, kind, done, snap>>
      PROVE  AuthorsInv'
  <2>1. CallsApart'
    BY <1>0, <1>3 DEF AuthorsInv, CallsApart
  <2>2. ASSUME NEW j \in Ids, InCall(j)' \/ j > nextId' PROVE outcome'[j] = "none"
    <3>1. j # call[t] /\ (InCall(j) \/ j > nextId)
      BY <1>0, <1>3, <2>2 DEF AuthorsInv, CallsApart, InCall, Ids
    <3> QED
      BY <1>0, <1>3, <3>1 DEF AuthorsInv
  <2>3. \A u \in Tasks : /\ at'[u] = "chunk" /\ snap'[u].done => call'[u] \in done'
                         /\ at'[u] = "single" => kind'[call'[u]] = "single"
    BY <1>0, <1>3 DEF AuthorsInv
  <2> QED
    BY <2>1, <2>2, <2>3 DEF AuthorsInv
<1>4. ASSUME NEW t \in Tasks, NEW o, EndCall(t, o), at[t] \in {"single", "stream", "chunk"}
      PROVE  AuthorsInv'
  <2>1. /\ \A i \in Ids \ {call[t]} : outcome'[i] = outcome[i]
        /\ call' = [call EXCEPT ![t] = 0]
        /\ at' = [at EXCEPT ![t] = "body"] /\ UNCHANGED <<nextId, kind, done, snap>>
    BY <1>0, <1>4 DEF EndCall
  <2> QED
    BY <1>3, <1>4, <2>1
<1>5. ASSUME NEW t \in Tasks, Fiber(t) PROVE AuthorsInv'
  <2>1. CASE PollSingle(t)
    BY <1>1, <1>4, <2>1 DEF PollSingle, Has, regVars, callVars
  <2>2. CASE PeekStream(t)
    BY <1>0, <2>2 DEF PeekStream, regVars, AuthorsInv, CallsApart, InCall
  <2>3. CASE PassChunk(t)
    <3>1. UNCHANGED <<regVars, snap>> /\ at[t] = "chunk"
      BY <2>3 DEF PassChunk, Has
    <3>2. CASE UNCHANGED <<at, call, outcome>>
      BY <1>1, <3>1, <3>2 DEF regVars
    <3>3. CASE /\ at' = [at EXCEPT ![t] = "body"] /\ call' = [call EXCEPT ![t] = 0]
               /\ outcome' = [outcome EXCEPT ![call[t]] = "dropped"]
      <4>1. \A i \in Ids \ {call[t]} : outcome'[i] = outcome[i]
        BY <1>0, <3>3
      <4> QED
        BY <1>3, <3>1, <3>3, <4>1 DEF regVars
    <3> QED
      BY <2>3, <3>2, <3>3 DEF PassChunk
  <2>4. CASE EndSnapshot(t)
    <3>1. CASE Suspend(t) /\ at' = [at EXCEPT ![t] = "stream"] /\ at[t] = "chunk"
               /\ UNCHANGED <<regVars, call, snap, cursor, late, outcome>>
      BY <1>0, <3>1 DEF regVars, AuthorsInv, CallsApart, InCall
    <3> QED
      BY <1>4, <2>4, <3>1 DEF EndSnapshot, Has
  <2>5. CASE Return(t)
    BY <1>0, <2>5 DEF Return, regVars, AuthorsInv, CallsApart, InCall
  <2>6. CASE AuthorSuspends(t)
    BY <1>1, <2>6 DEF AuthorSuspends, regVars, callVars
  <2>7. CASE StartCallThrows(t)
    <3>1. /\ nextId' = nextId + 1 /\ kind' = [kind EXCEPT ![nextId'] = "unsent"]
          /\ outcome' = [outcome EXCEPT ![nextId'] = "dropped"]
          /\ UNCHANGED <<call, at, snap, done>>
      BY <2>7 DEF StartCallThrows
    <3>2. CallsApart'
      BY <1>0, <3>1 DEF AuthorsInv, CallsApart
    <3>3. ASSUME NEW j \in Ids, InCall(j)' \/ j > nextId' PROVE outcome'[j] = "none"
      <4>1. j # nextId' /\ (InCall(j) \/ j > nextId)
        BY <1>0, <3>1, <3>3 DEF AuthorsInv, CallsApart, InCall, Ids
      <4> QED
        BY <3>1, <4>1 DEF AuthorsInv
    <3>4. ASSUME NEW u \in Tasks, at[u] = "single" PROVE kind'[call[u]] = "single"
      <4>1. call[u] # nextId' /\ kind[call[u]] = "single"
        BY <1>0, <3>1, <3>4 DEF AuthorsInv, CallsApart
      <4> QED
        BY <3>1, <4>1
    <3> QED
      BY <3>1, <3>2, <3>3, <3>4 DEF AuthorsInv
  <2> QED
    BY <1>2, <1>5, <2>1, <2>2, <2>3, <2>4, <2>5, <2>6, <2>7 DEF Fiber
<1>6. CASE HandleWork
  <2>1. nextTask' \in Tasks /\ at' = [at EXCEPT ![nextTask'] = "body"]
        /\ UNCHANGED <<regVars, call, snap, outcome>>
    BY <1>6, HandleWorkKeeps DEF HandleWork
  <2> QED
    BY <1>0, <2>1 DEF regVars, AuthorsInv, CallsApart, InCall
<1>7. CASE Loop /\ ~HandleWork
  BY <1>1, <1>7
     DEF Loop, ReadLine, Leave, HandleHere, HandleFatal, HandleReply, HandleDelta,
         HandleShutdown, DrainAgain, ReplyShutdown, FinalDrainDone, LookForEof, TickDone, ResumeFiber,
         Finally, AbandonAll, ResolveResponse, AppendChunk, regVars, callVars
<1>8. CASE Environment \/ \E i \in Ids : DeadlinePasses(i)
  BY <1>1, <1>8 DEF Environment, HostInvites, HostOneShot, HostAnswers, HostSendsDelta, HostEnds,
                    Sigterm, DeadlinePasses, Others, regVars
<1>9. CASE UNCHANGED vars
  BY <1>1, <1>9 DEF vars, regVars, callVars
<1> QED
  BY <1>5, <1>6, <1>7, <1>8, <1>9 DEF Next

LEMMA SpecAuthors == Spec => []AuthorsInv
<1>1. Init => AuthorsInv
  BY PhpAssumption DEF Init, AuthorsInv, CallsApart, InCall, Ids
<1>2. PhpInv /\ AuthorsInv /\ [Next]_vars => AuthorsInv'
  BY AuthorsStep
<1> QED
  BY <1>1, <1>2, SpecPhp, PTL DEF Spec

----------------------------------------------------------------------------
(* The registry *)

LEMMA RegistryStep ==
  ASSUME {"chunkThrows", "badParams"} \cap AuthorFaults = {}, PhpInv, AuthorsInv, RegistryIsCalls, [Next]_vars
  PROVE  RegistryIsCalls'
<1>0. /\ nextId \in 0 .. MaxCalls /\ reg \subseteq Ids
      /\ call \in [Tasks -> 0 .. MaxCalls]
  BY DEF PhpInv, TypeOK, RegTypes, CallTypes
<1>1. CASE UNCHANGED <<reg, call>>
  BY <1>1 DEF RegistryIsCalls, InCall
<1>2. ASSUME NEW t \in Tasks, StartCall(t) PROVE RegistryIsCalls'
  <2>1. /\ nextId' = nextId + 1 /\ nextId < MaxCalls /\ at[t] = "body"
        /\ reg' = reg \cup {nextId'} /\ call' = [call EXCEPT ![t] = nextId']
    BY <1>2 DEF StartCall, Has
  <2>2. nextId' \in Ids /\ call[t] = 0 /\ \A u \in Tasks : call[u] < nextId'
    BY <1>0, <2>1, FiberFacts, PhpAssumption DEF AuthorsInv, CallsApart, Ids
  <2>3. \A i : i \in reg' <=> i \in Ids /\ InCall(i)'
    BY <1>0, <2>1, <2>2 DEF RegistryIsCalls, InCall, Ids
  <2> QED
    BY <2>3 DEF RegistryIsCalls
<1>3. ASSUME NEW t \in Tasks, NEW o, EndCall(t, o), at[t] \in {"single", "stream", "chunk"}
      PROVE  RegistryIsCalls'
  <2>1. reg' = reg \ {call[t]} /\ call' = [call EXCEPT ![t] = 0] /\ call[t] # 0
    BY <1>3, FiberFacts DEF EndCall
  <2>2. \A i : i \in reg' <=> i \in Ids /\ InCall(i)'
    BY <1>0, <2>1 DEF RegistryIsCalls, AuthorsInv, CallsApart, InCall, Ids
  <2> QED
    BY <2>2 DEF RegistryIsCalls
<1>4. ASSUME NEW t \in Tasks, Fiber(t) PROVE RegistryIsCalls'
  <2>1. CASE UNCHANGED <<regVars, call>>
    BY <1>1, <2>1 DEF regVars
  <2>2. CASE PollSingle(t)
    BY <1>3, <2>1, <2>2 DEF PollSingle, Has, callVars
  <2>3. CASE EndSnapshot(t)
    BY <1>3, <2>1, <2>3 DEF EndSnapshot, Has
  <2>4. CASE AuthorSuspends(t) \/ PeekStream(t) \/ PassChunk(t) \/ Return(t)
    BY <2>1, <2>4 DEF AuthorSuspends, PeekStream, PassChunk, Return, callVars
  <2>5. ~StartCallThrows(t)
    BY DEF StartCallThrows
  <2> QED
    BY <1>2, <1>4, <2>2, <2>3, <2>4, <2>5 DEF Fiber
<1>5. CASE Loop
  BY <1>1, <1>5
     DEF Loop, ReadLine, Leave, HandleWork, HandleHere, HandleFatal, HandleReply, HandleDelta,
         HandleShutdown, DrainAgain, ReplyShutdown, FinalDrainDone, LookForEof, TickDone, ResumeFiber,
         Finally, AbandonAll, ResolveResponse, AppendChunk, regVars, callVars
<1>6. CASE Environment \/ \E i \in Ids : DeadlinePasses(i)
  BY <1>1, <1>6 DEF Environment, HostInvites, HostOneShot, HostAnswers, HostSendsDelta, HostEnds,
                    Sigterm, DeadlinePasses, Others, regVars
<1>7. CASE UNCHANGED vars
  BY <1>1, <1>7 DEF vars, regVars, callVars
<1> QED
  BY <1>4, <1>5, <1>6, <1>7 DEF Next

\* The registry holds exactly the calls some fiber is in, as long as neither onChunk
\* nor the options of a stream throw (BrokerSender: every other way out of a call
\* forgets its entry).
THEOREM RegistryHoldsCalls ==
  ASSUME {"chunkThrows", "badParams"} \cap AuthorFaults = {}
  PROVE  Spec => []RegistryIsCalls
<1>1. Init => RegistryIsCalls
  BY PhpAssumption DEF Init, RegistryIsCalls, InCall, Ids
<1>2. PhpInv /\ AuthorsInv /\ RegistryIsCalls /\ [Next]_vars => RegistryIsCalls'
  BY RegistryStep
<1> QED
  BY <1>1, <1>2, SpecPhp, SpecAuthors, PTL DEF Spec

----------------------------------------------------------------------------
(* What an author reads of a stream *)

\* The loop has a line in its hands while it handles one.
InHand == pc = "handle" => line \in Line

LEMMA SpecInHand == Spec => []InHand
<1>1. Init => InHand
  BY DEF Init, InHand
<1>2. ASSUME PhpInv, InHand, [Next]_vars PROVE InHand'
  <2>1. CASE ReadLine
    <3>1. buffer \in Seq(Line) /\ pipe \in Seq(Line)
      BY <1>2 DEF PhpInv, TypeOK, HostTypes, LoopTypes
    <3>2. buffer \o pipe \in Seq(Line)
      BY <3>1, ConcatProperties
    <3>3. buffer \o pipe # <<>> => Head(buffer \o pipe) \in Line
      BY <3>2, HeadTailProperties
    <3> QED
      BY <2>1, <3>3 DEF ReadLine, InHand
  <2>2. CASE UNCHANGED <<pc, line>>
    BY <1>2, <2>2 DEF InHand
  <2>3. CASE Loop /\ ~ReadLine
    <3>1. pc' # "handle" \/ UNCHANGED <<pc, line>>
      BY <2>3 DEF Loop, Leave, HandleWork, HandleHere, HandleFatal, HandleReply, HandleDelta,
                  HandleShutdown, DrainAgain, ReplyShutdown, FinalDrainDone, LookForEof, TickDone,
                  ResumeFiber, Finally, loopVars
    <3> QED
      BY <2>2, <3>1 DEF InHand
  <2>4. ASSUME NEW t \in Tasks, Fiber(t) PROVE UNCHANGED <<pc, line>>
    BY <2>4 DEF Fiber, AuthorSuspends, StartCall, StartCallThrows, PollSingle, PeekStream, PassChunk, EndSnapshot,
                Return, loopVars
  <2>5. CASE Environment \/ \E i \in Ids : DeadlinePasses(i)
    BY <2>2, <2>5 DEF Environment, HostInvites, HostOneShot, HostAnswers, HostSendsDelta, HostEnds,
                      Sigterm, DeadlinePasses, Others
  <2>6. CASE UNCHANGED vars
    BY <2>2, <2>6 DEF vars, loopVars
  <2> QED
    BY <1>2, <2>1, <2>2, <2>3, <2>4, <2>5, <2>6 DEF Next
<1> QED
  BY <1>1, <1>2, SpecPhp, PTL DEF Spec

\* What the loop will still handle of the host's lines, the oldest first.
Flow == (IF pc = "handle" THEN <<line>> ELSE <<>>) \o (buffer \o pipe)

\* While an entry is registered the rest of its stream is on its way; when it holds
\* a verdict that is no error nothing is missing, and an author who got a result
\* was given everything.
StreamInv(i) ==
  /\ \A k \in DOMAIN chunks[i] : chunks[i][k] = k
  /\ i \in reg => /\ Len(chunks[i]) <= deltas[i]
                  /\ Holds(Flow, i, Len(chunks[i]), deltas[i], i \in answered)
  /\ i \in done /\ error[i] = "none" => i \in answered /\ Len(chunks[i]) = deltas[i]
  /\ kind[i] # "stream" => deltas[i] = 0
  /\ kind[i] = "stream" /\ outcome[i] = "result" => i \in answered /\ cursor[i] = deltas[i]

\* No line is about a call that was not made.
NoneAhead ==
  /\ \A p \in DOMAIN Flow : Flow[p].type \in {"reply", "delta"} => Flow[p].id <= nextId
  /\ \A i \in Ids : i > nextId =>
       i \notin reg /\ i \notin done /\ kind[i] = "none" /\ chunks[i] = <<>>

StreamsInv == NoneAhead /\ \A i \in Ids : StreamInv(i)

\* The types of what the streams are made of.
LEMMA StreamTypes ==
  ASSUME PhpInv, InHand
  PROVE  /\ Flow \in Seq(Line) /\ nextId \in Nat /\ nextId \in 0 .. MaxCalls /\ reg \subseteq Ids
         /\ \A i \in Ids : /\ i \in Nat /\ i # 0
                           /\ chunks[i] \in Seq(1 .. MaxChunks) /\ Len(chunks[i]) \in Nat
                           /\ deltas[i] \in Nat /\ (i \in answered) \in BOOLEAN
         /\ \A f \in Line : /\ f.type \in {"reply", "delta"} => f.id \in Ids
                            /\ f.type = "delta" => f.n \in 1 .. MaxChunks /\ f.n \in Nat
<1> USE PhpAssumption
<1>1. pipe \in Seq(Line) /\ buffer \in Seq(Line) /\ (pc = "handle" => line \in Line)
  BY DEF PhpInv, TypeOK, HostTypes, LoopTypes, InHand
<1>2. Flow \in Seq(Line)
  <2>1. buffer \o pipe \in Seq(Line) /\ (IF pc = "handle" THEN <<line>> ELSE <<>>) \in Seq(Line)
    BY <1>1, ConcatProperties, EmptySeq
  <2> QED
    BY <2>1, ConcatProperties DEF Flow
<1>3. /\ deltas \in [Ids -> 0 .. MaxChunks] /\ answered \subseteq Ids
      /\ chunks \in [Ids -> Seq(1 .. MaxChunks)] /\ nextId \in 0 .. MaxCalls /\ reg \subseteq Ids
  BY DEF PhpInv, TypeOK, HostTypes, RegTypes
<1>4. \A i \in Ids : i \in Nat /\ i # 0
  BY DEF Ids
<1>5. \A i \in Ids : chunks[i] \in Seq(1 .. MaxChunks) /\ Len(chunks[i]) \in Nat
  BY <1>3, LenProperties
<1>6. \A f \in Line : /\ f.type \in {"reply", "delta"} => f.id \in Ids
                      /\ f.type = "delta" => f.n \in 1 .. MaxChunks /\ f.n \in Nat
  BY DEF Line
<1> QED
  BY <1>2, <1>3, <1>4, <1>5, <1>6

\* How lines move: the loop takes one into its hands and handles it, the host
\* puts one behind the others.
LEMMA FlowMoves ==
  ASSUME PhpInv, InHand
  PROVE  /\ ReadLine => Flow' = Flow
         /\ pc = "handle" /\ pc' # "handle" /\ UNCHANGED <<buffer, pipe>> =>
              Flow # <<>> /\ Head(Flow) = line /\ Flow' = Tail(Flow)
         /\ \A f \in Line : UNCHANGED <<pc, line, buffer>> /\ pipe' = Append(pipe, f) =>
              Flow' = Append(Flow, f)
         /\ UNCHANGED <<pc, line, buffer, pipe>> => Flow' = Flow
         /\ pc # "handle" /\ pc' # "handle" /\ UNCHANGED <<buffer, pipe>> => Flow' = Flow
<1>1. pipe \in Seq(Line) /\ buffer \in Seq(Line) /\ (pc = "handle" => line \in Line)
      /\ buffer \o pipe \in Seq(Line)
  BY ConcatProperties DEF PhpInv, TypeOK, HostTypes, LoopTypes, InHand
<1>2. ASSUME NEW s \in Seq(Line)
      PROVE  /\ <<>> \o s = s /\ s \o <<>> = s
             /\ s # <<>> => <<Head(s)>> \o Tail(s) = s
             /\ \A f \in Line : /\ <<f>> \o s # <<>> /\ Head(<<f>> \o s) = f
                                /\ Tail(<<f>> \o s) = s
  OBVIOUS
<1>3. ASSUME ReadLine PROVE Flow' = Flow
  <2> DEFINE all == buffer \o pipe
  <2>1. pc = "read" /\ pipe' = <<>> /\ Flow = all
    BY <1>1, <1>2, <1>3 DEF ReadLine, Main, Flow
  <2>2. CASE all # <<>> /\ line' = Head(all) /\ buffer' = Tail(all) /\ pc' = "handle"
    <3>1. Tail(all) \in Seq(Line)
      BY <1>1, <2>2, HeadTailProperties
    <3>2. Flow' = <<Head(all)>> \o (Tail(all) \o <<>>)
      BY <2>1, <2>2 DEF Flow
    <3> QED
      BY <1>1, <1>2, <2>1, <2>2, <3>1, <3>2
  <2>3. CASE buffer' = all /\ pc' = "eof"
    <3>1. Flow' = <<>> \o (all \o <<>>)
      BY <2>1, <2>3 DEF Flow
    <3> QED
      BY <1>1, <1>2, <2>1, <3>1
  <2> QED
    BY <1>3, <2>2, <2>3 DEF ReadLine
<1>4. ASSUME pc = "handle", pc' # "handle", UNCHANGED <<buffer, pipe>>
      PROVE  Flow # <<>> /\ Head(Flow) = line /\ Flow' = Tail(Flow)
  <2>1. Flow = <<line>> \o (buffer \o pipe) /\ Flow' = <<>> \o (buffer \o pipe)
    BY <1>4 DEF Flow
  <2> QED
    BY <1>1, <1>2, <1>4, <2>1
<1>5. ASSUME NEW f \in Line, UNCHANGED <<pc, line, buffer>>, pipe' = Append(pipe, f)
      PROVE  Flow' = Append(Flow, f)
  <2> DEFINE h == IF pc = "handle" THEN <<line>> ELSE <<>>
  <2>1. h \in Seq(Line)
    BY <1>1
  <2>2. Flow = h \o (buffer \o pipe) /\ Flow' = h \o (buffer \o Append(pipe, f))
    BY <1>5 DEF Flow
  <2>3. buffer \o Append(pipe, f) = Append(buffer \o pipe, f)
    BY <1>1
  <2> HIDE DEF h
  <2>4. h \o Append(buffer \o pipe, f) = Append(h \o (buffer \o pipe), f)
    BY <1>1, <2>1
  <2> QED
    BY <2>2, <2>3, <2>4
<1> QED
  BY <1>3, <1>4, <1>5 DEF Flow

\* The rest of a stream is where it was, or a line that is not of it was moved.
Rest(i) ==
  i \in reg' /\ Holds(Flow, i, Len(chunks[i]), deltas[i], i \in answered) =>
    Holds(Flow, i, Len(chunks[i]), deltas[i], i \in answered)'

\* A verdict that is no error is an old one; an author is given a result only for
\* such a verdict, with all the chunks of the entry.
Verdicts(i) ==
  /\ i \in done' /\ error'[i] = "none" => i \in done /\ error[i] = "none"
  /\ kind[i] = "stream" /\ outcome'[i] = "result" =>
       \/ outcome[i] = "result" /\ cursor'[i] = cursor[i]
       \/ i \in done /\ error[i] = "none" /\ cursor'[i] = Len(chunks[i])

\* A step that neither brings a stream forward nor hears a verdict.
LEMMA StreamStays ==
  ASSUME NEW i \in Ids, StreamInv(i), Rest(i), Verdicts(i),
         chunks'[i] = chunks[i], deltas'[i] = deltas[i], kind'[i] = kind[i],
         i \in answered => i \in answered', i \in reg' => i \in reg
  PROVE  StreamInv(i)'
BY DEF StreamInv, Rest, Verdicts

\* The loop handles a line that is no chunk of the stream, or no line has moved.
LEMMA RestStays ==
  ASSUME PhpInv, InHand, UNCHANGED <<deltas, answered>>, NEW i \in Ids, chunks'[i] = chunks[i],
         \/ Flow' = Flow
         \/ Flow # <<>> /\ Flow' = Tail(Flow) /\ ~IsDelta(Head(Flow), i)
  PROVE  Rest(i)
<1>1. /\ Flow \in Seq(Line) /\ Len(chunks[i]) \in Nat /\ deltas[i] \in Nat
      /\ (i \in answered) \in BOOLEAN
  BY StreamTypes
<1>2. CASE Flow' = Flow
  BY <1>2 DEF Rest
<1>3. CASE Flow # <<>> /\ Flow' = Tail(Flow) /\ ~IsDelta(Head(Flow), i)
  <2>1. Holds(Flow, i, Len(chunks[i]), deltas[i], i \in answered) =>
          Holds(Tail(Flow), i, Len(chunks[i]), deltas[i], i \in answered)
    BY <1>1, <1>3, HoldsTail
  <2> QED
    BY <1>3, <2>1 DEF Rest
<1> QED
  BY <1>2, <1>3

\* Nobody is ahead after a step that starts no call.
LEMMA AheadStays ==
  ASSUME PhpInv, InHand, NoneAhead,
         \/ Flow' = Flow
         \/ Flow # <<>> /\ Flow' = Tail(Flow)
         \/ \E f \in Line : /\ Flow' = Append(Flow, f)
                            /\ f.type \in {"reply", "delta"} => f.id <= nextId,
         UNCHANGED <<nextId, kind>>, reg' \subseteq reg, done' \subseteq done \cup reg,
         \A i \in Ids : i \notin reg => chunks'[i] = chunks[i]
  PROVE  NoneAhead'
<1>0. Flow \in Seq(Line)
  BY StreamTypes
<1>1. \A p \in DOMAIN Flow : Flow[p].type \in {"reply", "delta"} => Flow[p].id <= nextId
  BY DEF NoneAhead
<1>2. \A p \in DOMAIN Flow' : Flow'[p].type \in {"reply", "delta"} => Flow'[p].id <= nextId'
  <2>1. CASE Flow' = Flow
    BY <1>1, <2>1
  <2>2. CASE Flow # <<>> /\ Flow' = Tail(Flow)
    <3>1. \A p \in DOMAIN Tail(Flow) : p + 1 \in DOMAIN Flow /\ Tail(Flow)[p] = Flow[p + 1]
      BY <1>0, <2>2, LinesAt
    <3> QED
      BY <1>1, <2>2, <3>1
  <2>3. ASSUME NEW f \in Line, Flow' = Append(Flow, f),
               f.type \in {"reply", "delta"} => f.id <= nextId
        PROVE  \A p \in DOMAIN Flow' : Flow'[p].type \in {"reply", "delta"} => Flow'[p].id <= nextId'
    <3>1. \A p \in DOMAIN Append(Flow, f) :
            (p \in DOMAIN Flow /\ Append(Flow, f)[p] = Flow[p]) \/ Append(Flow, f)[p] = f
      BY <1>0, LinesAt
    <3> QED
      BY <1>1, <2>3, <3>1
  <2> QED
    BY <2>1, <2>2, <2>3
<1>3. \A i \in Ids : i > nextId =>
        i \notin reg' /\ i \notin done' /\ kind'[i] = "none" /\ chunks'[i] = <<>>
  BY DEF NoneAhead
<1> QED
  BY <1>2, <1>3 DEF NoneAhead

\* A step that neither routes a chunk or a reply, nor starts a call, nor is the
\* host's.
LEMMA NothingRouted ==
  ASSUME PhpInv, InHand, StreamsInv,
         \/ Flow' = Flow
         \/ Flow # <<>> /\ Flow' = Tail(Flow) /\ Head(Flow).type # "delta",
         UNCHANGED <<deltas, answered, kind, nextId, chunks>>,
         reg' \subseteq reg, done' \subseteq done \cup reg,
         \A i \in Ids : Verdicts(i)
  PROVE  StreamsInv'
<1>1. NoneAhead'
  BY AheadStays DEF StreamsInv
<1>2. ASSUME NEW i \in Ids PROVE StreamInv(i)'
  <2>1. Rest(i)
    BY RestStays DEF IsDelta
  <2>2. StreamInv(i)
    BY DEF StreamsInv
  <2> QED
    BY <2>1, <2>2, StreamStays
<1> QED
  BY <1>1, <1>2 DEF StreamsInv

\* The reply is the last line of its stream: the entry has all chunks by then.
LEMMA ReplyRouted ==
  ASSUME PhpInv, InHand, StreamsInv, HandleReply
  PROVE  StreamsInv'
<1>0. /\ Flow \in Seq(Line)
      /\ \A i \in Ids : /\ deltas[i] \in Nat /\ Len(chunks[i]) \in Nat
                        /\ (i \in answered) \in BOOLEAN
  BY StreamTypes
<1>1. /\ UNCHANGED <<deltas, answered, nextId, kind, reg, chunks, cursor, outcome, buffer, pipe>>
      /\ pc = "handle" /\ pc' = "eof" /\ line.type = "reply"
  BY DEF HandleReply, Handling, Main, ResolveResponse, hostVars, callVars
<1>2. Flow # <<>> /\ Head(Flow) = line /\ Flow' = Tail(Flow)
  BY <1>1, FlowMoves
<1>3. /\ line.id \notin reg => UNCHANGED <<done, error>>
      /\ line.id \in reg => done' = done \cup {line.id}
      /\ \A i \in Ids : i # line.id => error'[i] = error[i]
  BY DEF HandleReply, ResolveResponse, PhpInv, TypeOK, RegTypes
<1>4. NoneAhead'
  BY <1>1, <1>2, <1>3, AheadStays DEF StreamsInv
<1>5. ASSUME NEW i \in Ids PROVE StreamInv(i)'
  <2>0. StreamInv(i)
    BY DEF StreamsInv
  <2>1. Rest(i)
    BY <1>1, <1>2, RestStays DEF IsDelta
  <2>2. CASE i = line.id /\ i \in reg
    <3> DEFINE r == Len(chunks[i])
               d == deltas[i]
               a == i \in answered
    <3>1. r \in Nat /\ d \in Nat /\ r <= d /\ a \in BOOLEAN /\ Holds(Flow, i, r, d, a)
      BY <1>0, <2>0, <2>2 DEF StreamInv
    <3>2. IsReply(Head(Flow), i)
      BY <1>1, <1>2, <2>2 DEF IsReply
    <3> HIDE DEF r, d, a
    <3>3. r = d /\ a
      BY <1>0, <1>2, <3>1, <3>2, HoldsReply
    <3>4. Len(chunks[i]) = deltas[i] /\ i \in answered
      BY <3>3 DEF r, d, a
    <3> QED
      BY <1>1, <2>0, <2>1, <2>2, <3>4 DEF StreamInv, Rest
  <2>3. CASE i # line.id \/ i \notin reg
    <3>1. (i \in done' => i \in done) /\ error'[i] = error[i]
      BY <1>3, <2>3
    <3>2. Verdicts(i)
      BY <1>1, <3>1 DEF Verdicts
    <3> QED
      BY <1>1, <2>0, <2>1, <3>2, StreamStays
  <2> QED
    BY <2>2, <2>3
<1> QED
  BY <1>4, <1>5 DEF StreamsInv

\* A chunk that is routed is the next one of its stream.
LEMMA ChunkRouted ==
  ASSUME PhpInv, InHand, StreamsInv, HandleDelta
  PROVE  StreamsInv'
<1>0. /\ Flow \in Seq(Line)
      /\ \A i \in Ids : /\ deltas[i] \in Nat /\ Len(chunks[i]) \in Nat
                        /\ chunks[i] \in Seq(1 .. MaxChunks) /\ (i \in answered) \in BOOLEAN
      /\ \A f \in Line : f.type = "delta" => f.n \in Nat
      /\ \A f \in Line : f.type = "delta" => f.n \in 1 .. MaxChunks
      /\ DOMAIN chunks = Ids
  BY StreamTypes DEF PhpInv, TypeOK, RegTypes
<1>1. /\ UNCHANGED <<deltas, answered, nextId, kind, reg, done, error, cursor, outcome, buffer, pipe>>
      /\ pc = "handle" /\ pc' = "eof" /\ line.type = "delta"
  BY DEF HandleDelta, Handling, Main, AppendChunk, hostVars, callVars
<1>2. Flow # <<>> /\ Head(Flow) = line /\ Flow' = Tail(Flow) /\ line \in Line
  BY <1>1, FlowMoves DEF InHand
<1>3. chunks' = IF line.id \in reg /\ kind[line.id] = "stream"
                  THEN [chunks EXCEPT ![line.id] = Append(@, line.n)] ELSE chunks
  BY DEF HandleDelta, AppendChunk
<1>4. NoneAhead'
  BY <1>0, <1>1, <1>2, <1>3, AheadStays DEF StreamsInv
<1>5. ASSUME NEW i \in Ids PROVE StreamInv(i)'
  <2>0. StreamInv(i)
    BY DEF StreamsInv
  <2>1. Verdicts(i)
    BY <1>1 DEF Verdicts
  <2>2. CASE i # line.id
    <3>1. chunks'[i] = chunks[i] /\ ~IsDelta(line, i)
      BY <1>0, <1>3, <2>2 DEF IsDelta
    <3>2. Rest(i)
      BY <1>1, <1>2, <3>1, RestStays
    <3> QED
      BY <1>1, <2>0, <2>1, <3>1, <3>2, StreamStays
  <2>3. CASE i = line.id /\ i \notin reg
    <3>1. chunks'[i] = chunks[i] /\ Rest(i)
      BY <1>1, <1>3, <2>3 DEF Rest
    <3> QED
      BY <1>1, <2>0, <2>1, <3>1, StreamStays
  <2>4. CASE i = line.id /\ i \in reg
    <3> DEFINE r == Len(chunks[i])
               d == deltas[i]
               a == i \in answered
    <3>1. r \in Nat /\ d \in Nat /\ a \in BOOLEAN /\ Holds(Flow, i, r, d, a)
      BY <1>0, <2>0, <2>4 DEF StreamInv
    <3>2. IsDelta(Head(Flow), i)
      BY <1>1, <1>2, <2>4 DEF IsDelta
    <3> HIDE DEF r, d, a
    <3>3. line.n = r + 1 /\ r + 1 <= d /\ Holds(Tail(Flow), i, r + 1, d, a)
      BY <1>0, <1>2, <3>1, <3>2, HoldsNext
    <3>4. kind[i] = "stream" /\ chunks'[i] = Append(chunks[i], line.n)
      BY <1>0, <1>3, <2>0, <2>4, <3>1, <3>3 DEF StreamInv, d
    <3>5. /\ Len(Append(chunks[i], line.n)) = r + 1
          /\ \A k \in DOMAIN Append(chunks[i], line.n) : Append(chunks[i], line.n)[k] = k
      <4>1. line.n \in 1 .. MaxChunks
        BY <1>0, <1>1, <1>2
      <4>2. /\ Len(Append(chunks[i], line.n)) = Len(chunks[i]) + 1
            /\ DOMAIN Append(chunks[i], line.n) = 1 .. Len(chunks[i]) + 1
            /\ DOMAIN chunks[i] = 1 .. Len(chunks[i])
            /\ \A k \in 1 .. Len(chunks[i]) : Append(chunks[i], line.n)[k] = chunks[i][k]
            /\ Append(chunks[i], line.n)[Len(chunks[i]) + 1] = line.n
        BY <1>0, <4>1, LinesAt, AppendProperties
      <4>3. \A k \in DOMAIN chunks[i] : chunks[i][k] = k
        BY <2>0 DEF StreamInv
      <4> QED
        BY <1>0, <3>1, <3>3, <4>2, <4>3 DEF r
    <3>6. ~(i \in done /\ error[i] = "none")
      BY <2>0, <3>1, <3>3 DEF StreamInv, r, d
    <3>7. Holds(Flow', i, Len(chunks'[i]), deltas'[i], i \in answered')
      BY <1>1, <1>2, <3>3, <3>4, <3>5 DEF d, a
    <3>8. Len(chunks'[i]) <= deltas'[i]
      BY <1>1, <3>3, <3>4, <3>5 DEF d
    <3>9. \A k \in DOMAIN chunks'[i] : chunks'[i][k] = k
      BY <3>4, <3>5
    <3> QED
      BY <1>1, <2>0, <3>6, <3>7, <3>8, <3>9 DEF StreamInv
  <2> QED
    BY <2>2, <2>3, <2>4
<1> QED
  BY <1>4, <1>5 DEF StreamsInv

\* A call starts: nothing in the flow is about it yet.
LEMMA StreamStarts ==
  ASSUME PhpInv, InHand, AuthorsInv, StreamsInv, NEW t \in Tasks, StartCall(t) \/ StartCallThrows(t)
  PROVE  StreamsInv'
<1>0. nextId \in Nat /\ nextId \in 0 .. MaxCalls /\ DOMAIN kind = Ids /\ DOMAIN outcome = Ids
  BY StreamTypes DEF PhpInv, TypeOK, RegTypes, CallTypes
<1>1. nextId' = nextId + 1 /\ nextId' \in Ids
  BY <1>0, PhpAssumption DEF StartCall, StartCallThrows, Ids
<1>2. /\ reg' = reg \cup {nextId'}
      /\ UNCHANGED <<pc, line, buffer, pipe, deltas, answered, done, error, chunks, cursor>>
      /\ \E k \in {"single", "stream", "unsent"} : kind' = [kind EXCEPT ![nextId'] = k]
      /\ \A i \in Ids : outcome'[i] = outcome[i] \/ (i = nextId' /\ outcome'[i] = "dropped")
  <2>1. CASE StartCall(t)
    BY <2>1 DEF StartCall, hostVars, loopVars
  <2>2. CASE StartCallThrows(t)
    BY <1>0, <2>2 DEF StartCallThrows, hostVars, loopVars
  <2> QED
    BY <2>1, <2>2
<1>3. Flow' = Flow
  BY <1>2, FlowMoves
<1>4. NoneAhead'
  <2>1. \A p \in DOMAIN Flow : Flow[p].type \in {"reply", "delta"} => Flow[p].id <= nextId
    BY DEF StreamsInv, NoneAhead
  <2>2. ASSUME NEW p \in DOMAIN Flow, Flow[p].type \in {"reply", "delta"}
        PROVE  Flow[p].id <= nextId'
    <3>1. Flow[p] \in Line /\ Flow[p].id \in Nat
      <4>1. Flow \in Seq(Line) /\ \A f \in Line : f.type \in {"reply", "delta"} => f.id \in Ids
        BY StreamTypes
      <4>2. Flow[p] \in Line
        BY <4>1
      <4> QED
        BY <2>2, <4>1, <4>2 DEF Ids
    <3> QED
      BY <1>0, <1>1, <2>1, <2>2, <3>1
  <2>3. \A i \in Ids : i > nextId' =>
          i \notin reg' /\ i \notin done' /\ kind'[i] = "none" /\ chunks'[i] = <<>>
    <3> SUFFICES ASSUME NEW i \in Ids, i > nextId'
                 PROVE  i \notin reg' /\ i \notin done' /\ kind'[i] = "none" /\ chunks'[i] = <<>>
      OBVIOUS
    <3>1. i > nextId /\ i # nextId'
      BY <1>0, <1>1 DEF Ids
    <3>2. i \notin reg /\ i \notin done /\ kind[i] = "none" /\ chunks[i] = <<>>
      BY <3>1 DEF StreamsInv, NoneAhead
    <3> QED
      BY <1>0, <1>2, <3>1, <3>2
  <2> QED
    BY <1>3, <2>2, <2>3 DEF NoneAhead
<1>5. ASSUME NEW i \in Ids PROVE StreamInv(i)'
  <2>0. StreamInv(i)
    BY DEF StreamsInv
  <2>1. CASE i = nextId'
    <3>1. i > nextId
      BY <1>0, <1>1, <2>1
    <3>2. i \notin done /\ kind[i] = "none" /\ chunks[i] = <<>> /\ outcome[i] = "none"
      BY <3>1 DEF StreamsInv, NoneAhead, AuthorsInv
    <3>3. deltas[i] = 0 /\ Len(chunks[i]) = 0
      BY <2>0, <3>2, EmptySeq DEF StreamInv
    <3>4. \A p \in DOMAIN Flow : ~IsDelta(Flow[p], i) /\ ~IsReply(Flow[p], i)
      <4>1. i \in Nat
        BY <1>0, <1>1, <2>1
      <4> QED
        BY <1>0, <3>1, <4>1 DEF StreamsInv, NoneAhead, IsDelta, IsReply
    <3>5. \A n : n \notin 0 + 1 .. 0
      OBVIOUS
    <3>6. Holds(Flow, i, 0, 0, i \in answered)
      BY <3>4, <3>5 DEF Holds
    <3> QED
      BY <1>2, <1>3, <2>0, <3>2, <3>3, <3>6 DEF StreamInv
  <2>2. CASE i # nextId'
    <3>1. kind'[i] = kind[i] /\ (i \in reg' => i \in reg)
      BY <1>0, <1>2, <2>2
    <3>2. Rest(i)
      BY <1>2, <1>3, RestStays
    <3>3. Verdicts(i)
      BY <1>2, <2>2 DEF Verdicts
    <3> QED
      BY <1>2, <2>0, <3>1, <3>2, <3>3, StreamStays
  <2> QED
    BY <2>1, <2>2
<1> QED
  BY <1>4, <1>5 DEF StreamsInv

\* The host writes: a reply behind all it has streamed, a chunk behind the one
\* before it, or what is about no call.
LEMMA HostStreams ==
  ASSUME PhpInv, InHand, StreamsInv, Environment
  PROVE  StreamsInv'
<1> USE DEF Environment, HostInvites, HostOneShot, HostAnswers, HostSendsDelta, HostEnds, Sigterm,
            Write, Others, regVars
<1>0. /\ Flow \in Seq(Line) /\ nextId \in Nat /\ nextId \in 0 .. MaxCalls
      /\ \A i \in Ids : /\ i \in Nat /\ deltas[i] \in Nat /\ Len(chunks[i]) \in Nat
                        /\ (i \in answered) \in BOOLEAN
      /\ \A f \in Line : f.type = "delta" => f.n \in Nat
      /\ DOMAIN deltas = Ids /\ 1 .. nextId \subseteq Ids
  <2>1. DOMAIN deltas = Ids
    BY DEF PhpInv, TypeOK, HostTypes
  <2>2. nextId \in 0 .. MaxCalls
    BY StreamTypes
  <2>3. 1 .. nextId \subseteq Ids
    BY <2>2, PhpAssumption DEF Ids
  <2> QED
    BY <2>1, <2>3, StreamTypes
<1>1. UNCHANGED <<pc, line, buffer, nextId, kind, reg, done, error, chunks, cursor, outcome>>
  OBVIOUS
<1>2. \A f \in Line : pipe' = Append(pipe, f) => Flow' = Append(Flow, f)
  BY <1>1, FlowMoves
<1>3. \A i \in Ids : Verdicts(i)
  BY <1>1 DEF Verdicts
<1>4. ASSUME NEW f \in Line, pipe' = Append(pipe, f), UNCHANGED deltas,
             \A i \in Ids : i \in answered \/ IsReply(f, i) => i \in answered',
             f.type # "delta", f.type = "reply" => f.id <= nextId
      PROVE  StreamsInv'
  <2>1. Flow' = Append(Flow, f)
    BY <1>2, <1>4
  <2>2. NoneAhead'
    BY <1>1, <1>4, <2>1, AheadStays DEF StreamsInv
  <2>3. ASSUME NEW i \in Ids PROVE StreamInv(i)'
    <3>0. StreamInv(i)
      BY DEF StreamsInv
    <3>1. Holds(Flow, i, Len(chunks[i]), deltas[i], i \in answered) =>
            Holds(Append(Flow, f), i, Len(chunks[i]), deltas[i], i \in answered')
      <4>1. ~IsDelta(f, i) /\ (i \in answered') \in BOOLEAN
        BY <1>4 DEF IsDelta
      <4> DEFINE r == Len(chunks[i])
                 d == deltas[i]
                 a == i \in answered
                 b == i \in answered'
      <4>2. /\ r \in Nat /\ d \in Nat /\ a \in BOOLEAN /\ b \in BOOLEAN
            /\ a \/ IsReply(f, i) => b
        BY <1>0, <1>4, <4>1
      <4> HIDE DEF r, d, a, b
      <4>3. Holds(Flow, i, r, d, a) => Holds(Append(Flow, f), i, r, d, b)
        BY <1>0, <4>1, <4>2, HoldsAppend
      <4> QED
        BY <4>3 DEF r, d, a, b
    <3>2. Rest(i)
      BY <1>1, <1>4, <2>1, <3>1 DEF Rest
    <3> QED
      BY <1>1, <1>3, <1>4, <3>0, <3>2, StreamStays
  <2> QED
    BY <2>2, <2>3 DEF StreamsInv
<1>5. CASE HostInvites
  <2>1. PICK k \in {"event", "tool"} : pipe' = Append(pipe, [type |-> k])
    BY <1>5
  <2>2. [type |-> k] \in Line
    BY DEF Line
  <2> QED
    BY <1>4, <1>5, <2>1, <2>2 DEF IsReply
<1>6. CASE HostOneShot
  <2>1. PICK k \in OneShots : pipe' = Append(pipe, [type |-> k])
    BY <1>6
  <2>2. [type |-> k] \in Line /\ k \in {"other", "fatal", "shutdown"}
    BY PhpAssumption DEF Line
  <2> QED
    BY <1>4, <1>6, <2>1, <2>2 DEF IsReply
<1>7. CASE HostAnswers
  <2>1. PICK i \in (1 .. nextId) \ answered, r \in {"result", "error"} :
          /\ answered' = answered \cup {i}
          /\ pipe' = Append(pipe, [type |-> "reply", id |-> i, r |-> r])
    BY <1>7
  <2>2. [type |-> "reply", id |-> i, r |-> r] \in Line /\ i <= nextId
    BY <1>0 DEF Line
  <2> QED
    BY <1>4, <1>7, <2>1, <2>2 DEF IsReply
<1>8. CASE HostSendsDelta
  <2>1. PICK j \in (1 .. nextId) \ answered :
          /\ kind[j] = "stream" /\ deltas[j] < MaxChunks
          /\ deltas' = [deltas EXCEPT ![j] = @ + 1]
          /\ pipe' = Append(pipe, [type |-> "delta", id |-> j, n |-> deltas'[j]])
    BY <1>8
  <2> DEFINE f == [type |-> "delta", id |-> j, n |-> deltas'[j]]
  <2>2. j \in Ids /\ j <= nextId /\ deltas'[j] = deltas[j] + 1
    BY <1>0, <2>1
  <2>3. f \in Line /\ f.type = "delta" /\ f.id = j /\ f.n = deltas[j] + 1
    <3>1. deltas'[j] \in 1 .. MaxChunks
      BY <1>0, <2>1, <2>2, PhpAssumption
    <3> QED
      BY <2>2, <3>1 DEF Line
  <2> HIDE DEF f
  <2>4. Flow' = Append(Flow, f)
    BY <1>2, <2>1, <2>3 DEF f
  <2>5. NoneAhead'
    BY <1>1, <2>2, <2>3, <2>4, AheadStays DEF StreamsInv
  <2>6. ASSUME NEW i \in Ids PROVE StreamInv(i)'
    <3>0. StreamInv(i)
      BY DEF StreamsInv
    <3>1. answered' = answered
      BY <1>8
    <3>2. CASE i = j
      <4>1. deltas'[i] = deltas[i] + 1 /\ i \notin answered /\ kind[i] = "stream"
        BY <2>1, <2>2, <3>2
      <4>2. ASSUME i \in reg
            PROVE  /\ Len(chunks[i]) <= deltas[i] + 1
                   /\ Holds(Append(Flow, f), i, Len(chunks[i]), deltas[i] + 1, i \in answered)
        <5> DEFINE r == Len(chunks[i])
                   d == deltas[i]
                   a == i \in answered
        <5>1. r \in Nat /\ d \in Nat /\ r <= d /\ a \in BOOLEAN /\ ~a /\ Holds(Flow, i, r, d, a)
          BY <1>0, <3>0, <4>1, <4>2 DEF StreamInv
        <5>2. IsDelta(f, i) /\ f.n = d + 1
          BY <2>3, <3>2 DEF IsDelta
        <5> HIDE DEF r, d, a
        <5>3. r <= d + 1 /\ Holds(Append(Flow, f), i, r, d + 1, a)
          BY <1>0, <2>3, <5>1, <5>2, HoldsMore
        <5> QED
          BY <5>3 DEF r, d, a
      <4>3. outcome[i] # "result" /\ ~(i \in done /\ error[i] = "none")
        BY <3>0, <4>1 DEF StreamInv
      <4> QED
        BY <1>1, <2>4, <3>0, <3>1, <4>1, <4>2, <4>3 DEF StreamInv
    <3>3. CASE i # j
      <4>1. deltas'[i] = deltas[i] /\ ~IsDelta(f, i) /\ ~IsReply(f, i)
        BY <1>0, <2>1, <2>3, <3>3 DEF IsDelta, IsReply
      <4>2. Holds(Flow, i, Len(chunks[i]), deltas[i], i \in answered) =>
              Holds(Append(Flow, f), i, Len(chunks[i]), deltas[i], i \in answered)
        <5> DEFINE r == Len(chunks[i])
                   d == deltas[i]
                   a == i \in answered
        <5>1. r \in Nat /\ d \in Nat /\ a \in BOOLEAN
          BY <1>0
        <5> HIDE DEF r, d, a
        <5>2. Holds(Flow, i, r, d, a) => Holds(Append(Flow, f), i, r, d, a)
          BY <1>0, <2>3, <4>1, <5>1, HoldsAppend
        <5> QED
          BY <5>2 DEF r, d, a
      <4>3. Rest(i)
        BY <1>1, <2>4, <3>1, <4>1, <4>2 DEF Rest
      <4> QED
        BY <1>1, <1>3, <3>0, <3>1, <4>1, <4>3, StreamStays
    <3> QED
      BY <3>2, <3>3
  <2> QED
    BY <2>5, <2>6 DEF StreamsInv
<1>9. CASE HostEnds
  <2>1. CASE Write([type |-> "partial"])
    <3>1. [type |-> "partial"] \in Line
      BY DEF Line
    <3> QED
      BY <1>4, <1>9, <2>1, <3>1 DEF IsReply
  <2>2. CASE UNCHANGED pipe
    <3>1. Flow' = Flow
      BY <1>1, <2>2, FlowMoves
    <3> QED
      BY <1>1, <1>3, <1>9, <3>1, NothingRouted
  <2> QED
    BY <1>9, <2>1, <2>2
<1>10. CASE Sigterm
  <2>1. Flow' = Flow
    BY <1>1, <1>10, FlowMoves
  <2> QED
    BY <1>1, <1>3, <1>10, <2>1, NothingRouted
<1> QED
  BY <1>5, <1>6, <1>7, <1>8, <1>9, <1>10

\* Abandoning gives no verdict but an error.
LEMMA AbandonVerdicts ==
  ASSUME PhpInv, AbandonAll, UNCHANGED <<cursor, outcome>>
  PROVE  /\ \A i \in Ids : Verdicts(i)
         /\ done' \subseteq done \cup reg /\ UNCHANGED <<kind, nextId, chunks, reg>>
BY DEF AbandonAll, Verdicts, PhpInv, TypeOK, RegTypes

\* Every step keeps the streams.
LEMMA StreamsStep ==
  ASSUME PhpInv, InHand, AuthorsInv, StreamsInv, [Next]_vars
  PROVE  StreamsInv'
<1>0. /\ DOMAIN outcome = Ids /\ DOMAIN cursor = Ids
      /\ \A t \in Tasks : at[t] \in {"single", "stream", "chunk"} =>
           call[t] \in Ids /\ outcome[call[t]] = "none"
  <2>1. \A t \in Tasks : at[t] \in {"single", "stream", "chunk"} => call[t] \in Ids
    BY FiberFacts
  <2> QED
    BY <2>1 DEF PhpInv, TypeOK, CallTypes, AuthorsInv, InCall
<1>1. ASSUME UNCHANGED <<pc, line, buffer, pipe, deltas, answered, kind, nextId, chunks, done>>,
             reg' \subseteq reg, \A i \in Ids : Verdicts(i)
      PROVE  StreamsInv'
  <2>1. Flow' = Flow
    BY <1>1, FlowMoves
  <2> QED
    BY <1>1, <2>1, NothingRouted
<1>2. ASSUME UNCHANGED <<done, error, outcome, cursor>> PROVE \A i \in Ids : Verdicts(i)
  BY <1>2 DEF Verdicts
<1>3. ASSUME Loop, pc = "handle", pc' # "handle", UNCHANGED <<buffer, hostVars>>, line.type # "delta",
             UNCHANGED <<kind, nextId, chunks, reg>>, done' \subseteq done \cup reg,
             \A i \in Ids : Verdicts(i)
      PROVE  StreamsInv'
  <2>1. Flow # <<>> /\ Head(Flow) = line /\ Flow' = Tail(Flow)
    BY <1>3, FlowMoves DEF hostVars
  <2> QED
    BY <1>3, <2>1, NothingRouted DEF hostVars
<1>4. ASSUME Loop, pc # "handle", pc' # "handle", UNCHANGED <<buffer, hostVars>>,
             UNCHANGED <<kind, nextId, chunks, reg>>, done' \subseteq done \cup reg,
             \A i \in Ids : Verdicts(i)
      PROVE  StreamsInv'
  <2>1. Flow' = Flow
    BY <1>4, FlowMoves DEF hostVars
  <2> QED
    BY <1>4, <2>1, NothingRouted DEF hostVars
<1>5. CASE Loop
  <2>1. CASE ReadLine
    <3>1. Flow' = Flow
      BY <2>1, FlowMoves
    <3>2. UNCHANGED <<deltas, answered, regVars, callVars>>
      BY <2>1 DEF ReadLine
    <3>3. \A i \in Ids : Verdicts(i)
      BY <1>2, <3>2 DEF regVars, callVars
    <3> QED
      BY <3>1, <3>2, <3>3, NothingRouted DEF regVars
  <2>2. CASE HandleWork \/ HandleHere
    <3>1. /\ pc = "handle" /\ pc' # "handle" /\ line.type # "delta"
          /\ UNCHANGED <<buffer, hostVars, regVars, cursor, outcome>>
      BY <2>2 DEF HandleWork, HandleHere, Handling, Main, callVars
    <3> QED
      BY <1>2, <1>3, <1>5, <3>1 DEF regVars
  <2>3. CASE HandleReply
    BY <2>3, ReplyRouted
  <2>4. CASE HandleDelta
    BY <2>4, ChunkRouted
  <2>5. CASE HandleFatal \/ HandleShutdown
    <3>1. /\ pc = "handle" /\ pc' # "handle" /\ line.type # "delta" /\ AbandonAll
          /\ UNCHANGED <<buffer, hostVars, cursor, outcome>>
      BY <2>5 DEF HandleFatal, HandleShutdown, Finally, Handling, Main, callVars
    <3> QED
      BY <1>3, <1>5, <3>1, AbandonVerdicts
  <2>6. CASE Leave \/ LookForEof
    <3>1. /\ pc # "handle" /\ pc' # "handle"
          /\ AbandonAll \/ UNCHANGED regVars
          /\ UNCHANGED <<buffer, hostVars, cursor, outcome>>
      BY <2>6 DEF Leave, LookForEof, Finally, Main, callVars
    <3>2. CASE AbandonAll
      BY <1>4, <1>5, <3>1, <3>2, AbandonVerdicts
    <3>3. CASE UNCHANGED regVars
      BY <1>2, <1>4, <1>5, <3>1, <3>3 DEF regVars
    <3> QED
      BY <3>1, <3>2, <3>3
  <2>7. CASE \/ DrainAgain \/ ReplyShutdown \/ FinalDrainDone \/ TickDone \/ ResumeFiber
    <3>1. /\ pc # "handle" /\ pc' # "handle"
          /\ UNCHANGED <<buffer, hostVars, regVars, cursor, outcome>>
      BY <2>7 DEF DrainAgain, ReplyShutdown, FinalDrainDone, TickDone, ResumeFiber, Main, loopVars,
                  callVars
    <3> QED
      BY <1>2, <1>4, <1>5, <3>1 DEF regVars
  <2> QED
    BY <1>5, <2>1, <2>2, <2>3, <2>4, <2>5, <2>6, <2>7 DEF Loop
<1>6. ASSUME NEW t \in Tasks, Fiber(t) PROVE StreamsInv'
  <2>1. CASE StartCall(t) \/ StartCallThrows(t)
    BY <2>1, StreamStarts
  <2>2. CASE PollSingle(t)
    <3>1. /\ UNCHANGED <<pc, line, buffer, pipe, deltas, answered, kind, nextId, chunks, done,
                         error, cursor>>
          /\ reg' \subseteq reg /\ \A i \in Ids \ {call[t]} : outcome'[i] = outcome[i]
      BY <1>0, <2>2 DEF PollSingle, EndCall, hostVars, loopVars, regVars, callVars
    <3>2. kind[call[t]] = "single"
      BY <2>2 DEF PollSingle, Has, AuthorsInv
    <3>3. \A i \in Ids : Verdicts(i)
      BY <3>1, <3>2 DEF Verdicts
    <3> QED
      BY <1>1, <3>1, <3>3
  <2>3. CASE PassChunk(t)
    <3>1. /\ UNCHANGED <<hostVars, loopVars, regVars>> /\ at[t] = "chunk"
          /\ \A i \in Ids \ {call[t]} : cursor'[i] = cursor[i] /\ outcome'[i] = outcome[i]
          /\ outcome'[call[t]] \in {outcome[call[t]], "dropped"}
      BY <1>0, <2>3 DEF PassChunk, Has
    <3>2. \A i \in Ids : Verdicts(i)
      BY <1>0, <3>1 DEF Verdicts, regVars
    <3> QED
      BY <1>1, <3>1, <3>2 DEF hostVars, loopVars, regVars
  <2>4. CASE EndSnapshot(t)
    <3>1. /\ UNCHANGED <<hostVars, loopVars, kind, nextId, chunks, done, error>> /\ at[t] = "chunk"
          /\ reg' \subseteq reg
      BY <2>4 DEF EndSnapshot, EndCall, Has, regVars
    <3>2. CASE UNCHANGED <<cursor, outcome>>
      BY <1>1, <1>2, <3>1, <3>2 DEF hostVars, loopVars
    <3>3. CASE EndCall(t, "timeout") /\ UNCHANGED cursor
      <4>1. \A i \in Ids : outcome'[i] = outcome[i] \/ outcome'[i] = "timeout"
        BY <1>0, <3>3 DEF EndCall
      <4> QED
        BY <1>1, <3>1, <3>3, <4>1 DEF Verdicts, hostVars, loopVars
    <3>4. CASE /\ snap[t].done /\ EndCall(t, Verdict(call[t]))
               /\ cursor' = [cursor EXCEPT ![call[t]] = Len(chunks[call[t]])]
      <4>1. call[t] \in Ids /\ call[t] \in done
        BY <1>0, <3>1, <3>4 DEF AuthorsInv
      <4>2. /\ \A i \in Ids \ {call[t]} : cursor'[i] = cursor[i] /\ outcome'[i] = outcome[i]
            /\ cursor'[call[t]] = Len(chunks[call[t]])
            /\ outcome'[call[t]] = "result" => error[call[t]] = "none"
        <5>1. outcome' = [outcome EXCEPT ![call[t]] = Verdict(call[t])]
          BY <3>4 DEF EndCall
        <5>2. outcome'[call[t]] = Verdict(call[t])
          BY <1>0, <4>1, <5>1
        <5>3. error[call[t]] \in {"none", "server", "transport"}
          BY <4>1 DEF PhpInv, TypeOK, RegTypes
        <5> QED
          BY <1>0, <3>4, <4>1, <5>1, <5>2, <5>3 DEF Verdict
      <4>3. \A i \in Ids : Verdicts(i)
        BY <3>1, <4>1, <4>2 DEF Verdicts
      <4> QED
        BY <1>1, <3>1, <4>3 DEF hostVars, loopVars
    <3> QED
      BY <2>4, <3>2, <3>3, <3>4 DEF EndSnapshot
  <2>5. CASE PeekStream(t) \/ Return(t) \/ AuthorSuspends(t)
    <3>1. UNCHANGED <<hostVars, loopVars, regVars, cursor, outcome>>
      BY <2>5 DEF PeekStream, Return, AuthorSuspends, callVars
    <3> QED
      BY <1>1, <1>2, <3>1 DEF hostVars, loopVars, regVars
  <2> QED
    BY <1>6, <2>1, <2>2, <2>3, <2>4, <2>5 DEF Fiber
<1>7. ASSUME NEW i \in Ids, DeadlinePasses(i) PROVE StreamsInv'
  BY <1>1, <1>2, <1>7 DEF DeadlinePasses, Others, hostVars, regVars
<1>8. CASE Environment
  BY <1>8, HostStreams
<1>9. CASE UNCHANGED vars
  BY <1>1, <1>2, <1>9 DEF vars, hostVars, loopVars, regVars, callVars
<1> QED
  BY <1>5, <1>6, <1>7, <1>8, <1>9 DEF Next

\* What onChunk is given is what the host streamed, in its order, and an author who
\* got a result was given all of it: wherever fibers suspend, whenever a chunk lands
\* between a snapshot and the flush, and whoever stops the adapter
\* (BrokerSender.php, Host.php, PluginAdapter.php).
THEOREM StreamsAreFaithful == Spec => []StreamFaithful
<1>1. Init => StreamsInv
  <2> SUFFICES ASSUME Init PROVE StreamsInv
    OBVIOUS
  <2>1. Flow = <<>> /\ DOMAIN Flow = {}
    BY DEF Init, Flow
  <2>2. \A i \in Ids : chunks[i] = <<>> /\ DOMAIN chunks[i] = {}
    BY DEF Init
  <2>3. NoneAhead
    BY <2>1, <2>2 DEF Init, NoneAhead
  <2> QED
    BY <2>2, <2>3 DEF Init, StreamsInv, StreamInv
<1>2. StreamsInv => StreamFaithful
  BY DEF StreamsInv, StreamInv, StreamFaithful
<1>3. PhpInv /\ InHand /\ AuthorsInv /\ StreamsInv /\ [Next]_vars => StreamsInv'
  BY StreamsStep
<1> QED
  BY <1>1, <1>2, <1>3, SpecPhp, SpecInHand, SpecAuthors, PTL DEF Spec

----------------------------------------------------------------------------
(* The contract *)

\* stdin only ever ends within a line, so its end never empties the buffer: the loop
\* does not leave behind a reply that no fiber has seen.
EofInv ==
  /\ closed => \E p \in DOMAIN (buffer \o pipe) : (buffer \o pipe)[p].type = "partial"
  /\ eof => closed /\ pipe = <<>>

LEMMA EofStep ==
  ASSUME "closes" \notin HostEndings, PhpInv, EofInv, [Next]_vars
  PROVE  EofInv'
<1>0. pipe \in Seq(Line) /\ buffer \in Seq(Line) /\ buffer \o pipe \in Seq(Line)
  BY PhpFacts, ConcatProperties
<1>1. CASE UNCHANGED <<closed, buffer, pipe, eof>>
  BY <1>1 DEF EofInv
<1>2. ASSUME NEW f \in Line, ~closed, pipe' = Append(pipe, f), UNCHANGED <<buffer, eof>>,
             closed' => f.type = "partial"
      PROVE  EofInv'
  <2>1. /\ Len(pipe) + 1 \in DOMAIN Append(pipe, f)
        /\ Append(pipe, f)[Len(pipe) + 1] = f
        /\ Append(pipe, f) \in Seq(Line)
    BY <1>0, LinesAt
  <2>2. /\ Len(buffer) + (Len(pipe) + 1) \in DOMAIN (buffer \o Append(pipe, f))
        /\ (buffer \o Append(pipe, f))[Len(buffer) + (Len(pipe) + 1)] = f
    BY <1>0, <2>1
  <2> QED
    BY <1>2, <2>2 DEF EofInv
<1>3. CASE ReadLine
  <2> DEFINE all == buffer \o pipe
  <2>1. /\ pipe' = <<>> /\ closed' = closed
        /\ eof' => closed
        /\ \/ all # <<>> /\ Head(all).type # "partial" /\ buffer' = Tail(all)
           \/ buffer' = all
    BY <1>3 DEF ReadLine, EofInv
  <2>2. \A s \in Seq(Line) : s \o <<>> = s
    OBVIOUS
  <2>3. closed => \E p \in DOMAIN all : all[p].type = "partial"
    BY DEF EofInv
  <2> HIDE DEF all
  <2>4. CASE all # <<>> /\ Head(all).type # "partial" /\ buffer' = Tail(all)
    <3>1. /\ Len(all) \in Nat /\ DOMAIN all = 1 .. Len(all) /\ Head(all) = all[1]
          /\ Tail(all) \in Seq(Line) /\ DOMAIN Tail(all) = 1 .. Len(all) - 1
          /\ \A p \in 1 .. Len(all) - 1 : Tail(all)[p] = all[p + 1]
      BY <1>0, <2>4, LinesAt DEF all
    <3>2. closed => \E p \in DOMAIN Tail(all) : Tail(all)[p].type = "partial"
      <4> SUFFICES ASSUME closed PROVE \E p \in DOMAIN Tail(all) : Tail(all)[p].type = "partial"
        OBVIOUS
      <4>1. PICK p \in DOMAIN all : all[p].type = "partial"
        BY <2>3
      <4>2. p - 1 \in DOMAIN Tail(all) /\ Tail(all)[p - 1] = all[p]
        BY <2>4, <3>1, <4>1
      <4> QED
        BY <4>1, <4>2
    <3> QED
      BY <2>1, <2>2, <2>4, <3>1, <3>2 DEF EofInv
  <2>5. CASE buffer' = all
    BY <1>0, <2>1, <2>2, <2>3, <2>5 DEF EofInv, all
  <2> QED
    BY <2>1, <2>4, <2>5
<1>4. CASE Loop /\ ~ReadLine
  BY <1>1, <1>4
     DEF Loop, Leave, HandleWork, HandleHere, HandleFatal, HandleReply, HandleDelta, HandleShutdown,
         DrainAgain, ReplyShutdown, FinalDrainDone, LookForEof, TickDone, ResumeFiber, hostVars, loopVars
<1>5. ASSUME NEW t \in Tasks, Fiber(t) PROVE UNCHANGED <<closed, buffer, pipe, eof>>
  BY <1>5 DEF Fiber, AuthorSuspends, StartCall, StartCallThrows, PollSingle, PeekStream, PassChunk, EndSnapshot,
              Return, hostVars, loopVars
<1>6. CASE HostInvites \/ HostOneShot \/ HostAnswers \/ HostSendsDelta
  <2>1. ~closed /\ UNCHANGED <<closed, eof>>
    BY <1>6 DEF HostInvites, HostOneShot, HostAnswers, HostSendsDelta, Write, Others
  <2> QED
    BY <2>1 DEF EofInv
<1>7. CASE HostEnds
  <2>1. [type |-> "partial"] \in Line
    BY DEF Line
  <2> QED
    BY <1>2, <1>7, <2>1 DEF HostEnds, Write, Others
<1>8. CASE Sigterm \/ \E i \in Ids : DeadlinePasses(i)
  BY <1>1, <1>8 DEF Sigterm, DeadlinePasses, Others, hostVars
<1>9. CASE UNCHANGED vars
  BY <1>1, <1>9 DEF vars, hostVars, loopVars
<1> QED
  BY <1>1, <1>3, <1>4, <1>5, <1>6, <1>7, <1>8, <1>9 DEF Next, Environment

\* What is known of a call before, while and after it is made.
MadeInv(i) ==
  /\ kind[i] = "none" <=> i > nextId
  /\ i > nextId => i \notin done
  /\ error[i] # "none" => i \in done

LEMMA MadeStep ==
  ASSUME PhpInv, RegistryIsCalls, AuthorsInv, \A i \in Ids : MadeInv(i), [Next]_vars
  PROVE  \A i \in Ids : MadeInv(i)'
<1>0. /\ nextId \in 0 .. MaxCalls /\ reg \subseteq Ids /\ DOMAIN kind = Ids /\ DOMAIN error = Ids
      /\ \A i \in Ids : i \in Nat /\ i # 0
      /\ \A i \in reg : ~(i > nextId)
  <2>1. \A i \in Ids : i \in Nat /\ i # 0
    BY DEF Ids
  <2>2. /\ nextId \in 0 .. MaxCalls /\ reg \subseteq Ids /\ DOMAIN kind = Ids /\ DOMAIN error = Ids
        /\ \A t \in Tasks : call[t] \in 0 .. MaxCalls
    BY DEF PhpInv, TypeOK, RegTypes, CallTypes
  <2>3. \A i \in reg : ~(i > nextId)
    BY <2>1, <2>2 DEF RegistryIsCalls, AuthorsInv, CallsApart, InCall
  <2> QED
    BY <2>1, <2>2, <2>3
<1>1. CASE UNCHANGED <<nextId, kind, done, error>>
  BY <1>1 DEF MadeInv
<1>2. CASE AbandonAll
  BY <1>0, <1>2 DEF AbandonAll, MadeInv
<1>3. CASE HandleReply
  <2>1. UNCHANGED <<nextId, kind>>
    BY <1>3 DEF HandleReply, ResolveResponse
  <2>2. \A i \in Ids : /\ i \in done => i \in done'
                       /\ i \in done' => i \in done \cup reg
                       /\ error'[i] = error[i] \/ i \in done'
    BY <1>0, <1>3 DEF HandleReply, ResolveResponse
  <2> QED
    BY <1>0, <2>1, <2>2 DEF MadeInv
<1>4. ASSUME NEW t \in Tasks, StartCall(t) \/ StartCallThrows(t) PROVE \A i \in Ids : MadeInv(i)'
  <2>1. PICK k \in {"single", "stream", "unsent"} : kind' = [kind EXCEPT ![nextId'] = k]
    BY <1>4 DEF StartCall, StartCallThrows
  <2>2. nextId' = nextId + 1 /\ UNCHANGED <<done, error>>
    BY <1>4 DEF StartCall, StartCallThrows
  <2>3. \A i \in Ids : kind'[i] = IF i = nextId + 1 THEN k ELSE kind[i]
    BY <1>0, <2>1, <2>2
  <2> QED
    BY <1>0, <2>2, <2>3 DEF MadeInv
<1>5. ASSUME NEW t \in Tasks, Fiber(t), ~(StartCall(t) \/ StartCallThrows(t))
      PROVE  UNCHANGED <<nextId, kind, done, error>>
  BY <1>5 DEF Fiber, AuthorSuspends, PollSingle, PeekStream, PassChunk, EndSnapshot, Return, EndCall,
              regVars
<1>6. CASE Loop /\ ~HandleReply
  <2>1. AbandonAll \/ UNCHANGED <<nextId, kind, done, error>>
    BY <1>6 DEF Loop, ReadLine, Leave, HandleWork, HandleHere, HandleFatal, HandleDelta, HandleShutdown,
                DrainAgain, ReplyShutdown, FinalDrainDone, LookForEof, TickDone, ResumeFiber, Finally,
                AppendChunk, regVars
  <2> QED
    BY <1>1, <1>2, <2>1
<1>7. CASE Environment \/ \E i \in Ids : DeadlinePasses(i)
  BY <1>1, <1>7 DEF Environment, HostInvites, HostOneShot, HostAnswers, HostSendsDelta, HostEnds,
                    Sigterm, DeadlinePasses, Others, regVars
<1>8. CASE UNCHANGED vars
  BY <1>1, <1>8 DEF vars, regVars
<1> QED
  BY <1>1, <1>3, <1>4, <1>5, <1>6, <1>7, <1>8 DEF Next

\* A call that was answered is about to be looked at: the tick resumes its fiber, or
\* its fiber has the thread, or the tick is still to come; and a fiber in its
\* snapshot has the thread, so nothing landed since it peeked.
FreshInv ==
  /\ \A t \in Tasks : at[t] = "chunk" => running = t /\ (snap[t].done <=> call[t] \in done)
  /\ \A t \in Tasks : call[t] # 0 /\ call[t] \in done =>
       t \in ToSet(todo) \/ running = t \/ pc = "eof"

\* Behind a tick no call is answered and not ended.
LEMMA NoneAnswered ==
  ASSUME PhpInv, RegistryIsCalls, FreshInv, running = 0, todo = <<>>, pc # "eof"
  PROVE  reg \cap done = {}
<1>1. ToSet(todo) = {} /\ 0 \notin Tasks /\ 0 \notin Ids
  <2>1. todo \in Seq(Tasks) /\ 0 \notin Tasks
    BY PhpFacts
  <2>2. 0 \notin Ids
    BY PhpAssumption DEF Ids
  <2> QED
    BY <2>1, <2>2, QueueEmpty
<1>2. \A t \in Tasks : call[t] # 0 => call[t] \notin done
  BY <1>1 DEF FreshInv
<1> QED
  BY <1>1, <1>2 DEF RegistryIsCalls, InCall

LEMMA FreshStep ==
  ASSUME {"chunkSuspends", "chunkThrows", "badParams"} \cap AuthorFaults = {},
         PhpInv, RegistryIsCalls, AuthorsInv, \A i \in Ids : MadeInv(i), FreshInv, [Next]_vars
  PROVE  FreshInv'
<1>0. /\ call \in [Tasks -> 0 .. MaxCalls] /\ DOMAIN at = Tasks /\ DOMAIN snap = Tasks
      /\ 0 \notin Tasks /\ todo \in Seq(Tasks) /\ inflight \in Seq(Tasks)
      /\ \A t \in Tasks : /\ at[t] \in {"single", "stream", "chunk"} <=> call[t] # 0
                          /\ call[t] # 0 => call[t] \in Ids
                          /\ call[t] # 0 => t \in Suspended
      /\ nextId \in 0 .. MaxCalls
  <2>1. /\ call \in [Tasks -> 0 .. MaxCalls] /\ DOMAIN at = Tasks /\ DOMAIN snap = Tasks
        /\ nextId \in 0 .. MaxCalls
    BY DEF PhpInv, TypeOK, CallTypes, RegTypes
  <2>2. \A t \in Tasks : /\ at[t] \in {"single", "stream", "chunk"} <=> call[t] # 0
                         /\ call[t] # 0 => call[t] \in Ids
    BY FiberFacts
  <2>3. \A t \in Tasks : call[t] # 0 => t \in Suspended
    BY <2>2 DEF PhpInv, FibersInv, FiberInv
  <2> QED
    BY <2>1, <2>2, <2>3, PhpFacts
<1>1. CASE UNCHANGED <<at, snap, running, call, done, todo, pc>>
  BY <1>1 DEF FreshInv
<1>2. CASE Loop
  <2>1. CASE HandleWork
    <3>1. nextTask' \in Tasks /\ at[nextTask'] = "none" /\ running = 0
      <4>1. nextTask' \in Tasks /\ running = 0 /\ nextTask' = nextTask + 1 /\ nextTask \in Nat
        BY <2>1, HandleWorkKeeps, PhpFacts DEF HandleWork, Handling, Main
      <4>2. nextTask' > nextTask
        BY <4>1
      <4> QED
        BY <4>1, <4>2 DEF PhpInv, FibersInv, FiberInv
    <3>2. /\ at' = [at EXCEPT ![nextTask'] = "body"] /\ pc' = "eof" /\ UNCHANGED <<call, snap, done>>
      BY <2>1 DEF HandleWork, regVars
    <3> QED
      BY <1>0, <3>1, <3>2 DEF FreshInv
  <2>2. (running = 0 /\ UNCHANGED <<at, call, snap>>) \/ HandleWork
    BY <1>2 DEF Loop, ReadLine, Leave, HandleHere, HandleFatal, HandleReply, HandleDelta, HandleShutdown,
                DrainAgain, ReplyShutdown, FinalDrainDone, LookForEof, TickDone, ResumeFiber, Handling,
                Main, callVars
  <2>3. running = 0 => \A t \in Tasks : at[t] # "chunk"
    BY <1>0 DEF FreshInv
  <2>4. running = 0 => \A t \in Tasks : call[t] # 0 => t \in ToSet(inflight)
    BY <1>0 DEF Suspended
  <2>5. CASE HandleHere \/ HandleReply \/ HandleDelta \/ ReplyShutdown
    <3>1. pc' = "eof"
      BY <2>5 DEF HandleHere, HandleReply, HandleDelta, ReplyShutdown
    <3> QED
      BY <2>1, <2>2, <2>3, <3>1 DEF FreshInv
  <2>6. CASE todo' = inflight
    BY <2>1, <2>2, <2>3, <2>4, <2>6 DEF FreshInv
  <2>7. CASE pc' = "exited" /\ inflight = <<>>
    <3>1. ToSet(inflight) = {}
      BY <1>0, <2>7, QueueEmpty
    <3> QED
      BY <2>1, <2>2, <2>3, <2>4, <3>1 DEF FreshInv
  <2>8. CASE ReadLine \/ TickDone
    <3>1. UNCHANGED <<done, todo, running>> /\ pc # "eof"
      BY <2>8 DEF ReadLine, TickDone, Main, taskVars, regVars
    <3> QED
      BY <2>1, <2>2, <2>3, <3>1 DEF FreshInv
  <2>9. CASE ResumeFiber
    <3>1. /\ todo # <<>> /\ running' = Head(todo) /\ todo' = Tail(todo) /\ UNCHANGED <<done, pc>>
      BY <2>9 DEF ResumeFiber, regVars, loopVars
    <3>2. ToSet(todo) \subseteq ToSet(todo') \cup {running'}
      <4>1. /\ Len(todo) \in Nat /\ DOMAIN todo = 1 .. Len(todo) /\ Head(todo) = todo[1]
            /\ DOMAIN Tail(todo) = 1 .. Len(todo) - 1
            /\ \A p \in 1 .. Len(todo) - 1 : Tail(todo)[p] = todo[p + 1]
        BY <1>0, <3>1, LinesAt
      <4>2. ASSUME NEW p \in DOMAIN todo, p # 1
            PROVE  p - 1 \in DOMAIN Tail(todo) /\ Tail(todo)[p - 1] = todo[p]
        BY <4>1, <4>2
      <4> QED
        BY <3>1, <4>1, <4>2 DEF ToSet
    <3> QED
      BY <2>1, <2>2, <2>3, <1>0, <3>1, <3>2 DEF FreshInv
  <2>10. CASE Leave \/ HandleFatal \/ HandleShutdown \/ DrainAgain \/ LookForEof
    <3>1. todo' = inflight
      BY <2>10 DEF Leave, HandleFatal, HandleShutdown, DrainAgain, LookForEof, Finally
    <3> QED
      BY <2>6, <3>1
  <2>11. CASE FinalDrainDone
    BY <2>7, <2>11 DEF FinalDrainDone
  <2> QED
    BY <1>2, <2>1, <2>5, <2>8, <2>9, <2>10, <2>11 DEF Loop
<1>3. ASSUME NEW t \in Tasks, Fiber(t) PROVE FreshInv'
  <2>0. /\ running = t /\ UNCHANGED <<done, todo, pc>>
        /\ \A u \in Tasks \ {t} : at'[u] = at[u] /\ call'[u] = call[u] /\ snap'[u] = snap[u]
    BY <1>0, <1>3 DEF Fiber, AuthorSuspends, StartCall, StartCallThrows, PollSingle, PeekStream, PassChunk, EndSnapshot,
                      Return, Has, Suspend, EndCall, Terminates, loopVars, taskVars, regVars, callVars
  <2>1. \A u \in Tasks \ {t} : /\ at[u] # "chunk"
                              /\ call[u] # 0 /\ call[u] \in done => u \in ToSet(todo) \/ pc = "eof"
    BY <2>0 DEF FreshInv
  <2>2. ASSUME /\ at'[t] = "chunk" => running' = t /\ (snap'[t].done <=> call'[t] \in done)
               /\ call'[t] # 0 /\ call'[t] \in done => running' = t
        PROVE  FreshInv'
    BY <2>0, <2>1, <2>2 DEF FreshInv
  <2>3. CASE AuthorSuspends(t)
    <3>1. at'[t] = "body" /\ call'[t] = 0
      BY <1>0, <2>3 DEF AuthorSuspends, Has, callVars
    <3> QED
      BY <2>2, <3>1
  <2>4. CASE StartCall(t)
    <3>1. running' = t /\ at'[t] # "chunk"
      BY <1>0, <2>0, <2>4 DEF StartCall, taskVars
    <3> QED
      BY <2>2, <3>1
  <2>5. ASSUME NEW o, EndCall(t, o) PROVE FreshInv'
    <3>1. at'[t] = "body" /\ call'[t] = 0
      BY <1>0, <2>5 DEF EndCall
    <3> QED
      BY <2>2, <3>1
  <2>6. CASE PollSingle(t)
    <3>1. CASE UNCHANGED callVars /\ call[t] \notin done
      BY <2>2, <2>6, <3>1 DEF PollSingle, Has, callVars
    <3> QED
      BY <2>5, <2>6, <3>1 DEF PollSingle
  <2>7. CASE PeekStream(t)
    <3>1. running' = t /\ call'[t] = call[t] /\ snap'[t].done = (call[t] \in done)
      BY <1>0, <2>0, <2>7 DEF PeekStream, taskVars
    <3> QED
      BY <2>2, <3>1
  <2>8. CASE PassChunk(t)
    <3>1. UNCHANGED <<running, at, call, snap>>
      BY <2>8 DEF PassChunk, taskVars
    <3> QED
      BY <2>0, <2>2, <3>1 DEF FreshInv
  <2>9. CASE EndSnapshot(t)
    <3>1. CASE ~snap[t].done /\ at' = [at EXCEPT ![t] = "stream"] /\ UNCHANGED call
      <4>1. at'[t] = "stream" /\ call'[t] \notin done
        BY <1>0, <2>9, <3>1 DEF EndSnapshot, Has, FreshInv
      <4> QED
        BY <2>2, <4>1
    <3> QED
      BY <2>5, <2>9, <3>1 DEF EndSnapshot
  <2>10. CASE Return(t)
    <3>1. at'[t] = "done" /\ call'[t] = 0
      BY <1>0, <2>10 DEF Return, Has
    <3> QED
      BY <2>2, <3>1
  <2>11. ~StartCallThrows(t)
    BY DEF StartCallThrows
  <2> QED
    BY <1>3, <2>3, <2>4, <2>6, <2>7, <2>8, <2>9, <2>10, <2>11 DEF Fiber
<1>4. CASE Environment \/ \E i \in Ids : DeadlinePasses(i)
  BY <1>1, <1>4 DEF Environment, HostInvites, HostOneShot, HostAnswers, HostSendsDelta, HostEnds,
                    Sigterm, DeadlinePasses, Others, regVars, taskVars
<1>5. CASE UNCHANGED vars
  BY <1>1, <1>5 DEF vars, regVars, taskVars, loopVars, callVars
<1> QED
  BY <1>2, <1>3, <1>4, <1>5 DEF Next

\* A call somebody is in was made.
LEMMA CallMade ==
  ASSUME PhpInv, AuthorsInv, NEW i \in Ids, MadeInv(i), InCall(i)
  PROVE  kind[i] # "none" /\ VerdictOf(i) = "open"
<1>1. i \in Nat /\ nextId \in Nat /\ i <= nextId
  BY DEF InCall, AuthorsInv, CallsApart, PhpInv, TypeOK, RegTypes, Ids
<1>2. kind[i] # "none"
  BY <1>1 DEF MadeInv
<1> QED
  BY <1>2 DEF VerdictOf

\* When calls hear their first verdict, the contract hears it.
LEMMA Hears ==
  ASSUME PhpInv, AuthorsInv, \A i \in Ids : MadeInv(i), UNCHANGED <<kind, call, outcome>>,
         NEW C \in SUBSET Ids,
         \A i \in C : InCall(i) /\ HeardOf(i) = "none" /\ HeardOf(i)' \in Contract!Heard,
         \A i \in Ids \ C : HeardOf(i)' = HeardOf(i)
  PROVE  Contract!ContractNext
<1>1. \A i \in Ids : VerdictOf(i)' = VerdictOf(i)
  BY DEF VerdictOf, InCall
<1>2. \A i \in C : VerdictOf(i) = "open"
  BY CallMade
<1> DEFINE v == [i \in C |-> HeardOf(i)']
<1>3. v \in [C -> Contract!Heard]
  OBVIOUS
<1>4. \A i \in Ids : HeardOf(i)' = IF i \in C THEN v[i] ELSE HeardOf(i)
  OBVIOUS
<1>5. Contract!Hear(C)
  BY <1>1, <1>2, <1>3, <1>4 DEF Contract!Hear
<1> QED
  BY <1>5 DEF Contract!ContractNext

\* Abandoning when no call is answered and not ended: every call hears of it.
LEMMA AbandonHears ==
  ASSUME PhpInv, RegistryIsCalls, AuthorsInv, \A i \in Ids : MadeInv(i), reg \cap done = {},
         AbandonAll, UNCHANGED <<call, outcome>>
  PROVE  Contract!ContractNext
<1>1. reg \in SUBSET Ids /\ UNCHANGED kind
  BY DEF RegistryIsCalls, AbandonAll
<1>2. ASSUME NEW i \in reg
      PROVE  InCall(i) /\ HeardOf(i) = "none" /\ HeardOf(i)' \in Contract!Heard
  <2>1. InCall(i) /\ i \in Ids /\ i \notin done
    BY DEF RegistryIsCalls
  <2>2. i \in done' /\ error'[i] = "transport"
    BY <2>1 DEF AbandonAll
  <2> QED
    BY <2>1, <2>2 DEF HeardOf, Verdict, Contract!Heard
<1>3. ASSUME NEW i \in Ids \ reg PROVE HeardOf(i)' = HeardOf(i)
  BY DEF AbandonAll, HeardOf, Verdict
<1> QED
  BY <1>1, <1>2, <1>3, Hears

\* A reply that is routed is the first verdict of its call.
LEMMA ReplyHears ==
  ASSUME PhpInv, RegistryIsCalls, AuthorsInv, \A i \in Ids : MadeInv(i), reg \cap done = {},
         HandleReply
  PROVE  Contract!ContractNext
<1>0. PICK j : j = line.id
  OBVIOUS
<1>1. UNCHANGED <<kind, call, outcome>> /\ ResolveResponse(j, line.r)
  BY <1>0 DEF HandleReply, ResolveResponse, callVars
<1>2. DOMAIN error = Ids /\ \A i \in Ids : error[i] \in {"none", "server", "transport"}
  BY DEF PhpInv, TypeOK, RegTypes
<1>3. CASE j \notin reg
  <2>1. \A i \in Ids : HeardOf(i)' = HeardOf(i)
    BY <1>1, <1>3 DEF ResolveResponse, HeardOf, Verdict
  <2> QED
    BY <1>1, <2>1, Hears
<1>4. CASE j \in reg
  <2>1. j \in Ids /\ InCall(j) /\ j \notin done /\ error[j] = "none"
    BY <1>4 DEF RegistryIsCalls, MadeInv
  <2>2. /\ done' = done \cup {j} /\ error'[j] \in {"none", "server"}
        /\ \A i \in Ids \ {j} : error'[i] = error[i]
    BY <1>1, <1>2, <1>4, <2>1 DEF ResolveResponse
  <2>3. HeardOf(j) = "none" /\ HeardOf(j)' \in Contract!Heard
    BY <2>1, <2>2 DEF HeardOf, Verdict, Contract!Heard
  <2>4. \A i \in Ids \ {j} : HeardOf(i)' = HeardOf(i)
    BY <2>2 DEF HeardOf, Verdict
  <2> QED
    BY <1>1, <2>1, <2>3, <2>4, Hears
<1> QED
  BY <1>3, <1>4

\* A call is made: the next one, that nobody has heard of.
LEMMA StartIssues ==
  ASSUME PhpInv, AuthorsInv, \A i \in Ids : MadeInv(i), NEW t \in Tasks, StartCall(t)
  PROVE  Contract!ContractNext
<1>0. /\ nextId \in 0 .. MaxCalls /\ DOMAIN kind = Ids /\ call \in [Tasks -> 0 .. MaxCalls]
      /\ at[t] = "body" /\ call[t] = 0
  BY FiberFacts DEF PhpInv, TypeOK, RegTypes, CallTypes, StartCall, Has
<1>1. PICK n \in Ids : n = nextId' /\ n = nextId + 1
  BY <1>0, PhpAssumption DEF StartCall, Ids
<1>2. PICK k \in {"single", "stream"} : kind' = [kind EXCEPT ![n] = k]
  BY <1>1 DEF StartCall
<1>3. call' = [call EXCEPT ![t] = n] /\ UNCHANGED <<done, error, outcome>>
  BY <1>1 DEF StartCall
<1>4. \A u \in Tasks : call'[u] = IF u = t THEN n ELSE call[u]
  BY <1>0, <1>3
<1>5. kind'[n] = k /\ \A i \in Ids \ {n} : kind'[i] = kind[i]
  BY <1>0, <1>2
<1>6. InCall(n)' /\ \A i \in Ids \ {n} : InCall(i)' <=> InCall(i)
  <2>1. ASSUME NEW i \in Ids \ {n} PROVE InCall(i)' <=> InCall(i)
    <3>1. i # 0 /\ call[t] # i
      BY <1>0 DEF Ids
    <3> QED
      BY <1>4, <3>1 DEF InCall
  <2>2. InCall(n)'
    BY <1>4 DEF InCall
  <2> QED
    BY <2>1, <2>2
<1>7. kind[n] = "none" /\ n \notin done
  BY <1>0, <1>1 DEF MadeInv
<1>8. \A i \in Ids : HeardOf(i)' = HeardOf(i)
  BY <1>3 DEF HeardOf, Verdict
<1>9. /\ \A i \in Ids \ {n} : VerdictOf(i)' = VerdictOf(i)
      /\ VerdictOf(n) = "idle" /\ VerdictOf(n)' = "open"
  <2>1. \A i \in Ids \ {n} : VerdictOf(i)' = VerdictOf(i)
    BY <1>3, <1>5, <1>6 DEF VerdictOf
  <2>2. VerdictOf(n) = "idle"
    BY <1>7 DEF VerdictOf
  <2>3. VerdictOf(n)' = "open"
    BY <1>5, <1>6 DEF VerdictOf
  <2> QED
    BY <2>1, <2>2, <2>3
<1>10. Contract!Issue(n)
  BY <1>8, <1>9 DEF Contract!Issue
<1> QED
  BY <1>10 DEF Contract!ContractNext

\* A call ends: with the verdict its entry holds, or out of time when it holds none.
LEMMA EndDelivers ==
  ASSUME PhpInv, AuthorsInv, \A i \in Ids : MadeInv(i), NEW t \in Tasks, NEW o, EndCall(t, o),
         call[t] # 0,
         \/ call[t] \in done /\ o = Verdict(call[t])
         \/ call[t] \notin done /\ o = "timeout"
  PROVE  Contract!ContractNext
<1>0. /\ call \in [Tasks -> 0 .. MaxCalls] /\ DOMAIN outcome = Ids
      /\ \A i \in Ids : error[i] \in {"none", "server", "transport"}
  BY DEF PhpInv, TypeOK, RegTypes, CallTypes
<1>1. PICK i \in Ids : i = call[t]
  BY FiberFacts
<1>2. /\ \A u \in Tasks : call'[u] = IF u = t THEN 0 ELSE call[u]
      /\ \A j \in Ids : outcome'[j] = IF j = i THEN o ELSE outcome[j]
      /\ UNCHANGED <<kind, done, error>>
  BY <1>0, <1>1 DEF EndCall
<1>3. InCall(i) /\ ~InCall(i)'
  <2>1. \A u \in Tasks : call[u] = i => u = t
    BY <1>1 DEF AuthorsInv, CallsApart
  <2>2. i # 0
    BY <1>1
  <2> QED
    BY <1>1, <1>2, <2>1, <2>2 DEF InCall
<1>4. \A j \in Ids \ {i} : InCall(j)' <=> InCall(j)
  <2> SUFFICES ASSUME NEW j \in Ids \ {i} PROVE InCall(j)' <=> InCall(j)
    OBVIOUS
  <2>1. j # 0 /\ call[t] # j
    BY <1>1, PhpAssumption DEF Ids
  <2> QED
    BY <1>2, <2>1 DEF InCall
<1>5. kind[i] # "none" /\ VerdictOf(i) = "open"
  BY <1>3, CallMade
<1>6. \A j \in Ids : HeardOf(j)' = HeardOf(j)
  BY <1>2 DEF HeardOf, Verdict
<1>7. VerdictOf(i)' = o /\ \A j \in Ids \ {i} : VerdictOf(j)' = VerdictOf(j)
  <2>1. \A j \in Ids \ {i} : VerdictOf(j)' = VerdictOf(j)
    BY <1>2, <1>4 DEF VerdictOf
  <2>2. VerdictOf(i)' = o
    BY <1>2, <1>3, <1>5 DEF VerdictOf
  <2> QED
    BY <2>1, <2>2
<1>8. CASE i \in done /\ o = Verdict(i)
  <2>1. HeardOf(i) # "none" /\ o = Contract!Seen(HeardOf(i))
    BY <1>0, <1>8 DEF HeardOf, Verdict, Contract!Seen
  <2>2. Contract!Deliver(i)
    BY <1>5, <1>6, <1>7, <2>1 DEF Contract!Deliver
  <2> QED
    BY <2>2 DEF Contract!ContractNext
<1>9. CASE i \notin done /\ o = "timeout"
  <2>1. HeardOf(i) = "none"
    BY <1>9 DEF HeardOf
  <2>2. Contract!GiveUp(i)
    BY <1>5, <1>6, <1>7, <1>9, <2>1 DEF Contract!GiveUp
  <2> QED
    BY <2>2 DEF Contract!ContractNext
<1> QED
  BY <1>1, <1>8, <1>9

\* Every step is one of the contract.
LEMMA ContractStep ==
  ASSUME {"chunkSuspends", "chunkThrows", "badParams"} \cap AuthorFaults = {}, PhpInv, RegistryIsCalls, AuthorsInv,
         EofInv, \A i \in Ids : MadeInv(i), FreshInv, [Next]_vars
  PROVE  Contract!ContractNext
<1>1. ASSUME UNCHANGED <<kind, call, outcome, done, error>> PROVE Contract!ContractNext
  <2>1. \A i \in Ids : HeardOf(i)' = HeardOf(i)
    BY <1>1 DEF HeardOf, Verdict
  <2> QED
    BY <1>1, <2>1, Hears
<1>2. ASSUME running = 0, pc \in {"read", "handle"} PROVE reg \cap done = {}
  BY <1>2, NoneAnswered DEF PhpInv, QueueInv
<1>3. CASE Loop
  <2>1. CASE HandleReply
    BY <1>2, <2>1, ReplyHears DEF HandleReply, Handling, Main
  <2>2. CASE Leave \/ HandleFatal \/ HandleShutdown
    <3>1. running = 0 /\ pc \in {"read", "handle"} /\ AbandonAll /\ UNCHANGED <<call, outcome>>
      BY <2>2 DEF Leave, HandleFatal, HandleShutdown, Finally, Handling, Main, callVars
    <3> QED
      BY <1>2, <3>1, AbandonHears
  <2>3. CASE LookForEof
    <3>1. ~(eof /\ buffer = <<>>)
      <4> SUFFICES ASSUME eof, buffer = <<>> PROVE FALSE
        OBVIOUS
      <4>1. closed /\ buffer \o pipe = <<>>
        BY DEF EofInv
      <4> QED
        BY <4>1 DEF EofInv
    <3> QED
      BY <1>1, <2>3, <3>1 DEF LookForEof, regVars, callVars
  <2>4. CASE \/ ReadLine \/ HandleWork \/ HandleHere \/ HandleDelta \/ DrainAgain \/ ReplyShutdown
             \/ FinalDrainDone \/ TickDone \/ ResumeFiber
    BY <1>1, <2>4 DEF ReadLine, HandleWork, HandleHere, HandleDelta, DrainAgain, ReplyShutdown,
                      FinalDrainDone, TickDone, ResumeFiber, AppendChunk, regVars, callVars
  <2> QED
    BY <1>3, <2>1, <2>2, <2>3, <2>4 DEF Loop
<1>4. ASSUME NEW t \in Tasks, Fiber(t) PROVE Contract!ContractNext
  <2>0. at[t] \in {"single", "stream", "chunk"} => call[t] # 0
    BY FiberFacts
  <2>1. CASE StartCall(t)
    BY <2>1, StartIssues
  <2>2. CASE PollSingle(t)
    <3>1. call[t] # 0
      BY <2>0, <2>2 DEF PollSingle, Has
    <3>2. CASE UNCHANGED <<regVars, callVars>>
      BY <1>1, <3>2 DEF regVars, callVars
    <3>3. CASE \/ call[t] \in done /\ EndCall(t, Verdict(call[t]))
               \/ call[t] \in late \ done /\ EndCall(t, "timeout")
      BY <3>1, <3>3, EndDelivers
    <3> QED
      BY <2>2, <3>2, <3>3 DEF PollSingle
  <2>3. CASE EndSnapshot(t)
    <3>1. call[t] # 0 /\ (snap[t].done <=> call[t] \in done)
      BY <2>0, <2>3 DEF EndSnapshot, Has, FreshInv
    <3>2. CASE UNCHANGED <<regVars, call, outcome>>
      BY <1>1, <3>2 DEF regVars
    <3>3. CASE \/ snap[t].done /\ EndCall(t, Verdict(call[t]))
               \/ ~snap[t].done /\ EndCall(t, "timeout")
      BY <3>1, <3>3, EndDelivers
    <3> QED
      BY <2>3, <3>2, <3>3 DEF EndSnapshot
  <2>4. CASE \/ AuthorSuspends(t) \/ PeekStream(t) \/ PassChunk(t) \/ Return(t)
    <3>1. UNCHANGED <<regVars, call, outcome>>
      BY <2>4 DEF AuthorSuspends, PeekStream, PassChunk, Return, callVars
    <3> QED
      BY <1>1, <3>1 DEF regVars
  <2>5. ~StartCallThrows(t)
    BY DEF StartCallThrows
  <2> QED
    BY <1>4, <2>1, <2>2, <2>3, <2>4, <2>5 DEF Fiber
<1>5. CASE Environment \/ \E i \in Ids : DeadlinePasses(i)
  BY <1>1, <1>5 DEF Environment, HostInvites, HostOneShot, HostAnswers, HostSendsDelta, HostEnds,
                    Sigterm, DeadlinePasses, Others, regVars
<1>6. CASE UNCHANGED vars
  BY <1>1, <1>6 DEF vars, regVars, callVars
<1> QED
  BY <1>3, <1>4, <1>5, <1>6 DEF Next

\* How calls hear of the host, on every reachable state of such an adapter.
LEMMA SpecContract ==
  ASSUME "closes" \notin HostEndings, {"chunkSuspends", "chunkThrows", "badParams"} \cap AuthorFaults = {}
  PROVE  Spec => [][Contract!ContractNext]_vars
<1> DEFINE Made == \A i \in Ids : MadeInv(i)
<1>1. Init => EofInv /\ Made /\ FreshInv
  <2> SUFFICES ASSUME Init PROVE EofInv /\ Made /\ FreshInv
    OBVIOUS
  <2>1. \A i \in Ids : i > nextId
    BY PhpAssumption DEF Init, Ids
  <2> QED
    BY <2>1 DEF Init, EofInv, MadeInv, FreshInv
<1>2. PhpInv /\ EofInv /\ [Next]_vars => EofInv'
  BY EofStep
<1>3. PhpInv /\ RegistryIsCalls /\ AuthorsInv /\ Made /\ [Next]_vars => Made'
  BY MadeStep
<1>4. PhpInv /\ RegistryIsCalls /\ AuthorsInv /\ Made /\ FreshInv /\ [Next]_vars => FreshInv'
  BY FreshStep
<1>5. PhpInv /\ RegistryIsCalls /\ AuthorsInv /\ EofInv /\ Made /\ FreshInv /\ [Next]_vars =>
        [Contract!ContractNext]_vars
  BY ContractStep
<1>6. Spec => []RegistryIsCalls
  BY RegistryHoldsCalls
<1> HIDE DEF Made
<1> QED
  BY <1>1, <1>2, <1>3, <1>4, <1>5, <1>6, SpecPhp, SpecAuthors, PTL DEF Spec

\* What an author sees of a call is HostCallContract: one verdict, the first one the
\* registry heard, and no timeout once one was heard, whatever signals, shutdowns
\* and fatal frames abandon it (Host.php, BrokerSender.php).  It needs that onChunk
\* neither suspends nor throws, that the parameters of a stream can be built, and
\* that stdin does not end behind a line.
THEOREM CallsKeepContract ==
  ASSUME "closes" \notin HostEndings, {"chunkSuspends", "chunkThrows", "badParams"} \cap AuthorFaults = {}
  PROVE  Spec => ImplementsContract
<1>1. Init => Contract!ContractInit
  <2> SUFFICES ASSUME Init PROVE Contract!ContractInit
    OBVIOUS
  <2>1. \A i \in Ids : HeardOf(i) = "none" /\ VerdictOf(i) = "idle"
    BY DEF Init, HeardOf, VerdictOf
  <2> QED
    BY <2>1 DEF Contract!ContractInit
<1>2. [Contract!ContractNext]_vars => [Contract!ContractNext]_(Contract!contractVars)
  <2> SUFFICES ASSUME UNCHANGED vars PROVE UNCHANGED Contract!contractVars
    OBVIOUS
  <2>1. UNCHANGED <<kind, call, outcome, done, error>>
    BY DEF vars, regVars, callVars
  <2>2. \A i \in Ids : HeardOf(i)' = HeardOf(i) /\ VerdictOf(i)' = VerdictOf(i)
    BY <2>1 DEF HeardOf, Verdict, VerdictOf, InCall
  <2> QED
    BY <2>2 DEF Contract!contractVars
<1> QED
  BY <1>1, <1>2, SpecContract, PTL DEF Spec, ImplementsContract, Contract!ContractSpec

\* What the registry holds for a call that was answered stays what it is while the
\* call is registered: abandoning never overwrites it (Host.php, CHANGELOG 0.3.0).  It
\* is so because an adapter that abandons holds no answer nobody has looked at; proved
\* under the conditions of the contract, on which it rests.
THEOREM AnswersAreKept ==
  ASSUME "closes" \notin HostEndings, {"chunkSuspends", "chunkThrows", "badParams"} \cap AuthorFaults = {}
  PROVE  Spec => AbandonKeepsAnswers
<1>1. ASSUME NEW i \in Ids, [Contract!ContractNext]_vars, i \in done
      PROVE  Verdict(i)' = Verdict(i)
  <2>1. CASE UNCHANGED vars
    BY <2>1 DEF vars, regVars, Verdict
  <2>2. CASE Contract!ContractNext
    <3>1. HeardOf(i) = Verdict(i) /\ Verdict(i) # "none"
      BY <1>1 DEF HeardOf, Verdict
    <3>2. HeardOf(i)' = HeardOf(i)
      BY <2>2, <3>1 DEF Contract!ContractNext, Contract!Issue, Contract!Refuse, Contract!Deliver,
                        Contract!GiveUp, Contract!Drop, Contract!Hear
    <3> QED
      BY <3>1, <3>2 DEF HeardOf
  <2> QED
    BY <1>1, <2>1, <2>2
<1>2. [Contract!ContractNext]_vars =>
        [\A i \in Ids : i \in done /\ i \in reg' => Verdict(i)' = Verdict(i)]_vars
  BY <1>1
<1> QED
  BY <1>2, SpecContract, PTL DEF AbandonKeepsAnswers
============================================================================
