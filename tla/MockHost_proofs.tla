--------------------------- MODULE MockHost_proofs ---------------------------
(***************************************************************************)
(* For any scenarios, fixture and matcher: no line is lost between the      *)
(* pipe and read_frame; and if the matcher keeps its promises, what a step   *)
(* accepted suits it, and no reference to a capture fails in a run.          *)
(***************************************************************************)
EXTENDS MockHost, SequenceTheorems, TLAPS

Half == [line : Lines, half : {"head", "tail"}]
InScenario == phase \in {"run", "drain", "kill"}

\* What the pipe and the buffer hold, and the histories.
FlowTypes == /\ buf \in Seq(Half) /\ out \in Seq(Half) /\ pend \in Seq(Half)
             /\ wrote \in Seq(Lines) /\ taken \in Seq(Lines)

\* The line that is being written: its first half may be in the pipe.
Writing(rest) ==
  \/ rest = 0 /\ pend = <<>>
  \/ rest = 0 /\ Len(pend) = 2 /\ pend[1].half = "head" /\ pend[2].half = "tail"
  \/ rest = 1 /\ Len(pend) = 1 /\ pend[1].half = "tail"

\* A flow of halves holds the lines of w behind the first t, and rest halves of another.
Carries(flow, w, t, rest) ==
  /\ rest \in {0, 1}
  /\ t \in 0 .. Len(w) /\ Len(flow) = 2 * (Len(w) - t) + rest
  /\ \A k \in 1 .. Len(w) - t : /\ flow[2 * k] = [line |-> w[t + k], half |-> "tail"]
                                /\ flow[2 * k - 1].half = "head"
  /\ rest = 1 => flow[Len(flow)].half = "head"

\* What was taken is a prefix of what was written; the rest is on its way.
FlowInv ==
  /\ FlowTypes
  /\ \A i \in 1 .. Len(taken) : taken[i] = wrote[i]
  /\ \E rest \in {0, 1} : /\ Carries(buf \o out, wrote, Len(taken), rest)
                          /\ fx = "up" => Writing(rest)
  /\ ~InScenario => fx # "up" /\ buf = <<>> /\ out = <<>> /\ pend = <<>>

\* Nothing is written at the start.
LEMMA FlowInit == Init => FlowInv
<1> SUFFICES ASSUME Init PROVE FlowInv
  OBVIOUS
<1>1. FlowTypes /\ ~InScenario /\ fx # "up"
  BY DEF Init, FlowTypes, InScenario
<1>2. <<>> \o <<>> = <<>>
  BY ConcatEmptySeq DEF Init, FlowTypes
<1>3. Carries(buf \o out, wrote, Len(taken), 0)
  BY <1>2 DEF Init, Carries
<1> QED BY <1>1, <1>3 DEF Init, FlowInv, InScenario

\* A step that moves no text keeps the flow.
LEMMA FlowStays ==
  ASSUME FlowInv, UNCHANGED <<buf, out, wrote, taken>>,
         \/ pend' = pend /\ fx' = fx
         \/ fx' # "up" /\ pend' \in Seq(Half),
         InScenario' \/ (~InScenario /\ fx' = fx /\ pend' = pend)
  PROVE  FlowInv'
<1>1. FlowTypes'
  BY DEF FlowInv, FlowTypes
<1>2. PICK rest \in {0, 1} : Carries(buf \o out, wrote, Len(taken), rest) /\ (fx = "up" => Writing(rest))
  BY DEF FlowInv
<1>3. Carries(buf \o out, wrote, Len(taken), rest)' /\ (fx' = "up" => Writing(rest)')
  BY <1>2 DEF Writing
<1> QED BY <1>1, <1>3 DEF FlowInv, InScenario

\* The tail of a flow that lost its first line carries what is left.
LEMMA CarriesOn ==
  ASSUME NEW S, NEW flow \in Seq(S), NEW next \in Seq(S), NEW w \in Seq(Lines), NEW t \in Nat, NEW rest,
         Carries(flow, w, t, rest), t < Len(w),
         Len(next) = Len(flow) - 2, \A k \in 1 .. Len(next) : next[k] = flow[k + 2]
  PROVE  Carries(next, w, t + 1, rest)
<1>1. /\ Len(w) \in Nat /\ rest \in {0, 1} /\ Len(flow) \in Nat /\ Len(next) \in Nat
      /\ Len(next) = 2 * (Len(w) - (t + 1)) + rest
  BY DEF Carries
<1>2. ASSUME NEW k \in 1 .. Len(w) - (t + 1)
      PROVE  next[2 * k] = [line |-> w[t + 1 + k], half |-> "tail"] /\ next[2 * k - 1].half = "head"
  <2>1. /\ k + 1 \in 1 .. Len(w) - t /\ 2 * k \in 1 .. Len(next) /\ 2 * k - 1 \in 1 .. Len(next)
        /\ 2 * (k + 1) = 2 * k + 2 /\ 2 * (k + 1) - 1 = (2 * k - 1) + 2 /\ t + (k + 1) = t + 1 + k
    BY <1>1
  <2>2. flow[2 * (k + 1)] = [line |-> w[t + (k + 1)], half |-> "tail"] /\ flow[2 * (k + 1) - 1].half = "head"
    BY <2>1 DEF Carries
  <2> QED BY <2>1, <2>2
<1>3. rest = 1 => next[Len(next)].half = "head"
  <2> SUFFICES ASSUME rest = 1 PROVE next[Len(next)].half = "head"
    OBVIOUS
  <2>1. Len(next) \in 1 .. Len(next) /\ Len(next) + 2 = Len(flow)
    BY <1>1
  <2>2. next[Len(next)] = flow[Len(next) + 2]
    BY <2>1
  <2> QED BY <2>1, <2>2 DEF Carries
<1> QED BY <1>1, <1>2, <1>3 DEF Carries

\* The next line is cut where its second half is.
LEMMA CutFlows ==
  ASSUME FlowInv, TakeLine
  PROVE  /\ Line \in Lines /\ taken' = Append(taken, Line)
         /\ FlowTypes' /\ UNCHANGED <<out, wrote, pend, fx>>
         /\ \A i \in 1 .. Len(taken') : taken'[i] = wrote[i]
         /\ \A rest \in {0, 1} : Carries(buf \o out, wrote, Len(taken), rest)
                              => Carries(buf' \o out, wrote, Len(taken'), rest)
<1>1. /\ buf \in Seq(Half) /\ out \in Seq(Half) /\ wrote \in Seq(Lines) /\ taken \in Seq(Lines)
      /\ NewlineAt(buf) # {} /\ CutLine /\ taken' = Append(taken, Line)
      /\ UNCHANGED <<out, wrote, pend, fx>>
  BY DEF FlowInv, FlowTypes, TakeLine, proc
<1>2. PICK i \in DOMAIN buf : buf[i].half = "tail"
  BY <1>1 DEF NewlineAt
<1>3. PICK rest \in {0, 1} : Carries(buf \o out, wrote, Len(taken), rest)
  BY DEF FlowInv
<1> DEFINE flow == buf \o out
<1>4. /\ flow \in Seq(Half) /\ Len(flow) = Len(buf) + Len(out)
      /\ \A k \in 1 .. Len(buf) : flow[k] = buf[k]
      /\ \A k \in 1 .. Len(out) : flow[Len(buf) + k] = out[k]
      /\ Len(buf) \in Nat /\ Len(out) \in Nat /\ DOMAIN buf = 1 .. Len(buf)
  BY <1>1
<1> HIDE DEF flow
<1>5. /\ Len(buf) >= 2 /\ Len(taken) < Len(wrote) /\ buf[1].half = "head"
      /\ buf[2] = [line |-> wrote[Len(taken) + 1], half |-> "tail"]
  <2> DEFINE left == Len(wrote) - Len(taken)
  <2>1. /\ Len(taken) \in 0 .. Len(wrote) /\ Len(flow) = 2 * left + rest /\ Len(wrote) \in Nat
        /\ left \in Nat
        /\ \A k \in 1 .. left : flow[2 * k] = [line |-> wrote[Len(taken) + k], half |-> "tail"]
                                /\ flow[2 * k - 1].half = "head"
        /\ rest = 1 => flow[Len(flow)].half = "head"
    BY <1>1, <1>3 DEF Carries, flow
  <2> HIDE DEF left
  <2>2. i \in 1 .. Len(flow) /\ flow[i].half = "tail" /\ i >= 1
    BY <1>2, <1>4
  <2>3. left >= 1
    BY <2>1, <2>2
  <2>4. flow[1].half = "head" /\ flow[2] = [line |-> wrote[Len(taken) + 1], half |-> "tail"]
    <3>1. 1 \in 1 .. left /\ 2 * 1 = 2 /\ 2 * 1 - 1 = 1
      BY <2>1, <2>3
    <3> QED BY <2>1, <3>1
  <2>5. i # 1
    BY <2>2, <2>4
  <2>6. Len(buf) >= 2
    BY <1>2, <1>4, <2>5
  <2>7. flow[1] = buf[1] /\ flow[2] = buf[2]
    BY <1>4, <2>6
  <2> QED BY <2>1, <2>3, <2>4, <2>6, <2>7 DEF left
<1>6. Min(NewlineAt(buf)) = 2
  <2>1. 2 \in NewlineAt(buf) /\ \A x \in NewlineAt(buf) : x \in Nat /\ x >= 2
    BY <1>4, <1>5 DEF NewlineAt
  <2> QED BY <2>1 DEF Min
<1>7. buf' = SubSeq(buf, 3, Len(buf)) /\ Line = wrote[Len(taken) + 1]
  BY <1>1, <1>5, <1>6 DEF CutLine, Line
<1>8. /\ buf' \in Seq(Half) /\ Len(buf') = Len(buf) - 2
      /\ \A k \in 1 .. Len(buf) - 2 : buf'[k] = buf[k + 2]
  <2>1. \A k \in 3 .. Len(buf) : buf[k] \in Half
    BY <1>1, <1>4
  <2>2. /\ SubSeq(buf, 3, Len(buf)) \in Seq(Half)
        /\ Len(SubSeq(buf, 3, Len(buf))) = IF 3 <= Len(buf) THEN Len(buf) - 3 + 1 ELSE 0
        /\ \A k \in 1 .. Len(buf) - 3 + 1 : SubSeq(buf, 3, Len(buf))[k] = buf[3 + k - 1]
    BY <1>4, <2>1, SubSeqProperties
  <2> QED BY <1>4, <1>5, <1>7, <2>2
<1>9. /\ buf' \o out \in Seq(Half) /\ Len(buf' \o out) = Len(flow) - 2
      /\ \A k \in 1 .. Len(flow) - 2 : (buf' \o out)[k] = flow[k + 2]
  <2>1. /\ buf' \o out \in Seq(Half) /\ Len(buf' \o out) = Len(buf') + Len(out)
        /\ \A k \in 1 .. Len(buf') + Len(out) :
             (buf' \o out)[k] = IF k <= Len(buf') THEN buf'[k] ELSE out[k - Len(buf')]
    BY <1>1, <1>8, ConcatProperties
  <2>2. ASSUME NEW k \in 1 .. Len(flow) - 2 PROVE (buf' \o out)[k] = flow[k + 2]
    <3>1. CASE k <= Len(buf) - 2
      <4>1. (buf' \o out)[k] = buf[k + 2] /\ k + 2 \in 1 .. Len(buf)
        BY <1>4, <1>8, <2>1, <3>1
      <4> QED BY <1>4, <4>1
    <3>2. CASE k > Len(buf) - 2
      <4>1. k - (Len(buf) - 2) \in 1 .. Len(out) /\ Len(buf) + (k - (Len(buf) - 2)) = k + 2
        BY <1>4, <3>2
      <4>2. (buf' \o out)[k] = out[k - (Len(buf) - 2)]
        BY <1>4, <1>8, <2>1, <3>2
      <4> QED BY <1>4, <4>1, <4>2
    <3>3. k <= Len(buf) - 2 \/ k > Len(buf) - 2
      BY <1>4
    <3> QED BY <3>1, <3>2, <3>3
  <2> QED BY <1>4, <1>8, <2>1, <2>2
<1>10. /\ Line \in Lines /\ taken' \in Seq(Lines) /\ Len(taken') = Len(taken) + 1
       /\ \A j \in 1 .. Len(taken') : taken'[j] = wrote[j]
  <2>1. Line \in Lines
    BY <1>1, <1>5, <1>7
  <2>2. \A j \in 1 .. Len(taken) : taken[j] = wrote[j]
    BY DEF FlowInv
  <2> QED BY <1>1, <1>7, <2>1, <2>2
<1>11. ASSUME NEW q \in {0, 1}, Carries(flow, wrote, Len(taken), q)
       PROVE  Carries(buf' \o out, wrote, Len(taken'), q)
  <2>1. /\ Len(taken) \in Nat /\ Len(taken) < Len(wrote) /\ wrote \in Seq(Lines)
        /\ flow \in Seq(Half) /\ Len(taken') = Len(taken) + 1
    BY <1>1, <1>4, <1>5, <1>10
  <2>2. \A k \in 1 .. Len(buf' \o out) : (buf' \o out)[k] = flow[k + 2]
    BY <1>9
  <2> HIDE DEF flow
  <2>3. Carries(buf' \o out, wrote, Len(taken) + 1, q)
    BY <1>9, <1>11, <2>1, <2>2, CarriesOn
  <2> QED BY <2>1, <2>3
<1> QED BY <1>1, <1>8, <1>10, <1>11 DEF FlowInv, FlowTypes, flow

\* Every step of the runner keeps the flow.
LEMMA RunnerFlows ==
  ASSUME FlowInv, Runner
  PROVE  FlowInv'
<1> USE DEF proc, runner, InScenario
<1>1. CASE Query \/ NotRun \/ Finish
  BY <1>1, FlowStays DEF Query, NotRun, Finish
<1>2. CASE Spawn
  <2>1. ~InScenario /\ UNCHANGED <<buf, out, pend, wrote, taken>> /\ phase' = "run"
    BY <1>2 DEF Spawn
  <2>2. buf = <<>> /\ out = <<>> /\ pend = <<>> /\ FlowTypes'
    BY <2>1 DEF FlowInv, FlowTypes
  <2>3. Len(buf \o out) = 0
    BY <2>2, ConcatEmptySeq DEF FlowInv, FlowTypes
  <2>4. PICK rest \in {0, 1} : Carries(buf \o out, wrote, Len(taken), rest)
    BY DEF FlowInv
  <2>5. rest = 0
    BY <2>3, <2>4 DEF Carries, FlowInv, FlowTypes
  <2> QED BY <2>1, <2>2, <2>4, <2>5 DEF FlowInv, Writing
<1>3. CASE StartSend \/ BrokenPipe \/ Sleep \/ Stderr \/ WaitExit \/ AfterSteps
  BY <1>3, FlowStays DEF StartSend, BrokenPipe, Sleep, Stderr, WaitExit, AfterSteps, Ends, Advance, Is
<1>4. CASE Write
  BY <1>4, FlowStays DEF Write, Advance
<1>5. CASE ReadChunk
  <2>1. InScenario /\ phase' = phase /\ buf' = buf \o out /\ out' = <<>> /\ UNCHANGED <<pend, wrote, taken, fx>>
    BY <1>5 DEF ReadChunk, Reading, Is
  <2>2. buf' \in Seq(Half) /\ buf' \o out' = buf \o out
    BY <2>1, ConcatProperties, ConcatEmptySeq DEF FlowInv, FlowTypes
  <2>3. FlowTypes'
    BY <2>1, <2>2 DEF FlowInv, FlowTypes
  <2>4. PICK rest \in {0, 1} : Carries(buf \o out, wrote, Len(taken), rest) /\ (fx = "up" => Writing(rest))
    BY DEF FlowInv
  <2> QED BY <2>1, <2>2, <2>3, <2>4 DEF FlowInv, Writing
<1>6. CASE Closed \/ TimedOut
  BY <1>6, FlowStays DEF Closed, TimedOut, Ends, Advance, Reading, Is
<1>7. CASE TakeLine
  <2>1. InScenario'
    BY <1>7 DEF TakeLine, Reading, Is, Ends, Collect, Expect, Advance
  <2>2. PICK rest \in {0, 1} : Carries(buf \o out, wrote, Len(taken), rest) /\ (fx = "up" => Writing(rest))
    BY DEF FlowInv
  <2>3. FlowTypes' /\ UNCHANGED <<out, wrote, pend, fx>> /\ (\A i \in 1 .. Len(taken') : taken'[i] = wrote[i])
        /\ Carries(buf' \o out, wrote, Len(taken'), rest)
    BY <1>7, <2>2, CutFlows
  <2> QED BY <2>1, <2>2, <2>3 DEF FlowInv, Writing
<1>8. CASE Kill
  <2>1. FlowTypes' /\ ~InScenario' /\ fx' = "none" /\ buf' = <<>> /\ out' = <<>> /\ pend' = <<>>
        /\ wrote' = <<>> /\ taken' = <<>>
    BY <1>8 DEF Kill, FlowTypes, Report
  <2>2. <<>> \o <<>> = <<>>
    BY ConcatEmptySeq DEF FlowInv, FlowTypes
  <2>3. Carries(buf \o out, wrote, Len(taken), 0)'
    BY <2>1, <2>2 DEF Carries
  <2> QED BY <2>1, <2>3 DEF FlowInv
<1> QED BY <1>1, <1>2, <1>3, <1>4, <1>5, <1>6, <1>7, <1>8 DEF Runner

\* What is behind the first of one or two halves.
LEMMA TailOfHalves ==
  ASSUME NEW s \in Seq(Half)
  PROVE  /\ Len(s) = 1 => Tail(s) = <<>>
         /\ Len(s) = 2 => Tail(s) \in Seq(Half) /\ Len(Tail(s)) = 1 /\ Tail(s)[1] = s[2]
<1>1. CASE Len(s) = 1
  <2>1. s # <<>>
    BY <1>1, EmptySeq
  <2>2. Tail(s) \in Seq(Half) /\ Len(Tail(s)) = 0
    BY <1>1, <2>1, HeadTailProperties
  <2>3. \A q \in Seq(Half) : Len(q) = 0 => q = <<>>
    BY EmptySeq
  <2>4. Tail(s) = <<>>
    BY <2>2, <2>3
  <2> QED BY <1>1, <2>4
<1>2. CASE Len(s) = 2
  <2>1. s # <<>>
    BY <1>2, EmptySeq
  <2>2. /\ Tail(s) \in Seq(Half) /\ Len(Tail(s)) = 1
        /\ \A i \in 1 .. Len(Tail(s)) : Tail(s)[i] = s[i + 1]
    BY <1>2, <2>1, HeadTailProperties
  <2> QED BY <1>2, <2>2
<1> QED BY <1>1, <1>2

\* A line in the making goes into the pipe half by half.
LEMMA FlushFlows ==
  ASSUME FlowInv, FxFlush
  PROVE  FlowInv'
<1>1. /\ buf \in Seq(Half) /\ out \in Seq(Half) /\ pend \in Seq(Half) /\ wrote \in Seq(Lines) /\ taken \in Seq(Lines)
      /\ pend # <<>> /\ out' = Append(out, pend[1]) /\ pend' = Tail(pend)
      /\ wrote' = IF Len(pend) = 1 THEN Append(wrote, pend[1].line) ELSE wrote
      /\ fx = "up" /\ UNCHANGED <<buf, taken, fx, phase>>
  BY DEF FlowInv, FlowTypes, FxFlush, Fixture, runner
<1>2. PICK rest \in {0, 1} : Carries(buf \o out, wrote, Len(taken), rest) /\ Writing(rest)
  BY <1>1 DEF FlowInv
<1> DEFINE flow == buf \o out  next == buf' \o out'
<1>3. flow \in Seq(Half) /\ pend[1] \in Half
  BY <1>1
<1>4. next = Append(flow, pend[1])
  <2>1. \A b, o \in Seq(Half), e \in Half : b \o Append(o, e) = Append(b \o o, e)
    BY AppendIsConcat, ConcatAssociative
  <2> QED BY <1>1, <1>3, <2>1
<1>5. /\ Len(next) = Len(flow) + 1 /\ next[Len(flow) + 1] = pend[1]
      /\ \A k \in 1 .. Len(flow) : next[k] = flow[k]
      /\ Len(flow) \in Nat
  BY <1>3, <1>4
<1> HIDE DEF flow, next
<1>9. Carries(flow, wrote, Len(taken), rest)
  BY <1>2 DEF flow
<1>6. /\ Len(taken) \in 0 .. Len(wrote) /\ Len(wrote) \in Nat
      /\ Len(flow) = 2 * (Len(wrote) - Len(taken)) + rest
      /\ \A k \in 1 .. Len(wrote) - Len(taken) :
           flow[2 * k] = [line |-> wrote[Len(taken) + k], half |-> "tail"] /\ flow[2 * k - 1].half = "head"
      /\ rest = 1 => flow[Len(flow)].half = "head"
  BY <1>1, <1>9 DEF Carries
<1>7. CASE rest = 0
  <2>1. Len(pend) = 2 /\ pend[1].half = "head" /\ pend[2].half = "tail" /\ wrote' = wrote
    BY <1>1, <1>2, <1>7 DEF Writing
  <2>2. Len(pend') = 1 /\ pend'[1].half = "tail" /\ pend' \in Seq(Half)
    BY <1>1, <2>1, TailOfHalves
  <2>3. Carries(next, wrote', Len(taken'), 1)
    <3>1. ASSUME NEW k \in 1 .. Len(wrote) - Len(taken)
          PROVE  next[2 * k] = flow[2 * k] /\ next[2 * k - 1] = flow[2 * k - 1]
      <4>1. 2 * k \in 1 .. Len(flow) /\ 2 * k - 1 \in 1 .. Len(flow)
        BY <1>6
      <4> QED BY <1>5, <4>1
    <3>2. Len(next) = 2 * (Len(wrote) - Len(taken)) + 1 /\ next[Len(next)].half = "head"
      BY <1>5, <1>6, <1>7, <2>1
    <3> QED BY <1>1, <1>6, <2>1, <3>1, <3>2 DEF Carries
  <2>4. FlowTypes' /\ Writing(1)'
    <3>1. out' \in Seq(Half)
      BY <1>1, <1>3
    <3> QED BY <1>1, <2>1, <2>2, <3>1 DEF FlowTypes, Writing
  <2> QED BY <1>1, <2>1, <2>3, <2>4 DEF FlowInv, next, InScenario
<1>8. CASE rest = 1
  <2>1. Len(pend) = 1 /\ pend[1].half = "tail" /\ wrote' = Append(wrote, pend[1].line)
    BY <1>1, <1>2, <1>8 DEF Writing
  <2>2. pend' = <<>> /\ pend[1] = [line |-> pend[1].line, half |-> "tail"] /\ pend[1].line \in Lines
    <3>1. pend' = <<>>
      BY <1>1, <2>1, TailOfHalves
    <3>2. \A e \in Half : e = [line |-> e.line, half |-> e.half] /\ e.line \in Lines
      BY DEF Half
    <3> QED BY <1>3, <2>1, <3>1, <3>2
  <2>3. /\ wrote' \in Seq(Lines) /\ Len(wrote') = Len(wrote) + 1 /\ wrote'[Len(wrote) + 1] = pend[1].line
        /\ \A k \in 1 .. Len(wrote) : wrote'[k] = wrote[k]
    BY <1>1, <2>1, <2>2
  <2>4. Carries(next, wrote', Len(taken'), 0)
    <3>1. ASSUME NEW k \in 1 .. Len(wrote') - Len(taken)
          PROVE  next[2 * k] = [line |-> wrote'[Len(taken) + k], half |-> "tail"] /\ next[2 * k - 1].half = "head"
      <4>1. CASE k \in 1 .. Len(wrote) - Len(taken)
        <5>1. 2 * k \in 1 .. Len(flow) /\ 2 * k - 1 \in 1 .. Len(flow) /\ Len(taken) + k \in 1 .. Len(wrote)
          BY <1>6, <1>8, <4>1
        <5> QED BY <1>5, <1>6, <2>3, <4>1, <5>1
      <4>2. CASE k = Len(wrote) - Len(taken) + 1
        <5>1. 2 * k = Len(flow) + 1 /\ 2 * k - 1 = Len(flow) /\ Len(taken) + k = Len(wrote) + 1
              /\ Len(flow) \in 1 .. Len(flow)
          BY <1>5, <1>6, <1>8, <4>2
        <5> QED BY <1>5, <1>6, <1>8, <2>2, <2>3, <5>1
      <4>3. k \in 1 .. Len(wrote) - Len(taken) \/ k = Len(wrote) - Len(taken) + 1
        BY <1>6, <2>3
      <4> QED BY <4>1, <4>2, <4>3
    <3>2. Len(next) = 2 * (Len(wrote') - Len(taken)) + 0 /\ Len(taken) \in 0 .. Len(wrote')
      BY <1>5, <1>6, <1>8, <2>3
    <3> QED BY <1>1, <3>1, <3>2, 0 # 1 DEF Carries
  <2>5. FlowTypes' /\ Writing(0)'
    <3>1. out' \in Seq(Half) /\ <<>> \in Seq(Half)
      BY <1>1, <1>3
    <3> QED BY <1>1, <2>2, <2>3, <3>1 DEF FlowTypes, Writing
  <2>6. \A i \in 1 .. Len(taken') : taken'[i] = wrote'[i]
    BY <1>1, <1>6, <2>3 DEF FlowInv
  <2> QED BY <1>1, <2>4, <2>5, <2>6 DEF FlowInv, next, InScenario
<1> QED BY <1>7, <1>8

\* Every step of the fixture keeps the flow.
LEMMA FixtureFlows ==
  ASSUME FlowInv, FxStep
  PROVE  FlowInv'
<1>1. fx = "up" /\ phase' = phase /\ buf' = buf /\ taken' = taken /\ InScenario
  BY DEF FxStep, FxWrite, FxFlush, FxRead, FxLog, FxExit, Fixture, runner, FlowInv
<1>2. ASSUME NEW l \in Lines, FxWrite(l) PROVE FlowInv'
  <2>1. /\ pend = <<>> /\ pend' = <<[line |-> l, half |-> "head"], [line |-> l, half |-> "tail"]>>
        /\ UNCHANGED <<out, wrote, fx>>
    BY <1>2 DEF FxWrite
  <2>2. pend' \in Seq(Half) /\ Len(pend') = 2 /\ pend'[1].half = "head" /\ pend'[2].half = "tail"
    BY <2>1 DEF Half
  <2>3. PICK rest \in {0, 1} : Carries(buf \o out, wrote, Len(taken), rest) /\ Writing(rest)
    BY <1>1 DEF FlowInv
  <2>4. rest = 0
    BY <2>1, <2>3 DEF Writing, FlowInv, FlowTypes
  <2> QED BY <1>1, <2>1, <2>2, <2>3, <2>4 DEF FlowInv, FlowTypes, Writing, InScenario
<1>3. CASE FxFlush
  BY <1>3, FlushFlows
<1>4. CASE FxRead \/ FxLog
  BY <1>1, <1>4, FlowStays DEF FxRead, FxLog, InScenario
<1>5. ASSUME NEW code \in {"0", "1"}, FxExit(code) PROVE FlowInv'
  BY <1>1, <1>5, FlowStays DEF FxExit, InScenario
<1> QED BY <1>2, <1>3, <1>4, <1>5 DEF FxStep

LEMMA FlowKept == FlowInv /\ [Next]_vars => FlowInv'
<1> SUFFICES ASSUME FlowInv, [Next]_vars PROVE FlowInv'
  OBVIOUS
<1>1. CASE UNCHANGED vars
  BY <1>1 DEF vars, FlowInv, FlowTypes, Writing, InScenario
<1> QED BY <1>1, RunnerFlows, FixtureFlows DEF Next

\* Every line a fixture finished is cut, in the buffer or in the pipe, in the
\* order it was written, however reads and writes cut it up.
THEOREM LinesAreKept == Spec => []NoLineLost
<1>1. FlowInv => NoLineLost
  <2> SUFFICES ASSUME FlowInv
               PROVE  LET flow == buf \o out
                          left == Len(wrote) - Len(taken)
                      IN  /\ Len(flow) - 2 * left \in {0, 1}
                          /\ wrote = taken \o [k \in 1 .. left |-> flow[2 * k].line]
    BY DEF NoLineLost
  <2> DEFINE flow == buf \o out  left == Len(wrote) - Len(taken)  rest == [k \in 1 .. left |-> flow[2 * k].line]
  <2>1. PICK q \in {0, 1} : Carries(flow, wrote, Len(taken), q)
    BY DEF FlowInv
  <2>2. /\ wrote \in Seq(Lines) /\ taken \in Seq(Lines) /\ left \in Nat /\ Len(wrote) = Len(taken) + left
        /\ Len(taken) \in Nat /\ Len(flow) = 2 * left + q
        /\ \A k \in 1 .. left : flow[2 * k].line = wrote[Len(taken) + k]
    <3> HIDE DEF flow
    <3>1. wrote \in Seq(Lines) /\ taken \in Seq(Lines) /\ Len(wrote) \in Nat /\ Len(taken) \in Nat
      BY DEF FlowInv, FlowTypes
    <3>2. /\ Len(taken) \in 0 .. Len(wrote) /\ Len(flow) = 2 * left + q
          /\ \A k \in 1 .. left : flow[2 * k] = [line |-> wrote[Len(taken) + k], half |-> "tail"]
      BY <2>1 DEF Carries
    <3> HIDE DEF rest
    <3>3. \A k \in 1 .. left : flow[2 * k].line = wrote[Len(taken) + k]
      <4> HIDE DEF left
      <4> SUFFICES ASSUME NEW k \in 1 .. left PROVE flow[2 * k].line = wrote[Len(taken) + k]
        OBVIOUS
      <4>1. flow[2 * k] = [line |-> wrote[Len(taken) + k], half |-> "tail"]
        BY <3>2
      <4> QED BY <4>1
    <3> QED BY <3>1, <3>2, <3>3
  <2> HIDE DEF flow, left
  <2>3. rest \in Seq(Lines) /\ Len(rest) = left /\ \A k \in 1 .. left : rest[k] = wrote[Len(taken) + k]
    <3>1. \A k \in 1 .. left : rest[k] = wrote[Len(taken) + k] /\ rest[k] \in Lines
      BY <2>2
    <3> QED BY <2>2, <3>1
  <2> HIDE DEF rest
  <2>4. /\ taken \o rest \in Seq(Lines) /\ Len(taken \o rest) = Len(wrote)
        /\ \A i \in 1 .. Len(wrote) : (taken \o rest)[i] = IF i <= Len(taken) THEN taken[i] ELSE rest[i - Len(taken)]
    BY <2>2, <2>3, ConcatProperties
  <2>5. \A i \in 1 .. Len(wrote) : wrote[i] = (taken \o rest)[i]
    <3> SUFFICES ASSUME NEW i \in 1 .. Len(wrote) PROVE wrote[i] = (taken \o rest)[i]
      OBVIOUS
    <3>1. CASE i <= Len(taken)
      BY <2>2, <2>4, <3>1 DEF FlowInv
    <3>2. CASE i > Len(taken)
      <4>1. i - Len(taken) \in 1 .. left /\ Len(taken) + (i - Len(taken)) = i
        BY <2>2, <3>2
      <4> QED BY <2>2, <2>3, <2>4, <3>2, <4>1
    <3>3. i <= Len(taken) \/ i > Len(taken)
      BY <2>2
    <3> QED BY <3>1, <3>2, <3>3
  <2>6. wrote = taken \o rest
    BY <2>2, <2>4, <2>5, SeqEqual
  <2>7. Len(flow) - 2 * left \in {0, 1}
    BY <2>2
  <2> QED BY <2>6, <2>7 DEF flow, left, rest
<1> QED BY FlowInit, FlowKept, <1>1, PTL DEF Spec
----------------------------------------------------------------------------
(* The steps of a scenario *)

Kinds  == {"send", "expect", "request", "any", "none", "stderr", "sleep", "exit"}
Active == phase \in {"run", "drain"}

\* Where the runner is, and what belongs there.
Shape ==
  /\ n \in Nat \ {0} /\ step \in Nat \ {0} /\ sending \in Nat
  /\ phase \in {"query", "load", "run", "drain", "kill", "quit", "done", "crashed"}
  /\ InScenario => n \in DOMAIN Scenarios /\ Accepted(Scn)
  /\ ~InScenario => step = 1 /\ captures = <<>> /\ got = <<>> /\ verdict = "none" /\ sending = 0
  /\ phase = "drain" => step > Len(Steps) /\ sending = 0 /\ got = <<>>
  /\ phase = "run" /\ sending > 0 => step \in DOMAIN Steps /\ Step.k \in {"send", "request"} /\ got = <<>>
  /\ phase = "run" /\ got # <<>> => /\ step \in DOMAIN Steps /\ Step.k = "any"
                                    /\ got \in Seq(Frames) /\ Len(got) < Len(Step.ps)

\* A scenario is a list of steps of the known kinds.
LEMMA StepsListed ==
  ASSUME NEW m \in DOMAIN Scenarios
  PROVE  /\ Len(Scenarios[m].steps) \in Nat /\ DOMAIN Scenarios[m].steps = 1 .. Len(Scenarios[m].steps)
         /\ \A i \in DOMAIN Scenarios[m].steps :
              LET s == Scenarios[m].steps[i]
              IN  /\ s.k \in Kinds /\ (s.k = "send" => s.size \in Nat \ {0})
                  /\ s.k = "any" => Len(s.ps) \in Nat \ {0}
                  /\ s.k \in {"expect", "request", "any"} => s \in Waits
                  /\ s.k \in Kinds \ {"expect", "request", "any"} => Patterns(s) = {}
                  /\ s.k \in Kinds \ {"send", "request"} => Outgoing(s) = {}
<1> DEFINE steps == Scenarios[m].steps
<1>1. IsList(steps)
  BY HostAssumption DEF HostAssumption
<1>2. Len(steps) \in Nat /\ DOMAIN steps = 1 .. Len(steps)
  BY <1>1, LenProperties DEF IsList
<1>3. ASSUME NEW i \in DOMAIN steps
      PROVE  LET s == steps[i]
             IN  /\ s.k \in Kinds /\ (s.k = "send" => s.size \in Nat \ {0})
                 /\ s.k = "any" => Len(s.ps) \in Nat \ {0}
                 /\ s.k \in {"expect", "request", "any"} => s \in Waits
                 /\ s.k \in Kinds \ {"expect", "request", "any"} => Patterns(s) = {}
                 /\ s.k \in Kinds \ {"send", "request"} => Outgoing(s) = {}
  <2> DEFINE s == steps[i]
  <2>1. /\ s.k \in Kinds /\ (s.k = "send" => s.size \in Nat \ {0})
        /\ s.k = "any" => IsList(s.ps) /\ s.ps # <<>>
    BY HostAssumption DEF HostAssumption, Kinds
  <2>2. s.k = "any" => Len(s.ps) \in Nat \ {0}
    BY <2>1, EmptySeq DEF IsList
  <2>3. s \in UNION {ToSet(scn.steps) : scn \in ToSet(Scenarios)}
    BY DEF ToSet
  <2> HIDE DEF s
  <2>4. s.k \in {"expect", "request"} => Patterns(s) = {s.p}
    BY DEF Patterns
  <2>5. s.k = "any" => Patterns(s) # {}
    <3> SUFFICES ASSUME s.k = "any" PROVE Patterns(s) # {}
      OBVIOUS
    <3>1. Patterns(s) = ToSet(s.ps)
      BY DEF Patterns
    <3>2. 1 \in DOMAIN s.ps
      BY <2>1, <2>2, LenProperties DEF IsList
    <3> QED BY <3>1, <3>2 DEF ToSet
  <2>6. s.k \in {"expect", "request", "any"} => s \in Waits
    BY <2>3, <2>4, <2>5 DEF Waits
  <2>7. s.k \in Kinds \ {"expect", "request", "any"} => Patterns(s) = {}
    BY DEF Patterns, Kinds
  <2>8. s.k \in Kinds \ {"send", "request"} => Outgoing(s) = {}
    BY DEF Outgoing, Kinds
  <2> QED BY <2>1, <2>2, <2>6, <2>7, <2>8 DEF s
<1> QED BY <1>2, <1>3

\* The running step got the frames it wants, and they match.
Matched ==
  /\ phase = "run" /\ sending = 0 /\ step \in DOMAIN Steps /\ Step \in Waits
  /\ Append(got, Line) \in [1 .. Wanted(Step) -> Frames] /\ got' = <<>>
  /\ took' = [took EXCEPT ![step] = Append(took[step], Line)]
  /\ \E r \in Results(Step, Append(got, Line), captures) :
       /\ r.ok /\ captures' = r.c
       /\ \/ Advance /\ sending' = 0
          \/ Step.k = "request" /\ sending' = 1 /\ UNCHANGED <<phase, step, verdict>>
          \/ Step.k = "request" /\ Ends("KeyError") /\ sending' = 0 /\ ~(Names(Outgoing(Step)) \subseteq DOMAIN r.c)

\* It got one more of several.
Collected ==
  /\ phase = "run" /\ sending = 0 /\ step \in DOMAIN Steps /\ Step.k = "any"
  /\ got' = Append(got, Line) /\ got' \in Seq(Frames) /\ Len(got') < Len(Step.ps)
  /\ took' = [took EXCEPT ![step] = Append(took[step], Line)]
  /\ UNCHANGED <<phase, step, verdict, sending, captures>>

\* What becomes of a line.
LEMMA TakeCases ==
  ASSUME FlowInv, Shape, TakeLine
  PROVE  \/ UNCHANGED <<phase, step, verdict, sending, captures, got, took>>
         \/ Ends("AssertionError") /\ UNCHANGED sending
         \/ Collected
         \/ Matched
<1>1. Line \in Lines /\ Active /\ InScenario
  BY CutFlows DEF TakeLine, Reading, Is, Active, InScenario
<1>2. CASE Line = Blank /\ UNCHANGED <<phase, step, verdict, sending, captures, got>>
  BY <1>2 DEF TakeLine, Blank
<1>3. CASE Ends("AssertionError") /\ UNCHANGED <<sending, captures, got>>
  BY <1>3
<1>4. ASSUME Line.t = "obj", Is({"any", "expect", "request"})
      PROVE  /\ phase = "run" /\ sending = 0 /\ step \in DOMAIN Steps /\ Step \in Waits /\ Line \in Frames
             /\ took' = [took EXCEPT ![step] = Append(took[step], Line)]
             /\ Step.k = "any" => Len(Step.ps) \in Nat \ {0}
             /\ Step.k # "any" => got = <<>> /\ Outgoing(Step) \in {{}, {Step.reply}}
             /\ Step.k = "expect" => Outgoing(Step) = {}
  <2>1. phase = "run" /\ sending = 0 /\ step \in DOMAIN Steps /\ Step.k \in {"any", "expect", "request"}
    BY <1>4 DEF Is
  <2>2. Step \in Waits /\ (Step.k = "any" => Len(Step.ps) \in Nat \ {0}) /\ (Step.k = "expect" => Outgoing(Step) = {})
    BY <1>1, <2>1, StepsListed DEF Shape, Scn, Steps, Step, Kinds
  <2>3. Step.k = "request" => Outgoing(Step) \in {{}, {Step.reply}}
    BY DEF Outgoing
  <2> QED BY <1>1, <1>4, <2>1, <2>2, <2>3 DEF TakeLine, Frames, Shape
<1>5. CASE Line.t = "obj" /\ Is({"any"}) /\ Collect(Append(got, Line)) /\ UNCHANGED sending
  <2>1. Step.k = "any" /\ Is({"any", "expect", "request"})
    BY <1>5 DEF Is
  <2>2. /\ got \in Seq(Frames) /\ Len(got) < Len(Step.ps) /\ Len(got) \in Nat
        /\ Append(got, Line) \in Seq(Frames) /\ Len(Append(got, Line)) = Len(got) + 1
    <3>1. phase = "run" /\ Line \in Frames /\ Len(Step.ps) \in Nat \ {0}
      BY <1>4, <1>5, <2>1
    <3>2. <<>> \in Seq(Frames) /\ Len(<<>>) = 0
      BY EmptySeq
    <3>3. got \in Seq(Frames) /\ Len(got) < Len(Step.ps)
      <4>1. CASE got = <<>>
        BY <3>1, <3>2, <4>1
      <4>2. CASE got # <<>>
        BY <3>1, <4>2 DEF Shape
      <4> QED BY <4>1, <4>2
    <3> QED BY <3>1, <3>3
  <2>3. CASE Len(Append(got, Line)) < Len(Step.ps)
    BY <1>4, <1>5, <2>1, <2>2, <2>3 DEF Collect, Collected
  <2>4. CASE ~(Len(Append(got, Line)) < Len(Step.ps))
    <3>1. Len(Append(got, Line)) = Len(Step.ps)
      BY <1>4, <1>5, <2>1, <2>2, <2>4
    <3>2. Append(got, Line) \in [1 .. Wanted(Step) -> Frames]
      BY <2>1, <2>2, <3>1, LenProperties DEF Wanted
    <3>3. PICK r \in MatchAnyOrder(Step.ps, Append(got, Line), captures) :
            got' = <<>> /\ captures' = r.c /\ IF r.ok THEN Advance ELSE Ends("AssertionError")
      BY <1>5, <2>4 DEF Collect
    <3>4. r \in Results(Step, Append(got, Line), captures)
      BY <2>1 DEF Results
    <3> QED BY <1>4, <1>5, <2>1, <3>2, <3>3, <3>4 DEF Matched
  <2> QED BY <2>3, <2>4
<1>6. CASE Line.t = "obj" /\ Is({"expect", "request"})
           /\ \E r \in Match(Step.p, Line, captures) : Expect(r) /\ UNCHANGED got
  <2>1. Step.k \in {"expect", "request"} /\ Is({"any", "expect", "request"})
    BY <1>6 DEF Is
  <2>2. PICK r \in Match(Step.p, Line, captures) : Expect(r) /\ UNCHANGED got
    BY <1>6
  <2>3. CASE ~r.ok
    BY <2>2, <2>3 DEF Expect
  <2>4. CASE r.ok
    <3>1. got = <<>> /\ Append(got, Line) = <<Line>> /\ <<Line>>[1] = Line
      <4>1. got = <<>>
        BY <1>4, <1>6, <2>1
      <4> QED BY <4>1
    <3>2. r \in Results(Step, Append(got, Line), captures)
      BY <2>1, <2>2, <3>1 DEF Results
    <3>3. Append(got, Line) \in [1 .. Wanted(Step) -> Frames]
      BY <1>4, <1>6, <2>1, <3>1 DEF Wanted
    <3>4. CASE Outgoing(Step) = {}
      BY <1>4, <1>6, <2>1, <2>2, <2>4, <3>1, <3>2, <3>3, <3>4 DEF Expect, Matched
    <3>5. CASE Outgoing(Step) # {}
      <4>1. Outgoing(Step) = {Step.reply} /\ Step.k = "request"
        BY <1>4, <1>6, <2>1, <3>5
      <4>2. Names(Outgoing(Step)) = CapturesOf(Step.reply)
        BY <4>1 DEF Names
      <4>3. CASE Unbound(Step.reply, r.c)
        <5>1. Ends("KeyError") /\ sending' = sending /\ captures' = r.c /\ ~(Names(Outgoing(Step)) \subseteq DOMAIN r.c)
          BY <2>2, <2>4, <3>5, <4>2, <4>3 DEF Expect, Unbound
        <5> QED BY <1>4, <1>6, <2>1, <2>2, <2>4, <3>1, <3>2, <3>3, <4>1, <5>1 DEF Matched
      <4>4. CASE ~Unbound(Step.reply, r.c)
        <5>1. captures' = r.c /\ sending' = 1 /\ UNCHANGED <<phase, step, verdict>>
          BY <2>2, <2>4, <3>5, <4>4 DEF Expect
        <5> QED BY <1>4, <1>6, <2>1, <2>2, <2>4, <3>1, <3>2, <3>3, <4>1, <5>1 DEF Matched
      <4> QED BY <4>3, <4>4
    <3> QED BY <3>4, <3>5
  <2> QED BY <2>3, <2>4
<1> QED BY <1>2, <1>3, <1>5, <1>6 DEF TakeLine

\* The runner begins before the first scenario.
LEMMA ShapeInit == Init => Shape
  BY DEF Init, Shape, InScenario

\* A step that Ends leaves a scenario in its last phase.
LEMMA EndsShape ==
  ASSUME Shape, Active, NEW v, Ends(v), n' = n, sending' \in Nat
  PROVE  Shape'
  BY DEF Shape, Active, Ends, InScenario, Scn

\* A step that advances has the next one before it, with no frames yet.
LEMMA AdvanceShape ==
  ASSUME Shape, phase = "run", Advance, n' = n, sending' = 0, got' = <<>>
  PROVE  Shape'
<1>1. step + 1 \in Nat \ {0}
  BY DEF Shape
<1> QED BY <1>1 DEF Shape, Advance, InScenario, Scn

\* Every step keeps the shape.
LEMMA ShapeKept ==
  ASSUME FlowInv, Shape, [Next]_vars
  PROVE  Shape'
<1> USE DEF proc, runner
<1>1. CASE UNCHANGED vars \/ FxStep \/ ReadChunk
  <2>1. UNCHANGED <<n, phase, step, verdict, sending, captures, got>>
    BY <1>1 DEF vars, FxStep, FxWrite, FxFlush, FxRead, FxLog, FxExit, Fixture, ReadChunk
  <2> QED BY <2>1 DEF Shape, InScenario, Scn, Steps, Step
<1>2. CASE Query \/ Finish
  BY <1>2 DEF Query, Finish, Shape, InScenario
<1>3. CASE NotRun
  BY <1>3 DEF NotRun, Report, Shape, InScenario
<1>4. CASE Spawn
  <2>1. n \in DOMAIN Scenarios
    <3>1. n \in 1 .. Len(Scenarios)
      BY <1>4, HostAssumption, LenProperties DEF Spawn, Shape, HostAssumption, IsList
    <3> QED BY <3>1, HostAssumption, LenProperties DEF HostAssumption, IsList
  <2> QED BY <1>4, <2>1 DEF Spawn, Shape, InScenario, Scn
<1>5. CASE StartSend
  <2>1. Active /\ InScenario /\ n \in DOMAIN Scenarios /\ step \in DOMAIN Steps /\ Step.k = "send" /\ phase = "run"
    BY <1>5 DEF StartSend, Is, Active, InScenario, Shape
  <2>2. Step.size \in Nat \ {0}
    BY <2>1, StepsListed DEF Scn, Steps, Step
  <2>3. got = <<>>
    BY <2>1 DEF Shape
  <2>4. CASE Ends("KeyError") /\ UNCHANGED sending
    BY <1>5, <2>1, <2>4, EndsShape DEF StartSend, Shape
  <2>5. CASE sending' = Step.size /\ UNCHANGED <<phase, step, verdict>>
    BY <1>5, <2>1, <2>2, <2>3, <2>5 DEF StartSend, Shape, InScenario, Scn, Steps, Step
  <2> QED BY <1>5, <2>4, <2>5 DEF StartSend
<1>6. CASE Write
  <2>1. phase = "run" /\ sending > 0 /\ got = <<>> /\ sending' = sending - 1 /\ UNCHANGED <<n, got, captures>>
    BY <1>6 DEF Write, Shape
  <2>2. CASE sending = 1
    BY <1>6, <2>1, <2>2, AdvanceShape DEF Write
  <2>3. CASE sending # 1
    BY <1>6, <2>1, <2>3 DEF Write, Shape, InScenario, Scn, Steps, Step
  <2> QED BY <2>2, <2>3
<1>7. CASE BrokenPipe \/ Closed
  BY <1>7, EndsShape DEF BrokenPipe, Closed, Reading, Is, Active, Shape
<1>8. CASE Sleep \/ Stderr \/ WaitExit
  <2>1. phase = "run" /\ sending = 0 /\ got = <<>> /\ UNCHANGED <<n, sending, got>> /\ (Advance \/ Ends("AssertionError"))
    BY <1>8 DEF Sleep, Stderr, WaitExit, Is, Shape
  <2> QED BY <2>1, AdvanceShape, EndsShape DEF Active, Shape
<1>9. CASE AfterSteps
  <2>1. phase = "run" /\ step > Len(Steps) /\ UNCHANGED <<n, sending, got, captures>>
    BY <1>9 DEF AfterSteps
  <2>2. step \notin DOMAIN Steps
    <3>1. n \in DOMAIN Scenarios
      BY <2>1 DEF Shape, InScenario
    <3>2. Len(Steps) \in Nat /\ DOMAIN Steps = 1 .. Len(Steps)
      BY <3>1, StepsListed DEF Steps, Scn
    <3> QED BY <2>1, <3>2 DEF Shape
  <2>3. sending = 0 /\ got = <<>>
    BY <2>1, <2>2 DEF Shape
  <2>4. CASE Ends("passed")
    BY <2>1, <2>3, <2>4, EndsShape DEF Active, Shape
  <2>5. CASE phase' = "drain" /\ UNCHANGED <<step, verdict>>
    BY <2>1, <2>3, <2>5 DEF Shape, InScenario, Scn, Steps, Step
  <2> QED BY <1>9, <2>4, <2>5 DEF AfterSteps
<1>10. CASE TimedOut
  <2>1. Active /\ UNCHANGED <<n, sending, got, captures>>
        /\ (Ends("passed") \/ Ends("TimeoutError") \/ (Is({"none"}) /\ Advance))
    BY <1>10 DEF TimedOut, Reading, Is, Active
  <2>2. CASE Is({"none"}) /\ Advance
    BY <2>1, <2>2, AdvanceShape DEF Is, Shape
  <2> QED BY <2>1, <2>2, EndsShape DEF Shape
<1>11. CASE TakeLine
  <2>1. n' = n /\ Active
    BY <1>11 DEF TakeLine, Reading, Is, Active
  <2>2. CASE UNCHANGED <<phase, step, verdict, sending, captures, got, took>>
    BY <2>1, <2>2 DEF Shape, InScenario, Scn, Steps, Step
  <2>3. CASE Ends("AssertionError") /\ UNCHANGED sending
    BY <2>1, <2>3, EndsShape DEF Shape
  <2>4. CASE Collected
    BY <2>1, <2>4 DEF Collected, Shape, InScenario, Scn, Steps, Step
  <2>5. CASE Matched
    <3>1. phase = "run" /\ step \in DOMAIN Steps /\ got' = <<>> /\ sending = 0
      BY <2>5 DEF Matched
    <3>2. CASE Advance /\ sending' = 0
      BY <2>1, <3>1, <3>2, AdvanceShape
    <3>3. CASE Step.k = "request" /\ sending' = 1 /\ UNCHANGED <<phase, step, verdict>>
      BY <2>1, <3>1, <3>3 DEF Shape, InScenario, Scn, Steps, Step
    <3>4. CASE Ends("KeyError") /\ sending' = 0
      BY <2>1, <3>4, EndsShape
    <3> QED BY <2>5, <3>2, <3>3, <3>4 DEF Matched
  <2> QED BY <1>11, <2>2, <2>3, <2>4, <2>5, TakeCases
<1>12. CASE Kill
  BY <1>12 DEF Kill, Report, Shape, InScenario
<1> QED BY <1>1, <1>2, <1>3, <1>4, <1>5, <1>6, <1>7, <1>8, <1>9, <1>10, <1>11, <1>12 DEF Next, Runner
----------------------------------------------------------------------------
(* No reference to a capture fails in a run *)

\* The steps before step i, and i itself once its frames have matched.
Done(i) == i < step \/ (i = step /\ sending > 0)

\* What the validator counted as bound is bound.
BoundInv ==
  /\ Active => captures \in Bindings
  /\ phase = "run" => \A i \in DOMAIN Steps : Done(i) => Names(Patterns(Steps[i])) \subseteq DOMAIN captures
  /\ verdict # "KeyError"

\* A step that goes by without a pattern needs no capture.
LEMMA AdvanceBinds ==
  ASSUME Shape, BoundInv, phase = "run", Advance, n' = n, sending' = 0, captures' = captures,
         step \in DOMAIN Steps => sending > 0 \/ Patterns(Step) = {}
  PROVE  BoundInv'
<1>1. Steps' = Steps /\ phase' = "run" /\ step' = step + 1 /\ verdict' = verdict /\ step \in Nat
  BY DEF Advance, Steps, Scn, Shape
<1>2. ASSUME NEW i \in DOMAIN Steps, Done(i)' PROVE Names(Patterns(Steps[i])) \subseteq DOMAIN captures
  <2>1. n \in DOMAIN Scenarios
    BY DEF Shape, InScenario
  <2>2. i \in Nat
    BY <2>1, StepsListed DEF Steps, Scn
  <2>3. i < step \/ i = step
    BY <1>1, <1>2, <2>2 DEF Done
  <2>4. CASE Done(i)
    BY <2>4 DEF BoundInv
  <2>5. CASE i = step /\ Patterns(Step) = {}
    BY <2>5 DEF Names, Step
  <2> QED BY <2>3, <2>4, <2>5 DEF Done
<1> QED BY <1>1, <1>2 DEF BoundInv, Active

\* What a step sends refers to bound captures only.
LEMMA SentIsBound ==
  ASSUME Shape, BoundInv, phase = "run", step \in DOMAIN Steps,
         NEW c, DOMAIN captures \cup Names(Patterns(Step)) \subseteq DOMAIN c
  PROVE  Names(Outgoing(Step)) \subseteq DOMAIN c
<1>1. n \in DOMAIN Scenarios /\ Accepted(Scn) /\ step \in Nat
  BY DEF Shape, InScenario
<1>2. DOMAIN Steps = 1 .. Len(Steps) /\ Len(Steps) \in Nat
  BY <1>1, StepsListed DEF Steps, Scn
<1>3. Names(Outgoing(Step)) \subseteq BoundAt(Steps, step)
  BY <1>1 DEF Accepted, Steps, Step
<1>4. \A j \in 1 .. step : Names(Patterns(Steps[j])) \subseteq DOMAIN c
  <2> SUFFICES ASSUME NEW j \in 1 .. step PROVE Names(Patterns(Steps[j])) \subseteq DOMAIN c
    OBVIOUS
  <2>1. CASE j = step
    BY <2>1 DEF Step
  <2>2. CASE j < step
    <3>1. j \in DOMAIN Steps
      BY <1>1, <1>2, <2>2
    <3> QED BY <2>2, <3>1 DEF BoundInv, Done
  <2> QED BY <1>1, <2>1, <2>2
<1>5. BoundAt(Steps, step) \subseteq DOMAIN c
  BY <1>4 DEF BoundAt
<1> QED BY <1>3, <1>5

LEMMA BoundInit == Init => BoundInv
  BY DEF Init, BoundInv, Active

\* No step of a runner whose matcher binds what it matches leaves a reference unbound.
LEMMA BoundKept ==
  ASSUME MatcherBinds, FlowInv, Shape, BoundInv, [Next]_vars
  PROVE  BoundInv'
<1> USE DEF proc, runner
<1>1. CASE UNCHANGED vars \/ FxStep \/ ReadChunk
  <2>1. UNCHANGED <<n, phase, step, verdict, sending, captures>>
    BY <1>1 DEF vars, FxStep, FxWrite, FxFlush, FxRead, FxLog, FxExit, Fixture, ReadChunk
  <2> QED BY <2>1 DEF BoundInv, Active, Done, Scn, Steps
<1>2. CASE Query \/ Finish \/ NotRun \/ Kill
  <2>1. ~Active' /\ verdict' # "KeyError"
    BY <1>2 DEF Query, Finish, NotRun, Kill, BoundInv, Active
  <2> QED BY <2>1 DEF BoundInv, Active
<1>3. CASE Spawn
  <2>1. /\ captures' = <<>> /\ step' = 1 /\ sending' = 0 /\ n' = n /\ verdict' = verdict /\ n' \in DOMAIN Scenarios
    <3>1. Shape'
      BY <1>3, ShapeKept DEF Next, Runner
    <3> QED BY <1>3, <3>1 DEF Spawn, Shape, InScenario
  <2>2. \A i \in DOMAIN Steps' : i \in Nat /\ i >= 1
    BY <2>1, StepsListed DEF Steps, Scn
  <2>3. \A i \in DOMAIN Steps' : ~Done(i)'
    BY <2>1, <2>2 DEF Done
  <2> QED BY <2>1, <2>3, HostAssumption DEF BoundInv, HostAssumption
<1>4. CASE StartSend
  <2>1. phase = "run" /\ step \in DOMAIN Steps /\ Step.k = "send" /\ UNCHANGED <<n, captures>> /\ n \in DOMAIN Scenarios
    BY <1>4 DEF StartSend, Is, Shape, InScenario
  <2>2. Patterns(Step) = {} /\ Step.k \in Kinds
    BY <2>1, StepsListed DEF Steps, Scn, Step, Kinds
  <2>3. Names(Patterns(Step)) = {}
    BY <2>2 DEF Names
  <2>4. Names(Outgoing(Step)) \subseteq DOMAIN captures
    BY <2>1, <2>3, SentIsBound
  <2>5. Outgoing(Step) = {Step.f}
    BY <2>1 DEF Outgoing
  <2>6. ~Unbound(Step.f, captures)
    BY <2>4, <2>5 DEF Names, Unbound
  <2>7. UNCHANGED <<phase, step, verdict>>
    BY <1>4, <2>6 DEF StartSend
  <2>8. Steps' = Steps
    BY <2>1 DEF Steps, Scn
  <2>9. \A i \in DOMAIN Steps : Done(i)' => Done(i) \/ i = step
    BY <2>7 DEF Done
  <2> QED BY <2>1, <2>3, <2>7, <2>8, <2>9 DEF BoundInv, Active, Step
<1>5. CASE Write
  <2>1. phase = "run" /\ sending > 0 /\ sending \in Nat /\ sending' = sending - 1 /\ UNCHANGED <<n, captures>>
    BY <1>5 DEF Write, Shape
  <2>2. CASE sending = 1
    BY <1>5, <2>1, <2>2, AdvanceBinds DEF Write
  <2>3. CASE sending # 1
    <3>1. UNCHANGED <<phase, step, verdict>>
      BY <1>5, <2>3 DEF Write
    <3> QED BY <2>1, <3>1 DEF BoundInv, Active, Done, Steps, Scn
  <2> QED BY <2>2, <2>3
<1>6. CASE BrokenPipe \/ Closed
  BY <1>6 DEF BrokenPipe, Closed, Ends, BoundInv, Active
<1>7. CASE Sleep \/ Stderr \/ WaitExit
  <2>1. /\ phase = "run" /\ sending = 0 /\ step \in DOMAIN Steps /\ n \in DOMAIN Scenarios
        /\ Step.k \in {"sleep", "stderr", "exit"} /\ UNCHANGED <<n, sending, captures>>
        /\ Advance \/ Ends("AssertionError")
    BY <1>7 DEF Sleep, Stderr, WaitExit, Is, Shape, InScenario
  <2>2. Patterns(Step) = {}
    BY <2>1, StepsListed DEF Steps, Scn, Step, Kinds
  <2>3. CASE Advance
    BY <2>1, <2>2, <2>3, AdvanceBinds
  <2>4. CASE Ends("AssertionError")
    BY <2>4 DEF Ends, BoundInv, Active
  <2> QED BY <2>1, <2>3, <2>4
<1>8. CASE AfterSteps
  <2>1. Ends("passed") \/ (phase' = "drain" /\ UNCHANGED <<captures, verdict>>)
    BY <1>8 DEF AfterSteps
  <2>2. phase = "run"
    BY <1>8 DEF AfterSteps
  <2> QED BY <2>1, <2>2 DEF Ends, BoundInv, Active
<1>9. CASE TimedOut
  <2>1. UNCHANGED <<n, sending, captures>>
        /\ (Ends("passed") \/ Ends("TimeoutError") \/ (Is({"none"}) /\ Advance))
    BY <1>9 DEF TimedOut
  <2>2. CASE Is({"none"}) /\ Advance
    <3>1. phase = "run" /\ sending = 0 /\ step \in DOMAIN Steps /\ Step.k = "none" /\ n \in DOMAIN Scenarios
      BY <2>2 DEF Is, Shape, InScenario
    <3>2. Patterns(Step) = {}
      BY <3>1, StepsListed DEF Steps, Scn, Step, Kinds
    <3> QED BY <2>1, <2>2, <3>1, <3>2, AdvanceBinds
  <2> QED BY <2>1, <2>2 DEF Ends, BoundInv, Active
<1>10. CASE TakeLine
  <2>1. n' = n /\ Active
    BY <1>10 DEF TakeLine, Reading, Is, Active
  <2>2. CASE UNCHANGED <<phase, step, verdict, sending, captures>>
    BY <2>1, <2>2 DEF BoundInv, Active, Done, Scn, Steps
  <2>3. CASE Ends("AssertionError")
    BY <2>3 DEF Ends, BoundInv, Active
  <2>4. CASE Matched
    <3>1. /\ phase = "run" /\ sending = 0 /\ step \in DOMAIN Steps /\ Step \in Waits
          /\ Append(got, Line) \in [1 .. Wanted(Step) -> Frames]
      BY <2>4 DEF Matched
    <3>2. PICK r \in Results(Step, Append(got, Line), captures) :
            /\ r.ok /\ captures' = r.c
            /\ \/ Advance /\ sending' = 0
               \/ Step.k = "request" /\ sending' = 1 /\ UNCHANGED <<phase, step, verdict>>
               \/ Step.k = "request" /\ Ends("KeyError") /\ ~(Names(Outgoing(Step)) \subseteq DOMAIN r.c)
      BY <2>4 DEF Matched
    <3>3. captures \in Bindings
      BY <2>1 DEF BoundInv
    <3>4. r.c \in Bindings /\ Names(Patterns(Step)) \cup DOMAIN captures \subseteq DOMAIN r.c
      BY <3>1, <3>2, <3>3 DEF MatcherBinds
    <3>5. Names(Outgoing(Step)) \subseteq DOMAIN r.c
      BY <3>1, <3>4, SentIsBound
    <3>6. Steps' = Steps /\ step \in Nat /\ \A i \in DOMAIN Steps : i \in Nat
      <4>1. n \in DOMAIN Scenarios
        BY <3>1 DEF Shape, InScenario
      <4> QED BY <2>1, <4>1, StepsListed DEF Steps, Scn, Shape
    <3>7. \A i \in DOMAIN Steps : Done(i)' => Done(i) \/ i = step
      BY <3>1, <3>2, <3>5, <3>6 DEF Done, Advance
    <3>8. phase' = "run" /\ verdict' = verdict
      BY <3>1, <3>2, <3>5 DEF Advance
    <3>9. \A i \in DOMAIN Steps : Done(i)' => Names(Patterns(Steps[i])) \subseteq DOMAIN captures'
      BY <3>1, <3>2, <3>4, <3>7 DEF BoundInv, Step
    <3> QED BY <3>2, <3>4, <3>6, <3>8, <3>9 DEF BoundInv
  <2> QED BY <1>10, <2>2, <2>3, <2>4, TakeCases DEF Collected
<1> QED BY <1>1, <1>2, <1>3, <1>4, <1>5, <1>6, <1>7, <1>8, <1>9, <1>10 DEF Next, Runner

\* When a match binds every capture of its patterns, no reference to a capture
\* fails in a run: the validator has seen it before.
THEOREM ReferencesAreCaught == ASSUME MatcherBinds PROVE Spec => []CaughtAtLoad
<1>1. Init => FlowInv /\ Shape /\ BoundInv
  BY FlowInit, ShapeInit, BoundInit
<1>2. FlowInv /\ Shape /\ BoundInv /\ [Next]_vars => (FlowInv /\ Shape /\ BoundInv)'
  BY FlowKept, ShapeKept, BoundKept
<1>3. BoundInv => CaughtAtLoad
  BY DEF BoundInv, CaughtAtLoad
<1> QED BY <1>1, <1>2, <1>3, PTL DEF Spec
----------------------------------------------------------------------------
(* What was accepted suits what was expected *)

\* The step got these frames and they match, whatever the free captures turn out to stand for.
Suited(i) == \A b \in Bindings : Extends(b, captures, Patterns(Steps[i])) => Suits(Steps[i], took[i], b)

\* Every step that is done is suited; the running one has what it has collected.
MatchInv ==
  Active =>
    /\ captures \in Bindings /\ DOMAIN took = DOMAIN Steps
    /\ \A i \in DOMAIN Steps : /\ i > step => took[i] = <<>>
                               /\ (i = step /\ sending = 0) => took[i] = got
                               /\ Done(i) => Suited(i)

\* Extending is transitive.
LEMMA ExtendsMore ==
  ASSUME NEW b, NEW c, NEW d, NEW ps, Extends(c, d, {}), Extends(b, c, ps)
  PROVE  Extends(b, d, ps)
  BY DEF Extends

\* A step that goes by without a pattern is suited by what it has.
LEMMA PlainSuits ==
  ASSUME NEW s, NEW frames, NEW b, s.k \in Kinds \ {"expect", "request", "any"}
  PROVE  Suits(s, frames, b)
  BY DEF Suits, Kinds

\* Advancing over a step that is suited.
LEMMA AdvanceSuits ==
  ASSUME Shape, MatchInv, phase = "run", Advance, n' = n, sending' = 0, captures' = captures,
         got' = <<>>, took' = took,
         step \in DOMAIN Steps => sending > 0 \/ Step.k \in Kinds \ {"expect", "request", "any"}
  PROVE  MatchInv'
<1>1. Steps' = Steps /\ phase' = "run" /\ step' = step + 1 /\ step \in Nat /\ Active /\ Active'
  BY DEF Advance, Steps, Scn, Shape, Active
<1>2. \A i \in DOMAIN Steps : i \in Nat
  <2>1. n \in DOMAIN Scenarios
    BY DEF Shape, InScenario
  <2> QED BY <2>1, StepsListed DEF Steps, Scn
<1>3. ASSUME NEW i \in DOMAIN Steps
      PROVE  /\ i > step' => took'[i] = <<>>
             /\ i = step' => took'[i] = got'
             /\ Done(i)' => Suited(i)'
  <2>1. (i > step' => took'[i] = <<>>) /\ (i = step' => took'[i] = got')
    BY <1>1, <1>2 DEF MatchInv
  <2>2. Done(i)' => Done(i) \/ i = step
    BY <1>1, <1>2 DEF Done
  <2>3. Suited(i) => Suited(i)'
    BY <1>1 DEF Suited
  <2>4. CASE Done(i)
    BY <1>1, <2>1, <2>3, <2>4 DEF MatchInv
  <2>5. CASE i = step /\ Step.k \in Kinds \ {"expect", "request", "any"}
    BY <1>1, <2>1, <2>3, <2>5, PlainSuits DEF Suited, Step
  <2> QED BY <2>1, <2>2, <2>4, <2>5 DEF Done
<1> QED BY <1>1, <1>3 DEF MatchInv

LEMMA MatchInit == Init => MatchInv
  BY DEF Init, MatchInv, Active

\* A match is kept by what a sound matcher binds later.
LEMMA MatchedKeeps ==
  ASSUME MatcherSound, Shape, MatchInv, n' = n, Matched
  PROVE  MatchInv'
<1>1. /\ phase = "run" /\ sending = 0 /\ step \in DOMAIN Steps /\ Step \in Waits /\ got' = <<>>
      /\ Append(got, Line) \in [1 .. Wanted(Step) -> Frames] /\ Active
      /\ took' = [took EXCEPT ![step] = Append(took[step], Line)]
  BY DEF Matched, Active
<1>2. PICK r \in Results(Step, Append(got, Line), captures) :
        /\ r.ok /\ captures' = r.c
        /\ \/ Advance /\ sending' = 0
           \/ Step.k = "request" /\ sending' = 1 /\ UNCHANGED <<phase, step, verdict>>
           \/ Step.k = "request" /\ Ends("KeyError")
  BY DEF Matched
<1>3. captures \in Bindings /\ DOMAIN took = DOMAIN Steps /\ took[step] = got
  BY <1>1 DEF MatchInv
<1>4. /\ r.c \in Bindings /\ Extends(r.c, captures, {})
      /\ \A b \in Bindings : Extends(b, r.c, Patterns(Step)) => Suits(Step, Append(got, Line), b)
  BY <1>1, <1>2, <1>3 DEF MatcherSound
<1>5. CASE Ends("KeyError")
  BY <1>5 DEF Ends, MatchInv, Active
<1>6. CASE ~Ends("KeyError")
  <2>1. /\ Steps' = Steps /\ step \in Nat /\ \A i \in DOMAIN Steps : i \in Nat
    <3>1. n \in DOMAIN Scenarios
      BY <1>1 DEF Shape, InScenario
    <3> QED BY <3>1, StepsListed DEF Steps, Scn, Shape
  <2>2. Active' /\ ((step' = step + 1 /\ sending' = 0) \/ (step' = step /\ sending' = 1))
    BY <1>1, <1>2, <1>6 DEF Active, Advance
  <2>3. ASSUME NEW i \in DOMAIN Steps
        PROVE  /\ i > step' => took'[i] = <<>>
               /\ (i = step' /\ sending' = 0) => took'[i] = got'
               /\ Done(i)' => Suited(i)'
    <3>1. (i > step' => took'[i] = <<>>) /\ ((i = step' /\ sending' = 0) => took'[i] = got')
      BY <1>1, <1>3, <2>1, <2>2 DEF MatchInv
    <3>2. Done(i)' => Done(i) \/ i = step
      BY <2>1, <2>2 DEF Done
    <3>3. CASE i = step
      <4>1. took'[i] = Append(got, Line) /\ Steps'[i] = Step
        BY <1>1, <1>3, <2>1, <3>3 DEF Step
      <4>2. Suited(i)'
        BY <1>2, <1>4, <4>1 DEF Suited
      <4> QED BY <3>1, <4>2
    <3>4. CASE Done(i) /\ i # step
      <4>1. took'[i] = took[i] /\ Suited(i)
        BY <1>1, <1>3, <3>4 DEF MatchInv
      <4>2. ASSUME NEW b \in Bindings, Extends(b, r.c, Patterns(Steps[i]))
            PROVE  Suits(Steps[i], took[i], b)
        <5>1. Extends(b, captures, Patterns(Steps[i]))
          BY <1>4, <4>2, ExtendsMore
        <5> QED BY <4>1, <5>1 DEF Suited
      <4>3. Suited(i)'
        BY <1>2, <2>1, <4>1, <4>2 DEF Suited
      <4> QED BY <3>1, <4>3
    <3> QED BY <3>1, <3>2, <3>3, <3>4
  <2> QED BY <1>1, <1>2, <1>3, <1>4, <2>1, <2>2, <2>3 DEF MatchInv
<1> QED BY <1>5, <1>6

\* Every step of a runner with a sound matcher keeps what matched.
LEMMA MatchKept ==
  ASSUME MatcherSound, FlowInv, Shape, MatchInv, [Next]_vars
  PROVE  MatchInv'
<1> USE DEF proc, runner
<1>1. CASE UNCHANGED vars \/ FxStep \/ ReadChunk
  <2>1. UNCHANGED <<n, phase, step, sending, captures, got, took>>
    BY <1>1 DEF vars, FxStep, FxWrite, FxFlush, FxRead, FxLog, FxExit, Fixture, ReadChunk
  <2> QED BY <2>1 DEF MatchInv, Active, Done, Suited, Scn, Steps
<1>2. CASE Query \/ Finish \/ NotRun \/ Kill
  <2>1. ~Active'
    BY <1>2 DEF Query, Finish, NotRun, Kill, Active
  <2> QED BY <2>1 DEF MatchInv
<1>3. CASE Spawn
  <2>1. /\ captures' = <<>> /\ step' = 1 /\ sending' = 0 /\ n' = n /\ n' \in DOMAIN Scenarios
        /\ got' = <<>> /\ took' = [i \in DOMAIN Steps |-> <<>>]
    <3>1. Shape'
      BY <1>3, ShapeKept DEF Next, Runner
    <3> QED BY <1>3, <3>1 DEF Spawn, Shape, InScenario
  <2>2. Steps' = Steps /\ \A i \in DOMAIN Steps : i \in Nat /\ i >= 1
    BY <2>1, StepsListed DEF Steps, Scn
  <2>3. \A i \in DOMAIN Steps' : ~Done(i)' /\ took'[i] = <<>>
    BY <2>1, <2>2 DEF Done
  <2> QED BY <2>1, <2>2, <2>3, HostAssumption DEF MatchInv, HostAssumption
<1>4. CASE StartSend
  <2>1. phase = "run" /\ step \in DOMAIN Steps /\ Step.k = "send" /\ UNCHANGED <<n, captures, got, took>>
        /\ n \in DOMAIN Scenarios /\ Active
    BY <1>4 DEF StartSend, Is, Shape, InScenario, Active
  <2>2. CASE Ends("KeyError")
    BY <2>2 DEF Ends, MatchInv, Active
  <2>3. CASE sending' = Step.size /\ UNCHANGED <<phase, step, verdict>>
    <3>1. Steps' = Steps /\ sending' > 0 /\ sending' # 0
      BY <2>1, <2>3, StepsListed DEF Steps, Scn, Step
    <3>2. \A i \in DOMAIN Steps : Done(i)' => Done(i) \/ i = step
      BY <2>3 DEF Done
    <3>3. Suited(step)
      BY <2>1, PlainSuits DEF Suited, Step, Kinds
    <3>4. \A i \in DOMAIN Steps : Suited(i) => Suited(i)'
      BY <2>1, <3>1 DEF Suited
    <3>5. Active'
      BY <2>1, <2>3 DEF Active
    <3> QED BY <2>1, <2>3, <3>1, <3>2, <3>3, <3>4, <3>5 DEF MatchInv
  <2> QED BY <1>4, <2>2, <2>3 DEF StartSend
<1>5. CASE Write
  <2>1. /\ phase = "run" /\ sending > 0 /\ sending \in Nat /\ sending' = sending - 1
        /\ got = <<>> /\ UNCHANGED <<n, captures, got, took>>
    BY <1>5 DEF Write, Shape
  <2>2. CASE sending = 1
    BY <1>5, <2>1, <2>2, AdvanceSuits DEF Write
  <2>3. CASE sending # 1
    <3>1. UNCHANGED <<phase, step, verdict>> /\ sending' # 0 /\ sending' > 0
      BY <1>5, <2>1, <2>3 DEF Write
    <3> QED BY <2>1, <3>1 DEF MatchInv, Active, Done, Suited, Steps, Scn
  <2> QED BY <2>2, <2>3
<1>6. CASE BrokenPipe \/ Closed
  BY <1>6 DEF BrokenPipe, Closed, Ends, MatchInv, Active
<1>7. CASE Sleep \/ Stderr \/ WaitExit
  <2>1. /\ phase = "run" /\ sending = 0 /\ step \in DOMAIN Steps /\ got = <<>>
        /\ Step.k \in Kinds \ {"expect", "request", "any"} /\ UNCHANGED <<n, sending, captures, got, took>>
        /\ Advance \/ Ends("AssertionError")
    BY <1>7 DEF Sleep, Stderr, WaitExit, Is, Shape, Kinds
  <2>2. CASE Advance
    BY <2>1, <2>2, AdvanceSuits
  <2>3. CASE Ends("AssertionError")
    BY <2>3 DEF Ends, MatchInv, Active
  <2> QED BY <2>1, <2>2, <2>3
<1>8. CASE AfterSteps
  <2>1. phase = "run" /\ step > Len(Steps) /\ UNCHANGED <<n, sending, got, captures, took>>
        /\ (Ends("passed") \/ (phase' = "drain" /\ UNCHANGED <<step, verdict>>))
    BY <1>8 DEF AfterSteps
  <2>2. CASE Ends("passed")
    BY <2>2 DEF Ends, MatchInv, Active
  <2>3. CASE phase' = "drain" /\ UNCHANGED <<step, verdict>>
    BY <2>1, <2>3 DEF MatchInv, Active, Done, Suited, Steps, Scn
  <2> QED BY <2>1, <2>2, <2>3
<1>9. CASE TimedOut
  <2>1. UNCHANGED <<n, sending, captures, got, took>>
        /\ (Ends("passed") \/ Ends("TimeoutError") \/ (Is({"none"}) /\ Advance))
    BY <1>9 DEF TimedOut
  <2>2. CASE Is({"none"}) /\ Advance
    <3>1. phase = "run" /\ sending = 0 /\ got = <<>> /\ Step.k \in Kinds \ {"expect", "request", "any"}
      BY <2>2 DEF Is, Shape, Kinds
    <3> QED BY <2>1, <2>2, <3>1, AdvanceSuits
  <2> QED BY <2>1, <2>2 DEF Ends, MatchInv, Active
<1>10. CASE TakeLine
  <2>1. n' = n /\ Active
    BY <1>10 DEF TakeLine, Reading, Is, Active
  <2>2. CASE UNCHANGED <<phase, step, verdict, sending, captures, got, took>>
    BY <2>1, <2>2 DEF MatchInv, Active, Done, Suited, Scn, Steps
  <2>3. CASE Ends("AssertionError")
    BY <2>3 DEF Ends, MatchInv, Active
  <2>4. CASE Collected
    <3>1. /\ phase = "run" /\ sending = 0 /\ step \in DOMAIN Steps /\ got' = Append(got, Line)
          /\ took' = [took EXCEPT ![step] = Append(took[step], Line)]
          /\ UNCHANGED <<phase, step, verdict, sending, captures>>
      BY <2>4 DEF Collected
    <3>2. Steps' = Steps /\ Active' /\ \A i \in DOMAIN Steps : Done(i)' = Done(i)
      BY <2>1, <3>1 DEF Steps, Scn, Done, Active
    <3>3. n \in DOMAIN Scenarios /\ step \in Nat
      BY <3>1 DEF Shape, InScenario
    <3>4. \A i \in DOMAIN Steps : i \in Nat
      BY <3>3, StepsListed DEF Steps, Scn
    <3>5. \A i \in DOMAIN Steps : i # step => took'[i] = took[i]
      BY <2>1, <3>1 DEF MatchInv
    <3>6. took'[step] = got' /\ DOMAIN took' = DOMAIN Steps'
      BY <2>1, <3>1, <3>2 DEF MatchInv
    <3>7. \A i \in DOMAIN Steps : Done(i) => i # step /\ Suited(i)
      BY <2>1, <3>1, <3>3, <3>4 DEF MatchInv, Done
    <3>8. \A i \in DOMAIN Steps : Done(i) => Suited(i)'
      BY <3>1, <3>2, <3>5, <3>7 DEF Suited
    <3>9. \A i \in DOMAIN Steps : i > step => i # step
      BY <3>3, <3>4
    <3> QED BY <2>1, <3>1, <3>2, <3>5, <3>6, <3>8, <3>9 DEF MatchInv
  <2>5. CASE Matched
    BY <2>1, <2>5, MatchedKeeps
  <2> QED BY <1>10, <2>2, <2>3, <2>4, <2>5, TakeCases
<1> QED BY <1>1, <1>2, <1>3, <1>4, <1>5, <1>6, <1>7, <1>8, <1>9, <1>10 DEF Next, Runner

\* When one match is sound in the sense of FitsUnder (for the model checker, with
\* the equality of Python between a capture and its value), every frame that was
\* accepted is what its step expects, in that sense, under the captures of the
\* scenario, all steps together.
THEOREM MatchesAreSound == ASSUME MatcherSound PROVE Spec => []MatchSound
<1>1. Init => FlowInv /\ Shape /\ MatchInv
  BY FlowInit, ShapeInit, MatchInit
<1>2. FlowInv /\ Shape /\ MatchInv /\ [Next]_vars => (FlowInv /\ Shape /\ MatchInv)'
  BY FlowKept, ShapeKept, MatchKept
<1>3. Shape /\ MatchInv => MatchSound
  <2> SUFFICES ASSUME Shape, MatchInv, Active, NEW i \in 1 .. (step - 1) \cap DOMAIN Steps,
                      Names(Patterns(Steps[i])) \subseteq DOMAIN captures
               PROVE  Suits(Steps[i], took[i], captures)
    BY DEF MatchSound, Active
  <2>1. captures \in Bindings /\ Suited(i)
    <3>1. step \in Nat
      BY DEF Shape
    <3>2. Done(i)
      BY <3>1 DEF Done
    <3> QED BY <3>2 DEF MatchInv
  <2>2. Extends(captures, captures, Patterns(Steps[i]))
    BY DEF Extends
  <2> QED BY <2>1, <2>2 DEF Suited
<1> QED BY <1>1, <1>2, <1>3, PTL DEF Spec
=============================================================================
