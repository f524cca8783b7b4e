------------------------------ MODULE MockHost ------------------------------
(***************************************************************************)
(* The conformance runner (run.py), the mock host (mock_host.py) and the    *)
(* fixture process it talks to through two pipes (lib.py, Proc).            *)
(*                                                                          *)
(* A scenario is [complete, newer, requires, declared, tools, steps]; a step *)
(* has a kind k and what that kind needs: "send" (f, size), "expect" (p),    *)
(* "request" (p, reply), "any" (ps), "none", "stderr", "sleep", "exit"       *)
(* (code).  The fixture is any process: it writes lines of the set Lines,    *)
(* reads, logs and exits when it likes.  A line goes through the stdout pipe *)
(* in two halves, so that a read may end within a line.  The clock is not    *)
(* modelled: a wait may time out whenever the code would look at the clock.  *)
(***************************************************************************)
EXTENDS Integers, FiniteSets, SequencesExt

CONSTANTS Scenarios,   \* the selected scenario files, in order
          Capabilities,\* what a fixture may declare
          Lines,       \* what the fixture may write: JSON objects, Blank, Junk (no JSON object)
          MaxOut,      \* bound: lines a fixture writes in a scenario
          OutRoom,     \* room in the stdout pipe, in halves
          InRoom,      \* room in the stdin pipe
          Faults       \* subset of {"dies"}: the fixture exits though more will be sent

\* The matcher, see ConformanceMatcher: a match under captures has a set of
\* results [ok, c]; `FitsUnder` and `Assignable` say what a match is.
CONSTANTS Match(_, _, _), MatchAnyOrder(_, _, _), CapturesOf(_),
          FitsUnder(_, _, _), Assignable(_, _, _),
          Bindings     \* the captures that may come about: functions from names

\* Scenarios are lists of steps; a line to send is not empty, and neither is a
\* list of patterns.
IsList(s) == s \in Seq({s[i] : i \in DOMAIN s})
HostAssumption ==
  /\ IsList(Scenarios)
  /\ \A m \in DOMAIN Scenarios :
       LET steps == Scenarios[m].steps
       IN  /\ IsList(steps)
           /\ \A i \in DOMAIN steps :
                /\ steps[i].k \in {"send", "expect", "request", "any", "none", "stderr", "sleep", "exit"}
                /\ steps[i].k = "send" => steps[i].size \in Nat \ {0}
                /\ steps[i].k = "any" => IsList(steps[i].ps) /\ steps[i].ps # <<>>
  /\ <<>> \in Bindings
  /\ MaxOut \in Nat /\ OutRoom \in Nat /\ InRoom \in Nat

ASSUME HostAssumption

NoReply == [t |-> "noreply"]
Blank   == [t |-> "blank"]
Junk    == [t |-> "junk"]

VARIABLES phase,     \* where main and run_scenario are
          n,         \* the scenario main is at; a line of TAP output for each before it
          caps,      \* what the fixture answered to --print-capabilities
          step,      \* index of the step
          verdict,   \* how run_scenario ends
          failed,    \* main's failures is not 0
          sending,   \* what send_raw has still to write
          inp,       \* the stdin pipe
          fx,        \* "none", "up", or the exit code
          pend,      \* what the fixture is writing
          out,       \* the stdout pipe
          buf,       \* Proc._buf
          logged,    \* the needle is in Proc._stderr
          captures,  \* run_scenario's captures
          got,       \* frames of the running expect_any_order
          wrote,     \* history: lines the fixture wrote in this scenario
          taken,     \* history: the lines read_frame cut in this scenario
          took       \* history: the frames that each step took

proc    == <<inp, fx, pend, out, logged, wrote>>
runner  == <<n, caps, failed>>
vars    == <<phase, n, caps, step, verdict, failed, sending, inp, fx, pend, out, buf, logged,
             captures, got, wrote, taken, took>>

Scn   == Scenarios[n]
Steps == Scn.steps
Step  == Steps[step]
Is(k) == phase = "run" /\ step \in DOMAIN Steps /\ sending = 0 /\ Step.k \in k

----------------------------------------------------------------------------
(* load_scenario and validate_scenario *)

Patterns(s) == CASE s.k \in {"expect", "request"} -> {s.p}
                 [] s.k = "any" -> ToSet(s.ps)
                 [] OTHER -> {}
Outgoing(s) == CASE s.k = "send" -> {s.f}
                 [] s.k = "request" /\ s.reply # NoReply -> {s.reply}
                 [] OTHER -> {}

Names(ps) == UNION {CapturesOf(p) : p \in ps}

\* Mutant: all patterns are scanned before any reference is looked at.
BoundAt_AnyOrder(steps, i) == UNION {Names(Patterns(steps[j])) : j \in DOMAIN steps}

\* The captures that the steps up to i have bound, as far as the validator sees.
BoundAt(steps, i) == UNION {Names(Patterns(steps[j])) : j \in 1..i}

Accepted(s) ==
  /\ s.complete
  /\ s.declared \subseteq s.tools
  /\ \A i \in DOMAIN s.steps : s.steps[i].k = "exit" => i = Len(s.steps)
  /\ \A i \in DOMAIN s.steps : Names(Outgoing(s.steps[i])) \subseteq BoundAt(s.steps, i)

\* substitute_captures raises KeyError.
Unbound(f, c) == ~(CapturesOf(f) \subseteq DOMAIN c)

----------------------------------------------------------------------------
(* main *)

Init ==
  /\ phase = "query" /\ n = 1 /\ caps = {} /\ failed = FALSE
  /\ step = 1 /\ verdict = "none" /\ sending = 0
  /\ inp = 0 /\ fx = "none" /\ pend = <<>> /\ out = <<>> /\ buf = <<>> /\ logged = FALSE
  /\ captures = <<>> /\ got = <<>> /\ wrote = <<>> /\ taken = <<>> /\ took = <<>>

\* _fixture_capabilities; SystemExit when the answer is no list of strings.
Query ==
  /\ phase = "query"
  /\ \/ phase' = "load" /\ caps' \in SUBSET Capabilities
     \/ phase' = "quit" /\ UNCHANGED caps
  /\ UNCHANGED <<n, failed, step, verdict, sending, buf, captures, got, taken, took, proc>>

Report(r) == n' = n + 1 /\ failed' = (failed \/ r \in {"load error", "not ok"})

Skips == Scn.newer \/ ~(Scn.requires \subseteq caps)

NotRun ==
  /\ phase = "load" /\ n <= Len(Scenarios)
  /\ \/ ~Accepted(Scn) /\ Report("load error")
     \/ Accepted(Scn) /\ Skips /\ Report("skip")
  /\ UNCHANGED <<phase, caps, step, verdict, sending, buf, captures, got, taken, took, proc>>

\* run_scenario begins with a new process and a new Proc, and no captures.
Spawn ==
  /\ phase = "load" /\ n <= Len(Scenarios) /\ Accepted(Scn) /\ ~Skips
  /\ phase' = "run" /\ fx' = "up" /\ took' = [i \in DOMAIN Steps |-> <<>>]
  /\ UNCHANGED <<runner, step, verdict, sending, buf, captures, got, taken, inp, pend, out, logged, wrote>>

Finish ==
  /\ phase = "load" /\ n > Len(Scenarios) /\ phase' = "done"
  /\ UNCHANGED <<n, caps, failed, step, verdict, sending, buf, captures, got, taken, took, proc>>

----------------------------------------------------------------------------
(* run_scenario and _run_step.  A step ends, or the scenario does. *)

Advance == step' = step + 1 /\ UNCHANGED <<phase, verdict>>
Ends(v) == phase' = "kill" /\ verdict' = v /\ UNCHANGED step

StartSend ==
  /\ Is({"send"})
  /\ IF Unbound(Step.f, captures) THEN Ends("KeyError") /\ UNCHANGED sending
     ELSE sending' = Step.size /\ UNCHANGED <<phase, step, verdict>>
  /\ UNCHANGED <<runner, buf, captures, got, taken, took, proc>>

\* stdin.write and flush wait for room.
Write ==
  /\ phase = "run" /\ sending > 0 /\ fx = "up" /\ inp < InRoom
  /\ inp' = inp + 1 /\ sending' = sending - 1
  /\ IF sending = 1 THEN Advance ELSE UNCHANGED <<phase, step, verdict>>
  /\ UNCHANGED <<runner, buf, captures, got, taken, took, fx, pend, out, logged, wrote>>

\* BrokenPipeError: not among what run_scenario catches.
BrokenPipe ==
  /\ phase = "run" /\ sending > 0 /\ fx # "up"
  /\ Ends("BrokenPipeError")
  /\ UNCHANGED <<runner, sending, buf, captures, got, taken, took, proc>>

Sleep ==
  /\ Is({"sleep"}) /\ Advance
  /\ UNCHANGED <<runner, sending, buf, captures, got, taken, took, proc>>

Stderr ==
  /\ Is({"stderr"})
  /\ \/ logged /\ Advance
     \/ ~logged /\ Ends("AssertionError")
  /\ UNCHANGED <<runner, sending, buf, captures, got, taken, took, proc>>

WaitExit ==
  /\ Is({"exit"})
  /\ \/ fx = Step.code /\ Advance
     \/ fx # Step.code /\ Ends("AssertionError")
  /\ UNCHANGED <<runner, sending, buf, captures, got, taken, took, proc>>

\* The loop over the steps is over.
AfterSteps ==
  /\ phase = "run" /\ step > Len(Steps)
  /\ IF Steps # <<>> /\ Last(Steps).k = "exit" THEN Ends("passed")
     ELSE phase' = "drain" /\ UNCHANGED <<step, verdict>>
  /\ UNCHANGED <<runner, sending, buf, captures, got, taken, took, proc>>

----------------------------------------------------------------------------
(* read_frame *)

Reading == phase = "drain" \/ Is({"expect", "request", "any", "none"})
NewlineAt(b) == {i \in DOMAIN b : b[i].half = "tail"}

ReadChunk ==
  /\ Reading /\ NewlineAt(buf) = {} /\ out # <<>>
  /\ buf' = buf \o out /\ out' = <<>>
  /\ UNCHANGED <<runner, phase, step, verdict, sending, captures, got, taken, took, inp, fx, pend, logged, wrote>>

Closed ==
  /\ Reading /\ NewlineAt(buf) = {} /\ out = <<>> /\ fx # "up"
  /\ Ends("AssertionError")
  /\ UNCHANGED <<runner, sending, buf, captures, got, taken, took, proc>>

\* Mutant: the read at the end of a scenario has no deadline.
TimedOut_NotDrain ==
  /\ Reading /\ NewlineAt(buf) = {} /\ phase # "drain"
  /\ IF Is({"none"}) THEN Advance ELSE Ends("TimeoutError")
  /\ UNCHANGED <<runner, sending, buf, captures, got, taken, took, proc>>

TimedOut ==
  /\ Reading /\ NewlineAt(buf) = {}
  /\ CASE phase = "drain" -> Ends("passed")
       [] Is({"none"})    -> Advance
       [] OTHER           -> Ends("TimeoutError")
  /\ UNCHANGED <<runner, sending, buf, captures, got, taken, took, proc>>

\* Mutant: what the read brought beyond the line is thrown away.
CutLine_DropsRest == buf' = <<>>
CutLine == buf' = SubSeq(buf, Min(NewlineAt(buf)) + 1, Len(buf))
Line    == buf[Min(NewlineAt(buf))].line

\* Mutant: the result of the match is not looked at.
Expect_Lenient(r) ==
  /\ captures' = r.c
  /\ \/ Outgoing(Step) = {} /\ Advance /\ UNCHANGED sending
     \/ Outgoing(Step) # {} /\ sending' = 1 /\ UNCHANGED <<phase, step, verdict>>

Expect(r) ==
  /\ captures' = r.c
  /\ \/ ~r.ok /\ Ends("AssertionError") /\ UNCHANGED sending
     \/ r.ok /\ Outgoing(Step) = {} /\ Advance /\ UNCHANGED sending
     \/ /\ r.ok /\ Outgoing(Step) # {}
        /\ IF Unbound(Step.reply, r.c) THEN Ends("KeyError") /\ UNCHANGED sending
           ELSE sending' = 1 /\ UNCHANGED <<phase, step, verdict>>

\* expect_any_order: the frames first, then all of them against the patterns.
Collect(frames) ==
  IF Len(frames) < Len(Step.ps)
    THEN got' = frames /\ UNCHANGED <<phase, step, verdict, captures>>
    ELSE /\ got' = <<>>
         /\ \E r \in MatchAnyOrder(Step.ps, frames, captures) :
              captures' = r.c /\ IF r.ok THEN Advance ELSE Ends("AssertionError")

TakeLine ==
  /\ Reading /\ NewlineAt(buf) # {}
  /\ CutLine /\ taken' = Append(taken, Line)
  /\ took' = IF Line.t = "obj" /\ phase = "run" THEN [took EXCEPT ![step] = Append(@, Line)] ELSE took
  /\ \/ Line = Blank /\ UNCHANGED <<phase, step, verdict, sending, captures, got>>
     \/ /\ Line # Blank /\ (Line.t # "obj" \/ phase = "drain" \/ Is({"none"}))
        /\ Ends("AssertionError") /\ UNCHANGED <<sending, captures, got>>
     \/ Line.t = "obj" /\ Is({"any"}) /\ Collect(Append(got, Line)) /\ UNCHANGED sending
     \/ /\ Line.t = "obj" /\ Is({"expect", "request"})
        /\ \E r \in Match(Step.p, Line, captures) : Expect(r) /\ UNCHANGED got
  /\ UNCHANGED <<runner, proc>>

\* finally: proc.kill(); then main prints the result, or the exception ends it.
\* The Proc and the captures are gone with run_scenario.
Kill ==
  /\ phase = "kill" /\ fx' = "none"
  /\ IF verdict = "BrokenPipeError" THEN phase' = "crashed" /\ UNCHANGED <<n, failed>>
     ELSE phase' = "load" /\ Report(IF verdict = "passed" THEN "ok" ELSE "not ok")
  /\ step' = 1 /\ verdict' = "none" /\ sending' = 0 /\ captures' = <<>> /\ got' = <<>>
  /\ inp' = 0 /\ pend' = <<>> /\ out' = <<>> /\ buf' = <<>> /\ logged' = FALSE
  /\ wrote' = <<>> /\ taken' = <<>> /\ took' = <<>>
  /\ UNCHANGED caps

----------------------------------------------------------------------------
(* The fixture *)

Fixture == fx = "up" /\ UNCHANGED <<runner, phase, step, verdict, sending, buf, captures, got, taken, took>>

FxWrite(l) ==
  /\ Fixture /\ pend = <<>> /\ Len(wrote) < MaxOut
  /\ pend' = <<[line |-> l, half |-> "head"], [line |-> l, half |-> "tail"]>>
  /\ UNCHANGED <<inp, fx, out, logged, wrote>>

FxFlush ==
  /\ Fixture /\ pend # <<>> /\ Len(out) < OutRoom
  /\ out' = Append(out, Head(pend)) /\ pend' = Tail(pend)
  /\ wrote' = IF Len(pend) = 1 THEN Append(wrote, Head(pend).line) ELSE wrote
  /\ UNCHANGED <<inp, fx, logged>>

FxRead ==
  /\ Fixture /\ pend = <<>> /\ inp > 0 /\ inp' = inp - 1
  /\ UNCHANGED <<fx, pend, out, logged, wrote>>

FxLog ==
  /\ Fixture /\ pend = <<>> /\ ~logged /\ logged' = TRUE
  /\ UNCHANGED <<inp, fx, pend, out, wrote>>

NothingToSend == sending = 0 /\ \A i \in DOMAIN Steps : i >= step => Outgoing(Steps[i]) = {}

FxExit(code) ==
  /\ Fixture
  /\ "dies" \in Faults \/ (NothingToSend /\ pend = <<>>)
  /\ fx' = code /\ pend' = <<>>
  /\ UNCHANGED <<inp, out, logged, wrote>>

FxStep == \/ \E l \in Lines : FxWrite(l)
          \/ FxFlush
          \/ FxRead
          \/ FxLog
          \/ \E code \in {"0", "1"} : FxExit(code)

Runner == \/ Query
          \/ NotRun
          \/ Spawn
          \/ Finish
          \/ StartSend
          \/ Write
          \/ BrokenPipe
          \/ Sleep
          \/ Stderr
          \/ WaitExit
          \/ AfterSteps
          \/ ReadChunk
          \/ Closed
          \/ TimedOut
          \/ TakeLine
          \/ Kill

Next == Runner \/ FxStep

Spec == Init /\ [][Next]_vars
\* The runner goes on; a fixture that is sent something reads it, once what it
\* writes has gone into the pipe.
FairSpec == Spec /\ WF_vars(Runner) /\ WF_vars(FxRead) /\ WF_vars(FxFlush)

----------------------------------------------------------------------------
(* Properties *)

\* What step s expects, and what it got, under the captures b.
Suits(s, frames, b) == CASE s.k \in {"expect", "request"} -> FitsUnder(s.p, frames[1], b)
                         [] s.k = "any" -> Assignable(s.ps, frames, b)
                         [] OTHER -> TRUE

\* b stands for every capture of ps, and for those of c as c does.
Extends(b, c, ps) == /\ Names(ps) \cup DOMAIN c \subseteq DOMAIN b
                     /\ \A x \in DOMAIN c : b[x] = c[x]

\* What the matcher is asked to promise, of the steps of the scenarios.
Frames        == {l \in Lines : l.t = "obj"}
Wanted(s)     == IF s.k = "any" THEN Len(s.ps) ELSE 1
Results(s, frames, c) == IF s.k = "any" THEN MatchAnyOrder(s.ps, frames, c)
                                        ELSE Match(s.p, frames[1], c)
Waits         == {s \in UNION {ToSet(scn.steps) : scn \in ToSet(Scenarios)} : Patterns(s) # {}}

\* A match keeps the captures there are, and fits whatever the others turn out to stand for.
MatcherSound ==
  \A s \in Waits, c \in Bindings : \A frames \in [1 .. Wanted(s) -> Frames] :
    \A r \in Results(s, frames, c) : r.ok =>
      /\ r.c \in Bindings /\ Extends(r.c, c, {})
      /\ \A b \in Bindings : Extends(b, r.c, Patterns(s)) => Suits(s, frames, b)

\* A match binds every capture of its patterns.
MatcherBinds ==
  \A s \in Waits, c \in Bindings : \A frames \in [1 .. Wanted(s) -> Frames] :
    \A r \in Results(s, frames, c) : r.ok =>
      r.c \in Bindings /\ Names(Patterns(s)) \cup DOMAIN c \subseteq DOMAIN r.c

\* Every line the fixture finished is either cut, in the buffer or in the pipe, in the
\* order it was written: a read that brings several lines, or a part of one before
\* a timeout, loses nothing (lib.py:38-40).
NoLineLost ==
  phase \in {"run", "drain", "kill"} =>
    LET flow == buf \o out
        left == Len(wrote) - Len(taken)
    IN  /\ Len(flow) - 2 * left \in {0, 1}
        /\ wrote = taken \o [k \in 1 .. left |-> flow[2 * k].line]

\* Under the captures a scenario has bound so far, every frame it accepted is what its
\* step expects, all steps together (lib.py:176-179).
MatchSound ==
  phase \in {"run", "drain"} =>
    \A i \in 1..(step - 1) \cap DOMAIN Steps :
      Names(Patterns(Steps[i])) \subseteq DOMAIN captures => Suits(Steps[i], took[i], captures)

\* Frames in any order are refused only if no assignment to the patterns, with any values for the
\* captures that are still free, makes all of them fit (mock_host.py:128-131).
UnorderedComplete ==
  [][(TakeLine /\ Is({"any"}) /\ phase' = "kill" /\ Line.t = "obj") =>
       \A b \in Bindings : Extends(b, captures, Patterns(Step)) =>
         ~Assignable(Step.ps, Append(got, Line), b)]_vars

\* A reference to a capture that is not bound is found when the scenario is loaded, never when
\* it runs (lib.py:337-338).
CaughtAtLoad == verdict # "KeyError"

\* The runner comes to an end, whatever the fixture does: no wait is without a deadline, but
\* for a write into a full pipe that the fixture reads from (lib.py:77-109, 125-137).
RunnerEnds == <>(phase \in {"quit", "done", "crashed"})

\* It ends with a line of output for every scenario it selected, or says at once that it
\* cannot start (run.py:7-10).
AllReported == <>(phase \in {"quit", "done"})

\* A scenario passes only with no frame left over (mock_host.py:5-6).
NoLeftover == [][phase' = "load" /\ phase = "kill" /\ verdict = "passed" =>
                   NewlineAt(buf \o out) = {}]_vars
============================================================================
