---------------------------- MODULE StdoutGuard ----------------------------
(***************************************************************************)
(* The guard on `sys.stdout` (stdout_guard.py): threads of plugin code      *)
(* print through it while the SDK writes its frames past it, and adapters   *)
(* install it when they are constructed and remove it when they are over.   *)
(*                                                                          *)
(* Threads interleave where CPython hands over between them: at calls.      *)
(* Between two calls `_GuardWriter.write` appends to the buffer, looks for  *)
(* a newline, cuts the line off, or writes it out.  Text is a sequence of   *)
(* tokens, each one character wide.                                         *)
(***************************************************************************)
EXTENDS Integers, Sequences

CONSTANTS
  Threads,     \* threads that print
  Adapters,    \* adapters of the process; each may install a guard, named after it
  Original,    \* the stdout the process began with
  Texts,       \* what the threads print: see Tokens
  MaxWrites,   \* bound: writes of plugin code
  MaxFrames,   \* bound: frames of the SDK
  Bypass,      \* frames pass the guard by (Python), or go through it (TypeScript)
  Faults       \* see FaultsAssumption

Token == {"json", "open", "close", "junk", "frame", "nl"}

\* print(x) is write(x), then write("\n").  "pretty" is one JSON document on
\* two lines, written with its newline.
Tokens == [json    |-> <<"json">>, junk    |-> <<"junk">>,
           newline |-> <<"nl">>,    tail    |-> <<"json", "nl", "junk">>,
           pretty  |-> <<"open", "nl", "close", "nl">>]

FaultsAssumption ==
  Faults \subseteq {"concurrent",  \* an adapter is constructed while another serves
                    "badStdin"}    \* connect_read_pipe fails: stdin is a regular file

ASSUME GuardAssumption == /\ Original \notin Adapters
                          /\ Texts \subseteq DOMAIN Tokens
                          /\ MaxWrites \in Nat /\ MaxFrames \in Nat
                          /\ Bypass \in BOOLEAN
                          /\ FaultsAssumption

VARIABLES
  stdout,   \* what sys.stdout is: Original, or the guard of an adapter
  buf,      \* `_buf` of each guard
  pc,       \* where each thread is in `write`
  on,       \* the guard it writes to
  idx,      \* its `idx`, counted from 1
  line,     \* its `line`
  life,     \* of each adapter
  frames,   \* how many frames were written
  log,      \* what the original stdout and stderr were given, in order
  base,     \* history: how much of it there was when the last guard was installed
  said,     \* history: what plugin code wrote (and, where they go through the guard, the frames)
  gone,     \* history: what of it has left the guard
  writes,   \* how many writes there were
  raced     \* history: whether a write or an uninstall overlapped another

threadVars == <<pc, on, idx, line>>
vars == <<stdout, buf, threadVars, life, frames, log, base, said, gone, writes, raced>>

Serving == \E a \in Adapters : life[a] = "serving"
Idle    == \A t \in Threads : pc[t] = "idle"

TypeOK ==
  /\ stdout \in Adapters \cup {Original}
  /\ buf \in [Adapters -> Seq(Token)]
  /\ pc \in [Threads -> {"idle", "find", "cut", "emit"}]
  /\ on \in [Threads -> Adapters \cup {Original}]
  /\ \A t \in Threads : pc[t] # "idle" => on[t] \in Adapters
  /\ idx \in [Threads -> Nat]
  /\ line \in [Threads -> Seq(Token)]
  /\ life \in [Adapters -> {"new", "failed", "stuck", "serving", "leaving", "over"}]
  /\ frames \in Nat /\ writes \in Nat /\ base \in Nat /\ raced \in BOOLEAN
  /\ log \in Seq([to : {"wire", "stderr"}, text : Seq(Token)])
  /\ said \in Seq(Token) /\ gone \in Seq(Token)

Init ==
  /\ stdout = Original
  /\ buf = [a \in Adapters |-> <<>>]
  /\ pc = [t \in Threads |-> "idle"]
  /\ on = [t \in Threads |-> Original]
  /\ idx = [t \in Threads |-> 0]
  /\ line = [t \in Threads |-> <<>>]
  /\ life = [a \in Adapters |-> "new"]
  /\ frames = 0 /\ log = <<>> /\ base = 0 /\ said = <<>> /\ gone = <<>> /\ writes = 0 /\ raced = FALSE

----------------------------------------------------------------------------
(* Lines *)

Has(s, k) == \E i \in 1 .. Len(s) : s[i] = k

\* Newlines aside, s holds one document: a token, or the two that make one.
Document(s) ==
  \E i, j \in 1 .. Len(s) :
    /\ \/ i = j /\ s[i] \in {"json", "frame"}
       \/ i < j /\ s[i] = "open" /\ s[j] = "close"
    /\ \A k \in 1 .. Len(s) : k \in {i, j} \/ s[k] = "nl"

\* Mutant: a line that contains a JSON document is good enough.
IsJsonLine_Contains(l) == l = <<>> \/ Has(l, "json") \/ Has(l, "frame")

\* The empty line, or a JSON document, which may have newlines around and
\* between its tokens.
IsJsonLine(l) == l = <<>> \/ Document(l)

\* Python's buf[:i] and buf[i + 1:], for an index the buffer may not reach.
Before(s, i) == SubSeq(s, 1, IF i - 1 <= Len(s) THEN i - 1 ELSE Len(s))
After(s, i)  == SubSeq(s, i + 1, Len(s))

Log(to, text) == log' = Append(log, [to |-> to, text |-> text])
\* The same, of plugin code.
Give(to, text) == Log(to, text) /\ gone' = gone \o text

----------------------------------------------------------------------------
(* _GuardWriter.write *)

\* The call: `_buf += text`.  sys.stdout is looked up when it is made; without
\* a guard the text reaches the original stream as it is.
Begin(t, text) ==
  /\ pc[t] = "idle"
  /\ raced' = (raced \/ ~Idle \/ \E a \in Adapters : life[a] = "leaving")
  /\ said' = said \o text
  /\ IF stdout = Original
       THEN Give("wire", text) /\ UNCHANGED <<buf, pc, on>>
       ELSE /\ buf' = [buf EXCEPT ![stdout] = @ \o text]
            /\ pc' = [pc EXCEPT ![t] = "find"]
            /\ on' = [on EXCEPT ![t] = stdout]
            /\ UNCHANGED <<log, gone>>
  /\ UNCHANGED <<stdout, idx, line, life, base>>

\* Plugin code prints, once an adapter was constructed: what is printed before
\* is out of the guard's reach.
PrintText(t) ==
  /\ stdout # Original \/ \E a \in Adapters : life[a] \in {"serving", "leaving", "over"}
  /\ writes < MaxWrites /\ writes' = writes + 1
  /\ \E x \in Texts : Begin(t, Tokens[x])
  /\ UNCHANGED frames

\* The end of the call, and of its locals.
Return(t) == /\ pc' = [pc EXCEPT ![t] = "idle"]
             /\ on' = [on EXCEPT ![t] = Original]
             /\ idx' = [idx EXCEPT ![t] = 0]
             /\ line' = [line EXCEPT ![t] = <<>>]

\* Mutant: rfind, the last newline.
Find_Last(t) ==
  /\ pc[t] = "find"
  /\ \/ ~Has(buf[on[t]], "nl") /\ Return(t)
     \/ \E i \in 1 .. Len(buf[on[t]]) :
        /\ buf[on[t]][i] = "nl" /\ ~Has(After(buf[on[t]], i), "nl")
        /\ idx' = [idx EXCEPT ![t] = i]
        /\ pc' = [pc EXCEPT ![t] = "cut"]
        /\ UNCHANGED <<on, line>>
  /\ UNCHANGED <<stdout, buf, life, frames, log, base, said, gone, writes, raced>>

\* `_buf.find`: the first newline, or the end of the loop.
Find(t) ==
  /\ pc[t] = "find"
  /\ \/ ~Has(buf[on[t]], "nl") /\ Return(t)
     \/ \E i \in 1 .. Len(buf[on[t]]) :
        /\ buf[on[t]][i] = "nl" /\ ~Has(Before(buf[on[t]], i), "nl")
        /\ idx' = [idx EXCEPT ![t] = i]
        /\ pc' = [pc EXCEPT ![t] = "cut"]
        /\ UNCHANGED <<on, line>>
  /\ UNCHANGED <<stdout, buf, life, frames, log, base, said, gone, writes, raced>>

\* Mutant: everything behind the line is dropped with it.
Cut_Clears(t) ==
  /\ pc[t] = "cut"
  /\ line' = [line EXCEPT ![t] = Before(buf[on[t]], idx[t])]
  /\ buf' = [buf EXCEPT ![on[t]] = <<>>]
  /\ pc' = [pc EXCEPT ![t] = "emit"]
  /\ UNCHANGED <<stdout, on, idx, life, frames, log, base, said, gone, writes, raced>>

\* The line, and what is behind it, at the index that was found before.
Cut(t) ==
  /\ pc[t] = "cut"
  /\ line' = [line EXCEPT ![t] = Before(buf[on[t]], idx[t])]
  /\ buf' = [buf EXCEPT ![on[t]] = After(@, idx[t])]
  /\ pc' = [pc EXCEPT ![t] = "emit"]
  /\ UNCHANGED <<stdout, on, idx, life, frames, log, base, said, gone, writes, raced>>

\* Mutant: `if` where the code has `while`.
Emit_Once(t) ==
  /\ pc[t] = "emit"
  /\ Give(IF IsJsonLine(line[t]) THEN "wire" ELSE "stderr", Append(line[t], "nl"))
  /\ pc' = [pc EXCEPT ![t] = "idle"]
  /\ UNCHANGED <<stdout, buf, on, idx, line, life, frames, base, said, writes, raced>>

\* Forward the line, or divert it.
Emit(t) ==
  /\ pc[t] = "emit"
  /\ Give(IF IsJsonLine(line[t]) THEN "wire" ELSE "stderr", Append(line[t], "nl"))
  /\ pc' = [pc EXCEPT ![t] = "find"]
  /\ UNCHANGED <<stdout, buf, on, idx, line, life, frames, base, said, writes, raced>>

----------------------------------------------------------------------------
(* The SDK *)

\* A frame goes to the stream that was captured at construction, in one write;
\* in TypeScript it goes through the guard.
WriteFrame ==
  /\ Serving /\ frames < MaxFrames /\ frames' = frames + 1
  /\ IF Bypass
       THEN /\ Log("wire", <<"frame", "nl">>)
            /\ UNCHANGED <<stdout, buf, threadVars, life, base, said, gone, raced>>
       ELSE Idle /\ \E t \in Threads : Begin(t, <<"frame", "nl">>)
  /\ UNCHANGED writes

unchangedByLife == <<threadVars, frames, said, writes>>

\* install_stdout_guard: nothing, when a guard is there already.
Install(a) == /\ stdout' = IF stdout = Original THEN a ELSE stdout
              /\ base' = IF stdout = Original THEN Len(log) ELSE base

\* Mutant: the guard is installed before the manifest is read.
Construct_Early(a) ==
  /\ life[a] = "new"
  /\ \A b \in Adapters : life[b] \notin {"serving", "leaving"} \/ "concurrent" \in Faults
  /\ life' = [life EXCEPT ![a] = "failed"] \/ life' = [life EXCEPT ![a] = "serving"]
  /\ Install(a)
  /\ UNCHANGED <<buf, log, gone, raced, unchangedByLife>>

\* The manifest and the tools are checked first; then the guard is installed.
Construct(a) ==
  /\ life[a] = "new"
  /\ \A b \in Adapters : life[b] \notin {"serving", "leaving"} \/ "concurrent" \in Faults
  /\ \/ life' = [life EXCEPT ![a] = "failed"] /\ UNCHANGED <<stdout, base>>
     \/ life' = [life EXCEPT ![a] = "serving"] /\ Install(a)
  /\ UNCHANGED <<buf, log, gone, raced, unchangedByLife>>

\* run raises before its `try`: nothing is undone.
RunFails(a) ==
  /\ life[a] = "serving" /\ "badStdin" \in Faults
  /\ life' = [life EXCEPT ![a] = "stuck"]
  /\ UNCHANGED <<stdout, buf, log, base, gone, raced, unchangedByLife>>

\* The end of run uninstalls the guard: what its buffer holds is written out
\* raw, and then cleared.
Leave(a) ==
  /\ life[a] = "serving"
  /\ raced' = (raced \/ ~Idle \/ \E b \in Adapters : life[b] = "leaving")
  /\ IF stdout = Original \/ buf[stdout] = <<>>
       THEN /\ stdout' = Original
            /\ life' = [life EXCEPT ![a] = "over"]
            /\ UNCHANGED <<log, gone>>
       ELSE /\ Give("wire", buf[stdout])
            /\ life' = [life EXCEPT ![a] = "leaving"]
            /\ UNCHANGED stdout
  /\ UNCHANGED <<buf, base, unchangedByLife>>

Left(a) ==
  /\ life[a] = "leaving"
  /\ life' = [life EXCEPT ![a] = "over"]
  /\ stdout' = Original
  /\ buf' = IF stdout = Original THEN buf ELSE [buf EXCEPT ![stdout] = <<>>]
  /\ UNCHANGED <<log, base, gone, raced, unchangedByLife>>

Next == \/ \E t \in Threads : PrintText(t) \/ Find(t) \/ Cut(t) \/ Emit(t)
        \/ \E a \in Adapters : Construct(a) \/ RunFails(a) \/ Leave(a) \/ Left(a)
        \/ WriteFrame

Spec == Init /\ [][Next]_vars

----------------------------------------------------------------------------
(* Properties *)

\* One document torn over two lines.
Torn(w) == \E i, j, k \in 1 .. Len(w) : i < j /\ j < k /\ w[i] = "open" /\ w[j] = "nl" /\ w[k] = "close"

Blank(w) == \A k \in 1 .. Len(w) : w[k] = "nl"
Clean(w) == w # <<>> /\ w[Len(w)] = "nl" /\ (Blank(w) \/ Document(w)) /\ ~Torn(w)

\* What the wire was given since the guard was installed is whole lines, each
\* blank, JSON or a frame.
WireWhole == \A k \in DOMAIN log : k > base /\ log[k].to = "wire" => Clean(log[k].text)

\* While an adapter serves, only such lines reach the wire ("only forwards lines
\* that successfully json.loads", stdout_guard.py:2), for each of the adapters
\* that come in turn: however the writes of threads interleave, as long as no
\* document was printed over several lines, and with such documents as long as
\* no write or uninstall overlapped another.
WireClean == Serving /\ (~raced \/ ~Has(said, "open")) => WireWhole

\* ... and with such documents also when threads race.
RacesStayClean == Serving => WireWhole

\* When nobody is inside write, no complete line is left in a buffer: also not
\* one that arrived while another thread was at work on the same buffer.
NoLineStuck == Idle => \A a \in Adapters : ~Has(buf[a], "nl")

\* What the installed guard still owes, except while it is being removed.
Held == IF stdout = Original \/ \E a \in Adapters : life[a] = "leaving" THEN <<>> ELSE buf[stdout]

\* As long as no write or uninstall overlapped another, everything plugin code
\* wrote has left the guard, once, in order and whole, or is still in it: in its
\* buffer, behind the line a thread has in hand.
NothingLost ==
  ~raced => /\ \A t \in Threads : pc[t] = "emit" => said = (gone \o Append(line[t], "nl")) \o Held
            /\ (\A t \in Threads : pc[t] # "emit") => said = gone \o Held

\* When no adapter is constructed and unfinished, sys.stdout is what it was: a
\* failed construction leaves no guard behind (adapter.py:108-109).
GuardReleased ==
  (\A a \in Adapters : life[a] \in {"new", "failed", "over"}) => stdout = Original

\* ... and neither does a run that fails.
RunReleases ==
  (\A a \in Adapters : life[a] \in {"new", "failed", "stuck", "over"}) => stdout = Original

\* The k-th text begins a line of the wire.
AtLineStart(k) ==
  \A j \in 1 .. k - 1 :
    log[j].to = "wire" /\ (\A i \in j + 1 .. k - 1 : log[i].to # "wire") =>
      log[j].text[Len(log[j].text)] = "nl"

\* A frame arrives alone on its line, whatever plugin code has left in the
\* buffer (stdout_guard.py:13-15), or a run before this one.
FramesArrive ==
  \A k \in DOMAIN log : Has(log[k].text, "frame") =>
    log[k] = [to |-> "wire", text |-> <<"frame", "nl">>] /\ AtLineStart(k)
============================================================================
