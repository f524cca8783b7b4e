-------------------------- MODULE LineReader_proofs --------------------------
(***************************************************************************)
(* For every cap, limit, chunk size and stream: the buffer stays bounded,   *)
(* every frame within the cap is handled whole, and what is handled beside  *)
(* whole lines is a tail.                                                   *)
(***************************************************************************)
EXTENDS LineReader, TLAPS

Pairs   == Positions \X Positions
Numbers == /\ newlines \subseteq 1 .. StreamBytes
           /\ lo \in Positions /\ hi \in Positions /\ lo <= hi
           /\ eof \in BOOLEAN /\ paused \in BOOLEAN /\ ended \in BOOLEAN
History == handled \in Seq(Pairs)

\* The type invariant is the numbers and the history.
LEMMA TypeParts == TypeOK <=> Numbers /\ History
  BY DEF TypeOK, Numbers, History, Pairs

\* What Append adds, and what it leaves alone.
LEMMA Appended ==
  ASSUME NEW S, NEW q \in Seq(S), NEW x \in S
  PROVE  /\ Append(q, x) \in Seq(S)
         /\ DOMAIN Append(q, x) = 1 .. Len(q) + 1 /\ DOMAIN q = 1 .. Len(q) /\ Len(q) \in Nat
         /\ \A i \in DOMAIN q : Append(q, x)[i] = q[i]
         /\ Append(q, x)[Len(q) + 1] = x
  OBVIOUS

\* The buffer: while the transport reads, at most twice the limit is in it.
FlowInv == /\ hi - lo <= 2 * Limit + ChunkBytes
           /\ ~paused => hi - lo <= 2 * Limit
           /\ eof => hi = StreamBytes

\* What a step may add to handled: the bytes from lo to a place in the buffer.
Adds == \/ handled' = handled
        \/ \E e \in lo .. hi : handled' = Append(handled, <<lo, e>>)

\* Handling a stretch of the buffer keeps the history well formed.
LEMMA HistoryKept ==
  ASSUME Numbers, History, Adds
  PROVE  History'
<1>1. \A e \in lo .. hi : <<lo, e>> \in Pairs
  BY ReaderAssumption DEF Numbers, Pairs, Positions
<1>2. CASE handled' = handled
  BY <1>2 DEF History
<1>3. ASSUME NEW e \in lo .. hi, handled' = Append(handled, <<lo, e>>)
      PROVE  History'
  BY <1>1, <1>3, Appended DEF History
<1> QED BY <1>2, <1>3 DEF Adds

\* The reader starts with well-formed numbers, history and flow.
LEMMA Types == Init => Numbers /\ History /\ FlowInv
<1> SUFFICES ASSUME Init PROVE Numbers /\ History /\ FlowInv
  OBVIOUS
<1> DEFINE L == MaxFrameBytes + Slack
<1>1. Numbers
  <2>1. newlines \subseteq 1 .. StreamBytes
    BY DEF Init
  <2>2. 0 \in Positions
    BY ReaderAssumption DEF Positions
  <2>3. lo \in Positions /\ hi \in Positions /\ lo <= hi
    BY <2>2 DEF Init, Positions
  <2> QED BY <2>1, <2>3, Zenon DEF Init, Numbers
<1>. L \in Nat
  BY ReaderAssumption
<1>3. FlowInv
  BY ReaderAssumption DEF Init, FlowInv, Limit
<1>2. History
  BY DEF Init, History
<1> QED BY <1>1, <1>2, <1>3

\* What consuming up to e, at or behind lo, leaves of the two invariants.
LEMMA Consuming ==
  ASSUME Numbers, FlowInv, NEW e \in lo .. hi, Consume(e)
  PROVE  Numbers' /\ FlowInv' /\ lo' = e /\ hi' = hi /\ newlines' = newlines
  BY ReaderAssumption DEF Numbers, FlowInv, Consume, Positions, Limit

\* A step of the loop consumes up to some e, and may give the handler what it consumed.
LEMMA LoopStep ==
  ASSUME Numbers, FlowInv, ReadLine \/ Overrun \/ (ReadEnd /\ lo # hi)
  PROVE  \E e \in lo .. hi : Consume(e) /\ (handled' = handled \/ handled' = Append(handled, <<lo, e>>))
<1>1. CASE ReadLine
  <2>1. PICK e \in InBuffer :
          /\ Consume(e)
          /\ IF e - lo - 1 > Limit THEN UNCHANGED handled ELSE Handle(lo, e)
    BY <1>1 DEF ReadLine
  <2>2. e \in lo .. hi
    BY ReaderAssumption DEF Numbers, InBuffer, Positions
  <2> QED BY <2>1, <2>2 DEF Handle
<1>2. CASE Overrun
  <2>1. hi \in lo .. hi
    BY ReaderAssumption DEF Numbers, Positions
  <2> QED BY <1>2, <2>1 DEF Overrun
<1>3. CASE ReadEnd /\ lo # hi
  <2>1. hi \in lo .. hi
    BY ReaderAssumption DEF Numbers, Positions
  <2> QED BY <1>3, <2>1 DEF ReadEnd
<1> QED BY <1>1, <1>2, <1>3

\* Every step keeps the numbers, the history and the flow, and changes the
\* history by adding to it only.
LEMMA TypesKept ==
  Numbers /\ History /\ FlowInv /\ [Next]_vars => (Numbers /\ History /\ FlowInv)' /\ (UNCHANGED vars \/ Adds)
<1> SUFFICES ASSUME Numbers, History, FlowInv, [Next]_vars
             PROVE  (Numbers /\ History /\ FlowInv)' /\ (UNCHANGED vars \/ Adds)
  OBVIOUS
<1>1. CASE FeedData
  <2>1. PICK n \in 1 .. ChunkBytes :
          hi + n <= StreamBytes /\ hi' = hi + n /\ paused' = (hi' - lo > 2 * Limit)
    BY <1>1 DEF FeedData
  <2>2. hi' \in Positions /\ lo <= hi' /\ paused' \in BOOLEAN
    BY <2>1, ReaderAssumption DEF Numbers, Positions
  <2>3. Numbers' /\ handled' = handled
    BY <1>1, <2>2 DEF FeedData, Numbers
  <2>4. Limit \in Nat /\ lo \in Nat /\ hi \in Nat /\ ChunkBytes \in Nat
    BY ReaderAssumption DEF Limit, Numbers, Positions
  <2>5. hi - lo <= 2 * Limit /\ lo' = lo /\ ~eof'
    BY <1>1 DEF FeedData, FlowInv
  <2>6. FlowInv'
    <3>1. hi' - lo <= 2 * Limit + ChunkBytes
      BY <2>1, <2>4, <2>5
    <3>2. ~paused' => hi' - lo <= 2 * Limit
      <4>1. hi' - lo > 2 * Limit \/ hi' - lo <= 2 * Limit
        BY <2>1, <2>4
      <4>2. hi' - lo > 2 * Limit => paused'
        BY <2>1, Zenon
      <4> QED BY <4>1, <4>2, Zenon
    <3>3. UNCHANGED <<Limit, ChunkBytes, StreamBytes>>
      BY DEF Limit
    <3> QED BY <2>5, <3>1, <3>2, <3>3, Zenon DEF FlowInv
  <2> QED BY <2>3, <2>6, HistoryKept DEF Adds
<1>2. CASE FeedEof
  <2>1. Numbers' /\ handled' = handled
    BY <1>2 DEF FeedEof, Numbers
  <2>2. FlowInv'
    BY <1>2 DEF FeedEof, FlowInv
  <2> QED BY <2>1, <2>2, HistoryKept DEF Adds
<1>3. CASE ReadLine \/ Overrun \/ (ReadEnd /\ lo # hi)
  <2>1. PICK e \in lo .. hi : Consume(e) /\ (handled' = handled \/ handled' = Append(handled, <<lo, e>>))
    BY <1>3, LoopStep
  <2>2. Adds
    BY <2>1 DEF Adds
  <2> QED BY <2>1, <2>2, Consuming, HistoryKept
<1>4. CASE ReadEnd /\ lo = hi
  <2>1. Numbers' /\ FlowInv' /\ handled' = handled
    BY <1>4, ReaderAssumption DEF ReadEnd, Numbers, FlowInv, Positions, Limit
  <2> QED BY <2>1, HistoryKept DEF Adds
<1>5. CASE UNCHANGED vars
  BY <1>5 DEF vars, Numbers, History, FlowInv
<1> QED BY <1>1, <1>2, <1>3, <1>4, <1>5 DEF Next

\* The reader's state keeps its type.
THEOREM ReaderTypes == Spec => []TypeOK
  BY Types, TypesKept, TypeParts, PTL DEF Spec

\* Flow control keeps the reader's buffer within twice its limit and one chunk.
THEOREM BufferIsBounded == Spec => []BufferBounded
<1>1. FlowInv => BufferBounded
  BY DEF FlowInv, BufferBounded
<1> QED BY Types, TypesKept, <1>1, PTL DEF Spec

----------------------------------------------------------------------------

\* b starts the line that position p is in, or is p.
Starts(b, p) == /\ b \in newlines \cup {0} /\ b <= p
                /\ \A f \in newlines : f <= b \/ p < f

\* The loop stands at the start of a line, or so far within one that the line
\* is over the limit, or at the end of the stream.
Placed(b)  == Starts(b, lo) /\ (b = lo \/ lo - b > Limit \/ lo = StreamBytes)
PlaceInv   == \E b \in Positions : Placed(b)

\* What OnlyTails says of one entry, given the newlines; and FitsHandled of one line.
TailIn(n, s, e) == LET Line(b) == /\ b \in n \cup {0} /\ e \in n /\ b < e
                                  /\ \A f \in n : f <= b \/ e <= f
                   IN \/ Line(s)
                      \/ e = StreamBytes /\ e \notin n
                      \/ \E b \in n \cup {0} : Line(b) /\ e - b > Limit
Fits(s, e) == IsLine(s, e) /\ 1 < e - s /\ e - s <= MaxFrameBytes

\* The positions of the stream are natural numbers.
LEMMA Ints ==
  ASSUME Numbers
  PROVE  /\ lo \in Nat /\ hi \in Nat /\ StreamBytes \in Nat /\ Limit \in Nat /\ MaxFrameBytes \in Nat
         /\ MaxFrameBytes <= Limit
         /\ \A p \in Positions : p \in Nat /\ p <= StreamBytes
         /\ \A f \in newlines : f \in Nat /\ 0 < f /\ f \in Positions
         /\ 0 \in Positions
  BY ReaderAssumption DEF Numbers, Positions, Limit

\* Two starts of the line that lo is in are the same.
LEMMA StartUnique ==
  ASSUME Numbers, NEW b \in Positions, NEW s \in Positions, NEW e \in Positions,
         Starts(b, lo), IsLine(s, e), s <= lo, lo < e
  PROVE  b = s
  BY Ints DEF Starts, IsLine

\* What was handled stays handled.
LEMMA StillGiven ==
  ASSUME Numbers, History, Adds, NEW s, NEW e, Given(s, e)
  PROVE  Given(s, e)'
<1>1. \A x \in lo .. hi : <<lo, x>> \in Pairs
  BY ReaderAssumption DEF Numbers, Pairs, Positions
<1>2. CASE handled' = handled
  BY <1>2 DEF Given
<1>3. ASSUME NEW x \in lo .. hi, handled' = Append(handled, <<lo, x>>)
      PROVE  Given(s, e)'
  <2>1. PICK i \in DOMAIN handled : handled[i] = <<s, e>>
    BY DEF Given
  <2>2. i \in DOMAIN handled' /\ handled'[i] = <<s, e>>
    BY <1>1, <1>3, <2>1, Appended DEF History
  <2> QED BY <2>2 DEF Given
<1> QED BY <1>2, <1>3 DEF Adds

\* A stretch that is added to the history has been handled.
LEMMA NowGiven ==
  ASSUME Numbers, History, NEW s, s = lo, NEW e \in lo .. hi, handled' = Append(handled, <<lo, e>>)
  PROVE  Given(s, e)'
<1>1. <<lo, e>> \in Pairs
  BY ReaderAssumption DEF Numbers, Pairs, Positions
<1>2. Len(handled) + 1 \in DOMAIN handled' /\ handled'[Len(handled) + 1] = <<s, e>>
  BY <1>1, Appended DEF History
<1> QED BY <1>2 DEF Given

\* Handling a whole line or a tail keeps the fact that nothing else is handled.
LEMMA TailsKept ==
  ASSUME Numbers, History, OnlyTails, newlines' = newlines, NEW e \in lo .. hi,
         handled' = handled \/ (handled' = Append(handled, <<lo, e>>) /\ TailIn(newlines, lo, e))
  PROVE  OnlyTails'
<1>1. ASSUME NEW i \in DOMAIN handled PROVE TailIn(newlines, handled[i][1], handled[i][2])
  BY <1>1 DEF OnlyTails, TailIn, IsLine
<1>2. <<lo, e>> \in Pairs
  BY ReaderAssumption DEF Numbers, Pairs, Positions
<1>3. ASSUME NEW i \in DOMAIN handled' PROVE TailIn(newlines, handled'[i][1], handled'[i][2])
  <2>1. CASE handled' = handled
    BY <1>1, <1>3, <2>1
  <2>2. CASE handled' = Append(handled, <<lo, e>>) /\ TailIn(newlines, lo, e)
    <3>1. i \in DOMAIN handled \/ i = Len(handled) + 1
      BY <1>2, <2>2, Appended DEF History
    <3>2. CASE i \in DOMAIN handled
      <4>1. handled'[i] = handled[i]
        BY <1>2, <2>2, <3>2, Appended DEF History
      <4> QED BY <1>1, <3>2, <4>1
    <3>3. CASE i = Len(handled) + 1
      <4>1. handled'[i] = <<lo, e>>
        BY <1>2, <2>2, <3>3, Appended DEF History
      <4> QED BY <2>2, <4>1
    <3> QED BY <3>1, <3>2, <3>3
  <2> QED BY <2>1, <2>2
<1>4. \A i \in DOMAIN handled' : TailIn(newlines', handled'[i][1], handled'[i][2])
  BY <1>3
<1> QED BY <1>4 DEF OnlyTails, TailIn, IsLine, Limit

Inv == Numbers /\ History /\ FlowInv /\ PlaceInv /\ FitsHandled /\ OnlyTails

\* The next newline behind lo: the line that ends there is short only if it begins at lo.
LEMMA LineRead ==
  ASSUME Numbers, History, FlowInv, PlaceInv, FitsHandled, OnlyTails, ReadLine
  PROVE  PlaceInv' /\ FitsHandled' /\ OnlyTails'
<1>1. PICK e \in InBuffer :
        /\ \A f \in InBuffer : e <= f
        /\ Consume(e)
        /\ IF e - lo - 1 > Limit THEN UNCHANGED handled ELSE Handle(lo, e)
  BY DEF ReadLine
<1>2. e \in lo .. hi /\ e \in newlines /\ lo < e /\ e \in Positions /\ newlines' = newlines /\ lo' = e
  BY <1>1, Ints DEF InBuffer, Consume
<1>3. \A f \in newlines : f <= lo \/ e <= f
  BY <1>1, <1>2, Ints DEF InBuffer, Numbers, Positions
<1>4. PICK b \in Positions : Placed(b)
  BY DEF PlaceInv
<1>5. IsLine(b, e)
  BY <1>2, <1>3, <1>4, Ints DEF Placed, Starts, IsLine
<1>6. b = lo \/ e - b > Limit
  BY <1>2, <1>4, Ints DEF Placed, Starts
<1>7. handled' = handled \/ handled' = Append(handled, <<lo, e>>)
  BY <1>1 DEF Handle
<1>8. Adds
  BY <1>2, <1>7 DEF Adds
<1>9. PlaceInv'
  <2>1. Starts(e, e)'
    BY <1>2, <1>3, Ints DEF Starts
  <2> QED BY <1>2, <2>1 DEF PlaceInv, Placed
<1>10. FitsHandled'
  <2> SUFFICES ASSUME NEW s \in Positions, NEW x \in Positions, Fits(s, x), x <= e
               PROVE  Given(s, x)'
    BY <1>2 DEF FitsHandled, Fits, IsLine
  <2>1. CASE x <= lo
    BY <2>1, <1>8, StillGiven DEF FitsHandled, Fits
  <2>2. CASE lo < x
    <3>1. x = e
      BY <1>2, <1>3, <2>2, Ints DEF Fits, IsLine
    <3>2. s <= lo
      BY <1>3, <3>1, <1>2, <2>2, Ints DEF Fits, IsLine
    <3>3. s = b
      BY <1>4, <2>2, <3>2, StartUnique DEF Placed, Fits
    <3>4. b = lo
      BY <1>6, <3>1, <3>3, Ints DEF Fits
    <3>5. handled' = Append(handled, <<lo, e>>)
      BY <1>1, <3>1, <3>3, <3>4, Ints DEF Fits, Handle
    <3> QED BY <1>2, <3>1, <3>3, <3>4, <3>5, NowGiven
  <2> QED BY <2>1, <2>2, Ints
<1>11. OnlyTails'
  <2>1. TailIn(newlines, lo, e)
    BY <1>2, <1>4, <1>5, <1>6 DEF TailIn, IsLine, Placed, Starts
  <2> QED BY <1>2, <1>7, <2>1, TailsKept
<1> QED BY <1>9, <1>10, <1>11

\* Without a newline in the buffer, no line ends up to hi that did not end up to lo.
LEMMA NoLineHere ==
  ASSUME Numbers, History, FitsHandled, Adds, InBuffer = {}, lo' = hi, newlines' = newlines
  PROVE  FitsHandled'
<1>1. \A f \in newlines : f <= lo \/ hi < f
  BY Ints DEF InBuffer
<1> SUFFICES ASSUME NEW s \in Positions, NEW x \in Positions, Fits(s, x), x <= hi
             PROVE  Given(s, x)'
  BY DEF FitsHandled, Fits, IsLine
<1>2. x <= lo
  BY <1>1, Ints DEF Fits, IsLine
<1> QED BY <1>2, StillGiven DEF FitsHandled, Fits

\* Discarding an overlong buffer keeps where the reader stands in the stream.
LEMMA Overran ==
  ASSUME Numbers, History, FlowInv, PlaceInv, FitsHandled, OnlyTails, Overrun
  PROVE  PlaceInv' /\ FitsHandled' /\ OnlyTails'
<1>1. InBuffer = {} /\ hi - lo > Limit /\ lo' = hi /\ newlines' = newlines /\ handled' = handled
  BY DEF Overrun, Consume
<1>2. PICK b \in Positions : Placed(b)
  BY DEF PlaceInv
<1>3. Placed(b)'
  <2>1. \A f \in newlines : f <= lo \/ hi < f
    BY <1>1, Ints DEF InBuffer
  <2>2. Starts(b, hi) /\ hi - b > Limit
    BY <1>1, <1>2, <2>1, Ints DEF Placed, Starts
  <2> QED BY <1>1, <2>2 DEF Placed, Starts, Limit
<1>4. Adds /\ hi \in lo .. hi
  BY <1>1, Ints DEF Adds, Numbers
<1> QED BY <1>1, <1>2, <1>3, <1>4, NoLineHere, TailsKept DEF PlaceInv

\* The last, unterminated stretch keeps where the reader stands in the stream.
LEMMA EndRead ==
  ASSUME Numbers, History, FlowInv, PlaceInv, FitsHandled, OnlyTails, ReadEnd, lo # hi
  PROVE  PlaceInv' /\ FitsHandled' /\ OnlyTails'
<1>1. /\ InBuffer = {} /\ hi = StreamBytes /\ lo' = hi /\ newlines' = newlines
      /\ handled' = handled \/ handled' = Append(handled, <<lo, hi>>)
  BY DEF ReadEnd, Consume, FlowInv
<1>2. hi \in lo .. hi /\ lo < hi
  BY Ints DEF Numbers
<1>3. \A f \in newlines : f <= lo \/ hi < f
  BY <1>1, Ints DEF InBuffer
<1>4. PICK b \in Positions : Placed(b)
  BY DEF PlaceInv
<1>5. Placed(b)'
  <2>1. Starts(b, hi)
    BY <1>2, <1>3, <1>4, Ints DEF Placed, Starts
  <2> QED BY <1>1, <2>1 DEF Placed, Starts
<1>6. Adds
  BY <1>1, <1>2 DEF Adds
<1>7. TailIn(newlines, lo, hi)
  <2>1. hi \notin newlines
    BY <1>2, <1>3, Ints
  <2> QED BY <1>1, <2>1 DEF TailIn
<1> QED BY <1>1, <1>2, <1>4, <1>5, <1>6, <1>7, NoLineHere, TailsKept DEF PlaceInv

\* The invariant of the reader holds at the start.
LEMMA InvInit == Init => Inv
<1> SUFFICES ASSUME Init PROVE Inv
  OBVIOUS
<1>1. Numbers /\ History /\ FlowInv
  BY Types
<1>2. PlaceInv
  <2>1. 0 \in Positions /\ lo = 0 /\ \A f \in newlines : 0 < f
    BY <1>1, Ints DEF Init
  <2>2. Starts(0, lo)
    BY <2>1 DEF Starts
  <2> QED BY <2>1, <2>2 DEF PlaceInv, Placed
<1>3. FitsHandled
  <2>1. \A e \in newlines : ~(e <= lo)
    BY <1>1, Ints DEF Init
  <2> QED BY <2>1 DEF FitsHandled, IsLine
<1>4. OnlyTails
  BY DEF Init, OnlyTails
<1> QED BY <1>1, <1>2, <1>3, <1>4 DEF Inv

\* Every step of the host and of the reader keeps the invariant.
LEMMA InvKept == Inv /\ [Next]_vars => Inv'
<1> SUFFICES ASSUME Inv, [Next]_vars PROVE Inv'
  OBVIOUS
<1>1. (Numbers /\ History /\ FlowInv)'
  BY TypesKept DEF Inv
<1>2. CASE FeedData \/ FeedEof \/ (ReadEnd /\ lo = hi) \/ UNCHANGED vars
  <2>1. UNCHANGED <<newlines, lo, handled>>
    BY <1>2 DEF FeedData, FeedEof, ReadEnd, vars
  <2> QED BY <1>1, <2>1 DEF Inv, PlaceInv, Placed, Starts, FitsHandled, OnlyTails, IsLine, Given, Limit
<1>3. CASE ReadLine
  BY <1>1, <1>3, LineRead DEF Inv
<1>4. CASE Overrun
  BY <1>1, <1>4, Overran DEF Inv
<1>5. CASE ReadEnd /\ lo # hi
  BY <1>1, <1>5, EndRead DEF Inv
<1> QED BY <1>2, <1>3, <1>4, <1>5 DEF Next

\* Every frame within the cap that the loop has passed was handled, whole.
THEOREM FramesAreHandled == Spec => []FitsHandled
<1>1. Inv => FitsHandled
  BY DEF Inv
<1> QED BY InvInit, InvKept, <1>1, PTL DEF Spec

\* What is handled is a line, the tail of a line over the limit, or the rest of
\* a stream that ends within a line.
THEOREM OnlyTailsAreHandled == Spec => []OnlyTails
<1>1. Inv => OnlyTails
  BY DEF Inv
<1> QED BY InvInit, InvKept, <1>1, PTL DEF Spec
=============================================================================
