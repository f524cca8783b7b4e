----------------------------- MODULE LineReader -----------------------------
(***************************************************************************)
(* How `PluginAdapter.run` cuts stdin into frames (adapter.py), on top of   *)
(* asyncio's StreamReader: chunks of any size, a limit above which readline *)
(* gives up, a smaller cap above which the loop drops the line, flow        *)
(* control, and an end of stdin that may come within a line.                *)
(*                                                                          *)
(* A byte is its position in the stream, and is a newline or not; the       *)
(* reader's buffer holds the positions lo + 1 to hi.                        *)
(***************************************************************************)
EXTENDS Integers, Sequences

CONSTANTS
  MaxFrameBytes,   \* `max_frame_bytes`
  Slack,           \* what run adds to it for the reader's limit: 64 KiB in the code
  ChunkBytes,      \* how much one read of the pipe may return
  StreamBytes      \* bound: the length of the stream

ASSUME ReaderAssumption == /\ MaxFrameBytes \in Nat \ {0} /\ Slack \in Nat
                           /\ ChunkBytes \in Nat \ {0} /\ StreamBytes \in Nat

VARIABLES
  newlines,  \* where the newlines of the stream are
  lo, hi,    \* what was consumed, what was fed
  eof,       \* whether the end of the stream was fed
  paused,    \* whether the transport is paused
  handled,   \* what _handle_line was given: from behind which byte, up to which
  ended      \* whether the loop left

vars == <<newlines, lo, hi, eof, paused, handled, ended>>

Limit     == MaxFrameBytes + Slack
Positions == 0 .. StreamBytes
InBuffer  == {e \in newlines : lo < e /\ e <= hi}

TypeOK == /\ newlines \subseteq 1 .. StreamBytes
          /\ lo \in Positions /\ hi \in Positions /\ lo <= hi
          /\ eof \in BOOLEAN /\ paused \in BOOLEAN /\ ended \in BOOLEAN
          /\ handled \in Seq(Positions \X Positions)

Init == /\ newlines \in SUBSET (1 .. StreamBytes)
        /\ lo = 0 /\ hi = 0
        /\ eof = FALSE /\ paused = FALSE /\ ended = FALSE
        /\ handled = <<>>

----------------------------------------------------------------------------
(* The pipe *)

\* A chunk arrives; the transport is paused when the buffer is over twice the
\* limit.
FeedData ==
  /\ ~paused /\ ~eof /\ ~ended
  /\ \E n \in 1 .. ChunkBytes :
       /\ hi + n <= StreamBytes
       /\ hi' = hi + n
       /\ paused' = (hi' - lo > 2 * Limit)
  /\ UNCHANGED <<newlines, lo, eof, handled, ended>>

FeedEof ==
  /\ ~paused /\ ~eof /\ ~ended /\ hi = StreamBytes
  /\ eof' = TRUE
  /\ UNCHANGED <<newlines, lo, hi, paused, handled, ended>>

----------------------------------------------------------------------------
(* readline and the loop *)

\* Mutant: the transport is resumed only once the buffer is empty.
Consume_Late(e) == /\ lo' = e
                   /\ paused' = (paused /\ e < hi)
                   /\ UNCHANGED <<newlines, hi, eof, ended>>

\* The buffer is consumed up to e, and the transport resumed when little is left.
Consume(e) == /\ lo' = e
              /\ paused' = (paused /\ hi - e > Limit)
              /\ UNCHANGED <<newlines, hi, eof, ended>>

\* Mutant: a frame of exactly the cap, with its newline, is dropped.
Handle_Counts(s, e) ==
  handled' = IF e - s < MaxFrameBytes THEN Append(handled, <<s, e>>) ELSE handled

\* A line with its newline: dropped over the cap, skipped when it is blank.
Handle(s, e) ==
  handled' = IF e - s <= MaxFrameBytes /\ e - s # 1
               THEN Append(handled, <<s, e>>) ELSE handled

\* The first newline of the buffer ends a line; readline raises, having
\* consumed it, when the line is over the limit.
ReadLine ==
  /\ ~ended
  /\ \E e \in InBuffer :
       /\ \A f \in InBuffer : e <= f
       /\ Consume(e)
       /\ IF e - lo - 1 > Limit THEN UNCHANGED handled ELSE Handle(lo, e)

\* Mutant: what is read up to the limit is handled as a line.
Overrun_Handles ==
  /\ ~ended /\ InBuffer = {} /\ hi - lo > Limit
  /\ Consume(hi)
  /\ handled' = Append(handled, <<lo, hi>>)

\* No newline and more than the limit: readline clears the buffer and raises,
\* and the loop reads on in the middle of the line.
Overrun ==
  /\ ~ended /\ InBuffer = {} /\ hi - lo > Limit
  /\ Consume(hi)
  /\ UNCHANGED handled

\* The end of the stream: what is left is a line too; with nothing left the
\* loop leaves.
ReadEnd ==
  /\ ~ended /\ eof /\ InBuffer = {} /\ hi - lo <= Limit
  /\ IF lo = hi
       THEN ended' = TRUE /\ UNCHANGED <<newlines, lo, hi, eof, paused, handled>>
       ELSE /\ Consume(hi)
            /\ handled' = IF hi - lo <= MaxFrameBytes
                            THEN Append(handled, <<lo, hi>>) ELSE handled

Next == FeedData \/ FeedEof \/ ReadLine \/ Overrun \/ ReadEnd

Spec == Init /\ [][Next]_vars

\* The host writes its stream and closes it; the event loop runs what is ready.
FairSpec == Spec /\ WF_vars(Next)

----------------------------------------------------------------------------
(* Properties *)

\* A line of the stream: from behind a newline to the next.
IsLine(s, e) == /\ s \in newlines \cup {0} /\ e \in newlines /\ s < e
                /\ \A f \in newlines : f <= s \/ e <= f

Given(s, e) == \E i \in DOMAIN handled : handled[i] = <<s, e>>

\* Every frame within the cap is handled, whole, whatever its chunks were and
\* however oversized its neighbours are.
FitsHandled ==
  \A s, e \in Positions :
    IsLine(s, e) /\ e <= lo /\ 1 < e - s /\ e - s <= MaxFrameBytes => Given(s, e)

\* What is handled and is no whole line is the tail of a line over the reader's
\* limit, or of a stream that ends within a line.
OnlyTails ==
  \A i \in DOMAIN handled : LET s == handled[i][1] e == handled[i][2] IN
    \/ IsLine(s, e)
    \/ e = StreamBytes /\ e \notin newlines
    \/ \E b \in newlines \cup {0} : IsLine(b, e) /\ e - b > Limit

\* The buffer stays within twice the limit and a chunk.
BufferBounded == hi - lo <= 2 * Limit + ChunkBytes

\* Flow control never stops for good: the stream is read to its end.
ReadsOn == <>ended

\* "Maximum byte length of a single inbound JSON-RPC frame the SDK accepts"
\* (wire.py:15): a frame of that length, its newline aside, is handled.
CapIsExact ==
  \A s, e \in Positions :
    IsLine(s, e) /\ e <= lo /\ 1 < e - s /\ e - s - 1 <= MaxFrameBytes => Given(s, e)

\* An oversized frame is dropped, not cut: every line that is handled was sent.
OnlyWhole == \A i \in DOMAIN handled : IsLine(handled[i][1], handled[i][2])
============================================================================
