-------------------------- MODULE StdoutGuard_proofs --------------------------
(***************************************************************************)
(* For any threads, adapters, texts and number of writes: no complete line  *)
(* stays in a guard's buffer, the guard is removed, nothing is lost as long *)
(* as no write overlaps another, and, when one adapter serves at a time,    *)
(* the wire of each of them is clean.                                       *)
(***************************************************************************)
EXTENDS StdoutGuard, SequenceTheorems, TLAPS

Lives == {"new", "failed", "stuck", "serving", "leaving", "over"}

\* Who is where; the texts of the buffers are not told apart.
Shape == /\ stdout \in Adapters \cup {Original}
         /\ DOMAIN buf = Adapters
         /\ DOMAIN pc = Threads /\ DOMAIN on = Threads /\ DOMAIN line = Threads
         /\ \A t \in Threads : pc[t] # "idle" => on[t] \in Adapters
         /\ life \in [Adapters -> Lives]

\* A buffer with a newline has a thread at work on it.
AtWork == \A a \in Adapters : Has(buf[a], "nl") => \E t \in Threads : pc[t] # "idle" /\ on[t] = a

\* A guard that is installed belongs to an adapter that has not released it.
Owned == stdout # Original => \E a \in Adapters : life[a] \in {"serving", "leaving", "stuck"}

GuardInv == Shape /\ AtWork /\ Owned

\* An empty buffer holds no token.
LEMMA NoneInEmpty == ASSUME NEW k PROVE ~Has(<<>>, k)
  BY DEF Has

\* No thread is inside write and no guard is installed at the start.
LEMMA GuardInit == Init => GuardInv
  BY NoneInEmpty, GuardAssumption DEF Init, GuardInv, Shape, AtWork, Owned, Lives

\* The entry into write keeps the invariant of the guard.
LEMMA BeginKeeps ==
  ASSUME GuardInv, NEW t \in Threads, NEW text, Begin(t, text)
  PROVE  GuardInv'
<1>1. Shape' /\ Owned'
  BY GuardAssumption DEF GuardInv, Shape, Owned, Begin
<1>2. CASE stdout = Original
  BY <1>1, <1>2 DEF Begin, GuardInv, AtWork
<1>3. CASE stdout # Original
  <2>1. /\ pc'[t] # "idle" /\ on'[t] = stdout /\ pc[t] = "idle"
        /\ \A u \in Threads \ {t} : pc'[u] = pc[u] /\ on'[u] = on[u]
        /\ \A a \in Adapters \ {stdout} : buf'[a] = buf[a]
    BY <1>3 DEF Begin, GuardInv, Shape
  <2>2. AtWork'
    BY <2>1 DEF GuardInv, AtWork
  <2> QED BY <1>1, <2>2 DEF GuardInv
<1> QED BY <1>2, <1>3

\* Looking for the newline keeps the invariant of the guard.
LEMMA FindKeeps ==
  ASSUME GuardInv, NEW t \in Threads, Find(t)
  PROVE  GuardInv'
<1>1. /\ buf' = buf /\ life' = life /\ stdout' = stdout
      /\ pc[t] # "idle" /\ DOMAIN pc' = Threads /\ DOMAIN line' = Threads /\ DOMAIN on' = Threads
      /\ \A u \in Threads \ {t} : pc'[u] = pc[u] /\ on'[u] = on[u]
      /\ \/ pc'[t] # "idle" /\ on'[t] = on[t]
         \/ pc'[t] = "idle" /\ ~Has(buf[on[t]], "nl")
  BY DEF Find, Return, GuardInv, Shape
<1>2. Shape' /\ Owned'
  BY <1>1 DEF GuardInv, Shape, Owned
<1>3. AtWork'
  BY <1>1 DEF GuardInv, AtWork
<1> QED BY <1>1, <1>2, <1>3 DEF GuardInv

\* Cutting and forwarding leave the thread at work.
LEMMA LineKeeps ==
  ASSUME GuardInv, NEW t \in Threads, Cut(t) \/ Emit(t)
  PROVE  GuardInv'
<1>1. /\ on' = on /\ life' = life /\ stdout' = stdout
      /\ pc[t] # "idle" /\ pc'[t] # "idle" /\ DOMAIN pc' = Threads /\ DOMAIN line' = Threads
      /\ \A u \in Threads \ {t} : pc'[u] = pc[u]
      /\ DOMAIN buf' = Adapters /\ \A a \in Adapters \ {on[t]} : buf'[a] = buf[a]
  BY DEF Cut, Emit, GuardInv, Shape
<1>2. Shape' /\ Owned'
  BY <1>1 DEF GuardInv, Shape, Owned
<1>3. AtWork'
  BY <1>1 DEF GuardInv, AtWork
<1> QED BY <1>2, <1>3 DEF GuardInv

\* Construction, a failed run and the end of a run keep the invariant of the guard.
LEMMA LifeKeeps ==
  ASSUME GuardInv, NEW a \in Adapters, Construct(a) \/ RunFails(a) \/ Leave(a) \/ Left(a)
  PROVE  GuardInv'
<1>. USE DEF unchangedByLife, threadVars, Install
<1>1. Shape'
  BY DEF Construct, RunFails, Leave, Left, GuardInv, Shape, Lives
<1>2. Owned'
  BY DEF Construct, RunFails, Leave, Left, GuardInv, Shape, Owned
<1>3. pc' = pc /\ on' = on
  BY DEF Construct, RunFails, Leave, Left
<1>4. \A b \in Adapters : buf'[b] \in {buf[b], <<>>}
  BY DEF Construct, RunFails, Leave, Left, GuardInv, Shape
<1>5. AtWork'
  BY <1>3, <1>4, NoneInEmpty DEF GuardInv, AtWork
<1> QED BY <1>1, <1>2, <1>5 DEF GuardInv

\* Every step keeps the invariant of the guard.
LEMMA GuardKept == GuardInv /\ [Next]_vars => GuardInv'
<1> SUFFICES ASSUME GuardInv, [Next]_vars PROVE GuardInv'
  OBVIOUS
<1>1. CASE \E t \in Threads : PrintText(t) \/ Find(t) \/ Cut(t) \/ Emit(t)
  BY <1>1, BeginKeeps, FindKeeps, LineKeeps DEF PrintText
<1>2. CASE \E a \in Adapters : Construct(a) \/ RunFails(a) \/ Leave(a) \/ Left(a)
  BY <1>2, LifeKeeps
<1>3. CASE WriteFrame
  <2>1. CASE Bypass
    BY <1>3, <2>1 DEF WriteFrame, threadVars, GuardInv, Shape, AtWork, Owned
  <2>2. CASE ~Bypass
    BY <1>3, <2>2, BeginKeeps DEF WriteFrame
  <2> QED BY <2>1, <2>2
<1>4. CASE UNCHANGED vars
  BY <1>4 DEF vars, threadVars, GuardInv, Shape, AtWork, Owned
<1> QED BY <1>1, <1>2, <1>3, <1>4 DEF Next

\* A complete line leaves the buffer with the write that completed it, or with
\* one that overlapped it.
THEOREM LinesLeave == Spec => []NoLineStuck
<1>1. GuardInv => NoLineStuck
  BY DEF GuardInv, AtWork, NoLineStuck, Idle
<1> QED BY GuardInit, GuardKept, <1>1, PTL DEF Spec

\* The guard is gone once every adapter has failed to construct or is over.
THEOREM GuardIsReleased == Spec => []GuardReleased
<1>1. GuardInv => GuardReleased
  BY DEF GuardInv, Owned, GuardReleased
<1> QED BY GuardInit, GuardKept, <1>1, PTL DEF Spec
----------------------------------------------------------------------------
(* Nothing is lost, as long as no write overlapped another *)

Text == Seq(Token)

\* The texts of the guards, of the threads and of the histories.
Spoken == /\ buf \in [Adapters -> Text] /\ line \in [Threads -> Text] /\ idx \in [Threads -> Nat]
          /\ said \in Text /\ gone \in Text

\* One thread at a time is inside write, at the guard that is installed, with a
\* newline at the index it found; one adapter at a time leaves, while no thread
\* is; and only the installed guard has anything in its buffer.
Alone ==
  /\ \A t, u \in Threads : pc[t] # "idle" /\ pc[u] # "idle" => t = u
  /\ \A t \in Threads : pc[t] # "idle" => on[t] = stdout /\ stdout # Original
  /\ \A t \in Threads : pc[t] = "cut" => idx[t] \in 1 .. Len(buf[stdout]) /\ buf[stdout][idx[t]] = "nl"
  /\ \A a \in Adapters : life[a] = "leaving" => Idle /\ stdout # Original
  /\ \A a, b \in Adapters : life[a] = "leaving" /\ life[b] = "leaving" => a = b
  /\ \A a \in Adapters : a # stdout => buf[a] = <<>>

LossInv == GuardInv /\ Spoken /\ (~raced => Alone) /\ NothingLost

\* Texts join, and joining is associative with the empty text as its unit.
LEMMA Joined ==
  ASSUME NEW r \in Text, NEW s \in Text, NEW t \in Text
  PROVE  /\ r \o s \in Text /\ (r \o s) \o t = r \o (s \o t)
         /\ r \o <<>> = r /\ Append(r, "nl") \in Text /\ <<>> \in Text
<1>1. r \o s \in Text /\ r \o <<>> = r
  BY ConcatProperties, ConcatEmptySeq DEF Text
<1>2. (r \o s) \o t = r \o (s \o t)
  BY ConcatAssociative DEF Text
<1>3. Append(r, "nl") \in Text /\ <<>> \in Text
  BY DEF Text, Token
<1> QED BY <1>1, <1>2, <1>3

\* What plugin code and the SDK hand to write are texts.
LEMMA TextsAreTexts == (\A x \in Texts : Tokens[x] \in Text) /\ <<"frame", "nl">> \in Text
<1>1. Tokens.json = <<"json">> /\ Tokens.junk = <<"junk">> /\ Tokens.newline = <<"nl">>
      /\ Tokens.tail = <<"json", "nl", "junk">> /\ Tokens.pretty = <<"open", "nl", "close", "nl">>
  BY DEF Tokens
<1>2. {<<"json">>, <<"junk">>, <<"nl">>, <<"json", "nl", "junk">>, <<"open", "nl", "close", "nl">>,
       <<"frame", "nl">>} \subseteq Text
  BY DEF Text, Token
<1>3. \A x \in Texts : x \in {"json", "junk", "newline", "tail", "pretty"}
  BY GuardAssumption DEF Tokens
<1> QED BY <1>1, <1>2, <1>3

\* A text cut at one of its newlines is the line, the newline and the rest.
LEMMA CutWhole ==
  ASSUME NEW s \in Text, NEW i \in 1 .. Len(s), s[i] = "nl"
  PROVE  /\ Before(s, i) \in Text /\ After(s, i) \in Text
         /\ Append(Before(s, i), "nl") \o After(s, i) = s
<1>1. /\ Len(s) \in Nat /\ i \in Nat /\ i >= 1 /\ i <= Len(s)
      /\ \A k \in 1 .. Len(s) : s[k] \in Token
  BY DEF Text
<1> DEFINE b == Before(s, i)  c == After(s, i)  a == Append(b, "nl")
<1>2. b = SubSeq(s, 1, i - 1) /\ c = SubSeq(s, i + 1, Len(s))
  BY <1>1 DEF Before, After
<1>3. b \in Seq(Token) /\ Len(b) = i - 1 /\ \A k \in 1 .. i - 1 : b[k] = s[k]
  <2>1. \A k \in 1 .. i - 1 : s[k] \in Token
    BY <1>1
  <2>2. Len(b) = (IF 1 <= i - 1 THEN i - 1 - 1 + 1 ELSE 0) /\ b \in Seq(Token)
        /\ \A k \in 1 .. (i - 1) - 1 + 1 : b[k] = s[1 + k - 1]
    BY <1>1, <1>2, <2>1, SubSeqProperties
  <2> QED BY <1>1, <2>2
<1>4. c \in Seq(Token) /\ Len(c) = Len(s) - i /\ \A k \in 1 .. Len(s) - i : c[k] = s[i + k]
  <2>1. \A k \in i + 1 .. Len(s) : s[k] \in Token
    BY <1>1
  <2>2. Len(c) = (IF i + 1 <= Len(s) THEN Len(s) - (i + 1) + 1 ELSE 0) /\ c \in Seq(Token)
        /\ \A k \in 1 .. Len(s) - (i + 1) + 1 : c[k] = s[i + 1 + k - 1]
    BY <1>1, <1>2, <2>1, SubSeqProperties
  <2> QED BY <1>1, <2>2
<1>5. a \in Seq(Token) /\ Len(a) = i /\ a[i] = "nl" /\ \A k \in 1 .. i - 1 : a[k] = s[k]
  BY <1>1, <1>3 DEF Token
<1> HIDE DEF a, b, c
<1>6. /\ a \o c \in Seq(Token) /\ Len(a \o c) = Len(s)
      /\ \A k \in 1 .. Len(s) : (a \o c)[k] = IF k <= i THEN a[k] ELSE c[k - i]
  <2>1. i + (Len(s) - i) = Len(s)
    BY <1>1
  <2>2. a \in Seq(Token) /\ c \in Seq(Token) /\ Len(a) = i /\ Len(c) = Len(s) - i
    BY <1>4, <1>5
  <2>3. /\ a \o c \in Seq(Token) /\ Len(a \o c) = Len(a) + Len(c)
        /\ \A k \in 1 .. Len(a) + Len(c) : (a \o c)[k] = IF k <= Len(a) THEN a[k] ELSE c[k - Len(a)]
    BY <2>2, ConcatProperties
  <2> QED BY <2>1, <2>2, <2>3
<1>7. \A k \in 1 .. Len(s) : (a \o c)[k] = s[k]
  <2> SUFFICES ASSUME NEW k \in 1 .. Len(s) PROVE (a \o c)[k] = s[k]
    OBVIOUS
  <2>1. CASE k < i
    BY <1>1, <1>5, <1>6, <2>1
  <2>2. CASE k = i
    BY <1>1, <1>5, <1>6, <2>2
  <2>3. CASE k > i
    BY <1>1, <1>4, <1>6, <2>3
  <2>4. k < i \/ k = i \/ k > i
    BY <1>1
  <2> QED BY <2>1, <2>2, <2>3, <2>4
<1>8. a \o c = s
  BY <1>6, <1>7, SeqEqual DEF Text
<1> QED BY <1>3, <1>4, <1>8 DEF Text, a, b, c

\* ... also behind what has left before.
LEMMA CutInHand ==
  ASSUME NEW g \in Text, NEW s \in Text, NEW i \in 1 .. Len(s), s[i] = "nl"
  PROVE  (g \o Append(Before(s, i), "nl")) \o After(s, i) = g \o s
<1>1. PICK b, c : b = Append(Before(s, i), "nl") /\ c = After(s, i)
  OBVIOUS
<1>2. b \in Text /\ c \in Text
  BY <1>1, CutWhole, Joined
<1>3. (g \o b) \o c = g \o (b \o c)
  BY <1>2, ConcatAssociative DEF Text
<1>4. b \o c = s
  BY <1>1, CutWhole
<1> QED BY <1>1, <1>3, <1>4

\* Cutting a text at any index leaves texts.
LEMMA CutText ==
  ASSUME NEW s \in Text, NEW i \in Nat
  PROVE  Before(s, i) \in Text /\ After(s, i) \in Text
<1>1. ASSUME NEW m \in Nat \ {0}, NEW n \in Int, n <= Len(s)
      PROVE  SubSeq(s, m, n) \in Text
  BY <1>1, SubSeqProperties DEF Text
<1>2. Len(s) \in Nat
  BY DEF Text
<1>3. Before(s, i) \in Text
  BY <1>1, <1>2 DEF Before
<1>4. After(s, i) \in Text
  BY <1>1, <1>2 DEF After
<1> QED BY <1>3, <1>4

\* Nothing was said at the start.
LEMMA LossInit == Init => LossInv
<1> SUFFICES ASSUME Init PROVE LossInv
  OBVIOUS
<1>1. GuardInv
  BY GuardInit
<1>2. <<>> \in Text /\ <<>> \o <<>> = <<>>
  BY Joined DEF Text
<1>3. Spoken /\ Alone
  BY <1>2, GuardAssumption DEF Init, Spoken, Alone, Idle
<1>4. NothingLost
  BY <1>2 DEF Init, NothingLost, Held
<1> QED BY <1>1, <1>3, <1>4 DEF LossInv

\* What is handed to write goes behind what the guard holds.
LEMMA BeginLossless ==
  ASSUME LossInv, NEW t \in Threads, NEW text \in Text, Begin(t, text)
  PROVE  LossInv'
<1>1. GuardInv'
  BY BeginKeeps DEF LossInv
<1>2. /\ buf \in [Adapters -> Text] /\ said \in Text /\ gone \in Text
      /\ DOMAIN pc = Threads /\ stdout \in Adapters \cup {Original}
  BY DEF LossInv, Spoken, GuardInv, Shape
<1>3. Spoken'
  <2>1. said' \in Text /\ gone \o text \in Text
    BY <1>2, Joined DEF Begin
  <2>2. stdout # Original => buf[stdout] \o text \in Text
    BY <1>2, Joined
  <2> QED BY <2>1, <2>2 DEF LossInv, Spoken, Begin, Give
<1>4. CASE raced'
  BY <1>1, <1>3, <1>4 DEF LossInv, NothingLost
<1>5. CASE ~raced'
  <2>1. /\ ~raced /\ Idle /\ \A a \in Adapters : life[a] # "leaving"
        /\ life' = life /\ idx' = idx /\ line' = line /\ stdout' = stdout
    BY <1>5 DEF Begin
  <2>2. Alone /\ said = gone \o Held
    BY <2>1 DEF LossInv, NothingLost, Idle
  <2>3. CASE stdout = Original
    <3>1. /\ pc' = pc /\ buf' = buf /\ on' = on /\ said' = said \o text /\ gone' = gone \o text
      BY <2>3 DEF Begin, Give
    <3>2. Held = <<>> /\ Held' = <<>>
      BY <2>1, <2>3 DEF Held
    <3>3. said' = gone' \o Held'
      BY <1>2, <2>2, <3>1, <3>2, Joined
    <3>4. Alone' /\ Idle'
      BY <2>1, <2>2, <3>1 DEF Alone, Idle
    <3>5. NothingLost'
      BY <3>3, <3>4 DEF NothingLost, Idle
    <3> QED BY <1>1, <1>3, <3>4, <3>5 DEF LossInv
  <2>4. CASE stdout # Original
    <3>1. /\ stdout \in Adapters /\ pc[t] = "idle" /\ gone' = gone /\ said' = said \o text
          /\ buf' = [buf EXCEPT ![stdout] = @ \o text]
          /\ pc' = [pc EXCEPT ![t] = "find"] /\ on' = [on EXCEPT ![t] = stdout]
      BY <1>2, <2>4 DEF Begin
    <3>2. Held = buf[stdout] /\ Held' = buf[stdout] \o text
      BY <1>2, <2>1, <2>4, <3>1 DEF Held
    <3>3. said' = gone' \o Held'
      BY <1>2, <2>2, <3>1, <3>2, Joined
    <3>4. pc'[t] = "find" /\ \A u \in Threads \ {t} : pc'[u] = "idle"
      BY <1>2, <2>1, <3>1 DEF Idle
    <3>5. Alone'
      <4>1. on'[t] = stdout
        BY <3>1 DEF LossInv, GuardInv, Shape
      <4>2. \A a \in Adapters : a # stdout => buf'[a] = <<>>
        BY <1>2, <2>2, <3>1 DEF Alone
      <4>3. \A u \in Threads : pc'[u] # "idle" => u = t
        BY <3>4
      <4>4. pc'[t] # "cut" /\ \A a \in Adapters : life'[a] # "leaving"
        BY <2>1, <3>4
      <4> QED BY <2>1, <2>4, <4>1, <4>2, <4>3, <4>4 DEF Alone
    <3>6. NothingLost'
      <4>1. \A u \in Threads : pc'[u] # "emit"
        BY <3>4
      <4> QED BY <3>3, <4>1 DEF NothingLost
    <3> QED BY <1>1, <1>3, <3>5, <3>6 DEF LossInv
  <2> QED BY <2>3, <2>4
<1> QED BY <1>4, <1>5

\* Looking for a newline leaves the texts where they are.
LEMMA FindLossless ==
  ASSUME LossInv, NEW t \in Threads, Find(t)
  PROVE  LossInv'
<1>1. GuardInv'
  BY FindKeeps DEF LossInv
<1>2. /\ pc[t] = "find" /\ DOMAIN pc = Threads /\ stdout' = stdout /\ buf' = buf
      /\ life' = life /\ said' = said /\ gone' = gone /\ raced' = raced /\ Held' = Held
      /\ pc'[t] = "idle" \/ on'[t] = on[t]
  BY DEF Find, Return, LossInv, GuardInv, Shape, Held
<1>3. Spoken'
  <2>1. <<>> \in Text
    BY DEF Text
  <2>2. on[t] \in Adapters
    BY DEF Find, LossInv, GuardInv, Shape
  <2>3. \A i \in 1 .. Len(buf[on[t]]) : i \in Nat
    BY <2>2 DEF LossInv, Spoken, Text
  <2>4. line' \in [Threads -> Text] /\ idx' \in [Threads -> Nat]
    <3>1. CASE Return(t)
      BY <2>1, <3>1 DEF LossInv, Spoken, Return
    <3>2. CASE ~Return(t)
      BY <2>3, <3>2 DEF LossInv, Spoken, Find
    <3> QED BY <3>1, <3>2
  <2> QED BY <1>2, <2>4 DEF LossInv, Spoken
<1>4. CASE raced
  BY <1>1, <1>2, <1>3, <1>4 DEF LossInv, NothingLost
<1>5. CASE ~raced
  <2>1. /\ Alone /\ on[t] = stdout /\ \A u \in Threads \ {t} : pc[u] = "idle"
    BY <1>2, <1>5 DEF LossInv, Alone
  <2>2. said = gone \o Held
    BY <1>2, <1>5, <2>1 DEF LossInv, NothingLost
  <2>3. \A u \in Threads \ {t} : pc'[u] = "idle"
    BY <2>1 DEF Find, Return, LossInv, GuardInv, Shape
  <2>4. pc'[t] # "emit" /\ (pc'[t] = "cut" => idx'[t] \in 1 .. Len(buf[stdout]) /\ buf[stdout][idx'[t]] = "nl")
    BY <1>2, <2>1 DEF Find, Return, LossInv, Spoken, GuardInv, Shape
  <2>5. NothingLost'
    <3>1. \A u \in Threads : pc'[u] # "emit"
      BY <2>3, <2>4
    <3> QED BY <1>2, <2>2, <3>1 DEF NothingLost
  <2>6. Alone'
    <3>1. stdout # Original /\ \A a \in Adapters : life[a] # "leaving"
      BY <1>2, <2>1 DEF Alone, Idle
    <3>2. \A u \in Threads : pc'[u] # "idle" => u = t
      BY <2>3
    <3>3. \A a \in Adapters : a # stdout' => buf'[a] = <<>>
      BY <1>2, <2>1 DEF Alone
    <3>4. \A u \in Threads : pc'[u] = "cut" => idx'[u] \in 1 .. Len(buf'[stdout']) /\ buf'[stdout'][idx'[u]] = "nl"
      BY <1>2, <2>4, <3>2
    <3> QED BY <1>2, <2>1, <3>1, <3>2, <3>3, <3>4 DEF Alone
  <2> QED BY <1>1, <1>3, <2>5, <2>6 DEF LossInv
<1> QED BY <1>4, <1>5

\* The line is taken in hand, and the rest stays.
LEMMA CutLossless ==
  ASSUME LossInv, NEW t \in Threads, Cut(t)
  PROVE  LossInv'
<1>1. GuardInv'
  BY LineKeeps DEF LossInv
<1>2. /\ pc[t] = "cut" /\ DOMAIN pc = Threads /\ pc' = [pc EXCEPT ![t] = "emit"]
      /\ stdout' = stdout /\ on' = on /\ idx' = idx
      /\ life' = life /\ said' = said /\ gone' = gone /\ raced' = raced
      /\ on[t] \in Adapters /\ buf \in [Adapters -> Text] /\ line \in [Threads -> Text]
      /\ idx[t] \in Nat /\ gone \in Text
      /\ line' = [line EXCEPT ![t] = Before(buf[on[t]], idx[t])]
      /\ buf' = [buf EXCEPT ![on[t]] = After(buf[on[t]], idx[t])]
  BY DEF Cut, LossInv, GuardInv, Shape, Spoken
<1>3. Spoken'
  <2>1. Before(buf[on[t]], idx[t]) \in Text /\ After(buf[on[t]], idx[t]) \in Text
    BY <1>2, CutText
  <2> QED BY <1>2, <2>1 DEF LossInv, Spoken
<1>4. CASE raced
  BY <1>1, <1>2, <1>3, <1>4 DEF LossInv, NothingLost
<1>5. CASE ~raced
  <2>1. /\ Alone /\ on[t] = stdout /\ stdout # Original /\ \A u \in Threads \ {t} : pc[u] = "idle"
        /\ idx[t] \in 1 .. Len(buf[stdout]) /\ buf[stdout][idx[t]] = "nl"
        /\ \A a \in Adapters : life[a] # "leaving"
    BY <1>2, <1>5 DEF LossInv, Alone, Idle
  <2>2. said = gone \o buf[stdout]
    BY <1>2, <1>5, <2>1 DEF LossInv, NothingLost, Held
  <2>3. pc'[t] = "emit" /\ \A u \in Threads \ {t} : pc'[u] = "idle"
    BY <1>2, <2>1
  <2>4. line'[t] = Before(buf[stdout], idx[t]) /\ Held' = After(buf[stdout], idx[t])
    BY <1>2, <2>1 DEF Held
  <2>5. (gone \o Append(Before(buf[stdout], idx[t]), "nl")) \o After(buf[stdout], idx[t]) = gone \o buf[stdout]
    BY <1>2, <2>1, CutInHand
  <2>6. said' = (gone' \o Append(line'[t], "nl")) \o Held'
    BY <1>2, <2>2, <2>4, <2>5
  <2>7. NothingLost'
    BY <2>3, <2>6 DEF NothingLost
  <2>8. Alone'
    <3>1. \A a \in Adapters : a # stdout' => buf'[a] = <<>>
      BY <1>2, <2>1 DEF Alone
    <3>2. \A u \in Threads : pc'[u] # "cut" /\ (pc'[u] # "idle" => u = t)
      BY <2>3
    <3>3. on'[t] = stdout' /\ stdout' # Original /\ \A a \in Adapters : life'[a] # "leaving"
      BY <1>2, <2>1
    <3> QED BY <3>1, <3>2, <3>3 DEF Alone
  <2> QED BY <1>1, <1>3, <2>7, <2>8 DEF LossInv
<1> QED BY <1>4, <1>5

\* The line in hand leaves the guard.
LEMMA EmitLossless ==
  ASSUME LossInv, NEW t \in Threads, Emit(t)
  PROVE  LossInv'
<1>1. GuardInv'
  BY LineKeeps DEF LossInv
<1>2. /\ pc[t] = "emit" /\ DOMAIN pc = Threads /\ pc' = [pc EXCEPT ![t] = "find"]
      /\ stdout' = stdout /\ on' = on /\ idx' = idx /\ buf' = buf /\ line' = line
      /\ life' = life /\ said' = said /\ raced' = raced /\ gone' = gone \o Append(line[t], "nl")
      /\ line \in [Threads -> Text] /\ gone \in Text /\ Held' = Held
  BY DEF Emit, Give, LossInv, GuardInv, Shape, Spoken, Held
<1>3. Spoken'
  <2>1. gone' \in Text
    BY <1>2, Joined
  <2> QED BY <1>2, <2>1 DEF LossInv, Spoken
<1>4. CASE raced
  BY <1>1, <1>2, <1>3, <1>4 DEF LossInv, NothingLost
<1>5. CASE ~raced
  <2>1. /\ Alone /\ on[t] = stdout /\ stdout # Original /\ \A u \in Threads \ {t} : pc[u] = "idle"
        /\ \A a \in Adapters : life[a] # "leaving"
    BY <1>2, <1>5 DEF LossInv, Alone, Idle
  <2>2. said' = gone' \o Held'
    BY <1>2, <1>5 DEF LossInv, NothingLost
  <2>3. \A u \in Threads : pc'[u] # "cut" /\ pc'[u] # "emit" /\ (pc'[u] # "idle" => u = t)
    BY <1>2, <2>1
  <2>4. NothingLost'
    BY <2>2, <2>3 DEF NothingLost
  <2>5. Alone'
    BY <1>2, <2>1, <2>3 DEF Alone
  <2> QED BY <1>1, <1>3, <2>4, <2>5 DEF LossInv
<1> QED BY <1>4, <1>5

\* Construction and removal lose nothing: what the buffer holds is written out.
LEMMA LifeLossless ==
  ASSUME LossInv, NEW a \in Adapters, Construct(a) \/ RunFails(a) \/ Leave(a) \/ Left(a)
  PROVE  LossInv'
<1>. USE DEF unchangedByLife, threadVars, Install
<1>1. GuardInv'
  BY LifeKeeps DEF LossInv
<1>2. /\ pc' = pc /\ on' = on /\ idx' = idx /\ line' = line /\ said' = said
      /\ raced' = raced \/ Leave(a)
      /\ stdout \in Adapters \cup {Original} /\ life \in [Adapters -> Lives]
      /\ buf \in [Adapters -> Text] /\ gone \in Text
  BY DEF Construct, RunFails, Leave, Left, LossInv, GuardInv, Shape, Spoken
<1>3. Spoken'
  <2>1. \A b \in Adapters : gone \o buf[b] \in Text
    BY <1>2, Joined
  <2>2. <<>> \in Text
    BY DEF Text
  <2> QED BY <1>2, <2>1, <2>2 DEF Construct, RunFails, Leave, Left, Give, LossInv, Spoken
<1>4. CASE raced'
  BY <1>1, <1>3, <1>4 DEF LossInv, NothingLost
<1>5. CASE ~raced'
  <2>1. ~raced /\ Alone /\ NothingLost
    <3>1. ~raced
      BY <1>5 DEF Construct, RunFails, Leave, Left
    <3> QED BY <3>1 DEF LossInv
  <2>2. CASE Construct(a) \/ RunFails(a)
    <3>1. /\ buf' = buf /\ gone' = gone /\ (stdout' = stdout \/ (stdout = Original /\ stdout' = a))
          /\ \A b \in Adapters : life'[b] = "leaving" <=> life[b] = "leaving"
      BY <1>2, <2>2 DEF Construct, RunFails
    <3>2. Alone'
      BY <1>2, <2>1, <3>1, GuardAssumption DEF Alone, Idle
    <3>3. Held' = Held
      BY <1>2, <2>1, <3>1, GuardAssumption DEF Held, Alone
    <3>4. NothingLost'
      BY <1>2, <1>5, <2>1, <3>1, <3>3 DEF NothingLost
    <3> QED BY <1>1, <1>3, <3>2, <3>4 DEF LossInv
  <2>3. CASE Leave(a)
    <3>1. Idle /\ \A b \in Adapters : life[b] # "leaving"
      BY <1>5, <2>3 DEF Leave
    <3>2. said = gone \o Held /\ buf' = buf
      BY <2>1, <2>3, <3>1 DEF NothingLost, Idle, Leave
    <3>3. CASE stdout = Original \/ buf[stdout] = <<>>
      <4>1. stdout' = Original /\ gone' = gone /\ \A b \in Adapters : life'[b] # "leaving"
        BY <1>2, <2>3, <3>1, <3>3 DEF Leave
      <4>2. Held = <<>> /\ Held' = <<>>
        BY <3>1, <3>3, <4>1 DEF Held
      <4>3. \A b \in Adapters : buf'[b] = <<>>
        <5>1. \A b \in Adapters : b # stdout => buf[b] = <<>>
          BY <2>1 DEF Alone
        <5>2. \A b \in Adapters : stdout = Original => b # stdout
          BY GuardAssumption
        <5> QED BY <3>2, <3>3, <5>1, <5>2
      <4>4. Alone'
        BY <1>2, <3>1, <4>1, <4>3 DEF Alone, Idle
      <4>5. NothingLost'
        BY <1>2, <3>1, <3>2, <4>1, <4>2 DEF NothingLost, Idle
      <4> QED BY <1>1, <1>3, <4>4, <4>5 DEF LossInv
    <3>4. CASE ~(stdout = Original \/ buf[stdout] = <<>>)
      <4>1. /\ stdout' = stdout /\ gone' = gone \o buf[stdout] /\ life'[a] = "leaving"
            /\ \A b \in Adapters \ {a} : life'[b] # "leaving"
        BY <1>2, <2>3, <3>1, <3>4 DEF Leave, Give
      <4>2. Held = buf[stdout] /\ Held' = <<>>
        BY <3>1, <3>4, <4>1 DEF Held
      <4>3. said' = gone' \o Held'
        <5>1. gone' \in Text
          BY <1>3 DEF Spoken
        <5> QED BY <1>2, <3>2, <4>1, <4>2, <5>1, Joined
      <4>4. Alone'
        BY <1>2, <2>1, <3>1, <3>2, <3>4, <4>1 DEF Alone, Idle
      <4>5. NothingLost'
        BY <1>2, <3>1, <4>3 DEF NothingLost, Idle
      <4> QED BY <1>1, <1>3, <4>4, <4>5 DEF LossInv
    <3> QED BY <3>3, <3>4
  <2>4. CASE Left(a)
    <3>1. Idle /\ stdout # Original /\ \A b \in Adapters \ {a} : life[b] # "leaving"
      BY <2>1, <2>4 DEF Alone, Left
    <3>2. /\ gone' = gone /\ stdout' = Original /\ buf' = [buf EXCEPT ![stdout] = <<>>]
          /\ \A b \in Adapters : life'[b] # "leaving"
      BY <1>2, <2>4, <3>1 DEF Left
    <3>3. said = gone \o Held /\ Held = <<>> /\ Held' = <<>>
      BY <2>1, <2>4, <3>1, <3>2 DEF NothingLost, Idle, Held, Left
    <3>4. \A b \in Adapters : buf'[b] = <<>>
      BY <1>2, <2>1, <3>1, <3>2 DEF Alone
    <3>5. Alone'
      BY <1>2, <3>1, <3>2, <3>4 DEF Alone, Idle
    <3>6. NothingLost'
      BY <1>2, <3>1, <3>2, <3>3 DEF NothingLost, Idle
    <3> QED BY <1>1, <1>3, <3>5, <3>6 DEF LossInv
  <2> QED BY <2>2, <2>3, <2>4
<1> QED BY <1>4, <1>5

\* No step loses anything.
LEMMA LossKept == LossInv /\ [Next]_vars => LossInv'
<1> SUFFICES ASSUME LossInv, [Next]_vars PROVE LossInv'
  OBVIOUS
<1>1. CASE \E t \in Threads : PrintText(t) \/ Find(t) \/ Cut(t) \/ Emit(t)
  BY <1>1, BeginLossless, FindLossless, CutLossless, EmitLossless, TextsAreTexts DEF PrintText
<1>2. CASE \E a \in Adapters : Construct(a) \/ RunFails(a) \/ Leave(a) \/ Left(a)
  BY <1>2, LifeLossless
<1>3. CASE WriteFrame
  <2>1. CASE Bypass
    <3>1. GuardInv'
      BY <1>3, GuardKept DEF LossInv, Next
    <3> QED BY <1>3, <2>1, <3>1 DEF WriteFrame, threadVars, LossInv, Spoken, Alone, Idle, NothingLost, Held
  <2>2. CASE ~Bypass
    BY <1>3, <2>2, BeginLossless, TextsAreTexts DEF WriteFrame
  <2> QED BY <2>1, <2>2
<1>4. CASE UNCHANGED vars
  <2>1. GuardInv'
    BY <1>4, GuardKept DEF LossInv
  <2> QED BY <1>4, <2>1 DEF vars, threadVars, LossInv, Spoken, Alone, Idle, NothingLost, Held
<1> QED BY <1>1, <1>2, <1>3, <1>4 DEF Next

\* As long as no write or uninstall overlapped another, the guard loses,
\* repeats and reorders nothing of what plugin code wrote, whatever the
\* threads, adapters and texts.
THEOREM GuardLosesNothing == Spec => []NothingLost
<1>1. LossInv => NothingLost
  BY DEF LossInv
<1> QED BY LossInit, LossKept, <1>1, PTL DEF Spec

----------------------------------------------------------------------------
(* The wire of each adapter in turn *)

Plain == Seq(Token \ {"open"})
Entry == [to : {"wire", "stderr"}, text : Text]

\* WireClean asks nothing once threads raced over a document on several lines.
Calm == ~raced \/ ~Has(said, "open")

\* What the guards and the threads hold was said.
PlainHeld == ~Has(said, "open") => buf \in [Adapters -> Plain] /\ line \in [Threads -> Plain]

\* As long as nothing overlapped, the index is that of the first newline and
\* the line in hand is one line.
OneLine == ~raced => \A t \in Threads : /\ pc[t] = "cut"  => ~Has(Before(buf[on[t]], idx[t]), "nl")
                                        /\ pc[t] = "emit" => ~Has(line[t], "nl")

\* One adapter at a time serves or leaves, and while it serves there is a guard.
OneServes == \A a \in Adapters :
  /\ life[a] \in {"serving", "leaving"} => \A b \in Adapters \ {a} : life[b] \notin {"serving", "leaving"}
  /\ life[a] = "serving" => stdout # Original

\* A guard that is installed and not being removed has kept the wire clean.
LogWhole == /\ log \in Seq(Entry)
            /\ stdout # Original /\ (\A a \in Adapters : life[a] # "leaving") /\ Calm => WireWhole

WireInv == LossInv /\ PlainHeld /\ OneLine /\ OneServes /\ LogWhole

\* A text without an opening token is plain.
LEMMA PlainText == ASSUME NEW s \in Text, ~Has(s, "open") PROVE s \in Plain
<1>1. Len(s) \in Nat /\ \A k \in 1 .. Len(s) : s[k] \in Token \ {"open"}
  BY DEF Text, Has
<1> QED BY <1>1 DEF Text, Plain

\* What two texts hold, they hold when joined.
LEMMA HasJoined ==
  ASSUME NEW s \in Text, NEW t \in Text, NEW k, ~Has(s \o t, k)
  PROVE  ~Has(s, k) /\ ~Has(t, k)
<1>1. /\ Len(s \o t) = Len(s) + Len(t) /\ Len(s) \in Nat /\ Len(t) \in Nat
      /\ \A i \in 1 .. Len(s) + Len(t) : (s \o t)[i] = IF i <= Len(s) THEN s[i] ELSE t[i - Len(s)]
  BY ConcatProperties DEF Text
<1>2. ASSUME NEW i \in 1 .. Len(s) PROVE s[i] # k
  <2>1. i \in 1 .. Len(s \o t) /\ (s \o t)[i] = s[i]
    BY <1>1
  <2> QED BY <2>1 DEF Has
<1>3. ASSUME NEW i \in 1 .. Len(t) PROVE t[i] # k
  <2>1. i + Len(s) \in 1 .. Len(s \o t) /\ (s \o t)[i + Len(s)] = t[i]
    BY <1>1
  <2> QED BY <2>1 DEF Has
<1> QED BY <1>2, <1>3 DEF Has

\* Plain texts join to a plain text.
LEMMA JoinPlain == ASSUME NEW s \in Plain, NEW t \in Plain PROVE s \o t \in Plain
  BY DEF Plain

\* What is cut from a plain text is plain.
LEMMA CutPlain ==
  ASSUME NEW s \in Plain, NEW i \in Nat
  PROVE  Before(s, i) \in Plain /\ After(s, i) \in Plain
<1>1. ASSUME NEW m \in Nat \ {0}, NEW n \in Int, n <= Len(s)
      PROVE  SubSeq(s, m, n) \in Plain
  BY <1>1, SubSeqProperties DEF Plain
<1>2. Len(s) \in Nat
  BY DEF Plain
<1>3. Before(s, i) \in Plain
  BY <1>1, <1>2 DEF Before
<1>4. After(s, i) \in Plain
  BY <1>1, <1>2 DEF After
<1> QED BY <1>3, <1>4

\* A line that passes the check is clean, with the newline that is put behind
\* it, when it is one line or opens no document.
LEMMA LineClean ==
  ASSUME NEW l \in Text, IsJsonLine(l), ~Has(l, "nl") \/ l \in Plain
  PROVE  Clean(Append(l, "nl"))
<1> DEFINE w == Append(l, "nl")
<1>1. /\ Len(l) \in Nat /\ Len(w) = Len(l) + 1 /\ w[Len(l) + 1] = "nl"
      /\ \A k \in 1 .. Len(l) : w[k] = l[k]
  BY DEF Text
<1>2. ~Torn(w)
  <2>1. CASE ~Has(l, "nl")
    <3>1. \A j \in 1 .. Len(l) : w[j] # "nl"
      BY <1>1, <2>1 DEF Has
    <3> QED BY <1>1, <3>1 DEF Torn
  <2>2. CASE l \in Plain
    <3>1. \A k \in 1 .. Len(w) : w[k] # "open"
      BY <1>1, <2>2 DEF Plain
    <3> QED BY <3>1 DEF Torn
  <2> QED BY <2>1, <2>2
<1>3. w # <<>> /\ w[Len(w)] = "nl"
  BY <1>1
<1>4. Blank(w) \/ Document(w)
  <2>1. CASE l = <<>>
    BY <1>1, <2>1 DEF Blank
  <2>2. CASE Document(l)
    BY <1>1, <2>2 DEF Document
  <2> QED BY <2>1, <2>2 DEF IsJsonLine
<1> QED BY <1>2, <1>3, <1>4 DEF Clean

\* A frame is a clean line.
LEMMA FrameClean == Clean(<<"frame", "nl">>)
<1> DEFINE w == <<"frame", "nl">>
<1>1. Len(w) = 2 /\ w[1] = "frame" /\ w[2] = "nl"
  OBVIOUS
<1>2. Document(w) /\ ~Torn(w)
  BY <1>1 DEF Document, Torn
<1>3. w # <<>> /\ w[Len(w)] = "nl"
  BY <1>1
<1> QED BY <1>1, <1>2, <1>3 DEF Clean

\* One more entry, which is clean if it is on the wire, keeps the wire whole.
LEMMA OneMore ==
  ASSUME log \in Seq(Entry), NEW e \in Entry, log' = Append(log, e), base' = base,
         e.to = "wire" => Clean(e.text), WireWhole
  PROVE  WireWhole'
<1>1. /\ Len(log) \in Nat /\ DOMAIN log = 1 .. Len(log) /\ DOMAIN log' = 1 .. Len(log) + 1
      /\ log'[Len(log) + 1] = e /\ \A k \in 1 .. Len(log) : log'[k] = log[k]
  OBVIOUS
<1> QED BY <1>1 DEF WireWhole

\* The wire is empty at the start.
LEMMA WireInit == Init => WireInv
<1> SUFFICES ASSUME Init PROVE WireInv
  OBVIOUS
<1>1. LossInv
  BY LossInit
<1>2. <<>> \in Plain
  BY DEF Plain
<1>3. PlainHeld /\ OneLine /\ OneServes
  BY <1>2 DEF Init, PlainHeld, OneLine, OneServes
<1>4. LogWhole
  BY DEF Init, LogWhole
<1> QED BY <1>1, <1>3, <1>4 DEF WireInv

\* A write, of plugin code or of a frame: without a guard the wire is nobody's.
LEMMA BeginClean ==
  ASSUME WireInv, NEW t \in Threads, NEW text \in Text, Begin(t, text)
  PROVE  WireInv'
<1>1. LossInv'
  BY BeginLossless DEF WireInv
<1>2. /\ stdout' = stdout /\ life' = life /\ base' = base /\ line' = line /\ idx' = idx
      /\ said' = said \o text /\ (raced => raced')
      /\ said \in Text /\ stdout \in Adapters \cup {Original} /\ DOMAIN pc = Threads
  BY DEF Begin, WireInv, LossInv, Spoken, GuardInv, Shape
<1>3. Calm' => Calm
  BY <1>2, HasJoined DEF Calm
<1>4. PlainHeld'
  <2> SUFFICES ASSUME ~Has(said', "open") PROVE buf' \in [Adapters -> Plain] /\ line' \in [Threads -> Plain]
    BY DEF PlainHeld
  <2>1. ~Has(said, "open") /\ text \in Plain
    BY <1>2, HasJoined, PlainText
  <2>2. buf \in [Adapters -> Plain] /\ line \in [Threads -> Plain]
    BY <2>1 DEF WireInv, PlainHeld
  <2>3. stdout # Original => buf[stdout] \o text \in Plain
    BY <1>2, <2>1, <2>2, JoinPlain
  <2> QED BY <1>2, <2>2, <2>3 DEF Begin
<1>5. OneLine'
  <2>1. ~raced' => \A u \in Threads : pc'[u] # "cut" /\ pc'[u] # "emit"
    BY <1>2 DEF Begin, Idle
  <2> QED BY <2>1 DEF OneLine
<1>6. OneServes'
  BY <1>2 DEF WireInv, OneServes
<1>7. LogWhole'
  <2>1. CASE stdout = Original
    <3>1. [to |-> "wire", text |-> text] \in Entry
      BY DEF Entry
    <3>2. log' \in Seq(Entry)
      BY <2>1, <3>1 DEF Begin, Give, Log, WireInv, LogWhole
    <3> QED BY <1>2, <2>1, <3>2 DEF LogWhole
  <2>2. CASE stdout # Original
    BY <1>2, <1>3, <2>2 DEF Begin, WireInv, LogWhole, WireWhole
  <2> QED BY <2>1, <2>2
<1> QED BY <1>1, <1>4, <1>5, <1>6, <1>7 DEF WireInv

\* The newline that is found is the first.
LEMMA FindClean ==
  ASSUME WireInv, NEW t \in Threads, Find(t)
  PROVE  WireInv'
<1>1. LossInv'
  BY FindLossless DEF WireInv
<1>2. /\ stdout' = stdout /\ life' = life /\ base' = base /\ buf' = buf /\ said' = said
      /\ raced' = raced /\ log' = log /\ line \in [Threads -> Text]
      /\ DOMAIN pc = Threads /\ DOMAIN on = Threads /\ DOMAIN idx = Threads
  BY DEF Find, WireInv, LossInv, Spoken, GuardInv, Shape
<1>3. PlainHeld'
  <2>1. <<>> \in Plain
    BY DEF Plain
  <2> QED BY <1>2, <2>1 DEF Find, Return, WireInv, PlainHeld
<1>4. OneLine'
  <2>1. CASE Return(t)
    BY <1>2, <2>1 DEF Return, WireInv, OneLine
  <2>2. CASE ~Return(t)
    <3>1. /\ pc'[t] = "cut" /\ on' = on /\ line' = line /\ ~Has(Before(buf[on[t]], idx'[t]), "nl")
          /\ \A u \in Threads \ {t} : pc'[u] = pc[u] /\ idx'[u] = idx[u]
      BY <1>2, <2>2 DEF Find
    <3> QED BY <1>2, <3>1 DEF WireInv, OneLine
  <2> QED BY <2>1, <2>2
<1>5. OneServes' /\ LogWhole'
  BY <1>2 DEF WireInv, OneServes, LogWhole, WireWhole, Calm
<1> QED BY <1>1, <1>3, <1>4, <1>5 DEF WireInv

\* The line that is cut off is one line, when nobody else is at work.
LEMMA CutClean ==
  ASSUME WireInv, NEW t \in Threads, Cut(t)
  PROVE  WireInv'
<1>1. LossInv'
  BY CutLossless DEF WireInv
<1>2. /\ stdout' = stdout /\ life' = life /\ base' = base /\ said' = said /\ raced' = raced /\ log' = log
      /\ pc[t] = "cut" /\ on[t] \in Adapters /\ idx[t] \in Nat /\ DOMAIN pc = Threads
      /\ line \in [Threads -> Text] /\ buf \in [Adapters -> Text]
      /\ pc' = [pc EXCEPT ![t] = "emit"] /\ line' = [line EXCEPT ![t] = Before(buf[on[t]], idx[t])]
      /\ buf' = [buf EXCEPT ![on[t]] = After(buf[on[t]], idx[t])]
  BY DEF Cut, WireInv, LossInv, Spoken, GuardInv, Shape
<1>3. PlainHeld'
  <2> SUFFICES ASSUME ~Has(said, "open") PROVE buf' \in [Adapters -> Plain] /\ line' \in [Threads -> Plain]
    BY <1>2 DEF PlainHeld
  <2>1. buf \in [Adapters -> Plain] /\ line \in [Threads -> Plain]
    BY DEF WireInv, PlainHeld
  <2>2. Before(buf[on[t]], idx[t]) \in Plain /\ After(buf[on[t]], idx[t]) \in Plain
    BY <1>2, <2>1, CutPlain
  <2> QED BY <1>2, <2>1, <2>2
<1>4. OneLine'
  <2> SUFFICES ASSUME ~raced PROVE \A u \in Threads :
                 /\ pc'[u] = "cut"  => ~Has(Before(buf'[on'[u]], idx'[u]), "nl")
                 /\ pc'[u] = "emit" => ~Has(line'[u], "nl")
    BY <1>2 DEF OneLine
  <2>1. \A u \in Threads \ {t} : pc'[u] = "idle"
    BY <1>2 DEF WireInv, LossInv, Alone
  <2>2. pc'[t] = "emit" /\ line'[t] = Before(buf[on[t]], idx[t]) /\ ~Has(line'[t], "nl")
    BY <1>2 DEF WireInv, OneLine
  <2> QED BY <2>1, <2>2
<1>5. OneServes' /\ LogWhole'
  BY <1>2 DEF WireInv, OneServes, LogWhole, WireWhole, Calm
<1> QED BY <1>1, <1>3, <1>4, <1>5 DEF WireInv

\* A line that is forwarded is clean.
LEMMA EmitClean ==
  ASSUME WireInv, NEW t \in Threads, Emit(t)
  PROVE  WireInv'
<1> DEFINE e == [to |-> IF IsJsonLine(line[t]) THEN "wire" ELSE "stderr", text |-> Append(line[t], "nl")]
<1>1. LossInv'
  BY EmitLossless DEF WireInv
<1>2. /\ stdout' = stdout /\ life' = life /\ base' = base /\ said' = said /\ raced' = raced
      /\ buf' = buf /\ line' = line /\ on' = on /\ idx' = idx /\ log' = Append(log, e)
      /\ pc[t] = "emit" /\ DOMAIN pc = Threads /\ pc' = [pc EXCEPT ![t] = "find"]
      /\ line[t] \in Text
  BY DEF Emit, Give, Log, WireInv, LossInv, Spoken, GuardInv, Shape
<1>3. PlainHeld' /\ OneLine' /\ OneServes'
  BY <1>2 DEF WireInv, PlainHeld, OneLine, OneServes
<1>4. e \in Entry
  BY <1>2, Joined DEF Entry
<1>5. log' \in Seq(Entry)
  BY <1>2, <1>4 DEF WireInv, LogWhole
<1>6. ASSUME Calm PROVE e.to = "wire" => Clean(e.text)
  <2>1. ~Has(line[t], "nl") \/ line[t] \in Plain
    BY <1>2, <1>6 DEF Calm, WireInv, OneLine, PlainHeld
  <2> QED BY <1>2, <2>1, LineClean
<1>7. LogWhole'
  <2> SUFFICES ASSUME stdout # Original, \A a \in Adapters : life[a] # "leaving", Calm PROVE WireWhole'
    BY <1>2, <1>5 DEF LogWhole, Calm
  <2>1. WireWhole /\ log \in Seq(Entry)
    BY DEF WireInv, LogWhole
  <2> HIDE DEF e
  <2> QED BY <1>2, <1>4, <1>6, <2>1, OneMore
<1> QED BY <1>1, <1>3, <1>7 DEF WireInv

\* An adapter that comes after another begins with a wire of its own.
LEMMA LifeClean ==
  ASSUME WireInv, "concurrent" \notin Faults, NEW a \in Adapters,
         Construct(a) \/ RunFails(a) \/ Leave(a) \/ Left(a)
  PROVE  WireInv'
<1>. USE DEF unchangedByLife, threadVars, Install
<1>1. LossInv'
  BY LifeLossless DEF WireInv
<1>2. /\ pc' = pc /\ on' = on /\ idx' = idx /\ line' = line /\ said' = said
      /\ stdout \in Adapters \cup {Original} /\ life \in [Adapters -> Lives]
      /\ buf \in [Adapters -> Text] /\ log \in Seq(Entry)
  BY DEF Construct, RunFails, Leave, Left, WireInv, LossInv, GuardInv, Shape, Spoken, LogWhole
<1>3. raced => raced'
  <2>1. CASE Leave(a)
    BY <2>1 DEF Leave
  <2>2. CASE Construct(a) \/ RunFails(a) \/ Left(a)
    BY <2>2 DEF Construct, RunFails, Left
  <2> QED BY <2>1, <2>2
<1>4. PlainHeld'
  <2>1. <<>> \in Plain
    BY DEF Plain
  <2> QED BY <1>2, <2>1 DEF Construct, RunFails, Leave, Left, WireInv, PlainHeld
<1>5. OneLine'
  <2>1. CASE Construct(a) \/ RunFails(a) \/ Leave(a)
    <3>1. buf' = buf
      BY <2>1 DEF Construct, RunFails, Leave
    <3> QED BY <1>2, <1>3, <3>1 DEF WireInv, OneLine
  <2>2. CASE Left(a)
    <3>1. ~raced => Idle
      BY <2>2 DEF Left, WireInv, LossInv, Alone
    <3> QED BY <1>2, <2>2, <3>1 DEF OneLine, Idle, Left
  <2> QED BY <2>1, <2>2
<1>6. OneServes'
  <2>1. CASE Construct(a)
    BY <1>2, <2>1, GuardAssumption DEF WireInv, OneServes, Construct
  <2>2. CASE RunFails(a)
    BY <1>2, <2>2 DEF WireInv, OneServes, RunFails
  <2>3. CASE Leave(a) \/ Left(a)
    BY <1>2, <2>3 DEF WireInv, OneServes, Leave, Left
  <2> QED BY <2>1, <2>2, <2>3
<1>7. LogWhole'
  <2>1. CASE Construct(a) \/ RunFails(a)
    <3>1. /\ log' = log /\ raced' = raced
          /\ \/ stdout' = stdout /\ base' = base
             \/ stdout = Original /\ base' = Len(log)
          /\ \A b \in Adapters : life'[b] = "leaving" <=> life[b] = "leaving"
      BY <1>2, <2>1 DEF Construct, RunFails
    <3>2. CASE stdout' = stdout /\ base' = base
      BY <1>2, <3>1, <3>2 DEF WireInv, LogWhole, WireWhole, Calm
    <3>3. CASE stdout = Original /\ base' = Len(log)
      <4>1. WireWhole'
        BY <1>2, <3>1, <3>3 DEF WireWhole
      <4> QED BY <1>2, <3>1, <4>1 DEF LogWhole
    <3> QED BY <3>1, <3>2, <3>3
  <2>2. CASE Leave(a)
    <3>1. stdout # Original => [to |-> "wire", text |-> buf[stdout]] \in Entry
      BY <1>2 DEF Entry
    <3>2. log' \in Seq(Entry)
      <4>1. CASE stdout = Original \/ buf[stdout] = <<>>
        BY <1>2, <2>2, <4>1 DEF Leave
      <4>2. CASE ~(stdout = Original \/ buf[stdout] = <<>>)
        <5>1. PICK e \in Entry : log' = Append(log, e)
          BY <2>2, <3>1, <4>2 DEF Leave, Give, Log
        <5> QED BY <1>2, <5>1
      <4> QED BY <4>1, <4>2
    <3>3. stdout' = Original \/ life'[a] = "leaving"
      BY <1>2, <2>2 DEF Leave
    <3> QED BY <3>2, <3>3 DEF LogWhole
  <2>3. CASE Left(a)
    BY <1>2, <2>3 DEF Left, LogWhole
  <2> QED BY <2>1, <2>2, <2>3
<1> QED BY <1>1, <1>4, <1>5, <1>6, <1>7 DEF WireInv

\* The SDK writes a frame, past the guard or through it.
LEMMA FrameKeeps ==
  ASSUME WireInv, WriteFrame
  PROVE  WireInv'
<1>1. CASE ~Bypass
  BY <1>1, BeginClean, TextsAreTexts DEF WriteFrame
<1>2. CASE Bypass
  <2> DEFINE e == [to |-> "wire", text |-> <<"frame", "nl">>]
  <2>1. LossInv'
    BY LossKept DEF WireInv, Next
  <2>2. /\ UNCHANGED <<stdout, buf, pc, on, idx, line, life, base, said, raced>>
        /\ log' = Append(log, e)
    BY <1>2 DEF WriteFrame, threadVars, Log
  <2>3. PlainHeld' /\ OneLine' /\ OneServes'
    BY <2>2 DEF WireInv, PlainHeld, OneLine, OneServes
  <2>4. e \in Entry /\ (e.to = "wire" => Clean(e.text))
    BY FrameClean, TextsAreTexts DEF Entry
  <2> HIDE DEF e
  <2>5. LogWhole'
    BY <2>2, <2>4, OneMore DEF WireInv, LogWhole, Calm
  <2> QED BY <2>1, <2>3, <2>5 DEF WireInv
<1> QED BY <1>1, <1>2

\* Every step keeps the wire clean, when adapters come one after another.
LEMMA WireKept ==
  ASSUME "concurrent" \notin Faults
  PROVE  WireInv /\ [Next]_vars => WireInv'
<1> SUFFICES ASSUME WireInv, [Next]_vars PROVE WireInv'
  OBVIOUS
<1>1. CASE \E t \in Threads : PrintText(t) \/ Find(t) \/ Cut(t) \/ Emit(t)
  BY <1>1, BeginClean, FindClean, CutClean, EmitClean, TextsAreTexts DEF PrintText
<1>2. CASE \E a \in Adapters : Construct(a) \/ RunFails(a) \/ Leave(a) \/ Left(a)
  BY <1>2, LifeClean
<1>3. CASE WriteFrame
  BY <1>3, FrameKeeps
<1>4. CASE UNCHANGED vars
  <2>1. LossInv'
    BY <1>4, LossKept DEF WireInv
  <2> QED BY <1>4, <2>1 DEF vars, threadVars, WireInv, PlainHeld, OneLine, OneServes, LogWhole, WireWhole, Calm
<1> QED BY <1>1, <1>2, <1>3, <1>4 DEF Next

\* When one adapter serves at a time, only whole lines that are blank, JSON or
\* frames reach the wire while it does, whatever came before it: with any texts
\* as long as writes do not overlap, and however threads race as long as nobody
\* prints a document over several lines.
THEOREM WireIsClean ==
  ASSUME "concurrent" \notin Faults
  PROVE  Spec => []WireClean
<1>1. WireInv => WireClean
  <2> SUFFICES ASSUME WireInv, NEW a \in Adapters, life[a] = "serving", Calm
               PROVE  WireWhole
    BY DEF WireClean, Serving, Calm
  <2>1. stdout # Original /\ \A b \in Adapters : life[b] # "leaving"
    BY DEF WireInv, OneServes
  <2> QED BY <2>1 DEF WireInv, LogWhole
<1> QED BY WireInit, WireKept, <1>1, PTL DEF Spec
=============================================================================
