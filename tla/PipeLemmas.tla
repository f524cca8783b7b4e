---------------------------- MODULE PipeLemmas ----------------------------
(***************************************************************************)
(* What the proofs about the three adapters need to know of a pipe: the     *)
(* frames in it that start a handler, counted, and the rest of a stream      *)
(* that it holds.                                                           *)
(***************************************************************************)
EXTENDS Integers, Sequences, FiniteSets, FiniteSetTheorems, SequenceTheorems, TLAPS

----------------------------------------------------------------------------
(* The work in a pipe *)

IsWork(f) == f.type \in {"event", "tool"}

\* The frames of a pipe that will start a handler.
WorkIn(s) == {k \in DOMAIN s : IsWork(s[k])}

\* The work in a pipe is finite.
LEMMA WorkFinite ==
  ASSUME NEW S, NEW s \in Seq(S)
  PROVE  IsFiniteSet(WorkIn(s)) /\ Cardinality(WorkIn(s)) \in Nat
<1>1. DOMAIN s = 1 .. Len(s) /\ Len(s) \in Nat
  OBVIOUS
<1>2. IsFiniteSet(1 .. Len(s))
  BY <1>1, FS_Interval
<1>3. WorkIn(s) \in SUBSET (1 .. Len(s))
  BY <1>1 DEF WorkIn
<1> QED
  BY <1>2, <1>3, FS_Subset, FS_CardinalityType

\* Taking a frame off the pipe takes its work off.
LEMMA WorkTail ==
  ASSUME NEW S, NEW s \in Seq(S), s # <<>>
  PROVE  Cardinality(WorkIn(Tail(s))) + (IF IsWork(Head(s)) THEN 1 ELSE 0)
           <= Cardinality(WorkIn(s))
<1> DEFINE rest == WorkIn(s) \ {1}
           shift == [k \in WorkIn(Tail(s)) |-> k + 1]
<1>1. /\ Tail(s) \in Seq(S) /\ Len(Tail(s)) = Len(s) - 1
      /\ \A k \in 1 .. Len(Tail(s)) : Tail(s)[k] = s[k + 1]
  BY HeadTailProperties
<1>2. WorkIn(Tail(s)) \subseteq 1 .. Len(Tail(s))
  BY <1>1 DEF WorkIn
<1>3. \A k \in WorkIn(Tail(s)) : k + 1 \in rest
  BY <1>1, <1>2 DEF WorkIn
<1>4. shift \in Injection(WorkIn(Tail(s)), rest)
  BY <1>2, <1>3 DEF Injection, IsInjective
<1>5. IsFiniteSet(WorkIn(s)) /\ Cardinality(WorkIn(s)) \in Nat
  BY WorkFinite
<1>6. /\ IsFiniteSet(rest)
      /\ Cardinality(rest) = IF 1 \in WorkIn(s) THEN Cardinality(WorkIn(s)) - 1
                                                ELSE Cardinality(WorkIn(s))
  BY <1>5, FS_RemoveElement
<1>7. Cardinality(WorkIn(Tail(s))) <= Cardinality(rest)
  BY <1>4, <1>6, FS_Injection
<1>8. Cardinality(WorkIn(Tail(s))) \in Nat
  BY <1>1, WorkFinite
<1>9. IsWork(Head(s)) => 1 \in WorkIn(s)
  BY DEF WorkIn
<1> QED
  BY <1>5, <1>6, <1>7, <1>8, <1>9

\* A frame put into the pipe brings at most its own work.
LEMMA WorkAppend ==
  ASSUME NEW S, NEW s \in Seq(S), NEW f \in S
  PROVE  Cardinality(WorkIn(Append(s, f)))
           <= Cardinality(WorkIn(s)) + (IF IsWork(f) THEN 1 ELSE 0)
<1>1. /\ Append(s, f) \in Seq(S) /\ Len(Append(s, f)) = Len(s) + 1
      /\ \A k \in 1 .. Len(s) : Append(s, f)[k] = s[k]
      /\ Append(s, f)[Len(s) + 1] = f
  BY AppendProperties
<1>2. IsFiniteSet(WorkIn(s)) /\ Cardinality(WorkIn(s)) \in Nat
  BY WorkFinite
<1>3. Cardinality(WorkIn(Append(s, f))) \in Nat
  BY <1>1, WorkFinite
<1>4. CASE IsWork(f)
  <2>1. WorkIn(Append(s, f)) \in SUBSET (WorkIn(s) \cup {Len(s) + 1})
    BY <1>1 DEF WorkIn
  <2>2. /\ IsFiniteSet(WorkIn(s) \cup {Len(s) + 1})
        /\ Cardinality(WorkIn(s) \cup {Len(s) + 1})
             = IF Len(s) + 1 \in WorkIn(s) THEN Cardinality(WorkIn(s))
                                           ELSE Cardinality(WorkIn(s)) + 1
    BY <1>2, FS_AddElement
  <2>3. Cardinality(WorkIn(s) \cup {Len(s) + 1}) \in Nat
    BY <2>2, FS_CardinalityType
  <2> QED
    BY <1>2, <1>3, <1>4, <2>1, <2>2, <2>3, FS_Subset
<1>5. CASE ~IsWork(f)
  <2>1. WorkIn(Append(s, f)) \in SUBSET WorkIn(s)
    BY <1>1, <1>5 DEF WorkIn
  <2> QED
    BY <1>2, <1>3, <1>5, <2>1, FS_Subset
<1> QED
  BY <1>4, <1>5

\* What is read in one go brings its own work.
LEMMA WorkConcat ==
  ASSUME NEW S, NEW s \in Seq(S), NEW u \in Seq(S)
  PROVE  Cardinality(WorkIn(s \o u)) <= Cardinality(WorkIn(s)) + Cardinality(WorkIn(u))
<1> DEFINE front == {k \in WorkIn(s \o u) : k <= Len(s)}
           back  == {k \in WorkIn(s \o u) : k > Len(s)}
           shift == [k \in back |-> k - Len(s)]
<1>1. /\ s \o u \in Seq(S) /\ Len(s \o u) = Len(s) + Len(u)
      /\ \A k \in 1 .. Len(s) + Len(u) : (s \o u)[k] = IF k <= Len(s) THEN s[k] ELSE u[k - Len(s)]
  BY ConcatProperties
<1>2. /\ IsFiniteSet(WorkIn(s)) /\ Cardinality(WorkIn(s)) \in Nat
      /\ IsFiniteSet(WorkIn(u)) /\ Cardinality(WorkIn(u)) \in Nat
  BY WorkFinite
<1>3. WorkIn(s \o u) \subseteq 1 .. Len(s) + Len(u)
  BY <1>1 DEF WorkIn
<1>4. front \in SUBSET WorkIn(s)
  BY <1>1, <1>3 DEF WorkIn
<1>5. IsFiniteSet(front) /\ Cardinality(front) <= Cardinality(WorkIn(s))
  BY <1>2, <1>4, FS_Subset
<1>6. \A k \in back : k \in Nat /\ k - Len(s) \in WorkIn(u)
  BY <1>1, <1>3 DEF WorkIn
<1>7. shift \in Injection(back, WorkIn(u))
  BY <1>6 DEF Injection, IsInjective
<1>8. IsFiniteSet(back) /\ Cardinality(back) <= Cardinality(WorkIn(u))
  BY <1>2, <1>7, FS_Injection
<1>9. WorkIn(s \o u) = front \cup back
  BY <1>3
<1>10. Cardinality(front \cup back)
         = Cardinality(front) + Cardinality(back) - Cardinality(front \cap back)
  BY <1>5, <1>8, FS_Union
<1>11. /\ Cardinality(front) \in Nat /\ Cardinality(back) \in Nat
       /\ Cardinality(front \cap back) \in Nat
  BY <1>5, <1>8, FS_CardinalityType, FS_Intersection
<1> HIDE DEF front, back, shift
<1> QED
  BY <1>2, <1>5, <1>8, <1>9, <1>10, <1>11

----------------------------------------------------------------------------
(* The rest of a stream *)

IsDelta(f, i) == f.type = "delta" /\ f.id = i
IsReply(f, i) == f.type = "reply" /\ f.id = i

\* The lines F hold the chunks r + 1 .. d of stream i, each behind its elders and
\* before the reply; there is no reply unless one was given (a).
Holds(F, i, r, d, a) ==
  /\ \A p \in DOMAIN F : IsDelta(F[p], i) => r < F[p].n /\ F[p].n <= d
  /\ \A p, q \in DOMAIN F :
       p < q /\ IsDelta(F[p], i) /\ IsDelta(F[q], i) => F[p].n < F[q].n
  /\ \A n \in r + 1 .. d : \E p \in DOMAIN F : IsDelta(F[p], i) /\ F[p].n = n
  /\ \A p \in DOMAIN F : IsReply(F[p], i) =>
       a /\ \A q \in DOMAIN F : IsDelta(F[q], i) => q < p

\* The parts of a sequence that lose their first or get a last element.
LEMMA LinesAt ==
  ASSUME NEW S, NEW F \in Seq(S)
  PROVE  /\ Len(F) \in Nat /\ DOMAIN F = 1 .. Len(F)
         /\ F # <<>> => /\ Len(F) > 0 /\ Head(F) = F[1] /\ Head(F) \in S
                        /\ Tail(F) \in Seq(S) /\ DOMAIN Tail(F) = 1 .. Len(F) - 1
                        /\ \A p \in 1 .. Len(F) - 1 : Tail(F)[p] = F[p + 1]
         /\ \A f \in S : /\ Append(F, f) \in Seq(S)
                            /\ DOMAIN Append(F, f) = 1 .. Len(F) + 1
                            /\ \A p \in 1 .. Len(F) : Append(F, f)[p] = F[p]
                            /\ Append(F, f)[Len(F) + 1] = f
<1>1. Len(F) \in Nat /\ DOMAIN F = 1 .. Len(F)
  BY LenProperties
<1>2. ASSUME F # <<>>
      PROVE  /\ Len(F) > 0 /\ Head(F) = F[1] /\ Head(F) \in S
             /\ Tail(F) \in Seq(S) /\ DOMAIN Tail(F) = 1 .. Len(F) - 1
             /\ \A p \in 1 .. Len(F) - 1 : Tail(F)[p] = F[p + 1]
  <2>1. /\ Tail(F) \in Seq(S) /\ Head(F) \in S /\ Len(Tail(F)) = Len(F) - 1 /\ Head(F) = F[1]
        /\ \A p \in 1 .. Len(F) - 1 : Tail(F)[p] = F[p + 1]
    BY <1>2, HeadTailProperties
  <2> QED
    BY <1>1, <1>2, <2>1, EmptySeq, LenProperties
<1>3. ASSUME NEW f \in S
      PROVE  /\ Append(F, f) \in Seq(S) /\ DOMAIN Append(F, f) = 1 .. Len(F) + 1
             /\ \A p \in 1 .. Len(F) : Append(F, f)[p] = F[p]
             /\ Append(F, f)[Len(F) + 1] = f
  BY <1>1, AppendProperties, LenProperties
<1> QED
  BY <1>1, <1>2, <1>3

\* A line that is no chunk of the stream is taken.
LEMMA HoldsTail ==
  ASSUME NEW S, NEW F \in Seq(S), F # <<>>, NEW i, NEW r \in Nat, NEW d \in Nat, NEW a \in BOOLEAN,
         Holds(F, i, r, d, a), ~IsDelta(Head(F), i)
  PROVE  Holds(Tail(F), i, r, d, a)
<1> DEFINE G == Tail(F)
           l == Len(F)
<1>1. /\ l \in Nat /\ l > 0 /\ DOMAIN F = 1 .. l /\ DOMAIN G = 1 .. l - 1 /\ ~IsDelta(F[1], i)
      /\ \A p \in 1 .. l - 1 : G[p] = F[p + 1] /\ p + 1 \in DOMAIN F
  BY LinesAt
<1>2. \A p \in DOMAIN F : IsDelta(F[p], i) => p - 1 \in DOMAIN G /\ G[p - 1] = F[p]
  <2> HIDE DEF G, l
  <2> QED
    BY <1>1
<1> HIDE DEF G, l
<1>3. \A p \in DOMAIN G : IsDelta(G[p], i) => r < G[p].n /\ G[p].n <= d
  BY <1>1 DEF Holds
<1>4. \A p, q \in DOMAIN G :
        p < q /\ IsDelta(G[p], i) /\ IsDelta(G[q], i) => G[p].n < G[q].n
  <2> SUFFICES ASSUME NEW p \in DOMAIN G, NEW q \in DOMAIN G, p < q,
                      IsDelta(G[p], i), IsDelta(G[q], i)
               PROVE  G[p].n < G[q].n
    OBVIOUS
  <2>1. p + 1 < q + 1 /\ p + 1 \in DOMAIN F /\ q + 1 \in DOMAIN F
    BY <1>1
  <2> QED
    BY <1>1, <2>1 DEF Holds
<1>5. \A n \in r + 1 .. d : \E p \in DOMAIN G : IsDelta(G[p], i) /\ G[p].n = n
  BY <1>2 DEF Holds
<1>6. ASSUME NEW p \in DOMAIN G, IsReply(G[p], i)
      PROVE  a /\ \A q \in DOMAIN G : IsDelta(G[q], i) => q < p
  <2>1. p + 1 \in DOMAIN F /\ IsReply(F[p + 1], i) /\ p \in Nat
    BY <1>1, <1>6
  <2>2. a /\ \A q \in DOMAIN F : IsDelta(F[q], i) => q < p + 1
    BY <2>1 DEF Holds
  <2>3. ASSUME NEW q \in DOMAIN G, IsDelta(G[q], i)
        PROVE  q < p
    <3>1. q + 1 \in DOMAIN F /\ IsDelta(F[q + 1], i) /\ q \in Nat
      BY <1>1, <2>3
    <3>2. q + 1 < p + 1
      BY <2>2, <3>1
    <3> QED
      BY <2>1, <3>1, <3>2
  <2> QED
    BY <2>2, <2>3
<1> QED
  BY <1>3, <1>4, <1>5, <1>6 DEF Holds, G

\* The first chunk there is of the stream is the next one.
LEMMA HoldsNext ==
  ASSUME NEW S, NEW F \in Seq(S), F # <<>>, NEW i, NEW r \in Nat, NEW d \in Nat, NEW a \in BOOLEAN,
         \A f \in S : f.type = "delta" => f.n \in Nat,
         Holds(F, i, r, d, a), IsDelta(Head(F), i)
  PROVE  Head(F).n = r + 1 /\ r + 1 <= d /\ Holds(Tail(F), i, r + 1, d, a)
<1> DEFINE G == Tail(F)
           l == Len(F)
<1>1. /\ l \in Nat /\ l > 0 /\ DOMAIN F = 1 .. l /\ DOMAIN G = 1 .. l - 1
      /\ IsDelta(F[1], i) /\ F[1] = Head(F) /\ Head(F) \in S /\ 1 \in DOMAIN F
      /\ \A p \in 1 .. l - 1 : G[p] = F[p + 1] /\ p + 1 \in DOMAIN F
  BY LinesAt
<1>2. F[1].n \in Nat
  BY <1>1 DEF IsDelta
<1> HIDE DEF G, l
<1>3. r < F[1].n /\ F[1].n <= d
  BY <1>1 DEF Holds
<1>4. F[1].n = r + 1
  <2> SUFFICES ASSUME r + 1 < F[1].n PROVE FALSE
    BY <1>2, <1>3
  <2>1. r + 1 \in r + 1 .. d
    BY <1>2, <1>3
  <2>2. PICK p \in DOMAIN F : IsDelta(F[p], i) /\ F[p].n = r + 1
    BY <2>1 DEF Holds
  <2>3. p # 1 /\ 1 < p
    BY <1>1, <1>2, <2>2
  <2>4. F[1].n < F[p].n
    BY <1>1, <2>2, <2>3 DEF Holds
  <2> QED
    BY <1>2, <2>2, <2>4
<1>5. \A p \in DOMAIN G : IsDelta(G[p], i) => r + 1 < G[p].n /\ G[p].n <= d
  <2> SUFFICES ASSUME NEW p \in DOMAIN G, IsDelta(G[p], i)
               PROVE  r + 1 < G[p].n /\ G[p].n <= d
    OBVIOUS
  <2>1. p + 1 \in DOMAIN F /\ IsDelta(F[p + 1], i) /\ 1 < p + 1 /\ G[p] = F[p + 1]
    BY <1>1
  <2>2. F[1].n < F[p + 1].n /\ F[p + 1].n <= d
    BY <1>1, <2>1 DEF Holds
  <2> QED
    BY <1>4, <2>1, <2>2
<1>6. \A p, q \in DOMAIN G :
        p < q /\ IsDelta(G[p], i) /\ IsDelta(G[q], i) => G[p].n < G[q].n
  <2> SUFFICES ASSUME NEW p \in DOMAIN G, NEW q \in DOMAIN G, p < q,
                      IsDelta(G[p], i), IsDelta(G[q], i)
               PROVE  G[p].n < G[q].n
    OBVIOUS
  <2>1. p + 1 < q + 1 /\ p + 1 \in DOMAIN F /\ q + 1 \in DOMAIN F
    BY <1>1
  <2> QED
    BY <1>1, <2>1 DEF Holds
<1>7. \A n \in r + 2 .. d : \E p \in DOMAIN G : IsDelta(G[p], i) /\ G[p].n = n
  <2> SUFFICES ASSUME NEW n \in r + 2 .. d
               PROVE  \E p \in DOMAIN G : IsDelta(G[p], i) /\ G[p].n = n
    OBVIOUS
  <2>1. n \in r + 1 .. d
    OBVIOUS
  <2>2. PICK p \in DOMAIN F : IsDelta(F[p], i) /\ F[p].n = n
    BY <2>1 DEF Holds
  <2>3. p # 1
    BY <1>4, <2>2
  <2>4. p - 1 \in DOMAIN G /\ G[p - 1] = F[p]
    BY <1>1, <2>3
  <2> QED
    BY <2>2, <2>4
<1>8. ASSUME NEW p \in DOMAIN G, IsReply(G[p], i)
      PROVE  a /\ \A q \in DOMAIN G : IsDelta(G[q], i) => q < p
  <2>1. p + 1 \in DOMAIN F /\ IsReply(F[p + 1], i) /\ p \in Nat
    BY <1>1, <1>8
  <2>2. a /\ \A q \in DOMAIN F : IsDelta(F[q], i) => q < p + 1
    BY <2>1 DEF Holds
  <2> QED
    BY <1>1, <2>1, <2>2
<1>9. (r + 1) + 1 = r + 2 /\ r + 1 <= d
  BY <1>2, <1>3, <1>4
<1> QED
  BY <1>1, <1>4, <1>5, <1>6, <1>7, <1>8, <1>9 DEF Holds, G

\* When the reply is next no chunk is missing.
LEMMA HoldsReply ==
  ASSUME NEW S, NEW F \in Seq(S), F # <<>>, NEW i, NEW r \in Nat, NEW d \in Nat, NEW a \in BOOLEAN,
         Holds(F, i, r, d, a), IsReply(Head(F), i), r <= d
  PROVE  r = d /\ a
<1>1. 1 \in DOMAIN F /\ IsReply(F[1], i) /\ \A q \in DOMAIN F : q >= 1
  BY LinesAt
<1>2. a /\ \A q \in DOMAIN F : ~IsDelta(F[q], i)
  BY <1>1 DEF Holds, IsDelta, IsReply
<1>3. \A n \in r + 1 .. d : FALSE
  BY <1>2 DEF Holds
<1> QED
  BY <1>2, <1>3

\* The host writes a line that is no chunk of the stream, and a reply to it only
\* when that makes it answered.
LEMMA HoldsAppend ==
  ASSUME NEW S, NEW F \in Seq(S), NEW f \in S, NEW i, NEW r \in Nat, NEW d \in Nat,
         NEW a \in BOOLEAN, NEW b \in BOOLEAN, a \/ IsReply(f, i) => b,
         Holds(F, i, r, d, a), ~IsDelta(f, i)
  PROVE  Holds(Append(F, f), i, r, d, b)
<1> DEFINE G == Append(F, f)
           l == Len(F)
<1>1. /\ l \in Nat /\ DOMAIN F = 1 .. l /\ DOMAIN G = 1 .. l + 1 /\ G[l + 1] = f
      /\ \A p \in 1 .. l : G[p] = F[p]
  BY LinesAt
<1> HIDE DEF G, l
<1>2. \A p \in DOMAIN G : IsDelta(G[p], i) => p \in DOMAIN F /\ G[p] = F[p] /\ p < l + 1
  BY <1>1
<1>3. \A p \in DOMAIN F : p \in DOMAIN G /\ G[p] = F[p]
  BY <1>1
<1>4. \A p \in DOMAIN G : IsDelta(G[p], i) => r < G[p].n /\ G[p].n <= d
  BY <1>2 DEF Holds
<1>5. \A p, q \in DOMAIN G :
        p < q /\ IsDelta(G[p], i) /\ IsDelta(G[q], i) => G[p].n < G[q].n
  BY <1>2 DEF Holds
<1>6. \A n \in r + 1 .. d : \E p \in DOMAIN G : IsDelta(G[p], i) /\ G[p].n = n
  BY <1>3 DEF Holds
<1>7. ASSUME NEW p \in DOMAIN G, IsReply(G[p], i)
      PROVE  b /\ \A q \in DOMAIN G : IsDelta(G[q], i) => q < p
  <2>1. CASE p = l + 1
    BY <1>1, <1>2, <1>7, <2>1
  <2>2. CASE p # l + 1
    <3>1. p \in DOMAIN F /\ IsReply(F[p], i)
      BY <1>1, <1>7, <2>2
    <3> QED
      BY <1>2, <3>1 DEF Holds
  <2> QED
    BY <2>1, <2>2
<1> QED
  BY <1>4, <1>5, <1>6, <1>7 DEF Holds, G

\* The host streams one more chunk of a stream it has not answered.
LEMMA HoldsMore ==
  ASSUME NEW S, NEW F \in Seq(S), NEW f \in S, NEW i, NEW r \in Nat, NEW d \in Nat,
         NEW a \in BOOLEAN, ~a, \A g \in S : g.type = "delta" => g.n \in Nat,
         Holds(F, i, r, d, a), r <= d, IsDelta(f, i), f.n = d + 1
  PROVE  Holds(Append(F, f), i, r, d + 1, a)
<1> DEFINE G == Append(F, f)
           l == Len(F)
<1>1. /\ l \in Nat /\ DOMAIN F = 1 .. l /\ DOMAIN G = 1 .. l + 1 /\ G[l + 1] = f
      /\ \A p \in 1 .. l : G[p] = F[p] /\ F[p] \in S
  BY LinesAt
<1>0. \A p \in 1 .. l : IsDelta(F[p], i) => F[p].n \in Nat
  BY <1>1 DEF IsDelta
<1> HIDE DEF G, l
<1>2. \A p \in DOMAIN F : IsDelta(F[p], i) => r < F[p].n /\ F[p].n <= d
  BY DEF Holds
<1>3. \A p \in DOMAIN F : p \in DOMAIN G /\ G[p] = F[p]
  BY <1>1
<1>4. ASSUME NEW p \in DOMAIN G, IsDelta(G[p], i)
      PROVE  r < G[p].n /\ G[p].n <= d + 1
  <2>1. CASE p = l + 1
    BY <1>1, <2>1
  <2>2. CASE p # l + 1
    BY <1>0, <1>1, <1>2, <1>4, <2>2
  <2> QED
    BY <2>1, <2>2
<1>5. ASSUME NEW p \in DOMAIN G, NEW q \in DOMAIN G, p < q, IsDelta(G[p], i), IsDelta(G[q], i)
      PROVE  G[p].n < G[q].n
  <2>1. p \in DOMAIN F /\ G[p] = F[p]
    BY <1>1, <1>5
  <2>2. CASE q = l + 1
    BY <1>0, <1>1, <1>2, <1>5, <2>1, <2>2
  <2>3. CASE q # l + 1
    <3>1. q \in DOMAIN F /\ G[q] = F[q]
      BY <1>1, <2>3
    <3> QED
      BY <1>5, <2>1, <3>1 DEF Holds
  <2> QED
    BY <2>2, <2>3
<1>6. ASSUME NEW n \in r + 1 .. d + 1
      PROVE  \E p \in DOMAIN G : IsDelta(G[p], i) /\ G[p].n = n
  <2>1. CASE n = d + 1
    BY <1>1, <2>1
  <2>2. CASE n # d + 1
    <3>1. n \in r + 1 .. d
      BY <2>2
    <3>2. PICK p \in DOMAIN F : IsDelta(F[p], i) /\ F[p].n = n
      BY <3>1 DEF Holds
    <3> QED
      BY <1>3, <3>2
  <2> QED
    BY <2>1, <2>2
<1>7. \A p \in DOMAIN G : ~IsReply(G[p], i)
  <2>1. \A p \in DOMAIN F : ~IsReply(F[p], i)
    BY DEF Holds
  <2>2. ~IsReply(f, i)
    BY DEF IsReply, IsDelta
  <2> QED
    BY <1>1, <2>1, <2>2
<1> QED
  BY <1>4, <1>5, <1>6, <1>7 DEF Holds, G
============================================================================
