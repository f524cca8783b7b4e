------------------------- MODULE ConformanceMatcher -------------------------
(***************************************************************************)
(* The matcher of the conformance kit: `match_value`, `substitute_captures` *)
(* and the capture scan of `validate_scenario` (lib.py), `_match_unordered` *)
(* (mock_host.py), and beside them what a match is, without an algorithm.   *)
(*                                                                          *)
(* A JSON value is a record with a tag: "str", "int", "bool" (0 or 1) with  *)
(* v, "obj" with fields f, "arr" with elements s.  A pattern is a value, or *)
(* one of the directives below.  Captures are a function from names.        *)
(* match_value goes through the keys of an object in the order of a Python  *)
(* set, so a match has a set of results, one for each order.                *)
(***************************************************************************)
EXTENDS Integers, Sequences, TLC

CONSTANT TrueIsOne   \* whether `true` is the same as 1 to the reader of a scenario

\* Directives, and objects as patterns.
Ignore     == [t |-> "ignore"]
Absent     == [t |-> "absent"]
AnyOf(ty)  == [t |-> "any", v |-> ty]
Capture(n) == [t |-> "capture", v |-> n]
OneOf(s)   == [t |-> "oneof", s |-> s]
Optional(p) == [t |-> "optional", p |-> p]
ObjPat(f, extra) == [t |-> "obj", f |-> f, extra |-> extra]

Yes(c) == [ok |-> TRUE, c |-> c]
No(c)  == [ok |-> FALSE, c |-> c]

RECURSIVE PyEqual(_, _)

\* Python's ==, at any depth: True == 1.
PyEqual(a, b) ==
  CASE a.t = "obj" -> /\ b.t = "obj" /\ DOMAIN a.f = DOMAIN b.f
                      /\ \A k \in DOMAIN a.f : PyEqual(a.f[k], b.f[k])
    [] a.t = "arr" -> /\ b.t = "arr" /\ Len(a.s) = Len(b.s)
                      /\ \A i \in DOMAIN a.s : PyEqual(a.s[i], b.s[i])
    [] OTHER       -> a = b \/ ({a.t, b.t} = {"int", "bool"} /\ a.v = b.v)

RECURSIVE MatchValue(_, _, _), MatchKeys(_, _, _, _), MatchArray(_, _, _), MatchOneOf(_, _, _)

\* One key of an object pattern; the key may be missing in the value.
MatchKey(pv, v, k, c) ==
  CASE pv.t = "absent" -> {[ok |-> k \notin DOMAIN v.f, c |-> c]}
    [] pv.t # "absent" /\ k \in DOMAIN v.f ->
         MatchValue(IF pv.t = "optional" THEN pv.p ELSE pv, v.f[k], c)
    [] OTHER -> {[ok |-> pv.t = "optional", c |-> c]}

\* The keys in any order; the first that fails ends it.
MatchKeys(p, v, ks, c) ==
  IF ks = {} THEN {Yes(c)}
  ELSE UNION {IF r.ok THEN MatchKeys(p, v, ks \ {k}, r.c) ELSE {r} :
                <<k, r>> \in UNION {{k} \X MatchKey(p.f[k], v, k, c) : k \in ks}}

MatchArray(ps, vs, c) ==
  IF ps = <<>> THEN {Yes(c)}
  ELSE UNION {IF r.ok THEN MatchArray(Tail(ps), Tail(vs), r.c) ELSE {r} :
                r \in MatchValue(Head(ps), Head(vs), c)}

\* The first branch that matches.  What a failed branch captured stays.
MatchOneOf(ps, v, c) ==
  IF ps = <<>> THEN {No(c)}
  ELSE UNION {IF r.ok THEN {r} ELSE MatchOneOf(Tail(ps), v, r.c) :
                r \in MatchValue(Head(ps), v, c)}

MatchValue(p, v, c) ==
  CASE p.t = "ignore"   -> {Yes(c)}
    [] p.t = "any"      -> {[ok |-> v.t = p.v, c |-> c]}
    [] p.t = "capture"  -> IF p.v \in DOMAIN c THEN {[ok |-> PyEqual(c[p.v], v), c |-> c]}
                           ELSE {Yes(c @@ (p.v :> v))}
    [] p.t = "absent"   -> {No(c)}
    [] p.t = "optional" -> MatchValue(p.p, v, c)
    [] p.t = "oneof"    -> MatchOneOf(p.s, v, c)
    [] p.t = "obj"      ->
         IF v.t # "obj" THEN {No(c)}
         ELSE {[ok |-> r.ok /\ (p.extra \/ DOMAIN v.f \subseteq DOMAIN p.f), c |-> r.c] :
                 r \in MatchKeys(p, v, DOMAIN p.f, c)}
    [] p.t = "arr"      -> IF v.t = "arr" /\ Len(v.s) = Len(p.s)
                             THEN MatchArray(p.s, v.s, c) ELSE {No(c)}
    [] OTHER            -> {[ok |-> p = v, c |-> c]}

RECURSIVE TryFrame(_, _, _, _, _)

\* Mutant: captures of an attempt that failed are kept.
TryFrame_Keeps(i, pats, used, frames, c) ==
  IF frames = <<>> THEN {Yes(c)}
  ELSE IF i > Len(pats) THEN {No(c)}
  ELSE IF i \in used THEN TryFrame(i + 1, pats, used, frames, c)
  ELSE UNION {IF ~r.ok THEN TryFrame(i + 1, pats, used, frames, r.c)
              ELSE UNION {IF q.ok THEN {q} ELSE TryFrame(i + 1, pats, used, frames, q.c) :
                            q \in TryFrame(1, pats, used \cup {i}, Tail(frames), r.c)} :
                r \in MatchValue(pats[i], Head(frames), c)}

\* _try: the first frame against the patterns from i on that are not used; an
\* attempt that fails leaves the captures as they were.
TryFrame(i, pats, used, frames, c) ==
  IF frames = <<>> THEN {Yes(c)}
  ELSE IF i > Len(pats) THEN {No(c)}
  ELSE IF i \in used THEN TryFrame(i + 1, pats, used, frames, c)
  ELSE UNION {IF ~r.ok THEN TryFrame(i + 1, pats, used, frames, c)
              ELSE UNION {IF q.ok THEN {q} ELSE TryFrame(i + 1, pats, used, frames, c) :
                            q \in TryFrame(1, pats, used \cup {i}, Tail(frames), r.c)} :
                r \in MatchValue(pats[i], Head(frames), c)}

MatchUnordered(pats, frames, c) == TryFrame(1, pats, {}, frames, c)

RECURSIVE CapturesIn(_)

\* _scan_captures_in_pattern: every capture anywhere in a pattern.
CapturesIn(p) ==
  CASE p.t = "capture"  -> {p.v}
    [] p.t = "optional" -> CapturesIn(p.p)
    [] p.t \in {"oneof", "arr"} -> UNION {CapturesIn(p.s[i]) : i \in DOMAIN p.s}
    [] p.t = "obj"      -> UNION {CapturesIn(p.f[k]) : k \in DOMAIN p.f}
    [] OTHER            -> {}

----------------------------------------------------------------------------
(* What a match is: b says what every capture stands for *)

\* A captured value again.
Same(a, b) == IF TrueIsOne THEN PyEqual(a, b) ELSE a = b

RECURSIVE Fits(_, _, _)

FitsKey(pv, v, k, b) ==
  IF k \in DOMAIN v.f
    THEN pv.t # "absent" /\ Fits(IF pv.t = "optional" THEN pv.p ELSE pv, v.f[k], b)
    ELSE pv.t \in {"absent", "optional"}

Fits(p, v, b) ==
  CASE p.t = "ignore"   -> TRUE
    [] p.t = "any"      -> v.t = p.v
    [] p.t = "capture"  -> Same(b[p.v], v)
    [] p.t = "absent"   -> FALSE
    [] p.t = "optional" -> Fits(p.p, v, b)
    [] p.t = "oneof"    -> \E i \in DOMAIN p.s : Fits(p.s[i], v, b)
    [] p.t = "obj"      -> /\ v.t = "obj"
                           /\ p.extra \/ DOMAIN v.f \subseteq DOMAIN p.f
                           /\ \A k \in DOMAIN p.f : FitsKey(p.f[k], v, k, b)
    [] p.t = "arr"      -> /\ v.t = "arr" /\ Len(v.s) = Len(p.s)
                           /\ \A i \in DOMAIN p.s : Fits(p.s[i], v.s[i], b)
    [] OTHER            -> p = v

\* The frames can be given to the patterns, one each, such that all fit.
CanAssign(pats, frames, b) ==
  \E g \in Permutations(DOMAIN frames) : \A i \in DOMAIN frames : Fits(pats[g[i]], frames[i], b)
============================================================================
