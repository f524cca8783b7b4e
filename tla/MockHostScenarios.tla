-------------------------- MODULE MockHostScenarios --------------------------
(* Scenarios and lines for the model checker: small ones of the shapes that   *)
(* conformance/scenarios/ has.                                                *)
EXTENDS MockHost

M      == INSTANCE ConformanceMatcher WITH TrueIsOne <- TRUE
Strict == INSTANCE ConformanceMatcher WITH TrueIsOne <- FALSE

MCMatch(p, v, c)          == M!MatchValue(p, v, c)
MCMatchAnyOrder(ps, fs, c) == M!MatchUnordered(ps, fs, c)
MCCapturesOf(p)           == M!CapturesIn(p)
MCFitsUnder(p, v, b)      == M!Fits(p, v, b)
MCFitsStrictly(p, v, b)   == Strict!Fits(p, v, b)
MCAssignable(ps, fs, b)   == M!CanAssign(ps, fs, b)

Capture(x)       == M!Capture(x)
Optional(p)      == M!Optional(p)
AnyOf(ty)        == M!AnyOf(ty)
OneOf(s)         == M!OneOf(s)
ObjPat(f, extra) == M!ObjPat(f, extra)
Ignore           == M!Ignore
Absent           == M!Absent

Num(i)  == [t |-> "int", v |-> i]
True    == [t |-> "bool", v |-> "1"]
Str(s)  == [t |-> "str", v |-> s]
Obj(f)  == [t |-> "obj", f |-> f]
Arr(s)  == [t |-> "arr", s |-> s]
Pat(f)  == ObjPat(f, FALSE)

Msg(i)  == Obj([id |-> Num(i)])
Rich    == Obj([id |-> Num("2"), a |-> Arr(<<Str("x"), Num("2")>>)])

Send(f, size)   == [k |-> "send", f |-> f, size |-> size]
Exp(p)          == [k |-> "expect", p |-> p]
Req(p, reply)   == [k |-> "request", p |-> p, reply |-> reply]
AnyOrder(ps)    == [k |-> "any", ps |-> ps]
Exit            == [k |-> "exit", code |-> "0"]
Kind(k)         == [k |-> k]

Scenario(steps) == [complete |-> TRUE, newer |-> FALSE, requires |-> {}, declared |-> {},
                    tools |-> {}, steps |-> steps]

Two == <<ObjPat([id |-> Capture("a")], TRUE), Pat([id |-> Num("1")])>>

MCScenarios ==
  << \* not accepted: a tool the manifest lacks; a reference to a capture a later step binds
     [Scenario(<<Exit>>) EXCEPT !.declared = {"t"}],
     Scenario(<<Send(Capture("a"), 1), Exp(Pat([id |-> Capture("a")])), Exit>>),
     \* skipped, the second by some fixtures
     [Scenario(<<Exit>>) EXCEPT !.newer = TRUE],
     [Scenario(<<Exit>>) EXCEPT !.requires = {"stream"}],
     \* frames that only backtracking assigns, then a reference to the capture
     Scenario(<<Send(Str("go"), 2), AnyOrder(Two), Send(Capture("a"), 1), Kind("none")>>),
     \* a request whose reply needs the capture, the same value again, exit
     Scenario(<<Req(Pat([id |-> Capture("r")]), Capture("r")),
                Exp(ObjPat([id |-> Capture("r")], TRUE)), Kind("stderr"), Exit>>),
     \* every directive
     Scenario(<<Kind("sleep"),
                Exp(ObjPat([id |-> OneOf(<<AnyOf("str"), Num("2")>>), b |-> Absent,
                            a |-> Optional(Arr(<<AnyOf("str"), Ignore>>))], TRUE))>>) >>

\* Where the code and its comments disagree; see README.md.
\* A branch of $one_of that fails leaves its captures.
MCOneOf ==
  <<Scenario(<<AnyOrder(<<Pat([id |-> OneOf(<<Pat([x |-> Capture("c")]), Ignore>>), a |-> Capture("c")])>>)>>)>>
MCOneOfLines == {Obj([id |-> Obj([x |-> Num("1"), y |-> Num("1")]), a |-> Num("2")])}
\* true is the same as 1 when it is captured again: MCFitsStrictly tells them apart.
MCBool      == <<Scenario(<<Exp(Pat([id |-> Capture("c")])), Exp(Pat([id |-> Capture("c")])), Kind("none")>>)>>
MCBoolLines == {Msg("1"), Obj([id |-> True])}
\* The validator counts a capture that the pattern makes optional.
MCOptional ==
  <<Scenario(<<Exp(Pat([id |-> Ignore, a |-> Optional(Capture("c"))])), Send(Capture("c"), 1)>>)>>
\* Frames are left over before the exit.
MCLeftover == <<Scenario(<<Exit>>)>>
\* The runner writes what the fixture does not read.
MCFlood    == <<Scenario(<<Send(Str("big"), 2)>>)>>

MCLines == {Msg("1"), Obj([id |-> True]), Rich, Blank, Junk}

\* A capture may stand for any part of a frame.
RECURSIVE Parts(_)
Parts(v) == {v} \cup CASE v.t = "obj" -> UNION {Parts(v.f[k]) : k \in DOMAIN v.f}
                       [] v.t = "arr" -> UNION {Parts(v.s[i]) : i \in DOMAIN v.s}
                       [] OTHER -> {}
MCBindings == LET all   == UNION {Names(Patterns(s)) : s \in Waits}
                  parts == UNION {Parts(l) : l \in Frames}
              IN  UNION {[names -> parts] : names \in SUBSET all}
============================================================================
