----------------------------- MODULE MCMockHost -----------------------------
(***************************************************************************)
(* The scenarios on which the matcher keeps its promises, and small         *)
(* patterns of every directive.                                             *)
(***************************************************************************)
EXTENDS MockHostScenarios

ASSUME MatcherSound /\ MatcherBinds

Leaves == {Ignore, AnyOf("int"), Capture("a"), Capture("r"), Num("1"), True}
Small  == Leaves \cup {Arr(<<p, q>>) : p, q \in Leaves} \cup {Pat([id |-> p, a |-> q]) : p, q \in Leaves}
                 \cup {Pat([id |-> p, a |-> Optional(q)]) : p, q \in Leaves}
                 \cup {OneOf(<<Arr(<<p, q>>), x>>) : p, q, x \in Leaves}
Values == LET vs == {Num("1"), Num("2"), True}
          IN  vs \cup {Arr(<<v, w>>) : v, w \in vs} \cup {Obj([id |-> v, a |-> w]) : v, w \in vs}
                 \cup {Obj([id |-> v]) : v \in vs}

\* Without captures to begin with: whatever stands for the names that a match
\* left free, it fits, with Python's == between a capture and its value.
SmallPatternsSound ==
  \A p \in Small, v \in Values : \A r \in M!MatchValue(p, v, <<>>) : r.ok =>
    \A b \in [{"a", "r"} -> {Num("1"), Num("2"), True}] :
      (\A x \in DOMAIN r.c : b[x] = r.c[x]) => M!Fits(p, v, b)

ASSUME SmallPatternsSound
============================================================================
