---------------------------- MODULE KconfigExpr ----------------------------
(* The dependency expressions of the configuration menu (kconfig/expr.c):     *)
(* their rewriting by menu_finalize.  An expression is a tuple headed by its  *)
(* type; the program changes the tree in place, and a place in it is given    *)
(* here by the path to it.                                                    *)
EXTENDS Integers, Sequences, FiniteSets

CONSTANT Type    \* [symbols -> "bool", "tristate" or another type]

no == 0
mod == 1
yes == 2
E_OR(a, b) == IF a > b THEN a ELSE b
E_AND(a, b) == IF a < b THEN a ELSE b
E_NOT(a) == 2 - a

NULL == <<>>
Sym(s) == <<"symbol", s>>
Not(e) == <<"not", e>>
And(a, b) == <<"and", a, b>>
Or(a, b) == <<"or", a, b>>
Equal(s, t) == <<"equal", s, t>>
Unequal(s, t) == <<"unequal", s, t>>
Yes == Sym("y")
Mod == Sym("m")
No == Sym("n")
Tag(e) == IF e = NULL THEN "null" ELSE e[1]
expr_alloc_and(a, b) == IF a = NULL THEN b ELSE IF b = NULL THEN a ELSE And(a, b)
expr_alloc_or(a, b) == IF a = NULL THEN b ELSE IF b = NULL THEN a ELSE Or(a, b)

(* Constants of and and or: the one that leaves the other operand. *)
Neutral(type) == IF type = "and" THEN Yes ELSE No
Dominant(type) == IF type = "and" THEN No ELSE Yes
Junction(e) == Tag(e) \in {"and", "or"}

-----------------------------------------------------------------------------
RECURSIVE expr_eliminate_yn(_)
expr_eliminate_yn(e) ==
  IF ~Junction(e) THEN e
  ELSE LET l == expr_eliminate_yn(e[2])
           r == expr_eliminate_yn(e[3]) IN
       CASE l = Dominant(e[1]) -> l
         [] l = Neutral(e[1]) -> r
         [] r = Dominant(e[1]) -> r
         [] r = Neutral(e[1]) -> l
         [] OTHER -> <<e[1], l, r>>

(* Pairs of equal operands of two expressions are replaced by constants. *)
RECURSIVE EliminateEq(_, _, _), expr_eq(_, _)
EliminateEq(type, a, b) ==
  IF Tag(a) = type THEN
    LET p == EliminateEq(type, a[2], b)
        q == EliminateEq(type, a[3], p[2]) IN <<<<type, p[1], q[1]>>, q[2]>>
  ELSE IF Tag(b) = type THEN
    LET p == EliminateEq(type, a, b[2])
        q == EliminateEq(type, p[1], b[3]) IN <<q[1], <<type, p[2], q[2]>>>>
  ELSE IF (a = b /\ a \in {Yes, No}) \/ ~expr_eq(a, b) THEN <<a, b>>
  ELSE <<Neutral(type), Neutral(type)>>
Eliminated(p) == <<expr_eliminate_yn(p[1]), expr_eliminate_yn(p[2])>>
SecondPass(p) ==
  IF Tag(p[1]) # Tag(p[2]) /\ Junction(p[2]) THEN EliminateEq(p[2][1], p[1], p[2]) ELSE p
expr_eliminate_eq(a, b) == Eliminated(SecondPass(IF Junction(a) THEN EliminateEq(a[1], a, b) ELSE <<a, b>>))
SameSymbol(p) == Tag(p[1]) = "symbol" /\ p[1] = p[2]
expr_eq(a, b) ==
  /\ Tag(a) = Tag(b)
  /\ CASE Tag(a) = "not" -> expr_eq(a[2], b[2])
       [] Junction(a) -> SameSymbol(expr_eliminate_eq(a, b))
       [] OTHER -> a = b

(* Rewriting to negations of symbols only, and of comparisons with a boolean. *)
RECURSIVE expr_transform(_)
Denied(f) ==
  CASE Tag(f) = "not" -> expr_transform(f[2])
    [] Tag(f) = "equal" -> Unequal(f[2], f[3])
    [] Tag(f) = "unequal" -> Equal(f[2], f[3])
    [] Tag(f) = "or" -> expr_transform(And(Not(f[2]), Not(f[3])))
    [] Tag(f) = "and" -> expr_transform(Or(Not(f[2]), Not(f[3])))
    [] f = Yes -> No
    [] f = Mod -> Mod
    [] f = No -> Yes
    [] OTHER -> Not(f)
expr_transform(e) ==
  LET boolean == Tag(e) \in {"equal", "unequal"} /\ Type[e[2]] = "bool" IN
  CASE Tag(e) = "equal" /\ boolean /\ e[3] = "n" -> Not(Sym(e[2]))
    [] Tag(e) = "equal" /\ boolean /\ e[3] = "m" -> No
    [] Tag(e) = "equal" /\ boolean /\ e[3] = "y" -> Sym(e[2])
    [] Tag(e) = "unequal" /\ boolean /\ e[3] = "n" -> Sym(e[2])
    [] Tag(e) = "unequal" /\ boolean /\ e[3] = "m" -> Yes
    [] Tag(e) = "unequal" /\ boolean /\ e[3] = "y" -> Not(Sym(e[2]))
    [] Tag(e) = "not" -> Denied(expr_transform(e[2]))
    [] Junction(e) -> <<e[1], expr_transform(e[2]), expr_transform(e[3])>>
    [] OTHER -> e

(* Two operands that say the same, or more than each other, become one. *)
Literal(e) == Tag(e) \in {"equal", "unequal", "symbol", "not"}
Subject(e) == IF Tag(e) = "not" THEN e[2][2] ELSE e[2]
Joinable(a, b) ==
  /\ Literal(a) /\ Literal(b)
  /\ Tag(a) = "not" => Tag(a[2]) \in {"equal", "unequal", "symbol"}
  /\ Tag(b) = "not" => Tag(b[2]) = "symbol"
  /\ Subject(a) = Subject(b) /\ Type[Subject(a)] \in {"bool", "tristate"}
Constants == {"n", "m", "y"}
Third_as_commented(v, w) == IF {v, w} = {"m", "n"} THEN "m" ELSE CHOOSE x \in Constants : x \notin {v, w}
Third(v, w) == CHOOSE x \in Constants : x \notin {v, w}
OneIs(a, b, e) == (Tag(a) = "symbol" /\ b = e) \/ (Tag(b) = "symbol" /\ a = e)
expr_join_or(a, b) ==
  LET s == Subject(a) IN
  CASE Type[s] = "tristate" /\ Tag(a) = "equal" /\ Tag(b) = "equal"
         /\ {a[3], b[3]} \subseteq Constants -> Unequal(s, Third(a[3], b[3]))
    [] Type[s] = "bool" /\ {a, b} = {Sym(s), Not(Sym(s))} -> Yes
    [] OTHER -> NULL
expr_join_and(a, b) ==
  LET s == Subject(a)
      and(eq, ne) == IF eq[3] # ne[3] THEN Equal(s, eq[3]) ELSE No IN
  CASE OneIs(a, b, Equal(s, "y")) -> Equal(s, "y")
    [] OneIs(a, b, Unequal(s, "n")) -> Sym(s)
    [] OneIs(a, b, Unequal(s, "m")) -> Equal(s, "y")
    [] Type[s] = "tristate" /\ Tag(a) = "equal" /\ Tag(b) = "unequal"
         /\ {a[3], b[3]} \subseteq Constants -> and(a, b)
    [] Type[s] = "tristate" /\ Tag(a) = "unequal" /\ Tag(b) = "equal"
         /\ {a[3], b[3]} \subseteq Constants -> and(b, a)
    [] Type[s] = "tristate" /\ Tag(a) = "unequal" /\ Tag(b) = "unequal"
         /\ {a[3], b[3]} \subseteq Constants -> Equal(s, Third(a[3], b[3]))
    [] OTHER -> NULL
Merged(type, a, b) ==
  IF expr_eq(a, b) THEN a
  ELSE IF ~Joinable(a, b) THEN NULL
  ELSE IF type = "or" THEN expr_join_or(a, b) ELSE expr_join_and(a, b)

(* What is common to two expressions, taken out of both: <<it, rest, rest>>.  *)
RECURSIVE ExtractEq(_, _, _, _)
ExtractEq(type, c, a, b) ==
  IF Tag(a) = type THEN
    LET p == ExtractEq(type, c, a[2], b)
        q == ExtractEq(type, p[1], a[3], p[3]) IN <<q[1], <<type, p[2], q[2]>>, q[3]>>
  ELSE IF Tag(b) = type THEN
    LET p == ExtractEq(type, c, a, b[2])
        q == ExtractEq(type, p[1], p[2], b[3]) IN <<q[1], q[2], <<type, p[3], q[3]>>>>
  ELSE IF expr_eq(a, b)
       THEN <<IF c = NULL THEN a ELSE <<type, c, a>>, Neutral(type), Neutral(type)>>
       ELSE <<c, a, b>>
Extracted(p) == IF p[1] = NULL THEN p ELSE <<p[1], expr_eliminate_yn(p[2]), expr_eliminate_yn(p[3])>>
expr_extract_eq(type, a, b) == Extracted(ExtractEq(type, NULL, a, b))

-----------------------------------------------------------------------------
(* Both passes of expr_eliminate_dups compare the operands of a junction with *)
(* each other, starting with the same place twice.  t is [e, count]: the tree *)
(* and whether trans_count was counted up.                                    *)
RECURSIVE At(_, _), Put(_, _, _)
At(e, path) == IF path = <<>> THEN e ELSE At(e[Head(path)], Tail(path))
Put(e, path, new) ==
  IF path = <<>> THEN new ELSE [e EXCEPT ![Head(path)] = Put(@, Tail(path), new)]
Within(Pass(_), t, p) ==
  LET u == Pass([t EXCEPT !.e = At(t.e, p)]) IN [u EXCEPT !.e = Put(t.e, p, u.e)]

RECURSIVE Dups1(_, _, _, _)
Replaced(type, t, p, q, e) ==
  IF e = NULL THEN t ELSE [e |-> Put(Put(t.e, p, Neutral(type)), q, e), count |-> TRUE]
MergedAt(type, t, p, q) == Replaced(type, t, p, q, Merged(type, At(t.e, p), At(t.e, q)))
Inner1(t, a, p) == IF Junction(a) THEN Within(LAMBDA u : Dups1(a[1], u, <<>>, <<>>), t, p) ELSE t
Dups1(type, t, p, q) ==
  LET a == At(t.e, p) IN
  IF Tag(a) = type THEN Dups1(type, Dups1(type, t, Append(p, 2), q), Append(p, 3), q)
  ELSE IF Tag(At(t.e, q)) = type THEN Dups1(type, Dups1(type, t, p, Append(q, 2)), p, Append(q, 3))
  ELSE IF p = q THEN t
  ELSE MergedAt(type, Inner1(t, a, p), p, q)

(* (a or b) and (not a and not b) is n, (a and b) or (not a or not b) is y: an *)
(* operand that is contradicted by, or completed by, the whole of e2.         *)
RECURSIVE Dups2(_, _, _, _)
Dual(type) == IF type = "or" THEN "and" ELSE "or"
Decided(type, t, p, rest) ==
  IF rest = Neutral(type) THEN [e |-> Put(t.e, p, Dominant(type)), count |-> TRUE] ELSE t
Contradicted(type, t, p, q) ==
  Decided(type, t, p, expr_extract_eq(type, expr_transform(Not(At(t.e, p))), At(t.e, q))[2])
Inner2(t, a, p, q) ==
  IF p = q \/ ~Junction(a) THEN t
  ELSE Contradicted(Dual(a[1]), Within(LAMBDA u : Dups2(a[1], u, <<>>, <<>>), t, p), p, q)
Reached(t, p, q) == Inner2(t, At(t.e, p), p, q)
Dups2(type, t, p, q) ==
  IF Tag(At(t.e, p)) = type THEN Dups2(type, Dups2(type, t, Append(p, 2), q), Append(p, 3), q)
  ELSE Reached(IF Tag(At(t.e, q)) = type
               THEN Dups2(type, Dups2(type, t, p, Append(q, 2)), p, Append(q, 3)) ELSE t, p, q)

RECURSIVE expr_eliminate_dups(_)
Repeated(t) == IF t.count THEN expr_eliminate_dups(expr_eliminate_yn(t.e)) ELSE t.e
expr_eliminate_dups(e) ==
  IF Junction(e)
  THEN Repeated(Dups2(e[1], Dups1(e[1], [e |-> e, count |-> FALSE], <<>>, <<>>), <<>>, <<>>))
  ELSE e

RECURSIVE expr_trans_bool(_)
expr_trans_bool(e) ==
  CASE Junction(e) -> <<e[1], expr_trans_bool(e[2]), expr_trans_bool(e[3])>>
    [] Tag(e) = "not" -> Not(expr_trans_bool(e[2]))
    [] Tag(e) = "unequal" /\ Type[e[2]] = "tristate" /\ e[3] = "n" -> Sym(e[2])
    [] OTHER -> e

-----------------------------------------------------------------------------
(* What menu_finalize asks of a dependency: whether a symbol occurs in it,    *)
(* whether it is n without the symbol, and in the form of comparisons.        *)
RECURSIVE expr_contains_symbol(_, _), expr_depends_symbol(_, _), expr_trans_compare(_, _, _)
expr_contains_symbol(e, s) ==
  CASE Junction(e) -> expr_contains_symbol(e[2], s) \/ expr_contains_symbol(e[3], s)
    [] Tag(e) = "not" -> expr_contains_symbol(e[2], s)
    [] Tag(e) = "symbol" -> e[2] = s
    [] Tag(e) \in {"equal", "unequal"} -> s \in {e[2], e[3]}
    [] OTHER -> FALSE
expr_depends_symbol(e, s) ==
  CASE Tag(e) = "and" -> expr_depends_symbol(e[2], s) \/ expr_depends_symbol(e[3], s)
    [] Tag(e) = "symbol" -> e[2] = s
    [] Tag(e) = "equal" -> e[2] = s /\ e[3] \in {"y", "m"}
    [] Tag(e) = "unequal" -> e[2] = s /\ e[3] = "n"
    [] OTHER -> FALSE
Negated(type, e) == IF type = "unequal" THEN Not(e) ELSE e
Other(type) == IF type = "equal" THEN "unequal" ELSE "equal"
(* For y and n only. *)
expr_trans_compare(e, type, s) ==
  CASE e = NULL -> Negated(type, Sym(s))
    [] Junction(e) ->
         Negated(type, <<IF s = "y" THEN e[1] ELSE IF e[1] = "and" THEN "or" ELSE "and",
                         expr_trans_compare(e[2], "equal", s), expr_trans_compare(e[3], "equal", s)>>)
    [] Tag(e) = "not" -> expr_trans_compare(e[2], Other(type), s)
    [] Tag(e) \in {"equal", "unequal"} -> Negated(IF s = "y" THEN type ELSE Other(type), e)
    [] OTHER -> <<type, e[2], s>>
==============================================================================
