----------------------------- MODULE MCKconfig -----------------------------
EXTENDS Kconfig

Bools == {"A", "B", "C1", "C2", "C", "S", "W", "MODULES", "modules"}
Ints == {"MAX", "NUM"}
MCNumber == [t \in {"1", "2", "3"} |-> CASE t = "1" -> 1 [] t = "2" -> 2 [] OTHER -> 3]
MCType == [s \in Bools \cup {"T", "U", "V", "X", "X1", "X2", "STR", "y", "m", "n"} \cup Ints \cup DOMAIN MCNumber |->
             CASE s \in Bools -> "bool" [] s \in Ints -> "int" [] s = "STR" -> "string" [] OTHER -> "tristate"]
Entry(s) == [sym |-> s, parent |-> 0, dep |-> NULL, prompt |-> <<NULL>>, defaults |-> <<>>, selects |-> <<>>, ranges |-> <<>>]
(* Tristates that select; a submenu. *)
Tri1 == [choices |-> {}, optional |-> {}, entries |-> <<
   Entry("MODULES"), [Entry("T") EXCEPT !.defaults = <<<<Mod, NULL>>>>],
   [Entry("none") EXCEPT !.dep = Or(Sym("T"), Mod)],
   [Entry("A") EXCEPT !.parent = 3, !.dep = Unequal("T", "n"), !.selects = <<<<"U", Sym("T")>>>>],
   [Entry("U") EXCEPT !.prompt = <<Sym("T")>>]>>]
(* A choice with a default, one of whose values selects. *)
Bool1 == [choices |-> {"C"}, optional |-> {}, entries |-> <<
   Entry("A"),
   [Entry("C") EXCEPT !.dep = Sym("A"), !.defaults = <<<<Sym("C2"), NULL>>>>],
   [Entry("C1") EXCEPT !.parent = 2], [Entry("C2") EXCEPT !.parent = 2, !.selects = <<<<"S", NULL>>>>],
   [Entry("S") EXCEPT !.prompt = <<Not(Sym("C1"))>>]>>]
(* An optional choice. *)
Bool2 == [choices |-> {"C"}, optional |-> {"C"}, entries |-> <<
   Entry("C"), [Entry("C1") EXCEPT !.parent = 1], [Entry("C2") EXCEPT !.parent = 1, !.dep = Sym("A")], Entry("A")>>]
(* A choice among tristates. *)
Tri2 == [choices |-> {"X"}, optional |-> {}, entries |-> <<
   Entry("MODULES"), Entry("X"), [Entry("X1") EXCEPT !.parent = 2],
   [Entry("X2") EXCEPT !.parent = 2, !.dep = Sym("T")], Entry("T")>>]
(* A string with a hidden prompt, in a submenu. *)
Str1 == [choices |-> {}, optional |-> {}, entries |-> <<
   Entry("A"), Entry("B"), Entry("none"),
   [Entry("STR") EXCEPT !.parent = 3, !.prompt = <<Sym("B")>>,
                        !.defaults = <<<<Sym("d1"), Sym("A")>>, <<Sym("d2"), NULL>>>>]>>]
(* A number whose range another one limits. *)
Int1 == [choices |-> {}, optional |-> {}, entries |-> <<
   Entry("A"),
   [Entry("NUM") EXCEPT !.prompt = <<Sym("A")>>, !.defaults = <<<<Sym("3"), NULL>>>>,
                        !.ranges = <<<<<<"2", "3">>, Not(Sym("A"))>>, <<<<"1", "MAX">>, NULL>>>>],
   [Entry("MAX") EXCEPT !.defaults = <<<<Sym("1"), NULL>>>>, !.ranges = <<<<<<"1", "2">>, NULL>>>>]>>]
(* What the expressions are about. *)
Two == [choices |-> {}, optional |-> {}, entries |-> <<Entry("MODULES"), Entry("V"), Entry("W")>>]
MCMenus == {menu_finalize(m) : m \in {Two, Tri1, Bool1, Bool2, Tri2, Str1, Int1}}
MCOthers == {<<<<"A", "y">>, <<"C1", "y">>, <<"C2", "y">>, <<"T", "m">>, <<"STR", "d2">>, <<"A", "n">>, <<"C2", "n">>>>}

Literals(s) == {Sym(s), Not(Sym(s))} \cup {Equal(s, v) : v \in {"n", "m", "y"}} \cup {Unequal(s, v) : v \in {"n", "m", "y"}}
Pairs(X) == {And(p[1], p[2]) : p \in X \X X} \cup {Or(p[1], p[2]) : p \in X \X X}
Few == Pairs({Sym("V"), Sym("W"), Not(Sym("W"))})
Mixed == {And(p[1], p[2]) : p \in Few \X (Few \cup {Not(e) : e \in Few})}
         \cup {Or(p[1], p[2]) : p \in Few \X (Few \cup {Not(e) : e \in Few})}
MCExpressions == Pairs(Literals("V") \cup Literals("W") \cup {Yes, Mod, No}) \cup Mixed
MCSubjects == {"V", "W"}
==============================================================================
