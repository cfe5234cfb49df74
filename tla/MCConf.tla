------------------------------- MODULE MCConf -------------------------------
EXTENDS Conf

Bools == {"A", "B", "C", "C1", "C2", "MODULES", "modules"}
MCType == [s \in Bools \cup {"T", "STR", "y", "m", "n"} |->
             CASE s \in Bools -> "bool" [] s = "STR" -> "string" [] OTHER -> "tristate"]
MCNumber == [t \in {} |-> 0]
L(cmd, arg, indent) == [cmd |-> cmd, arg |-> arg, cond |-> NULL, indent |-> indent]
Opens(s) == <<L("config", s, 0)>>
Dep(e) == <<L("depends", e, 1)>>
Prompt(e) == <<[L("prompt", "none", 1) EXCEPT !.cond = e]>>
Cmd(cmd) == <<L(cmd, "none", 0)>>
IfL(e) == <<L("if", e, 0)>>
Src == <<L("source", "sub", 0)>>
EA == Opens("A") \o Prompt(NULL)
EB == Opens("B") \o Dep(Sym("A")) \o Prompt(NULL)
TextOf(main, sub, newline) == [lines |-> [main |-> main, sub |-> sub], newline |-> newline]
Whole == {"main", "sub"}
Deps == {NULL, Sym("A"), Not(Sym("A")), Or(Sym("A"), Sym("B")), And(Sym("A"), Sym("T")), Equal("T", "m")}

(* How blocks nest, in one file and over two. *)
Parts == {EA, EB, Cmd("menu"), IfL(Sym("A")), <<L("choice", "C", 0)>> \o Prompt(NULL), Cmd("endmenu"), Cmd("endif"), Cmd("endchoice"), Src}
Subs == {EB, EB \o Cmd("endif"), EA \o IfL(Sym("A"))}
Nesting == {q \in UNION {[1..n -> Parts] : n \in 1..4} :
              \A x \in {EA, EB, Src, Cmd("menu")} : Cardinality({k \in DOMAIN q : q[k] = x}) <= 1}
NestingTexts == {TextOf(FlattenSeq(q), s, n) : q \in Nesting, s \in Subs, n \in {Whole}}

(* What dependencies are made of. *)
DepTexts ==
  {TextOf(Opens("MODULES") \o Prompt(NULL) \o Opens("T") \o Prompt(d[1])
            \o Cmd("menu") \o Dep(d[2]) \o IfL(d[3]) \o Opens("A") \o Dep(Sym("B")) \o Dep(d[4]) \o Prompt(d[1])
            \o Cmd("endif") \o Cmd("endmenu") \o Opens("B") \o Prompt(NULL), <<>>, Whole) :
     d \in {<<w, x, y, z>> : w \in {NULL, Sym("A")}, x \in {NULL, Not(Sym("A")), Equal("T", "m")},
                            y \in Deps \ {NULL}, z \in {NULL, Or(Sym("A"), Sym("B")), And(Sym("A"), Sym("T"))}}}
(* Entries that follow the one they depend on. *)
FollowTexts ==
  {TextOf(Opens("A") \o Prompt(d[1]) \o Opens("B") \o Dep(d[2]) \o Prompt(d[3])
            \o <<L("comment", "none", 0)>> \o Dep(d[4])
            \o Opens("T") \o Dep(d[3]) \o Prompt(NULL), <<>>, Whole) :
     d \in {<<w, x, y, z>> : w \in {NULL, Not(Sym("B"))}, x \in Deps, y \in {NULL, Sym("A"), Not(Sym("A"))}, z \in Deps}}
(* Choices: values in blocks, defaults, selects. *)
ChoiceTexts ==
  {TextOf(EA \o Cmd("blank") \o <<L("choice", "C", 0)>> \o o \o Prompt(d[1]) \o Dep(d[2]) \o Opens("C1") \o Prompt(NULL)
            \o IfL(Sym("A")) \o Opens("C2") \o Prompt(d[3]) \o Cmd("endif")
            \o Cmd("endchoice") \o <<L("menuconfig", "B", 0)>> \o Prompt(NULL) \o Dep(Sym("C1")), <<>>, Whole) :
     d \in [1..3 -> {NULL, Sym("A"), Not(Sym("A"))}], o \in {<<>>, <<L("optional", "none", 1)>>}}
(* Help texts. *)
HelpTexts ==
  {TextOf(Opens("A") \o Prompt(NULL) \o <<L("help", "none", 1)>>
            \o [k \in 1..3 |-> IF i[k] = 3 THEN L("blank", "none", 0) ELSE L("text", "none", i[k])]
            \o q \o EB, <<>>, n) :
     i \in [1..3 -> 0..3], q \in {<<>>, Dep(Sym("B"))}, n \in {Whole, {}}}
(* Last lines without an end. *)
EndTexts ==
  {TextOf(a \o Src \o b, s, n) :
     a \in {<<>>, Cmd("menu"), IfL(Sym("A"))}, b \in {<<>>, EB, EB \o Cmd("endif"), Cmd("endmenu")},
     s \in {EA, EA \o Cmd("endmenu"), EA \o IfL(Sym("A")), EA \o Cmd("menu"), Src, <<L("source", "main", 0)>>, <<L("help", "none", 1)>>},
     n \in SUBSET Whole}
(* For the walk. *)
STR == Opens("STR") \o Prompt(Sym("A"))
Walks ==
  {TextOf(EA \o STR, <<>>, Whole),
   TextOf(EA \o STR \o <<L("default", Sym("d1"), 1)>> \o Cmd("menu") \o EB \o Cmd("endmenu"), <<>>, Whole),
   TextOf(Cmd("menu") \o STR \o Cmd("endmenu") \o <<L("menuconfig", "A", 0)>> \o Prompt(NULL) \o <<L("select", Sym("B"), 1)>> \o EB, <<>>, Whole),
   TextOf(EA \o <<L("choice", "C", 0)>> \o Prompt(NULL) \o <<L("default", Sym("C2"), 1)>>
            \o Opens("C1") \o Prompt(NULL) \o Opens("C2") \o Prompt(Sym("A")) \o Cmd("endchoice") \o STR, <<>>, Whole)}
Found(s, values) == {<<>>} \cup {<<<<s, v>>>> : v \in values}
MCSaved == {a \o b \o s : a \in Found("A", {"y", "n"}), b \in Found("B", {"y", "n"}) \cup Found("C1", {"y", "n"}),
                         s \in Found("STR", {"d1", "d2"})}
MCTexts == NestingTexts \cup DepTexts \cup FollowTexts \cup ChoiceTexts \cup HelpTexts \cup EndTexts \cup Walks
==============================================================================
