----------------------------- MODULE MCLxdialog -----------------------------
(* mconf on terminals of 9 to 21 lines: menus longer                        *)
(* than the window or not, and texts longer than the box.                     *)
EXTENDS Lxdialog

-----------------------------------------------------------------------------
it(chars, tag, data) == [text |-> chars, tag |-> tag, data |-> data, selected |-> FALSE]
Option(c, d) == it(<<"[", "*", "]", c>>, "t", d)
Sub(d) == it(<<" ", "b", ">">>, "m", d)
Str(d) == it(<<"[", "a", "]", "n", "a">>, "s", d)
Rule == it(<<"-", " ">>, ":", NULL)
Load == it(<<" ", "s">>, "L", NULL)
Save == it(<<" ", "s">>, "S", NULL)
MCMenus == <<
  {<<Option("a", 1), Sub(3), Str(4), Option("a", 5), Option("a", 8), Rule, Load, Save>>,
   <<Option("a", 1), Sub(3), Rule, Load, Save>>},
  {<<Option("n", 6), Option("a", 7)>>, <<>>}>>
MCMenuPrompts == {5}

value(c, tag, d) == it(<<c>>, tag, d)
MCChoices == {<<value("a", " ", 1), value("b", "X", 2), value("s", " ", 3), value("a", " ", 4)>>,
              <<value("a", " ", 1), value("b", " ", 2), value("o", " ", 3), value("a", "X", 4)>>}

n == <<"x", "\n">>
long == <<"\n">> \o n \o n \o n \o <<"\n">> \o n \o n \o n \o n \o n \o n
MCTexts == [f \in {"conf", "choice", "string", "file", "search"} |->
              IF f = "conf" THEN {long} ELSE {n}]
MCNotes == {<<"x">>, n \o <<"x">>}
MCPrompts == {[words |-> <<[len |-> 3, gap |-> 1], [len |-> 4, gap |-> 2], [len |-> 1, gap |-> 1],
                           [len |-> 5, gap |-> 1], [len |-> 2, gap |-> 0]>>, width |-> 14]}
MCStrings == {<<>>, <<"a", "b", "a">>}
size_of(l, c) == [lines |-> l, cols |-> c]
MCSizes == {size_of(21, 80), size_of(17, 70), size_of(9, 80)}
=============================================================================
