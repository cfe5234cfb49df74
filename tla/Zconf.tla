------------------------------- MODULE Zconf -------------------------------
(* Reading a configuration menu (kconfig: zconf.l, zconf.y, menu.c): the      *)
(* scanner with its stack of files, the parser's actions on the tree of       *)
(* entries, and menu_finalize, which hands dependencies down, gathers entries *)
(* below the one they depend on and dissolves what has no prompt.  Every      *)
(* error ends the program; that the parser goes on to report further errors   *)
(* is left out, and so are line numbers and options that say nothing about    *)
(* dependencies.  A symbol's type is given by Type.                           *)
EXTENDS Kconfig

CONSTANT Texts   \* configuration files: [main, lines, newline], see MCConf
VARIABLES text,  \* the files being read
          lex,   \* the scanner: open files, innermost last, files done with, help
          p      \* the parser: [stage, tree, last, menu, entry, blocks, list, if]
zconf_vars == <<text, lex, p>>

None == 0
Root == 1
Entry0 == [sym |-> "none", choice |-> FALSE, of |-> "none",
           parent |-> None, list |-> None, next |-> None, file |-> "none",
           prompt |-> <<>>, menu |-> FALSE, dep |-> NULL, defaults |-> <<>>, selects |-> <<>>,
           optional |-> FALSE]

-----------------------------------------------------------------------------
(* The tree is kept as the program keeps it, by the links list and next; last *)
(* is the link the next entry is put at.                                      *)
menu_add_entry(q, s, f) ==
  LET i == Len(q.tree) + 1
      new == [Entry0 EXCEPT !.sym = s, !.parent = q.menu, !.file = f] IN
  [q EXCEPT !.tree = Append([@ EXCEPT ![q.last[1]][q.last[2]] = i], new), !.last = <<i, "next">>, !.entry = i]
menu_add_menu(q, kind) ==
  [q EXCEPT !.last = <<q.entry, "list">>, !.menu = q.entry, !.blocks = Append(@, kind)]
menu_end_menu(q) ==
  [q EXCEPT !.last = <<q.menu, "next">>, !.menu = q.tree[q.menu].parent, !.blocks = Front(@)]
menu_add_dep_anew(q, e) == [q EXCEPT !.tree[q.entry].dep = menu_check_dep(e)]
menu_add_dep(q, e) == [q EXCEPT !.tree[q.entry].dep = expr_alloc_and(@, menu_check_dep(e))]
menu_add_prompt(q, menu_type, cond) ==
  [q EXCEPT !.tree[q.entry].prompt = <<menu_check_dep(cond)>>, !.tree[q.entry].menu = menu_type]
menu_add_expr(q, field, e, cond) ==
  [q EXCEPT !.tree[q.entry][field] = Append(@, <<menu_check_dep(cond), e>>)]

-----------------------------------------------------------------------------
(* The scanner.  A line is [cmd, arg, cond, indent]; the end of a file counts *)
(* as the end of a line, whether or not its last line has one.                *)
Current == Last(lex.bufs)
File(l) == IF l.bufs = <<>> THEN "none" ELSE Last(l.bufs).file
Lines(f) == text.lines[f]
AtEnd == Current.pos > Len(Lines(Current.file))
Line == Lines(Current.file)[Current.pos]
zconf_endfile(l) == [l EXCEPT !.bufs = Front(@), !.scanned = @ \cup {File(l)}]
Consumed ==
  IF Current.pos = Len(Lines(Current.file)) /\ Current.file \notin text.newline
  THEN zconf_endfile(lex)
  ELSE [lex EXCEPT !.bufs[Len(lex.bufs)].pos = @ + 1]
Busy(l) == {l.bufs[i].file : i \in DOMAIN l.bufs}
zconf_nextfile(l, f) == [l EXCEPT !.bufs = Append(@, [file |-> f, pos |-> 1])]

(* A help text ends before a line in the first column, and before one that is *)
(* indented less than its first line.                                         *)
NoHelp == [on |-> FALSE, first |-> 0]
NextInFirstColumn ==
  LET k == Current.pos + 1 IN
  k <= Len(Lines(Current.file)) /\ Lines(Current.file)[k].indent = 0 /\ Lines(Current.file)[k].cmd # "blank"
LessIndented == Line.cmd # "blank" /\ Line.indent > 0 /\ Line.indent < lex.help.first
EndsHelp == AtEnd \/ LessIndented
HelpAfter ==
  IF NextInFirstColumn THEN NoHelp
  ELSE IF Line.cmd = "blank" \/ lex.help.first # 0 THEN lex.help
  ELSE [lex.help EXCEPT !.first = Line.indent]

-----------------------------------------------------------------------------
(* The parser, when it has seen the first word of a statement that is not an  *)
(* option: the list of options before it ends, and only now does an "if"      *)
(* become an entry, of the file that is current by now.                       *)
Flush(q, f) ==
  CASE q.if # <<>> -> menu_add_menu(menu_add_dep(menu_add_entry([q EXCEPT !.if = <<>>], "none", f), q.if[1]), "if")
    [] q.if = <<>> /\ q.list \in {"choice", "menu"} -> menu_add_menu([q EXCEPT !.list = "none"], q.list)
    [] q.list = "menuconfig" /\ q.tree[q.entry].prompt # <<>> ->
         [q EXCEPT !.list = "none", !.tree[q.entry].menu = TRUE]
    [] OTHER -> [q EXCEPT !.list = "none"]
ConfigOptions == {"prompt", "default", "select", "depends", "help"}
Options == [config |-> ConfigOptions, menuconfig |-> ConfigOptions,
            choice |-> {"prompt", "default", "optional", "depends", "help"},
            menu |-> {"depends"}, comment |-> {"depends"}, none |-> {}]
Ends == [endmenu |-> "menu", endchoice |-> "choice", endif |-> "if"]

Reading == p.stage = "parse" /\ lex.bufs # <<>>
Parse(q, l) == p' = q /\ lex' = l /\ UNCHANGED text
Reads(cmds) == Reading /\ ~lex.help.on /\ ~AtEnd /\ Line.cmd \in cmds
Statement == Flush(p, Current.file)
Within_choice == Statement.blocks # <<>> /\ Last(Statement.blocks) = "choice"

Option ==
  /\ p.if = <<>> /\ Reads(Options[p.list])
  /\ LET w == Line IN
     Parse(CASE w.cmd = "prompt" -> menu_add_prompt(p, FALSE, w.cond)
             [] w.cmd \in {"default", "select"} -> menu_add_expr(p, w.cmd \o "s", w.arg, w.cond)
             [] w.cmd = "depends" -> menu_add_dep(p, w.arg)
             [] w.cmd = "optional" -> [p EXCEPT !.tree[p.entry].optional = TRUE]
             [] OTHER -> p,
           [Consumed EXCEPT !.help.on = w.cmd = "help"])
Config ==
  /\ Reads({"config", "menuconfig"})
  /\ Parse([menu_add_entry(Statement, Line.arg, File(Consumed)) EXCEPT !.list = Line.cmd], Consumed)
Choice ==
  /\ Reads({"choice"}) /\ ~Within_choice
  /\ LET q == menu_add_entry(Statement, Line.arg, File(Consumed)) IN
     Parse([q EXCEPT !.list = "choice", !.tree[q.entry].choice = TRUE], Consumed)
Menu ==
  /\ Reads({"menu", "comment"}) /\ (Line.cmd = "menu" => ~Within_choice)
  /\ Parse([menu_add_prompt(menu_add_entry(Statement, "none", File(Consumed)), Line.cmd = "menu", NULL)
              EXCEPT !.list = Line.cmd], Consumed)
If == Reads({"if"}) /\ Parse([Statement EXCEPT !.if = <<Line.arg>>], Consumed)
zconf_endtoken ==
  /\ Statement.blocks # <<>> /\ Last(Statement.blocks) = Ends[Line.cmd]
  /\ Statement.tree[Statement.menu].file = File(Consumed)
End == Reads(DOMAIN Ends) /\ zconf_endtoken /\ Parse(menu_end_menu(Statement), Consumed)
(* A "source" on a last line without end of the first file is carried out     *)
(* when no file is open any more: the program follows a null pointer.         *)
Source ==
  /\ Reads({"source"})
  /\ CASE Consumed.bufs = <<>> -> Parse([Statement EXCEPT !.stage = "crashed"], Consumed)
       [] Consumed.bufs # <<>> /\ Line.arg \in Busy(Consumed) \cup Consumed.scanned ->
            Parse([Statement EXCEPT !.stage = "failed"], Consumed)
       [] OTHER -> Parse(Statement, zconf_nextfile(Consumed, Line.arg))
Blank == Reads({"blank"}) /\ Parse(p, Consumed)
EndOfFile == Reading /\ ~lex.help.on /\ AtEnd /\ Parse(p, zconf_endfile(lex))
Help ==
  /\ Reading /\ lex.help.on
  /\ IF EndsHelp THEN Parse(p, [lex EXCEPT !.help = NoHelp])
     ELSE Parse(p, [lex EXCEPT !.help = HelpAfter, !.bufs[Len(lex.bufs)].pos = @ + 1])
Wrong ==
  /\ \/ /\ Reads(ConfigOptions \cup {"optional", "text"})
        /\ p.if # <<>> \/ Line.cmd \notin Options[p.list]
     \/ Reads({"choice", "menu"}) /\ Within_choice
     \/ Reads(DOMAIN Ends) /\ ~zconf_endtoken
     \/ p.stage = "parse" /\ lex.bufs = <<>> /\ Flush(p, "none").blocks # <<>>
  /\ Parse([p EXCEPT !.stage = "failed"], lex)

-----------------------------------------------------------------------------
(* menu_finalize.  First the dependencies of an entry are handed to the ones  *)
(* in its list; an entry without a list gathers the following ones that       *)
(* depend on its symbol or that are hidden with it.                           *)
RECURSIVE Chain(_, _), Preorder(_, _), finalize(_, _), EachFinalized(_, _), Gathered(_, _, _, _), Dissolved(_, _, _)
Chain(t, i) == IF i = None THEN <<>> ELSE <<i>> \o Chain(t, t[i].next)
Preorder(t, i) ==
  <<i>> \o FoldLeft(LAMBDA done, j : done \o Preorder(t, j), <<>>, Chain(t, t[i].list))
Joined(dep, e) == expr_eliminate_dups(expr_alloc_and(dep, expr_transform(e)))
ParentDep(t, i) ==
  CASE t[i].choice -> Sym(t[i].sym)
    [] ~t[i].choice /\ t[i].prompt # <<>> -> t[i].prompt[1]
    [] OTHER -> t[i].dep
Conditioned(entry, dep) ==
  LET condition(e) == Form(entry.sym, Joined(dep, e)) IN
  [entry EXCEPT !.dep = dep, !.prompt = [k \in DOMAIN @ |-> condition(@[k])],
                !.defaults = [k \in DOMAIN @ |-> <<condition(@[k][1]), @[k][2]>>],
                !.selects = [k \in DOMAIN @ |-> <<condition(@[k][1]), @[k][2]>>]]
HandedDown(t, i, j) == [t EXCEPT ![j] = Conditioned(@, Joined(ParentDep(t, i), @.dep))]
Visibility(t, i) == IF t[i].prompt # <<>> THEN t[i].prompt[1] ELSE t[i].dep
Plain(e) == expr_eliminate_dups(expr_transform(expr_trans_compare(e, "unequal", "n")))
HiddenWith(t, i, j) ==
  expr_eliminate_eq(Plain(Visibility(t, j)),
                    Plain(IF t[i].prompt = <<>> THEN NULL ELSE t[i].prompt[1]))[2] \in {NULL, Yes}
Below_mentioning(t, i, j) == expr_contains_symbol(Visibility(t, j), t[i].sym)
Below(t, i, j) ==
  /\ expr_contains_symbol(Visibility(t, j), t[i].sym)
  /\ expr_depends_symbol(Visibility(t, j), t[i].sym) \/ HiddenWith(t, i, j)
Taken(t, i, last) ==
  IF last = None THEN t
  ELSE [t EXCEPT ![i].list = t[i].next, ![i].next = t[last].next, ![last].next = None]
GatheredOn(t, i, j) == Gathered([t EXCEPT ![j].parent = i], i, t[j].next, j)
Gathered(t, i, j, last) ==
  IF j = None \/ ~Below(t, i, j) THEN Taken(t, i, last) ELSE GatheredOn(finalize(t, j), i, j)
FinalizedOn(t, j) == EachFinalized(t, t[j].next)
EachFinalized(t, j) == IF j = None THEN t ELSE FinalizedOn(finalize(t, j), j)
(* An entry without prompt leaves its list to its parent. *)
Promoted(t, i, j) ==
  LET below == Chain(t, t[j].list) IN
  IF below = <<>> \/ t[j].prompt # <<>> THEN t
  ELSE [k \in DOMAIN t |->
          CASE k = j -> [t[j] EXCEPT !.next = t[j].list, !.list = None]
            [] k \in Range(below) -> [t[k] EXCEPT !.parent = i, !.next = IF k = Last(below) THEN t[j].next ELSE @]
            [] OTHER -> t[k]]
WithValue(t, i, j) == IF t[i].choice /\ t[j].sym # "none" THEN [t EXCEPT ![j].of = t[i].sym] ELSE t
DissolvedOn(t, i, j) == Dissolved(t, i, t[j].next)
Dissolved(t, i, j) == IF j = None THEN t ELSE DissolvedOn(Promoted(WithValue(t, i, j), i, j), i, j)
DissolvedList(t, i) == Dissolved(t, i, t[i].list)
FinalizedList(t, i) ==
  CASE t[i].list # None ->
         EachFinalized(FoldLeft(LAMBDA u, j : HandedDown(u, i, j), t, Chain(t, t[i].list)), t[i].list)
    [] t[i].list = None /\ t[i].sym # "none" -> Gathered(t, i, t[i].next, None)
    [] OTHER -> t
finalize(t, i) == DissolvedList(FinalizedList(t, i), i)

(* The symbols and their properties, as the rest of the program uses them. *)
Result(t) ==
  LET defined == SelectSeq(Preorder(t, Root), LAMBDA i : t[i].sym # "none")
      names == {t[defined[k]].sym : k \in DOMAIN defined}
      index(s) == CHOOSE i \in Range(defined) : t[i].sym = s
      Of(F(_), default) == [s \in names \cup {"modules"} |-> IF s = "modules" THEN default ELSE F(index(s))]
      selects == FlattenSeq([k \in DOMAIN defined |-> LET i == defined[k] IN
                   [n \in DOMAIN t[i].selects |->
                      <<t[i].selects[n][2], expr_alloc_and(Sym(t[i].sym), t[i].selects[n][1])>>]])
      selected(s) == FoldLeft(LAMBDA e, x : IF x[1] = Sym(s) THEN expr_alloc_or(e, x[2]) ELSE e, NULL, selects)
      forced(i) == IF t[i].choice /\ ~t[i].optional /\ t[i].prompt # <<>>
                   THEN expr_alloc_and(t[i].prompt[1], Mod) ELSE NULL IN
  [list |-> [k \in DOMAIN defined |-> t[defined[k]].sym],
   prompts |-> Of(LAMBDA i : t[i].prompt, <<>>),
   defaults |-> Of(LAMBDA i : t[i].defaults, <<<<NULL, Sym("MODULES")>>>>),
   ranges |-> Of(LAMBDA i : <<>>, <<>>),
   rev_dep |-> Of(LAMBDA i : expr_alloc_or(selected(t[i].sym), forced(i)), NULL),
   choice |-> Of(LAMBDA i : t[i].of, "none"),
   entries |-> <<>>,
   choices |-> {t[i].sym : i \in {j \in Range(defined) : t[j].choice}}]
NoMenu == [list |-> <<>>, prompts |-> <<>>, defaults |-> <<>>, ranges |-> <<>>, rev_dep |-> <<>>,
           choice |-> <<>>, entries |-> <<>>, choices |-> {}]

-----------------------------------------------------------------------------
ZconfInit ==
  /\ text \in Texts
  /\ lex = [bufs |-> <<[file |-> "main", pos |-> 1]>>, scanned |-> {}, help |-> NoHelp]
  /\ p = [stage |-> "parse", tree |-> <<[Entry0 EXCEPT !.prompt = <<NULL>>, !.menu = TRUE]>>,
          last |-> <<Root, "list">>, menu |-> Root, entry |-> Root, blocks |-> <<>>, list |-> "none", if |-> <<>>]
  /\ menu = NoMenu /\ g = Parsed(NoMenu) /\ current = 0 /\ config = <<>>
ReadText ==
  /\ \/ Option \/ Config \/ Choice \/ Menu \/ If \/ End \/ Source \/ Blank \/ EndOfFile \/ Help \/ Wrong
  /\ UNCHANGED vars
DepsChecked(q, t, k) ==
  IF sym_check_deps(k)
  THEN Parse([q EXCEPT !.stage = "parsed", !.tree = t], lex) /\ menu' = k /\ g' = Parsed(k)
  ELSE Parse([q EXCEPT !.stage = "failed", !.tree = t], lex) /\ UNCHANGED <<menu, g>>
Finalized(q, t) == q.blocks = <<>> /\ DepsChecked(q, t, Result(t))
conf_parse ==
  /\ p.stage = "parse" /\ lex.bufs = <<>>
  /\ Finalized(Flush(p, "none"), finalize(Flush(p, "none").tree, Root))
  /\ UNCHANGED <<current, config>>

-----------------------------------------------------------------------------
(* The text as its author sees it: files in place of the lines that name      *)
(* them, without help; a block is open from its first line to its end.        *)
Headers == {"config", "menuconfig", "choice", "menu", "comment", "if"}
Blocks == {"choice", "menu", "if"}
FirstBelow(q, h) ==
  LET after == {k \in DOMAIN q : k > h /\ q[k].cmd # "blank"} IN
  IF after = {} THEN 0 ELSE q[CHOOSE k \in after : \A m \in after : k <= m].indent
IsHelpText(q, k) ==
  \E h \in 1..k - 1 :
    /\ q[h].cmd = "help" /\ FirstBelow(q, h) > 0
    /\ \A m \in h + 1..k : q[m].cmd = "blank" \/ q[m].indent >= FirstBelow(q, h)
RECURSIVE Flat(_)
Flat(f) ==
  LET q == Lines(f) IN
  FoldLeft(LAMBDA done, k : IF IsHelpText(q, k) THEN done
                            ELSE IF q[k].cmd = "source" THEN done \o Flat(q[k].arg)
                            ELSE Append(done, q[k]), <<>>, [k \in DOMAIN q |-> k])
Count(q, a, b, cmds) == Cardinality({m \in a..b : q[m].cmd \in cmds})
Encloses(q, b, k) ==
  /\ b < k /\ q[b].cmd \in Blocks
  /\ \A m \in b + 1..k : Count(q, b + 1, m, DOMAIN Ends) <= Count(q, b + 1, m, Blocks)
OptionsOf(q, k) ==
  {m \in k + 1..Len(q) : q[m].cmd \notin Headers /\ \A n \in k + 1..m : q[n].cmd \notin Headers \cup DOMAIN Ends}
Depends(q, k) == {q[m].arg : m \in {n \in OptionsOf(q, k) : q[n].cmd = "depends"}}
Conditions_written(q, k) ==
  Depends(q, k)
    \cup {q[m].cond : m \in {n \in OptionsOf(q, k) : q[n].cmd = "prompt"}}
    \cup UNION {CASE q[b].cmd = "menu" -> Depends(q, b)
                  [] q[b].cmd = "if" -> {q[b].arg}
                  [] OTHER -> {Sym(q[b].arg)} : b \in {m \in 1..k - 1 : Encloses(q, m, k)}}
HeaderLines(q) == SelectSeq([k \in DOMAIN q |-> k], LAMBDA k : q[k].cmd \in Headers)
(* Texts in which a help text is indented and a file ends with a line's end   *)
(* and not with an "if".                                                      *)
Tidy == \A f \in DOMAIN text.lines :
  LET q == Lines(f) IN
  /\ q # <<>> => f \in text.newline /\ Last(q).cmd # "if"
  /\ \A k \in DOMAIN q : q[k].cmd = "help" /\ k < Len(q) => q[k + 1].cmd = "blank" \/ q[k + 1].indent > 0

(* The value of a dependency, for any values of the symbols. *)
Valuations == {v \in [DOMAIN menu'.prompts -> {no, mod, yes}] : \A s \in DOMAIN v : Type[s] # "tristate" => v[s] # mod}
RECURSIVE ValueIn(_, _)
ValueIn(v, e) ==
  LET tri(s) == IF s \in DOMAIN v THEN v[s] ELSE CASE s = "y" -> yes [] s = "m" -> mod [] OTHER -> no
      string(s) == IF s \in DOMAIN v THEN <<"n", "m", "y">>[v[s] + 1] ELSE s IN
  CASE e = NULL -> yes
    [] Tag(e) = "symbol" -> tri(e[2])
    [] Tag(e) = "not" -> E_NOT(ValueIn(v, e[2]))
    [] Tag(e) = "and" -> E_AND(ValueIn(v, e[2]), ValueIn(v, e[3]))
    [] Tag(e) = "or" -> E_OR(ValueIn(v, e[2]), ValueIn(v, e[3]))
    [] OTHER -> IF (string(e[2]) = string(e[3])) <=> Tag(e) = "equal" THEN yes ELSE no

(* When the menu has been read, an entry's prompt is hidden by exactly what   *)
(* the text says: its own conditions and those of the blocks around it, in    *)
(* whichever file, whatever the finalizing has moved and simplified.  (Of a   *)
(* dependency that is m only the rewriting is unfaithful, see                 *)
(* SimplifiedAgrees.)                                                         *)
Parsed_now == p.stage = "parse" /\ p'.stage = "parsed"
DependsCombined ==
  [][Parsed_now /\ Tidy =>
       LET q == Flat("main")
           k == HeaderLines(q) IN
       /\ Len(p'.tree) = Len(k) + 1
       /\ \A i \in 2..Len(p'.tree), v \in Valuations : p'.tree[i].prompt # <<>> =>
            LET all == {ValueIn(v, e) : e \in Conditions_written(q, k[i - 1])} \cup {yes} IN
            mod \notin all => (ValueIn(v, p'.tree[i].prompt[1]) = no <=> no \in all)]_<<zconf_vars, vars>>

(* The finalized menu lists the entries in the order of the text, each below  *)
(* the menus and choices that enclose it and in no others; and an entry that  *)
(* is visible can be reached: no entry above it is hidden, for whatever       *)
(* values of the symbols.                                                     *)
Ancestors(t, i) == {j \in DOMAIN t : j # i /\ i \in Range(Preorder(t, j))}
RECURSIVE visible_in(_, _, _)
visible_in(v, t, i) ==
  /\ t[i].prompt # <<>>
  /\ \/ ValueIn(v, t[i].prompt[1]) # no
     \/ /\ t[i].sym # "none" /\ v[t[i].sym] # no
        /\ \E j \in Range(Chain(t, t[i].list)) : visible_in(v, t, j)
Reachable ==
  [][Parsed_now =>
       LET t == p'.tree IN
       /\ Preorder(t, Root) = [i \in DOMAIN t |-> i]
       /\ \A i \in DOMAIN t, j \in DOMAIN t : i \in Range(Chain(t, t[j].list)) => t[i].parent = j
       /\ Tidy => LET q == Flat("main")
                      k == HeaderLines(q) IN
          \A i \in 2..Len(t), j \in 2..Len(t) : q[k[j - 1]].cmd \in {"menu", "choice"} =>
            (j \in Ancestors(t, i) <=> Encloses(q, k[j - 1], k[i - 1]))
       /\ \A i \in 2..Len(t), v \in Valuations : t[i].prompt # <<>> /\ ValueIn(v, t[i].prompt[1]) # no =>
            \A j \in Ancestors(t, i) : visible_in(v, t, j)]_<<zconf_vars, vars>>
==============================================================================
