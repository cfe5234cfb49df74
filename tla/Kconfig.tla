------------------------------ MODULE Kconfig ------------------------------
(* The configuration program (kconfig: symbol.c, confdata.c, menu.c and the   *)
(* operations of mconf.c): symbols whose values follow from what the user has *)
(* set, from prompts, defaults, selects and choices, calculated when somebody *)
(* asks and kept until the next sym_clear_all_valid; and .config, which is    *)
(* read and written.  A number, in whichever base, is a text that stands for  *)
(* one, and may have a range.                                                 *)
EXTENDS KconfigExpr, SequencesExt

CONSTANTS Menus,       \* what menu_finalize makes of configuration files
          Strings,     \* what can be entered for a string
          Number,      \* [texts of numbers -> the numbers]
          Others,      \* contents of other files that can be loaded
          Expressions, \* dependencies one can write,
          Subjects     \* and the symbols in them
VARIABLES menu,        \* what menu_finalize has made of the configuration file
          g,           \* the symbols, modules_val, sym_change_count # 0; and the history of
                       \* changes that neither a recalculation nor the mark has followed
          current,     \* the menu on the screen: its entry, 0 for the root
          config       \* the file read or written last, while nothing is marked as changed
vars == <<menu, g, current, config>>

-----------------------------------------------------------------------------
(* Finalize: an entry inherits the dependencies of its parent, each of its    *)
(* properties those of the entry; selects and the prompt of a choice that is  *)
(* not optional become reverse dependencies.                                  *)
RECURSIVE menu_check_dep(_)
menu_check_dep(e) ==
  CASE Tag(e) = "not" -> Not(menu_check_dep(e[2]))
    [] Junction(e) -> <<e[1], menu_check_dep(e[2]), menu_check_dep(e[3])>>
    [] e = Mod -> And(e, Sym("modules"))
    [] OTHER -> e
Under(dep, e) == expr_eliminate_dups(expr_alloc_and(dep, expr_transform(menu_check_dep(e))))
Symbols(m) == ({m.entries[i].sym : i \in DOMAIN m.entries} \ {"none"}) \cup {"modules"}
Form(s, e) == IF s # "none" /\ Type[s] # "tristate" THEN expr_trans_bool(e) ELSE e
Inherited(m, i, done) ==
  LET p == m.entries[i].parent IN
  CASE p = 0 -> NULL
    [] p # 0 /\ m.entries[p].sym \in m.choices -> Sym(m.entries[p].sym)
    [] p # 0 /\ m.entries[p].sym \notin m.choices /\ done[p].prompt = <<>> -> done[p].dep
    [] OTHER -> done[p].prompt[1]
Conditions(e) ==
  [prompt |-> e.prompt,
   defaults |-> [j \in DOMAIN e.defaults |-> e.defaults[j][2]],
   selects |-> [j \in DOMAIN e.selects |-> e.selects[j][2]],
   ranges |-> [j \in DOMAIN e.ranges |-> e.ranges[j][2]]]
WithDep(e, dep) ==
  [k \in {"prompt", "defaults", "selects", "ranges"} |->
     [j \in DOMAIN Conditions(e)[k] |-> Form(e.sym, Under(dep, Conditions(e)[k][j]))]]
  @@ [dep |-> dep]
Assembled(m, done) ==
  LET entry(i) == m.entries[i]
      numbers == [i \in DOMAIN done |-> i]
      parent(i) == IF entry(i).parent = 0 THEN "none" ELSE entry(entry(i).parent).sym
      choice(i) == IF parent(i) \in m.choices THEN parent(i) ELSE "none"
      on[i \in DOMAIN done] == LET p == entry(i).parent IN
                               IF p = 0 \/ parent(i) = "none" THEN p ELSE on[p]
      index(s) == CHOOSE i \in DOMAIN done : entry(i).sym = s
      selects == FlattenSeq([i \in DOMAIN done |->
                   [j \in DOMAIN entry(i).selects |->
                     <<entry(i).selects[j][1], expr_alloc_and(Sym(entry(i).sym), done[i].selects[j])>>]])
      selected(s) == FoldLeft(LAMBDA e, x : IF x[1] = s THEN expr_alloc_or(e, x[2]) ELSE e, NULL, selects)
      forced(s) == IF s \in m.choices \ m.optional /\ done[index(s)].prompt # <<>>
                   THEN expr_alloc_and(done[index(s)].prompt[1], Mod) ELSE NULL
      Of(F(_), default) == [s \in Symbols(m) |-> IF s = "modules" THEN default ELSE F(index(s))] IN
  [list |-> [i \in DOMAIN SelectSeq(numbers, LAMBDA i : entry(i).sym # "none") |->
               entry(SelectSeq(numbers, LAMBDA j : entry(j).sym # "none")[i]).sym],
   prompts |-> Of(LAMBDA i : done[i].prompt, <<>>),
   defaults |-> Of(LAMBDA i : [j \in DOMAIN done[i].defaults |-> <<done[i].defaults[j], entry(i).defaults[j][1]>>],
                   <<<<NULL, Sym("MODULES")>>>>),
   ranges |-> Of(LAMBDA i : [j \in DOMAIN done[i].ranges |-> <<done[i].ranges[j], entry(i).ranges[j][1]>>], <<>>),
   rev_dep |-> [s \in Symbols(m) |-> expr_alloc_or(selected(s), forced(s))],
   choice |-> Of(choice, "none"),
   entries |-> [i \in DOMAIN done |-> [sym |-> entry(i).sym, prompt |-> done[i].prompt,
                                       choice |-> choice(i), menu |-> on[i]]],
   choices |-> m.choices]
menu_finalize(m) ==
  Assembled(m, FoldLeft(LAMBDA done, i : Append(done, WithDep(m.entries[i], Under(Inherited(m, i, done), m.entries[i].dep))),
                        <<>>, [i \in DOMAIN m.entries |-> i]))

(* sym_check_deps: no symbol depends on itself by its selects, prompt,        *)
(* defaults and the conditions of its ranges.  What a choice does when the    *)
(* prompt of one of its values depends on another and the limits of the       *)
(* ranges are not looked at there, and are ruled out here.                    *)
RECURSIVE SymbolsIn(_)
SymbolsIn(e) ==
  CASE e = NULL -> {}
    [] Tag(e) = "not" -> SymbolsIn(e[2])
    [] Junction(e) -> SymbolsIn(e[2]) \cup SymbolsIn(e[3])
    [] Tag(e) = "symbol" -> {e[2]}
    [] OTHER -> {e[2], e[3]}
DependsOn(k, s) ==
  SymbolsIn(k.rev_dep[s])
    \cup UNION {SymbolsIn(k.prompts[s][i]) : i \in DOMAIN k.prompts[s]}
    \cup UNION {SymbolsIn(k.defaults[s][i][1]) \cup IF s \in k.choices THEN {} ELSE SymbolsIn(k.defaults[s][i][2]) :
                  i \in DOMAIN k.defaults[s]}
    \cup UNION {SymbolsIn(k.ranges[s][i][1]) \cup Range(k.ranges[s][i][2]) : i \in DOMAIN k.ranges[s]}
sym_check_deps(k) ==
  LET further(X, t) == X \cup UNION {DependsOn(k, x) : x \in X \cap DOMAIN k.prompts} IN
  \A s \in DOMAIN k.prompts : s \notin FoldLeft(further, DependsOn(k, s), k.list)
ASSUME MenusAssumption == \A k \in Menus : sym_check_deps(k)

-----------------------------------------------------------------------------
(* Symbols.  A name that no entry defines is a constant: its name is its      *)
(* value, and y, m and n are the tristates.                                   *)
New == [tri |-> no, val |-> "none", visible |-> no, rev |-> no,
        valid |-> FALSE, write |-> FALSE, user |-> FALSE, def |-> no, defval |-> "none"]
Defined(h, s) == s \in DOMAIN h.sym
IsChoice(s) == s \in menu.choices
IsChoiceValue(s) == menu.choice[s] # "none"
Values(s) == SelectSeq(menu.list, LAMBDA v : menu.choice[v] = s)
Boolean(s) == Type[s] \in {"bool", "tristate"}
Tri(h, s) == IF Defined(h, s) THEN h.sym[s].tri
             ELSE CASE s = "y" -> yes [] s = "m" -> mod [] OTHER -> no
sym_get_string_value(h, s) ==
  IF ~Defined(h, s) THEN s
  ELSE IF Boolean(s) THEN <<"n", "m", "y">>[h.sym[s].tri + 1] ELSE h.sym[s].val
(* A tristate is a boolean without modules, and as a visible choice value. *)
IsBoolean(h, s) ==
  \/ Type[s] = "bool"
  \/ Type[s] = "tristate" /\ (h.modules_val = no \/ (IsChoiceValue(s) /\ h.sym[s].visible = yes))

RECURSIVE expr_calc_value(_, _), sym_calc_value(_, _)
Both(a, b, E(_, _)) == [g |-> b.g, v |-> E(a.v, b.v)]
Junct(a, e) == Both(a, expr_calc_value(a.g, e[3]), LAMBDA x, y : IF e[1] = "and" THEN E_AND(x, y) ELSE E_OR(x, y))
Compared(h, e) ==
  [g |-> h, v |-> IF (sym_get_string_value(h, e[2]) = sym_get_string_value(h, e[3])) <=> Tag(e) = "equal"
                  THEN yes ELSE no]
Looked(h, s) == [g |-> h, v |-> Tri(h, s)]
expr_calc_value(h, e) ==
  CASE e = NULL -> [g |-> h, v |-> yes]
    [] Tag(e) = "symbol" -> Looked(sym_calc_value(h, e[2]), e[2])
    [] Tag(e) = "not" -> [expr_calc_value(h, e[2]) EXCEPT !.v = E_NOT(@)]
    [] Junction(e) -> Junct(expr_calc_value(h, e[2]), e)
    [] OTHER -> Compared(sym_calc_value(sym_calc_value(h, e[2]), e[3]), e)

Prompted(r, s) ==
  [r.g EXCEPT !.sym[s].visible = IF r.v = mod /\ (Type[s] # "tristate" \/ r.g.modules_val = no)
                                 THEN yes ELSE r.v]
Selected(r, s) == [r.g EXCEPT !.sym[s].rev = IF r.v = mod /\ IsBoolean(r.g, s) THEN yes ELSE r.v]
Forced(h, s) ==
  IF IsChoiceValue(s) THEN h
  ELSE IF menu.rev_dep[s] = NULL THEN [h EXCEPT !.sym[s].rev = no]
  ELSE Selected(expr_calc_value(h, menu.rev_dep[s]), s)
sym_calc_visibility(h, s) ==
  Forced(IF menu.prompts[s] = <<>> THEN [h EXCEPT !.sym[s].visible = no]
         ELSE Prompted(expr_calc_value(h, menu.prompts[s][1]), s), s)

(* The first default whose condition is not n: none, or the expression.       *)
RECURSIVE sym_get_default_prop(_, _)
Default(c, props) ==
  IF c.v # no THEN [g |-> c.g, to |-> Head(props)[2]] ELSE sym_get_default_prop(c.g, Tail(props))
sym_get_default_prop(h, props) ==
  IF props = <<>> THEN [g |-> h, to |-> NULL]
  ELSE Default(expr_calc_value(h, Head(props)[1]), props)

(* The first that is visible: the user's choice, a default, any value.        *)
RECURSIVE FirstVisible(_, _, _)
Tried(h, s, v, others) ==
  IF h.sym[v].visible # no THEN [h EXCEPT !.sym[s].val = v] ELSE FirstVisible(h, s, others)
Candidate(c, s, v, others) ==
  IF c.v = no THEN FirstVisible(c.g, s, others) ELSE Tried(sym_calc_visibility(c.g, v), s, v, others)
FirstVisible(h, s, candidates) ==
  IF candidates = <<>> THEN [h EXCEPT !.sym[s].tri = no, !.sym[s].val = "none"]
  ELSE Candidate(expr_calc_value(h, Head(candidates)[1]), s, Head(candidates)[2][2], Tail(candidates))
sym_calc_choice(h, s) ==
  FirstVisible(h, s, (IF h.sym[s].defval = "none" THEN <<>> ELSE <<<<NULL, Sym(h.sym[s].defval)>>>>)
                     \o menu.defaults[s]
                     \o [i \in DOMAIN Values(s) |-> <<NULL, Sym(Values(s)[i])>>])

(* Within sym_calc_value: the value of a boolean or tristate, of a string, of *)
(* a choice; and what follows for modules_val and the values of a choice.     *)
Limit_unselected(x, v) == E_AND(v, x.visible)
Limit(x, v) == E_OR(E_AND(v, x.visible), x.rev)
Tristate(h, s, tri, write) ==
  [h EXCEPT !.sym[s].tri = IF tri = mod /\ IsBoolean(h, s) THEN yes ELSE tri,
            !.sym[s].write = @ \/ write]
Shown(x) == E_OR(x.visible, x.rev) # no
FromDefault(r, s) ==
  Tristate(r.g, s, IF Shown(r.g.sym[s]) THEN Limit(r.g.sym[s], r.v) ELSE r.v, TRUE)
DefaultTristate(d, s) ==
  IF d.to = NULL THEN Tristate(d.g, s, d.g.sym[s].rev, Shown(d.g.sym[s]))
  ELSE FromDefault(expr_calc_value(d.g, d.to), s)
CalcTristate(h, s) ==
  LET x == h.sym[s] IN
  CASE IsChoiceValue(s) /\ x.visible = yes ->
         Tristate(h, s, IF h.sym[menu.choice[s]].val = s THEN yes ELSE no, FALSE)
    [] Shown(x) /\ x.user -> Tristate(h, s, Limit(x, x.def), TRUE)
    [] IsChoice(s) -> Tristate(h, s, x.rev, Shown(x))
    [] OTHER -> DefaultTristate(sym_get_default_prop(h, menu.defaults[s]), s)
(* A boolean or tristate has the text of n, whatever its value is.            *)
CopiedText(h, s) == IF Defined(h, s) /\ Boolean(s) THEN "n" ELSE sym_get_string_value(h, s)
Copied(h, s, from) == [h EXCEPT !.sym[s].val = CopiedText(h, from)]
DefaultString(d, s) ==
  IF Tag(d.to) # "symbol" THEN d.g
  ELSE Copied(sym_calc_value([d.g EXCEPT !.sym[s].write = TRUE], d.to[2]), s, d.to[2])
CalcString(h, s) ==
  IF h.sym[s].visible # no /\ h.sym[s].user
  THEN [h EXCEPT !.sym[s].write = TRUE, !.sym[s].val = h.sym[s].defval]
  ELSE DefaultString(sym_get_default_prop([h EXCEPT !.sym[s].write = @ \/ h.sym[s].visible # no],
                                          menu.defaults[s]), s)
(* A text against the first range whose condition is not n: the limit it lies *)
(* outside of, if any, to which a value is moved.  The upper limit is         *)
(* calculated only when the lower one is kept.                                *)
strtol(text) == IF text \in DOMAIN Number THEN Number[text] ELSE 0
sprintf(n) == CHOOSE text \in DOMAIN Number : Number[text] = n
sym_get_range_prop(h, s) == sym_get_default_prop(h, menu.ranges[s])
LimitOf(h, s) == [g |-> h, v |-> strtol(sym_get_string_value(h, s))]
sym_get_range_val(h, s) == LimitOf(sym_calc_value(h, s), s)
RECURSIVE Exceeded(_, _, _, _)
Compare(b, range, end, n) ==
  IF (end = 1 /\ n < b.v) \/ (end = 2 /\ n > b.v) THEN [g |-> b.g, limit |-> {b.v}]
  ELSE Exceeded(b.g, range, end + 1, n)
Exceeded(h, range, end, n) ==
  IF end > 2 THEN [g |-> h, limit |-> {}] ELSE Compare(sym_get_range_val(h, range[end]), range, end, n)
Against(p, n) == IF p.to = NULL THEN [g |-> p.g, limit |-> {}] ELSE Exceeded(p.g, p.to, 1, n)
Clamped(r, s) == IF r.limit = {} THEN r.g ELSE [r.g EXCEPT !.sym[s].val = sprintf(CHOOSE n \in r.limit : TRUE)]
sym_validate_range(h, s) ==
  IF Type[s] # "int" THEN h ELSE Clamped(Against(sym_get_range_prop(h, s), strtol(h.sym[s].val)), s)

CalcValue(h, s) == IF Boolean(s) THEN CalcTristate(h, s) ELSE CalcString(h, s)
CalcChoice(h, s) == IF IsChoice(s) /\ h.sym[s].tri = yes THEN sym_calc_choice(h, s) ELSE h
Followed(h, s) ==
  IF s = "modules" THEN [h EXCEPT !.modules_val = h.sym[s].tri]
  ELSE [h EXCEPT !.sym = [v \in DOMAIN h.sym |->
          IF menu.choice[v] = s THEN [h.sym[v] EXCEPT !.write = @ \/ h.sym[s].write] ELSE h.sym[v]]]
Started(h, s) == [h EXCEPT !.sym[s].valid = TRUE, !.sym[s].write = @ /\ IsChoiceValue(s)]
Emptied(h, s) == [h EXCEPT !.sym[s].tri = no, !.sym[s].val = "none"]
sym_calc_value(h, s) ==
  IF ~Defined(h, s) \/ h.sym[s].valid THEN h
  ELSE Followed(sym_validate_range(CalcChoice(CalcValue(Emptied(sym_calc_visibility(Started(h, s), s), s), s), s), s), s)

Invalidated_visible(h) ==
  [h EXCEPT !.sym = [s \in DOMAIN h.sym |-> [h.sym[s] EXCEPT !.valid = @ /\ h.sym[s].visible = no]]]
Invalidated(h) == [h EXCEPT !.sym = [s \in DOMAIN h.sym |-> [h.sym[s] EXCEPT !.valid = FALSE]]]
sym_clear_all_valid(h) ==
  [sym_calc_value(Invalidated(h), "modules") EXCEPT !.changed = TRUE, !.overlooked = {}]
CalcAll(h) == FoldLeft(sym_calc_value, h, menu.list)

-----------------------------------------------------------------------------
(* What the user sets. *)
sym_tristate_within_range(h, s, v) ==
  LET x == h.sym[s] IN
  /\ x.visible # no /\ Boolean(s)
  /\ ~(IsBoolean(h, s) /\ v = mod)
  /\ x.visible > x.rev
  /\ IF IsChoiceValue(s) /\ x.visible = yes THEN v = yes ELSE v >= x.rev /\ v <= x.visible
Accepts(h, s, v) == h.sym[s].tri = v \/ sym_tristate_within_range(h, s, v)
sym_set_tristate_value(h, s, v) ==
  LET old == h.sym[s].tri
      c == menu.choice[s]
      k == IF c # "none" /\ v = yes
           THEN [h EXCEPT !.sym = [x \in DOMAIN h.sym |->
                   IF x = c THEN [h.sym[x] EXCEPT !.defval = s, !.user = TRUE]
                   ELSE IF menu.choice[x] = c /\ h.sym[x].visible # no
                   THEN [h.sym[x] EXCEPT !.user = TRUE] ELSE h.sym[x]]]
           ELSE h
      m == [k EXCEPT !.sym[s].user = TRUE, !.sym[s].def = v] IN
  IF old # v THEN sym_clear_all_valid(m) ELSE m
sym_toggle_tristate_value(h, s) ==
  LET old == h.sym[s].tri
      tries == <<(old + 1) % 3, (old + 2) % 3, old>> IN
  sym_set_tristate_value(h, s, SelectSeq(tries, LAMBDA v : Accepts(h, s, v))[1])
(* A number must be one, and lie in its range.                                *)
Inputs(s) == IF Type[s] = "int" THEN DOMAIN Number ELSE Strings
Accepted(r) == [g |-> r.g, v |-> r.limit = {}]
sym_string_within_range(h, s, v) ==
  IF Type[s] # "int" \/ v \notin DOMAIN Number THEN [g |-> h, v |-> Type[s] # "int"]
  ELSE Accepted(Against(sym_get_range_prop(h, s), strtol(v)))
sym_set_string_value_quietly(h, s, v) == [h EXCEPT !.sym[s].user = TRUE, !.sym[s].defval = v, !.changed = TRUE]
sym_set_string_value(h, s, v) ==
  LET k == [h EXCEPT !.sym[s].user = TRUE, !.sym[s].defval = v] IN
  IF h.sym[s].defval # v THEN sym_clear_all_valid(k)
  ELSE IF h.sym[s].user THEN k ELSE [k EXCEPT !.overlooked = @ \cup {"retyped"}]

-----------------------------------------------------------------------------
(* .config: a sequence of <<symbol, value>>; r is [g, warned].                *)
Cleared(h) ==
  [h EXCEPT !.overlooked = {}, !.sym = [s \in DOMAIN h.sym |->
     [h.sym[s] EXCEPT !.valid = FALSE, !.user = IsChoice(s), !.def = no, !.defval = "none"]]]
TriOf(v) == CASE v = "y" -> yes [] v = "m" -> mod [] OTHER -> no
(* A symbol read for the second time keeps its first value, with a warning,   *)
(* yet its choice is looked at again.                                         *)
ReadLine(r, line) ==
  LET s == line[1]
      known == s \in DOMAIN r.g.sym
      right == known /\ ~r.g.sym[s].user /\ (Type[s] = "int" => line[2] \in DOMAIN Number) /\ (Boolean(s) => line[2] \in {"n", "y"} \cup (IF Type[s] = "tristate" THEN {"m"} ELSE {}))
      h == IF ~right THEN r.g
           ELSE IF Boolean(s) THEN [r.g EXCEPT !.sym[s].def = TriOf(line[2]), !.sym[s].user = TRUE]
           ELSE [r.g EXCEPT !.sym[s].defval = line[2], !.sym[s].user = TRUE]
      c == menu.choice[s]
      def == h.sym[s].def
      inconsistent == \/ def = mod /\ h.sym[c].def = yes
                      \/ def = yes /\ h.sym[c].def # no
      k == [h EXCEPT !.sym[c].user = @ /\ ~inconsistent,
                     !.sym[c].defval = IF def = yes /\ ~inconsistent THEN s ELSE @,
                     !.sym[c].def = E_OR(@, def)] IN
  IF ~known THEN [r EXCEPT !.warned = TRUE]
  ELSE IF c = "none" THEN [g |-> h, warned |-> r.warned \/ ~right]
  ELSE [g |-> k, warned |-> r.warned \/ ~right \/ inconsistent]
conf_read_simple(h, lines) ==
  [FoldLeft(ReadLine, [g |-> Cleared(h), warned |-> FALSE], lines) EXCEPT
     !.g = sym_calc_value(@, "modules")]

(* One turn of conf_read's loop over the symbols, the choices last.  A number *)
(* outside its range is forgotten, and calculated anew.                       *)
Differs(x, s) ==
  IF x.user /\ x.write THEN IF Boolean(s) THEN x.def # x.tri ELSE x.val # x.defval
  ELSE x.user \/ x.write
Forgot(w, s) ==
  IF w.v THEN w.g
  ELSE [w.g EXCEPT !.sym[s].user = FALSE, !.sym[s].valid = FALSE,
                   !.overlooked = IF w.g.sym[s].visible # no THEN @ \cup {"range"} ELSE @]
Dropped(h, s) ==
  IF Type[s] = "int" /\ h.sym[s].user
  THEN Forgot(sym_string_within_range([h EXCEPT !.sym[s].user = h.sym[s].visible # no], s, h.sym[s].defval), s)
  ELSE IF ~IsChoice(s) THEN [h EXCEPT !.sym[s].user = @ /\ (h.sym[s].visible # no \/ IsChoiceValue(s))]
  ELSE IF h.sym[s].user /\ h.sym[s].visible # no
          /\ \A v \in Range(Values(s)) : h.sym[v].visible # no => h.sym[v].user THEN h
  ELSE [h EXCEPT !.sym[s].user = FALSE,
                 !.overlooked = IF h.sym[s].user /\ h.sym[s].visible # no
                                THEN @ \cup {"choice"} ELSE @]
Checked(h, s, warned) ==
  [g |-> Dropped(h, s),
   warned |-> warned \/ (~IsChoice(s) /\ s # "modules" /\ Differs(h.sym[s], s))]
ReadSymbol(r, s) == Checked(sym_calc_value(r.g, s), s, r.warned)
Marked(r) == [r.g EXCEPT !.changed = r.warned]
conf_read(h, lines) ==
  Marked(FoldLeft(ReadSymbol, conf_read_simple(h, lines),
                  SelectSeq(menu.list, LAMBDA s : ~IsChoice(s)) \o <<"modules">>
                    \o SelectSeq(menu.list, IsChoice)))

(* The symbols in the order of the menu; the choices have no name.            *)
Written_unless_n(h, s, lines) ==
  IF h.sym[s].write /\ sym_get_string_value(h, s) # "n"
  THEN [g |-> [h EXCEPT !.sym[s].write = FALSE],
        lines |-> Append(lines, <<s, sym_get_string_value(h, s)>>)]
  ELSE [g |-> h, lines |-> lines]
Written(h, s, lines) ==
  IF h.sym[s].write
  THEN [g |-> [h EXCEPT !.sym[s].write = FALSE],
        lines |-> Append(lines, <<s, sym_get_string_value(h, s)>>)]
  ELSE [g |-> h, lines |-> lines]
WriteSymbol(w, s) == Written(sym_calc_value(w.g, s), s, w.lines)
conf_write(h) ==
  [FoldLeft(WriteSymbol, [g |-> IF h.changed THEN h ELSE sym_clear_all_valid(h), lines |-> <<>>],
            SelectSeq(menu.list, LAMBDA s : ~IsChoice(s))) EXCEPT !.g.changed = FALSE]

-----------------------------------------------------------------------------
Nothing == "nothing"     \* the program has not read .config yet
Changed == "changed"
(* mconf: a menu on the screen, which shows the entries below it down to the  *)
(* next menus and so calculates them, in that order and below visible ones.   *)
ShowEntry(h, i) ==
  LET e == menu.entries[i]
      c == e.choice IN
  IF e.prompt = <<>> \/ (c # "none" /\ h.sym[c].visible = no) THEN h
  ELSE IF e.sym = "none" THEN expr_calc_value(h, e.prompt[1]).g
  ELSE sym_calc_value(h, e.sym)
On(i) == {j \in DOMAIN menu.entries : menu.entries[j].menu = i}
build_conf(h) == FoldLeft(ShowEntry, h, SetToSortSeq(On(current), <))
Displayed == config # Nothing /\ build_conf(g) = g
Visible(s) ==
  /\ \E i \in On(current) : menu.entries[i].sym = s /\ menu.entries[i].prompt # <<>>
  /\ g.sym[s].valid /\ g.sym[s].visible # no

Absent == "absent"
Named == SelectSeq(menu.list, LAMBDA s : ~IsChoice(s))
Contents ==
  LET inputs(s) == {Absent} \cup CASE Type[s] = "bool" -> {"n", "y"}
                                   [] Type[s] = "tristate" -> {"n", "m", "y"}
                                   [] OTHER -> Inputs(s)
      all == {f \in [Range(Named) -> {Absent, "n", "m", "y"} \cup UNION {Inputs(s) : s \in Range(Named)}] :
                \A s \in Range(Named) : f[s] \in inputs(s)} IN
  {SelectSeq([i \in DOMAIN Named |-> <<Named[i], f[Named[i]]>>], LAMBDA l : l[2] # Absent) : f \in all}
Parsed(k) == [sym |-> [s \in DOMAIN k.prompts |-> New], modules_val |-> no,
              changed |-> TRUE, overlooked |-> {}]
Init ==
  /\ menu \in Menus /\ g = Parsed(menu)
  /\ current = 0 /\ config = Nothing

Show ==
  /\ config # Nothing /\ ~Displayed
  /\ g' = build_conf(g)
  /\ UNCHANGED <<menu, current, config>>
Open(i) ==
  /\ menu.entries[i].sym = "none" /\ i \in On(current)
  /\ expr_calc_value(g, menu.entries[i].prompt[1]).v # no
  /\ current' = i
  /\ UNCHANGED <<menu, g, config>>
Leave ==
  /\ current # 0
  /\ current' = menu.entries[current].menu
  /\ UNCHANGED <<menu, g, config>>

Becomes(h) ==
  /\ g' = h
  /\ config' = IF h.changed THEN Changed ELSE config
  /\ UNCHANGED <<menu, current>>
Listed(s) == IsChoiceValue(s) /\ g.sym[menu.choice[s]].tri = yes
SetTristate(s, v) ==
  /\ Visible(s) /\ Boolean(s) /\ Accepts(g, s, v)
  /\ Listed(s) => v = yes
  /\ Becomes(sym_set_tristate_value(g, s, v))
Toggle(s) ==
  /\ Visible(s) /\ Boolean(s) /\ ~Listed(s)
  /\ Becomes(sym_toggle_tristate_value(g, s))
Entered(w, s, v) == Becomes(IF w.v THEN sym_set_string_value(w.g, s, v) ELSE w.g)
SetString(s, v) ==
  /\ Visible(s) /\ ~Boolean(s)
  /\ Entered(sym_string_within_range(g, s, v), s, v)

Save ==
  /\ current = 0
  /\ LET w == conf_write(g) IN g' = w.g /\ config' = w.lines
  /\ UNCHANGED <<menu, current>>
(* The new file cannot take the place of the old one, which is already away:  *)
(* the symbols that were written stay marked as written, and the next Save    *)
(* leaves them out unless something makes them be calculated again.  (Where   *)
(* the new file cannot even be opened, nothing changes; what a full disk      *)
(* loses nobody asks.)                                                        *)
SaveFails ==
  /\ current = 0 /\ "unsaved" \notin g.overlooked
  /\ g' = [conf_write(g).g EXCEPT !.changed = TRUE, !.overlooked = @ \cup {"unsaved"}]
  /\ config' = Changed
  /\ UNCHANGED <<menu, current>>
Read(lines) ==
  LET h == conf_read(g, lines) IN
  /\ g' = h /\ config' = IF h.changed THEN Changed ELSE lines
  /\ UNCHANGED <<menu, current>>
Load(lines) == current = 0 /\ Read(lines)
LoadMissing ==
  /\ current = 0
  /\ g' = [g EXCEPT !.changed = FALSE, !.overlooked = IF g.changed THEN @ \cup {"missing"} ELSE @]
  /\ UNCHANGED <<menu, current, config>>
Start ==
  /\ config = Nothing
  /\ \/ config' = Changed /\ UNCHANGED <<menu, g, current>>
     \/ \E lines \in Contents : Read(lines)
Next ==
  \/ Start \/ Show
  \/ /\ Displayed
     /\ \/ \E i \in DOMAIN menu.entries : Open(i)
        \/ Leave \/ Save \/ SaveFails \/ LoadMissing
        \/ \E lines \in Others : Load(lines)
        \/ \E s \in DOMAIN g.sym, v \in {no, mod, yes} : SetTristate(s, v)
        \/ \E s \in DOMAIN g.sym : Toggle(s)
        \/ \E s \in DOMAIN g.sym : \E v \in Inputs(s) : SetString(s, v)
Spec == Init /\ [][Next]_vars

-----------------------------------------------------------------------------
(* A value is one its symbol can have: a boolean is not m, nothing is m       *)
(* without modules, nothing is less than what selects it nor more than its    *)
(* prompt and the selects allow; a choice has one value that is y if it is y  *)
(* itself, and none otherwise; and a number lies in its range, whatever has   *)
(* become of the limits, if these leave room for one.                         *)
Chosen(c) == {v \in DOMAIN g.sym : menu.choice[v] = c /\ g.sym[v].tri = yes}
Fits(s, p) ==
  LET low == sym_get_range_val(p.g, p.to[1])
      high == sym_get_range_val(low.g, p.to[2]) IN
  p.to # NULL /\ low.v <= high.v => strtol(g.sym[s].val) \in low.v..high.v
ValuesLegal ==
  /\ current \in 0..Len(menu.entries)
  /\ \A s \in DOMAIN g.sym : g.sym[s].valid /\ Boolean(s) =>
       LET x == g.sym[s] IN
       /\ x.tri = mod => Type[s] = "tristate" /\ g.modules_val # no
       /\ x.rev <= x.tri
       /\ x.visible # no => x.tri <= E_OR(x.visible, x.rev)
  /\ g.overlooked \cap {"choice", "retyped", "range"} = {} =>
       \A s \in DOMAIN g.sym : Type[s] = "int" /\ g.sym[s].valid => Fits(s, sym_get_range_prop(g, s))
  /\ \A c \in menu.choices :
       (\A s \in Range(Values(c)) \cup {c} : g.sym[s].valid /\ g.sym[s].visible # mod) =>
         Cardinality(Chosen(c)) = IF g.sym[c].tri = yes THEN 1 ELSE 0

(* What is kept of a value is what calculating everything again would give,   *)
(* whatever was set, shown, read and saved before: sym_clear_all_valid is     *)
(* called wherever it must be.  Three changes it does not follow are          *)
(* excepted: conf_read takes the user's flag from a choice after the choice   *)
(* has been calculated, and from a number outside its range after others may  *)
(* have used it; and sym_set_string_value gives it to a string without asking *)
(* whether it had it.                                                         *)
Value(h, s) == <<h.sym[s].tri, h.sym[s].val>>
Forgotten(h) == [h EXCEPT !.sym = [s \in DOMAIN h.sym |-> [h.sym[s] EXCEPT !.valid = FALSE]]]
CacheIsFresh ==
  [][g' # g /\ g'.overlooked \cap {"choice", "retyped", "range"} = {} =>
       \E f \in {CalcAll(sym_calc_value(Forgotten(g'), "modules"))} :
         \A s \in DOMAIN g'.sym \ {"modules"} : g'.sym[s].valid => Value(g', s) = Value(f, s)]_vars

(* While nothing is marked as changed, so that mconf ends without asking, the *)
(* file holds what is on the screen: the next start gets every value from it  *)
(* again.  Excepted are the changes in overlooked - among them the mark that  *)
(* loading a missing file takes away, and what a failed Save makes the next   *)
(* one leave out - and a choice that is y with a value that can only be m,    *)
(* which the file cannot express.                                             *)
Settled(h) == \A v \in DOMAIN h.sym :
                IsChoiceValue(v) /\ h.sym[menu.choice[v]].tri = yes => h.sym[v].visible # mod
ChangesAreMarked ==
  [][g' # g /\ ~g'.changed /\ g'.overlooked = {} =>
       \E x \in {CalcAll(conf_read(Parsed(menu), config'))}, y \in {CalcAll(g')} :
         Settled(y) => \A s \in DOMAIN y.sym : Value(x, s) = Value(y, s)]_vars

(* In every configuration the program can start with, a dependency that is n  *)
(* or y keeps its value when menu_finalize simplifies it, and in the form for *)
(* a boolean's prompt it stays n or not n.  (One that is m may become n or y: *)
(* "a or b" and "not a and not b" is taken for n.)                            *)
Simplified == [e \in Expressions |-> expr_eliminate_dups(expr_transform(e))]
SimplifiedAgrees ==
  [][config = Nothing /\ Subjects \subseteq DOMAIN g.sym =>
       LET h == CalcAll(g')
           V(e) == expr_calc_value(h, e).v IN
       \A e \in Expressions : V(e) # mod =>
         /\ V(Simplified[e]) = V(e)
         /\ V(expr_trans_bool(Simplified[e])) = no <=> V(e) = no]_vars
==============================================================================
