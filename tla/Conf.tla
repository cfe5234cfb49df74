-------------------------------- MODULE Conf --------------------------------
(* The line oriented configuration program (kconfig/conf.c): it reads the     *)
(* menu and the configuration, walks over the menu and asks, then goes over   *)
(* it again until nothing without a value is left, and writes.  In this copy  *)
(* conf_sym and conf_choice return before they ask: only strings are asked    *)
(* for.                                                                       *)
EXTENDS Zconf

CONSTANTS Asked,   \* the texts whose menus are walked over,
          Saved,   \* the configuration files found
          Modes    \* and how conf is started: "all" to ask for everything, "new", "silent",
                   \* "default", "set" for all no, yes, mod and random
VARIABLE c         \* [at, mode, tasks, count, rootEntry, tty; and history: found, typed, unresolved]
conf_vars == <<zconf_vars, vars, c>>

Tree == p.tree
Below_entry(kind, i) == LET q == Chain(Tree, Tree[i].list) IN [k \in DOMAIN q |-> <<kind, q[k]>>]
Becomes_c(h, k) == g' = h /\ c' = k /\ UNCHANGED <<zconf_vars, menu, current, config>>

RECURSIVE menu_is_visible(_, _), AnyVisible(_, _)
Or_below(r, i) ==
  IF r.v # no THEN [r EXCEPT !.v = yes]
  ELSE IF Tree[i].sym = "none" \/ r.g.sym[Tree[i].sym].tri = no THEN [r EXCEPT !.v = no]
  ELSE AnyVisible(r.g, Chain(Tree, Tree[i].list))
AnyVisible(h, q) ==
  IF q = <<>> THEN [g |-> h, v |-> no]
  ELSE LET r == menu_is_visible(h, Head(q)) IN IF r.v # no THEN r ELSE AnyVisible(r.g, Tail(q))
Shows(h, i) ==
  IF Tree[i].sym = "none" THEN expr_calc_value(h, Tree[i].prompt[1])
  ELSE LET k == sym_calc_value(h, Tree[i].sym) IN [g |-> k, v |-> k.sym[Tree[i].sym].visible]
menu_is_visible(h, i) ==
  IF Tree[i].prompt = <<>> THEN [g |-> h, v |-> no] ELSE Or_below(Shows(h, i), i)
RECURSIVE menu_get_parent_menu(_)
menu_get_parent_menu(i) ==
  IF i = Root \/ (Tree[i].prompt # <<>> /\ Tree[i].menu) THEN i ELSE menu_get_parent_menu(Tree[i].parent)
sym_is_changable(h, s) == h.sym[s].visible > h.sym[s].rev
Has_value(h, s) == h.sym[s].user

-----------------------------------------------------------------------------
(* main up to the walk.  Without a configuration file the symbols are as the  *)
(* parser left them.                                                          *)
Begin(mode, h, lines) ==
  Becomes_c(h, [c EXCEPT !.at = "asking", !.mode = mode, !.found = lines,
                         !.tasks = <<<<"conf", Root>>>>, !.rootEntry = Root])
Check_counted(k) == [k EXCEPT !.at = "checking", !.tasks = <<<<"check", Root>>>>]
Check(k) == [k EXCEPT !.at = "checking", !.count = FALSE, !.tasks = <<<<"check", Root>>>>]
Unread == [g EXCEPT !.changed = TRUE]
Silent(h, lines) ==
  \/ h.changed /\ \E tty \in BOOLEAN : Becomes_c(h, Check([c EXCEPT !.mode = "silent", !.found = lines, !.tty = tty]))
  \/ h.changed /\ Becomes_c(h, [c EXCEPT !.at = "refused"])     \* KCONFIG_NOSILENTUPDATE
  \/ ~h.changed /\ Becomes_c(h, [c EXCEPT !.at = "skipped"])
ReadBy(mode, lines) == IF mode = "set" THEN conf_read_simple(g, lines).g ELSE conf_read(g, lines)
Begin_read(mode, h, lines) == IF mode = "silent" THEN Silent(h, lines) ELSE Begin(mode, h, lines)
Start_conf ==
  /\ p.stage = "parsed" /\ text \in Asked /\ c.at = "start"
  /\ \/ \E mode \in Modes, lines \in Saved :
          Begin_read(mode, ReadBy(mode, lines), lines)
     \/ \E mode \in Modes :   \* no file
          CASE mode = "set" -> Begin(mode, g, <<>>)
            [] mode \in {"default", "silent"} -> Becomes_c(g, [c EXCEPT !.at = "refused"])
            [] OTHER -> Begin(mode, Unread, <<>>)

-----------------------------------------------------------------------------
(* The walk: tasks are the calls of conf and check_conf still to come, and    *)
(* the question conf_string is at.                                            *)
Doing(kind) == c.at \in {"asking", "checking"} /\ c.tasks # <<>> /\ Head(c.tasks)[1] = kind
Entry_now == Head(c.tasks)[2]
Do(h, tasks) == Becomes_c(h, [c EXCEPT !.tasks = tasks \o Tail(@)])
IsString(s) == s # "none" /\ ~Boolean(s)
conf ==
  /\ Doing("conf")
  /\ LET i == Entry_now
         s == Tree[i].sym
         r == menu_is_visible(g, i) IN
     CASE r.v = no -> Do(r.g, <<>>)
       [] r.v # no /\ Tree[i].menu /\ c.mode = "silent" /\ c.rootEntry # i -> Do(r.g, <<<<"check", i>>>>)
       [] r.v # no /\ ~(Tree[i].menu /\ c.mode = "silent" /\ c.rootEntry # i) ->
            CASE Tree[i].choice /\ r.g.sym[s].tri # mod -> Do(r.g, <<>>)
              [] IsString(s) -> Do(r.g, <<<<"ask", i>>>> \o Below_entry("conf", i))
              [] OTHER -> Do(r.g, Below_entry("conf", i))
check_conf ==
  /\ Doing("check")
  /\ LET i == Entry_now
         s == Tree[i].sym
         r == menu_is_visible(g, i)
         x == r.g.sym[s]
         new == s # "none" /\ ~Has_value(r.g, s)
                  /\ (sym_is_changable(r.g, s) \/ (Tree[i].choice /\ x.tri = yes))
         root == menu_get_parent_menu(i) IN
     IF r.v = no THEN Do(r.g, <<>>)
     ELSE IF ~new THEN Do(r.g, Below_entry("check", i))
     ELSE Becomes_c(r.g, [c EXCEPT !.count = TRUE, !.rootEntry = root,
                                   !.unresolved = @ \/ ~IsString(s),
                                   !.tasks = <<<<"conf", root>>>> \o Below_entry("check", i) \o Tail(@)])

(* conf_string and conf_askvalue. *)
Answered_with(s, v) ==
  Becomes_c(sym_set_string_value(g, s, v), [c EXCEPT !.tasks = Tail(@), !.typed = (s :> v) @@ @])
Question == Doing("ask")
Asking_for == Tree[Entry_now].sym
Passed_over ==
  \/ ~sym_is_changable(g, Asking_for)
  \/ c.mode \in {"new", "silent", "set"} /\ Has_value(g, Asking_for)
Reads_stdin == ~Passed_over /\ c.mode \in {"all", "new", "silent"}
check_stdin == c.mode = "silent" => c.tty
Pass == Question /\ Passed_over /\ Do(g, <<>>)
TakeDefault ==
  /\ Question /\ ~Passed_over /\ ~Reads_stdin
  /\ Answered_with(Asking_for, g.sym[Asking_for].val)
Abort == Question /\ Reads_stdin /\ ~check_stdin /\ Becomes_c(g, [c EXCEPT !.at = "refused"])
Answer ==
  /\ Question /\ Reads_stdin /\ check_stdin
  /\ \E v \in Strings \cup {g.sym[Asking_for].val} : Answered_with(Asking_for, v)
EndOfInput ==
  /\ Question /\ Reads_stdin /\ check_stdin
  /\ Becomes_c(g, [c EXCEPT !.tasks = Tail(@), !.unresolved = TRUE])

(* The end of a walk. *)
Walked == c.at \in {"asking", "checking"} /\ c.tasks = <<>>
Recheck ==
  /\ Walked /\ (c.at = "asking" \/ c.count)
  /\ Becomes_c(g, Check(IF c.at = "asking" /\ c.mode = "all" THEN [c EXCEPT !.mode = "silent", !.tty = TRUE] ELSE c))
Write ==
  /\ Walked /\ c.at = "checking" /\ ~c.count
  /\ LET w == conf_write(g) IN g' = w.g /\ config' = w.lines
  /\ c' = [c EXCEPT !.at = "written"]
  /\ UNCHANGED <<zconf_vars, menu, current>>

-----------------------------------------------------------------------------
ConfInit ==
  /\ ZconfInit
  /\ c = [at |-> "start", mode |-> "none", tasks |-> <<>>, count |-> FALSE, rootEntry |-> None, tty |-> TRUE,
          found |-> <<>>, typed |-> <<>>, unresolved |-> FALSE]
Go ==
  \/ (ReadText \/ conf_parse) /\ UNCHANGED c
  \/ Start_conf \/ conf \/ check_conf \/ Pass \/ TakeDefault \/ Abort \/ Recheck \/ Write
ConfNext == Go \/ Answer \/ EndOfInput
(* The program goes on; a user who is asked answers some time.  (Weak         *)
(* fairness of Go is written out: Running says that Go is enabled, and where  *)
(* it holds every step is one of Go.  TLC would take too long to find out     *)
(* whether the calculations of Go can be made.)                               *)
Running ==
  \/ p.stage = "parse"
  \/ p.stage = "parsed" /\ text \in Asked /\ c.at = "start"
  \/ c.at \in {"asking", "checking"} /\ ~(Question /\ Reads_stdin /\ check_stdin)
Goes_on == []<>(~Running) \/ []<><<Running>>_conf_vars
ConfSpec == ConfInit /\ [][ConfNext]_conf_vars /\ Goes_on /\ SF_conf_vars(Answer)

-----------------------------------------------------------------------------
(* When the file is written, what was typed last, or else found in the old    *)
(* file, is in it, if the final configuration allows it: neither the walks,   *)
(* with their calculations in the order of the menu, nor defaults replace it. *)
(* And the program, started again, finds nothing to update.                   *)
Wanted == [s \in {c.found[k][1] : k \in DOMAIN c.found} \cup DOMAIN c.typed |->
             IF s \in DOMAIN c.typed THEN c.typed[s]
             ELSE c.found[CHOOSE k \in DOMAIN c.found : c.found[k][1] = s][2]]
Allowed(h, s, v) ==
  LET x == h.sym[s] IN
  /\ x.visible # no
  /\ Boolean(s) => /\ TriOf(v) >= x.rev /\ TriOf(v) <= E_OR(x.visible, x.rev)
                   /\ IsBoolean(h, s) => v # "m"
                   /\ ~IsChoiceValue(s)
AnswersKept ==
  [][c.at # "written" /\ c'.at = "written" =>
       /\ \A s \in DOMAIN Wanted \cap DOMAIN g'.sym :
            Allowed(CalcAll(g'), s, Wanted[s]) => <<s, Wanted[s]>> \in Range(config')
       /\ ~conf_read(Parsed(menu), config').changed]_conf_vars

(* conf comes to an end, provided that no visible option or choice that is    *)
(* not a string is without a value, as nothing gives it one, and that the     *)
(* input does not end before the questions do.                                *)
ConfEnds ==
  <>(p.stage \in {"failed", "crashed"} \/ (p.stage = "parsed" /\ text \notin Asked)
       \/ c.at \in {"written", "skipped", "refused"} \/ c.unresolved)
==============================================================================
