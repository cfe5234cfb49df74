------------------------------ MODULE Lxdialog ------------------------------
(* mconf and the boxes it shows (mconf.c, lxdialog): its call stack, one box  *)
(* at a time, and a terminal that changes its size while a box waits for a    *)
(* key.  What the options are worth is the subject of Kconfig: here a menu is *)
(* built again before it is shown, with any of the lists it can have.         *)
EXTENDS Menubox, Checklist, Textbox, Inputbox

CONSTANTS single_menu_mode,
          MenuPrompts,   \* the data of the options whose prompt is a P_MENU
          Menus,         \* for every depth: the lists the menu can have
          ChoiceLists,       \* the lists of a choice
          Texts,         \* for every function: the help it shows, or what search found
          Notes,         \* messages, in a box of a fixed height
          Strings,       \* values of a string
          Prompts,       \* the questions before leaving, as words
          Sizes          \* of the terminal

(* A menu can be without items and has no entry twice; a choice has values;   *)
(* and a value longer than dialog_input_result would be copied behind it.     *)
IsSequence(s) == Len(s) \in Nat /\ DOMAIN s = 1 .. Len(s)
Distinct(items) ==
  \A i, j \in DOMAIN items : items[i].data = items[j].data /\ items[i].data # NULL => i = j
ASSUME DialogsAssumption ==
  /\ single_menu_mode \in BOOLEAN
  /\ \A d \in DOMAIN Menus : \A items \in Menus[d] :
       IsSequence(items) /\ Distinct(items)
  /\ \A items \in ChoiceLists : IsSequence(items) /\ items # <<>>
  /\ \A f \in {"conf", "choice", "string", "file", "search"} : \A t \in Texts[f] : IsSequence(t)
  /\ \A t \in Notes : IsSequence(t)
  /\ \A v \in Strings : IsSequence(v) /\ Len(v) <= InputLen /\ \A i \in DOMAIN v : v[i] # Zero
  /\ \A p \in Prompts : /\ IsSequence(p.words) /\ p.width \in Int
                       /\ \A i \in DOMAIN p.words : p.words[i].len \in Nat /\ p.words[i].gap \in Nat
  /\ \A s \in Sizes : s.lines \in Nat

VARIABLES size, stack

vars == <<menu, list, text, input, yesno, size, stack>>
boxes == <<menu, list, text, input, yesno>>

Keys == {"KEY_UP", "KEY_DOWN", "KEY_PPAGE", "KEY_NPAGE", "KEY_LEFT", "TAB", "ENTER", "KEY_ESC",
         " ", "/", "?", "-", "s", "y", "n", "m", "h", "e", "x", "0", "a", "b", "o", "RIGHT"}

(* A function that runs: conf with its active_menu and s_scroll, or another.  *)
(* `seen` is history: what the menu looked like when an item was last chosen. *)
NotSeen == [items |-> <<>>, size |-> [lines |-> 0, cols |-> 0], scroll |-> 0, choice |-> 0]
call(fn) == [fn |-> fn, active |-> NULL, s_scroll |-> 0, seen |-> NotSeen,
             buf |-> <<>>, fixed |-> 0]
text_call(b, height) == [call("text") EXCEPT !.buf = b, !.fixed = height]
Runs(fn) == stack # <<>> /\ Head(stack).fn = fn
depth_of == Cardinality({i \in DOMAIN stack : stack[i].fn = "conf"})
Return == stack' = Tail(stack)
Call(f) == stack' = <<f>> \o stack

Waits == menu.open \/ list.open \/ text.open \/ input.open \/ yesno.open
Idle(box) == ~box.open /\ box.result = "none"
Answered(box) == ~box.open /\ box.result # "none"
Only(b) == /\ (b = "menu" \/ menu' = menu) /\ (b = "list" \/ list' = list)
           /\ (b = "text" \/ text' = text) /\ (b = "input" \/ input' = input)
           /\ (b = "yesno" \/ yesno' = yesno)

(* mconf starts on no smaller terminal. *)
init_wsize == {s \in Sizes : s.lines >= 19 /\ s.cols >= 80}
Init ==
  /\ menu = MenuClosed /\ list = ListClosed /\ text = TextClosed /\ input = InputClosed
  /\ yesno = YesnoClosed
  /\ size \in init_wsize
  /\ stack = <<call("conf"), call("main")>>

-----------------------------------------------------------------------------
(* conf: the menu is built and shown, and the answer decides.  conf returns   *)
(* at once only while child_count is 0; as nothing sets it back, that ends    *)
(* with the first option mconf shows, and a menu is shown although every      *)
(* entry of it is hidden.                                                     *)
Crashed == menu.crashed
ConfShow ==
  /\ Runs("conf") /\ Idle(menu) /\ ~Crashed /\ depth_of \in DOMAIN Menus
  /\ \E items \in Menus[depth_of] :
       menu' = dialog_menu(items, Head(stack).active, Head(stack).s_scroll, size)
  /\ Only("menu") /\ UNCHANGED <<size, stack>>

(* What conf does with the chosen item for the result of the box.             *)
submenu_of(it, res) ==
  \/ it.tag = "m" /\ (res = "6" \/ (res = "0" /\ ~single_menu_mode))
  \/ it.tag = "t" /\ res = "0" /\ it.data \in MenuPrompts
Opens == [t \in {"t", "s", "L", "S"} |->
            CASE t = "t" -> "choice" [] t = "s" -> "string" [] OTHER -> "file"]
(* Nothing more is shown: a value was set, or there is none to set; Select on *)
(* a t is for choices that are in effect, and opens or closes an entry of the *)
(* single menu.                                                               *)
Quiet(it, res) == \/ res \in {"3", "4", "5"} \/ (res = "6" /\ it.tag # "m")
                  \/ res = "0" /\ it.tag \in {"t", ":", "m"} /\ ~submenu_of(it, res)
ConfAnswer ==
  /\ Runs("conf") /\ Answered(menu)
  /\ menu' = MenuClosed /\ Only("menu") /\ UNCHANGED size
  /\ IF menu.result \in {"1", "KEY_ESC", "too_small"} THEN Return
     ELSE IF item_count(menu.items) = 0
     THEN stack' = <<[Head(stack) EXCEPT !.s_scroll = menu.s_scroll, !.seen = NotSeen]>>
                   \o Tail(stack)
     ELSE LET it   == item_at(menu.items, menu.chosen)
              here == [Head(stack) EXCEPT !.active = it.data, !.s_scroll = menu.s_scroll,
                        !.seen = [items |-> menu.items, size |-> size,
                                  scroll |-> menu.scroll, choice |-> menu.choice]]
              back == <<here>> \o Tail(stack)
          IN  \/ submenu_of(it, menu.result) /\ stack' = <<call("conf")>> \o back
              \/ /\ menu.result = "0" /\ it.tag \in DOMAIN Opens /\ ~submenu_of(it, menu.result)
                 /\ stack' = <<call(Opens[it.tag])>> \o back
              \/ menu.result = "2" /\ \E t \in Texts["conf"] : stack' = <<text_call(t, 0)>> \o back
              \/ /\ menu.result = "3" /\ it.tag = "t"
                 /\ \E t \in Notes : stack' = <<text_call(t, 6)>> \o back
              \/ menu.result = "7" /\ stack' = <<call("search")>> \o back
              \/ Quiet(it, menu.result) /\ stack' = back

(* main: conf again and again until the user leaves; whether something has    *)
(* changed is Kconfig's.                                                      *)
MainAsks ==
  /\ Runs("main") /\ Idle(yesno)
  /\ \/ Return /\ UNCHANGED yesno
     \/ \E p \in Prompts : yesno' = dialog_yesno(p.words, p.width, size) /\ UNCHANGED stack
  /\ Only("yesno") /\ UNCHANGED size
MainAnswer_again ==
  /\ Runs("main") /\ Answered(yesno)
  /\ yesno' = YesnoClosed /\ Only("yesno") /\ UNCHANGED size
  /\ IF yesno.result \notin {"0", "1"} THEN Call(call("conf")) ELSE Return
MainAnswer ==
  /\ Runs("main") /\ Answered(yesno)
  /\ yesno' = YesnoClosed /\ Only("yesno") /\ UNCHANGED size
  /\ IF yesno.result = "KEY_ESC" THEN Call(call("conf")) ELSE Return

-----------------------------------------------------------------------------
ChoiceShow ==
  /\ Runs("choice") /\ Idle(list)
  /\ \E items \in ChoiceLists :
       list' = dialog_checklist([i \in DOMAIN items |->
                 [items[i] EXCEPT !.selected = items[i].data = Head(stack).active]], size)
  /\ Only("list") /\ UNCHANGED <<size, stack>>
ChoiceAnswer ==
  /\ Runs("choice") /\ Answered(list)
  /\ list' = ListClosed /\ Only("list") /\ UNCHANGED size
  /\ IF list.result # "1" THEN Return
     ELSE \E t \in Texts["choice"] : stack' =
            <<text_call(t, 0), [Head(stack) EXCEPT !.active = item_at(list.items, list.chosen).data]>>
            \o Tail(stack)

TextShow ==
  /\ Runs("text") /\ Idle(text)
  /\ text' = dialog_textbox(Head(stack).buf, Head(stack).fixed, size)
  /\ Only("text") /\ UNCHANGED <<size, stack>>
TextAnswer ==
  /\ Runs("text") /\ Answered(text)
  /\ text' = TextClosed /\ Return /\ Only("text") /\ UNCHANGED size

(* conf_string, conf_load or conf_save, and search_conf: the size of the      *)
(* dialog, and the value it starts with.                                      *)
Asks == {"string", "file", "search"}
height_of == [f \in Asks |-> IF f = "file" THEN 11 ELSE 10]
width_of == [f \in Asks |-> IF f = "file" THEN 55 ELSE 75]
AskFails(f) == input_too_small([lines |-> height_of[f], width |-> width_of[f]], size)
AskShow(f) ==
  /\ Runs(f) /\ Idle(input)
  /\ \E v \in (IF f = "search" THEN {<<>>} ELSE Strings) :
       input' = dialog_inputbox(v, height_of[f], width_of[f], size)
  /\ Only("input") /\ UNCHANGED <<size, stack>>

(* None of the three has a case for a terminal that is too small: search_conf *)
(* returns, the others ask again.                                             *)
AskAnswer(f) ==
  /\ Runs(f) /\ Answered(input)
  /\ input' = InputClosed /\ Only("input") /\ UNCHANGED size
  /\ \/ input.result = "0" /\ f # "search" /\ Return
     \/ /\ input.result = "0" /\ (f = "string" \/ (f = "file" /\ result_string(input.instr) # <<>>))
        /\ \E t \in Notes : Call(text_call(t, 5))
     \/ /\ input.result = "0" /\ f = "search"
        /\ \E t \in Texts[f] : stack' = <<text_call(t, 0)>> \o Tail(stack)
     \/ input.result = "1" /\ \E t \in Texts[f] : Call(text_call(t, 0))
     \/ input.result = "KEY_ESC" /\ Return
     \/ input.result = "too_small" /\ IF f = "search" THEN Return ELSE UNCHANGED stack

-----------------------------------------------------------------------------
(* The user's keys.                                                           *)
MenuKey(k, f) == MenuMove(k) \/ MenuButton(k) \/ MenuSelect(k) \/ MenuEscape(k, f)
ListKey(k, f) == ListMove(k) \/ ListButton(k) \/ ListSelect(k) \/ ListEscape(k, f)
TextKey(k, f) ==
  \/ k = "g" /\ TextHome
  \/ k = "G" /\ TextEnd
  \/ k = "KEY_UP" /\ TextUp
  \/ k = "KEY_DOWN" /\ TextDown
  \/ k = "KEY_PPAGE" /\ TextPageUp
  \/ k = "KEY_NPAGE" /\ TextPageDown
  \/ k \in {"0", "KEY_LEFT", "RIGHT"} /\ TextSide(k)
  \/ k \in {"e", "ENTER", "KEY_ESC"} /\ TextExit(k, f)
InputKey(k, f) ==
  \/ k = "KEY_BACKSPACE" /\ InputBackspace
  \/ k \in Chars /\ InputType(k)
  \/ InputButton(k)
  \/ InputReturn(k)
  \/ InputEscape(k, f)
YesnoKey(k, f) ==
  \/ k \in {"TAB", "KEY_LEFT"} /\ YesnoButton
  \/ YesnoReturn(k)
  \/ k = "KEY_ESC" /\ YesnoEscape(f)

Press(k, f) ==
  /\ \/ MenuKey(k, f) /\ Only("menu")
     \/ ListKey(k, f) /\ Only("list")
     \/ TextKey(k, f) /\ Only("text")
     \/ InputKey(k, f) /\ Only("input")
     \/ YesnoKey(k, f) /\ Only("yesno")
  /\ UNCHANGED <<size, stack>>

(* The terminal changes while a box waits for a key.                          *)
Resize(s) ==
  /\ size' = s /\ UNCHANGED stack
  /\ \/ MenuResize(s) /\ Only("menu")
     \/ ListResize(s) /\ Only("list")
     \/ TextResize(s) /\ Only("text")
     \/ InputResize(s) /\ Only("input")
     \/ YesnoResize(s) /\ Only("yesno")

Mconf == \/ ConfShow \/ ConfAnswer \/ MainAsks \/ MainAnswer \/ ChoiceShow \/ ChoiceAnswer
         \/ TextShow \/ TextAnswer \/ \E f \in Asks : AskShow(f) \/ AskAnswer(f)
Next == \/ Mconf
        \/ \E k \in Keys \cup {"g", "G", "KEY_BACKSPACE"} : Press(k, "nothing")
        \/ Press("KEY_ESC", "esc")
        \/ \E s \in Sizes : Resize(s)

Spec == Init /\ [][Next]_vars /\ WF_vars(Mconf)
-----------------------------------------------------------------------------
(* What is on the screen after any keys and changes of size is what a window  *)
(* drawn afresh from the box's variables would show, although most keys print *)
(* only a line or two of it.                                                  *)
ShowsItems(b, height, max) ==
  /\ 0 <= b.choice /\ b.choice < max
  /\ \A i \in 0 .. max - 1 : item_exists(b.items, b.scroll + i)
  /\ b.rows = drawn(height, max, b.scroll, b.choice)
  /\ b.up = (b.scroll > 0)
(* A menu without items shows none: a key for the cursor prints the empty     *)
(* text of item_nil in its first row, and Down leaves the cursor above it.    *)
ShowsNone(b) ==
  /\ b.scroll = 0 /\ b.choice \in {-1, 0} /\ ~b.up /\ ~b.down
  /\ \A r \in DOMAIN b.rows : b.rows[r] # Blank => r = 0 /\ b.rows[r].item = 0
more_below(b, height) == b.scroll + height < item_count(b.items)

EndsInNewline(t) == strlen(t) > 0 /\ t.buf[strlen(t)] = NL
line_after(t, p) == get_line([t EXCEPT !.page = p]).page
ShowsLines(t) ==
  /\ t.rows[0].at = 0 \/ t.rows[0].at - 1 \in newlines(t)
  /\ \A r \in DOMAIN t.rows : /\ t.rows[r].hscroll = t.hscroll
                            /\ r > 0 => t.rows[r].at = line_after(t, t.rows[r - 1].at)
  /\ t.page = line_after(t, t.rows[boxh(t) - 1].at)
  /\ t.begin_reached = (t.rows[0].at = 0)
  /\ t.end_reached = (t.rows[boxh(t) - 1].at = strlen(t))

ShowsField(b) ==
  LET len == strlen_of(b.instr) IN
  /\ b.scroll + b.input_x = len /\ b.input_x < BoxWidth
  /\ \A i \in DOMAIN b.field :
       b.field[i] = IF b.scroll + i < len THEN b.instr[b.scroll + i] ELSE " "

(* Every word of the question lies between the margins, if it is no wider.    *)
ShowsQuestion(b) ==
  \A i \in DOMAIN b.prompt : LET w == b.prompt[i] IN
    /\ 3 <= w.x /\ (w.len <= b.width - 2 - 3 => w.x + w.len <= b.width - 2)
    /\ i > 1 => LET v == b.prompt[i - 1] IN w.y > v.y \/ (w.y = v.y /\ w.x > v.x + v.len)

BoxShowsState ==
  /\ menu.crashed => menu.stale
  /\ menu.open /\ item_count(menu.items) = 0 => ShowsNone(menu)
  /\ menu.open /\ item_count(menu.items) > 0 /\ ~menu.stale =>
       /\ ShowsItems(menu, menu.menu_height, max_choice(menu))
       /\ menu.down = more_below(menu, menu.menu_height)
  /\ list.open => /\ ShowsItems(list, ListHeight, list_max(list))
                  /\ more_below(list, ListHeight) => list.down
                  /\ list.down /\ ~list.redrawn => more_below(list, ListHeight)
  /\ text.open /\ boxh(text) > 0 /\ EndsInNewline(text) => ShowsLines(text)
  /\ input.open /\ ~input.strayed => ShowsField(input)
  /\ yesno.open => ShowsQuestion(yesno)

(* However the cursor and the window divide the work between them, a key      *)
(* moves to the item or line it is named for: one up or down, a page or an    *)
(* end, in a menu that has items; in a menu a hotkey goes through the visible *)
(* items that have it (mconf.c:53-55), in a choice the first letter of a      *)
(* value to the first visible one; and to the side the lines stay.            *)
pos(b) == b.scroll + b.choice
clip(n, count) == Max({0, Min({n, count - 1})})
top(t) == t.rows[0].at
lines_before(t, n) == top(print_page(back_lines([t EXCEPT !.page = top(t), !.end_reached = FALSE], n)))
steps_to(b, i) == IF i > b.choice THEN i - b.choice ELSE i - b.choice + max_choice(b)
MenuGoes(key, by) ==
  MenuMove(key) /\ item_count(menu.items) > 0 =>
    pos(menu)' = clip(pos(menu) + by, item_count(menu.items))
ListGoes(key, by) ==
  ListMove(key) => pos(list)' = clip(pos(list) + by, item_count(list.items))
NextWithKey(key) ==
  MenuMove(key) /\ key \notin Arrows =>
    /\ menu'.scroll = menu.scroll /\ menu'.choice \in 0 .. max_choice(menu) - 1
    /\ has_key(menu, menu'.choice, key)
    /\ \A i \in 0 .. max_choice(menu) - 1 :
         has_key(menu, i, key) => steps_to(menu, menu'.choice) <= steps_to(menu, i)
has_letter(b, i, key) == item_at(b.items, b.scroll + i).text[1] = key
FirstWithKey(key) ==
  ListMove(key) /\ key \notin Arrows =>
    /\ list'.scroll = list.scroll /\ has_letter(list, list'.choice, key)
    /\ \A i \in 0 .. list'.choice - 1 : ~has_letter(list, i, key)
(* As much of the text as the box shows, with only the end below it.          *)
AtEnd(t) ==
  /\ t.rows[boxh(t) - 1].at = strlen(t)
  /\ top(t) = 0 \/ boxh(t) = 1 \/ t.rows[boxh(t) - 2].at # strlen(t)
TextGoes ==
  /\ TextDown => top(text') = IF text.end_reached THEN top(text) ELSE line_after(text, top(text))
  /\ TextUp => top(text') = lines_before(text, 1)
  /\ TextPageUp => top(text') = lines_before(text, boxh(text))
  /\ TextPageDown => top(text') = IF text.end_reached THEN top(text) ELSE text.page
  /\ \A key \in {"RIGHT", "KEY_LEFT", "0"} : TextSide(key) => top(text') = top(text)
  /\ TextSide("0") => text'.hscroll <= 0
  /\ TextHome => top(text') = 0
  /\ TextEnd => AtEnd(text')
GoesAsAsked ==
  /\ menu.open /\ menu'.open /\ size' = size =>
       /\ MenuGoes("KEY_UP", -1) /\ MenuGoes("KEY_DOWN", 1)
       /\ MenuGoes("KEY_PPAGE", -max_choice(menu)) /\ MenuGoes("KEY_NPAGE", max_choice(menu))
       /\ \A key \in Letters : NextWithKey(key)
  /\ list.open /\ list'.open /\ size' = size =>
       /\ ListGoes("KEY_UP", -1) /\ ListGoes("KEY_DOWN", 1)
       /\ \A key \in Letters : FirstWithKey(key)
  /\ text.open /\ text'.open /\ size' = size /\ boxh(text) > 0 /\ EndsInNewline(text) => TextGoes
MovesAsAsked == [][GoesAsAsked]_vars

(* Back from what an item led to, the same menu shows the same part of itself *)
(* with the same item highlighted (menubox.c:34-41); the entries without a    *)
(* menu behind them have nothing the place could be found by.                 *)
FindsPlace ==
  LET s == Head(stack).seen IN
  ConfShow /\ s.items = menu'.items /\ s.size = size /\ Head(stack).active # NULL /\ ~Crashed'
    => menu'.scroll = s.scroll /\ menu'.choice = s.choice
PlaceIsKept == [][FindsPlace]_vars

(* mconf always gets back to waiting for a key, or ends; except where it asks *)
(* for a string on a terminal too small for the input box: it then tries      *)
(* again for ever, and as it does not read a key it never learns the new size *)
(* of the terminal.                                                           *)
Responds ==
  []<>(Waits \/ stack = <<>> \/ Crashed
       \/ \E f \in {"string", "file"} : Runs(f) /\ AskFails(f))
=============================================================================
