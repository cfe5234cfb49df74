------------------------------ MODULE Inputbox ------------------------------
(* The input box and the yes/no box (lxdialog/inputbox.c, yesno.c).           *)
EXTENDS DialogUtil

CONSTANTS BoxWidth,      \* box_width: the field is 6 columns narrower than the dialog
          InputLen,      \* MAX_LEN: dialog_input_result has one byte more
          Chars          \* the characters a user types

VARIABLES input,    \* the locals of dialog_inputbox, its field and dialog_input_result
          yesno     \* the locals of dialog_yesno

Zero == "\\0"
ASSUME FieldAssumption ==
  BoxWidth \in Nat \ {0, 1} /\ InputLen \in Nat /\ InputLen >= BoxWidth /\ Zero \notin Chars
strlen_of(instr) == Min({i \in DOMAIN instr : instr[i] = Zero})
strcpy(s) == [i \in 0 .. InputLen |-> IF i < Len(s) THEN s[i + 1] ELSE Zero]
result_string(instr) == [i \in 1 .. strlen_of(instr) |-> instr[i - 1]]

(* What earlier dialogs left in instr behind the end is never looked at, and  *)
(* taken as zeros.  strayed is history: scroll was kept for a text that no    *)
(* longer needs it.                                                           *)
InputClosed ==
  [open |-> FALSE, instr |-> strcpy(<<>>), scroll |-> 0, input_x |-> 0,
   button |-> -1, lines |-> 0, width |-> 0, field |-> [i \in 0 .. BoxWidth - 1 |-> " "],
   strayed |-> FALSE, result |-> "none"]

waddch(b, n) == [b EXCEPT !.field = [i \in DOMAIN @ |-> IF i < n THEN b.instr[b.scroll + i]
                                                         ELSE @[i]]]
input_too_small(b, size) == size.lines <= b.lines - 2 \/ size.cols <= b.width - 2

(* Only a text too long for the field sets scroll: a dialog drawn again with  *)
(* a shorter text keeps what scroll was.                                      *)
input_do_resize(b, size) ==
  LET len   == strlen_of(b.instr)
      clear == [b EXCEPT !.open = TRUE, !.field = InputClosed.field]
      long  == [clear EXCEPT !.scroll = len - BoxWidth + 1, !.input_x = BoxWidth - 1]
      short == [clear EXCEPT !.input_x = len, !.strayed = @ \/ b.scroll > 0,
                  !.field = [i \in DOMAIN @ |-> IF i < len THEN b.instr[i] ELSE " "]]
  IN  IF input_too_small(b, size) THEN [InputClosed EXCEPT !.result = "too_small"]
      ELSE IF len >= BoxWidth THEN waddch(long, BoxWidth - 1) ELSE short

dialog_inputbox(init, height, width, size) ==
  input_do_resize([InputClosed EXCEPT !.instr = strcpy(init),
                                      !.lines = height, !.width = width], size)

-----------------------------------------------------------------------------
(* Backspace at the left edge shows the text before it and deletes nothing.   *)
backspace(b) ==
  LET back  == IF b.scroll < BoxWidth - 1 THEN 0 ELSE b.scroll - (BoxWidth - 1)
      paged == [b EXCEPT !.scroll = back, !.input_x = strlen_of(b.instr) - back,
                 !.field = [i \in DOMAIN @ |-> IF b.instr[back + i] = Zero THEN " "
                                               ELSE b.instr[back + i]]]
      at    == IF b.input_x = 0 THEN paged ELSE [b EXCEPT !.input_x = @ - 1]
  IN  [at EXCEPT !.instr[at.scroll + at.input_x] = Zero, !.field[at.input_x] = " "]

typed(b, c) ==
  LET at  == b.scroll + b.input_x
      in  == [b EXCEPT !.instr = [@ EXCEPT ![at] = c, ![at + 1] = Zero]]
  IN  IF b.input_x = BoxWidth - 1 THEN waddch([in EXCEPT !.scroll = @ + 1], BoxWidth - 1)
      ELSE [in EXCEPT !.field[b.input_x] = c, !.input_x = @ + 1]

(* At the limit a key only flashes the screen.                                *)
InField == input.open /\ input.button = -1
InputBackspace ==
  /\ InField /\ (input.input_x > 0 \/ input.scroll > 0)
  /\ input' = backspace(input)
InputType(c) ==
  /\ InField /\ input.scroll + input.input_x < InputLen
  /\ input' = typed(input, c)

(* The field, Ok and Help in turn; in the field the arrows to the side and    *)
(* the letters are for the text.                                              *)
InputButton(key) ==
  /\ input.open
  /\ key \in {"KEY_UP", "TAB", "KEY_DOWN"} \cup (IF InField THEN {} ELSE {"KEY_LEFT", "KEY_RIGHT"})
  /\ input' = [input EXCEPT !.button = IF key \in {"KEY_UP", "KEY_LEFT"}
                                       THEN ((@ + 3) % 3) - 1 ELSE ((@ + 2) % 3) - 1]

InputReturn(key) ==
  /\ input.open /\ key \in {"ENTER"} \cup (IF InField THEN {} ELSE {" ", "o", "h"})
  /\ input' = [InputClosed EXCEPT !.instr = input.instr,
                 !.result = IF key = "h" \/ (key # "o" /\ input.button = 1) THEN "1" ELSE "0"]

InputEscape(key, follow) ==
  /\ input.open /\ key \in {"KEY_ESC"} \cup (IF InField THEN {} ELSE {"x"})
  /\ key = "KEY_ESC" => on_key_esc(follow) = "KEY_ESC"
  /\ input' = [InputClosed EXCEPT !.result = "KEY_ESC"]

InputResize(size) == input.open /\ input' = input_do_resize(input, size)

-----------------------------------------------------------------------------
(* The yes/no box: its prompt as it was wrapped, and the button.              *)
YesnoClosed ==
  [open |-> FALSE, button |-> 0, words |-> <<>>, width |-> 0, prompt |-> <<>>, result |-> "none"]

yesno_too_small(size) == size.lines < 6 + 4 \/ size.cols < 60 + 4
yesno_do_resize(b, size) ==
  IF yesno_too_small(size) THEN [YesnoClosed EXCEPT !.result = "too_small"]
  ELSE [b EXCEPT !.open = TRUE, !.prompt = print_autowrap(b.words, b.width - 2, 1, 3)]
dialog_yesno(words, width, size) ==
  yesno_do_resize([YesnoClosed EXCEPT !.words = words, !.width = width], size)

YesnoButton ==
  /\ yesno.open
  /\ yesno' = [yesno EXCEPT !.button = 1 - @]
YesnoReturn(key) ==
  /\ yesno.open /\ key \in {"y", "n", " ", "ENTER"}
  /\ yesno' = [YesnoClosed EXCEPT
                 !.result = CASE key = "y" -> "0" [] key = "n" -> "1"
                              [] OTHER -> ToString(yesno.button)]
YesnoEscape(follow) ==
  /\ yesno.open /\ on_key_esc(follow) = "KEY_ESC"
  /\ yesno' = [YesnoClosed EXCEPT !.result = "KEY_ESC"]
YesnoResize(size) == yesno.open /\ yesno' = yesno_do_resize(yesno, size)
=============================================================================
