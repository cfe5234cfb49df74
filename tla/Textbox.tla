------------------------------- MODULE Textbox -------------------------------
(* The text box (lxdialog/textbox.c).  It keeps no list of lines: `page` is   *)
(* where the next line to print begins, and going back is a search for line   *)
(* ends that starts there and counts the lines on the screen.                 *)
EXTENDS DialogUtil

CONSTANT MaxLen    \* MAX_LEN: how far a text scrolls to the right

VARIABLE text    \* the locals and statics of dialog_textbox, and its window

NL == "\n"
TextClosed ==
  [open |-> FALSE, buf |-> <<>>, fixed |-> 0, height |-> 0, page |-> 0,
   begin_reached |-> FALSE, end_reached |-> FALSE, page_length |-> 0, hscroll |-> 0,
   rows |-> <<>>, result |-> "none"]

strlen(t) == Len(t.buf)
boxh(t) == t.height - 4
newlines(t) == {p \in 0 .. strlen(t) - 1 : t.buf[p + 1] = NL}

get_line(t) ==
  LET ends == {p \in newlines(t) : p >= t.page}
  IN  [t EXCEPT !.end_reached = ends = {},
                !.page = IF ends = {} THEN strlen(t) ELSE Min(ends) + 1]

print_line(t, row) ==
  [get_line(t) EXCEPT !.rows = [@ EXCEPT ![row] = [at |-> t.page, hscroll |-> t.hscroll]]]

(* The line ends from `page` on, in order, and those before the line end that *)
(* `page` is behind.                                                          *)
nth(S, n) == CHOOSE p \in S : Cardinality({q \in S : q < p}) = n - 1
ends_from(t) ==
  LET S == {p \in newlines(t) : p >= t.page} IN [i \in 1 .. Cardinality(S) |-> nth(S, i)]
ends_before(t) ==
  LET S == {p \in newlines(t) : p < t.page - 1}
  IN  [i \in 1 .. Cardinality(S) |-> nth(S, Cardinality(S) + 1 - i)]

(* boxh lines, one get_line after the other: the ones behind the end are      *)
(* empty, and page_length counts up to the line that reached it.  Only the    *)
(* rows that Printed says are printed.                                        *)
line_at(t, ends, i) ==
  IF i = 0 THEN t.page ELSE IF i <= Len(ends) THEN ends[i] + 1 ELSE strlen(t)
lines(t, Printed(_)) ==
  LET ends == ends_from(t)
      row(i) == [at |-> line_at(t, ends, i), hscroll |-> t.hscroll]
  IN  [t EXCEPT !.page = line_at(t, ends, boxh(t)),
                !.end_reached = boxh(t) > Len(ends),
                !.page_length = Min({boxh(t), Len(ends) + 1}),
                !.rows = [i \in DOMAIN @ |-> IF Printed(i) THEN row(i) ELSE @[i]]]
print_page(t) == lines(t, LAMBDA i : TRUE)

(* n lines back, a step for each line; the first step from the end of the     *)
(* text only takes back that it was reached.                                  *)
back_lines_from_end(t, n) ==
  LET ends == ends_before(t)
  IN  [t EXCEPT !.begin_reached = n > Len(ends),
                !.page = IF n > Len(ends) THEN 0 ELSE ends[n] + 1]
back_lines(t, n) ==
  LET at_end == n > 0 /\ t.page = strlen(t) /\ t.end_reached
      steps  == IF at_end THEN n - 1 ELSE n
      ends   == ends_before(t)
  IN  [t EXCEPT !.end_reached = @ /\ ~at_end,
                !.begin_reached = steps > Len(ends),
                !.page = IF steps = 0 THEN @ ELSE IF steps > Len(ends) THEN 0
                         ELSE ends[steps] + 1]

text_do_resize(t, size) ==
  LET height == IF t.fixed # 0 THEN t.fixed ELSE size.lines - 4
      sized  == [t EXCEPT !.height = height, !.open = TRUE,
                   !.rows = [r \in 0 .. height - 5 |-> [at |-> -1, hscroll |-> 0]]]
  IN  IF size.lines < 8 \/ size.cols < 8
      THEN [TextClosed EXCEPT !.result = "too_small"] ELSE print_page(sized)

dialog_textbox(buf, fixed, size) ==
  text_do_resize([TextClosed EXCEPT !.buf = buf, !.fixed = fixed, !.begin_reached = TRUE], size)

-----------------------------------------------------------------------------
text_home(t) ==
  IF t.begin_reached THEN t ELSE print_page([t EXCEPT !.begin_reached = TRUE, !.page = 0])
text_end(t) ==
  print_page(back_lines([t EXCEPT !.end_reached = TRUE, !.page = strlen(t)], boxh(t)))

(* The window is scrolled down and only its first line printed.               *)
text_up(t) ==
  LET back == back_lines(t, t.page_length + 1)
      down == [back EXCEPT !.rows = [r \in DOMAIN @ |-> IF r > 0 THEN @[r - 1] ELSE @[r]]]
  IN  IF t.begin_reached THEN t ELSE lines(down, LAMBDA i : i = 0)
text_ppage(t) ==
  IF t.begin_reached THEN t ELSE print_page(back_lines(t, t.page_length + boxh(t)))

(* page_length stays: the window was full, or the end would be reached.       *)
text_down(t) ==
  LET up == [t EXCEPT !.begin_reached = FALSE,
               !.rows = [r \in DOMAIN @ |-> IF r + 1 \in DOMAIN @ THEN @[r + 1] ELSE @[r]]]
  IN  IF t.end_reached THEN t ELSE print_line(up, boxh(t) - 1)
text_npage(t) == IF t.end_reached THEN t ELSE print_page([t EXCEPT !.begin_reached = FALSE])

reprint(t) == print_page(back_lines(t, t.page_length))
text_left(t, key) ==
  IF t.hscroll <= 0 THEN t
  ELSE reprint([t EXCEPT !.hscroll = IF key = "0" THEN 0 ELSE @ - 1])
text_right(t) == IF t.hscroll >= MaxLen THEN t ELSE reprint([t EXCEPT !.hscroll = @ + 1])

TextHome == text.open /\ text' = text_home(text)
TextEnd == text.open /\ text' = text_end(text)
TextUp == text.open /\ text' = text_up(text)
TextDown == text.open /\ text' = text_down(text)
TextPageUp == text.open /\ text' = text_ppage(text)
TextPageDown == text.open /\ text' = text_npage(text)
TextSide(key) ==
  /\ text.open
  /\ text' = IF key = "RIGHT" THEN text_right(text) ELSE text_left(text, key)

(* e and x, Enter, or Esc twice.                                              *)
TextExit(key, follow) ==
  /\ text.open
  /\ key = "KEY_ESC" => on_key_esc(follow) = "KEY_ESC"
  /\ text' = [TextClosed EXCEPT !.result = IF key = "e" THEN "0" ELSE key]

(* Going back by the height of the box, not by the lines shown.               *)
TextResize(size) ==
  text.open /\ text' = text_do_resize(back_lines(text, text.height), size)
=============================================================================
