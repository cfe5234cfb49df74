------------------------------- MODULE Menubox -------------------------------
(* The menu box (lxdialog/menubox.c): a list longer than its window, drawn    *)
(* whole when it opens and line by line as the cursor moves.                  *)
EXTENDS DialogUtil

VARIABLE menu    \* the locals of dialog_menu, and the window of the menu

MenuClosed ==
  [open |-> FALSE, crashed |-> FALSE, items |-> <<>>, selected |-> NULL, s_scroll |-> 0,
   menu_height |-> 0, scroll |-> 0, choice |-> 0, first_item |-> 0, button |-> 0,
   rows |-> blank_window(0), up |-> FALSE, down |-> FALSE, stale |-> FALSE,
   result |-> "none", chosen |-> NULL]

max_choice(m) == Min({m.menu_height, item_count(m.items)})
too_small(size) == size.lines < 15 \/ size.cols < 65

(* A row above the window is one ncurses does not move to.                    *)
print_item(m, n, row, lit) ==
  [m EXCEPT !.rows = IF row >= 0 THEN put(@, row, n, lit) ELSE @]
print_arrows(m) ==
  [m EXCEPT !.up = m.scroll > 0,
            !.down = /\ m.menu_height < item_count(m.items)
                     /\ m.scroll + m.menu_height < item_count(m.items)]
do_scroll(m, n) == [m EXCEPT !.rows = wscrl(@, n), !.scroll = @ + n]

(* From the label do_resize to the first key.  choice is where the caller's   *)
(* item is, or what it was; s_scroll is used if that item is visible with it. *)
(* Where the list is shown from its start again, first_item stays what it was *)
(* at another size of the terminal; stale is history.                         *)
saved_scroll_fits_not_at_end(m, choice) ==
  /\ m.s_scroll <= choice /\ m.s_scroll + max_choice(m) > choice
  /\ m.s_scroll >= 0 /\ m.s_scroll + max_choice(m) < item_count(m.items)
saved_scroll_fits(m, choice) ==
  /\ m.s_scroll <= choice /\ m.s_scroll + max_choice(m) > choice
  /\ m.s_scroll >= 0 /\ m.s_scroll + max_choice(m) <= item_count(m.items)

Placed(m, wanted) ==
  LET max == max_choice(m)
      count == item_count(m.items)
      middle == IF wanted >= count - max \div 2 THEN count - max ELSE wanted - max \div 2
  IN  IF saved_scroll_fits(m, wanted)
      THEN [m EXCEPT !.scroll = m.s_scroll, !.first_item = m.s_scroll,
                     !.choice = wanted - m.s_scroll, !.stale = FALSE]
      ELSE IF wanted < max THEN [m EXCEPT !.scroll = 0, !.choice = wanted,
                                          !.stale = m.first_item # 0]
      ELSE [m EXCEPT !.scroll = middle, !.first_item = middle, !.choice = wanted - middle,
                     !.stale = FALSE]

(* Printing an item that does not exist takes its text from a null pointer.   *)
Shown(m) ==
  IF \E i \in 0 .. max_choice(m) - 1 : ~item_exists(m.items, m.first_item + i)
  THEN [m EXCEPT !.open = FALSE, !.crashed = TRUE]
  ELSE print_arrows([m EXCEPT !.open = TRUE,
         !.rows = drawn(m.menu_height, max_choice(m), m.first_item, m.choice)])

do_resize(m, size) ==
  LET sized == [m EXCEPT !.menu_height = size.lines - 4 - 10]
      here  == IF m.selected = NULL THEN {}
               ELSE items_with(m.items, LAMBDA it : it.data = m.selected)
  IN  IF too_small(size) THEN [MenuClosed EXCEPT !.result = "too_small"]
      ELSE Shown(Placed(sized, IF here = {} THEN m.choice ELSE Max(here)))

dialog_menu(items, selected, s_scroll, size) ==
  do_resize([MenuClosed EXCEPT !.items = items, !.selected = selected,
                               !.s_scroll = s_scroll], size)

-----------------------------------------------------------------------------
(* The keys that move the cursor: the arrows, a page, or an item's hotkey.    *)
Arrows == {"KEY_UP", "-", "KEY_DOWN", "+", "KEY_PPAGE", "KEY_NPAGE"}

has_key(m, i, key) == hotkey(item_at(m.items, m.scroll + i).text) = key
hit(m, key) ==
  LET below == {i \in m.choice + 1 .. max_choice(m) - 1 : has_key(m, i, key)}
      all   == {i \in 0 .. max_choice(m) - 1 : has_key(m, i, key)}
  IN  IF key \in exempt \/ all = {} THEN max_choice(m)
      ELSE IF below # {} THEN Min(below) ELSE Min(all)

line_up_unprinted(m) ==
  IF m.choice < 2 /\ m.scroll > 0 THEN do_scroll(m, -1)
  ELSE [m EXCEPT !.choice = Max({@ - 1, 0})]
line_up(m) ==
  IF m.choice < 2 /\ m.scroll > 0
  THEN print_item(do_scroll(m, -1), m.scroll - 1, 0, FALSE)
  ELSE [m EXCEPT !.choice = Max({@ - 1, 0})]

line_down(m) ==
  IF m.choice > max_choice(m) - 3 /\ m.scroll + max_choice(m) < item_count(m.items)
  THEN print_item(do_scroll(m, 1), m.scroll + max_choice(m), max_choice(m) - 1, FALSE)
  ELSE [m EXCEPT !.choice = Min({@ + 1, max_choice(m) - 1})]

page_up_step(m) ==
  IF m.scroll > 0 THEN print_item(do_scroll(m, -1), m.scroll - 1, 0, FALSE)
  ELSE [m EXCEPT !.choice = IF @ > 0 THEN @ - 1 ELSE @]
page_down_step(m) ==
  IF m.scroll + max_choice(m) < item_count(m.items)
  THEN print_item(do_scroll(m, 1), m.scroll + max_choice(m), max_choice(m) - 1, FALSE)
  ELSE [m EXCEPT !.choice = IF @ + 1 < max_choice(m) THEN @ + 1 ELSE @]
page(m, Step(_)) ==
  LET after[i \in 0 .. max_choice(m)] == IF i = 0 THEN m
                                          ELSE LET last == after[i - 1] IN Step(last)
  IN  after[max_choice(m)]

moved(m, key) ==
  CASE key \in {"KEY_UP", "-"}   -> line_up(m)
    [] key \in {"KEY_DOWN", "+"} -> line_down(m)
    [] key = "KEY_PPAGE"         -> page(m, page_up_step)
    [] key = "KEY_NPAGE"         -> page(m, page_down_step)
    [] OTHER                     -> [m EXCEPT !.choice = hit(m, key)]

lit(m, on) == print_item(m, m.scroll + m.choice, m.choice, on)

MenuMove(key) ==
  /\ menu.open /\ (key \in Arrows \/ hit(menu, key) < max_choice(menu))
  /\ menu' = print_arrows(lit(moved(lit(menu, FALSE), key), TRUE))

-----------------------------------------------------------------------------
(* The other keys, where no visible item has them as its hotkey.              *)
Free(key) == menu.open /\ hit(menu, key) = max_choice(menu)

MenuButton(key) ==
  /\ key \in {"KEY_LEFT", "TAB", "KEY_RIGHT"} /\ Free(key)
  /\ LET b == IF key = "KEY_LEFT" THEN (menu.button + 2) % 3 ELSE (menu.button + 1) % 3
     IN  menu' = [menu EXCEPT !.button = b]

returns == [k \in {"s", "y", "n", "m", " ", "/"} |->
              CASE k = "n" -> 4 [] k = "m" -> 5 [] k = " " -> 6 [] k = "/" -> 7 [] OTHER -> 3]
button_of(m, key) ==
  CASE key = "ENTER" -> m.button [] key \in {"h", "?"} -> 2 [] OTHER -> returns[key]

MenuSelect(key) ==
  /\ key \in DOMAIN returns \cup {"ENTER", "h", "?"} /\ Free(key)
  /\ menu' = [MenuClosed EXCEPT !.items = menu.items, !.scroll = menu.scroll,
                 !.choice = menu.choice, !.s_scroll = menu.scroll,
                 !.result = ToString(button_of(menu, key)),
                 !.chosen = menu.scroll + menu.choice]

(* e and x, or Esc twice: the caller's s_scroll stays as it was.              *)
MenuEscape(key, follow) ==
  /\ key \in {"e", "x", "KEY_ESC"} /\ Free(key)
  /\ key = "KEY_ESC" => on_key_esc(follow) = "KEY_ESC"
  /\ menu' = [MenuClosed EXCEPT !.result = "KEY_ESC"]

MenuResize(size) == menu.open /\ menu' = do_resize(menu, size)
=============================================================================
