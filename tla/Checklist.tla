------------------------------ MODULE Checklist ------------------------------
(* The list of a choice's values (lxdialog/checklist.c).                      *)
EXTENDS DialogUtil

CONSTANT ListHeight    \* list_height: 6 wherever mconf opens one

ASSUME ListHeightAssumption == ListHeight \in Nat \ {0}

VARIABLE list    \* the locals of dialog_checklist, and the window of the list

ListClosed ==
  [open |-> FALSE, items |-> <<>>, scroll |-> 0, choice |-> 0, button |-> 0,
   rows |-> blank_window(ListHeight), up |-> FALSE, down |-> FALSE, redrawn |-> FALSE,
   result |-> "none", chosen |-> NULL]

list_max(b) == Min({ListHeight, item_count(b.items)})
list_too_small(size) == size.lines < 15 + 6 \/ size.cols < 70 + 6

(* The test for more below is about the item highlighted, which is in the     *)
(* last row only where the list has just been scrolled; redrawn is history:   *)
(* the size of the terminal has changed since.                                *)
print_list_item(b, n, row, on) == [b EXCEPT !.rows = put(@, row, n, on)]
list_arrows(b) ==
  [b EXCEPT !.up = b.scroll > 0,
            !.down = /\ ListHeight < item_count(b.items)
                     /\ b.scroll + b.choice < item_count(b.items) - 1]

(* The item to highlight: the caller's, or else the last one that is set.     *)
first_choice(items) ==
  LET active == items_with(items, LAMBDA it : it.selected)
      set    == items_with(items, LAMBDA it : it.tag = "X")
  IN  IF active # {} THEN Min(active) ELSE IF set # {} THEN Max(set) ELSE 0

list_do_resize(b, size) ==
  LET over == Max({b.choice - ListHeight + 1, 0})
      at   == [b EXCEPT !.scroll = IF over > 0 THEN over ELSE @, !.choice = @ - over]
  IN  IF list_too_small(size) THEN [ListClosed EXCEPT !.result = "too_small"]
      ELSE list_arrows([at EXCEPT !.open = TRUE, !.redrawn = b.open,
             !.rows = drawn(ListHeight, list_max(at), at.scroll, at.choice)])

dialog_checklist(items, size) ==
  list_do_resize([ListClosed EXCEPT !.items = items, !.choice = first_choice(items)], size)

-----------------------------------------------------------------------------
(* The first letter of a visible item goes to that item.                      *)
first_with(b, key) ==
  LET all == {i \in 0 .. list_max(b) - 1 : item_at(b.items, b.scroll + i).text[1] = key}
  IN  IF all = {} THEN list_max(b) ELSE Min(all)

(* At the edge of the window the list moves under the cursor.                 *)
scrolled(b, n, row) ==
  LET dark == IF ListHeight > 1
              THEN [print_list_item(b, b.scroll + row, row, FALSE) EXCEPT !.rows = wscrl(@, n)]
              ELSE b
      moved == [dark EXCEPT !.scroll = @ + n]
  IN  list_arrows(print_list_item([moved EXCEPT !.redrawn = FALSE], moved.scroll + row, row, TRUE))

highlighted(b, i) ==
  IF i = b.choice THEN b
  ELSE [print_list_item(print_list_item(b, b.scroll + b.choice, b.choice, FALSE),
                        b.scroll + i, i, TRUE) EXCEPT !.choice = i]

list_moved(b, key) ==
  LET last == list_max(b) - 1 IN
  CASE key \in {"KEY_UP", "-"} ->
         IF b.choice > 0 THEN highlighted(b, b.choice - 1)
         ELSE IF b.scroll = 0 THEN b ELSE scrolled(b, -1, 0)
    [] key \in {"KEY_DOWN", "+"} ->
         IF b.choice # last THEN highlighted(b, b.choice + 1)
         ELSE IF b.scroll + b.choice >= item_count(b.items) - 1 THEN b
         ELSE scrolled(b, 1, last)
    [] OTHER -> highlighted(b, first_with(b, key))

ListMove(key) ==
  /\ list.open
  /\ key \in {"KEY_UP", "-", "KEY_DOWN", "+"} \/ first_with(list, key) < list_max(list)
  /\ list' = list_moved(list, key)

-----------------------------------------------------------------------------
ListFree(key) == list.open /\ first_with(list, key) = list_max(list)

ListButton(key) ==
  /\ key \in {"TAB", "KEY_LEFT", "KEY_RIGHT"} /\ ListFree(key)
  /\ list' = [list EXCEPT !.button = 1 - @]

ListSelect(key) ==
  /\ key \in {"h", "?", "s", " ", "ENTER"} /\ ListFree(key)
  /\ list' = [ListClosed EXCEPT !.items = list.items, !.chosen = list.scroll + list.choice,
               !.result = ToString(IF key \in {"h", "?"} THEN 1 ELSE list.button)]

ListEscape(key, follow) ==
  /\ key \in {"x", "KEY_ESC"} /\ ListFree(key)
  /\ key = "KEY_ESC" => on_key_esc(follow) = "KEY_ESC"
  /\ list' = [ListClosed EXCEPT !.result = "KEY_ESC"]

ListResize(size) == list.open /\ list' = list_do_resize(list, size)
=============================================================================
