----------------------------- MODULE DialogUtil -----------------------------
(* What the boxes of lxdialog share (lxdialog/util.c): the list of items, a   *)
(* window seen as its rows, the wrapping of a prompt and the Esc key.         *)
EXTENDS Integers, Sequences, FiniteSetsExt, SequencesExt

CONSTANTS Letters,     \* the characters of an item's text that isalpha takes
          NULL         \* no item, and the data of an item without a menu

(* An item: its text as a sequence of characters, its tag, and its data.      *)
(* The code counts items from 0.                                              *)
item_count(items) == Len(items)
item_at(items, n) == items[n + 1]
(* item_foreach runs past the last item to a null pointer, and so does        *)
(* item_set(n) for an n that no item has; but a list without items leaves it  *)
(* at item_nil, whose text is empty.                                          *)
item_exists(items, n) == n \in 0 .. item_count(items) - 1
items_with(items, P(_)) == {n \in 0 .. item_count(items) - 1 : P(item_at(items, n))}

(* first_alpha: the first letter outside brackets that is not exempt, or the  *)
(* first character of all.  Letters are lower case here.                      *)
exempt == {"y", "n", "m", "h"}
depth(text, i) ==
  LET after[n \in 0 .. i] ==
        IF n = 0 THEN 0
        ELSE LET d == after[n - 1] IN
             IF text[n] \in {"<", "[", "("} THEN d + 1
             ELSE IF text[n] \in {">", "]", ")"} /\ d > 0 THEN d - 1 ELSE d
  IN  after[i]
hotkey(text) ==
  LET found == {i \in 1 .. Len(text) :
                  depth(text, i) = 0 /\ text[i] \in Letters \ exempt}
  IN  IF found = {} THEN text[1] ELSE text[Min(found)]

(* on_key_esc: Esc counts only when a second Esc follows at once and nothing  *)
(* else does; a single other key after it is put back.                        *)
Follow == {"nothing", "esc", "sequence"}
on_key_esc(follow) == IF follow = "esc" THEN "KEY_ESC" ELSE "-1"

-----------------------------------------------------------------------------
(* A window: for every row the item it shows and whether it is highlighted.   *)
Blank == [item |-> -1, lit |-> FALSE]
blank_window(height) == [r \in 0 .. height - 1 |-> Blank]
put(rows, r, n, lit) == [rows EXCEPT ![r] = [item |-> n, lit |-> lit]]
wscrl(rows, n) ==
  [r \in DOMAIN rows |-> IF r + n \in DOMAIN rows THEN rows[r + n] ELSE Blank]

(* What a window shows when it is drawn afresh.                               *)
drawn(height, max_choice, scroll, choice) ==
  [r \in 0 .. height - 1 |->
     IF r < max_choice THEN [item |-> scroll + r, lit |-> r = choice] ELSE Blank]

-----------------------------------------------------------------------------
(* print_autowrap: a prompt is a sequence of words, each with its length and  *)
(* the number of blanks behind it; the result says where every word starts.   *)
prompt_len(words) ==
  LET upto[n \in 0 .. Len(words)] ==
        IF n = 0 THEN 0 ELSE upto[n - 1] + words[n].len + words[n].gap
  IN  upto[Len(words)]

wrap_word(state, words, i, width, x) ==
  LET w      == words[i]
      rest   == SubSeq(words, i + 1, Len(words))
      room   == width - state.x
      follow == IF w.gap > 1 \/ rest = <<>> THEN 0 ELSE rest[1].len
      wrap   == \/ w.len > room
                \/ /\ state.newl /\ w.len < 4 /\ w.gap > 0
                   /\ w.len + w.gap + prompt_len(rest) > room
                   /\ IF w.gap > 1 \/ (rest # <<>> /\ rest[1].gap > 0)
                      THEN w.len + 1 + follow > room ELSE TRUE
      row    == IF wrap THEN state.y + 1 ELSE state.y
      col    == IF wrap THEN x ELSE state.x
  IN  [y |-> row, x |-> col + w.len + (IF w.gap > 1 THEN 2 ELSE 1), newl |-> w.gap > 1,
       put |-> Append(state.put, [y |-> row, x |-> col, len |-> w.len])]

print_autowrap(words, width, y, x) ==
  LET start == [y |-> y, x |-> x, newl |-> TRUE, put |-> <<>>]
      wrapped[i \in 0 .. Len(words)] ==
        IF i = 0 THEN start
        ELSE LET last == wrapped[i - 1] IN wrap_word(last, words, i, width, x)
  IN  IF prompt_len(words) <= width - x * 2
      THEN <<[y |-> y, x |-> (width - prompt_len(words)) \div 2, len |-> prompt_len(words)]>>
      ELSE wrapped[Len(words)].put
=============================================================================
