---------------------------- MODULE LxdialogProofs ----------------------------
(* Proofs about Lxdialog, for all menus, texts, values and questions, for     *)
(* terminals, lists and fields of every size.                                 *)
(*                                                                            *)
(* The argument: every box has an inductive invariant of its own.  That of    *)
(* the menu and of the list of a choice says that the window holds the rows   *)
(* from scroll on, with the one at choice lit; a key only moves from one such *)
(* state to the next, with no row lit in between.  That of the text box       *)
(* counts line ends: a buffer with N of them has N lines, line k begins       *)
(* behind the k-th, and the window, the place behind it and the search back   *)
(* are then numbers of lines, so that back_lines, which moves character by    *)
(* character and does not count where it only takes back that the end was     *)
(* reached, ends at the line asked for.  That of the input field says how     *)
(* long the text is and what of it the field holds, and that of the question  *)
(* follows the wrapping of its words.  Across the boxes: what is shown        *)
(* belongs to the function on top of the stack, and what conf remembers of    *)
(* its menu is the place it was left at.                                      *)
EXTENDS Lxdialog, TLAPS, WellFoundedInduction, FiniteSetTheorems

-----------------------------------------------------------------------------
(* Numbers. *)
LEMMA MinTwo == ASSUME NEW a \in Int, NEW b \in Int PROVE Min({a, b}) = IF a <= b THEN a ELSE b
<1> DEFINE x == IF a <= b THEN a ELSE b
<1>1. x \in {a, b} /\ \A y \in {a, b} : x <= y OBVIOUS
<1>2. ASSUME NEW z \in {a, b}, \A y \in {a, b} : z <= y PROVE z = x
  <2>1. z <= a /\ z <= b BY <1>2
  <2> QED BY <1>2, <2>1
<1> HIDE DEF x
<1>3. Min({a, b}) = x BY <1>1, <1>2 DEF Min
<1> QED BY <1>3 DEF x

LEMMA MaxTwo == ASSUME NEW a \in Int, NEW b \in Int PROVE Max({a, b}) = IF a >= b THEN a ELSE b
<1> DEFINE x == IF a >= b THEN a ELSE b
<1>1. x \in {a, b} /\ \A y \in {a, b} : x >= y OBVIOUS
<1>2. ASSUME NEW z \in {a, b}, \A y \in {a, b} : z >= y PROVE z = x
  <2>1. z >= a /\ z >= b BY <1>2
  <2> QED BY <1>2, <2>1
<1> HIDE DEF x
<1>3. Max({a, b}) = x BY <1>1, <1>2 DEF Max
<1> QED BY <1>3 DEF x

LEMMA Smallest ==
  ASSUME NEW S, S \subseteq Nat, S # {}
  PROVE  \E x \in S : \A y \in S : x <= y
<1> DEFINE R == OpToRel(<, Nat)
<1>1. IsWellFoundedOn(R, Nat) BY NatLessThanWellFounded
<1>2. PICK x \in S : \A y \in S : ~(<<y, x>> \in R)
  <2> HIDE DEF R
  <2> QED BY <1>1, WFMin
<1>3. ASSUME NEW y \in S PROVE x <= y
  <2>1. y \in Nat /\ x \in Nat OBVIOUS
  <2>2. y < x => <<y, x>> \in R BY <2>1 DEF OpToRel
  <2> HIDE DEF R
  <2> QED BY <1>2, <2>1, <2>2
<1> QED BY <1>3

LEMMA MinOf ==
  ASSUME NEW S, S \subseteq Nat, S # {}
  PROVE  Min(S) \in S /\ \A y \in S : Min(S) <= y
<1>2. \E n \in S : \A m \in S : n <= m BY Smallest
<1> QED BY <1>2 DEF Min

LEMMA MaxOf ==
  ASSUME NEW n \in Nat, NEW S, S \subseteq 0..n, S # {}
  PROVE  Max(S) \in S /\ \A y \in S : Max(S) >= y
<1> DEFINE T == {x \in Nat : n - x \in S}
<1>1. PICK s \in S : TRUE OBVIOUS
<1>2. s \in 0..n BY <1>1
<1>3. n - s \in Nat /\ n - (n - s) = s BY <1>2
<1>4. n - s \in T BY <1>1, <1>3
<1>5. PICK m \in T : \A y \in T : m <= y 
  <2> HIDE DEF T
  <2>1. T \subseteq Nat BY DEF T
  <2> QED BY <1>4, <2>1, Smallest
<1>6. n - m \in S /\ m \in Nat BY <1>5
<1>7. ASSUME NEW y \in S PROVE n - m >= y
  <2>1. y \in 0..n /\ n - y \in Nat /\ n - (n - y) = y BY <1>7
  <2>2. n - y \in T BY <1>7, <2>1
  <2>3. m <= n - y BY <1>5, <2>2
  <2> QED BY <1>6, <2>1, <2>3
<1>8. \E x \in S : \A y \in S : x >= y BY <1>6, <1>7
<1> QED BY <1>8 DEF Max

(* Induction over the natural numbers, for a set. *)
LEMMA UpFromZero ==
  ASSUME NEW S, 0 \in S, \A n \in Nat : n \in S => n + 1 \in S
  PROVE  Nat \subseteq S
<1>1. SUFFICES ASSUME NEW z \in Nat \ S PROVE FALSE OBVIOUS
<1>2. Nat \ S \in SUBSET Nat OBVIOUS
<1>3. PICK x \in Nat \ S : \A y \in Nat \ S : x <= y BY <1>1, <1>2, Smallest
<1>4. x - 1 \in Nat /\ ~(x <= x - 1) /\ x = (x - 1) + 1 BY <1>3
<1>5. x - 1 \in S BY <1>3, <1>4
<1> QED BY <1>3, <1>4, <1>5

-----------------------------------------------------------------------------
(* A row that shows item n, highlighted or not. *)
LitCell(n) == [item |-> n, lit |-> TRUE]
DarkCell(n) == [item |-> n, lit |-> FALSE]
Cells(height, max, scroll, c) ==
  [r \in 0 .. height - 1 |-> IF r < max THEN IF r = c THEN LitCell(scroll + r) ELSE DarkCell(scroll + r)
                             ELSE Blank]

LEMMA DrawnCells ==
  ASSUME NEW h \in Int, NEW max \in Int, NEW scroll \in Int, NEW c \in Int
  PROVE  drawn(h, max, scroll, c) = Cells(h, max, scroll, c)
<1>1. ASSUME NEW r \in 0 .. h - 1
      PROVE  drawn(h, max, scroll, c)[r] = Cells(h, max, scroll, c)[r]
  <2>1. CASE r < max /\ r = c
    <3>1. (r = c) = TRUE BY <2>1
    <3>2. drawn(h, max, scroll, c)[r] = [item |-> scroll + r, lit |-> r = c] BY <2>1 DEF drawn
    <3>3. Cells(h, max, scroll, c)[r] = [item |-> scroll + r, lit |-> TRUE]
      BY <2>1 DEF Cells, LitCell
    <3> QED BY <3>1, <3>2, <3>3
  <2>2. CASE r < max /\ r # c
    <3>1. (r = c) = FALSE BY <2>2
    <3>2. drawn(h, max, scroll, c)[r] = [item |-> scroll + r, lit |-> r = c] BY <2>2 DEF drawn
    <3>3. Cells(h, max, scroll, c)[r] = [item |-> scroll + r, lit |-> FALSE]
      BY <2>2 DEF Cells, DarkCell
    <3> QED BY <3>1, <3>2, <3>3
  <2>3. CASE ~(r < max) BY <2>3 DEF drawn, Cells
  <2> QED BY <2>1, <2>2, <2>3
<1>2. PICK d : d = drawn(h, max, scroll, c) OBVIOUS
<1>3. PICK e : e = Cells(h, max, scroll, c) OBVIOUS
<1>4. d = [r \in 0 .. h - 1 |-> d[r]] BY <1>2 DEF drawn
<1>5. e = [r \in 0 .. h - 1 |-> e[r]] BY <1>3 DEF Cells
<1>6. \A r \in 0 .. h - 1 : d[r] = e[r] BY <1>1, <1>2, <1>3
<1>7. d = e BY <1>4, <1>5, <1>6
<1> QED BY <1>2, <1>3, <1>7

LEMMA PutCell ==
  ASSUME NEW rows, NEW r, NEW n
  PROVE  /\ put(rows, r, n, TRUE) = [rows EXCEPT ![r] = LitCell(n)]
         /\ put(rows, r, n, FALSE) = [rows EXCEPT ![r] = DarkCell(n)]
BY DEF put, LitCell, DarkCell

-----------------------------------------------------------------------------
(* The menu box. *)
MenuFields == {"open", "crashed", "items", "selected", "s_scroll", "menu_height", "scroll",
               "choice", "first_item", "button", "rows", "up", "down", "stale", "result", "chosen"}
IsMenu(m) == m = [f \in MenuFields |-> m[f]]

(* A menu with items and rows to show them, and one with the cursor in it. *)
Sized(m) ==
  /\ IsMenu(m) /\ item_count(m.items) \in Nat \ {0} /\ m.menu_height \in Nat \ {0}
  /\ m.s_scroll \in Int /\ m.first_item \in Int
Within(m) ==
  /\ Sized(m) /\ m.scroll \in Nat /\ m.choice \in Nat
  /\ m.choice < max_choice(m) /\ m.scroll + max_choice(m) <= item_count(m.items)
(* The rows with no item highlighted, and with the one at choice. *)
Unlit(m) == m.rows = Cells(m.menu_height, max_choice(m), m.scroll, -1)
Lit(m) == m.rows = Cells(m.menu_height, max_choice(m), m.scroll, m.choice)
Arrowed(m) == m.up = (m.scroll > 0) /\ m.down = more_below(m, m.menu_height)

(* A menu without items. *)
Bare(m) ==
  /\ IsMenu(m) /\ item_count(m.items) = 0 /\ m.menu_height \in Nat \ {0}
  /\ m.first_item = 0 /\ ~m.stale /\ ShowsNone(m)

MenuInv(m) ==
  /\ IsMenu(m) /\ m.s_scroll \in Int
  /\ m.crashed => m.stale /\ ~m.open
  /\ m.open => ~m.crashed /\ (Bare(m) \/ (Within(m) /\ (~m.stale => Lit(m) /\ Arrowed(m))))

LEMMA MaxChoice ==
  ASSUME NEW m, Sized(m)
  PROVE  /\ max_choice(m) \in Nat \ {0}
         /\ max_choice(m) <= m.menu_height /\ max_choice(m) <= item_count(m.items)
         /\ max_choice(m) = m.menu_height \/ max_choice(m) = item_count(m.items)
BY MinTwo DEF max_choice, Sized

LEMMA HasItems ==
  ASSUME NEW m, MenuInv(m), m.open, item_count(m.items) # 0
  PROVE  Within(m) /\ ~m.crashed /\ IsMenu(m) /\ (~m.stale => Lit(m) /\ Arrowed(m))
BY DEF MenuInv, Bare

LEMMA HasNone ==
  ASSUME NEW m, MenuInv(m), m.open, item_count(m.items) = 0
  PROVE  Bare(m) /\ ~m.crashed /\ m.s_scroll \in Int
BY DEF MenuInv, Within, Sized

LEMMA ClosedIsMenu == IsMenu(MenuClosed)
BY DEF IsMenu, MenuFields, MenuClosed

(* Where the list stands when it is drawn. *)
LEMMA PlacedWithin ==
  ASSUME NEW m, Sized(m), NEW wanted \in 0 .. item_count(m.items) - 1, NEW p, p = Placed(m, wanted)
  PROVE  /\ Within(p) /\ max_choice(p) = max_choice(m)
         /\ p.crashed = m.crashed /\ p.items = m.items
         /\ ~p.stale => p.first_item = p.scroll
<1>a. PICK max : max = max_choice(m) OBVIOUS
<1>b. PICK count : count = item_count(m.items) OBVIOUS
<1> DEFINE middle == IF wanted >= count - max \div 2 THEN count - max ELSE wanted - max \div 2
<1>1. /\ max \in Nat \ {0} /\ max <= count /\ count \in Nat \ {0} /\ IsMenu(m)
      /\ m.s_scroll \in Int /\ m.first_item \in Int /\ m.menu_height \in Nat \ {0}
  BY <1>a, <1>b, MaxChoice DEF Sized
<1>2. wanted \in Nat /\ wanted < count BY <1>b, <1>1
<1>3. /\ IsMenu(p) /\ p.items = m.items /\ p.menu_height = m.menu_height /\ p.crashed = m.crashed
      /\ p.s_scroll = m.s_scroll
  BY <1>a, <1>b, <1>1 DEF Placed, IsMenu, MenuFields
<1>4. max_choice(p) = max BY <1>a, <1>3 DEF max_choice
<1>5. CASE saved_scroll_fits(m, wanted)
  <2>1. p.scroll = m.s_scroll /\ p.first_item = m.s_scroll /\ p.choice = wanted - m.s_scroll
    BY <1>a, <1>b, <1>1, <1>5 DEF Placed, IsMenu, MenuFields
  <2>2. m.s_scroll <= wanted /\ m.s_scroll + max > wanted /\ m.s_scroll >= 0 /\ m.s_scroll + max <= count
    BY <1>a, <1>b, <1>5 DEF saved_scroll_fits
  <2> QED BY <1>a, <1>b, <1>1, <1>2, <1>3, <1>4, <2>1, <2>2 DEF Within, Sized
<1>6. CASE ~saved_scroll_fits(m, wanted) /\ wanted < max
  <2>1. p.scroll = 0 /\ p.choice = wanted /\ p.stale = (m.first_item # 0) /\ p.first_item = m.first_item
    BY <1>a, <1>b, <1>1, <1>6 DEF Placed, IsMenu, MenuFields
  <2>2. ~p.stale => p.first_item = p.scroll BY <2>1
  <2>3. Within(p) BY <1>a, <1>b, <1>1, <1>2, <1>3, <1>4, <1>6, <2>1 DEF Within, Sized
  <2> QED BY <1>3, <1>4, <1>a, <2>2, <2>3
<1>7. CASE ~saved_scroll_fits(m, wanted) /\ ~(wanted < max)
  <2>1. p.scroll = middle /\ p.first_item = middle /\ p.choice = wanted - middle
    BY <1>a, <1>b, <1>1, <1>7 DEF Placed, IsMenu, MenuFields
  <2>2. middle \in Nat /\ wanted - middle \in Nat /\ wanted - middle < max /\ middle + max <= count
    BY <1>1, <1>2, <1>7
  <2> HIDE DEF middle
  <2> QED BY <1>a, <1>b, <1>1, <1>2, <1>3, <1>4, <2>1, <2>2 DEF Within, Sized
<1> QED BY <1>5, <1>6, <1>7

(* The window is drawn from first_item: where that is the place of the list,  *)
(* what it shows exists, and is what the variables say.                       *)
LEMMA ShownInv ==
  ASSUME NEW m, Within(m), ~m.crashed, ~m.stale => m.first_item = m.scroll, NEW p, p = Shown(m)
  PROVE  MenuInv(p)
<1>a. PICK max : max = max_choice(m) OBVIOUS
<1>b. PICK count : count = item_count(m.items) OBVIOUS
<1>1. /\ max \in Nat \ {0} /\ max <= count /\ count \in Nat \ {0} /\ IsMenu(m) /\ Sized(m)
      /\ m.s_scroll \in Int /\ m.first_item \in Int /\ m.menu_height \in Nat \ {0}
      /\ m.scroll \in Nat /\ m.choice \in Nat /\ m.choice < max /\ m.scroll + max <= count
  BY <1>a, <1>b, MaxChoice DEF Sized, Within
<1>2. CASE \E i \in 0 .. max - 1 : ~item_exists(m.items, m.first_item + i)
  <2>1. m.stale
    <3> SUFFICES ASSUME ~m.stale PROVE FALSE OBVIOUS
    <3>1. PICK i \in 0 .. max - 1 : ~item_exists(m.items, m.scroll + i) BY <1>2
    <3> QED BY <1>b, <1>1, <3>1 DEF item_exists
  <2>2. /\ IsMenu(p) /\ ~p.open /\ p.s_scroll = m.s_scroll /\ p.stale = m.stale
    BY <1>a, <1>1, <1>2 DEF Shown, IsMenu, MenuFields
  <2> QED BY <1>1, <2>1, <2>2 DEF MenuInv
<1>3. CASE ~\E i \in 0 .. max - 1 : ~item_exists(m.items, m.first_item + i)
  <2> DEFINE q == [m EXCEPT !.open = TRUE,
                     !.rows = drawn(m.menu_height, max_choice(m), m.first_item, m.choice)]
  <2>1. p = print_arrows(q) BY <1>a, <1>3 DEF Shown
  <2>2. /\ IsMenu(q) /\ q.rows = drawn(m.menu_height, max_choice(m), m.first_item, m.choice)
        /\ q.items = m.items /\ q.menu_height = m.menu_height /\ q.scroll = m.scroll
        /\ q.choice = m.choice /\ q.crashed = m.crashed /\ q.stale = m.stale
        /\ q.s_scroll = m.s_scroll /\ q.first_item = m.first_item
    BY <1>1 DEF IsMenu, MenuFields
  <2> HIDE DEF q
  <2>3. /\ IsMenu(p) /\ p.rows = drawn(m.menu_height, max_choice(m), m.first_item, m.choice)
        /\ p.items = m.items /\ p.menu_height = m.menu_height /\ p.scroll = m.scroll
        /\ p.choice = m.choice /\ p.crashed = m.crashed /\ p.stale = m.stale
        /\ p.s_scroll = m.s_scroll /\ p.first_item = m.first_item
        /\ p.up = (m.scroll > 0)
        /\ p.down = (m.menu_height < count /\ m.scroll + m.menu_height < count)
    BY <1>b, <2>1, <2>2 DEF print_arrows, IsMenu, MenuFields
  <2>4. max_choice(p) = max BY <1>a, <2>3 DEF max_choice
  <2>5. Within(p) BY <1>a, <1>b, <1>1, <2>3, <2>4 DEF Within, Sized
  <2>6. Arrowed(p) BY <1>b, <1>1, <2>3 DEF Arrowed, more_below
  <2>7. ~p.stale => Lit(p) BY <1>a, <1>1, <2>3, <2>4, DrawnCells DEF Lit
  <2> QED BY <1>1, <2>3, <2>5, <2>6, <2>7 DEF MenuInv
<1> QED BY <1>2, <1>3

LEMMA HereIn ==
  ASSUME NEW count \in Nat \ {0}, NEW here, here \subseteq 0 .. count - 1, here # {}
  PROVE  Max(here) \in 0 .. count - 1
<1>1. PICK n \in Nat : n = count - 1 OBVIOUS
<1> QED BY <1>1, MaxOf

LEMMA ResizeInv ==
  ASSUME NEW m, IsMenu(m), item_count(m.items) \in Nat \ {0}, m.s_scroll \in Int,
         m.first_item \in Int, m.choice \in 0 .. item_count(m.items) - 1, ~m.crashed,
         NEW sz, sz.lines \in Nat
  PROVE  MenuInv(do_resize(m, sz))
<1>1. CASE too_small(sz)
  <2>1. do_resize(m, sz) = [MenuClosed EXCEPT !.result = "too_small"] BY <1>1 DEF do_resize
  <2> QED BY <2>1 DEF MenuInv, MenuClosed, IsMenu, MenuFields
<1>2. CASE ~too_small(sz)
  <2>1. sz.lines - 4 - 10 \in Nat \ {0} BY <1>2 DEF too_small
  <2>2. PICK sized : sized = [m EXCEPT !.menu_height = sz.lines - 4 - 10] OBVIOUS
  <2>3. PICK here : here = IF m.selected = NULL THEN {}
                           ELSE items_with(m.items, LAMBDA it : it.data = m.selected) OBVIOUS
  <2>4. PICK wanted : wanted = IF here = {} THEN m.choice ELSE Max(here) OBVIOUS
  <2>5. do_resize(m, sz) = Shown(Placed(sized, wanted))
    BY <1>2, <2>2, <2>3, <2>4 DEF do_resize
  <2>6. /\ Sized(sized) /\ sized.items = m.items /\ sized.choice = m.choice
        /\ sized.crashed = m.crashed
    BY <2>1, <2>2 DEF Sized, IsMenu, MenuFields
  <2>7. wanted \in 0 .. item_count(sized.items) - 1
    <3>1. CASE here = {} BY <2>4, <2>6, <3>1
    <3>2. CASE here # {}
      <4>1. here \subseteq 0 .. item_count(m.items) - 1 BY <2>3, <3>2 DEF items_with
      <4>2. Max(here) \in 0 .. item_count(m.items) - 1 BY <3>2, <4>1, HereIn
      <4> QED BY <2>4, <2>6, <3>2, <4>2
    <3> QED BY <3>1, <3>2
  <2>8. PICK p : p = Placed(sized, wanted) OBVIOUS
  <2>9. Within(p) /\ ~p.crashed /\ (~p.stale => p.first_item = p.scroll)
    BY <2>6, <2>7, <2>8, PlacedWithin
  <2> QED BY <2>5, <2>8, <2>9, ShownInv
<1> QED BY <1>1, <1>2

(* A menu without items stays one, whatever the key and the size.             *)
Unmoved(p, m) ==
  /\ p.items = m.items /\ p.menu_height = m.menu_height /\ p.result = m.result
  /\ p.open = m.open /\ p.crashed = m.crashed /\ p.s_scroll = m.s_scroll

LEMMA BareFacts ==
  ASSUME NEW m, Bare(m)
  PROVE  /\ max_choice(m) = 0 /\ IsMenu(m) /\ m.scroll = 0 /\ m.choice \in {-1, 0}
         /\ item_count(m.items) = 0 /\ m.menu_height \in Nat \ {0}
         /\ \A key : hit(m, key) = 0
<1>1. /\ IsMenu(m) /\ m.scroll = 0 /\ m.choice \in {-1, 0}
      /\ item_count(m.items) = 0 /\ m.menu_height \in Nat \ {0}
  BY DEF Bare, ShowsNone
<1>2. max_choice(m) = 0 BY <1>1, MinTwo DEF max_choice
<1>3. ASSUME NEW key PROVE hit(m, key) = 0
  <2>1. {i \in 0 .. max_choice(m) - 1 : has_key(m, i, key)} = {} BY <1>2
  <2> QED BY <1>2, <2>1 DEF hit
<1> QED BY <1>1, <1>2, <1>3

LEMMA BareArrows ==
  ASSUME NEW m, IsMenu(m), item_count(m.items) = 0, m.menu_height \in Nat \ {0},
         m.first_item = 0, ~m.stale, m.scroll = 0, m.choice \in {-1, 0},
         \A r \in DOMAIN m.rows : m.rows[r] # Blank => r = 0 /\ m.rows[r].item = 0,
         NEW p, p = print_arrows(m)
  PROVE  Bare(p) /\ Unmoved(p, m)
<1>1. /\ IsMenu(p) /\ Unmoved(p, m) /\ p.choice = m.choice /\ p.scroll = m.scroll
      /\ p.first_item = m.first_item /\ p.stale = m.stale /\ p.rows = m.rows
      /\ p.up = (m.scroll > 0)
      /\ p.down = (/\ m.menu_height < item_count(m.items)
                   /\ m.scroll + m.menu_height < item_count(m.items))
  BY DEF print_arrows, IsMenu, MenuFields, Unmoved
<1>2. ~p.up /\ ~p.down
  <2>1. ~(m.scroll > 0) /\ ~(m.menu_height < item_count(m.items)) OBVIOUS
  <2> QED BY <1>1, <2>1
<1> QED BY <1>1, <1>2 DEF Bare, ShowsNone, Unmoved

LEMMA BareResize ==
  ASSUME NEW m, IsMenu(m), item_count(m.items) = 0, m.s_scroll \in Int, m.first_item = 0,
         m.choice \in {-1, 0}, ~m.crashed, NEW sz, sz.lines \in Nat
  PROVE  MenuInv(do_resize(m, sz))
<1>1. CASE too_small(sz)
  <2>1. do_resize(m, sz) = [MenuClosed EXCEPT !.result = "too_small"] BY <1>1 DEF do_resize
  <2> QED BY <2>1 DEF MenuInv, MenuClosed, IsMenu, MenuFields
<1>2. CASE ~too_small(sz)
  <2>1. sz.lines - 4 - 10 \in Nat \ {0} BY <1>2 DEF too_small
  <2>2. PICK s : s = [m EXCEPT !.menu_height = sz.lines - 4 - 10] OBVIOUS
  <2>3. /\ IsMenu(s) /\ s.items = m.items /\ s.menu_height = sz.lines - 4 - 10
        /\ s.s_scroll = m.s_scroll /\ s.first_item = 0 /\ ~s.crashed
    BY <2>2 DEF IsMenu, MenuFields
  <2>4. max_choice(s) = 0 BY <2>1, <2>3, MinTwo DEF max_choice
  <2>5. (IF m.selected = NULL THEN {} ELSE items_with(m.items, LAMBDA it : it.data = m.selected)) = {}
    <3>1. 0 .. item_count(m.items) - 1 = {} OBVIOUS
    <3> QED BY <3>1 DEF items_with
  <2>6. PICK w : w = m.choice OBVIOUS
  <2>7. do_resize(m, sz) = Shown(Placed(s, w)) BY <1>2, <2>2, <2>5, <2>6 DEF do_resize
  <2>8. ~saved_scroll_fits(s, w) BY <2>3, <2>4, <2>6 DEF saved_scroll_fits
  <2>9. PICK q : q = Placed(s, w) OBVIOUS
  <2>10. /\ IsMenu(q) /\ q.items = m.items /\ q.menu_height = sz.lines - 4 - 10 /\ ~q.crashed
         /\ q.s_scroll = m.s_scroll /\ q.scroll = 0 /\ q.first_item = 0 /\ q.choice = w /\ ~q.stale
    <3>1. CASE w = -1
      <4>1. q = [s EXCEPT !.scroll = 0, !.choice = w, !.stale = s.first_item # 0]
        BY <2>4, <2>8, <2>9, <3>1 DEF Placed
      <4> QED BY <2>3, <4>1 DEF IsMenu, MenuFields
    <3>2. CASE w = 0
      <4>1. 0 - 0 \div 2 = 0 /\ 0 - 0 = 0 OBVIOUS
      <4>2. q = [s EXCEPT !.scroll = 0, !.first_item = 0, !.choice = 0, !.stale = FALSE]
        BY <2>3, <2>4, <2>8, <2>9, <3>2, <4>1 DEF Placed
      <4> QED BY <2>3, <3>2, <4>2 DEF IsMenu, MenuFields
    <3> QED BY <2>6, <3>1, <3>2
  <2>11. max_choice(q) = 0 BY <2>3, <2>4, <2>10 DEF max_choice
  <2>12. PICK e : e = [q EXCEPT !.open = TRUE, !.rows = drawn(q.menu_height, 0, 0, w)] OBVIOUS
  <2>13. PICK p : p = Shown(q) OBVIOUS
  <2>14. p = print_arrows(e) BY <2>10, <2>11, <2>12, <2>13 DEF Shown
  <2>15. \A r \in DOMAIN e.rows : e.rows[r] = Blank
    <3>1. e.rows = drawn(q.menu_height, 0, 0, w) BY <2>10, <2>12 DEF IsMenu, MenuFields
    <3> QED BY <2>1, <2>10, <3>1 DEF drawn
  <2>16. /\ IsMenu(e) /\ e.items = m.items /\ e.menu_height = sz.lines - 4 - 10 /\ ~e.crashed
         /\ e.s_scroll = m.s_scroll /\ e.scroll = 0 /\ e.first_item = 0 /\ e.choice = w /\ ~e.stale
         /\ e.open
    BY <2>10, <2>12 DEF IsMenu, MenuFields
  <2>18. Bare(p) /\ Unmoved(p, e) BY <2>1, <2>6, <2>14, <2>15, <2>16, BareArrows
  <2>17. p.open /\ ~p.crashed /\ p.s_scroll \in Int BY <2>16, <2>18 DEF Unmoved
  <2> QED BY <2>7, <2>9, <2>13, <2>17, <2>18 DEF MenuInv, Bare
<1> QED BY <1>1, <1>2

LEMMA DialogMenuInv ==
  ASSUME NEW items, item_count(items) \in Nat, NEW selected, NEW s \in Int,
         NEW sz, sz.lines \in Nat
  PROVE  MenuInv(dialog_menu(items, selected, s, sz))
<1>1. PICK m : m = [MenuClosed EXCEPT !.items = items, !.selected = selected, !.s_scroll = s]
  OBVIOUS
<1>2. /\ IsMenu(m) /\ m.items = items /\ m.s_scroll = s /\ m.first_item = 0 /\ m.choice = 0
      /\ ~m.crashed
  BY <1>1 DEF IsMenu, MenuFields, MenuClosed
<1>3. MenuInv(do_resize(m, sz))
  <2>1. CASE item_count(items) = 0 BY <1>2, <2>1, BareResize
  <2>2. CASE item_count(items) # 0 BY <1>2, <2>2, ResizeInv
  <2> QED BY <2>1, <2>2
<1> QED BY <1>1, <1>3 DEF dialog_menu

(* Between the keys no item is highlighted. *)
Dark(m) == m.open /\ ~m.crashed /\ Within(m) /\ (~m.stale => Unlit(m))

LEMMA WithinFacts ==
  ASSUME NEW m, Within(m)
  PROVE  /\ max_choice(m) \in Nat \ {0} /\ m.menu_height \in Nat \ {0} /\ IsMenu(m)
         /\ item_count(m.items) \in Nat \ {0} /\ m.scroll \in Nat /\ m.choice \in Nat
         /\ m.choice < max_choice(m) /\ m.scroll + max_choice(m) <= item_count(m.items)
         /\ max_choice(m) <= m.menu_height
         /\ max_choice(m) < item_count(m.items) => max_choice(m) = m.menu_height
BY MaxChoice DEF Within, Sized

LEMMA WithinFrom ==
  ASSUME NEW p, NEW s \in Nat, NEW c \in Nat, NEW max \in Nat \ {0}, NEW count \in Nat,
         NEW h \in Nat \ {0}, IsMenu(p), p.scroll = s, p.choice = c, c < max, s + max <= count,
         max_choice(p) = max, item_count(p.items) = count, p.menu_height = h,
         p.s_scroll \in Int, p.first_item \in Int
  PROVE  Within(p)
BY DEF Within, Sized

LEMMA AllDark ==
  ASSUME NEW max \in Nat \ {0}, NEW s \in Nat
  PROVE  Cells(max, max, s, -1) = [r \in 0 .. max - 1 |-> DarkCell(s + r)]
BY DEF Cells

LEMMA FirstFilled ==
  ASSUME NEW s \in Nat, NEW max \in Nat \ {0},
         NEW w, w = [r \in 0 .. max - 1 |-> IF r = 0 THEN Blank ELSE DarkCell(s + (r - 1))]
PROVE  [w EXCEPT ![0] = DarkCell(s-1)] = [r \in 0 .. max - 1 |-> DarkCell(s - 1 + r)]
<1>1. \A r \in 0..max-1 : r # 0 => s + (r - 1) = s - 1 + r OBVIOUS
<1>2. s - 1 + 0 = s - 1 OBVIOUS
<1>3. 0 \in 0..max-1 OBVIOUS
<1>4. w = [r \in 0 .. max - 1 |-> IF r = 0 THEN Blank ELSE DarkCell(s - 1 + r)] BY <1>1
<1> QED BY <1>2, <1>3, <1>4

LEMMA PrintedItem ==
  ASSUME NEW m, NEW n, NEW row \in Nat, NEW on
  PROVE  print_item(m, n, row, on) = [m EXCEPT !.rows = put(@, row, n, on)]
BY DEF print_item

LEMMA ScrollsUp ==
  ASSUME NEW m, Dark(m), m.scroll > 0,
         NEW p, p = print_item(do_scroll(m, -1), m.scroll - 1, 0, FALSE)
  PROVE  Dark(p)
<1>1. PICK max \in Nat \ {0} : max = max_choice(m) BY WithinFacts DEF Dark
<1>2. PICK s \in Nat : s = m.scroll BY WithinFacts DEF Dark
<1>3. PICK count \in Nat : count = item_count(m.items) BY WithinFacts DEF Dark
<1>4. /\ IsMenu(m) /\ m.choice \in Nat /\ m.choice < max /\ s + max <= count /\ m.menu_height = max
      /\ s > 0 /\ m.s_scroll \in Int /\ m.first_item \in Int
  BY <1>1, <1>2, <1>3, WithinFacts DEF Dark, Within, Sized
<1>5. /\ IsMenu(p) /\ p.items = m.items /\ p.menu_height = max /\ p.choice = m.choice
      /\ p.scroll = s - 1 /\ p.open = m.open /\ p.crashed = m.crashed
      /\ p.stale = m.stale /\ p.s_scroll = m.s_scroll /\ p.first_item = m.first_item
      /\ p.rows = put(wscrl(m.rows, -1), 0, s - 1, FALSE)
  <2>1. PICK q : q = do_scroll(m, -1) OBVIOUS
  <2>2. p = [q EXCEPT !.rows = put(@, 0, s - 1, FALSE)]
    <3>1. p = print_item(q, s - 1, 0, FALSE) BY <1>2, <2>1
    <3> QED BY <3>1, 0 >= 0 DEF print_item
  <2> QED BY <1>2, <1>4, <2>1, <2>2 DEF do_scroll, IsMenu, MenuFields
<1>6. max_choice(p) = max /\ item_count(p.items) = count
  BY <1>1, <1>3, <1>4, <1>5 DEF max_choice
<1>7. Within(p)
  <2>1. PICK n : n = s - 1 OBVIOUS
  <2>2. n \in Nat /\ n + max <= count BY <1>2, <1>3, <1>4, <2>1
  <2>3. PICK c \in Nat : c = m.choice BY <1>4
  <2>4. p.scroll = n /\ p.choice = c /\ c < max /\ p.s_scroll \in Int /\ p.first_item \in Int
    BY <1>4, <1>5, <2>1, <2>3
  <2> QED BY <1>1, <1>5, <1>6, <2>2, <2>4, WithinFrom
<1>8. ASSUME Unlit(m) PROVE Unlit(p)
  <2>1. m.rows = [r \in 0 .. max - 1 |-> DarkCell(s + r)]
    BY <1>1, <1>2, <1>4, <1>8, AllDark DEF Unlit
  <2>2. wscrl(m.rows, -1) = [r \in 0 .. max - 1 |-> IF r = 0 THEN Blank
                               ELSE DarkCell(s + (r - 1))]
    BY <1>1, <1>2, <2>1 DEF wscrl
  <2>3. p.rows = [r \in 0 .. max - 1 |-> DarkCell(s - 1 + r)]
    <3>1. PICK w : w = wscrl(m.rows, -1) OBVIOUS
    <3>2. p.rows = [w EXCEPT ![0] = DarkCell(s - 1)] BY <1>5, <3>1 DEF put, DarkCell
    <3>3. w = [r \in 0 .. max - 1 |-> IF r = 0 THEN Blank ELSE DarkCell(s + (r - 1))]
      BY <2>2, <3>1
    <3>4. [w EXCEPT ![0] = DarkCell(s - 1)] = [r \in 0 .. max - 1 |-> DarkCell(s - 1 + r)]
      BY ONLY <1>1, <1>2, <3>3, FirstFilled
    <3> QED BY <3>2, <3>4
  <2>4. s - 1 \in Nat BY <1>2, <1>4
  <2>5. Cells(max, max, s - 1, -1) = [r \in 0 .. max - 1 |-> DarkCell(s - 1 + r)]
    BY <1>1, <2>4, AllDark
  <2> QED BY <1>5, <1>6, <2>3, <2>5 DEF Unlit
<1> QED BY <1>5, <1>7, <1>8 DEF Dark

LEMMA ScrollsDown ==
  ASSUME NEW m, Dark(m), m.scroll + max_choice(m) < item_count(m.items),
         NEW p, p = print_item(do_scroll(m, 1), m.scroll + max_choice(m), max_choice(m) - 1, FALSE)
  PROVE  Dark(p)
<1>1. PICK max \in Nat \ {0} : max = max_choice(m) BY WithinFacts DEF Dark
<1>2. PICK s \in Nat : s = m.scroll BY WithinFacts DEF Dark
<1>3. PICK count \in Nat : count = item_count(m.items) BY WithinFacts DEF Dark
<1>4. /\ IsMenu(m) /\ m.choice \in Nat /\ m.choice < max /\ s + max <= count /\ m.menu_height = max
      /\ s + max < count /\ m.s_scroll \in Int /\ m.first_item \in Int
  BY <1>1, <1>2, <1>3, WithinFacts DEF Dark, Within, Sized
<1>5. /\ IsMenu(p) /\ p.items = m.items /\ p.menu_height = max /\ p.choice = m.choice
      /\ p.scroll = s + 1 /\ p.open = m.open /\ p.crashed = m.crashed
      /\ p.stale = m.stale /\ p.s_scroll = m.s_scroll /\ p.first_item = m.first_item
      /\ p.rows = put(wscrl(m.rows, 1), max - 1, s + max, FALSE)
  <2>1. PICK q : q = do_scroll(m, 1) OBVIOUS
  <2>2. p = [q EXCEPT !.rows = put(@, max - 1, s + max, FALSE)]
    <3>1. max - 1 \in Nat BY <1>1
    <3>2. p = print_item(q, s + max, max - 1, FALSE) BY <1>1, <1>2, <2>1
    <3> QED BY <3>1, <3>2, max - 1 >= 0 DEF print_item
  <2> QED BY <1>2, <1>4, <2>1, <2>2 DEF do_scroll, IsMenu, MenuFields
<1>6. max_choice(p) = max /\ item_count(p.items) = count
  BY <1>1, <1>3, <1>4, <1>5 DEF max_choice
<1>7. Within(p)
  <2>1. PICK n : n = s + 1 OBVIOUS
  <2>2. n \in Nat /\ n + max <= count BY <1>2, <1>3, <1>4, <2>1
  <2>3. PICK c \in Nat : c = m.choice BY <1>4
  <2>4. p.scroll = n /\ p.choice = c /\ c < max /\ p.s_scroll \in Int /\ p.first_item \in Int
    BY <1>4, <1>5, <2>1, <2>3
  <2> QED BY <1>1, <1>5, <1>6, <2>2, <2>4, WithinFrom
<1>8. ASSUME Unlit(m) PROVE Unlit(p)
  <2>1. m.rows = [r \in 0 .. max - 1 |-> DarkCell(s + r)]
    BY <1>1, <1>2, <1>4, <1>8, AllDark DEF Unlit
  <2>2. wscrl(m.rows, 1) = [r \in 0 .. max - 1 |-> IF r = max - 1 THEN Blank
                               ELSE DarkCell(s + (r + 1))]
    BY <1>1, <1>2, <2>1 DEF wscrl
  <2>3. p.rows = [r \in 0 .. max - 1 |-> DarkCell(s + 1 + r)]
    <3>1. PICK w : w = wscrl(m.rows, 1) OBVIOUS
    <3>2. p.rows = [w EXCEPT ![max - 1] = DarkCell(s + max)] BY <1>5, <3>1 DEF put, DarkCell
    <3>3. w = [r \in 0 .. max - 1 |-> IF r = max - 1 THEN Blank ELSE DarkCell(s + (r + 1))]
      BY <2>2, <3>1
    <3>4. [w EXCEPT ![max - 1] = DarkCell(s + max)] = [r \in 0 .. max - 1 |-> DarkCell(s + 1 + r)]
      <4>1. ASSUME NEW r \in 0 .. max - 1
            PROVE  [w EXCEPT ![max - 1] = DarkCell(s + max)][r] = DarkCell(s + 1 + r)
        <5>1. r = max - 1 => s + 1 + r = s + max OBVIOUS
        <5>2. r # max - 1 => s + (r + 1) = s + 1 + r OBVIOUS
        <5> QED BY <3>3, <5>1, <5>2
      <4>2. [w EXCEPT ![max - 1] = DarkCell(s + max)]
              = [r \in 0 .. max - 1 |-> [w EXCEPT ![max - 1] = DarkCell(s + max)][r]]
        BY <3>3
      <4> QED BY <4>1, <4>2
    <3> QED BY <3>2, <3>4
  <2>4. s + 1 \in Nat BY <1>2, <1>4
  <2>5. Cells(max, max, s + 1, -1) = [r \in 0 .. max - 1 |-> DarkCell(s + 1 + r)]
    BY <1>1, <2>4, AllDark
  <2> QED BY <1>5, <1>6, <2>3, <2>5 DEF Unlit
<1> QED BY <1>5, <1>7, <1>8 DEF Dark

LEMMA ChoiceMoves ==
  ASSUME NEW m, Dark(m), NEW c \in 0 .. max_choice(m) - 1, NEW p, p = [m EXCEPT !.choice = c]
  PROVE  Dark(p)
<1>1. /\ IsMenu(m) /\ max_choice(m) \in Nat BY WithinFacts DEF Dark
<1>2. /\ IsMenu(p) /\ p.items = m.items /\ p.menu_height = m.menu_height /\ p.choice = c
      /\ p.scroll = m.scroll /\ p.open = m.open /\ p.crashed = m.crashed
      /\ p.stale = m.stale /\ p.s_scroll = m.s_scroll /\ p.first_item = m.first_item
      /\ p.rows = m.rows
  BY <1>1 DEF IsMenu, MenuFields
<1>3. max_choice(p) = max_choice(m) BY <1>2 DEF max_choice
<1> QED BY <1>1, <1>2, <1>3 DEF Dark, Within, Sized, Unlit

LEMMA LineUp == ASSUME NEW m, Dark(m) PROVE Dark(line_up(m))
<1>1. CASE m.choice < 2 /\ m.scroll > 0 BY <1>1, ScrollsUp DEF line_up
<1>2. CASE ~(m.choice < 2 /\ m.scroll > 0)
  <2>1. m.choice \in Nat /\ max_choice(m) \in Nat /\ m.choice < max_choice(m)
    BY WithinFacts DEF Dark
  <2>2. Max({m.choice - 1, 0}) \in 0 .. max_choice(m) - 1 BY <2>1, MaxTwo
  <2> QED BY <1>2, <2>2, ChoiceMoves DEF line_up
<1> QED BY <1>1, <1>2

LEMMA LineDown == ASSUME NEW m, Dark(m) PROVE Dark(line_down(m))
<1>1. CASE m.choice > max_choice(m) - 3 /\ m.scroll + max_choice(m) < item_count(m.items)
  BY <1>1, ScrollsDown DEF line_down
<1>2. CASE ~(m.choice > max_choice(m) - 3 /\ m.scroll + max_choice(m) < item_count(m.items))
  <2>1. m.choice \in Nat /\ max_choice(m) \in Nat \ {0} /\ m.choice < max_choice(m)
    BY WithinFacts DEF Dark
  <2>2. Min({m.choice + 1, max_choice(m) - 1}) \in 0 .. max_choice(m) - 1 BY <2>1, MinTwo
  <2> QED BY <1>2, <2>2, ChoiceMoves DEF line_down
<1> QED BY <1>1, <1>2

LEMMA PageUpStep == ASSUME NEW m, Dark(m) PROVE Dark(page_up_step(m))
<1>1. CASE m.scroll > 0 BY <1>1, ScrollsUp DEF page_up_step
<1>2. CASE ~(m.scroll > 0)
  <2>1. m.choice \in Nat /\ max_choice(m) \in Nat \ {0} /\ m.choice < max_choice(m)
    BY WithinFacts DEF Dark
  <2>2. PICK c : c = IF m.choice > 0 THEN m.choice - 1 ELSE m.choice OBVIOUS
  <2>3. c \in 0 .. max_choice(m) - 1 BY <2>1, <2>2
  <2>4. page_up_step(m) = [m EXCEPT !.choice = c] BY <1>2, <2>2 DEF page_up_step
  <2> QED BY <2>3, <2>4, ChoiceMoves
<1> QED BY <1>1, <1>2

LEMMA PageDownStep == ASSUME NEW m, Dark(m) PROVE Dark(page_down_step(m))
<1>1. CASE m.scroll + max_choice(m) < item_count(m.items)
  BY <1>1, ScrollsDown DEF page_down_step
<1>2. CASE ~(m.scroll + max_choice(m) < item_count(m.items))
  <2>1. m.choice \in Nat /\ max_choice(m) \in Nat \ {0} /\ m.choice < max_choice(m)
    BY WithinFacts DEF Dark
  <2>2. PICK c : c = IF m.choice + 1 < max_choice(m) THEN m.choice + 1 ELSE m.choice OBVIOUS
  <2>3. c \in 0 .. max_choice(m) - 1 BY <2>1, <2>2
  <2>4. page_down_step(m) = [m EXCEPT !.choice = c] BY <1>2, <2>2 DEF page_down_step
  <2> QED BY <2>3, <2>4, ChoiceMoves
<1> QED BY <1>1, <1>2

(* What KEY_PPAGE and KEY_NPAGE do to the list: one of the two steps, as      *)
(* often as the window has rows.                                              *)
PageStep(up, m) == IF up THEN page_up_step(m) ELSE page_down_step(m)
Pages(f, up, m, n) == f = [i \in 0 .. n |-> IF i = 0 THEN m ELSE PageStep(up, f[i - 1])]

LEMMA PagesExist ==
  ASSUME NEW m, NEW up \in BOOLEAN, NEW n \in Nat PROVE \E f : Pages(f, up, m, n)
<1> DEFINE S == {k \in Nat : \E f : Pages(f, up, m, k)}
<1>1. 0 \in S
  <2>1. Pages([i \in 0 .. 0 |-> m], up, m, 0) BY DEF Pages
  <2> QED BY <2>1
<1>2. ASSUME NEW k \in Nat, k \in S PROVE k + 1 \in S
  <2>1. PICK f : Pages(f, up, m, k) BY <1>2
  <2> DEFINE g == [i \in 0 .. k + 1 |-> IF i = k + 1 THEN PageStep(up, f[k]) ELSE f[i]]
  <2>2. DOMAIN f = 0 .. k /\ \A i \in 0 .. k : f[i] = IF i = 0 THEN m ELSE PageStep(up, f[i - 1])
    BY <2>1 DEF Pages
  <2>3. ASSUME NEW i \in 0 .. k + 1 PROVE g[i] = IF i = 0 THEN m ELSE PageStep(up, g[i - 1])
    <3>1. CASE i = k + 1
      <4>1. i # 0 /\ i - 1 = k /\ k \in 0 .. k + 1 /\ k # k + 1 BY <3>1
      <4> QED BY <3>1, <4>1
    <3>2. CASE i # k + 1
      <4>1. i \in 0 .. k /\ (i # 0 => i - 1 \in 0 .. k + 1 /\ i - 1 # k + 1) BY <3>2
      <4> QED BY <2>2, <3>2, <4>1
    <3> QED BY <3>1, <3>2
  <2>4. g = [i \in 0 .. k + 1 |-> g[i]] OBVIOUS
  <2> HIDE DEF g
  <2>5. Pages(g, up, m, k + 1) BY <2>3, <2>4 DEF Pages
  <2> QED BY <2>5
<1>3. Nat \subseteq S
  <2> HIDE DEF S
  <2> QED BY <1>1, <1>2, UpFromZero
<1> QED BY <1>3

LEMMA PagesDark ==
  ASSUME NEW m, Dark(m), NEW up \in BOOLEAN, NEW n \in Nat, NEW f, Pages(f, up, m, n)
  PROVE  Dark(f[n])
<1> DEFINE S == {k \in Nat : k > n \/ Dark(f[k])}
<1>1. DOMAIN f = 0 .. n /\ \A i \in 0 .. n : f[i] = IF i = 0 THEN m ELSE PageStep(up, f[i - 1])
  BY DEF Pages
<1>2. 0 \in S BY <1>1
<1>3. ASSUME NEW k \in Nat, k \in S PROVE k + 1 \in S
  <2>1. CASE k + 1 > n BY <2>1
  <2>2. CASE k + 1 <= n
    <3>1. k + 1 \in 0 .. n /\ (k + 1) - 1 = k /\ k + 1 # 0 BY <2>2
    <3>2. Dark(f[k]) BY <1>3, <2>2
    <3>3. f[k + 1] = PageStep(up, f[k]) BY <1>1, <3>1
    <3>4. Dark(f[k + 1]) BY <3>2, <3>3, PageUpStep, PageDownStep DEF PageStep
    <3> QED BY <3>4
  <2> QED BY <2>1, <2>2
<1>4. Nat \subseteq S
  <2> HIDE DEF S
  <2> QED BY <1>2, <1>3, UpFromZero
<1> QED BY <1>4

LEMMA PageUpDark == ASSUME NEW m, Dark(m) PROVE Dark(page(m, page_up_step))
<1>1. PICK n \in Nat : n = max_choice(m) BY WithinFacts DEF Dark
<1>2. PICK f : f = CHOOSE g : Pages(g, TRUE, m, n) OBVIOUS
<1>3. Pages(f, TRUE, m, n) BY <1>2, PagesExist
<1>4. page(m, page_up_step) = f[n]
  <2>1. page(m, page_up_step) = (CHOOSE g : g = [i \in 0 .. max_choice(m) |->
          IF i = 0 THEN m ELSE page_up_step(g[i - 1])])[max_choice(m)] BY DEF page
  <2> QED BY <1>1, <1>2, <2>1 DEF Pages, PageStep
<1> QED BY <1>3, <1>4, PagesDark

LEMMA PageDownDark == ASSUME NEW m, Dark(m) PROVE Dark(page(m, page_down_step))
<1>1. PICK n \in Nat : n = max_choice(m) BY WithinFacts DEF Dark
<1>2. PICK f : f = CHOOSE g : Pages(g, FALSE, m, n) OBVIOUS
<1>3. Pages(f, FALSE, m, n) BY <1>2, PagesExist
<1>4. page(m, page_down_step) = f[n]
  <2>1. page(m, page_down_step) = (CHOOSE g : g = [i \in 0 .. max_choice(m) |->
          IF i = 0 THEN m ELSE page_down_step(g[i - 1])])[max_choice(m)] BY DEF page
  <2> QED BY <1>1, <1>2, <2>1 DEF Pages, PageStep
<1> QED BY <1>3, <1>4, PagesDark

LEMMA HitIn ==
  ASSUME NEW m, max_choice(m) \in Nat, m.choice \in Nat, NEW key
  PROVE  hit(m, key) \in 0 .. max_choice(m)
<1>1. PICK below : below = {i \in m.choice + 1 .. max_choice(m) - 1 : has_key(m, i, key)} OBVIOUS
<1>2. PICK all : all = {i \in 0 .. max_choice(m) - 1 : has_key(m, i, key)} OBVIOUS
<1>3. hit(m, key) = IF key \in exempt \/ all = {} THEN max_choice(m)
                    ELSE IF below # {} THEN Min(below) ELSE Min(all)
  BY <1>1, <1>2 DEF hit
<1>4. below # {} => Min(below) \in below
  <2>1. below \subseteq Nat BY <1>1
  <2> QED BY <2>1, MinOf
<1>5. all # {} => Min(all) \in all BY <1>2, MinOf
<1> QED BY <1>1, <1>2, <1>3, <1>4, <1>5

LEMMA HitSame ==
  ASSUME NEW m, NEW p, NEW key, p.items = m.items, p.menu_height = m.menu_height,
         p.scroll = m.scroll, p.choice = m.choice
  PROVE  hit(p, key) = hit(m, key) /\ max_choice(p) = max_choice(m)
<1>1. max_choice(p) = max_choice(m) BY DEF max_choice
<1>2. \A i : has_key(p, i, key) = has_key(m, i, key) BY DEF has_key
<1>3. {i \in p.choice + 1 .. max_choice(p) - 1 : has_key(p, i, key)}
        = {i \in m.choice + 1 .. max_choice(m) - 1 : has_key(m, i, key)} BY <1>1, <1>2
<1>4. {i \in 0 .. max_choice(p) - 1 : has_key(p, i, key)}
        = {i \in 0 .. max_choice(m) - 1 : has_key(m, i, key)} BY <1>1, <1>2
<1> QED BY <1>1, <1>3, <1>4 DEF hit

LEMMA MovedDark ==
  ASSUME NEW m, Dark(m), NEW key, key \in Arrows \/ hit(m, key) < max_choice(m)
  PROVE  Dark(moved(m, key))
<1>1. CASE key \in {"KEY_UP", "-"} BY <1>1, LineUp DEF moved
<1>2. CASE key \in {"KEY_DOWN", "+"} BY <1>2, LineDown DEF moved
<1>3. CASE key = "KEY_PPAGE" BY <1>3, PageUpDark DEF moved
<1>4. CASE key = "KEY_NPAGE" BY <1>4, PageDownDark DEF moved
<1>5. CASE key \notin Arrows
  <2>1. moved(m, key) = [m EXCEPT !.choice = hit(m, key)] BY <1>5 DEF moved, Arrows
  <2>2. m.choice \in Nat /\ max_choice(m) \in Nat BY WithinFacts DEF Dark
  <2>3. hit(m, key) \in 0 .. max_choice(m) /\ hit(m, key) < max_choice(m) BY <1>5, <2>2, HitIn
  <2>4. hit(m, key) \in 0 .. max_choice(m) - 1 BY <2>2, <2>3
  <2> QED BY <2>1, <2>4, ChoiceMoves
<1> QED BY <1>1, <1>2, <1>3, <1>4, <1>5 DEF Arrows

LEMMA LitFields ==
  ASSUME NEW m, IsMenu(m), NEW on \in BOOLEAN, NEW p, p = lit(m, on)
  PROVE  /\ IsMenu(p) /\ p.items = m.items /\ p.menu_height = m.menu_height
         /\ p.choice = m.choice /\ p.scroll = m.scroll /\ p.open = m.open /\ p.crashed = m.crashed
         /\ p.stale = m.stale /\ p.s_scroll = m.s_scroll /\ p.first_item = m.first_item
         /\ m.choice \in Nat => p.rows = put(m.rows, m.choice, m.scroll + m.choice, on)
         /\ max_choice(p) = max_choice(m)
<1>1. PICK rows : p = [m EXCEPT !.rows = rows] BY DEF lit, print_item
<1>2. /\ IsMenu(p) /\ p.items = m.items /\ p.menu_height = m.menu_height
      /\ p.choice = m.choice /\ p.scroll = m.scroll /\ p.open = m.open /\ p.crashed = m.crashed
      /\ p.stale = m.stale /\ p.s_scroll = m.s_scroll /\ p.first_item = m.first_item
  BY <1>1 DEF IsMenu, MenuFields
<1>3. max_choice(p) = max_choice(m) BY <1>2 DEF max_choice
<1>4. ASSUME m.choice \in Nat PROVE p.rows = put(m.rows, m.choice, m.scroll + m.choice, on)
  <2>1. p = [m EXCEPT !.rows = put(@, m.choice, m.scroll + m.choice, on)]
    BY <1>4, PrintedItem DEF lit
  <2> QED BY <2>1 DEF IsMenu, MenuFields
<1> QED BY <1>2, <1>3, <1>4

LEMMA CellDarkens ==
  ASSUME NEW h \in Nat, NEW max \in Nat, NEW s \in Nat, NEW c \in Nat, c < max, max <= h
  PROVE  [Cells(h, max, s, c) EXCEPT ![c] = DarkCell(s + c)] = Cells(h, max, s, -1)
<1>1. PICK a : a = Cells(h, max, s, c) OBVIOUS
<1>2. PICK b : b = Cells(h, max, s, -1) OBVIOUS
<1>3. c \in 0 .. h - 1 OBVIOUS
<1>4. ASSUME NEW r \in 0 .. h - 1 PROVE [a EXCEPT ![c] = DarkCell(s + c)][r] = b[r]
  BY <1>1, <1>2, <1>3 DEF Cells
<1>5. [a EXCEPT ![c] = DarkCell(s + c)]
        = [r \in 0 .. h - 1 |-> [a EXCEPT ![c] = DarkCell(s + c)][r]] BY <1>1 DEF Cells
<1>6. b = [r \in 0 .. h - 1 |-> b[r]] BY <1>2 DEF Cells
<1>7. [a EXCEPT ![c] = DarkCell(s + c)] = b BY <1>4, <1>5, <1>6
<1> QED BY <1>1, <1>2, <1>7

LEMMA Unlights ==
  ASSUME NEW m, MenuInv(m), m.open, item_count(m.items) # 0
  PROVE  Dark(lit(m, FALSE))
<1>1. PICK p : p = lit(m, FALSE) OBVIOUS
<1>2. Within(m) /\ m.open /\ ~m.crashed /\ IsMenu(m) /\ (~m.stale => Lit(m)) BY HasItems
<1>3. Within(p)
  BY <1>1, <1>2, LitFields DEF Within, Sized
<1>4. ASSUME Lit(m) PROVE Unlit(p)
  <2>1. PICK max \in Nat : max = max_choice(m) BY <1>2, WithinFacts
  <2>2. PICK h \in Nat : h = m.menu_height BY <1>2, WithinFacts
  <2>3. PICK s \in Nat : s = m.scroll BY <1>2, WithinFacts
  <2>4. PICK c \in Nat : c = m.choice BY <1>2, WithinFacts
  <2>5. c < max /\ max <= h BY <1>2, <2>1, <2>2, <2>4, WithinFacts
  <2>6. p.rows = [m.rows EXCEPT ![c] = DarkCell(s + c)]
    <3>1. p.rows = put(m.rows, c, s + c, FALSE) BY <1>1, <1>2, <2>3, <2>4, LitFields
    <3> QED BY <3>1 DEF put, DarkCell
  <2>7. m.rows = Cells(h, max, s, c) BY <1>4, <2>1, <2>2, <2>3, <2>4 DEF Lit
  <2>8. [Cells(h, max, s, c) EXCEPT ![c] = DarkCell(s + c)] = Cells(h, max, s, -1)
    BY ONLY <2>1, <2>2, <2>3, <2>4, <2>5, CellDarkens
  <2>9. Cells(p.menu_height, max_choice(p), p.scroll, -1) = Cells(h, max, s, -1)
    BY <1>1, <1>2, <2>1, <2>2, <2>3, LitFields
  <2> QED BY <2>6, <2>7, <2>8, <2>9 DEF Unlit
<1>5. p.open /\ ~p.crashed /\ p.stale = m.stale
  <2>1. p.open = m.open /\ p.crashed = m.crashed /\ p.stale = m.stale BY <1>1, <1>2, LitFields
  <2> QED BY <1>2, <2>1
<1> QED BY <1>1, <1>2, <1>3, <1>4, <1>5 DEF Dark

LEMMA Lights ==
  ASSUME NEW m, Dark(m)
  PROVE  MenuInv(print_arrows(lit(m, TRUE)))
<1>1. PICK p : p = lit(m, TRUE) OBVIOUS
<1>2. Within(m) /\ ~m.crashed /\ m.open /\ IsMenu(m) /\ m.s_scroll \in Int
  BY WithinFacts DEF Dark, Within, Sized
<1>3. Within(p)
  BY <1>1, <1>2, LitFields DEF Within, Sized
<1>4. ASSUME Unlit(m) PROVE Lit(p)
  <2>1. PICK max \in Nat : max = max_choice(m) BY <1>2, WithinFacts
  <2>2. PICK h \in Nat : h = m.menu_height BY <1>2, WithinFacts
  <2>3. PICK s \in Nat : s = m.scroll BY <1>2, WithinFacts
  <2>4. PICK c \in Nat : c = m.choice BY <1>2, WithinFacts
  <2>5. c < max /\ max <= h BY <1>2, <2>1, <2>2, <2>4, WithinFacts
  <2>6. p.rows = [m.rows EXCEPT ![c] = LitCell(s + c)]
    <3>1. p.rows = put(m.rows, c, s + c, TRUE) BY <1>1, <1>2, <2>3, <2>4, LitFields
    <3> QED BY <3>1 DEF put, LitCell
  <2>7. m.rows = Cells(h, max, s, -1) BY <1>4, <2>1, <2>2, <2>3, <2>4 DEF Unlit
  <2>8. [m.rows EXCEPT ![c] = LitCell(s + c)] = Cells(h, max, s, c)
    <3>1. PICK a : a = m.rows OBVIOUS
    <3>2. PICK b : b = Cells(h, max, s, c) OBVIOUS
    <3>3. c \in 0 .. h - 1 BY <2>5
    <3>4. a = Cells(h, max, s, -1) BY <2>7, <3>1
    <3>5. ASSUME NEW r \in 0 .. h - 1 PROVE [a EXCEPT ![c] = LitCell(s + c)][r] = b[r]
      BY ONLY <2>1, <2>2, <2>3, <2>4, <2>5, <3>2, <3>3, <3>4, <3>5 DEF Cells
    <3>6. [a EXCEPT ![c] = LitCell(s + c)]
            = [r \in 0 .. h - 1 |-> [a EXCEPT ![c] = LitCell(s + c)][r]] BY <3>4 DEF Cells
    <3>7. b = [r \in 0 .. h - 1 |-> b[r]] BY <3>2 DEF Cells
    <3>8. [a EXCEPT ![c] = LitCell(s + c)] = b BY <3>5, <3>6, <3>7
    <3> QED BY <3>1, <3>2, <3>8
  <2>9. Cells(p.menu_height, max_choice(p), p.scroll, p.choice) = Cells(h, max, s, c)
    BY <1>1, <1>2, <2>1, <2>2, <2>3, <2>4, LitFields
  <2> QED BY <2>6, <2>7, <2>8, <2>9 DEF Lit
<1>5. p.open /\ ~p.crashed /\ p.stale = m.stale /\ (~m.stale => Lit(p)) /\ IsMenu(p) /\ p.s_scroll \in Int
  <2>1. /\ p.open = m.open /\ p.crashed = m.crashed /\ p.stale = m.stale /\ p.s_scroll = m.s_scroll
        /\ IsMenu(p)
    BY <1>1, <1>2, LitFields
  <2>2. ~m.stale => Unlit(m) BY DEF Dark
  <2> QED BY <1>2, <1>4, <2>1, <2>2
<1>6. PICK q : q = print_arrows(p) OBVIOUS
<1>7. /\ IsMenu(q) /\ q.items = p.items /\ q.menu_height = p.menu_height
      /\ q.choice = p.choice /\ q.scroll = p.scroll /\ q.open = p.open /\ q.crashed = p.crashed
      /\ q.stale = p.stale /\ q.s_scroll = p.s_scroll /\ q.first_item = p.first_item
      /\ q.rows = p.rows
      /\ q.up = (p.scroll > 0)
      /\ q.down = (p.menu_height < item_count(p.items) /\ p.scroll + p.menu_height < item_count(p.items))
  BY <1>5, <1>6 DEF print_arrows, IsMenu, MenuFields
<1>8. max_choice(q) = max_choice(p) BY <1>7 DEF max_choice
<1>9. Within(q) BY <1>3, <1>7, <1>8 DEF Within, Sized
<1>10. Arrowed(q)
  <2>1. p.scroll \in Nat /\ p.menu_height \in Nat /\ item_count(p.items) \in Nat
    BY <1>3, WithinFacts
  <2>2. (p.menu_height < item_count(p.items) /\ p.scroll + p.menu_height < item_count(p.items))
          <=> p.scroll + p.menu_height < item_count(p.items) BY <2>1
  <2> QED BY <1>7, <2>1, <2>2 DEF Arrowed, more_below
<1>11. Lit(p) => Lit(q) BY <1>7, <1>8 DEF Lit
<1> QED BY <1>1, <1>5, <1>6, <1>7, <1>9, <1>10, <1>11 DEF MenuInv

LEMMA BareLit ==
  ASSUME NEW m, Bare(m), NEW on, NEW p, p = lit(m, on)
  PROVE  Bare(p) /\ Unmoved(p, m) /\ p.choice = m.choice
<1>1. IsMenu(m) /\ m.scroll = 0 /\ m.choice \in {-1, 0} BY BareFacts
<1>2. /\ IsMenu(p) /\ Unmoved(p, m) /\ p.choice = m.choice /\ p.scroll = m.scroll /\ p.up = m.up
      /\ p.down = m.down /\ p.first_item = m.first_item /\ p.stale = m.stale
      /\ p.rows = IF m.choice >= 0 THEN put(m.rows, m.choice, m.scroll + m.choice, on) ELSE m.rows
  BY <1>1 DEF lit, print_item, IsMenu, MenuFields, Unmoved
<1>3. ASSUME NEW r \in DOMAIN p.rows, p.rows[r] # Blank PROVE r = 0 /\ p.rows[r].item = 0
  <2>1. \A x \in DOMAIN m.rows : m.rows[x] # Blank => x = 0 /\ m.rows[x].item = 0
    BY DEF Bare, ShowsNone
  <2>2. CASE m.choice = -1 BY <1>2, <1>3, <2>1, <2>2
  <2>3. CASE m.choice = 0
    <3>1. p.rows = [m.rows EXCEPT ![0] = [item |-> 0, lit |-> on]] BY <1>1, <1>2, <2>3 DEF put
    <3> QED BY <1>3, <2>1, <3>1
  <2> QED BY <1>1, <2>2, <2>3
<1> QED BY <1>1, <1>2, <1>3 DEF Bare, ShowsNone, Unmoved

LEMMA BareMoved ==
  ASSUME NEW m, Bare(m), NEW key \in Arrows, NEW p, p = moved(m, key)
  PROVE  Bare(p) /\ Unmoved(p, m)
<1>1. /\ max_choice(m) = 0 /\ IsMenu(m) /\ m.scroll = 0 /\ m.choice \in {-1, 0}
      /\ item_count(m.items) = 0
  BY BareFacts
<1>2. ASSUME NEW c \in {-1, 0}, p = [m EXCEPT !.choice = c] PROVE Bare(p) /\ Unmoved(p, m)
  BY <1>1, <1>2 DEF Bare, ShowsNone, Unmoved, IsMenu, MenuFields
<1>3. CASE key \in {"KEY_UP", "-"}
  <2>1. Max({m.choice - 1, 0}) = 0 BY <1>1, MaxTwo
  <2>2. p = [m EXCEPT !.choice = 0] BY <1>1, <1>3, <2>1 DEF moved, line_up
  <2> QED BY <1>2, <2>2
<1>4. CASE key \in {"KEY_DOWN", "+"}
  <2>1. Min({m.choice + 1, -1}) = -1 BY <1>1, MinTwo
  <2>2. ~(m.scroll + max_choice(m) < item_count(m.items)) /\ max_choice(m) - 1 = -1 BY <1>1
  <2>3. p = [m EXCEPT !.choice = -1] BY <1>4, <2>1, <2>2 DEF moved, line_down
  <2> QED BY <1>2, <2>3
<1>5. page(m, page_up_step) = m
  <2>1. PICK n : n = max_choice(m) /\ n = 0 BY <1>1
  <2>2. PICK f : f = CHOOSE g : Pages(g, TRUE, m, n) OBVIOUS
  <2>3. Pages(f, TRUE, m, n) BY <2>1, <2>2, PagesExist
  <2>4. page(m, page_up_step) = f[n]
    <3>1. page(m, page_up_step) = (CHOOSE g : g = [i \in 0 .. max_choice(m) |->
            IF i = 0 THEN m ELSE page_up_step(g[i - 1])])[max_choice(m)] BY DEF page
    <3> QED BY <2>1, <2>2, <3>1 DEF Pages, PageStep
  <2>5. f[0] = m BY <2>1, <2>3 DEF Pages
  <2> QED BY <2>1, <2>4, <2>5
<1>6. page(m, page_down_step) = m
  <2>1. PICK n : n = max_choice(m) /\ n = 0 BY <1>1
  <2>2. PICK f : f = CHOOSE g : Pages(g, FALSE, m, n) OBVIOUS
  <2>3. Pages(f, FALSE, m, n) BY <2>1, <2>2, PagesExist
  <2>4. page(m, page_down_step) = f[n]
    <3>1. page(m, page_down_step) = (CHOOSE g : g = [i \in 0 .. max_choice(m) |->
            IF i = 0 THEN m ELSE page_down_step(g[i - 1])])[max_choice(m)] BY DEF page
    <3> QED BY <2>1, <2>2, <3>1 DEF Pages, PageStep
  <2>5. f[0] = m BY <2>1, <2>3 DEF Pages
  <2> QED BY <2>1, <2>4, <2>5
<1>7. CASE key \in {"KEY_PPAGE", "KEY_NPAGE"}
  <2>1. p = m BY <1>5, <1>6, <1>7 DEF moved
  <2> QED BY <2>1 DEF Unmoved
<1> QED BY <1>3, <1>4, <1>7 DEF Arrows

LEMMA BareMoves ==
  ASSUME NEW k, Bare(menu), MenuMove(k) PROVE Bare(menu') /\ Unmoved(menu', menu)
<1>1. PICK d : d = lit(menu, FALSE) OBVIOUS
<1>2. PICK p : p = moved(d, k) OBVIOUS
<1>3. PICK q : q = lit(p, TRUE) OBVIOUS
<1>4. PICK n : n = menu' OBVIOUS
<1>5. k \in Arrows /\ n = print_arrows(q) BY <1>1, <1>2, <1>3, <1>4, BareFacts DEF MenuMove
<1>6. Bare(d) /\ Unmoved(d, menu) BY <1>1, BareLit
<1>7. Bare(p) /\ Unmoved(p, d) BY <1>2, <1>5, <1>6, BareMoved
<1>8. Bare(q) /\ Unmoved(q, p) BY <1>3, <1>7, BareLit
<1>9. Bare(n) /\ Unmoved(n, q) BY <1>5, <1>8, BareArrows DEF Bare, ShowsNone
<1> QED BY <1>4, <1>6, <1>7, <1>8, <1>9 DEF Unmoved

(* Every key of the menu box, and a change of size. *)
LEMMA MenuKeyInv == ASSUME NEW k, NEW f, MenuInv(menu), MenuKey(k, f) PROVE MenuInv(menu')
<1>5. CASE MenuMove(k) /\ item_count(menu.items) = 0
  <2>1. Bare(menu) /\ ~menu.crashed /\ menu.open /\ menu.s_scroll \in Int
    BY <1>5, HasNone DEF MenuMove
  <2>2. Bare(menu') /\ Unmoved(menu', menu) BY <1>5, <2>1, BareMoves
  <2>3. MenuInv(menu')
    <3> PICK n : n = menu' OBVIOUS
    <3>1. Bare(n) /\ ~n.crashed /\ n.open /\ n.s_scroll \in Int BY <2>1, <2>2 DEF Unmoved
    <3>2. MenuInv(n) BY <3>1 DEF MenuInv, Bare
    <3> QED BY <3>2
  <2> QED BY <2>3
<1>1. CASE MenuMove(k) /\ item_count(menu.items) # 0
  <2>1. PICK d : d = lit(menu, FALSE) OBVIOUS
  <2>2. menu.open /\ menu' = print_arrows(lit(moved(d, k), TRUE))
    BY <1>1, <2>1 DEF MenuMove
  <2>3. Dark(d) BY <1>1, <2>1, <2>2, Unlights
  <2>4. hit(d, k) = hit(menu, k) /\ max_choice(d) = max_choice(menu)
    <3>1. IsMenu(menu) BY DEF MenuInv
    <3>2. /\ d.items = menu.items /\ d.menu_height = menu.menu_height /\ d.choice = menu.choice
          /\ d.scroll = menu.scroll
      BY <2>1, <3>1, LitFields
    <3> QED BY <3>2, HitSame
  <2>5. k \in Arrows \/ hit(d, k) < max_choice(d) BY <1>1, <2>4 DEF MenuMove
  <2> QED BY <2>2, <2>3, <2>5, MovedDark, Lights
<1>2. CASE MenuButton(k)
  <2>1. PICK b : menu' = [menu EXCEPT !.button = b] BY <1>2 DEF MenuButton
  <2>2. IsMenu(menu) BY DEF MenuInv
  <2>3. /\ IsMenu(menu') /\ menu'.items = menu.items /\ menu'.menu_height = menu.menu_height
        /\ menu'.choice = menu.choice /\ menu'.scroll = menu.scroll /\ menu'.open = menu.open
        /\ menu'.crashed = menu.crashed /\ menu'.stale = menu.stale /\ menu'.rows = menu.rows
        /\ menu'.s_scroll = menu.s_scroll /\ menu'.first_item = menu.first_item
        /\ menu'.up = menu.up /\ menu'.down = menu.down
    BY <2>1, <2>2 DEF IsMenu, MenuFields
  <2>4. max_choice(menu') = max_choice(menu) BY <2>3 DEF max_choice
  <2>5. Within(menu) => Within(menu') BY <2>3, <2>4 DEF Within, Sized
  <2>6. (Lit(menu) => Lit(menu')) /\ (Arrowed(menu) => Arrowed(menu'))
    BY <2>3, <2>4 DEF Lit, Arrowed, more_below
  <2>7. Bare(menu) => Bare(menu') BY <2>3 DEF Bare, ShowsNone
  <2> QED BY <2>3, <2>5, <2>6, <2>7 DEF MenuInv
<1>3. CASE MenuSelect(k)
  <2>1. menu.open /\ menu.scroll \in Int
    BY <1>3, BareFacts, WithinFacts DEF MenuSelect, Free, MenuInv
  <2>2. IsMenu(menu') /\ ~menu'.open /\ ~menu'.crashed /\ menu'.s_scroll = menu.scroll
    BY <1>3 DEF MenuSelect, MenuClosed, IsMenu, MenuFields
  <2> QED BY <2>1, <2>2 DEF MenuInv
<1>4. CASE MenuEscape(k, f)
  <2>1. menu' = [MenuClosed EXCEPT !.result = "KEY_ESC"] BY <1>4 DEF MenuEscape
  <2>2. IsMenu(menu') /\ ~menu'.open /\ ~menu'.crashed /\ menu'.s_scroll = 0
    BY <2>1 DEF MenuClosed, IsMenu, MenuFields
  <2> QED BY <2>2 DEF MenuInv
<1> QED BY <1>1, <1>2, <1>3, <1>4, <1>5 DEF MenuKey

LEMMA MenuResizeInv ==
  ASSUME NEW sz, sz.lines \in Nat, MenuInv(menu), MenuResize(sz) PROVE MenuInv(menu')
<1>1. menu.open /\ menu' = do_resize(menu, sz) BY DEF MenuResize
<1>4. CASE item_count(menu.items) = 0
  <2>1. Bare(menu) /\ ~menu.crashed /\ menu.s_scroll \in Int BY <1>1, <1>4, HasNone
  <2> QED BY <1>1, <1>4, <2>1, BareResize DEF Bare, ShowsNone
<1>5. SUFFICES ASSUME item_count(menu.items) # 0 PROVE MenuInv(menu') BY <1>4
<1>2. Within(menu) /\ ~menu.crashed /\ IsMenu(menu) BY <1>1, <1>5, HasItems
<1>3. /\ item_count(menu.items) \in Nat \ {0} /\ menu.s_scroll \in Int /\ menu.first_item \in Int
      /\ menu.choice \in 0 .. item_count(menu.items) - 1
  <2>1. /\ max_choice(menu) \in Nat /\ menu.choice \in Nat /\ menu.choice < max_choice(menu)
        /\ menu.scroll \in Nat /\ menu.scroll + max_choice(menu) <= item_count(menu.items)
        /\ item_count(menu.items) \in Nat \ {0}
    BY <1>2, WithinFacts
  <2> QED BY <1>2, <2>1 DEF Within, Sized
<1> QED BY <1>1, <1>2, <1>3, ResizeInv

-----------------------------------------------------------------------------
(* The list of a choice. *)
ListFields == {"open", "items", "scroll", "choice", "button", "rows", "up", "down", "redrawn",
               "result", "chosen"}
IsList(b) == b = [f \in ListFields |-> b[f]]
ListWithin(b) ==
  /\ IsList(b) /\ item_count(b.items) \in Nat \ {0} /\ b.scroll \in Nat /\ b.choice \in Nat
  /\ b.choice < list_max(b) /\ b.scroll + list_max(b) <= item_count(b.items)
ListLit(b) == b.rows = Cells(ListHeight, list_max(b), b.scroll, b.choice)
ListArrowed(b) ==
  /\ b.up = (b.scroll > 0)
  /\ more_below(b, ListHeight) => b.down
  /\ b.down /\ ~b.redrawn => more_below(b, ListHeight)
ListInv(b) == IsList(b) /\ (b.open => ListWithin(b) /\ ListLit(b) /\ ListArrowed(b))

LEMMA ListMax ==
  ASSUME NEW b, item_count(b.items) \in Nat \ {0}
  PROVE  /\ list_max(b) \in Nat \ {0} /\ list_max(b) <= ListHeight
         /\ list_max(b) <= item_count(b.items)
         /\ list_max(b) < item_count(b.items) => list_max(b) = ListHeight
         /\ list_max(b) < ListHeight => list_max(b) = item_count(b.items)
         /\ ListHeight \in Nat \ {0}
BY MinTwo, ListHeightAssumption DEF list_max

LEMMA ListFacts ==
  ASSUME NEW b, ListWithin(b)
  PROVE  /\ list_max(b) \in Nat \ {0} /\ list_max(b) <= ListHeight
         /\ list_max(b) <= item_count(b.items)
         /\ list_max(b) < item_count(b.items) => list_max(b) = ListHeight
         /\ list_max(b) < ListHeight => list_max(b) = item_count(b.items)
         /\ ListHeight \in Nat \ {0} /\ item_count(b.items) \in Nat \ {0}
         /\ b.scroll \in Nat /\ b.choice \in Nat /\ b.choice < list_max(b)
         /\ b.scroll + list_max(b) <= item_count(b.items) /\ IsList(b)
BY ListMax DEF ListWithin

LEMMA ListWithinFrom ==
  ASSUME NEW p, NEW s \in Nat, NEW c \in Nat, NEW max \in Nat \ {0}, NEW count \in Nat,
         IsList(p), p.scroll = s, p.choice = c, c < max, s + max <= count,
         list_max(p) = max, item_count(p.items) = count
  PROVE  ListWithin(p)
BY DEF ListWithin

LEMMA ArrowsFields ==
  ASSUME NEW b, IsList(b), NEW p, p = list_arrows(b)
  PROVE  /\ IsList(p) /\ p.items = b.items /\ p.scroll = b.scroll /\ p.choice = b.choice
         /\ p.open = b.open /\ p.rows = b.rows /\ p.redrawn = b.redrawn
         /\ p.up = (b.scroll > 0)
         /\ p.down = (/\ ListHeight < item_count(b.items)
                      /\ b.scroll + b.choice < item_count(b.items) - 1)
         /\ list_max(p) = list_max(b)
BY DEF list_arrows, IsList, ListFields, list_max

LEMMA FirstChoiceIn ==
  ASSUME NEW items, item_count(items) \in Nat \ {0}
  PROVE  first_choice(items) \in 0 .. item_count(items) - 1
<1>1. PICK active : active = items_with(items, LAMBDA it : it.selected) OBVIOUS
<1>2. PICK set : set = items_with(items, LAMBDA it : it.tag = "X") OBVIOUS
<1>3. PICK n \in Nat : n = item_count(items) - 1 OBVIOUS
<1>4. active \subseteq 0 .. n BY <1>1, <1>3 DEF items_with
<1>5. set \subseteq 0 .. n BY <1>2, <1>3 DEF items_with
<1>6. first_choice(items) = IF active # {} THEN Min(active) ELSE IF set # {} THEN Max(set) ELSE 0
  BY <1>1, <1>2 DEF first_choice
<1>7. active # {} => Min(active) \in active
  <2>1. active \subseteq Nat BY <1>4
  <2> QED BY <2>1, MinOf
<1>8. set # {} => Max(set) \in set BY <1>3, <1>5, MaxOf
<1>9. CASE active # {} BY <1>3, <1>4, <1>6, <1>7, <1>9
<1>10. CASE active = {} /\ set # {} BY <1>3, <1>5, <1>6, <1>8, <1>10
<1>11. CASE active = {} /\ set = {} BY <1>3, <1>6, <1>11
<1> QED BY <1>9, <1>10, <1>11

LEMMA ListDrawnInv ==
  ASSUME NEW b, IsList(b), item_count(b.items) \in Nat \ {0}, NEW sz,
         b.open => ListWithin(b),
         ~b.open => b.scroll = 0 /\ b.choice \in 0 .. item_count(b.items) - 1
  PROVE  ListInv(list_do_resize(b, sz))
<1>1. CASE list_too_small(sz)
  <2>1. list_do_resize(b, sz) = [ListClosed EXCEPT !.result = "too_small"]
    BY <1>1 DEF list_do_resize
  <2> QED BY <2>1 DEF ListInv, ListClosed, IsList, ListFields
<1>2. CASE ~list_too_small(sz)
  <2>1. PICK count \in Nat \ {0} : count = item_count(b.items) OBVIOUS
  <2>2. PICK max \in Nat \ {0} : max = list_max(b) BY ListMax
  <2>3. /\ ListHeight \in Nat \ {0} /\ max <= ListHeight /\ max <= count
        /\ max < count => max = ListHeight
    BY <2>1, <2>2, ListMax
  <2>4. b.choice \in Nat /\ b.scroll \in Nat BY <2>1 DEF ListWithin
  <2>5. PICK c \in Nat : c = b.choice BY <2>4
  <2>6. PICK s \in Nat : s = b.scroll BY <2>4
  <2>7. \/ b.open /\ c < max /\ s + max <= count
        \/ ~b.open /\ s = 0 /\ c < count
    BY <2>1, <2>2, <2>5, <2>6 DEF ListWithin
  <2>8. PICK over : over = Max({b.choice - ListHeight + 1, 0}) OBVIOUS
  <2>9. over = IF c - ListHeight + 1 >= 0 THEN c - ListHeight + 1 ELSE 0
    BY <2>3, <2>5, <2>8, MaxTwo
  <2>10. PICK ns : ns = IF over > 0 THEN over ELSE s OBVIOUS
  <2>11. /\ ns \in Nat /\ c - over \in Nat /\ c - over < max /\ ns + max <= count
         /\ (~b.open /\ ns + (c - over) < count - 1 /\ ListHeight < count) => ns + ListHeight < count
    <3>1. CASE c - ListHeight + 1 > 0
      <4>1. c >= ListHeight /\ c >= max BY <2>3, <3>1
      <4>2. ~b.open /\ s = 0 /\ c < count BY <2>7, <4>1
      <4>3. max = ListHeight BY <2>3, <4>1, <4>2
      <4>4. over = c - ListHeight + 1 /\ ns = over /\ over > 0 BY <2>3, <2>9, <2>10, <3>1
      <4> QED BY <2>3, <4>1, <4>2, <4>3, <4>4
    <3>2. CASE ~(c - ListHeight + 1 > 0)
      <4>1. over = 0 /\ ns = s BY <2>3, <2>9, <2>10, <3>2
      <4>2. c < max
        <5>1. CASE b.open BY <2>7, <5>1
        <5>2. CASE ~b.open BY <2>3, <2>7, <3>2, <5>2
        <5> QED BY <5>1, <5>2
      <4>3. s + max <= count BY <2>3, <2>7
      <4>4. (~b.open /\ ListHeight < count) => ns + ListHeight < count BY <2>3, <2>7, <4>1
      <4> QED BY <4>1, <4>2, <4>3, <4>4
    <3> QED BY <3>1, <3>2
  <2>12. PICK at : at = [b EXCEPT !.scroll = IF over > 0 THEN over ELSE @, !.choice = @ - over]
    OBVIOUS
  <2>13. /\ IsList(at) /\ at.items = b.items /\ at.scroll = ns /\ at.choice = c - over
    BY <2>5, <2>6, <2>10, <2>12 DEF IsList, ListFields
  <2>14. PICK q : q = [at EXCEPT !.open = TRUE, !.redrawn = b.open,
                        !.rows = drawn(ListHeight, list_max(at), at.scroll, at.choice)] OBVIOUS
  <2>15. PICK p : p = list_do_resize(b, sz) OBVIOUS
  <2>16. p = list_arrows(q) BY <1>2, <2>8, <2>12, <2>14, <2>15 DEF list_do_resize
  <2>17. list_max(at) = max BY <2>2, <2>13 DEF list_max
  <2>18. /\ IsList(q) /\ q.items = b.items /\ q.scroll = ns /\ q.choice = c - over
         /\ q.redrawn = b.open /\ q.rows = drawn(ListHeight, max, ns, c - over)
    BY <2>13, <2>14, <2>17 DEF IsList, ListFields
  <2>19. /\ IsList(p) /\ p.items = b.items /\ p.scroll = ns /\ p.choice = c - over
         /\ p.redrawn = b.open /\ p.rows = drawn(ListHeight, max, ns, c - over)
         /\ p.up = (ns > 0)
         /\ p.down = (ListHeight < item_count(b.items) /\ ns + (c - over) < item_count(b.items) - 1)
    BY <2>16, <2>18, ArrowsFields
  <2>20. list_max(p) = max BY <2>2, <2>19 DEF list_max
  <2>21. PICK nc \in Nat : nc = c - over BY <2>11
  <2>22. ListWithin(p)
    <3>1. ns \in Nat /\ nc < max /\ ns + max <= count BY <2>11, <2>21
    <3> QED BY <2>1, <2>2, <2>19, <2>20, <2>21, <3>1, ListWithinFrom
  <2>23. ListLit(p)
    <3>1. drawn(ListHeight, max, ns, nc) = Cells(ListHeight, max, ns, nc)
      BY <2>3, <2>11, <2>21, DrawnCells
    <3> QED BY <2>19, <2>20, <2>21, <3>1 DEF ListLit
  <2>24. ListArrowed(p)
    <3>1. more_below(p, ListHeight) <=> ns + ListHeight < count BY <2>1, <2>19 DEF more_below
    <3>2. p.down <=> ListHeight < count /\ ns + nc < count - 1 BY <2>1, <2>19, <2>21
    <3>3. ns + ListHeight < count => ListHeight < count /\ ns + nc < count - 1
      BY <2>1, <2>2, <2>3, <2>11, <2>21
    <3>4. ~b.open /\ ListHeight < count /\ ns + nc < count - 1 => ns + ListHeight < count
      BY <2>11, <2>21
    <3> QED BY <2>19, <3>1, <3>2, <3>3, <3>4 DEF ListArrowed
  <2> QED BY <2>15, <2>19, <2>22, <2>23, <2>24 DEF ListInv
<1> QED BY <1>1, <1>2

LEMMA ChecklistInv ==
  ASSUME NEW items, item_count(items) \in Nat \ {0}, NEW sz
  PROVE  ListInv(dialog_checklist(items, sz))
<1>1. PICK b : b = [ListClosed EXCEPT !.items = items, !.choice = first_choice(items)] OBVIOUS
<1>2. /\ IsList(b) /\ b.items = items /\ b.scroll = 0 /\ b.choice = first_choice(items) /\ ~b.open
  BY <1>1 DEF ListClosed, IsList, ListFields
<1>3. ListInv(list_do_resize(b, sz)) BY <1>2, FirstChoiceIn, ListDrawnInv
<1> QED BY <1>1, <1>3 DEF dialog_checklist

(* The list moves by a line under the cursor, which stands at its edge. *)
Scroll(max, s, n, row, ns, a, x, b, d, y, e) ==
  /\ max \in Nat \ {0} /\ s \in Nat /\ n \in {-1, 1} /\ row \in 0 .. max - 1
  /\ (n = -1 => row = 0) /\ (n = 1 => row = max - 1) /\ ns \in Nat /\ ns = s + n
  /\ a = Cells(max, max, s, row)
  /\ x = DarkCell(s + row) /\ b = [a EXCEPT ![row] = x]
  /\ d = IF max > 1 THEN wscrl(b, n) ELSE a
  /\ y = LitCell(ns + row) /\ e = [d EXCEPT ![row] = y]

LEMMA ScrolledCells ==
  ASSUME NEW max, NEW s, NEW n, NEW row, NEW ns, NEW a, NEW x, NEW b, NEW d, NEW y, NEW e,
         Scroll(max, s, n, row, ns, a, x, b, d, y, e)
  PROVE  e = Cells(max, max, ns, row)
<1> USE DEF Scroll
<1>2. DOMAIN a = 0 .. max - 1 /\ DOMAIN b = 0 .. max - 1 BY DEF Cells
<1>3. ASSUME NEW r \in 0 .. max - 1 PROVE b[r] = DarkCell(s + r)
  <2>1. CASE r = row BY <1>2, <2>1
  <2>2. CASE r # row
    <3>1. b[r] = a[r] BY <1>2, <2>2
    <3>2. a[r] = DarkCell(s + r) BY <2>2 DEF Cells
    <3> QED BY <3>1, <3>2
  <2> QED BY <2>1, <2>2
<1>4. DOMAIN d = 0 .. max - 1 BY <1>2 DEF wscrl
<1>5. PICK f : f = Cells(max, max, ns, row) OBVIOUS
<1>6. ASSUME NEW r \in 0 .. max - 1 PROVE e[r] = f[r]
  <2>1. CASE r = row
    <3>1. e[r] = LitCell(ns + row) BY <1>4, <2>1
    <3>2. f[r] = LitCell(ns + r) BY <1>5, <2>1 DEF Cells
    <3> QED BY <2>1, <3>1, <3>2
  <2>2. CASE r # row
    <3>1. max > 1 /\ r + n \in 0 .. max - 1 BY <2>2
    <3>2. e[r] = d[r] BY <1>4, <2>2
    <3>3. d = wscrl(b, n) BY <3>1
    <3>4. d[r] = b[r + n] BY <1>2, <3>1, <3>3 DEF wscrl
    <3>5. b[r + n] = DarkCell(s + (r + n)) BY <1>3, <3>1
    <3>6. f[r] = DarkCell(ns + r) BY <1>5, <2>2 DEF Cells
    <3>7. s + (r + n) = ns + r OBVIOUS
    <3> QED BY <3>2, <3>4, <3>5, <3>6, <3>7
  <2> QED BY <2>1, <2>2
<1>7. e = [r \in 0 .. max - 1 |-> e[r]] BY <1>4
<1>8. f = [r \in 0 .. max - 1 |-> f[r]] BY <1>5 DEF Cells
<1>9. e = f BY <1>6, <1>7, <1>8
<1> QED BY <1>5, <1>9

LEMMA ScrolledInv ==
  ASSUME NEW b, ListInv(b), b.open, NEW n \in {-1, 1}, NEW row, row = b.choice,
         n = -1 => row = 0 /\ b.scroll > 0,
         n = 1 => row = list_max(b) - 1 /\ b.scroll + b.choice < item_count(b.items) - 1
  PROVE  ListInv(scrolled(b, n, row))
<1>1. ListWithin(b) /\ ListLit(b) /\ IsList(b) BY DEF ListInv
<1>2. PICK max \in Nat \ {0} : max = list_max(b) BY <1>1, ListFacts
<1>3. PICK count \in Nat \ {0} : count = item_count(b.items) BY <1>1, ListFacts
<1>4. PICK s \in Nat : s = b.scroll BY <1>1, ListFacts
<1>5. PICK c \in Nat : c = row BY <1>1, ListFacts
<1>6. /\ c < max /\ s + max <= count /\ (n = -1 => c = 0 /\ s > 0)
      /\ (n = 1 => c = max - 1 /\ s + c < count - 1)
      /\ (max < count => max = ListHeight)
  BY <1>1, <1>2, <1>3, <1>4, <1>5, ListFacts
<1>7. max < count BY ONLY <1>2, <1>3, <1>4, <1>5, <1>6, n \in {-1, 1}
<1>8. max = ListHeight BY <1>6, <1>7
<1>9. s + n \in Nat /\ s + n + max <= count BY ONLY <1>2, <1>3, <1>4, <1>5, <1>6, n \in {-1, 1}
<1>10. PICK d : d = IF max > 1 THEN wscrl([b.rows EXCEPT ![c] = DarkCell(s + c)], n) ELSE b.rows
  OBVIOUS
<1>11. PICK dark : dark = IF ListHeight > 1
         THEN [print_list_item(b, b.scroll + row, row, FALSE) EXCEPT !.rows = wscrl(@, n)] ELSE b
  OBVIOUS
<1>12. /\ IsList(dark) /\ dark.items = b.items /\ dark.scroll = s /\ dark.choice = c
       /\ dark.open = b.open /\ dark.rows = d
  <2>1. CASE max > 1
    <3>a. PICK i : i = b.scroll + row OBVIOUS
    <3>b. PICK off \in BOOLEAN : off = FALSE OBVIOUS
    <3>1. PICK l : l = print_list_item(b, i, row, off) OBVIOUS
    <3>2. /\ IsList(l) /\ l.items = b.items /\ l.scroll = b.scroll /\ l.choice = b.choice
          /\ l.open = b.open /\ l.rows = put(b.rows, row, i, off)
      BY <1>1, <3>1 DEF print_list_item, IsList, ListFields
    <3>3. l.rows = [b.rows EXCEPT ![c] = DarkCell(s + c)]
      BY <1>4, <1>5, <3>a, <3>b, <3>2 DEF put, DarkCell
    <3>4. dark = [l EXCEPT !.rows = wscrl(@, n)] BY <1>8, <1>11, <2>1, <3>a, <3>b, <3>1
    <3>5. d = wscrl(l.rows, n) BY <1>10, <2>1, <3>3
    <3> QED BY <1>4, <1>5, <3>2, <3>4, <3>5 DEF IsList, ListFields
  <2>2. CASE ~(max > 1)
    <3>1. dark = b BY <1>8, <1>11, <2>2
    <3>2. d = b.rows BY <1>10, <2>2
    <3> QED BY <1>1, <1>4, <1>5, <3>1, <3>2
  <2> QED BY <2>1, <2>2
<1>13. PICK moved1 : moved1 = [[dark EXCEPT !.scroll = @ + n] EXCEPT !.redrawn = FALSE] OBVIOUS
<1>14. /\ IsList(moved1) /\ moved1.items = b.items /\ moved1.scroll = s + n /\ moved1.choice = c
       /\ moved1.open = b.open /\ moved1.rows = d /\ moved1.redrawn = FALSE
  BY <1>12, <1>13 DEF IsList, ListFields
<1>b. PICK on \in BOOLEAN : on = TRUE OBVIOUS
<1>c. PICK i : i = s + n + c OBVIOUS
<1>15. PICK q : q = print_list_item(moved1, i, c, on) OBVIOUS
<1>16. scrolled(b, n, row) = list_arrows(q)
  <2>1. [dark EXCEPT !.scroll = @ + n].scroll = s + n BY <1>12 DEF IsList, ListFields
  <2> QED BY <1>b, <1>c, <1>5, <1>11, <1>13, <1>15, <2>1 DEF scrolled
<1>17. /\ IsList(q) /\ q.items = b.items /\ q.scroll = s + n /\ q.choice = c /\ q.open = b.open
       /\ q.rows = [d EXCEPT ![c] = LitCell(s + n + c)] /\ q.redrawn = FALSE
  <2>1. /\ IsList(q) /\ q.items = moved1.items /\ q.scroll = moved1.scroll
        /\ q.choice = moved1.choice /\ q.open = moved1.open /\ q.redrawn = moved1.redrawn
        /\ q.rows = put(moved1.rows, c, i, on)
    BY <1>14, <1>15 DEF print_list_item, IsList, ListFields
  <2> QED BY <1>b, <1>c, <1>14, <2>1 DEF put, LitCell
<1>18. b.rows = Cells(max, max, s, c)
  BY <1>1, <1>2, <1>4, <1>5, <1>8 DEF ListLit
<1>19. q.rows = Cells(max, max, s + n, c)
  <2>1. PICK a : a = b.rows OBVIOUS
  <2>2. PICK e : e = q.rows OBVIOUS
  <2>3. PICK x : x = DarkCell(s + c) OBVIOUS
  <2>4. PICK l : l = [a EXCEPT ![c] = x] OBVIOUS
  <2>5. PICK ns \in Nat : ns = s + n BY <1>9
  <2>6. PICK y : y = LitCell(ns + c) OBVIOUS
  <2>7. a = Cells(max, max, s, c) BY <1>18, <2>1
  <2>8. d = IF max > 1 THEN wscrl(l, n) ELSE a BY <1>10, <2>1, <2>3, <2>4
  <2>9. e = [d EXCEPT ![c] = y] BY <1>17, <2>2, <2>5, <2>6
  <2>10. c \in 0 .. max - 1 /\ (n = -1 => c = 0) /\ (n = 1 => c = max - 1) BY <1>2, <1>5, <1>6
  <2>11. e = Cells(max, max, ns, c)
    <3>1. Scroll(max, s, n, c, ns, a, x, l, d, y, e)
      BY ONLY <1>2, <1>4, <1>5, <2>3, <2>4, <2>5, <2>6, <2>7, <2>8, <2>9, <2>10, n \in {-1, 1}
         DEF Scroll
    <3> QED BY <3>1, ScrolledCells
  <2> QED BY <2>2, <2>5, <2>11
<1>20. PICK p : p = list_arrows(q) OBVIOUS
<1>21. /\ IsList(p) /\ p.items = b.items /\ p.scroll = s + n /\ p.choice = c
       /\ p.open = b.open /\ p.rows = Cells(max, max, s + n, c) /\ p.redrawn = FALSE
       /\ p.up = (s + n > 0)
       /\ p.down = (ListHeight < count /\ s + n + c < count - 1)
  <2>1. /\ IsList(p) /\ p.items = q.items /\ p.scroll = q.scroll /\ p.choice = q.choice
        /\ p.open = q.open /\ p.rows = q.rows /\ p.redrawn = q.redrawn
        /\ p.up = (q.scroll > 0)
        /\ p.down = (/\ ListHeight < item_count(q.items)
                     /\ q.scroll + q.choice < item_count(q.items) - 1)
    BY <1>17, <1>20, ArrowsFields
  <2> QED BY <1>3, <1>17, <1>19, <2>1
<1>22. list_max(p) = max BY <1>2, <1>21 DEF list_max
<1>23. ListWithin(p)
  <2>1. PICK ns \in Nat : ns = s + n BY <1>9
  <2>2. ns + max <= count BY <1>9, <2>1
  <2> QED BY <1>2, <1>3, <1>5, <1>6, <1>21, <1>22, <2>1, <2>2, ListWithinFrom
<1>24. ListLit(p) BY <1>8, <1>21, <1>22 DEF ListLit
<1>25. ListArrowed(p)
  <2>1. more_below(p, ListHeight) <=> s + n + max < count BY <1>3, <1>8, <1>21 DEF more_below
  <2>2. p.down <=> max < count /\ s + n + c < count - 1 BY <1>8, <1>21
  <2>3. s + n + max < count <=> s + n + c < count - 1
    BY ONLY <1>2, <1>3, <1>4, <1>5, <1>6, n \in {-1, 1}
  <2> QED BY <1>7, <1>21, <2>1, <2>2, <2>3 DEF ListArrowed
<1> QED BY <1>16, <1>20, <1>21, <1>23, <1>24, <1>25 DEF ListInv

Highlight(h, max, s, c, i, a, e) ==
  /\ h \in Nat /\ max \in Nat /\ s \in Nat /\ c \in Nat /\ i \in Nat
  /\ c < max /\ i < max /\ max <= h /\ i # c
  /\ a = Cells(h, max, s, c)
  /\ e = [[a EXCEPT ![c] = DarkCell(s + c)] EXCEPT ![i] = LitCell(s + i)]

LEMMA HighlightCells ==
  ASSUME NEW h, NEW max, NEW s, NEW c, NEW i, NEW a, NEW e, Highlight(h, max, s, c, i, a, e)
  PROVE  e = Cells(h, max, s, i)
<1> USE DEF Highlight
<1>1. PICK f : f = Cells(h, max, s, i) OBVIOUS
<1>2. DOMAIN a = 0 .. h - 1 /\ DOMAIN e = 0 .. h - 1 /\ c \in 0 .. h - 1 /\ i \in 0 .. h - 1
  BY DEF Cells
<1>3. ASSUME NEW r \in 0 .. h - 1 PROVE e[r] = f[r]
  <2>1. CASE r = i
    <3>1. e[r] = LitCell(s + r) BY <1>2, <2>1
    <3>2. f[r] = LitCell(s + r) BY <1>1, <2>1 DEF Cells
    <3> QED BY <3>1, <3>2
  <2>2. CASE r = c
    <3>1. e[r] = DarkCell(s + r) BY <1>2, <2>2
    <3>2. f[r] = DarkCell(s + r) BY <1>1, <2>2 DEF Cells
    <3> QED BY <3>1, <3>2
  <2>3. CASE r # i /\ r # c
    <3>1. e[r] = a[r] BY <1>2, <2>3
    <3>2. f[r] = a[r] BY <1>1, <2>3 DEF Cells
    <3> QED BY <3>1, <3>2
  <2> QED BY <2>1, <2>2, <2>3
<1>4. e = [r \in 0 .. h - 1 |-> e[r]] BY <1>2
<1>5. f = [r \in 0 .. h - 1 |-> f[r]] BY <1>1 DEF Cells
<1>6. e = f BY <1>3, <1>4, <1>5
<1> QED BY <1>1, <1>6

LEMMA HighlightedInv ==
  ASSUME NEW b, ListInv(b), b.open, NEW i \in Nat, i < list_max(b)
  PROVE  ListInv(highlighted(b, i))
<1>1. CASE i = b.choice BY <1>1 DEF highlighted
<1>2. CASE i # b.choice
  <2>1. ListWithin(b) /\ ListLit(b) /\ ListArrowed(b) /\ IsList(b) BY DEF ListInv
  <2>2. PICK max \in Nat \ {0} : max = list_max(b) BY <2>1, ListFacts
  <2>3. PICK count \in Nat \ {0} : count = item_count(b.items) BY <2>1, ListFacts
  <2>4. PICK s \in Nat : s = b.scroll BY <2>1, ListFacts
  <2>5. PICK c \in Nat : c = b.choice BY <2>1, ListFacts
  <2>6. PICK h \in Nat : h = ListHeight BY <2>1, ListFacts
  <2>7. c < max /\ s + max <= count /\ max <= h /\ i < max /\ i # c
    BY <1>2, <2>1, <2>2, <2>3, <2>4, <2>5, <2>6, ListFacts
  <2>8. PICK p : p = highlighted(b, i) OBVIOUS
  <2>9. /\ IsList(p) /\ p.items = b.items /\ p.scroll = b.scroll /\ p.choice = i /\ p.open = b.open
        /\ p.redrawn = b.redrawn /\ p.up = b.up /\ p.down = b.down
        /\ p.rows = [[b.rows EXCEPT ![c] = DarkCell(s + c)] EXCEPT ![i] = LitCell(s + i)]
    BY <1>2, <2>1, <2>4, <2>5, <2>8
       DEF highlighted, print_list_item, put, DarkCell, LitCell, IsList, ListFields
  <2>10. list_max(p) = max BY <2>2, <2>9 DEF list_max
  <2>11. ListWithin(p) BY <2>2, <2>3, <2>4, <2>7, <2>9, <2>10, ListWithinFrom
  <2>12. ListLit(p)
    <3>1. PICK a : a = b.rows OBVIOUS
    <3>2. PICK e : e = p.rows OBVIOUS
    <3>3. a = Cells(h, max, s, c) BY <2>1, <2>2, <2>4, <2>5, <2>6, <3>1 DEF ListLit
    <3>4. e = [[a EXCEPT ![c] = DarkCell(s + c)] EXCEPT ![i] = LitCell(s + i)] BY <2>9, <3>1, <3>2
    <3>5. e = Cells(h, max, s, i)
      <4>1. Highlight(h, max, s, c, i, a, e)
        BY ONLY <2>2, <2>4, <2>5, <2>6, <2>7, <3>3, <3>4, i \in Nat DEF Highlight
      <4> QED BY <4>1, HighlightCells
    <3> QED BY <2>4, <2>6, <2>9, <2>10, <3>2, <3>5 DEF ListLit
  <2>13. ListArrowed(p) BY <2>1, <2>9 DEF ListArrowed, more_below
  <2> QED BY <2>8, <2>9, <2>11, <2>12, <2>13 DEF ListInv
<1> QED BY <1>1, <1>2

LEMMA FirstWithIn ==
  ASSUME NEW b, ListWithin(b), NEW key PROVE first_with(b, key) \in 0 .. list_max(b)
<1>1. PICK all : all = {i \in 0 .. list_max(b) - 1 : item_at(b.items, b.scroll + i).text[1] = key}
  OBVIOUS
<1>2. first_with(b, key) = IF all = {} THEN list_max(b) ELSE Min(all) BY <1>1 DEF first_with
<1>3. list_max(b) \in Nat BY ListFacts
<1>4. all \subseteq Nat BY <1>1, <1>3
<1>5. all # {} => Min(all) \in all BY <1>4, MinOf
<1> QED BY <1>1, <1>2, <1>3, <1>5

LEMMA ListMoved ==
  ASSUME NEW b, ListInv(b), b.open, NEW key,
         key \in {"KEY_UP", "-", "KEY_DOWN", "+"} \/ first_with(b, key) < list_max(b)
  PROVE  ListInv(list_moved(b, key))
<1>1. ListWithin(b) BY DEF ListInv
<1>2. PICK max \in Nat \ {0} : max = list_max(b) BY <1>1, ListFacts
<1>3. PICK c \in Nat : c = b.choice BY <1>1, ListFacts
<1>4. c < max /\ b.scroll \in Nat /\ item_count(b.items) \in Nat BY <1>1, <1>2, <1>3, ListFacts
<1>5. CASE key \in {"KEY_UP", "-"}
  <2>1. list_moved(b, key) = IF b.choice > 0 THEN highlighted(b, b.choice - 1)
                             ELSE IF b.scroll = 0 THEN b ELSE scrolled(b, -1, 0)
    BY <1>5 DEF list_moved
  <2>2. CASE b.choice > 0
    <3>1. PICK i \in Nat : i = c - 1 BY <1>3, <2>2
    <3>2. i < list_max(b) BY <1>2, <1>4, <3>1
    <3>3. list_moved(b, key) = highlighted(b, i) BY <1>3, <2>1, <2>2, <3>1
    <3> QED BY <3>2, <3>3, HighlightedInv
  <2>3. CASE ~(b.choice > 0) /\ b.scroll = 0 BY <2>1, <2>3
  <2>4. CASE ~(b.choice > 0) /\ b.scroll # 0
    <3>1. b.choice = 0 /\ b.scroll > 0 BY <1>3, <1>4, <2>4
    <3>2. list_moved(b, key) = scrolled(b, -1, 0) BY <2>1, <2>4
    <3>3. PICK n \in {-1, 1} : n = -1 OBVIOUS
    <3>4. ListInv(scrolled(b, n, 0)) BY <3>1, <3>3, ScrolledInv
    <3> QED BY <3>2, <3>3, <3>4
  <2> QED BY <2>2, <2>3, <2>4
<1>6. CASE key \in {"KEY_DOWN", "+"}
  <2>1. list_moved(b, key) = IF b.choice # list_max(b) - 1 THEN highlighted(b, b.choice + 1)
                             ELSE IF b.scroll + b.choice >= item_count(b.items) - 1 THEN b
                             ELSE scrolled(b, 1, list_max(b) - 1)
    BY <1>6 DEF list_moved
  <2>2. CASE b.choice # list_max(b) - 1
    <3>1. PICK i \in Nat : i = c + 1 BY <1>3
    <3>2. i < list_max(b) BY <1>2, <1>3, <1>4, <2>2, <3>1
    <3>3. list_moved(b, key) = highlighted(b, i) BY <1>3, <2>1, <2>2, <3>1
    <3> QED BY <3>2, <3>3, HighlightedInv
  <2>3. CASE b.choice = list_max(b) - 1 /\ b.scroll + b.choice >= item_count(b.items) - 1
    BY <2>1, <2>3
  <2>4. CASE b.choice = list_max(b) - 1 /\ ~(b.scroll + b.choice >= item_count(b.items) - 1)
    <3>1. b.scroll + b.choice < item_count(b.items) - 1 BY <1>3, <1>4, <2>4
    <3>2. list_moved(b, key) = scrolled(b, 1, list_max(b) - 1) BY <2>1, <2>4
    <3>3. PICK n \in {-1, 1} : n = 1 OBVIOUS
    <3>4. PICK row : row = list_max(b) - 1 OBVIOUS
    <3>5. row = b.choice BY <2>4, <3>4
    <3>6. ListInv(scrolled(b, n, row)) BY <3>1, <3>3, <3>4, <3>5, ScrolledInv
    <3> QED BY <3>2, <3>3, <3>4, <3>6
  <2> QED BY <2>2, <2>3, <2>4
<1>7. CASE key \notin {"KEY_UP", "-", "KEY_DOWN", "+"}
  <2>1. list_moved(b, key) = highlighted(b, first_with(b, key)) BY <1>7 DEF list_moved
  <2>2. PICK i \in Nat : i = first_with(b, key) BY <1>1, <1>2, FirstWithIn
  <2>3. i < list_max(b) BY <1>7, <2>2
  <2> QED BY <2>1, <2>2, <2>3, HighlightedInv
<1> QED BY <1>5, <1>6, <1>7

LEMMA ListKeyInv == ASSUME NEW k, NEW f, ListInv(list), ListKey(k, f) PROVE ListInv(list')
<1>1. CASE ListMove(k) BY <1>1, ListMoved DEF ListMove
<1>2. CASE ListButton(k)
  <2>1. PICK b : list' = [list EXCEPT !.button = b] BY <1>2 DEF ListButton
  <2>2. IsList(list) BY DEF ListInv
  <2>3. /\ IsList(list') /\ list'.items = list.items /\ list'.scroll = list.scroll
        /\ list'.choice = list.choice /\ list'.open = list.open /\ list'.rows = list.rows
        /\ list'.up = list.up /\ list'.down = list.down /\ list'.redrawn = list.redrawn
    BY <2>1, <2>2 DEF IsList, ListFields
  <2>4. list_max(list') = list_max(list) BY <2>3 DEF list_max
  <2>5. (ListWithin(list) => ListWithin(list')) BY <2>3, <2>4 DEF ListWithin
  <2>6. (ListLit(list) => ListLit(list')) /\ (ListArrowed(list) => ListArrowed(list'))
    BY <2>3, <2>4 DEF ListLit, ListArrowed, more_below
  <2> QED BY <2>3, <2>5, <2>6 DEF ListInv
<1>3. CASE ListSelect(k)
  <2>1. IsList(list') /\ ~list'.open BY <1>3 DEF ListSelect, ListClosed, IsList, ListFields
  <2> QED BY <2>1 DEF ListInv
<1>4. CASE ListEscape(k, f)
  <2>1. IsList(list') /\ ~list'.open BY <1>4 DEF ListEscape, ListClosed, IsList, ListFields
  <2> QED BY <2>1 DEF ListInv
<1> QED BY <1>1, <1>2, <1>3, <1>4 DEF ListKey

LEMMA ListResizeInv ==
  ASSUME NEW sz, ListInv(list), ListResize(sz) PROVE ListInv(list')
<1>1. list.open /\ list' = list_do_resize(list, sz) BY DEF ListResize
<1>2. IsList(list) /\ ListWithin(list) BY <1>1 DEF ListInv
<1>3. item_count(list.items) \in Nat \ {0} BY <1>2, ListFacts
<1> QED BY <1>1, <1>2, <1>3, ListDrawnInv

-----------------------------------------------------------------------------
(* The input box. *)
InputFields == {"open", "instr", "scroll", "input_x", "button", "lines", "width", "field",
                "strayed", "result"}
IsInput(b) == b = [f \in InputFields |-> b[f]]
(* A text of len characters, and zeros behind it. *)
HasLen(instr, len) ==
  /\ len \in 0 .. InputLen /\ instr = [i \in 0 .. InputLen |-> instr[i]]
  /\ \A i \in 0 .. InputLen : instr[i] = Zero <=> i >= len
FieldShows(b, len) ==
  /\ b.scroll \in Nat /\ b.input_x \in Nat /\ b.scroll + b.input_x = len /\ b.input_x < BoxWidth
  /\ b.field = [i \in 0 .. BoxWidth - 1 |->
                  IF b.scroll + i < len THEN b.instr[b.scroll + i] ELSE " "]
InputInv(b) ==
  /\ IsInput(b) /\ b.strayed \in BOOLEAN
  /\ b.open /\ ~b.strayed => \E len \in 0 .. InputLen : HasLen(b.instr, len) /\ FieldShows(b, len)

LEMMA StrlenIs == ASSUME NEW instr, NEW len, HasLen(instr, len) PROVE strlen_of(instr) = len
<1>1. PICK S : S = {i \in DOMAIN instr : instr[i] = Zero} OBVIOUS
<1>2. len \in S /\ S \subseteq Nat /\ \A i \in S : len <= i
  BY <1>1, FieldAssumption DEF HasLen
<1>3. Min(S) \in S /\ \A i \in S : Min(S) <= i BY <1>2, MinOf
<1>4. Min(S) \in Nat /\ len \in Nat /\ Min(S) >= len /\ Min(S) <= len BY <1>2, <1>3
<1>5. Min(S) = len BY <1>4
<1> QED BY <1>1, <1>5 DEF strlen_of

LEMMA InputDrawnInv ==
  ASSUME NEW b, IsInput(b), NEW len, ~b.strayed => HasLen(b.instr, len) /\ b.scroll \in Nat,
         b.strayed \in BOOLEAN, NEW sz
  PROVE  InputInv(input_do_resize(b, sz))
<1>1. PICK p : p = input_do_resize(b, sz) OBVIOUS
<1>2. CASE input_too_small(b, sz)
  <2>1. p = [InputClosed EXCEPT !.result = "too_small"] BY <1>1, <1>2 DEF input_do_resize
  <2>2. IsInput(p) /\ ~p.open /\ p.strayed = FALSE BY <2>1 DEF InputClosed, IsInput, InputFields
  <2> QED BY <1>1, <2>2 DEF InputInv
<1>3. CASE ~input_too_small(b, sz)
  <2>1. PICK l : l = strlen_of(b.instr) OBVIOUS
  <2>2. PICK clear : clear = [b EXCEPT !.open = TRUE, !.field = InputClosed.field] OBVIOUS
  <2>3. /\ IsInput(clear) /\ clear.instr = b.instr /\ clear.scroll = b.scroll
        /\ clear.strayed = b.strayed /\ clear.field = [i \in 0 .. BoxWidth - 1 |-> " "]
    BY <2>2 DEF IsInput, InputFields, InputClosed
  <2>4. CASE l >= BoxWidth
    <3>1. PICK long : long = [clear EXCEPT !.scroll = l - BoxWidth + 1, !.input_x = BoxWidth - 1]
      OBVIOUS
    <3>2. /\ IsInput(long) /\ long.instr = b.instr /\ long.scroll = l - BoxWidth + 1
          /\ long.input_x = BoxWidth - 1 /\ long.strayed = b.strayed /\ long.field = clear.field
      BY <2>3, <3>1 DEF IsInput, InputFields
    <3>3. p = waddch(long, BoxWidth - 1)
      BY <1>1, <1>3, <2>1, <2>2, <2>4, <3>1 DEF input_do_resize
    <3>4. /\ IsInput(p) /\ p.instr = b.instr /\ p.scroll = l - BoxWidth + 1
          /\ p.input_x = BoxWidth - 1 /\ p.strayed = b.strayed
          /\ p.field = [i \in 0 .. BoxWidth - 1 |->
                          IF i < BoxWidth - 1 THEN b.instr[l - BoxWidth + 1 + i] ELSE " "]
      <4>1. /\ IsInput(p) /\ p.instr = long.instr /\ p.scroll = long.scroll
            /\ p.input_x = long.input_x /\ p.strayed = long.strayed
            /\ p.field = [i \in DOMAIN long.field |-> IF i < BoxWidth - 1
                            THEN long.instr[long.scroll + i] ELSE long.field[i]]
        BY <3>2, <3>3 DEF waddch, IsInput, InputFields
      <4>2. DOMAIN long.field = 0 .. BoxWidth - 1
            /\ \A i \in 0 .. BoxWidth - 1 : long.field[i] = " "
        BY <2>3, <3>2
      <4> QED BY <3>2, <4>1, <4>2
    <3>5. ASSUME ~b.strayed PROVE HasLen(p.instr, len) /\ FieldShows(p, len)
      <4>1. HasLen(b.instr, len) /\ l = len /\ len \in Nat
        BY <2>1, <3>5, StrlenIs, FieldAssumption DEF HasLen
      <4>2. PICK s \in Nat : s = l - BoxWidth + 1 BY <2>4, <4>1, FieldAssumption
      <4>3. s + (BoxWidth - 1) = len /\ BoxWidth - 1 \in Nat /\ BoxWidth - 1 < BoxWidth
        BY <4>1, <4>2, FieldAssumption
      <4>4. \A i \in 0 .. BoxWidth - 1 : s + i < len <=> i < BoxWidth - 1
        BY <4>1, <4>2, <4>3, FieldAssumption
      <4>5. p.field = [i \in 0 .. BoxWidth - 1 |-> IF s + i < len THEN b.instr[s + i] ELSE " "]
        BY <3>4, <4>2, <4>4
      <4> QED BY <3>4, <4>1, <4>2, <4>3, <4>5 DEF FieldShows
    <3> QED BY <1>1, <3>4, <3>5 DEF InputInv, HasLen
  <2>5. CASE ~(l >= BoxWidth)
    <3>1. p = [clear EXCEPT !.input_x = l, !.strayed = @ \/ b.scroll > 0,
                 !.field = [i \in DOMAIN @ |-> IF i < l THEN b.instr[i] ELSE " "]]
      BY <1>1, <1>3, <2>1, <2>2, <2>5 DEF input_do_resize
    <3>2. /\ IsInput(p) /\ p.instr = b.instr /\ p.scroll = b.scroll /\ p.input_x = l
          /\ p.field = [i \in 0 .. BoxWidth - 1 |-> IF i < l THEN b.instr[i] ELSE " "]
      BY <2>3, <3>1 DEF IsInput, InputFields
    <3>3. (~p.strayed => ~b.strayed /\ ~(b.scroll > 0)) /\ p.strayed \in BOOLEAN
      <4>1. p.strayed = (clear.strayed \/ b.scroll > 0)
        BY <2>3, <3>1 DEF IsInput, InputFields
      <4> QED BY <2>3, <4>1
    <3>4. ASSUME ~p.strayed PROVE HasLen(p.instr, len) /\ FieldShows(p, len)
      <4>1. HasLen(b.instr, len) /\ l = len /\ len \in Nat /\ b.scroll \in Nat
        BY <2>1, <3>3, <3>4, StrlenIs, FieldAssumption DEF HasLen
      <4>2. b.scroll = 0 BY <3>3, <3>4, <4>1
      <4>3. l < BoxWidth BY <2>5, <4>1, FieldAssumption
      <4>4. p.field = [i \in 0 .. BoxWidth - 1 |-> IF 0 + i < len THEN b.instr[0 + i] ELSE " "]
        <5>1. \A i \in 0 .. BoxWidth - 1 : 0 + i = i BY FieldAssumption
        <5> QED BY <3>2, <4>1, <5>1
      <4>5. p.scroll = 0 /\ p.input_x = len /\ 0 + len = len /\ len < BoxWidth
        <5>1. p.scroll = 0 BY <3>2, <4>2
        <5>2. p.input_x = len BY <3>2, <4>1
        <5>3. 0 + len = len BY <4>1
        <5>4. len < BoxWidth BY <4>1, <4>3
        <5> QED BY <5>1, <5>2, <5>3, <5>4
      <4>6. p.field = [i \in 0 .. BoxWidth - 1 |->
                         IF p.scroll + i < len THEN p.instr[p.scroll + i] ELSE " "]
        BY <3>2, <4>4, <4>5
      <4> QED BY <3>2, <4>1, <4>5, <4>6 DEF FieldShows
    <3> QED BY <1>1, <3>2, <3>3, <3>4 DEF InputInv, HasLen
  <2> QED BY <2>4, <2>5
<1> QED BY <1>2, <1>3

LEMMA InputboxInv ==
  ASSUME NEW v, Len(v) \in 0 .. InputLen, \A i \in 1 .. Len(v) : v[i] # Zero,
         NEW h, NEW w, NEW sz
  PROVE  InputInv(dialog_inputbox(v, h, w, sz))
<1>1. PICK b : b = [InputClosed EXCEPT !.instr = strcpy(v), !.lines = h, !.width = w] OBVIOUS
<1>2. IsInput(b) /\ b.instr = strcpy(v) /\ b.scroll = 0 /\ b.strayed = FALSE
  BY <1>1 DEF InputClosed, IsInput, InputFields
<1>3. HasLen(strcpy(v), Len(v))
  <2>1. PICK s : s = strcpy(v) OBVIOUS
  <2>2. \A i \in 0 .. InputLen : s[i] = IF i < Len(v) THEN v[i + 1] ELSE Zero BY <2>1 DEF strcpy
  <2>3. \A i \in 0 .. InputLen : i < Len(v) => i + 1 \in 1 .. Len(v) BY FieldAssumption
  <2>4. \A i \in 0 .. InputLen : s[i] = Zero <=> ~(i < Len(v)) BY <2>2, <2>3
  <2>5. \A i \in 0 .. InputLen : ~(i < Len(v)) <=> i >= Len(v) BY FieldAssumption
  <2>6. s = [i \in 0 .. InputLen |-> s[i]] BY <2>1 DEF strcpy
  <2> QED BY <2>1, <2>4, <2>5, <2>6 DEF HasLen
<1>4. PICK len : len = Len(v) OBVIOUS
<1>5. b.strayed \in BOOLEAN /\ (~b.strayed => HasLen(b.instr, len) /\ b.scroll \in Nat)
  <2>1. b.strayed \in BOOLEAN BY <1>2
  <2>2. HasLen(b.instr, len) BY <1>2, <1>3, <1>4
  <2>3. b.scroll \in Nat BY <1>2
  <2> QED BY <2>1, <2>2, <2>3
<1>6. InputInv(input_do_resize(b, sz)) BY <1>2, <1>5, InputDrawnInv
<1> QED BY <1>1, <1>6 DEF dialog_inputbox

LEMMA TypedInv ==
  ASSUME NEW b, InputInv(b), b.open, NEW c \in Chars,
         b.scroll + b.input_x < InputLen
  PROVE  InputInv(typed(b, c))
<1>1. PICK p : p = typed(b, c) OBVIOUS
<1>2. PICK at : at = b.scroll + b.input_x OBVIOUS
<1>3. IsInput(b) /\ b.strayed \in BOOLEAN BY DEF InputInv
<1>4. PICK in : in = [b EXCEPT !.instr = [@ EXCEPT ![at] = c, ![at + 1] = Zero]] OBVIOUS
<1>5. /\ IsInput(in) /\ in.instr = [b.instr EXCEPT ![at] = c, ![at + 1] = Zero]
      /\ in.scroll = b.scroll /\ in.input_x = b.input_x /\ in.strayed = b.strayed
      /\ in.field = b.field /\ in.open = b.open
  BY <1>3, <1>4 DEF IsInput, InputFields
<1>6. CASE b.input_x = BoxWidth - 1
  <2>1. PICK q : q = [in EXCEPT !.scroll = @ + 1] OBVIOUS
  <2>2. /\ IsInput(q) /\ q.instr = in.instr /\ q.scroll = b.scroll + 1 /\ q.input_x = b.input_x
        /\ q.strayed = b.strayed /\ q.field = b.field /\ q.open = b.open
    BY <1>5, <2>1 DEF IsInput, InputFields
  <2>3. p = waddch(q, BoxWidth - 1) BY <1>1, <1>2, <1>4, <1>6, <2>1 DEF typed
  <2>4. /\ IsInput(p) /\ p.instr = in.instr /\ p.scroll = b.scroll + 1 /\ p.input_x = b.input_x
        /\ p.strayed = b.strayed /\ p.open = b.open
        /\ p.field = [i \in DOMAIN b.field |-> IF i < BoxWidth - 1
                        THEN q.instr[q.scroll + i] ELSE b.field[i]]
    BY <2>2, <2>3 DEF waddch, IsInput, InputFields
  <2>5. ASSUME ~b.strayed PROVE \E len \in 0 .. InputLen : HasLen(p.instr, len) /\ FieldShows(p, len)
    <3>1. PICK len \in 0 .. InputLen : HasLen(b.instr, len) /\ FieldShows(b, len)
      BY <2>5 DEF InputInv
    <3>2. PICK s \in Nat : s = b.scroll BY <3>1 DEF FieldShows
    <3>3. at = len /\ s + (BoxWidth - 1) = len /\ len < InputLen /\ len + 1 \in 0 .. InputLen
      <4>1. s + b.input_x = len BY <3>1, <3>2 DEF FieldShows
      <4>2. at = len /\ s + (BoxWidth - 1) = len /\ at < InputLen BY <1>2, <1>6, <3>2, <4>1
      <4>3. len < InputLen /\ len \in 0 .. InputLen BY <3>1, <4>2
      <4> QED BY <4>2, <4>3, FieldAssumption
    <3>4. HasLen(p.instr, len + 1)
      <4>1. DOMAIN b.instr = 0 .. InputLen /\ \A i \in 0 .. InputLen : b.instr[i] = Zero <=> i >= len
        BY <3>1 DEF HasLen
      <4>2. p.instr = [b.instr EXCEPT ![len] = c, ![len + 1] = Zero] BY <1>5, <2>4, <3>3
      <4>3. ASSUME NEW i \in 0 .. InputLen PROVE p.instr[i] = Zero <=> i >= len + 1
        BY <3>3, <4>1, <4>2, FieldAssumption
      <4>4. p.instr = [i \in 0 .. InputLen |-> p.instr[i]] BY <4>1, <4>2
      <4> QED BY <3>3, <4>3, <4>4 DEF HasLen
    <3>5. p.field = [i \in 0 .. BoxWidth - 1 |->
                       IF s + 1 + i < len + 1 THEN p.instr[s + 1 + i] ELSE " "]
      <4>1. b.field = [i \in 0 .. BoxWidth - 1 |-> IF s + i < len THEN b.instr[s + i] ELSE " "]
        BY <3>1, <3>2 DEF FieldShows
      <4>2. p.field = [i \in 0 .. BoxWidth - 1 |-> IF i < BoxWidth - 1
                         THEN p.instr[s + 1 + i] ELSE b.field[i]]
        <5>1. DOMAIN b.field = 0 .. BoxWidth - 1 BY <4>1
        <5>2. q.instr = p.instr /\ q.scroll = s + 1 BY <2>2, <2>4, <3>2
        <5> QED BY <2>4, <5>1, <5>2
      <4>3. ASSUME NEW i \in 0 .. BoxWidth - 1
            PROVE  /\ s + 1 + i < len + 1 <=> i < BoxWidth - 1
                   /\ ~(i < BoxWidth - 1) => b.field[i] = " "
        <5>1. s + 1 + i < len + 1 <=> i < BoxWidth - 1 BY <3>3, FieldAssumption
        <5>2. s + i < len <=> i < BoxWidth - 1 BY <3>3, FieldAssumption
        <5> QED BY <4>1, <5>1, <5>2
      <4> QED BY <4>2, <4>3
    <3>6. p.scroll = s + 1 /\ p.input_x = BoxWidth - 1 BY <1>6, <2>4, <3>2
    <3>7. s + 1 \in Nat /\ s + 1 + (BoxWidth - 1) = len + 1 /\ BoxWidth - 1 \in Nat /\ BoxWidth - 1 < BoxWidth
      BY <3>3, FieldAssumption
    <3>8. FieldShows(p, len + 1) BY <3>5, <3>6, <3>7 DEF FieldShows
    <3> QED BY <3>3, <3>4, <3>8
  <2> QED BY <1>1, <1>3, <2>4, <2>5 DEF InputInv
<1>7. CASE b.input_x # BoxWidth - 1
  <2>1. p = [in EXCEPT !.field[b.input_x] = c, !.input_x = @ + 1]
    BY <1>1, <1>2, <1>4, <1>7 DEF typed
  <2>2. /\ IsInput(p) /\ p.instr = in.instr /\ p.scroll = b.scroll /\ p.input_x = b.input_x + 1
        /\ p.strayed = b.strayed /\ p.open = b.open /\ p.field = [b.field EXCEPT ![b.input_x] = c]
    BY <1>5, <2>1 DEF IsInput, InputFields
  <2>3. ASSUME ~b.strayed PROVE \E len \in 0 .. InputLen : HasLen(p.instr, len) /\ FieldShows(p, len)
    <3>1. PICK len \in 0 .. InputLen : HasLen(b.instr, len) /\ FieldShows(b, len)
      BY <2>3 DEF InputInv
    <3>2. PICK s \in Nat : s = b.scroll BY <3>1 DEF FieldShows
    <3>3. PICK x \in Nat : x = b.input_x BY <3>1 DEF FieldShows
    <3>4. at = len /\ s + x = len /\ len < InputLen /\ len + 1 \in 0 .. InputLen /\ x < BoxWidth - 1
      <4>1. s + x = len /\ x < BoxWidth BY <3>1, <3>2, <3>3 DEF FieldShows
      <4>2. at = len /\ at < InputLen BY <1>2, <3>2, <3>3, <4>1
      <4>3. len < InputLen /\ len \in 0 .. InputLen BY <3>1, <4>2
      <4>4. x < BoxWidth - 1 BY <1>7, <3>3, <4>1, FieldAssumption
      <4> QED BY <4>1, <4>2, <4>3, <4>4, FieldAssumption
    <3>5. DOMAIN b.instr = 0 .. InputLen /\ \A i \in 0 .. InputLen : b.instr[i] = Zero <=> i >= len
      BY <3>1 DEF HasLen
    <3>6. p.instr = [b.instr EXCEPT ![len] = c, ![len + 1] = Zero] BY <1>5, <2>2, <3>4
    <3>7. HasLen(p.instr, len + 1)
      <4>1. ASSUME NEW i \in 0 .. InputLen PROVE p.instr[i] = Zero <=> i >= len + 1
        BY <3>4, <3>5, <3>6, FieldAssumption
      <4>2. p.instr = [i \in 0 .. InputLen |-> p.instr[i]] BY <3>5, <3>6
      <4> QED BY <3>4, <4>1, <4>2 DEF HasLen
    <3>8. p.field = [i \in 0 .. BoxWidth - 1 |-> IF s + i < len + 1 THEN p.instr[s + i] ELSE " "]
      <4>1. b.field = [i \in 0 .. BoxWidth - 1 |-> IF s + i < len THEN b.instr[s + i] ELSE " "]
        BY <3>1, <3>2 DEF FieldShows
      <4>2. ASSUME NEW i \in 0 .. BoxWidth - 1
            PROVE  p.field[i] = IF s + i < len + 1 THEN p.instr[s + i] ELSE " "
        <5>1. CASE i = x
          <6>1. p.field[i] = c BY <2>2, <3>3, <4>1, <5>1
          <6>2. s + i = len /\ s + i < len + 1 /\ len \in 0 .. InputLen /\ len # len + 1
            BY <3>4, <5>1
          <6>3. p.instr[len] = c BY <3>5, <3>6, <6>2
          <6> QED BY <6>1, <6>2, <6>3
        <5>2. CASE i < x
          <6>1. p.field[i] = b.field[i]
            <7>1. DOMAIN b.field = 0 .. BoxWidth - 1 BY <4>1
            <7>2. i # x BY <3>3, <5>2, FieldAssumption
            <7> QED BY <2>2, <3>3, <7>1, <7>2
          <6>2. s + i < len /\ s + i < len + 1 /\ s + i \in 0 .. InputLen /\ s + i # len + 1 /\ s + i # len
            BY <3>1, <3>4, <5>2, FieldAssumption
          <6>3. p.instr[s + i] = b.instr[s + i] BY <3>5, <3>6, <6>2
          <6> QED BY <4>1, <6>1, <6>2, <6>3
        <5>3. CASE i > x
          <6>1. p.field[i] = b.field[i]
            <7>1. DOMAIN b.field = 0 .. BoxWidth - 1 BY <4>1
            <7>2. i # x BY <3>3, <5>3, FieldAssumption
            <7> QED BY <2>2, <3>3, <7>1, <7>2
          <6>2. ~(s + i < len) /\ ~(s + i < len + 1) BY <3>4, <5>3, FieldAssumption
          <6> QED BY <4>1, <6>1, <6>2
        <5>4. i = x \/ i < x \/ i > x BY FieldAssumption
        <5> QED BY <5>1, <5>2, <5>3, <5>4
      <4>3. p.field = [i \in 0 .. BoxWidth - 1 |-> p.field[i]] BY <2>2, <4>1
      <4> QED BY <4>2, <4>3
    <3>9. p.scroll = s /\ p.input_x = x + 1 /\ x + 1 \in Nat /\ s + (x + 1) = len + 1 /\ x + 1 < BoxWidth
      <4>1. p.scroll = s /\ p.input_x = x + 1 BY <2>2, <3>2, <3>3
      <4>2. x + 1 \in Nat /\ s + (x + 1) = len + 1 /\ x + 1 < BoxWidth BY <3>4, FieldAssumption
      <4> QED BY <4>1, <4>2
    <3>10. FieldShows(p, len + 1) BY <3>8, <3>9 DEF FieldShows
    <3> QED BY <3>4, <3>7, <3>10
  <2> QED BY <1>1, <1>3, <2>2, <2>3 DEF InputInv
<1> QED BY <1>6, <1>7

LEMMA BackspaceInv ==
  ASSUME NEW b, InputInv(b), b.open, b.input_x > 0 \/ b.scroll > 0
  PROVE  InputInv(backspace(b))
<1>1. PICK p : p = backspace(b) OBVIOUS
<1>2. IsInput(b) /\ b.strayed \in BOOLEAN BY DEF InputInv
<1>3. CASE b.input_x = 0
  <2>1. PICK back : back = IF b.scroll < BoxWidth - 1 THEN 0 ELSE b.scroll - (BoxWidth - 1)
    OBVIOUS
  <2>2. PICK l : l = strlen_of(b.instr) OBVIOUS
  <2>3. PICK a : a = [b EXCEPT !.scroll = back, !.input_x = l - back,
                        !.field = [i \in DOMAIN @ |-> IF b.instr[back + i] = Zero THEN " "
                                                      ELSE b.instr[back + i]]]
    OBVIOUS
  <2>4. /\ IsInput(a) /\ a.instr = b.instr /\ a.scroll = back /\ a.input_x = l - back
        /\ a.strayed = b.strayed
        /\ a.field = [i \in DOMAIN b.field |-> IF b.instr[back + i] = Zero THEN " "
                                               ELSE b.instr[back + i]]
    BY <1>2, <2>3 DEF IsInput, InputFields
  <2>5. p = [a EXCEPT !.instr[a.scroll + a.input_x] = Zero, !.field[a.input_x] = " "]
    BY <1>1, <1>3, <2>1, <2>2, <2>3 DEF backspace
  <2>6. /\ IsInput(p) /\ p.instr = [b.instr EXCEPT ![back + (l - back)] = Zero]
        /\ p.scroll = back /\ p.input_x = l - back /\ p.strayed = b.strayed
        /\ p.field = [a.field EXCEPT ![l - back] = " "]
    BY <2>4, <2>5 DEF IsInput, InputFields
  <2>7. ASSUME ~b.strayed PROVE \E len \in 0 .. InputLen : HasLen(p.instr, len) /\ FieldShows(p, len)
    <3>1. PICK len \in 0 .. InputLen : HasLen(b.instr, len) /\ FieldShows(b, len)
      BY <2>7 DEF InputInv
    <3>2. l = len BY <2>2, <3>1, StrlenIs
    <3>3. b.scroll \in Nat /\ b.scroll + 0 = len BY <1>3, <3>1 DEF FieldShows
    <3>4. b.scroll = len BY <3>3
    <3>5. back = IF len < BoxWidth - 1 THEN 0 ELSE len - (BoxWidth - 1) BY <2>1, <3>4
    <3>6. /\ back \in Nat /\ len - back \in Nat /\ len - back < BoxWidth
          /\ back + (len - back) = len
          /\ \A i \in 0 .. BoxWidth - 1 : back + i \in 0 .. InputLen
      BY <3>1, <3>5, FieldAssumption
    <3>7. DOMAIN b.instr = 0 .. InputLen /\ \A i \in 0 .. InputLen : b.instr[i] = Zero <=> i >= len
      BY <3>1 DEF HasLen
    <3>8. p.instr = [b.instr EXCEPT ![len] = Zero] BY <2>6, <3>2, <3>6
    <3>9. b.instr[len] = Zero BY <3>1, <3>7, FieldAssumption
    <3>10. p.instr = b.instr
      <4>1. b.instr = [i \in 0 .. InputLen |-> b.instr[i]] BY <3>1 DEF HasLen
      <4> QED BY <3>8, <3>9, <4>1
    <3>11. p.field = [i \in 0 .. BoxWidth - 1 |-> IF back + i < len THEN p.instr[back + i] ELSE " "]
      <4>1. DOMAIN b.field = 0 .. BoxWidth - 1 BY <3>1 DEF FieldShows
      <4>2. p.field = [a.field EXCEPT ![len - back] = " "] BY <2>6, <3>2
      <4>3. a.field = [i \in 0 .. BoxWidth - 1 |-> IF b.instr[back + i] = Zero THEN " "
                                               ELSE b.instr[back + i]]
        BY <2>4, <4>1
      <4>4. ASSUME NEW i \in 0 .. BoxWidth - 1
            PROVE  a.field[i] = IF back + i < len THEN b.instr[back + i] ELSE " "
        <5>1. back + i \in 0 .. InputLen BY <3>6
        <5>2. b.instr[back + i] = Zero <=> back + i >= len BY <3>7, <5>1
        <5>3. back + i >= len <=> ~(back + i < len) BY <3>1, <5>1, FieldAssumption
        <5> QED BY <4>3, <5>2, <5>3
      <4>5. ASSUME NEW i \in 0 .. BoxWidth - 1
            PROVE  p.field[i] = IF back + i < len THEN b.instr[back + i] ELSE " "
        <5>1. CASE i = len - back
          <6>1. p.field[i] = " " BY <4>2, <4>3, <5>1
          <6>2. ~(back + i < len) BY <3>1, <3>6, <5>1, FieldAssumption
          <6> QED BY <6>1, <6>2
        <5>2. CASE i # len - back
          <6>1. p.field[i] = a.field[i] BY <4>2, <4>3, <5>2
          <6> QED BY <4>4, <6>1
        <5> QED BY <5>1, <5>2
      <4>6. p.field = [i \in 0 .. BoxWidth - 1 |-> p.field[i]] BY <4>2, <4>3
      <4> QED BY <3>10, <4>5, <4>6
    <3>12. FieldShows(p, len) BY <2>6, <3>2, <3>6, <3>11 DEF FieldShows
    <3> QED BY <3>1, <3>10, <3>12
  <2> QED BY <1>1, <1>2, <2>6, <2>7 DEF InputInv
<1>4. CASE b.input_x # 0
  <2>1. PICK a : a = [b EXCEPT !.input_x = @ - 1] OBVIOUS
  <2>2. /\ IsInput(a) /\ a.instr = b.instr /\ a.scroll = b.scroll /\ a.input_x = b.input_x - 1
        /\ a.strayed = b.strayed /\ a.field = b.field
    BY <1>2, <2>1 DEF IsInput, InputFields
  <2>3. p = [a EXCEPT !.instr[a.scroll + a.input_x] = Zero, !.field[a.input_x] = " "]
    BY <1>1, <1>4, <2>1 DEF backspace
  <2>4. /\ IsInput(p) /\ p.instr = [b.instr EXCEPT ![b.scroll + (b.input_x - 1)] = Zero]
        /\ p.scroll = b.scroll /\ p.input_x = b.input_x - 1 /\ p.strayed = b.strayed
        /\ p.field = [b.field EXCEPT ![b.input_x - 1] = " "]
    BY <2>2, <2>3 DEF IsInput, InputFields
  <2>5. ASSUME ~b.strayed PROVE \E len \in 0 .. InputLen : HasLen(p.instr, len) /\ FieldShows(p, len)
    <3>1. PICK len \in 0 .. InputLen : HasLen(b.instr, len) /\ FieldShows(b, len)
      BY <2>5 DEF InputInv
    <3>2. PICK s \in Nat : s = b.scroll BY <3>1 DEF FieldShows
    <3>3. PICK x \in Nat : x = b.input_x - 1
      <4>1. b.input_x \in Nat BY <3>1 DEF FieldShows
      <4> QED BY <1>4, <4>1
    <3>4. s + (x + 1) = len /\ x + 1 < BoxWidth
      <4>1. b.input_x \in Nat /\ b.scroll + b.input_x = len /\ b.input_x < BoxWidth
        BY <3>1 DEF FieldShows
      <4> QED BY <3>2, <3>3, <4>1
    <3>5. PICK n \in 0 .. InputLen : n = len - 1 /\ s + x = n
      BY <3>1, <3>2, <3>3, <3>4, FieldAssumption
    <3>6. DOMAIN b.instr = 0 .. InputLen /\ \A i \in 0 .. InputLen : b.instr[i] = Zero <=> i >= len
      BY <3>1 DEF HasLen
    <3>7. p.instr = [b.instr EXCEPT ![n] = Zero] BY <2>4, <3>2, <3>3, <3>5
    <3>8. HasLen(p.instr, n)
      <4>1. ASSUME NEW i \in 0 .. InputLen PROVE p.instr[i] = Zero <=> i >= n
        BY <3>1, <3>5, <3>6, <3>7, FieldAssumption
      <4>2. p.instr = [i \in 0 .. InputLen |-> p.instr[i]] BY <3>6, <3>7
      <4> QED BY <3>5, <4>1, <4>2 DEF HasLen
    <3>9. p.field = [i \in 0 .. BoxWidth - 1 |-> IF s + i < n THEN p.instr[s + i] ELSE " "]
      <4>1. b.field = [i \in 0 .. BoxWidth - 1 |-> IF s + i < len THEN b.instr[s + i] ELSE " "]
        BY <3>1, <3>2 DEF FieldShows
      <4>2. p.field = [b.field EXCEPT ![x] = " "] BY <2>4, <3>3
      <4>3. ASSUME NEW i \in 0 .. BoxWidth - 1
            PROVE  p.field[i] = IF s + i < n THEN p.instr[s + i] ELSE " "
        <5>1. CASE i = x
          <6>1. p.field[i] = " " BY <4>1, <4>2, <5>1
          <6>2. ~(s + i < n) BY <3>2, <3>3, <3>5, <5>1, FieldAssumption
          <6> QED BY <6>1, <6>2
        <5>2. CASE i < x
          <6>1. i # x BY <3>3, <5>2, FieldAssumption
          <6>2. p.field[i] = b.field[i] BY <4>1, <4>2, <6>1
          <6>3. s + i < len /\ s + i < n /\ s + i \in 0 .. InputLen /\ s + i # n
            BY <3>1, <3>2, <3>3, <3>4, <3>5, <5>2, FieldAssumption
          <6>4. p.instr[s + i] = b.instr[s + i] BY <3>6, <3>7, <6>3
          <6> QED BY <4>1, <6>2, <6>3, <6>4
        <5>3. CASE i > x
          <6>1. i # x BY <3>3, <5>3, FieldAssumption
          <6>2. p.field[i] = b.field[i] BY <4>1, <4>2, <6>1
          <6>3. ~(s + i < len) /\ ~(s + i < n)
            BY <3>1, <3>2, <3>3, <3>4, <3>5, <5>3, FieldAssumption
          <6> QED BY <4>1, <6>2, <6>3
        <5>4. i = x \/ i < x \/ i > x BY <3>3, FieldAssumption
        <5> QED BY <5>1, <5>2, <5>3, <5>4
      <4>4. p.field = [i \in 0 .. BoxWidth - 1 |-> p.field[i]] BY <4>1, <4>2
      <4> QED BY <4>3, <4>4
    <3>10. p.scroll = s /\ p.input_x = x /\ x < BoxWidth
      <4>1. x < BoxWidth BY <3>3, <3>4, FieldAssumption
      <4> QED BY <2>4, <3>2, <3>3, <4>1
    <3>11. FieldShows(p, n) BY <3>2, <3>3, <3>5, <3>9, <3>10 DEF FieldShows
    <3> QED BY <3>5, <3>8, <3>11
  <2> QED BY <1>1, <1>2, <2>4, <2>5 DEF InputInv
<1> QED BY <1>3, <1>4

LEMMA InputKeyInv ==
  ASSUME NEW k, NEW f, InputInv(input), InputKey(k, f) PROVE InputInv(input')
<1>1. CASE InputBackspace BY <1>1, BackspaceInv DEF InputBackspace, InField
<1>2. CASE k \in Chars /\ InputType(k) BY <1>2, TypedInv DEF InputType, InField
<1>3. CASE InputButton(k)
  <2>1. PICK b : input' = [input EXCEPT !.button = b] BY <1>3 DEF InputButton
  <2>2. IsInput(input) BY DEF InputInv
  <2>3. /\ IsInput(input') /\ input'.instr = input.instr /\ input'.scroll = input.scroll
        /\ input'.input_x = input.input_x /\ input'.strayed = input.strayed
        /\ input'.field = input.field /\ input'.open = input.open
    BY <2>1, <2>2 DEF IsInput, InputFields
  <2> QED BY <2>3 DEF InputInv, FieldShows
<1>4. CASE InputReturn(k)
  <2>1. IsInput(input') /\ ~input'.open /\ input'.strayed = FALSE
    BY <1>4 DEF InputReturn, InputClosed, IsInput, InputFields
  <2> QED BY <2>1 DEF InputInv
<1>5. CASE InputEscape(k, f)
  <2>1. IsInput(input') /\ ~input'.open /\ input'.strayed = FALSE
    BY <1>5 DEF InputEscape, InputClosed, IsInput, InputFields
  <2> QED BY <2>1 DEF InputInv
<1> QED BY <1>1, <1>2, <1>3, <1>4, <1>5 DEF InputKey

LEMMA InputResizeInv ==
  ASSUME NEW sz, InputInv(input), InputResize(sz) PROVE InputInv(input')
<1>1. input.open /\ input' = input_do_resize(input, sz) BY DEF InputResize
<1>2. IsInput(input) /\ input.strayed \in BOOLEAN BY DEF InputInv
<1>3. CASE input.strayed
  <2>1. InputInv(input_do_resize(input, sz)) BY <1>2, <1>3, InputDrawnInv
  <2> QED BY <1>1, <2>1
<1>4. CASE ~input.strayed
  <2>1. PICK len : HasLen(input.instr, len) /\ FieldShows(input, len) BY <1>1, <1>4 DEF InputInv
  <2>2. input.scroll \in Nat BY <2>1 DEF FieldShows
  <2>3. InputInv(input_do_resize(input, sz)) BY <1>2, <1>4, <2>1, <2>2, InputDrawnInv
  <2> QED BY <1>1, <2>3
<1> QED BY <1>3, <1>4

-----------------------------------------------------------------------------
(* The yes/no box.  A function defined by recursion on its index exists. *)
Recurs(f, N, V, s, g) ==
  /\ f \in [0 .. N -> V]
  /\ \A i \in 0 .. N : f[i] = IF i = 0 THEN s ELSE g[i][f[i - 1]]
LEMMA Recursion ==
  ASSUME NEW N \in Nat, NEW V, NEW s \in V, NEW g \in [1 .. N -> [V -> V]]
  PROVE  \E f : Recurs(f, N, V, s, g)
<1> DEFINE Fits(f, n) == /\ f \in [0 .. n -> V]
                         /\ \A i \in 0 .. n : f[i] = IF i = 0 THEN s ELSE g[i][f[i - 1]]
           S == {n \in Nat : n > N \/ \E f : Fits(f, n)}
<1>1. 0 \in S
  <2>1. Fits([i \in 0 .. 0 |-> s], 0) OBVIOUS
  <2> QED BY <2>1
<1>2. ASSUME NEW n \in Nat, n \in S PROVE n + 1 \in S
  <2>1. CASE n + 1 > N BY <2>1
  <2>2. CASE n + 1 <= N
    <3>1. PICK f : Fits(f, n) BY <1>2, <2>2
    <3> DEFINE h == [i \in 0 .. n + 1 |-> IF i = n + 1 THEN g[n + 1][f[n]] ELSE f[i]]
    <3>2. g[n + 1][f[n]] \in V
      <4>1. n + 1 \in 1 .. N /\ n \in 0 .. n BY <2>2
      <4> QED BY <3>1, <4>1
    <3>3. \A i \in 0 .. n + 1 : i # n + 1 => i \in 0 .. n OBVIOUS
    <3>4. h \in [0 .. n + 1 -> V] BY <3>1, <3>2, <3>3
    <3>5. ASSUME NEW i \in 0 .. n + 1
          PROVE  h[i] = IF i = 0 THEN s ELSE g[i][h[i - 1]]
      <4>1. CASE i = n + 1
        <5>1. i # 0 /\ i - 1 \in 0 .. n + 1 /\ i - 1 = n /\ n # n + 1 BY <4>1
        <5>2. h[i] = g[n + 1][f[n]] /\ h[n] = f[n] BY <4>1, <5>1
        <5> QED BY <4>1, <5>1, <5>2
      <4>2. CASE i # n + 1
        <5>1. i \in 0 .. n /\ (i # 0 => i - 1 \in 0 .. n + 1 /\ i - 1 # n + 1) BY <4>2
        <5> QED BY <3>1, <4>2, <5>1
      <4> QED BY <4>1, <4>2
    <3>6. Fits(h, n + 1) BY <3>4, <3>5
    <3> HIDE DEF h, Fits
    <3> QED BY <3>6
  <2> QED BY <2>1, <2>2
<1>3. Nat \subseteq S
  <2>1. 0 \in S /\ \A n \in Nat : n \in S => n + 1 \in S BY <1>1, <1>2
  <2> HIDE DEF S
  <2> QED BY <2>1, UpFromZero
<1>4. PICK f : Fits(f, N)
  <2>1. N \in S
    <3> HIDE DEF S
    <3> QED BY <1>3
  <2>2. ~(N > N) OBVIOUS
  <2> HIDE DEF Fits
  <2> QED BY <2>1, <2>2
<1> QED BY <1>4 DEF Recurs

LEMMA UpTo ==
  ASSUME NEW N \in Nat, NEW S, 0 \in S, \A n \in 1 .. N : n - 1 \in S => n \in S
  PROVE  \A n \in 0 .. N : n \in S
<1> DEFINE T == {n \in Nat : n > N \/ n \in S}
<1>1. 0 \in T OBVIOUS
<1>2. ASSUME NEW n \in Nat, n \in T PROVE n + 1 \in T
  <2>1. CASE n + 1 > N BY <2>1
  <2>2. CASE n + 1 <= N
    <3>1. n + 1 \in 1 .. N /\ (n + 1) - 1 = n /\ ~(n > N) BY <2>2
    <3>2. n \in S BY <1>2, <3>1
    <3> QED BY <3>1, <3>2
  <2> QED BY <2>1, <2>2
<1>3. Nat \subseteq T
  <2>1. 0 \in T /\ \A n \in Nat : n \in T => n + 1 \in T BY <1>1, <1>2
  <2> HIDE DEF T
  <2> QED BY <2>1, UpFromZero
<1>4. ASSUME NEW n \in 0 .. N PROVE n \in S
  <2>1. n \in T /\ ~(n > N)
    <3> HIDE DEF T
    <3> QED BY <1>3
  <2> QED BY <2>1
<1> QED BY <1>4

IsWords(words) ==
  /\ Len(words) \in Nat
  /\ \A i \in 1 .. Len(words) : words[i].len \in Nat /\ words[i].gap \in Nat

LEMMA PromptLen == ASSUME NEW words, IsWords(words) PROVE prompt_len(words) \in Nat
<1> DEFINE F(f) == [n \in 0 .. Len(words) |->
                      IF n = 0 THEN 0 ELSE f[n - 1] + words[n].len + words[n].gap]
<1>1. PICK N \in Nat : N = Len(words) BY DEF IsWords
<1>2. PICK upto : upto = CHOOSE f : f = F(f) OBVIOUS
<1>3. prompt_len(words) = upto[N] BY <1>1, <1>2 DEF prompt_len
<1>4. \E f : f = F(f)
  <2>1. PICK g : g = [i \in 1 .. N |-> [v \in Nat |-> v + words[i].len + words[i].gap]] OBVIOUS
  <2>2. g \in [1 .. N -> [Nat -> Nat]]
    <3>1. ASSUME NEW i \in 1 .. N PROVE g[i] \in [Nat -> Nat]
      <4>1. words[i].len \in Nat /\ words[i].gap \in Nat BY <1>1 DEF IsWords
      <4>2. g[i] = [v \in Nat |-> v + words[i].len + words[i].gap] BY <2>1
      <4> QED BY <4>1, <4>2
    <3> QED BY <2>1, <3>1
  <2>3. PICK f : Recurs(f, N, Nat, 0, g) BY <1>1, <2>2, Recursion
  <2>4. ASSUME NEW i \in 0 .. N
        PROVE  f[i] = IF i = 0 THEN 0 ELSE f[i - 1] + words[i].len + words[i].gap
    <3>1. CASE i = 0 BY <2>3, <3>1 DEF Recurs
    <3>2. CASE i # 0
      <4>1. i \in 1 .. N /\ i - 1 \in 0 .. N BY <1>1, <3>2
      <4>2. f[i - 1] \in Nat BY <2>3, <4>1 DEF Recurs
      <4>3. g[i][f[i - 1]] = f[i - 1] + words[i].len + words[i].gap BY <2>1, <4>1, <4>2
      <4> QED BY <2>3, <3>2, <4>3 DEF Recurs
    <3> QED BY <3>1, <3>2
  <2>5. f = [i \in 0 .. N |-> f[i]] BY <2>3 DEF Recurs
  <2>6. f = [i \in 0 .. N |-> IF i = 0 THEN 0 ELSE f[i - 1] + words[i].len + words[i].gap]
    BY ONLY <2>4, <2>5
  <2>7. f = F(f) BY <1>1, <2>6
  <2> HIDE DEF F
  <2> QED BY <2>7
<1>5. upto = F(upto)
  <2> HIDE DEF F
  <2> QED BY <1>2, <1>4
<1>6. \A n \in 0 .. N : upto[n] = IF n = 0 THEN 0 ELSE upto[n - 1] + words[n].len + words[n].gap
  BY <1>1, <1>5
<1>7. PICK S : S = {n \in 0 .. N : upto[n] \in Nat} OBVIOUS
<1>8. 0 \in S BY <1>1, <1>6, <1>7
<1>9. ASSUME NEW n \in 1 .. N, n - 1 \in S PROVE n \in S
  <2>1. n \in 0 .. N /\ n # 0 BY <1>1
  <2>2. upto[n - 1] \in Nat /\ words[n].len \in Nat /\ words[n].gap \in Nat
    BY <1>1, <1>7, <1>9 DEF IsWords
  <2> QED BY <1>6, <1>7, <2>1, <2>2
<1>10. \A n \in 0 .. N : n \in S BY <1>1, <1>8, <1>9, UpTo
<1> QED BY <1>1, <1>3, <1>7, <1>10

(* What is printed of a prompt: from the margin, one behind the other, and    *)
(* inside the width if a word is no wider.                                    *)
PutRec == [y : Int, x : Int, len : Nat]
Wraps(p, width) ==
  \A i \in 1 .. Len(p) :
    /\ 3 <= p[i].x /\ (p[i].len <= width - 3 => p[i].x + p[i].len <= width)
    /\ i > 1 => \/ p[i].y > p[i - 1].y
                \/ p[i].y = p[i - 1].y /\ p[i].x > p[i - 1].x + p[i - 1].len
WrapState == [y : Int, x : Int, newl : BOOLEAN, put : Seq(PutRec)]
Behind(st) ==
  Len(st.put) > 0 =>
    \/ st.y > st.put[Len(st.put)].y
    \/ st.y = st.put[Len(st.put)].y /\ st.x > st.put[Len(st.put)].x + st.put[Len(st.put)].len
WrapInv(st, width) == st \in WrapState /\ st.x >= 3 /\ Wraps(st.put, width) /\ Behind(st)

WordPlaced(r, st, width, y, x, len, n, newl) ==
  /\ x >= 3 /\ (len <= width - 3 => x + len <= width)
  /\ y > st.y \/ (y = st.y /\ x = st.x)
  /\ r = [y |-> y, x |-> x + len + n, newl |-> newl,
          put |-> Append(st.put, [y |-> y, x |-> x, len |-> len])]

LEMMA WordPut ==
  ASSUME NEW width \in Int, NEW st, WrapInv(st, width), NEW y \in Int, NEW x \in Int,
         NEW len \in Nat, NEW n \in {1, 2}, NEW newl \in BOOLEAN,
         NEW r, WordPlaced(r, st, width, y, x, len, n, newl)
  PROVE  WrapInv(r, width)
<1>0. /\ x >= 3 /\ (len <= width - 3 => x + len <= width)
      /\ y > st.y \/ (y = st.y /\ x = st.x)
  BY DEF WordPlaced
<1>1. PICK e : e = [y |-> y, x |-> x, len |-> len] OBVIOUS
<1>2. e \in PutRec BY <1>1 DEF PutRec
<1>3. PICK p : p = st.put OBVIOUS
<1>4. p \in Seq(PutRec) /\ st.y \in Int /\ st.x \in Int BY <1>3 DEF WrapInv, WrapState
<1>5. PICK q : q = Append(p, e) OBVIOUS
<1>6. PICK N \in Nat : N = Len(p) BY <1>4
<1>7. /\ q \in Seq(PutRec) /\ Len(q) = N + 1 /\ q[N + 1] = e
      /\ \A i \in 1 .. N : q[i] = p[i] /\ p[i] \in PutRec
  BY <1>2, <1>4, <1>5, <1>6
<1>8. Wraps(q, width)
  <2>1. ASSUME NEW i \in 1 .. N + 1
        PROVE  /\ 3 <= q[i].x /\ (q[i].len <= width - 3 => q[i].x + q[i].len <= width)
               /\ i > 1 => \/ q[i].y > q[i - 1].y
                           \/ q[i].y = q[i - 1].y /\ q[i].x > q[i - 1].x + q[i - 1].len
    <3>1. CASE i = N + 1
      <4>1. q[i].x = x /\ q[i].y = y /\ q[i].len = len BY <1>1, <1>7, <3>1
      <4>2. 3 <= q[i].x /\ (q[i].len <= width - 3 => q[i].x + q[i].len <= width) BY <1>0, <4>1
      <4>3. ASSUME i > 1 PROVE \/ q[i].y > q[i - 1].y
                               \/ q[i].y = q[i - 1].y /\ q[i].x > q[i - 1].x + q[i - 1].len
        <5>1. i - 1 = N /\ N \in 1 .. N /\ N > 0 BY <1>6, <3>1, <4>3
        <5>2. q[i - 1] = p[N] /\ p[N] \in PutRec BY <1>7, <5>1
        <5>3. \/ st.y > p[N].y
              \/ st.y = p[N].y /\ st.x > p[N].x + p[N].len
          BY <1>3, <1>6, <5>1 DEF WrapInv, Behind
        <5>4. p[N].y \in Int /\ p[N].x \in Int /\ p[N].len \in Nat BY <5>2 DEF PutRec
        <5> QED BY <1>0, <1>4, <4>1, <5>2, <5>3, <5>4
      <4> QED BY <4>2, <4>3
    <3>2. CASE i # N + 1
      <4>1. N \in Nat BY <1>6
      <4>5. i \in 1 .. N BY <3>2, <4>1
      <4>6. i > 1 => i - 1 \in 1 .. N BY <4>1, <4>5
      <4>2. q[i] = p[i] /\ (i > 1 => q[i - 1] = p[i - 1]) BY <1>7, <4>5, <4>6
      <4>3. Wraps(p, width) BY <1>3 DEF WrapInv
      <4> QED BY <1>6, <4>5, <4>2, <4>3 DEF Wraps
    <3> QED BY <3>1, <3>2
  <2> QED BY <1>7, <2>1 DEF Wraps
<1>9. r = [y |-> y, x |-> x + len + n, newl |-> newl, put |-> q]
  BY <1>1, <1>3, <1>5 DEF WordPlaced
<1>10. r.y = y /\ r.x = x + len + n /\ r.put = q BY <1>9
<1>11. r \in WrapState
  <2>1. x + len + n \in Int OBVIOUS
  <2>2. q \in Seq(PutRec) BY <1>7
  <2> QED BY ONLY <1>9, <2>1, <2>2, y \in Int, newl \in BOOLEAN DEF WrapState
<1>12. Behind(r)
  <2>1. Len(q) = N + 1 /\ q[N + 1].y = y /\ q[N + 1].x = x /\ q[N + 1].len = len BY <1>1, <1>7
  <2>2. x + len + n > x + len OBVIOUS
  <2> QED BY <1>10, <2>1, <2>2 DEF Behind
<1>13. r.x >= 3 BY <1>0, <1>10
<1> QED BY <1>8, <1>10, <1>11, <1>12, <1>13 DEF WrapInv

LEMMA WrapWord ==
  ASSUME NEW width \in Int, NEW words, IsWords(words), NEW i \in 1 .. Len(words),
         NEW st, WrapInv(st, width)
  PROVE  WrapInv(wrap_word(st, words, i, width, 3), width)
<1>1. PICK len \in Nat : len = words[i].len BY DEF IsWords
<1>2. PICK gap \in Nat : gap = words[i].gap BY DEF IsWords
<1>3. st.x \in Int /\ st.y \in Int /\ st.x >= 3 BY DEF WrapInv, WrapState
<1>4. PICK r : r = wrap_word(st, words, i, width, 3) OBVIOUS
<1>5. \E wrap \in BOOLEAN :
        /\ len > width - st.x => wrap
        /\ r = [y |-> IF wrap THEN st.y + 1 ELSE st.y,
                x |-> (IF wrap THEN 3 ELSE st.x) + len + (IF gap > 1 THEN 2 ELSE 1),
                newl |-> gap > 1,
                put |-> Append(st.put, [y |-> IF wrap THEN st.y + 1 ELSE st.y,
                                        x |-> IF wrap THEN 3 ELSE st.x, len |-> len])]
  <2>1. PICK rest : rest = SubSeq(words, i + 1, Len(words)) OBVIOUS
  <2>2. PICK follow : follow = IF gap > 1 \/ rest = <<>> THEN 0 ELSE rest[1].len OBVIOUS
  <2>3. PICK wrap \in BOOLEAN :
          wrap = (\/ len > width - st.x
                  \/ /\ st.newl /\ len < 4 /\ gap > 0
                     /\ len + gap + prompt_len(rest) > width - st.x
                     /\ IF gap > 1 \/ (rest # <<>> /\ rest[1].gap > 0)
                        THEN len + 1 + follow > width - st.x ELSE TRUE)
    OBVIOUS
  <2>4. len > width - st.x => wrap BY <2>3
  <2>5. r = [y |-> IF wrap THEN st.y + 1 ELSE st.y,
             x |-> (IF wrap THEN 3 ELSE st.x) + len + (IF gap > 1 THEN 2 ELSE 1),
             newl |-> gap > 1,
             put |-> Append(st.put, [y |-> IF wrap THEN st.y + 1 ELSE st.y,
                                     x |-> IF wrap THEN 3 ELSE st.x, len |-> len])]
    BY <1>1, <1>2, <1>4, <2>1, <2>2, <2>3 DEF wrap_word
  <2> QED BY <2>4, <2>5
<1>6. PICK wrap \in BOOLEAN :
        /\ len > width - st.x => wrap
        /\ r = [y |-> IF wrap THEN st.y + 1 ELSE st.y,
                x |-> (IF wrap THEN 3 ELSE st.x) + len + (IF gap > 1 THEN 2 ELSE 1),
                newl |-> gap > 1,
                put |-> Append(st.put, [y |-> IF wrap THEN st.y + 1 ELSE st.y,
                                        x |-> IF wrap THEN 3 ELSE st.x, len |-> len])]
  BY <1>5
<1>7. PICK y \in Int : y = IF wrap THEN st.y + 1 ELSE st.y BY <1>3
<1>8. PICK x \in Int : x = IF wrap THEN 3 ELSE st.x BY <1>3
<1>9. PICK n \in {1, 2} : n = IF gap > 1 THEN 2 ELSE 1 OBVIOUS
<1>10. PICK newl \in BOOLEAN : newl = (gap > 1)
  <2>1. CASE gap > 1
    <3>1. (gap > 1) = TRUE BY <2>1
    <3> QED BY <3>1
  <2>2. CASE ~(gap > 1)
    <3>1. (gap > 1) = FALSE BY <2>2
    <3> QED BY <3>1
  <2> QED BY <2>1, <2>2
<1>11. r = [y |-> y, x |-> x + len + n, newl |-> newl,
            put |-> Append(st.put, [y |-> y, x |-> x, len |-> len])]
  BY <1>6, <1>7, <1>8, <1>9, <1>10
<1>12. x >= 3 BY <1>3, <1>8
<1>13. len <= width - 3 => x + len <= width BY <1>1, <1>3, <1>6, <1>8
<1>14. y > st.y \/ (y = st.y /\ x = st.x) BY <1>3, <1>6, <1>7, <1>8
<1>15. WrapInv(r, width)
  <2>1. WordPlaced(r, st, width, y, x, len, n, newl) BY <1>11, <1>12, <1>13, <1>14 DEF WordPlaced
  <2>2. y \in Int /\ x \in Int /\ len \in Nat /\ n \in {1, 2} /\ newl \in BOOLEAN
    BY <1>1, <1>7, <1>8, <1>9, <1>10
  <2> QED BY ONLY width \in Int, WrapInv(st, width), <2>1, <2>2, WordPut, Zenon
<1> QED BY <1>4, <1>15

LEMMA Autowrap ==
  ASSUME NEW words, IsWords(words), NEW width \in Int,
         NEW p, p = print_autowrap(words, width, 1, 3)
  PROVE  p \in Seq(PutRec) /\ Wraps(p, width)
<1> DEFINE start == [y |-> 1, x |-> 3, newl |-> TRUE, put |-> <<>>]
           F(f) == [i \in 0 .. Len(words) |->
                      IF i = 0 THEN start ELSE wrap_word(f[i - 1], words, i, width, 3)]
<1>1. PICK l \in Nat : l = prompt_len(words) BY PromptLen
<1>2. CASE l <= width - 3 * 2
  <2>1. PICK x : x = (width - l) \div 2 OBVIOUS
  <2>2. PICK e : e = [y |-> 1, x |-> x, len |-> l] OBVIOUS
  <2>3. p = <<e>>
    <3>1. p = <<[y |-> 1, x |-> (width - l) \div 2, len |-> l]>>
      BY <1>1, <1>2 DEF print_autowrap
    <3> QED BY <2>1, <2>2, <3>1
  <2>4. x \in Int /\ x >= 3 /\ x + l <= width BY <1>1, <1>2, <2>1
  <2>5. e \in PutRec BY <1>1, <2>2, <2>4 DEF PutRec
  <2>6. p \in Seq(PutRec) /\ Len(p) = 1 /\ p[1] = e
    <3>1. Len(<<e>>) = 1 /\ <<e>>[1] = e OBVIOUS
    <3>2. <<e>> \in Seq(PutRec) BY <2>5
    <3> QED BY <2>3, <3>1, <3>2
  <2>7. e.x = x /\ e.len = l BY <2>2
  <2>8. ASSUME NEW i \in 1 .. Len(p) PROVE p[i] = e /\ ~(i > 1)
    <3>1. Len(p) = 1 BY <2>6
    <3>2. i \in 1 .. 1 BY <3>1
    <3>3. i = 1 BY <3>2
    <3> QED BY <2>6, <3>3
  <2>9. 3 <= e.x /\ (e.len <= width - 3 => e.x + e.len <= width) BY <2>4, <2>7
  <2> QED BY <2>6, <2>8, <2>9 DEF Wraps
<1>3. CASE ~(l <= width - 3 * 2)
  <2>1. PICK N \in Nat : N = Len(words) BY DEF IsWords
  <2>2. PICK wrapped : wrapped = CHOOSE f : f = F(f) OBVIOUS
  <2>3. p = wrapped[N].put BY <1>1, <1>3, <2>1, <2>2 DEF print_autowrap
  <2>4. PICK V : V = {st \in WrapState : WrapInv(st, width)} OBVIOUS
  <2>5. start \in V
    <3>1. <<>> \in Seq(PutRec) /\ Len(<<>>) = 0 OBVIOUS
    <3>2. start \in WrapState BY <3>1 DEF WrapState
    <3>3. start.put = <<>> /\ start.x = 3 OBVIOUS
    <3>4. Wraps(start.put, width) BY <3>1, <3>3 DEF Wraps
    <3>5. Behind(start) BY <3>1, <3>3 DEF Behind
    <3> QED BY <2>4, <3>2, <3>3, <3>4, <3>5 DEF WrapInv
  <2>6. ASSUME NEW i \in 1 .. N, NEW st \in V PROVE wrap_word(st, words, i, width, 3) \in V
    <3>1. WrapInv(st, width) /\ i \in 1 .. Len(words) BY <2>1, <2>4
    <3>2. WrapInv(wrap_word(st, words, i, width, 3), width) BY <3>1, WrapWord
    <3> QED BY <2>4, <3>2 DEF WrapInv
  <2>7. \E f : f = F(f)
    <3>1. PICK g : g = [i \in 1 .. N |-> [st \in V |-> wrap_word(st, words, i, width, 3)]] OBVIOUS
    <3>2. g \in [1 .. N -> [V -> V]] BY <2>6, <3>1
    <3>3. PICK f : Recurs(f, N, V, start, g)
      <4> HIDE DEF start
      <4> QED BY <2>1, <2>5, <3>2, Recursion
    <3>4. ASSUME NEW i \in 0 .. N
          PROVE  f[i] = IF i = 0 THEN start ELSE wrap_word(f[i - 1], words, i, width, 3)
      <4>1. CASE i = 0 BY <3>3, <4>1 DEF Recurs
      <4>2. CASE i # 0
        <5>1. i \in 1 .. N /\ i - 1 \in 0 .. N BY <2>1, <4>2
        <5>2. f[i - 1] \in V BY <3>3, <5>1 DEF Recurs
        <5>3. g[i][f[i - 1]] = wrap_word(f[i - 1], words, i, width, 3) BY <3>1, <5>1, <5>2
        <5> QED BY <3>3, <4>2, <5>3 DEF Recurs
      <4> QED BY <4>1, <4>2
    <3>5. f = [i \in 0 .. N |-> f[i]] BY <3>3 DEF Recurs
    <3> HIDE DEF start
    <3>6. f = [i \in 0 .. N |-> IF i = 0 THEN start ELSE wrap_word(f[i - 1], words, i, width, 3)]
      BY ONLY <3>4, <3>5
    <3>7. f = F(f) BY <2>1, <3>6
    <3> HIDE DEF F
    <3> QED BY <3>7
  <2>8. wrapped = F(wrapped)
    <3> HIDE DEF F
    <3> QED BY <2>2, <2>7
  <2> HIDE DEF start
  <2>9. \A i \in 0 .. N : wrapped[i] = IF i = 0 THEN start
                                       ELSE wrap_word(wrapped[i - 1], words, i, width, 3)
    BY <2>1, <2>8
  <2>10. PICK S : S = {i \in 0 .. N : wrapped[i] \in V} OBVIOUS
  <2>11. 0 \in S BY <2>1, <2>5, <2>9, <2>10
  <2>12. ASSUME NEW i \in 1 .. N, i - 1 \in S PROVE i \in S
    <3>1. i \in 0 .. N /\ i # 0 BY <2>1
    <3>2. wrapped[i - 1] \in V BY <2>10, <2>12
    <3>3. wrap_word(wrapped[i - 1], words, i, width, 3) \in V BY <2>6, <3>2
    <3> QED BY <2>9, <2>10, <3>1, <3>3
  <2>13. \A i \in 0 .. N : i \in S BY <2>1, <2>11, <2>12, UpTo
  <2>14. WrapInv(wrapped[N], width) BY <2>1, <2>4, <2>10, <2>13
  <2>15. wrapped[N].put \in Seq(PutRec) BY <2>14 DEF WrapInv, WrapState
  <2> QED BY <2>3, <2>14, <2>15 DEF WrapInv
<1> QED BY <1>2, <1>3

YesnoFields == {"open", "button", "words", "width", "prompt", "result"}
IsYesno(b) == b = [f \in YesnoFields |-> b[f]]
YesnoInv(b) ==
  /\ IsYesno(b)
  /\ b.open => /\ IsWords(b.words) /\ b.width \in Int
               /\ b.prompt \in Seq(PutRec) /\ Wraps(b.prompt, b.width - 2)

LEMMA YesnoDrawnInv ==
  ASSUME NEW b, IsYesno(b), IsWords(b.words), b.width \in Int, NEW sz
  PROVE  YesnoInv(yesno_do_resize(b, sz))
<1>1. PICK r : r = yesno_do_resize(b, sz) OBVIOUS
<1>2. CASE yesno_too_small(sz)
  <2>1. r = [YesnoClosed EXCEPT !.result = "too_small"] BY <1>1, <1>2 DEF yesno_do_resize
  <2>2. IsYesno(r) /\ ~r.open BY <2>1 DEF YesnoClosed, IsYesno, YesnoFields
  <2> QED BY <1>1, <2>2 DEF YesnoInv
<1>3. CASE ~yesno_too_small(sz)
  <2>1. PICK p : p = print_autowrap(b.words, b.width - 2, 1, 3) OBVIOUS
  <2>2. r = [b EXCEPT !.open = TRUE, !.prompt = p] BY <1>1, <1>3, <2>1 DEF yesno_do_resize
  <2>3. IsYesno(r) /\ r.words = b.words /\ r.width = b.width /\ r.prompt = p
    BY <2>2 DEF IsYesno, YesnoFields
  <2>4. PICK width \in Int : width = b.width - 2 OBVIOUS
  <2>5. p \in Seq(PutRec) /\ Wraps(p, width) BY <2>1, <2>4, Autowrap
  <2> QED BY <1>1, <2>3, <2>4, <2>5 DEF YesnoInv
<1> QED BY <1>2, <1>3

LEMMA YesnoBoxInv ==
  ASSUME NEW words, IsWords(words), NEW width \in Int, NEW sz
  PROVE  YesnoInv(dialog_yesno(words, width, sz))
<1>1. PICK b : b = [YesnoClosed EXCEPT !.words = words, !.width = width] OBVIOUS
<1>2. IsYesno(b) /\ b.words = words /\ b.width = width
  BY <1>1 DEF YesnoClosed, IsYesno, YesnoFields
<1>3. YesnoInv(yesno_do_resize(b, sz)) BY <1>2, YesnoDrawnInv
<1> QED BY <1>1, <1>3 DEF dialog_yesno

LEMMA YesnoKeyInv ==
  ASSUME NEW k, NEW f, YesnoInv(yesno), YesnoKey(k, f) PROVE YesnoInv(yesno')
<1>1. CASE YesnoButton
  <2>1. PICK b : yesno' = [yesno EXCEPT !.button = b] BY <1>1 DEF YesnoButton
  <2>2. IsYesno(yesno) BY DEF YesnoInv
  <2>3. /\ IsYesno(yesno') /\ yesno'.words = yesno.words /\ yesno'.width = yesno.width
        /\ yesno'.prompt = yesno.prompt /\ yesno'.open = yesno.open
    BY <2>1, <2>2 DEF IsYesno, YesnoFields
  <2> QED BY <2>3 DEF YesnoInv
<1>2. CASE YesnoReturn(k)
  <2>1. IsYesno(yesno') /\ ~yesno'.open
    BY <1>2 DEF YesnoReturn, YesnoClosed, IsYesno, YesnoFields
  <2> QED BY <2>1 DEF YesnoInv
<1>3. CASE YesnoEscape(f)
  <2>1. IsYesno(yesno') /\ ~yesno'.open
    BY <1>3 DEF YesnoEscape, YesnoClosed, IsYesno, YesnoFields
  <2> QED BY <2>1 DEF YesnoInv
<1> QED BY <1>1, <1>2, <1>3 DEF YesnoKey

LEMMA YesnoResizeInv ==
  ASSUME NEW sz, YesnoInv(yesno), YesnoResize(sz) PROVE YesnoInv(yesno')
<1>1. yesno.open /\ yesno' = yesno_do_resize(yesno, sz) BY DEF YesnoResize
<1>2. IsYesno(yesno) /\ IsWords(yesno.words) /\ yesno.width \in Int BY <1>1 DEF YesnoInv
<1>3. YesnoInv(yesno_do_resize(yesno, sz)) BY <1>2, YesnoDrawnInv
<1> QED BY <1>1, <1>3

-----------------------------------------------------------------------------
(* The text box: its line ends are counted. *)
RankOf(S, p) == Cardinality({q \in S : q < p})

LEMMA Counted ==
  ASSUME NEW n \in Nat, NEW S \in SUBSET (0 .. n - 1), NEW p
  PROVE  /\ IsFiniteSet(S) /\ Cardinality(S) \in Nat
         /\ IsFiniteSet({q \in S : q < p}) /\ RankOf(S, p) \in Nat
         /\ RankOf(S, p) <= Cardinality(S)
<1>1. IsFiniteSet(0 .. n - 1) BY FS_Interval
<1>2. IsFiniteSet(S) BY <1>1, FS_Subset
<1>3. {q \in S : q < p} \subseteq S OBVIOUS
<1>4. IsFiniteSet({q \in S : q < p}) /\ Cardinality({q \in S : q < p}) <= Cardinality(S)
  BY <1>2, <1>3, FS_Subset
<1> QED BY <1>2, <1>4, FS_CardinalityType DEF RankOf

LEMMA RankGrows ==
  ASSUME NEW n \in Nat, NEW S \in SUBSET (0 .. n - 1), NEW p \in S, NEW r \in Int, p < r
  PROVE  RankOf(S, p) + 1 <= RankOf(S, r)
<1>1. PICK A : A = {q \in S : q < p} OBVIOUS
<1>2. PICK B : B = {q \in S : q < r} OBVIOUS
<1>3. IsFiniteSet(A) /\ IsFiniteSet(B) /\ Cardinality(A) \in Nat /\ Cardinality(B) \in Nat
  BY <1>1, <1>2, Counted DEF RankOf
<1>4. p \in Int /\ p \notin A BY <1>1
<1>5. IsFiniteSet(A \cup {p}) /\ Cardinality(A \cup {p}) = Cardinality(A) + 1
  BY <1>3, <1>4, FS_AddElement
<1>6. A \cup {p} \subseteq B
  <2>1. ASSUME NEW q \in S, q < p PROVE q < r
    <3>1. q \in Int /\ p \in Int OBVIOUS
    <3> QED BY <2>1, <3>1
  <2> QED BY <1>1, <1>2, <2>1
<1>7. Cardinality(A \cup {p}) <= Cardinality(B) BY <1>3, <1>6, FS_Subset
<1> QED BY <1>1, <1>2, <1>5, <1>7 DEF RankOf

(* The first element from p on is the one that as many precede as p. *)
LEMMA FirstFrom ==
  ASSUME NEW n \in Nat, NEW S \in SUBSET (0 .. n - 1), NEW p \in Int,
         NEW From, From = {q \in S : q >= p}, From # {}
  PROVE  Min(From) \in S /\ Min(From) >= p /\ RankOf(S, Min(From)) = RankOf(S, p)
<1>1. From \in SUBSET Nat
  <2>1. \A q \in S : q \in Nat OBVIOUS
  <2> QED BY <2>1
<1>2. PICK m : m = Min(From) OBVIOUS
<1>3. m \in From /\ \A y \in From : m <= y BY <1>1, <1>2, MinOf
<1>4. m \in S /\ m >= p /\ m \in Nat BY <1>3
<1>5. ASSUME NEW q \in S PROVE q < m <=> q < p
  <2>1. q \in Int OBVIOUS
  <2>2. ~(q < p) => q \in From BY <2>1
  <2>3. ~(q < p) => m <= q BY <1>3, <2>2
  <2> QED BY <1>4, <2>1, <2>3
<1>6. {q \in S : q < m} = {q \in S : q < p} BY <1>5
<1> QED BY <1>2, <1>4, <1>6 DEF RankOf

(* There are elements from p on unless all precede p. *)
LEMMA NoneFrom ==
  ASSUME NEW n \in Nat, NEW S \in SUBSET (0 .. n - 1), NEW p \in Int
  PROVE  {q \in S : q >= p} = {} <=> RankOf(S, p) = Cardinality(S)
<1>1. PICK A : A = {q \in S : q < p} OBVIOUS
<1>2. IsFiniteSet(S) /\ IsFiniteSet(A) /\ A \subseteq S BY <1>1, Counted
<1>3. CASE {q \in S : q >= p} = {}
  <2>1. ASSUME NEW q \in S PROVE q < p
    <3>1. q \in Int /\ ~(q >= p) BY <1>3
    <3> QED BY <3>1
  <2>2. A = S BY <1>1, <2>1
  <2> QED BY <1>1, <1>3, <2>2 DEF RankOf
<1>4. CASE {q \in S : q >= p} # {}
  <2>1. PICK q \in S : q >= p BY <1>4
  <2>2. q \in Int BY <2>1
  <2>3. q \notin A BY <1>1, <2>1, <2>2
  <2>4. A # S BY <2>1, <2>3
  <2>5. Cardinality(A) # Cardinality(S) BY <1>2, <2>4, FS_Subset
  <2> QED BY <1>1, <1>4, <2>5 DEF RankOf
<1> QED BY <1>3, <1>4

LEMMA RankNext ==
  ASSUME NEW n \in Nat, NEW S \in SUBSET (0 .. n - 1), NEW p \in S
  PROVE  RankOf(S, p + 1) = RankOf(S, p) + 1
<1>1. p \in Int OBVIOUS
<1>2. PICK A : A = {q \in S : q < p} OBVIOUS
<1>3. {q \in S : q < p + 1} = A \cup {p}
  <2>1. ASSUME NEW q \in S PROVE q < p + 1 <=> q < p \/ q = p
    <3>1. q \in Int OBVIOUS
    <3> QED BY <1>1, <3>1
  <2> QED BY <1>2, <2>1
<1>8. p \notin A BY <1>1, <1>2
<1>4. IsFiniteSet(A) /\ p \notin A BY <1>2, <1>8, Counted
<1>5. Cardinality(A \cup {p}) = Cardinality(A) + 1 BY <1>4, FS_AddElement
<1>6. RankOf(S, p) = Cardinality(A) BY <1>2 DEF RankOf
<1>7. RankOf(S, p + 1) = Cardinality(A \cup {p}) BY <1>3 DEF RankOf
<1> QED BY <1>5, <1>6, <1>7

LEMMA NthIs ==
  ASSUME NEW n \in Nat, NEW S \in SUBSET (0 .. n - 1), NEW p \in S, NEW i, i - 1 = RankOf(S, p)
  PROVE  nth(S, i) = p
<1>1. p \in S /\ Cardinality({q \in S : q < p}) = i - 1 BY DEF RankOf
<1>2. ASSUME NEW r \in S, Cardinality({q \in S : q < r}) = i - 1 PROVE r = p
  <2>1. RankOf(S, r) = RankOf(S, p) BY <1>1, <1>2 DEF RankOf
  <2>5. r \in Int /\ p \in Int OBVIOUS
  <2>6. RankOf(S, p) \in Nat BY Counted
  <2>2. r \in Int /\ p \in Int /\ RankOf(S, p) \in Nat BY <2>5, <2>6
  <2>3. CASE r < p
    <3>1. RankOf(S, r) + 1 <= RankOf(S, p) BY <2>2, <2>3, RankGrows
    <3> QED BY <2>1, <2>2, <3>1
  <2>4. CASE p < r
    <3>1. RankOf(S, p) + 1 <= RankOf(S, r) BY <2>2, <2>4, RankGrows
    <3> QED BY <2>1, <2>2, <3>1
  <2> QED BY <2>2, <2>3, <2>4
<1> QED BY <1>1, <1>2 DEF nth

LEMMA NthExists ==
  ASSUME NEW n \in Nat, NEW S \in SUBSET (0 .. n - 1), NEW i \in 1 .. Cardinality(S)
  PROVE  nth(S, i) \in S /\ RankOf(S, nth(S, i)) = i - 1
<1>1. PICK N \in Nat : N = Cardinality(S) BY Counted
<1>2. PICK D : D = {c \in 0 .. N : c < N => \E p \in S : RankOf(S, p) = c} OBVIOUS
<1>3. 0 \in D
  <2>1. ASSUME 0 < N PROVE \E p \in S : RankOf(S, p) = 0
    <3>1. PICK From : From = {q \in S : q >= 0} OBVIOUS
    <3>2. {q \in S : q < 0} = {}
      <4>1. \A q \in S : q \in Nat OBVIOUS
      <4>2. \A q \in S : ~(q < 0) BY <4>1
      <4> QED BY <4>2
    <3>3. RankOf(S, 0) = 0 BY <3>2, FS_EmptySet DEF RankOf
    <3>4. From # {} BY <1>1, <2>1, <3>1, <3>3, NoneFrom
    <3>6. PICK z \in Int : z = 0 OBVIOUS
    <3>7. From = {q \in S : q >= z} BY <3>1, <3>6
    <3>5. Min(From) \in S /\ RankOf(S, Min(From)) = RankOf(S, 0)
      BY <3>4, <3>6, <3>7, FirstFrom
    <3> QED BY <3>3, <3>5
  <2> QED BY <1>1, <1>2, <2>1
<1>4. ASSUME NEW c \in 1 .. N, c - 1 \in D PROVE c \in D
  <2>1. ASSUME c < N PROVE \E p \in S : RankOf(S, p) = c
    <3>1. PICK p \in S : RankOf(S, p) = c - 1 BY <1>1, <1>2, <1>4, <2>1
    <3>2. p \in Int /\ p + 1 \in Int OBVIOUS
    <3>3. RankOf(S, p + 1) = c
      <4>1. RankOf(S, p + 1) = RankOf(S, p) + 1 BY RankNext
      <4>2. c \in Int BY <1>1
      <4> QED BY <3>1, <4>1, <4>2
    <3>7. PICK z \in Int : z = p + 1 BY <3>2
    <3>4. PICK From : From = {q \in S : q >= z} OBVIOUS
    <3>8. RankOf(S, z) = c /\ c # Cardinality(S) BY <1>1, <2>1, <3>3, <3>7
    <3>5. From # {} BY <3>4, <3>7, <3>8, NoneFrom
    <3>6. Min(From) \in S /\ RankOf(S, Min(From)) = RankOf(S, z) BY <3>4, <3>5, <3>7, FirstFrom
    <3> QED BY <3>6, <3>8
  <2> QED BY <1>1, <1>2, <2>1
<1>5. \A c \in 0 .. N : c \in D BY <1>1, <1>3, <1>4, UpTo
<1>6. i - 1 \in 0 .. N /\ i - 1 < N BY <1>1
<1>7. PICK p \in S : RankOf(S, p) = i - 1 BY <1>2, <1>5, <1>6
<1>8. nth(S, i) = p BY <1>7, NthIs
<1> QED BY <1>7, <1>8

(* A text of n characters that ends in a newline, with newlines at N; line k  *)
(* begins behind the k-th of them.                                            *)
Text(N, n) == n \in Nat \ {0} /\ N \in SUBSET (0 .. n - 1) /\ n - 1 \in N
start(N, k) == IF k = 0 THEN 0 ELSE nth(N, k) + 1

LEMMA StartFacts ==
  ASSUME NEW N, NEW n, Text(N, n), NEW k \in 0 .. Cardinality(N)
  PROVE  /\ Cardinality(N) \in Nat \ {0} /\ k \in Nat
         /\ start(N, k) \in 0 .. n /\ RankOf(N, start(N, k)) = k
         /\ start(N, k) = 0 <=> k = 0
         /\ start(N, k) = n <=> k = Cardinality(N)
         /\ k > 0 => start(N, k) - 1 \in N /\ RankOf(N, start(N, k) - 1) = k - 1
<1>1. n \in Nat /\ N \in SUBSET (0 .. n - 1) /\ n - 1 \in N /\ n > 0 BY DEF Text
<1>2. PICK M \in Nat : M = Cardinality(N) BY <1>1, Counted
<1>3. M # 0
  <2>1. IsFiniteSet(N) /\ N # {} BY <1>1, Counted
  <2> QED BY <1>2, <2>1, FS_EmptySet
<1>4. RankOf(N, 0) = 0
  <2>1. \A q \in N : ~(q < 0)
    <3>1. \A q \in N : q \in Nat BY <1>1
    <3> QED BY <3>1
  <2>2. {q \in N : q < 0} = {} BY <2>1
  <2> QED BY <2>2, FS_EmptySet DEF RankOf
<1>5. RankOf(N, n) = M
  <2>1. ASSUME NEW q \in N PROVE q < n
    <3>1. q \in 0 .. n - 1 BY <1>1
    <3> QED BY <1>1, <3>1
  <2>2. {q \in N : q < n} = N BY <2>1
  <2> QED BY <1>2, <2>2 DEF RankOf
<1>6. RankOf(N, n - 1) = M - 1
  <2>1. RankOf(N, (n - 1) + 1) = RankOf(N, n - 1) + 1 BY <1>1, RankNext
  <2>2. (n - 1) + 1 = n BY <1>1
  <2>3. RankOf(N, n - 1) \in Nat BY <1>1, Counted
  <2> QED BY <1>2, <1>5, <2>1, <2>2, <2>3
<1>7. k \in 0 .. M BY <1>2
<1>8. CASE k = 0
  <2>1. start(N, k) = 0 BY <1>8 DEF start
  <2> QED BY <1>1, <1>2, <1>3, <1>4, <1>8, <2>1
<1>9. CASE k # 0
  <2>1. k \in 1 .. M BY <1>2, <1>7, <1>9
  <2>2. PICK p : p = nth(N, k) OBVIOUS
  <2>3. p \in N /\ RankOf(N, p) = k - 1 BY <1>1, <1>2, <2>1, <2>2, NthExists
  <2>4. p \in 0 .. n - 1 BY <1>1, <2>3
  <2>5. start(N, k) = p + 1 BY <1>9, <2>2 DEF start
  <2>6. RankOf(N, p + 1) = RankOf(N, p) + 1 BY <1>1, <2>3, RankNext
  <2>7. RankOf(N, start(N, k)) = k BY <1>2, <2>1, <2>3, <2>5, <2>6
  <2>8. start(N, k) \in 0 .. n /\ start(N, k) # 0 /\ start(N, k) - 1 = p
    BY <1>1, <2>4, <2>5
  <2>9. ASSUME start(N, k) = n PROVE k = M BY <1>5, <2>7, <2>9
  <2>10. ASSUME k = M PROVE start(N, k) = n
    <3>1. RankOf(N, n - 1) = k - 1 BY <1>6, <2>10
    <3>2. p = n - 1 BY <1>1, <2>2, <3>1, NthIs
    <3> QED BY <1>1, <2>5, <3>2
  <2> QED BY <1>2, <1>3, <1>7, <1>9, <2>3, <2>7, <2>8, <2>9, <2>10
<1> QED BY <1>8, <1>9

LEMMA NextStart ==
  ASSUME NEW N, NEW n, Text(N, n), NEW k \in 0 .. Cardinality(N),
         NEW S, S = {q \in N : q >= start(N, k)}
  PROVE  /\ S = {} <=> k = Cardinality(N)
         /\ k # Cardinality(N) => Min(S) + 1 = start(N, k + 1)
<1>1. n \in Nat /\ N \in SUBSET (0 .. n - 1) BY DEF Text
<1>2. PICK s \in Int : s = start(N, k) BY <1>1, StartFacts
<1>3. RankOf(N, s) = k /\ S = {q \in N : q >= s} BY <1>2, StartFacts
<1>4. S = {} <=> k = Cardinality(N) BY <1>1, <1>2, <1>3, NoneFrom
<1>5. ASSUME k # Cardinality(N) PROVE Min(S) + 1 = start(N, k + 1)
  <2>1. Min(S) \in N /\ RankOf(N, Min(S)) = k BY <1>1, <1>2, <1>3, <1>4, <1>5, FirstFrom
  <2>2. PICK i \in Nat : i = k + 1 BY StartFacts
  <2>3. i - 1 = k /\ i # 0 BY <2>2, StartFacts
  <2>4. nth(N, i) = Min(S) BY <1>1, <2>1, <2>3, NthIs
  <2> QED BY <2>2, <2>3, <2>4 DEF start
<1> QED BY <1>4, <1>5

LEMMA FromStart ==
  ASSUME NEW N, NEW n, Text(N, n), NEW k \in 0 .. Cardinality(N),
         NEW S, S = {q \in N : q >= start(N, k)}
  PROVE  /\ Cardinality(S) = Cardinality(N) - k
         /\ \A i \in 1 .. Cardinality(N) - k : nth(S, i) = nth(N, k + i)
<1>1. n \in Nat /\ N \in SUBSET (0 .. n - 1) BY DEF Text
<1>2. PICK s \in Int : s = start(N, k) BY <1>1, StartFacts
<1>3. RankOf(N, s) = k /\ S = {q \in N : q >= s} BY <1>2, StartFacts
<1>4. PICK M \in Nat : M = Cardinality(N) BY <1>1, Counted
<1>5. k \in 0 .. M BY <1>4
<1>6. PICK A : A = {q \in N : q < s} OBVIOUS
<1>7. IsFiniteSet(A) /\ Cardinality(A) = k BY <1>1, <1>3, <1>6, Counted DEF RankOf
<1>8. S \in SUBSET (0 .. n - 1) /\ IsFiniteSet(S) /\ Cardinality(S) \in Nat
  <2>1. S \in SUBSET (0 .. n - 1) BY <1>1, <1>3
  <2> QED BY <1>1, <2>1, Counted
<1>9. \A q \in N : q \in Int BY <1>1
<1>10. A \cup S = N /\ A \cap S = {}
  <2>1. \A q \in N : q < s <=> ~(q >= s) BY <1>9
  <2> QED BY <1>3, <1>6, <2>1
<1>11. Cardinality(S) = M - k
  <2>1. Cardinality(A \cup S) = Cardinality(A) + Cardinality(S) - Cardinality(A \cap S)
    BY <1>7, <1>8, FS_Union
  <2>2. Cardinality(A \cap S) = 0 BY <1>10, FS_EmptySet
  <2>3. M = k + Cardinality(S) - 0 BY <1>4, <1>7, <1>10, <2>1, <2>2
  <2> QED BY <1>5, <1>8, <2>3
<1>12. ASSUME NEW p \in S PROVE RankOf(S, p) = RankOf(N, p) - k
  <2>1. p \in N /\ p >= s /\ p \in Int BY <1>3, <1>9
  <2>2. PICK B : B = {q \in S : q < p} OBVIOUS
  <2>3. IsFiniteSet(B) /\ Cardinality(B) \in Nat BY <1>1, <1>8, <2>2, Counted DEF RankOf
  <2>4. {q \in N : q < p} = A \cup B /\ A \cap B = {}
    <3>1. ASSUME NEW q \in N PROVE q < p <=> (q < s \/ (q >= s /\ q < p))
      <4>1. q \in Int BY <1>9
      <4> QED BY <2>1, <4>1
    <3>2. B \subseteq S BY <2>2
    <3> QED BY <1>3, <1>6, <1>10, <2>2, <3>1, <3>2
  <2>5. Cardinality(A \cup B) = Cardinality(A) + Cardinality(B) - Cardinality(A \cap B)
    BY <1>7, <2>3, FS_Union
  <2>6. Cardinality(A \cap B) = 0 BY <2>4, FS_EmptySet
  <2>7. RankOf(N, p) = Cardinality(A \cup B) BY <2>4 DEF RankOf
  <2>8. RankOf(S, p) = Cardinality(B) BY <2>2 DEF RankOf
  <2> QED BY <1>5, <1>7, <2>3, <2>5, <2>6, <2>7, <2>8
<1>13. ASSUME NEW i \in 1 .. M - k PROVE nth(S, i) = nth(N, k + i)
  <2>1. PICK j \in 1 .. M : j = k + i BY <1>5
  <2>2. PICK p : p = nth(N, j) OBVIOUS
  <2>3. p \in N /\ RankOf(N, p) = j - 1 BY <1>1, <1>4, <2>1, <2>2, NthExists
  <2>4. p \in Int BY <1>9, <2>3
  <2>5. p >= s
    <3>1. CASE p < s
      <4>1. RankOf(N, p) + 1 <= RankOf(N, s) BY <1>1, <2>3, <3>1, RankGrows
      <4> QED BY <1>3, <1>5, <2>1, <2>3, <4>1
    <3> QED BY <2>4, <3>1
  <2>6. p \in S BY <1>3, <2>3, <2>5
  <2>7. RankOf(S, p) = i - 1 BY <1>5, <1>12, <2>1, <2>3, <2>6
  <2>8. nth(S, i) = p BY <1>1, <1>8, <2>6, <2>7, NthIs
  <2> QED BY <2>1, <2>2, <2>8
<1> QED BY <1>4, <1>11, <1>13

LEMMA BeforeStart ==
  ASSUME NEW N, NEW n, Text(N, n), NEW k \in 0 .. Cardinality(N),
         NEW S, S = {q \in N : q < start(N, k) - 1}
  PROVE  /\ Cardinality(S) = IF k = 0 THEN 0 ELSE k - 1
         /\ \A j \in 1 .. k - 1 : nth(S, j) = nth(N, j)
<1>1. n \in Nat /\ N \in SUBSET (0 .. n - 1) BY DEF Text
<1>2. \A q \in N : q \in Nat BY <1>1
<1>3. PICK M \in Nat : M = Cardinality(N) BY <1>1, Counted
<1>4. k \in 0 .. M BY <1>3
<1>5. CASE k = 0
  <2>1. start(N, k) - 1 = -1 BY <1>5 DEF start
  <2>2. \A q \in N : ~(q < start(N, k) - 1) BY <1>2, <2>1
  <2>3. S = {} BY <2>2
  <2>4. 1 .. k - 1 = {} BY <1>5
  <2> QED BY <1>5, <2>3, <2>4, FS_EmptySet
<1>6. CASE k # 0
  <2>1. k > 0 BY <1>4, <1>6
  <2>2. PICK e : e = start(N, k) - 1 OBVIOUS
  <2>3. e \in N /\ RankOf(N, e) = k - 1 BY <2>1, <2>2, StartFacts
  <2>4. e \in Int /\ S = {q \in N : q < e} BY <1>2, <2>2, <2>3
  <2>5. Cardinality(S) = k - 1 BY <2>3, <2>4 DEF RankOf
  <2>6. S \in SUBSET (0 .. n - 1) BY <1>1, <2>4
  <2>7. ASSUME NEW j \in 1 .. k - 1 PROVE nth(S, j) = nth(N, j)
    <3>1. j \in 1 .. M /\ j < k BY <1>4
    <3>2. PICK p : p = nth(N, j) OBVIOUS
    <3>3. p \in N /\ RankOf(N, p) = j - 1 BY <1>1, <1>3, <3>1, <3>2, NthExists
    <3>4. p \in Int BY <1>2, <3>3
    <3>5. p < e
      <4>1. CASE p = e BY <1>4, <2>3, <3>1, <3>3, <4>1
      <4>2. CASE e < p
        <5>1. RankOf(N, e) + 1 <= RankOf(N, p) BY <1>1, <2>3, <3>4, <4>2, RankGrows
        <5> QED BY <1>4, <2>3, <3>1, <3>3, <5>1
      <4> QED BY <2>4, <3>4, <4>1, <4>2
    <3>6. \A q \in N : q < p => q < e BY <1>2, <2>4, <3>4, <3>5
    <3>7. {q \in S : q < p} = {q \in N : q < p} BY <2>4, <3>6
    <3>8. RankOf(S, p) = j - 1 BY <3>3, <3>7 DEF RankOf
    <3>9. p \in S BY <2>4, <3>3, <3>5
    <3> QED BY <1>1, <2>6, <3>2, <3>8, <3>9, NthIs
  <2> QED BY <1>6, <2>5, <2>7
<1> QED BY <1>5, <1>6

LEMMA LenIs == ASSUME NEW c \in Nat, NEW V, NEW f \in [1 .. c -> V] PROVE Len(f) = c
<1>1. f \in Seq(V) OBVIOUS
<1>2. DOMAIN f = 1 .. Len(f) /\ Len(f) \in Nat BY <1>1
<1>3. 1 .. Len(f) = 1 .. c BY <1>2
<1> QED BY <1>2, <1>3

(* The window from line T on. *)
Low(a, b) == IF a <= b THEN a ELSE b
TextFields == {"open", "buf", "fixed", "height", "page", "begin_reached", "end_reached",
               "page_length", "hscroll", "rows", "result"}
IsText(t) == t = [f \in TextFields |-> t[f]]
Same(p, t) == /\ p.buf = t.buf /\ p.fixed = t.fixed /\ p.height = t.height
              /\ p.hscroll = t.hscroll /\ p.open = t.open /\ p.result = t.result
Ends(t) == Text(newlines(t), strlen(t))
line_count(t) == Cardinality(newlines(t))
begins(t, k) == start(newlines(t), k)
PageShown(t, T) ==
  /\ T \in 0 .. line_count(t)
  /\ t.page = begins(t, Low(T + boxh(t), line_count(t)))
  /\ t.rows = [r \in 0 .. boxh(t) - 1 |->
                 [at |-> begins(t, Low(T + r, line_count(t))), hscroll |-> t.hscroll]]
  /\ t.page_length = Low(boxh(t), line_count(t) - T + 1)

LEMMA EndsFacts ==
  ASSUME NEW t, Len(t.buf) \in Nat, EndsInNewline(t)
  PROVE  Ends(t) /\ strlen(t) \in Nat \ {0}
<1>1. PICK n \in Nat : n = Len(t.buf) OBVIOUS
<1>2. strlen(t) = n /\ n > 0 /\ t.buf[n] = NL BY <1>1 DEF strlen, EndsInNewline
<1>3. n - 1 \in 0 .. n - 1 /\ (n - 1) + 1 = n BY <1>1, <1>2
<1>4. newlines(t) = {p \in 0 .. n - 1 : t.buf[p + 1] = NL} BY <1>2 DEF newlines
<1>5. n - 1 \in newlines(t) BY <1>2, <1>3, <1>4
<1> QED BY <1>1, <1>2, <1>4, <1>5 DEF Ends, Text

LEMMA SameLines ==
  ASSUME NEW t, NEW p, p.buf = t.buf
  PROVE  /\ newlines(p) = newlines(t) /\ strlen(p) = strlen(t) /\ line_count(p) = line_count(t)
         /\ \A k : begins(p, k) = begins(t, k)
         /\ Ends(t) => Ends(p)
         /\ EndsInNewline(p) <=> EndsInNewline(t)
<1>1. strlen(p) = strlen(t) BY DEF strlen
<1>2. newlines(p) = newlines(t) BY <1>1 DEF newlines
<1> QED BY <1>1, <1>2 DEF line_count, begins, Ends, EndsInNewline

LEMMA LineAt ==
  ASSUME NEW t, Ends(t), NEW T \in 0 .. line_count(t), t.page = begins(t, T),
         NEW ends, ends = ends_from(t)
  PROVE  /\ Len(ends) = line_count(t) - T
         /\ \A i \in Nat : line_at(t, ends, i) = begins(t, Low(T + i, line_count(t)))
<1>1. PICK N : N = newlines(t) OBVIOUS
<1>2. PICK n : n = strlen(t) OBVIOUS
<1>3. Text(N, n) BY <1>1, <1>2 DEF Ends
<1>4. PICK M \in Nat : M = Cardinality(N) BY <1>3, Counted DEF Text
<1>5. PICK S : S = {p \in N : p >= t.page} OBVIOUS
<1>6. T \in 0 .. M /\ line_count(t) = M /\ M - T \in Nat BY <1>1, <1>4 DEF line_count
<1>7. S = {p \in N : p >= start(N, T)} BY <1>1, <1>5 DEF begins
<1>8. Cardinality(S) = M - T /\ \A i \in 1 .. M - T : nth(S, i) = nth(N, T + i)
  <2>1. T \in 0 .. Cardinality(N) BY <1>4, <1>6
  <2>2. /\ Cardinality(S) = Cardinality(N) - T
        /\ \A i \in 1 .. Cardinality(N) - T : nth(S, i) = nth(N, T + i)
    BY ONLY <1>3, <1>7, <2>1, FromStart
  <2> QED BY <1>4, <2>2
<1>9. ends = [i \in 1 .. M - T |-> nth(S, i)]
  <2>1. ends = [i \in 1 .. Cardinality(S) |-> nth(S, i)] BY <1>1, <1>5 DEF ends_from
  <2> QED BY <1>8, <2>1
<1>10. Len(ends) = M - T
  <2>1. PICK V : V = {nth(S, i) : i \in 1 .. M - T} OBVIOUS
  <2>2. ends \in [1 .. M - T -> V] BY <1>9, <2>1
  <2> QED BY <1>6, <2>2, LenIs
<1>11. ASSUME NEW i \in Nat PROVE line_at(t, ends, i) = start(N, Low(T + i, M))
  <2>1. CASE i = 0
    <3>1. Low(T + i, M) = T BY <1>6, <2>1 DEF Low
    <3>2. line_at(t, ends, i) = t.page BY <2>1 DEF line_at
    <3> QED BY <1>1, <3>1, <3>2 DEF begins
  <2>2. CASE i # 0 /\ i <= M - T
    <3>1. i \in 1 .. M - T /\ T + i # 0 BY <1>6, <2>2
    <3>2. line_at(t, ends, i) = ends[i] + 1 BY <1>10, <2>2 DEF line_at
    <3>3. ends[i] = nth(N, T + i) BY <1>8, <1>9, <3>1
    <3>4. Low(T + i, M) = T + i BY <1>6, <2>2 DEF Low
    <3> QED BY <3>1, <3>2, <3>3, <3>4 DEF start
  <2>3. CASE i # 0 /\ ~(i <= M - T)
    <3>1. line_at(t, ends, i) = n BY <1>2, <1>10, <2>3 DEF line_at
    <3>2. Low(T + i, M) = M BY <1>6, <2>3 DEF Low
    <3>3. start(N, M) = n
      <4>1. M \in 0 .. Cardinality(N) BY <1>4
      <4> QED BY <1>3, <1>4, <4>1, StartFacts
    <3> QED BY <3>1, <3>2, <3>3
  <2> QED BY <2>1, <2>2, <2>3
<1> QED BY <1>1, <1>6, <1>10, <1>11 DEF begins

LEMMA PrintKeeps ==
  ASSUME NEW t, IsText(t), NEW p, p = print_page(t)
  PROVE  IsText(p) /\ Same(p, t) /\ p.begin_reached = t.begin_reached
<1>1. PICK ends : ends = ends_from(t) OBVIOUS
<1>2. \E pg, len, er, rows :
        p = [t EXCEPT !.page = pg, !.end_reached = er, !.page_length = len, !.rows = rows]
  BY DEF print_page, lines
<1>3. PICK pg, len, er, rows :
        p = [t EXCEPT !.page = pg, !.end_reached = er, !.page_length = len, !.rows = rows]
  BY <1>2
<1> QED BY <1>3 DEF IsText, TextFields, Same

LEMMA PrintPage ==
  ASSUME NEW t, IsText(t), Ends(t), NEW T \in 0 .. line_count(t), t.page = begins(t, T),
         boxh(t) \in Nat, DOMAIN t.rows = 0 .. boxh(t) - 1, NEW p, p = print_page(t)
  PROVE  /\ IsText(p) /\ Same(p, t) /\ p.begin_reached = t.begin_reached
         /\ PageShown(p, T)
         /\ p.end_reached \in BOOLEAN /\ (p.end_reached <=> T + boxh(t) > line_count(t))
<1>1. PICK ends : ends = ends_from(t) OBVIOUS
<1>2. PICK h \in Nat : h = boxh(t) OBVIOUS
<1>3. PICK M \in Nat : M = line_count(t)
  BY Counted DEF Ends, Text, line_count
<1>4. Len(ends) = M - T /\ \A i \in Nat : line_at(t, ends, i) = begins(t, Low(T + i, M))
  BY <1>1, <1>3, LineAt
<1>5. IsText(p) /\ Same(p, t) /\ p.begin_reached = t.begin_reached BY PrintKeeps
<1>6. p = [t EXCEPT !.page = line_at(t, ends, h), !.end_reached = h > Len(ends),
             !.page_length = Min({h, Len(ends) + 1}),
             !.rows = [i \in DOMAIN @ |-> [at |-> line_at(t, ends, i), hscroll |-> t.hscroll]]]
  BY <1>1, <1>2 DEF print_page, lines
<1>7. /\ p.page = line_at(t, ends, h) /\ p.end_reached = (h > Len(ends))
      /\ p.page_length = Min({h, Len(ends) + 1})
      /\ p.rows = [i \in DOMAIN t.rows |-> [at |-> line_at(t, ends, i), hscroll |-> t.hscroll]]
  BY <1>6 DEF IsText, TextFields
<1>8. T \in 0 .. M /\ M - T \in Nat BY <1>3
<1>9. p.end_reached \in BOOLEAN /\ (p.end_reached <=> T + h > M)
  <2>1. CASE h > M - T
    <3>1. (h > M - T) = TRUE /\ T + h > M BY <1>8, <2>1
    <3> QED BY <1>4, <1>7, <3>1
  <2>2. CASE ~(h > M - T)
    <3>1. (h > M - T) = FALSE /\ ~(T + h > M) BY <1>8, <2>2
    <3> QED BY <1>4, <1>7, <3>1
  <2> QED BY <2>1, <2>2
<1>10. p.page_length = Low(h, M - T + 1)
  <2>1. PICK m \in Nat : m = M - T + 1 BY <1>8
  <2>2. Min({h, m}) = Low(h, m) BY MinTwo DEF Low
  <2>3. p.page_length = Min({h, m}) BY <1>4, <1>7, <2>1
  <2> QED BY <2>1, <2>2, <2>3
<1>11. p.rows = [r \in 0 .. h - 1 |-> [at |-> begins(t, Low(T + r, M)), hscroll |-> t.hscroll]]
  <2>1. p.rows = [r \in 0 .. h - 1 |-> [at |-> line_at(t, ends, r), hscroll |-> t.hscroll]]
    BY <1>2, <1>7
  <2>2. \A r \in 0 .. h - 1 : r \in Nat BY <1>2
  <2>3. \A r \in 0 .. h - 1 : line_at(t, ends, r) = begins(t, Low(T + r, M)) BY <1>4, <2>2
  <2> QED BY <2>1, <2>3
<1>12. p.page = begins(t, Low(T + h, M)) BY <1>4, <1>7
<1>13. p.buf = t.buf /\ p.hscroll = t.hscroll /\ boxh(p) = h BY <1>2, <1>5 DEF Same, boxh
<1>14. line_count(p) = M /\ \A k : begins(p, k) = begins(t, k) BY <1>3, <1>13, SameLines
<1>15. PageShown(p, T) BY <1>8, <1>10, <1>11, <1>12, <1>13, <1>14 DEF PageShown
<1> QED BY <1>2, <1>3, <1>5, <1>9, <1>15

LEMMA BackKeeps ==
  ASSUME NEW t, IsText(t), NEW m, NEW b, b = back_lines(t, m)
  PROVE  IsText(b) /\ Same(b, t) /\ b.rows = t.rows /\ b.page_length = t.page_length
<1>1. \E er, br, pg : b = [t EXCEPT !.end_reached = er, !.begin_reached = br, !.page = pg]
  BY DEF back_lines
<1>2. PICK er, br, pg : b = [t EXCEPT !.end_reached = er, !.begin_reached = br, !.page = pg]
  BY <1>1
<1> QED BY <1>2 DEF IsText, TextFields, Same

(* The step of a search back that only takes back that the end was reached    *)
(* is not counted.                                                            *)
Steps(t, m, k) == IF m > 0 /\ k = line_count(t) /\ t.end_reached THEN m - 1 ELSE m
LEMMA Back ==
  ASSUME NEW t, IsText(t), Ends(t), NEW k \in 0 .. line_count(t), t.page = begins(t, k),
         NEW m \in Nat, NEW st, st = Steps(t, m, k), NEW b, b = back_lines(t, m)
  PROVE  /\ st \in Nat /\ b.page = begins(t, IF k > st THEN k - st ELSE 0)
         /\ b.begin_reached \in BOOLEAN
         /\ (k > 0 \/ st > 0 => (b.begin_reached <=> st >= k))
<1>1. PICK N : N = newlines(t) OBVIOUS
<1>2. PICK n : n = strlen(t) OBVIOUS
<1>3. Text(N, n) BY <1>1, <1>2 DEF Ends
<1>4. PICK M \in Nat : M = Cardinality(N) BY <1>3, Counted DEF Text
<1>5. k \in 0 .. M /\ line_count(t) = M /\ t.page = start(N, k)
  BY <1>1, <1>4 DEF line_count, begins
<1>6. t.page = strlen(t) <=> k = M
  <2>1. k \in 0 .. Cardinality(N) BY <1>4, <1>5
  <2>2. start(N, k) = n <=> k = Cardinality(N) BY <1>3, <2>1, StartFacts
  <2> QED BY <1>2, <1>4, <1>5, <2>2
<1>7. st \in Nat BY DEF Steps
<1>8. PICK ends : ends = ends_before(t) OBVIOUS
<1>9. b = [t EXCEPT !.end_reached = @ /\ ~(m > 0 /\ t.page = strlen(t) /\ t.end_reached),
             !.begin_reached = st > Len(ends),
             !.page = IF st = 0 THEN @ ELSE IF st > Len(ends) THEN 0 ELSE ends[st] + 1]
  <2>1. CASE m > 0 /\ t.page = strlen(t) /\ t.end_reached
    <3>1. st = m - 1 BY <1>5, <1>6, <2>1 DEF Steps
    <3> QED BY <1>8, <2>1, <3>1 DEF back_lines
  <2>2. CASE ~(m > 0 /\ t.page = strlen(t) /\ t.end_reached)
    <3>1. st = m BY <1>5, <1>6, <2>2 DEF Steps
    <3> QED BY <1>8, <2>2, <3>1 DEF back_lines
  <2> QED BY <2>1, <2>2
<1>10. /\ b.begin_reached = (st > Len(ends))
       /\ b.page = IF st = 0 THEN t.page ELSE IF st > Len(ends) THEN 0 ELSE ends[st] + 1
  BY <1>9 DEF IsText, TextFields
<1>11. PICK S : S = {p \in N : p < t.page - 1} OBVIOUS
<1>12. PICK c \in Nat : c = IF k = 0 THEN 0 ELSE k - 1 BY <1>5
<1>13. Cardinality(S) = c /\ \A j \in 1 .. c : nth(S, j) = nth(N, j)
  <2>1. k \in 0 .. Cardinality(N) BY <1>4, <1>5
  <2>2. S = {q \in N : q < start(N, k) - 1} BY <1>5, <1>11
  <2>3. /\ Cardinality(S) = IF k = 0 THEN 0 ELSE k - 1
        /\ \A j \in 1 .. k - 1 : nth(S, j) = nth(N, j)
    BY ONLY <1>3, <2>1, <2>2, BeforeStart
  <2>4. \A j \in 1 .. c : j \in 1 .. k - 1 BY <1>5, <1>12
  <2> QED BY <1>12, <2>3, <2>4
<1>14. ends = [i \in 1 .. c |-> nth(S, c + 1 - i)]
  <2>1. ends = [i \in 1 .. Cardinality(S) |-> nth(S, Cardinality(S) + 1 - i)]
    BY <1>1, <1>8, <1>11 DEF ends_before
  <2> QED BY <1>13, <2>1
<1>15. Len(ends) = c
  <2>1. PICK V : V = {nth(S, c + 1 - i) : i \in 1 .. c} OBVIOUS
  <2>2. ends \in [1 .. c -> V] BY <1>14, <2>1
  <2> QED BY <1>12, <2>2, LenIs
<1>16. b.begin_reached \in BOOLEAN /\ (b.begin_reached <=> st > c)
  <2>1. CASE st > c
    <3>1. (st > c) = TRUE BY <2>1
    <3> QED BY <1>10, <1>15, <2>1, <3>1
  <2>2. CASE ~(st > c)
    <3>1. (st > c) = FALSE BY <2>2
    <3> QED BY <1>10, <1>15, <2>2, <3>1
  <2> QED BY <2>1, <2>2
<1>17. (k > 0 \/ st > 0 => (b.begin_reached <=> st >= k))
  <2>1. k > 0 \/ st > 0 => (st > c <=> st >= k) BY <1>5, <1>7, <1>12
  <2> QED BY <1>16, <2>1
<1>18. b.page = start(N, IF k > st THEN k - st ELSE 0)
  <2>1. CASE st = 0
    <3>1. (IF k > st THEN k - st ELSE 0) = k BY <1>5, <2>1
    <3> QED BY <1>5, <1>10, <2>1, <3>1
  <2>2. CASE st # 0 /\ st > c
    <3>1. (IF k > st THEN k - st ELSE 0) = 0 BY <1>5, <1>7, <1>12, <2>2
    <3>2. start(N, 0) = 0 BY DEF start
    <3> QED BY <1>10, <1>15, <2>2, <3>1, <3>2
  <2>3. CASE st # 0 /\ ~(st > c)
    <3>1. k # 0 /\ c = k - 1 /\ st \in 1 .. c /\ k > st BY <1>5, <1>7, <1>12, <2>3
    <3>2. PICK j \in 1 .. c : j = k - st BY <1>5, <3>1
    <3>3. c + 1 - st = j /\ j # 0 BY <1>5, <3>1, <3>2
    <3>4. ends[st] = nth(N, j) BY <1>13, <1>14, <3>1, <3>2, <3>3
    <3>5. b.page = nth(N, j) + 1 BY <1>10, <1>15, <2>3, <3>4
    <3> QED BY <3>1, <3>2, <3>3, <3>5 DEF start
  <2> QED BY <2>1, <2>2, <2>3
<1>19. b.page = begins(t, IF k > st THEN k - st ELSE 0) BY <1>1, <1>18 DEF begins
<1> QED BY <1>7, <1>16, <1>17, <1>19

TextShows(t, T) ==
  /\ PageShown(t, T) /\ t.begin_reached \in BOOLEAN /\ t.end_reached \in BOOLEAN
  /\ boxh(t) > 0 => /\ t.begin_reached <=> T = 0
                    /\ t.end_reached <=> T + boxh(t) > line_count(t)
Sound(t) == IsText(t) /\ Ends(t) /\ boxh(t) \in Nat
Back0(k, m) == IF k > m THEN k - m ELSE 0

LEMMA CountType == ASSUME NEW t, Ends(t) PROVE line_count(t) \in Nat \ {0}
<1>1. PICK N : N = newlines(t) OBVIOUS
<1>2. PICK n : n = strlen(t) OBVIOUS
<1>3. Text(N, n) BY <1>1, <1>2 DEF Ends
<1>4. Cardinality(N) \in Nat BY <1>3, Counted DEF Text
<1>5. 0 \in 0 .. Cardinality(N) BY <1>4
<1>6. Cardinality(N) \in Nat \ {0} BY ONLY <1>3, <1>5, StartFacts
<1> QED BY <1>1, <1>6 DEF line_count

LEMMA PrintShows ==
  ASSUME NEW t, Sound(t), NEW T \in 0 .. line_count(t), t.page = begins(t, T),
         DOMAIN t.rows = 0 .. boxh(t) - 1, t.begin_reached \in BOOLEAN,
         boxh(t) > 0 => (t.begin_reached <=> T = 0), NEW p, p = print_page(t)
  PROVE  Sound(p) /\ Same(p, t) /\ TextShows(p, T)
<1>1. /\ IsText(p) /\ Same(p, t) /\ p.begin_reached = t.begin_reached
      /\ PageShown(p, T)
      /\ p.end_reached \in BOOLEAN /\ (p.end_reached <=> T + boxh(t) > line_count(t))
  BY PrintPage DEF Sound
<1>2. boxh(p) = boxh(t) /\ p.buf = t.buf BY <1>1 DEF Same, boxh
<1>3. Ends(p) /\ line_count(p) = line_count(t) BY <1>2, SameLines DEF Sound
<1> QED BY <1>1, <1>2, <1>3 DEF TextShows, Sound

LEMMA BackShows ==
  ASSUME NEW t, Sound(t), NEW k \in 0 .. line_count(t), t.page = begins(t, k),
         DOMAIN t.rows = 0 .. boxh(t) - 1, NEW m \in Nat, NEW st, st = Steps(t, m, k),
         boxh(t) > 0 => k > 0 \/ st > 0, NEW p, p = print_page(back_lines(t, m))
  PROVE  Sound(p) /\ Same(p, t) /\ TextShows(p, Back0(k, st))
<1>1. PICK b : b = back_lines(t, m) OBVIOUS
<1>2. IsText(b) /\ Same(b, t) /\ b.rows = t.rows BY <1>1, BackKeeps DEF Sound
<1>3. /\ st \in Nat /\ b.page = begins(t, Back0(k, st))
      /\ b.begin_reached \in BOOLEAN
      /\ (k > 0 \/ st > 0 => (b.begin_reached <=> st >= k))
  BY <1>1, Back DEF Sound, Back0
<1>4. boxh(b) = boxh(t) /\ b.buf = t.buf BY <1>2 DEF Same, boxh
<1>5. Ends(b) /\ line_count(b) = line_count(t) /\ \A i : begins(b, i) = begins(t, i)
  BY <1>4, SameLines DEF Sound
<1>6. PICK T \in 0 .. line_count(t) : T = Back0(k, st)
  <2>1. line_count(t) \in Nat BY CountType DEF Sound
  <2> QED BY <1>3, <2>1 DEF Back0
<1>7. T = 0 <=> st >= k
  <2>1. line_count(t) \in Nat BY CountType DEF Sound
  <2> QED BY <1>3, <1>6, <2>1 DEF Back0
<1>8. Sound(b) BY <1>2, <1>4, <1>5 DEF Sound
<1>9. Sound(p) /\ Same(p, b) /\ TextShows(p, T)
  BY <1>1, <1>2, <1>3, <1>4, <1>5, <1>6, <1>7, <1>8, PrintShows
<1> QED BY <1>2, <1>6, <1>9 DEF Same

LEMMA ShownFacts ==
  ASSUME NEW t, Sound(t), NEW T, TextShows(t, T)
  PROVE  /\ line_count(t) \in Nat \ {0} /\ T \in 0 .. line_count(t) /\ DOMAIN t.rows = 0 .. boxh(t) - 1
         /\ t.page_length \in Nat
         /\ Low(T + boxh(t), line_count(t)) \in 0 .. line_count(t)
         /\ t.page = begins(t, Low(T + boxh(t), line_count(t)))
         /\ boxh(t) > 0 => Low(T + boxh(t), line_count(t)) > 0
<1>1. line_count(t) \in Nat \ {0} BY CountType DEF Sound
<1>2. PICK h \in Nat : h = boxh(t) BY DEF Sound
<1>3. PICK M \in Nat \ {0} : M = line_count(t) BY <1>1
<1>4. T \in 0 .. M /\ t.page_length = Low(h, M - T + 1) BY <1>2, <1>3 DEF TextShows, PageShown
<1>5. t.page_length \in Nat BY <1>3, <1>4 DEF Low
<1>6. Low(T + h, M) \in 0 .. M /\ (h > 0 => Low(T + h, M) > 0) BY <1>3, <1>4 DEF Low
<1> QED BY <1>1, <1>2, <1>3, <1>4, <1>5, <1>6 DEF TextShows, PageShown

(* The search back from behind the window, by as many lines as it shows and n *)
(* more, ends n lines before the window.                                      *)
LEMMA StepsBack ==
  ASSUME NEW t, Sound(t), NEW T, TextShows(t, T), boxh(t) > 0, NEW n \in Nat,
         NEW k, k = Low(T + boxh(t), line_count(t)), NEW m, m = t.page_length + n,
         NEW st, st = Steps(t, m, k)
  PROVE  Back0(k, st) = Back0(T, n)
<1>1. PICK h \in Nat : h = boxh(t) BY DEF Sound
<1>2. PICK M \in Nat \ {0} : M = line_count(t) BY ShownFacts
<1>3. T \in 0 .. M /\ t.page_length = Low(h, M - T + 1) /\ h > 0 /\ k = Low(T + h, M)
  BY <1>1, <1>2 DEF TextShows, PageShown
<1>4. t.end_reached \in BOOLEAN /\ (t.end_reached <=> T + h > M) BY <1>1, <1>2 DEF TextShows
<1>5. CASE T + h > M
  <2>1. k = M /\ m = M - T + 1 + n BY <1>1, <1>2, <1>3, <1>5 DEF Low
  <2>2. m > 0 /\ t.end_reached BY <1>2, <1>3, <1>4, <1>5, <2>1
  <2>3. st = m - 1 BY <1>2, <2>1, <2>2 DEF Steps
  <2> QED BY <1>2, <1>3, <2>1, <2>3 DEF Back0
<1>6. CASE ~(T + h > M)
  <2>1. k = T + h /\ m = h + n BY <1>1, <1>2, <1>3, <1>6 DEF Low
  <2>2. ~t.end_reached BY <1>4, <1>6
  <2>3. st = m BY <2>2 DEF Steps
  <2> QED BY <1>1, <1>2, <1>3, <2>1, <2>3 DEF Back0
<1> QED BY <1>5, <1>6

Moves(p, t, T2) == Sound(p) /\ Same(p, t) /\ TextShows(p, T2)

LEMMA HomeShows ==
  ASSUME NEW t, Sound(t), NEW T, TextShows(t, T), NEW p, p = text_home(t)
  PROVE  \E T2 : Moves(p, t, T2) /\ (boxh(t) > 0 => T2 = 0)
<1>1. CASE t.begin_reached
  <2>1. Moves(p, t, T) BY <1>1 DEF text_home, Same, Moves
  <2>2. boxh(t) > 0 => T = 0 BY <1>1 DEF TextShows
  <2> QED BY <2>1, <2>2
<1>2. CASE ~t.begin_reached
  <2>1. PICK u : u = [t EXCEPT !.begin_reached = TRUE, !.page = 0] OBVIOUS
  <2>2. /\ IsText(u) /\ Same(u, t) /\ u.begin_reached = TRUE /\ u.page = 0 /\ u.rows = t.rows
    BY <2>1 DEF IsText, TextFields, Same, Sound
  <2>3. boxh(u) = boxh(t) /\ u.buf = t.buf BY <2>2 DEF Same, boxh
  <2>4. Sound(u) /\ line_count(u) = line_count(t) BY <2>2, <2>3, SameLines DEF Sound
  <2>5. PICK z : z = 0 OBVIOUS
  <2>6. z \in 0 .. line_count(u) /\ u.page = begins(u, z)
    <3>1. begins(u, z) = 0 BY <2>5 DEF begins, start
    <3>2. z \in 0 .. line_count(u) BY <2>4, <2>5, ShownFacts
    <3> QED BY <2>2, <3>1, <3>2
  <2>7. DOMAIN u.rows = 0 .. boxh(u) - 1 BY <2>2, <2>3, ShownFacts
  <2>8. u.begin_reached \in BOOLEAN /\ (u.begin_reached <=> z = 0) BY <2>2, <2>5
  <2>9. p = print_page(u) BY <1>2, <2>1 DEF text_home
  <2>10. Sound(p) /\ Same(p, u) /\ TextShows(p, z)
    BY <2>4, <2>6, <2>7, <2>8, <2>9, PrintShows
  <2>11. Moves(p, t, z) BY <2>2, <2>10 DEF Same, Moves
  <2> QED BY <2>5, <2>11
<1> QED BY <1>1, <1>2

LEMMA EndShows ==
  ASSUME NEW t, Sound(t), NEW T, TextShows(t, T), NEW p, p = text_end(t)
  PROVE  \E T2 : Moves(p, t, T2) /\ (boxh(t) > 0 => T2 = Back0(line_count(t), boxh(t) - 1))
<1>1. PICK u : u = [t EXCEPT !.end_reached = TRUE, !.page = strlen(t)] OBVIOUS
<1>2. IsText(u) /\ Same(u, t) /\ u.page = strlen(t) /\ u.rows = t.rows
      /\ u.end_reached = TRUE
  BY <1>1 DEF IsText, TextFields, Same, Sound
<1>3. boxh(u) = boxh(t) /\ u.buf = t.buf BY <1>2 DEF Same, boxh
<1>4. /\ Sound(u) /\ line_count(u) = line_count(t) /\ strlen(u) = strlen(t) /\ newlines(u) = newlines(t)
      /\ line_count(t) \in Nat \ {0}
  BY <1>2, <1>3, SameLines, CountType DEF Sound
<1>5. PICK k : k = line_count(u) OBVIOUS
<1>6. k \in 0 .. line_count(u) /\ k > 0 BY <1>4, <1>5
<1>7. u.page = begins(u, k)
  <2>1. PICK N : N = newlines(u) OBVIOUS
  <2>2. PICK n : n = strlen(u) OBVIOUS
  <2>3. Text(N, n) /\ k \in 0 .. Cardinality(N) /\ k = Cardinality(N)
    BY <1>4, <1>5, <1>6, <2>1, <2>2 DEF Sound, Ends, line_count
  <2>4. start(N, k) = n BY ONLY <2>3, StartFacts
  <2> QED BY <1>2, <1>4, <2>1, <2>2, <2>4 DEF begins
<1>8. DOMAIN u.rows = 0 .. boxh(u) - 1 BY <1>2, <1>3, ShownFacts
<1>9. PICK m \in Nat : m = boxh(t) BY DEF Sound
<1>10. p = print_page(back_lines(u, m)) BY <1>1, <1>9 DEF text_end
<1>11. PICK st : st = Steps(u, m, k) OBVIOUS
<1>12. Sound(p) /\ Same(p, u) /\ TextShows(p, Back0(k, st))
  BY <1>4, <1>6, <1>7, <1>8, <1>9, <1>10, <1>11, BackShows
<1>13. Moves(p, t, Back0(k, st)) BY <1>2, <1>12 DEF Same, Moves
<1>14. boxh(t) > 0 => st = boxh(t) - 1 BY <1>2, <1>5, <1>9, <1>11 DEF Steps
<1> QED BY <1>4, <1>5, <1>13, <1>14

LEMMA PageUpShows ==
  ASSUME NEW t, Sound(t), NEW T, TextShows(t, T), ~t.begin_reached, NEW p, p = text_ppage(t)
  PROVE  \E T2 : Moves(p, t, T2) /\ (boxh(t) > 0 => T2 = Back0(T, boxh(t)))
<1>1. PICK h \in Nat : h = boxh(t) BY DEF Sound
<1>2. PICK k : k = Low(T + h, line_count(t)) OBVIOUS
<1>3. /\ k \in 0 .. line_count(t) /\ t.page = begins(t, k) /\ (h > 0 => k > 0)
      /\ DOMAIN t.rows = 0 .. h - 1 /\ t.page_length \in Nat
  BY <1>1, <1>2, ShownFacts
<1>4. PICK m \in Nat : m = t.page_length + h BY <1>1, <1>3
<1>5. PICK st : st = Steps(t, m, k) OBVIOUS
<1>6. p = print_page(back_lines(t, m)) BY <1>1, <1>4 DEF text_ppage
<1>7. Sound(p) /\ Same(p, t) /\ TextShows(p, Back0(k, st))
  BY <1>1, <1>3, <1>5, <1>6, BackShows
<1>8. h > 0 => Back0(k, st) = Back0(T, h) BY <1>1, <1>2, <1>4, <1>5, StepsBack
<1> QED BY <1>1, <1>7, <1>8 DEF Moves

LEMMA PageDownShows ==
  ASSUME NEW t, Sound(t), NEW T, TextShows(t, T), ~t.end_reached, NEW p, p = text_npage(t)
  PROVE  \E T2 : Moves(p, t, T2) /\ T2 = Low(T + boxh(t), line_count(t))
<1>1. PICK k : k = Low(T + boxh(t), line_count(t)) OBVIOUS
<1>2. /\ k \in 0 .. line_count(t) /\ t.page = begins(t, k) /\ (boxh(t) > 0 => k > 0)
      /\ DOMAIN t.rows = 0 .. boxh(t) - 1 /\ line_count(t) \in Nat
  BY <1>1, ShownFacts
<1>3. PICK u : u = [t EXCEPT !.begin_reached = FALSE] OBVIOUS
<1>4. IsText(u) /\ Same(u, t) /\ u.page = t.page /\ u.rows = t.rows /\ u.begin_reached = FALSE
  BY <1>3 DEF IsText, TextFields, Same, Sound
<1>5. boxh(u) = boxh(t) /\ u.buf = t.buf BY <1>4 DEF Same, boxh
<1>6. Sound(u) /\ line_count(u) = line_count(t) /\ \A i : begins(u, i) = begins(t, i)
  BY <1>4, <1>5, SameLines DEF Sound
<1>7. p = print_page(u) BY <1>3 DEF text_npage
<1>8. boxh(u) > 0 => (u.begin_reached <=> k = 0) BY <1>2, <1>4, <1>5
<1>9. u.begin_reached \in BOOLEAN BY <1>4
<1>10. u.page = begins(u, k) /\ DOMAIN u.rows = 0 .. boxh(u) - 1 BY <1>2, <1>4, <1>5, <1>6
<1>11. Sound(p) /\ Same(p, u) /\ TextShows(p, k)
  BY <1>2, <1>6, <1>7, <1>8, <1>9, <1>10, PrintShows
<1> QED BY <1>1, <1>4, <1>11 DEF Same, Moves

(* To the side: the same lines are printed again. *)
LEMMA SideShows ==
  ASSUME NEW t, Sound(t), NEW T, TextShows(t, T), NEW x,
         NEW u, u = [t EXCEPT !.hscroll = x], NEW p, p = reprint(u)
  PROVE  /\ IsText(p) /\ Sound(p) /\ p.buf = t.buf /\ p.fixed = t.fixed /\ p.height = t.height
         /\ p.open = t.open /\ \E T2 : TextShows(p, T2) /\ (boxh(t) > 0 => T2 = T)
<1>1. /\ IsText(u) /\ u.buf = t.buf /\ u.fixed = t.fixed /\ u.height = t.height /\ u.open = t.open
      /\ u.page = t.page /\ u.rows = t.rows /\ u.end_reached = t.end_reached
      /\ u.page_length = t.page_length
  BY DEF IsText, TextFields, Sound
<1>2. boxh(u) = boxh(t) BY <1>1 DEF boxh
<1>3. Sound(u) /\ line_count(u) = line_count(t) /\ \A i : begins(u, i) = begins(t, i)
  BY <1>1, <1>2, SameLines DEF Sound
<1>4. PICK h \in Nat : h = boxh(t) BY DEF Sound
<1>5. PICK k : k = Low(T + h, line_count(t)) OBVIOUS
<1>6. /\ k \in 0 .. line_count(t) /\ t.page = begins(t, k) /\ (h > 0 => k > 0)
      /\ DOMAIN t.rows = 0 .. h - 1 /\ t.page_length \in Nat /\ T \in 0 .. line_count(t)
      /\ line_count(t) \in Nat
  BY <1>4, <1>5, ShownFacts
<1>7. PICK m \in Nat : m = t.page_length BY <1>6
<1>8. PICK st : st = Steps(t, m, k) OBVIOUS
<1>9. st = Steps(u, m, k) BY <1>1, <1>3, <1>8 DEF Steps
<1>10. p = print_page(back_lines(u, m)) BY <1>1, <1>7 DEF reprint
<1>11. k \in 0 .. line_count(u) /\ u.page = begins(u, k) /\ DOMAIN u.rows = 0 .. boxh(u) - 1
       /\ (boxh(u) > 0 => k > 0)
  BY <1>1, <1>2, <1>3, <1>4, <1>6
<1>12. Sound(p) /\ Same(p, u) /\ TextShows(p, Back0(k, st))
  BY <1>3, <1>9, <1>10, <1>11, BackShows
<1>13. h > 0 => Back0(k, st) = T
  <2>1. PICK z \in Nat : z = 0 OBVIOUS
  <2>2. m = t.page_length + z BY <1>7, <2>1
  <2>3. h > 0 => Back0(k, st) = Back0(T, z) BY <1>4, <1>5, <1>8, <2>1, <2>2, StepsBack
  <2>4. Back0(T, z) = T BY <1>6, <2>1 DEF Back0
  <2> QED BY <2>3, <2>4
<1>14. IsText(p) /\ p.buf = t.buf /\ p.fixed = t.fixed /\ p.height = t.height /\ p.open = t.open
  BY <1>1, <1>12 DEF Same, Sound
<1> QED BY <1>4, <1>12, <1>13, <1>14

LEMMA UpShows ==
  ASSUME NEW t, Sound(t), NEW T, TextShows(t, T), ~t.begin_reached, NEW p, p = text_up(t)
  PROVE  \E T2 : Moves(p, t, T2) /\ (boxh(t) > 0 => T2 = Back0(T, 1))
<1>1. PICK h \in Nat : h = boxh(t) BY DEF Sound
<1>2. PICK k : k = Low(T + h, line_count(t)) OBVIOUS
<1>3. /\ k \in 0 .. line_count(t) /\ t.page = begins(t, k) /\ (h > 0 => k > 0)
      /\ DOMAIN t.rows = 0 .. h - 1 /\ t.page_length \in Nat /\ T \in 0 .. line_count(t)
      /\ line_count(t) \in Nat
  BY <1>1, <1>2, ShownFacts
<1>4. PICK m \in Nat : m = t.page_length + 1 BY <1>3
<1>5. PICK st : st = Steps(t, m, k) OBVIOUS
<1>6. PICK b : b = back_lines(t, m) OBVIOUS
<1>7. PICK u : u = [b EXCEPT !.rows = [r \in DOMAIN @ |-> IF r > 0 THEN @[r - 1] ELSE @[r]]]
  OBVIOUS
<1>8. IsText(b) /\ Same(b, t) /\ b.rows = t.rows BY <1>6, BackKeeps DEF Sound
<1>9. /\ st \in Nat /\ b.page = begins(t, Back0(k, st)) /\ b.begin_reached \in BOOLEAN
      /\ (k > 0 \/ st > 0 => (b.begin_reached <=> st >= k))
  <2>1. IsText(t) /\ Ends(t) BY DEF Sound
  <2>2. k \in 0 .. line_count(t) /\ t.page = begins(t, k) BY <1>3
  <2> QED BY ONLY <1>4, <1>5, <1>6, <2>1, <2>2, Back DEF Back0
<1>10. /\ IsText(u) /\ Same(u, t) /\ u.page = b.page /\ u.begin_reached = b.begin_reached
       /\ u.rows = [r \in 0 .. h - 1 |-> IF r > 0 THEN t.rows[r - 1] ELSE t.rows[r]]
  BY <1>3, <1>7, <1>8 DEF IsText, TextFields, Same
<1>11. boxh(u) = h /\ u.buf = t.buf BY <1>1, <1>10 DEF Same, boxh
<1>12. Sound(u) /\ line_count(u) = line_count(t) /\ \A i : begins(u, i) = begins(t, i)
  BY <1>1, <1>10, <1>11, SameLines DEF Sound
<1>13. PICK T2 \in 0 .. line_count(t) : T2 = Back0(k, st) BY <1>3, <1>9 DEF Back0
<1>14. (T2 = 0 <=> st >= k) /\ (h > 0 => (u.begin_reached <=> T2 = 0))
  <2>1. T2 = 0 <=> st >= k BY <1>3, <1>9, <1>13 DEF Back0
  <2> QED BY <1>3, <1>9, <1>10, <2>1
<1>15. PICK q : q = print_page(u) OBVIOUS
<1>16. Sound(q) /\ Same(q, u) /\ TextShows(q, T2)
  <2>1. DOMAIN u.rows = 0 .. boxh(u) - 1 BY <1>10, <1>11
  <2>2. u.begin_reached \in BOOLEAN BY <1>9, <1>10
  <2>3. u.page = begins(u, T2) BY <1>9, <1>10, <1>12, <1>13
  <2>4. T2 \in 0 .. line_count(u) BY <1>12, <1>13
  <2>5. boxh(u) > 0 => (u.begin_reached <=> T2 = 0) BY <1>11, <1>14
  <2> QED BY <1>12, <1>15, <2>1, <2>2, <2>3, <2>4, <2>5, PrintShows
<1>17. p = [q EXCEPT !.rows = [i \in 0 .. h - 1 |-> IF i = 0 THEN q.rows[i] ELSE u.rows[i]]]
  <2>1. PICK ends : ends = ends_from(u) OBVIOUS
  <2>2. q = [u EXCEPT !.page = line_at(u, ends, boxh(u)), !.end_reached = boxh(u) > Len(ends),
               !.page_length = Min({boxh(u), Len(ends) + 1}),
               !.rows = [i \in DOMAIN @ |-> [at |-> line_at(u, ends, i), hscroll |-> u.hscroll]]]
    BY <1>15, <2>1 DEF print_page, lines
  <2>3. p = [u EXCEPT !.page = line_at(u, ends, boxh(u)), !.end_reached = boxh(u) > Len(ends),
               !.page_length = Min({boxh(u), Len(ends) + 1}),
               !.rows = [i \in DOMAIN @ |-> IF i = 0 THEN [at |-> line_at(u, ends, i), hscroll |-> u.hscroll]
                                            ELSE @[i]]]
    BY <1>4, <1>6, <1>7, <2>1 DEF text_up, lines
  <2>4. DOMAIN u.rows = 0 .. h - 1 BY <1>10
  <2>5. q.rows = [i \in 0 .. h - 1 |-> [at |-> line_at(u, ends, i), hscroll |-> u.hscroll]]
    BY <1>10, <2>2, <2>4 DEF IsText, TextFields
  <2>6. PICK rows : rows = [i \in 0 .. h - 1 |-> IF i = 0 THEN [at |-> line_at(u, ends, i), hscroll |-> u.hscroll]
                                            ELSE u.rows[i]]
    OBVIOUS
  <2>7. rows = [i \in 0 .. h - 1 |-> IF i = 0 THEN q.rows[i] ELSE u.rows[i]] BY <2>5, <2>6
  <2>8. p = [u EXCEPT !.page = line_at(u, ends, boxh(u)), !.end_reached = boxh(u) > Len(ends),
               !.page_length = Min({boxh(u), Len(ends) + 1}), !.rows = rows]
    BY <1>10, <2>3, <2>4, <2>6 DEF IsText, TextFields
  <2>9. p = [q EXCEPT !.rows = rows] BY <1>10, <2>2, <2>8 DEF IsText, TextFields
  <2> QED BY <2>7, <2>9
<1>18. IsText(q) BY <1>16 DEF Sound
<1>19. /\ IsText(p) /\ Same(p, q) /\ p.page = q.page /\ p.page_length = q.page_length
       /\ p.begin_reached = q.begin_reached /\ p.end_reached = q.end_reached
       /\ p.rows = [i \in 0 .. h - 1 |-> IF i = 0 THEN q.rows[i] ELSE u.rows[i]]
  BY <1>17, <1>18 DEF IsText, TextFields, Same
<1>20. h > 0 => T2 = Back0(T, 1)
  <2>1. PICK one \in Nat : one = 1 OBVIOUS
  <2>2. m = t.page_length + one BY <1>4, <2>1
  <2>3. h > 0 => Back0(k, st) = Back0(T, one) BY <1>1, <1>2, <1>5, <2>1, <2>2, StepsBack
  <2> QED BY <1>13, <2>1, <2>3
<1>21. boxh(p) = h /\ p.buf = u.buf /\ p.hscroll = q.hscroll /\ q.hscroll = t.hscroll
  BY <1>10, <1>11, <1>16, <1>19 DEF Same, boxh
<1>22. boxh(q) = h /\ q.buf = u.buf BY <1>11, <1>16 DEF Same, boxh
<1>23. PICK M \in Nat : M = line_count(t) BY <1>3
<1>24. /\ line_count(p) = M /\ line_count(q) = M /\ \A i : begins(p, i) = begins(t, i)
       /\ \A i : begins(q, i) = begins(t, i)
       /\ Ends(p)
  <2>1. /\ line_count(p) = line_count(u) /\ \A i : begins(p, i) = begins(u, i)
    BY <1>21, SameLines
  <2>2. Ends(p) BY <1>12, <1>21, SameLines DEF Sound
  <2>3. line_count(q) = line_count(u) /\ \A i : begins(q, i) = begins(u, i) BY <1>22, SameLines
  <2> QED BY <1>12, <1>23, <2>1, <2>2, <2>3
<1>25. p.rows = [r \in 0 .. h - 1 |-> [at |-> begins(t, Low(T2 + r, M)), hscroll |-> t.hscroll]]
  <2>1. q.rows = [r \in 0 .. h - 1 |-> [at |-> begins(t, Low(T2 + r, M)), hscroll |-> t.hscroll]]
    BY <1>16, <1>21, <1>22, <1>24 DEF TextShows, PageShown
  <2>2. t.rows = [r \in 0 .. h - 1 |-> [at |-> begins(t, Low(T + r, M)), hscroll |-> t.hscroll]]
    BY <1>1, <1>23 DEF TextShows, PageShown
  <2>3. ASSUME NEW r \in 0 .. h - 1, r # 0 PROVE u.rows[r] = q.rows[r]
    <3>1. r - 1 \in 0 .. h - 1 /\ r > 0 /\ h > 0 /\ r \in Nat BY <1>1, <2>3
    <3>2. u.rows[r] = t.rows[r - 1] BY <1>10, <3>1
    <3>3. t.rows[r - 1] = [at |-> begins(t, Low(T + (r - 1), M)), hscroll |-> t.hscroll]
      BY <2>2, <3>1
    <3>4. T # 0 BY <1>1, <3>1 DEF TextShows
    <3>5. T + (r - 1) = T2 + r
      <4>1. T2 = Back0(T, 1) BY <1>20, <3>1
      <4>2. T \in Nat BY <1>3
      <4>3. T2 = T - 1 BY <3>4, <4>1, <4>2 DEF Back0
      <4> QED BY <3>1, <4>2, <4>3
    <3> QED BY <2>1, <3>2, <3>3, <3>5
  <2>4. ASSUME NEW r \in 0 .. h - 1 PROVE p.rows[r] = q.rows[r]
    <3>1. CASE r = 0 BY <1>19, <3>1
    <3>2. CASE r # 0 BY <1>19, <2>3, <3>2
    <3> QED BY <3>1, <3>2
  <2>5. p.rows = [r \in 0 .. h - 1 |-> p.rows[r]] BY <1>19
  <2>6. q.rows = [r \in 0 .. h - 1 |-> q.rows[r]] BY <2>1
  <2>7. p.rows = q.rows BY ONLY <2>4, <2>5, <2>6
  <2> QED BY <2>1, <2>7
<1>26. TextShows(p, T2)
  <2>1. /\ q.page = begins(t, Low(T2 + h, M)) /\ q.page_length = Low(h, M - T2 + 1)
        /\ q.begin_reached \in BOOLEAN /\ q.end_reached \in BOOLEAN
        /\ h > 0 => /\ q.begin_reached <=> T2 = 0
                    /\ q.end_reached <=> T2 + h > M
    BY <1>16, <1>22, <1>24 DEF TextShows, PageShown
  <2>2. T2 \in 0 .. M BY <1>13, <1>23
  <2>3. PageShown(p, T2) BY <1>19, <1>21, <1>24, <1>25, <2>1, <2>2 DEF PageShown
  <2> QED BY <1>19, <1>21, <1>24, <2>1, <2>3 DEF TextShows
<1>27. Same(p, t) BY <1>10, <1>16, <1>19 DEF Same
<1>28. Sound(p) BY <1>19, <1>21, <1>24 DEF Sound
<1> QED BY <1>1, <1>20, <1>26, <1>27, <1>28 DEF Moves

LEMMA GetLine ==
  ASSUME NEW t, IsText(t), Ends(t), NEW k \in 0 .. line_count(t), t.page = begins(t, k),
         NEW g, g = get_line(t)
  PROVE  /\ IsText(g) /\ Same(g, t) /\ g.begin_reached = t.begin_reached /\ g.rows = t.rows
         /\ g.page_length = t.page_length
         /\ g.page = begins(t, Low(k + 1, line_count(t)))
         /\ g.end_reached \in BOOLEAN /\ (g.end_reached <=> k = line_count(t))
<1>1. PICK N : N = newlines(t) OBVIOUS
<1>2. PICK n : n = strlen(t) OBVIOUS
<1>3. Text(N, n) BY <1>1, <1>2 DEF Ends
<1>4. PICK S : S = {p \in N : p >= t.page} OBVIOUS
<1>5. PICK M \in Nat : M = line_count(t) BY CountType
<1>6. k \in 0 .. M /\ M = Cardinality(N) BY <1>1, <1>5 DEF line_count
<1>7. S = {p \in N : p >= start(N, k)} BY <1>1, <1>4 DEF begins
<1>8. (S = {} <=> k = M) /\ (k # M => Min(S) + 1 = start(N, k + 1))
  <2>1. k \in 0 .. Cardinality(N) BY <1>6
  <2>2. /\ S = {} <=> k = Cardinality(N)
        /\ k # Cardinality(N) => Min(S) + 1 = start(N, k + 1)
    BY ONLY <1>3, <1>7, <2>1, NextStart
  <2> QED BY <1>6, <2>2
<1>9. g = [t EXCEPT !.end_reached = S = {}, !.page = IF S = {} THEN strlen(t) ELSE Min(S) + 1]
  BY <1>1, <1>4 DEF get_line
<1>10. /\ IsText(g) /\ Same(g, t) /\ g.begin_reached = t.begin_reached /\ g.rows = t.rows
       /\ g.page_length = t.page_length
       /\ g.page = (IF S = {} THEN strlen(t) ELSE Min(S) + 1)
       /\ g.end_reached = (S = {})
  BY <1>9 DEF IsText, TextFields, Same
<1>11. g.end_reached \in BOOLEAN /\ (g.end_reached <=> k = M) BY <1>8, <1>10
<1>12. g.page = start(N, Low(k + 1, M))
  <2>1. CASE k = M
    <3>1. g.page = n BY <1>2, <1>8, <1>10, <2>1
    <3>2. Low(k + 1, M) = M BY <1>6, <2>1 DEF Low
    <3>3. start(N, M) = n
      <4>1. M \in 0 .. Cardinality(N) BY <1>6
      <4> QED BY <1>3, <1>6, <4>1, StartFacts
    <3> QED BY <3>1, <3>2, <3>3
  <2>2. CASE k # M
    <3>1. g.page = start(N, k + 1) BY <1>8, <1>10, <2>2
    <3>2. Low(k + 1, M) = k + 1 BY <1>6, <2>2 DEF Low
    <3> QED BY <3>1, <3>2
  <2> QED BY <2>1, <2>2
<1> QED BY <1>1, <1>5, <1>10, <1>11, <1>12 DEF begins

LEMMA DownShows ==
  ASSUME NEW t, Sound(t), NEW T, TextShows(t, T), ~t.end_reached, NEW p, p = text_down(t)
  PROVE  \E T2 : Moves(p, t, T2) /\ T2 = Low(T + 1, line_count(t))
<1>1. PICK h \in Nat : h = boxh(t) BY DEF Sound
<1>2. PICK k : k = Low(T + h, line_count(t)) OBVIOUS
<1>3. /\ k \in 0 .. line_count(t) /\ t.page = begins(t, k)
      /\ DOMAIN t.rows = 0 .. h - 1 /\ T \in 0 .. line_count(t) /\ line_count(t) \in Nat \ {0}
  BY <1>1, <1>2, ShownFacts
<1>4. PICK M \in Nat \ {0} : M = line_count(t) BY <1>3
<1>5. T \in 0 .. M /\ k \in 0 .. M /\ k = Low(T + h, M) BY <1>2, <1>3, <1>4
<1>6. h > 0 => T + h <= M BY <1>1, <1>4, <1>5 DEF TextShows
<1>7. PICK T2 \in 0 .. M : T2 = Low(T + 1, M) BY <1>5 DEF Low
<1>8. h > 0 => T2 = T + 1 /\ k = T + h BY <1>1, <1>5, <1>6, <1>7 DEF Low
<1>9. PICK u : u = [t EXCEPT !.begin_reached = FALSE,
                 !.rows = [r \in DOMAIN @ |-> IF r + 1 \in DOMAIN @ THEN @[r + 1] ELSE @[r]]]
  OBVIOUS
<1>10. /\ IsText(u) /\ Same(u, t) /\ u.begin_reached = FALSE /\ u.page = t.page
       /\ u.page_length = t.page_length
       /\ u.rows = [r \in 0 .. h - 1 |-> IF r + 1 \in 0 .. h - 1 THEN t.rows[r + 1] ELSE t.rows[r]]
  BY <1>3, <1>9 DEF IsText, TextFields, Same, Sound
<1>11. u.buf = t.buf BY <1>10 DEF Same
<1>12. Ends(u) /\ line_count(u) = M /\ \A i : begins(u, i) = begins(t, i)
  BY <1>4, <1>11, SameLines DEF Sound
<1>13. PICK g : g = get_line(u) OBVIOUS
<1>14. /\ IsText(g) /\ Same(g, u) /\ g.begin_reached = FALSE /\ g.rows = u.rows
       /\ g.page_length = t.page_length
       /\ g.page = begins(t, Low(k + 1, M))
       /\ g.end_reached \in BOOLEAN /\ (g.end_reached <=> k = M)
  <2>1. k \in 0 .. line_count(u) /\ u.page = begins(u, k) BY <1>3, <1>4, <1>10, <1>12
  <2>2. /\ IsText(g) /\ Same(g, u) /\ g.begin_reached = u.begin_reached /\ g.rows = u.rows
        /\ g.page_length = u.page_length
        /\ g.page = begins(u, Low(k + 1, line_count(u)))
        /\ g.end_reached \in BOOLEAN /\ (g.end_reached <=> k = line_count(u))
    BY <1>10, <1>12, <1>13, <2>1, GetLine
  <2> QED BY <1>10, <1>12, <2>2
<1>15. p = print_line(u, h - 1) BY <1>1, <1>9 DEF text_down
<1>16. p = [g EXCEPT !.rows = [@ EXCEPT ![h - 1] = [at |-> u.page, hscroll |-> u.hscroll]]]
  BY <1>13, <1>15 DEF print_line
<1>17. /\ IsText(p) /\ Same(p, g) /\ p.page = g.page /\ p.page_length = g.page_length
       /\ p.begin_reached = FALSE /\ p.end_reached = g.end_reached
       /\ p.rows = [u.rows EXCEPT ![h - 1] = [at |-> u.page, hscroll |-> u.hscroll]]
  BY <1>14, <1>16 DEF IsText, TextFields, Same
<1>18. Same(p, t) BY <1>10, <1>14, <1>17 DEF Same
<1>19. p.buf = t.buf /\ p.hscroll = t.hscroll /\ u.hscroll = t.hscroll /\ boxh(p) = h
  BY <1>1, <1>10, <1>18 DEF Same, boxh
<1>20. Ends(p) /\ line_count(p) = M /\ \A i : begins(p, i) = begins(t, i)
  BY <1>4, <1>19, SameLines DEF Sound
<1>21. p.page = begins(t, Low(T2 + h, M))
  <2>1. Low(k + 1, M) = Low(T2 + h, M) BY <1>1, <1>5, <1>7 DEF Low
  <2> QED BY <1>14, <1>17, <2>1
<1>22. p.page_length = Low(h, M - T2 + 1)
  <2>1. t.page_length = Low(h, M - T + 1) BY <1>1, <1>4 DEF TextShows, PageShown
  <2>2. CASE h > 0
    <3>1. T2 = T + 1 /\ T + h <= M BY <1>6, <1>8, <2>2
    <3>2. Low(h, M - T + 1) = h /\ Low(h, M - T2 + 1) = h BY <1>1, <1>5, <3>1 DEF Low
    <3> QED BY <1>14, <1>17, <2>1, <3>2
  <2>3. CASE h = 0
    <3>1. Low(h, M - T + 1) = 0 /\ Low(h, M - T2 + 1) = 0 BY <1>5, <1>7, <2>3 DEF Low
    <3> QED BY <1>14, <1>17, <2>1, <3>1
  <2> QED BY <1>1, <2>2, <2>3
<1>23. p.rows = [r \in 0 .. h - 1 |-> [at |-> begins(t, Low(T2 + r, M)), hscroll |-> t.hscroll]]
  <2>1. t.rows = [r \in 0 .. h - 1 |-> [at |-> begins(t, Low(T + r, M)), hscroll |-> t.hscroll]]
    BY <1>1, <1>4 DEF TextShows, PageShown
  <2>2. ASSUME NEW r \in 0 .. h - 1
        PROVE  p.rows[r] = [at |-> begins(t, Low(T2 + r, M)), hscroll |-> t.hscroll]
    <3>1. h > 0 /\ T2 = T + 1 /\ k = T + h BY <1>1, <1>8
    <3>2. CASE r = h - 1
      <4>1. p.rows[r] = [at |-> u.page, hscroll |-> u.hscroll] BY <1>10, <1>17, <3>2
      <4>2. u.page = begins(t, k) BY <1>3, <1>10
      <4>3. Low(T2 + r, M) = k BY <1>1, <1>5, <3>1, <3>2 DEF Low
      <4> QED BY <1>19, <4>1, <4>2, <4>3
    <3>3. CASE r # h - 1
      <4>1. r + 1 \in 0 .. h - 1 BY <1>1, <3>3
      <4>2. p.rows[r] = t.rows[r + 1] BY <1>10, <1>17, <3>3, <4>1
      <4>3. t.rows[r + 1] = [at |-> begins(t, Low(T + (r + 1), M)), hscroll |-> t.hscroll]
        BY <2>1, <4>1
      <4>4. T + (r + 1) = T2 + r BY <1>1, <1>5, <3>1
      <4> QED BY <4>2, <4>3, <4>4
    <3> QED BY <3>2, <3>3
  <2>3. p.rows = [r \in 0 .. h - 1 |-> p.rows[r]] BY <1>10, <1>17
  <2> QED BY ONLY <2>2, <2>3
<1>24. PageShown(p, T2) BY <1>7, <1>19, <1>20, <1>21, <1>22, <1>23 DEF PageShown
<1>25. h > 0 => T2 # 0 /\ (p.end_reached <=> T2 + h > M)
  <2>1. h > 0 => (k = M <=> T2 + h > M) BY <1>1, <1>5, <1>6, <1>8
  <2> QED BY <1>5, <1>8, <1>14, <1>17, <2>1
<1>26. TextShows(p, T2) BY <1>14, <1>17, <1>19, <1>20, <1>24, <1>25 DEF TextShows
<1>27. Sound(p) BY <1>17, <1>19, <1>20 DEF Sound
<1> QED BY <1>4, <1>7, <1>18, <1>26, <1>27 DEF Moves

TextInv(t) ==
  /\ IsText(t) /\ Len(t.buf) \in Nat /\ t.fixed \in {0, 5, 6}
  /\ t.open => t.height \in Nat /\ t.height >= 4
  /\ t.open /\ EndsInNewline(t) => \E T : TextShows(t, T)

LEMMA TextSound ==
  ASSUME NEW t, TextInv(t), t.open, EndsInNewline(t)
  PROVE  Sound(t) /\ \E T : TextShows(t, T)
<1>1. boxh(t) \in Nat BY DEF TextInv, boxh
<1>2. Ends(t) BY EndsFacts DEF TextInv
<1> QED BY <1>1, <1>2 DEF TextInv, Sound

LEMMA TextClosedInv ==
  ASSUME NEW r, NEW p, p = [TextClosed EXCEPT !.result = r] PROVE TextInv(p)
<1>1. IsText(p) /\ p.buf = <<>> /\ p.fixed = 0 /\ p.open = FALSE
  BY DEF TextClosed, IsText, TextFields
<1>2. Len(<<>>) \in Nat OBVIOUS
<1> QED BY <1>1, <1>2 DEF TextInv

(* Where a text is printed again on a terminal of another size. *)
AtLine(t) ==
  /\ IsText(t) /\ Len(t.buf) \in Nat /\ t.fixed \in {0, 5, 6}
  /\ EndsInNewline(t) => \E T \in 0 .. line_count(t) :
       t.page = begins(t, T) /\ t.begin_reached \in BOOLEAN /\ (t.begin_reached <=> T = 0)

LEMMA TextDrawnInv ==
  ASSUME NEW t, AtLine(t), NEW sz, sz.lines \in Nat
  PROVE  TextInv(text_do_resize(t, sz))
<1>1. PICK p : p = text_do_resize(t, sz) OBVIOUS
<1>2. CASE sz.lines < 8 \/ sz.cols < 8
  <2>1. p = [TextClosed EXCEPT !.result = "too_small"] BY <1>1, <1>2 DEF text_do_resize
  <2> QED BY <1>1, <2>1, TextClosedInv
<1>3. CASE ~(sz.lines < 8 \/ sz.cols < 8)
  <2>1. PICK height : height = IF t.fixed # 0 THEN t.fixed ELSE sz.lines - 4 OBVIOUS
  <2>2. height \in Nat /\ height >= 4 /\ height - 5 = (height - 4) - 1
    <3>1. t.fixed \in {0, 5, 6} /\ sz.lines \in Nat /\ ~(sz.lines < 8) BY <1>3 DEF AtLine
    <3> QED BY <2>1, <3>1
  <2>3. PICK u : u = [t EXCEPT !.height = height, !.open = TRUE,
                        !.rows = [r \in 0 .. height - 5 |-> [at |-> -1, hscroll |-> 0]]]
    OBVIOUS
  <2>4. /\ IsText(u) /\ u.height = height /\ u.open = TRUE /\ u.buf = t.buf /\ u.fixed = t.fixed
        /\ u.page = t.page /\ u.begin_reached = t.begin_reached /\ DOMAIN u.rows = 0 .. height - 5
    BY <2>3 DEF AtLine, IsText, TextFields
  <2>5. p = print_page(u) BY <1>1, <1>3, <2>1, <2>3 DEF text_do_resize
  <2>6. IsText(p) /\ Same(p, u) BY <2>4, <2>5, PrintKeeps
  <2>7. /\ p.buf = t.buf /\ p.fixed = t.fixed /\ p.height = height /\ p.open = TRUE
    BY <2>4, <2>6 DEF Same
  <2>8. ASSUME EndsInNewline(p) PROVE \E T : TextShows(p, T)
    <3>1. EndsInNewline(t) /\ EndsInNewline(u) BY <2>4, <2>7, <2>8, SameLines
    <3>2. Ends(u) BY <2>4, <3>1, EndsFacts DEF AtLine
    <3>3. boxh(u) = height - 4 /\ boxh(u) \in Nat /\ DOMAIN u.rows = 0 .. boxh(u) - 1
      BY <2>2, <2>4 DEF boxh
    <3>4. PICK T \in 0 .. line_count(t) : 
            t.page = begins(t, T) /\ t.begin_reached \in BOOLEAN /\ (t.begin_reached <=> T = 0)
      BY <3>1 DEF AtLine
    <3>5. line_count(u) = line_count(t) /\ \A i : begins(u, i) = begins(t, i) BY <2>4, SameLines
    <3>6. Sound(u) BY <2>4, <3>2, <3>3 DEF Sound
    <3>7. T \in 0 .. line_count(u) /\ u.page = begins(u, T) BY <2>4, <3>4, <3>5
    <3>8. u.begin_reached \in BOOLEAN /\ (u.begin_reached <=> T = 0) BY <2>4, <3>4
    <3>9. TextShows(p, T) BY <2>5, <3>3, <3>6, <3>7, <3>8, PrintShows
    <3> QED BY <3>9
  <2>9. Len(p.buf) \in Nat /\ p.fixed \in {0, 5, 6} BY <2>7 DEF AtLine
  <2> QED BY <1>1, <2>2, <2>6, <2>7, <2>8, <2>9 DEF TextInv
<1> QED BY <1>2, <1>3

LEMMA TextboxInv ==
  ASSUME NEW buf, Len(buf) \in Nat, NEW fixed \in {0, 5, 6}, NEW sz, sz.lines \in Nat
  PROVE  TextInv(dialog_textbox(buf, fixed, sz))
<1>1. PICK t : t = [TextClosed EXCEPT !.buf = buf, !.fixed = fixed, !.begin_reached = TRUE]
  OBVIOUS
<1>2. /\ IsText(t) /\ t.buf = buf /\ t.fixed = fixed /\ t.begin_reached = TRUE /\ t.page = 0
  BY <1>1 DEF TextClosed, IsText, TextFields
<1>3. ASSUME EndsInNewline(t)
      PROVE  \E T \in 0 .. line_count(t) :
               t.page = begins(t, T) /\ t.begin_reached \in BOOLEAN /\ (t.begin_reached <=> T = 0)
  <2>1. Ends(t) BY <1>2, <1>3, EndsFacts
  <2>2. line_count(t) \in Nat BY <2>1, CountType
  <2>3. begins(t, 0) = 0 BY DEF begins, start
  <2>4. 0 \in 0 .. line_count(t) BY <2>2
  <2> QED BY <1>2, <2>3, <2>4
<1>4. AtLine(t) BY <1>2, <1>3 DEF AtLine
<1>5. TextInv(text_do_resize(t, sz)) BY <1>4, TextDrawnInv
<1> QED BY <1>1, <1>5 DEF dialog_textbox

LEMMA TextResizeInv ==
  ASSUME NEW sz, sz.lines \in Nat, TextInv(text), TextResize(sz) PROVE TextInv(text')
<1>1. PICK t : t = text OBVIOUS
<1>2. t.open /\ TextInv(t) /\ text' = text_do_resize(back_lines(t, t.height), sz)
  BY <1>1 DEF TextResize
<1>3. PICK m \in Nat : m = t.height /\ m >= 4 BY <1>2 DEF TextInv
<1>4. PICK b : b = back_lines(t, m) OBVIOUS
<1>5. IsText(t) /\ Len(t.buf) \in Nat /\ t.fixed \in {0, 5, 6} BY <1>2 DEF TextInv
<1>6. IsText(b) /\ Same(b, t) BY <1>4, <1>5, BackKeeps
<1>7. b.buf = t.buf /\ b.fixed = t.fixed BY <1>6 DEF Same
<1>8. ASSUME EndsInNewline(b)
      PROVE  \E T \in 0 .. line_count(b) :
               b.page = begins(b, T) /\ b.begin_reached \in BOOLEAN /\ (b.begin_reached <=> T = 0)
  <2>1. EndsInNewline(t) BY <1>7, <1>8, SameLines
  <2>2. Sound(t) BY <1>2, <2>1, TextSound
  <2>3. PICK T0 : TextShows(t, T0) BY <1>2, <2>1, TextSound
  <2>4. PICK k : k = Low(T0 + boxh(t), line_count(t)) OBVIOUS
  <2>5. k \in 0 .. line_count(t) /\ t.page = begins(t, k) /\ line_count(t) \in Nat
    BY <2>2, <2>3, <2>4, ShownFacts
  <2>6. PICK st : st = Steps(t, m, k) OBVIOUS
  <2>7. st \in Nat /\ st > 0 BY <1>3, <2>6 DEF Steps
  <2>8. /\ b.page = begins(t, Back0(k, st)) /\ b.begin_reached \in BOOLEAN
        /\ (b.begin_reached <=> st >= k)
    <3>1. IsText(t) /\ Ends(t) BY <2>2 DEF Sound
    <3>2. k \in 0 .. line_count(t) /\ t.page = begins(t, k) BY <2>5
    <3>3. /\ b.page = begins(t, Back0(k, st)) /\ b.begin_reached \in BOOLEAN
          /\ (k > 0 \/ st > 0 => (b.begin_reached <=> st >= k))
      BY ONLY <1>3, <1>4, <2>6, <3>1, <3>2, Back DEF Back0
    <3> QED BY <2>7, <3>3
  <2>9. PICK T \in 0 .. line_count(t) : T = Back0(k, st)
    <3>1. PICK M \in Nat : M = line_count(t) BY <2>5
    <3>2. k \in 0 .. M /\ st \in Nat BY <2>5, <2>7, <3>1
    <3>3. Back0(k, st) \in 0 .. M BY ONLY <3>1, <3>2 DEF Back0
    <3> QED BY <3>1, <3>3
  <2>10. line_count(b) = line_count(t) /\ \A i : begins(b, i) = begins(t, i) BY <1>7, SameLines
  <2>11. T = 0 <=> st >= k
    <3>1. k \in Nat BY <2>5
    <3> QED BY <2>7, <2>9, <3>1 DEF Back0
  <2> QED BY <2>8, <2>9, <2>10, <2>11
<1>9. AtLine(b) BY <1>5, <1>6, <1>7, <1>8 DEF AtLine
<1>10. TextInv(text_do_resize(b, sz)) BY <1>9, TextDrawnInv
<1> QED BY <1>2, <1>3, <1>4, <1>10

(* A key leaves the text and the size of its box. *)
Kept(p, t) == /\ IsText(p) /\ p.buf = t.buf /\ p.fixed = t.fixed /\ p.height = t.height
              /\ p.open = t.open

LEMMA KeptInv ==
  ASSUME NEW t, TextInv(t), t.open, NEW p, Kept(p, t),
         EndsInNewline(t) => \E T : TextShows(p, T)
  PROVE  TextInv(p)
<1>1. EndsInNewline(p) <=> EndsInNewline(t) BY SameLines DEF Kept
<1> QED BY <1>1 DEF TextInv, Kept

LEMMA BackPrints ==
  ASSUME NEW t, IsText(t), NEW m, NEW p, p = print_page(back_lines(t, m)) PROVE Kept(p, t)
<1>1. PICK b : b = back_lines(t, m) OBVIOUS
<1>2. IsText(b) /\ Same(b, t) BY <1>1, BackKeeps
<1>3. IsText(p) /\ Same(p, b) BY <1>1, <1>2, PrintKeeps
<1> QED BY <1>2, <1>3 DEF Same, Kept

LEMMA TextHomeInv == ASSUME TextInv(text), TextHome PROVE TextInv(text')
<1>1. PICK t : t = text OBVIOUS
<1>2. PICK p : p = text' OBVIOUS
<1>3. t.open /\ TextInv(t) /\ p = text_home(t) /\ IsText(t) BY <1>1, <1>2 DEF TextHome, TextInv
<1>4. Kept(p, t)
  <2>1. CASE t.begin_reached BY <1>3, <2>1 DEF text_home, Kept
  <2>2. CASE ~t.begin_reached
    <3>1. PICK u : u = [t EXCEPT !.begin_reached = TRUE, !.page = 0] OBVIOUS
    <3>2. Kept(u, t) BY <1>3, <3>1 DEF IsText, TextFields, Kept
    <3>3. p = print_page(u) BY <1>3, <2>2, <3>1 DEF text_home
    <3>4. IsText(p) /\ Same(p, u) BY <3>2, <3>3, PrintKeeps DEF Kept
    <3> QED BY <3>2, <3>4 DEF Same, Kept
  <2> QED BY <2>1, <2>2
<1>5. ASSUME EndsInNewline(t) PROVE \E T : TextShows(p, T)
  <2>1. PICK T : Sound(t) /\ TextShows(t, T) BY <1>3, <1>5, TextSound
  <2> QED BY <1>3, <2>1, HomeShows DEF Moves
<1> QED BY <1>2, <1>3, <1>4, <1>5, KeptInv

LEMMA TextEndInv == ASSUME TextInv(text), TextEnd PROVE TextInv(text')
<1>1. PICK t : t = text OBVIOUS
<1>2. PICK p : p = text' OBVIOUS
<1>3. t.open /\ TextInv(t) /\ p = text_end(t) /\ IsText(t) BY <1>1, <1>2 DEF TextEnd, TextInv
<1>4. Kept(p, t)
  <2>1. PICK u : u = [t EXCEPT !.end_reached = TRUE, !.page = strlen(t)] OBVIOUS
  <2>2. Kept(u, t) BY <1>3, <2>1 DEF IsText, TextFields, Kept
  <2>3. PICK m : m = boxh(t) OBVIOUS
  <2>4. p = print_page(back_lines(u, m)) BY <1>3, <2>1, <2>3 DEF text_end
  <2>5. Kept(p, u) BY <2>2, <2>4, BackPrints DEF Kept
  <2> QED BY <2>2, <2>5 DEF Kept
<1>5. ASSUME EndsInNewline(t) PROVE \E T : TextShows(p, T)
  <2>1. PICK T : Sound(t) /\ TextShows(t, T) BY <1>3, <1>5, TextSound
  <2> QED BY <1>3, <2>1, EndShows DEF Moves
<1> QED BY <1>2, <1>3, <1>4, <1>5, KeptInv

LEMMA TextUpInv == ASSUME TextInv(text), TextUp PROVE TextInv(text')
<1>1. PICK t : t = text OBVIOUS
<1>2. PICK p : p = text' OBVIOUS
<1>3. t.open /\ TextInv(t) /\ p = text_up(t) /\ IsText(t) BY <1>1, <1>2 DEF TextUp, TextInv
<1>4. CASE t.begin_reached BY <1>2, <1>3, <1>4 DEF text_up
<1>5. CASE ~t.begin_reached
  <2>1. Kept(p, t)
    <3>1. PICK m : m = t.page_length + 1 OBVIOUS
    <3>2. PICK b : b = back_lines(t, m) OBVIOUS
    <3>3. IsText(b) /\ Same(b, t) BY <1>3, <3>2, BackKeeps
    <3>4. PICK u : u = [b EXCEPT !.rows = [r \in DOMAIN @ |-> IF r > 0 THEN @[r - 1] ELSE @[r]]]
      OBVIOUS
    <3>5. Kept(u, t) BY <3>3, <3>4 DEF IsText, TextFields, Same, Kept
    <3>6. \E pg, len, er, rows :
            p = [u EXCEPT !.page = pg, !.end_reached = er, !.page_length = len, !.rows = rows]
      BY <1>3, <1>5, <3>1, <3>2, <3>4 DEF text_up, lines
    <3>7. PICK pg, len, er, rows :
            p = [u EXCEPT !.page = pg, !.end_reached = er, !.page_length = len, !.rows = rows]
      BY <3>6
    <3> QED BY <3>5, <3>7 DEF IsText, TextFields, Kept
  <2>2. ASSUME EndsInNewline(t) PROVE \E T : TextShows(p, T)
    <3>1. PICK T : Sound(t) /\ TextShows(t, T) BY <1>3, <2>2, TextSound
    <3> QED BY <1>3, <1>5, <3>1, UpShows DEF Moves
  <2> QED BY <1>2, <1>3, <2>1, <2>2, KeptInv
<1> QED BY <1>4, <1>5

LEMMA TextDownInv == ASSUME TextInv(text), TextDown PROVE TextInv(text')
<1>1. PICK t : t = text OBVIOUS
<1>2. PICK p : p = text' OBVIOUS
<1>3. t.open /\ TextInv(t) /\ p = text_down(t) /\ IsText(t) BY <1>1, <1>2 DEF TextDown, TextInv
<1>4. CASE t.end_reached BY <1>2, <1>3, <1>4 DEF text_down
<1>5. CASE ~t.end_reached
  <2>1. Kept(p, t)
    <3>1. PICK u : u = [t EXCEPT !.begin_reached = FALSE,
                 !.rows = [r \in DOMAIN @ |-> IF r + 1 \in DOMAIN @ THEN @[r + 1] ELSE @[r]]]
      OBVIOUS
    <3>2. Kept(u, t) BY <1>3, <3>1 DEF IsText, TextFields, Kept
    <3>3. \E pg, er, rows : p = [u EXCEPT !.page = pg, !.end_reached = er, !.rows = rows]
      <4>1. PICK g : g = get_line(u) OBVIOUS
      <4>2. \E pg, er : g = [u EXCEPT !.end_reached = er, !.page = pg]
        BY <4>1 DEF get_line
      <4>3. PICK pg, er : g = [u EXCEPT !.end_reached = er, !.page = pg] BY <4>2
      <4>4. \E rows : p = [g EXCEPT !.rows = rows]
        BY <1>3, <1>5, <3>1, <4>1 DEF text_down, print_line
      <4>5. PICK rows : p = [g EXCEPT !.rows = rows] BY <4>4
      <4>6. p = [u EXCEPT !.page = pg, !.end_reached = er, !.rows = rows]
        BY <3>2, <4>3, <4>5 DEF Kept, IsText, TextFields
      <4> QED BY <4>6
    <3>4. PICK pg, er, rows : p = [u EXCEPT !.page = pg, !.end_reached = er, !.rows = rows]
      BY <3>3
    <3> QED BY <3>2, <3>4 DEF IsText, TextFields, Kept
  <2>2. ASSUME EndsInNewline(t) PROVE \E T : TextShows(p, T)
    <3>1. PICK T : Sound(t) /\ TextShows(t, T) BY <1>3, <2>2, TextSound
    <3> QED BY <1>3, <1>5, <3>1, DownShows DEF Moves
  <2> QED BY <1>2, <1>3, <2>1, <2>2, KeptInv
<1> QED BY <1>4, <1>5

LEMMA TextPageUpInv == ASSUME TextInv(text), TextPageUp PROVE TextInv(text')
<1>1. PICK t : t = text OBVIOUS
<1>2. PICK p : p = text' OBVIOUS
<1>3. t.open /\ TextInv(t) /\ p = text_ppage(t) /\ IsText(t) BY <1>1, <1>2 DEF TextPageUp, TextInv
<1>4. CASE t.begin_reached BY <1>2, <1>3, <1>4 DEF text_ppage
<1>5. CASE ~t.begin_reached
  <2>1. PICK m : m = t.page_length + boxh(t) OBVIOUS
  <2>2. p = print_page(back_lines(t, m)) BY <1>3, <1>5, <2>1 DEF text_ppage
  <2>3. Kept(p, t) BY <1>3, <2>2, BackPrints
  <2>4. ASSUME EndsInNewline(t) PROVE \E T : TextShows(p, T)
    <3>1. PICK T : Sound(t) /\ TextShows(t, T) BY <1>3, <2>4, TextSound
    <3> QED BY <1>3, <1>5, <3>1, PageUpShows DEF Moves
  <2> QED BY <1>2, <1>3, <2>3, <2>4, KeptInv
<1> QED BY <1>4, <1>5

LEMMA TextPageDownInv == ASSUME TextInv(text), TextPageDown PROVE TextInv(text')
<1>1. PICK t : t = text OBVIOUS
<1>2. PICK p : p = text' OBVIOUS
<1>3. t.open /\ TextInv(t) /\ p = text_npage(t) /\ IsText(t)
  BY <1>1, <1>2 DEF TextPageDown, TextInv
<1>4. CASE t.end_reached BY <1>2, <1>3, <1>4 DEF text_npage
<1>5. CASE ~t.end_reached
  <2>1. PICK u : u = [t EXCEPT !.begin_reached = FALSE] OBVIOUS
  <2>2. Kept(u, t) BY <1>3, <2>1 DEF IsText, TextFields, Kept
  <2>3. p = print_page(u) BY <1>3, <1>5, <2>1 DEF text_npage
  <2>4. IsText(p) /\ Same(p, u) BY <2>2, <2>3, PrintKeeps DEF Kept
  <2>5. Kept(p, t) BY <2>2, <2>4 DEF Same, Kept
  <2>6. ASSUME EndsInNewline(t) PROVE \E T : TextShows(p, T)
    <3>1. PICK T : Sound(t) /\ TextShows(t, T) BY <1>3, <2>6, TextSound
    <3> QED BY <1>3, <1>5, <3>1, PageDownShows DEF Moves
  <2> QED BY <1>2, <1>3, <2>5, <2>6, KeptInv
<1> QED BY <1>4, <1>5

LEMMA TextSideInv == ASSUME NEW key, TextInv(text), TextSide(key) PROVE TextInv(text')
<1>1. PICK t : t = text OBVIOUS
<1>2. PICK p : p = text' OBVIOUS
<1>3. t.open /\ TextInv(t) /\ IsText(t)
      /\ p = IF key = "RIGHT" THEN text_right(t) ELSE text_left(t, key)
  BY <1>1, <1>2 DEF TextSide, TextInv
<1>4. p = t \/ \E x : p = reprint([t EXCEPT !.hscroll = x])
  <2>1. CASE key = "RIGHT"
    <3>1. p = t \/ p = reprint([t EXCEPT !.hscroll = t.hscroll + 1])
      BY <1>3, <2>1 DEF text_right, IsText, TextFields
    <3> QED BY <3>1
  <2>2. CASE key # "RIGHT"
    <3>1. p = t \/ p = reprint([t EXCEPT !.hscroll = IF key = "0" THEN 0 ELSE t.hscroll - 1])
      BY <1>3, <2>2 DEF text_left, IsText, TextFields
    <3> QED BY <3>1
  <2> QED BY <2>1, <2>2
<1>5. CASE p = t BY <1>2, <1>3, <1>5
<1>6. ASSUME NEW x, p = reprint([t EXCEPT !.hscroll = x]) PROVE TextInv(p)
  <2>1. PICK u : u = [t EXCEPT !.hscroll = x] OBVIOUS
  <2>2. Kept(u, t) BY <1>3, <2>1 DEF IsText, TextFields, Kept
  <2>3. PICK m : m = u.page_length OBVIOUS
  <2>4. p = print_page(back_lines(u, m)) BY <1>6, <2>1, <2>3 DEF reprint
  <2>5. Kept(p, u) BY <2>2, <2>4, BackPrints DEF Kept
  <2>6. Kept(p, t) BY <2>2, <2>5 DEF Kept
  <2>7. ASSUME EndsInNewline(t) PROVE \E T : TextShows(p, T)
    <3>1. PICK T : Sound(t) /\ TextShows(t, T) BY <1>3, <2>7, TextSound
    <3>2. p = reprint(u) BY <1>6, <2>1
    <3> QED BY <2>1, <3>1, <3>2, SideShows
  <2> QED BY <1>3, <2>6, <2>7, KeptInv
<1> QED BY <1>2, <1>4, <1>5, <1>6

LEMMA TextKeyInv ==
  ASSUME NEW k, NEW f, TextInv(text), TextKey(k, f) PROVE TextInv(text')
<1>1. CASE TextHome BY <1>1, TextHomeInv
<1>2. CASE TextEnd BY <1>2, TextEndInv
<1>3. CASE TextUp BY <1>3, TextUpInv
<1>4. CASE TextDown BY <1>4, TextDownInv
<1>5. CASE TextPageUp BY <1>5, TextPageUpInv
<1>6. CASE TextPageDown BY <1>6, TextPageDownInv
<1>7. CASE TextSide(k) BY <1>7, TextSideInv
<1>8. CASE TextExit(k, f) BY <1>8, TextClosedInv DEF TextExit
<1> QED BY <1>1, <1>2, <1>3, <1>4, <1>5, <1>6, <1>7, <1>8 DEF TextKey

-----------------------------------------------------------------------------
(* What the inductive invariants say is what BoxShowsState asks for. *)
LEMMA BeginsFacts ==
  ASSUME NEW t, Ends(t), NEW k \in 0 .. line_count(t)
  PROVE  /\ begins(t, k) = 0 <=> k = 0
         /\ begins(t, k) = strlen(t) <=> k = line_count(t)
         /\ k > 0 => begins(t, k) - 1 \in newlines(t)
<1>1. PICK N : N = newlines(t) OBVIOUS
<1>2. PICK n : n = strlen(t) OBVIOUS
<1>3. Text(N, n) BY <1>1, <1>2 DEF Ends
<1>4. k \in 0 .. Cardinality(N) BY <1>1 DEF line_count
<1>5. PICK s : s = start(N, k) OBVIOUS
<1>6. /\ s = 0 <=> k = 0
      /\ s = n <=> k = Cardinality(N)
      /\ k > 0 => s - 1 \in N
  BY ONLY <1>3, <1>4, <1>5, StartFacts
<1> QED BY <1>1, <1>2, <1>5, <1>6 DEF begins, line_count

LEMMA LineAfter ==
  ASSUME NEW t, Sound(t), NEW k \in 0 .. line_count(t), NEW p, p = begins(t, k)
  PROVE  line_after(t, p) = begins(t, Low(k + 1, line_count(t)))
<1>1. PICK u : u = [t EXCEPT !.page = p] OBVIOUS
<1>2. IsText(u) /\ u.buf = t.buf /\ u.page = p BY <1>1 DEF Sound, IsText, TextFields
<1>3. line_count(u) = line_count(t) /\ (\A i : begins(u, i) = begins(t, i)) /\ Ends(u)
  BY <1>2, SameLines DEF Sound
<1>4. PICK g : g = get_line(u) OBVIOUS
<1>5. g.page = begins(u, Low(k + 1, line_count(u))) BY <1>2, <1>3, <1>4, GetLine
<1> QED BY <1>1, <1>3, <1>4, <1>5 DEF line_after

LEMMA LinesShown ==
  ASSUME NEW t, Sound(t), NEW T, TextShows(t, T), boxh(t) > 0 PROVE ShowsLines(t)
<1>1. PICK h \in Nat \ {0} : h = boxh(t) BY DEF Sound
<1>2. PICK M \in Nat \ {0} : M = line_count(t) BY CountType DEF Sound
<1>3. T \in 0 .. M BY <1>2 DEF TextShows, PageShown
<1>4. \A r \in 0 .. h - 1 : Low(T + r, M) \in 0 .. M BY <1>1, <1>2, <1>3 DEF Low
<1>5. t.rows = [r \in 0 .. h - 1 |-> [at |-> begins(t, Low(T + r, M)), hscroll |-> t.hscroll]]
  BY <1>1, <1>2 DEF TextShows, PageShown
<1>6. \A r \in 0 .. h - 1 : t.rows[r].at = begins(t, Low(T + r, M)) /\ t.rows[r].hscroll = t.hscroll
  BY <1>5
<1>7. DOMAIN t.rows = 0 .. h - 1 BY <1>5
<1>8. 0 \in 0 .. h - 1 /\ h - 1 \in 0 .. h - 1 BY <1>1
<1>9. t.rows[0].at = begins(t, T)
  <2>1. Low(T + 0, M) = T BY <1>3, <1>2 DEF Low
  <2> QED BY <1>6, <1>8, <2>1
<1>10. t.rows[0].at = 0 \/ t.rows[0].at - 1 \in newlines(t)
  <2>1. CASE T = 0 BY <1>2, <1>3, <1>9, <2>1, BeginsFacts DEF Sound
  <2>2. CASE T > 0 BY <1>2, <1>3, <1>9, <2>2, BeginsFacts DEF Sound
  <2> QED BY <1>3, <2>1, <2>2
<1>11. ASSUME NEW r \in DOMAIN t.rows, r > 0 PROVE t.rows[r].at = line_after(t, t.rows[r - 1].at)
  <2>1. r \in 0 .. h - 1 /\ r - 1 \in 0 .. h - 1 BY <1>1, <1>7, <1>11
  <2>2. PICK k : k = Low(T + (r - 1), M) OBVIOUS
  <2>3. k \in 0 .. M BY <1>4, <2>1, <2>2
  <2>4. Low(k + 1, M) = Low(T + r, M) BY <1>2, <1>3, <2>1, <2>2 DEF Low
  <2>5. t.rows[r - 1].at = begins(t, k) BY <1>6, <2>1, <2>2
  <2>6. line_after(t, t.rows[r - 1].at) = begins(t, Low(k + 1, M)) BY <1>2, <2>3, <2>5, LineAfter
  <2> QED BY <1>6, <2>1, <2>4, <2>6
<1>12. PICK last : last = Low(T + (h - 1), M) OBVIOUS
<1>13. last \in 0 .. M /\ t.rows[h - 1].at = begins(t, last) BY <1>4, <1>6, <1>8, <1>12
<1>14. t.page = line_after(t, t.rows[h - 1].at)
  <2>1. Low(last + 1, M) = Low(T + h, M) BY <1>1, <1>2, <1>3, <1>12 DEF Low
  <2>2. line_after(t, t.rows[h - 1].at) = begins(t, Low(last + 1, M)) BY <1>2, <1>13, LineAfter
  <2>3. t.page = begins(t, Low(T + h, M)) BY <1>1, <1>2 DEF TextShows, PageShown
  <2> QED BY <2>1, <2>2, <2>3
<1>15. t.begin_reached \in BOOLEAN /\ t.end_reached \in BOOLEAN BY DEF TextShows
<1>16. (t.begin_reached <=> T = 0) /\ (t.end_reached <=> T + h > M) BY <1>1, <1>2 DEF TextShows
<1>17. t.begin_reached <=> t.rows[0].at = 0 BY <1>2, <1>3, <1>9, <1>16, BeginsFacts DEF Sound
<1>18. t.end_reached <=> t.rows[h - 1].at = strlen(t)
  <2>1. last = M <=> T + h > M BY <1>1, <1>2, <1>3, <1>12 DEF Low
  <2>2. begins(t, last) = strlen(t) <=> last = M BY <1>2, <1>13, BeginsFacts DEF Sound
  <2> QED BY <1>13, <1>16, <2>1, <2>2
<1>19. t.begin_reached = (t.rows[0].at = 0)
  <2>1. CASE t.begin_reached BY <1>15, <1>17, <2>1
  <2>2. CASE ~t.begin_reached BY <1>15, <1>17, <2>2
  <2> QED BY <2>1, <2>2
<1>20. t.end_reached = (t.rows[h - 1].at = strlen(t))
  <2>1. CASE t.end_reached BY <1>15, <1>18, <2>1
  <2>2. CASE ~t.end_reached BY <1>15, <1>18, <2>2
  <2> QED BY <2>1, <2>2
<1> QED BY <1>1, <1>6, <1>7, <1>10, <1>11, <1>14, <1>19, <1>20 DEF ShowsLines

-----------------------------------------------------------------------------
(* Where a key moves the highlighted item of a menu to.                       *)
LEMMA Clip ==
  ASSUME NEW n \in Int, NEW c \in Nat \ {0}
  PROVE  clip(n, c) = IF n < 0 THEN 0 ELSE IF n >= c THEN c - 1 ELSE n
<1>1. PICK low \in Int : low = Min({n, c - 1}) /\ low = IF n <= c - 1 THEN n ELSE c - 1
  BY MinTwo
<1>2. clip(n, c) = Max({0, low}) BY <1>1 DEF clip
<1>3. Max({0, low}) = IF 0 >= low THEN 0 ELSE low BY MaxTwo
<1> QED BY <1>1, <1>2, <1>3

LEMMA RowAbove ==
  ASSUME NEW m, Dark(m), NEW p, p = print_item(do_scroll(m, -1), m.scroll - 1, 0, FALSE)
  PROVE  p.items = m.items /\ p.scroll = m.scroll - 1 /\ p.choice = m.choice
         /\ p.menu_height = m.menu_height /\ p.result = m.result
<1>1. IsMenu(m) /\ m.scroll \in Nat BY WithinFacts DEF Dark
<1>2. PICK q : q = do_scroll(m, -1) OBVIOUS
<1>3. PICK rows : p = [q EXCEPT !.rows = rows] BY <1>2 DEF print_item
<1> QED BY <1>1, <1>2, <1>3 DEF do_scroll, IsMenu, MenuFields

LEMMA RowBelow ==
  ASSUME NEW m, Dark(m),
         NEW p, p = print_item(do_scroll(m, 1), m.scroll + max_choice(m), max_choice(m) - 1, FALSE)
  PROVE  p.items = m.items /\ p.scroll = m.scroll + 1 /\ p.choice = m.choice
         /\ p.menu_height = m.menu_height /\ p.result = m.result
<1>1. IsMenu(m) /\ m.scroll \in Nat BY WithinFacts DEF Dark
<1>2. PICK q : q = do_scroll(m, 1) OBVIOUS
<1>3. PICK rows : p = [q EXCEPT !.rows = rows] BY <1>2 DEF print_item
<1> QED BY <1>1, <1>2, <1>3 DEF do_scroll, IsMenu, MenuFields

LEMMA CursorAt ==
  ASSUME NEW m, Dark(m), NEW c, NEW p, p = [m EXCEPT !.choice = c]
  PROVE  p.items = m.items /\ p.scroll = m.scroll /\ p.choice = c /\ p.menu_height = m.menu_height
         /\ p.result = m.result
<1>1. IsMenu(m) BY WithinFacts DEF Dark
<1> QED BY <1>1 DEF IsMenu, MenuFields

(* p is m with the item n highlighted instead, or the end of the list.        *)
Goes(p, m, n) ==
  p.items = m.items /\ p.menu_height = m.menu_height /\ p.result = m.result
  /\ pos(p) = clip(n, item_count(m.items))

LEMMA LineUpGoes == ASSUME NEW m, Dark(m), NEW p, p = line_up(m) PROVE Goes(p, m, pos(m) - 1)
<1>1. PICK count \in Nat \ {0} : count = item_count(m.items) BY WithinFacts DEF Dark
<1>2. PICK max \in Nat \ {0} : max = max_choice(m) BY WithinFacts DEF Dark
<1>3. PICK s \in Nat, c \in Nat : s = m.scroll /\ c = m.choice BY WithinFacts DEF Dark
<1>4. c < max /\ s + max <= count BY <1>1, <1>2, <1>3, WithinFacts DEF Dark
<1>5. clip(s + c - 1, count) = IF s + c = 0 THEN 0 ELSE s + c - 1
  <2>1. PICK n \in Int : n = s + c - 1 OBVIOUS
  <2>2. clip(n, count) = IF n < 0 THEN 0 ELSE IF n >= count THEN count - 1 ELSE n BY Clip
  <2> QED BY <1>4, <2>1, <2>2
<1>6. CASE c < 2 /\ s > 0
  <2>1. p = print_item(do_scroll(m, -1), m.scroll - 1, 0, FALSE) BY <1>3, <1>6 DEF line_up
  <2>2. p.items = m.items /\ p.scroll = s - 1 /\ p.choice = c /\ p.menu_height = m.menu_height
        /\ p.result = m.result
    BY <1>3, <2>1, RowAbove
  <2>3. (s - 1) + c = s + c - 1 /\ s + c # 0 BY <1>6
  <2> QED BY <1>1, <1>3, <1>5, <2>2, <2>3 DEF Goes, pos
<1>7. CASE ~(c < 2 /\ s > 0)
  <2>1. p = [m EXCEPT !.choice = Max({m.choice - 1, 0})] BY <1>3, <1>7 DEF line_up
  <2>2. PICK d \in Int : d = Max({c - 1, 0}) /\ d = IF c - 1 >= 0 THEN c - 1 ELSE 0 BY MaxTwo
  <2>3. p.items = m.items /\ p.scroll = s /\ p.choice = d /\ p.menu_height = m.menu_height
        /\ p.result = m.result
    BY <1>3, <2>1, <2>2, CursorAt
  <2>4. s + d = IF s + c = 0 THEN 0 ELSE s + c - 1 BY <1>7, <2>2
  <2> QED BY <1>1, <1>3, <1>5, <2>3, <2>4 DEF Goes, pos
<1> QED BY <1>6, <1>7

LEMMA LineDownGoes == ASSUME NEW m, Dark(m), NEW p, p = line_down(m) PROVE Goes(p, m, pos(m) + 1)
<1>1. PICK count \in Nat \ {0} : count = item_count(m.items) BY WithinFacts DEF Dark
<1>2. PICK max \in Nat \ {0} : max = max_choice(m) BY WithinFacts DEF Dark
<1>3. PICK s \in Nat, c \in Nat : s = m.scroll /\ c = m.choice BY WithinFacts DEF Dark
<1>4. c < max /\ s + max <= count BY <1>1, <1>2, <1>3, WithinFacts DEF Dark
<1>5. clip(s + c + 1, count) = IF s + c + 1 = count THEN s + c ELSE s + c + 1
  <2>1. PICK n \in Int : n = s + c + 1 OBVIOUS
  <2>2. clip(n, count) = IF n < 0 THEN 0 ELSE IF n >= count THEN count - 1 ELSE n BY Clip
  <2> QED BY <1>4, <2>1, <2>2
<1>6. CASE c > max - 3 /\ s + max < count
  <2>1. p = print_item(do_scroll(m, 1), m.scroll + max_choice(m), max_choice(m) - 1, FALSE)
    BY <1>1, <1>2, <1>3, <1>6 DEF line_down
  <2>2. p.items = m.items /\ p.scroll = s + 1 /\ p.choice = c /\ p.menu_height = m.menu_height
        /\ p.result = m.result
    BY <1>3, <2>1, RowBelow
  <2>3. (s + 1) + c = s + c + 1 /\ s + c + 1 # count BY <1>4, <1>6
  <2> QED BY <1>1, <1>3, <1>5, <2>2, <2>3 DEF Goes, pos
<1>7. CASE ~(c > max - 3 /\ s + max < count)
  <2>1. p = [m EXCEPT !.choice = Min({m.choice + 1, max - 1})]
    BY <1>1, <1>2, <1>3, <1>7 DEF line_down
  <2>2. PICK d \in Int : d = Min({c + 1, max - 1}) /\ d = IF c + 1 <= max - 1 THEN c + 1 ELSE max - 1
    <3>1. PICK a \in Int, b \in Int : a = c + 1 /\ b = max - 1 OBVIOUS
    <3>2. Min({a, b}) = IF a <= b THEN a ELSE b BY MinTwo
    <3> QED BY <3>1, <3>2
  <2>3. p.items = m.items /\ p.scroll = s /\ p.choice = d /\ p.menu_height = m.menu_height
        /\ p.result = m.result
    BY <1>3, <2>1, <2>2, CursorAt
  <2>4. s + d = IF s + c + 1 = count THEN s + c ELSE s + c + 1 BY <1>4, <1>7, <2>2
  <2> QED BY <1>1, <1>3, <1>5, <2>3, <2>4 DEF Goes, pos
<1> QED BY <1>6, <1>7

LEMMA PageStepGoes ==
  ASSUME NEW m, Dark(m), NEW up \in BOOLEAN, NEW p, p = PageStep(up, m)
  PROVE  Goes(p, m, IF up THEN pos(m) - 1 ELSE pos(m) + 1)
<1>1. PICK count \in Nat \ {0} : count = item_count(m.items) BY WithinFacts DEF Dark
<1>2. PICK max \in Nat \ {0} : max = max_choice(m) BY WithinFacts DEF Dark
<1>3. PICK s \in Nat, c \in Nat : s = m.scroll /\ c = m.choice BY WithinFacts DEF Dark
<1>4. c < max /\ s + max <= count BY <1>1, <1>2, <1>3, WithinFacts DEF Dark
<1>5. CASE up
  <2>0. clip(s + c - 1, count) = IF s + c = 0 THEN 0 ELSE s + c - 1
    <3>1. PICK n \in Int : n = s + c - 1 OBVIOUS
    <3>2. clip(n, count) = IF n < 0 THEN 0 ELSE IF n >= count THEN count - 1 ELSE n BY Clip
    <3> QED BY <1>4, <3>1, <3>2
  <2>1. CASE s > 0
    <3>1. p = print_item(do_scroll(m, -1), m.scroll - 1, 0, FALSE)
      BY <1>3, <1>5, <2>1 DEF PageStep, page_up_step
    <3>2. p.items = m.items /\ p.scroll = s - 1 /\ p.choice = c /\ p.menu_height = m.menu_height
          /\ p.result = m.result
      BY <1>3, <3>1, RowAbove
    <3>3. (s - 1) + c = s + c - 1 /\ s + c # 0 BY <2>1
    <3>4. Goes(p, m, pos(m) - 1) BY <1>1, <1>3, <2>0, <3>2, <3>3 DEF Goes, pos
    <3> QED BY <1>5, <3>4
  <2>2. CASE ~(s > 0)
    <3>1. PICK d \in Int : d = IF c > 0 THEN c - 1 ELSE c OBVIOUS
    <3>2. p = [m EXCEPT !.choice = d] BY <1>3, <1>5, <2>2, <3>1 DEF PageStep, page_up_step
    <3>3. p.items = m.items /\ p.scroll = s /\ p.choice = d /\ p.menu_height = m.menu_height
          /\ p.result = m.result
      BY <1>3, <3>2, CursorAt
    <3>4. s + d = IF s + c = 0 THEN 0 ELSE s + c - 1 BY <2>2, <3>1
    <3>5. Goes(p, m, pos(m) - 1) BY <1>1, <1>3, <2>0, <3>3, <3>4 DEF Goes, pos
    <3> QED BY <1>5, <3>5
  <2> QED BY <2>1, <2>2
<1>6. CASE ~up
  <2>0. clip(s + c + 1, count) = IF s + c + 1 = count THEN s + c ELSE s + c + 1
    <3>1. PICK n \in Int : n = s + c + 1 OBVIOUS
    <3>2. clip(n, count) = IF n < 0 THEN 0 ELSE IF n >= count THEN count - 1 ELSE n BY Clip
    <3> QED BY <1>4, <3>1, <3>2
  <2>1. CASE s + max < count
    <3>1. p = print_item(do_scroll(m, 1), m.scroll + max_choice(m), max_choice(m) - 1, FALSE)
      BY <1>1, <1>2, <1>3, <1>6, <2>1 DEF PageStep, page_down_step
    <3>2. p.items = m.items /\ p.scroll = s + 1 /\ p.choice = c /\ p.menu_height = m.menu_height
          /\ p.result = m.result
      BY <1>3, <3>1, RowBelow
    <3>3. (s + 1) + c = s + c + 1 /\ s + c + 1 # count BY <1>4, <2>1
    <3> QED BY <1>1, <1>3, <1>6, <2>0, <3>2, <3>3 DEF Goes, pos
  <2>2. CASE ~(s + max < count)
    <3>1. PICK d \in Int : d = IF c + 1 < max THEN c + 1 ELSE c OBVIOUS
    <3>2. p = [m EXCEPT !.choice = d]
      BY <1>1, <1>2, <1>3, <1>6, <2>2, <3>1 DEF PageStep, page_down_step
    <3>3. p.items = m.items /\ p.scroll = s /\ p.choice = d /\ p.menu_height = m.menu_height
          /\ p.result = m.result
      BY <1>3, <3>2, CursorAt
    <3>4. s + d = IF s + c + 1 = count THEN s + c ELSE s + c + 1 BY <1>4, <2>2, <3>1
    <3> QED BY <1>1, <1>3, <1>6, <2>0, <3>3, <3>4 DEF Goes, pos
  <2> QED BY <2>1, <2>2
<1> QED BY <1>5, <1>6

(* Going a step k times is going k steps.                                     *)
LEMMA PosIn ==
  ASSUME NEW m, Dark(m) PROVE pos(m) \in 0 .. item_count(m.items) - 1 /\ pos(m) \in Nat
<1>1. PICK count \in Nat \ {0} : count = item_count(m.items) BY WithinFacts DEF Dark
<1>2. PICK max \in Nat \ {0} : max = max_choice(m) BY WithinFacts DEF Dark
<1>3. PICK s \in Nat, c \in Nat : s = m.scroll /\ c = m.choice BY WithinFacts DEF Dark
<1>4. c < max /\ s + max <= count BY <1>1, <1>2, <1>3, WithinFacts DEF Dark
<1> QED BY <1>1, <1>3, <1>4 DEF pos

Stepped(up, n, k) == IF up THEN n - k ELSE n + k
OneMore(up, n, k, c, q, e, j) ==
  /\ n \in Nat /\ k \in Nat /\ c \in Nat \ {0} /\ n < c
  /\ q = clip(Stepped(up, n, k), c) /\ e = (IF up THEN q - 1 ELSE q + 1) /\ j = k + 1
LEMMA ClipSteps ==
  ASSUME NEW up, up \in BOOLEAN, NEW n, NEW k, NEW c, NEW q, NEW e, NEW j,
         OneMore(up, n, k, c, q, e, j)
  PROVE  clip(e, c) = clip(Stepped(up, n, j), c)
<1>0. /\ n \in Nat /\ k \in Nat /\ c \in Nat \ {0} /\ n < c /\ j = k + 1 /\ j \in Nat
      /\ q = clip(Stepped(up, n, k), c) /\ e = IF up THEN q - 1 ELSE q + 1
  BY DEF OneMore
<1>1. PICK a \in Int : a = Stepped(up, n, k) BY <1>0 DEF Stepped
<1>2. PICK b \in Int : b = Stepped(up, n, j)
  <2>1. n \in Nat /\ j \in Nat BY <1>0
  <2>2. CASE up BY ONLY <2>1, <2>2 DEF Stepped
  <2>3. CASE ~up BY ONLY <2>1, <2>3 DEF Stepped
  <2> QED BY ONLY <2>2, <2>3
<1>3. q = IF a < 0 THEN 0 ELSE IF a >= c THEN c - 1 ELSE a BY <1>0, <1>1, Clip
<1>4. clip(b, c) = IF b < 0 THEN 0 ELSE IF b >= c THEN c - 1 ELSE b BY <1>0, Clip
<1>5. q \in 0 .. c - 1 BY <1>0, <1>3
<1>6. e \in Int BY <1>0, <1>5
<1>7. clip(e, c) = IF e < 0 THEN 0 ELSE IF e >= c THEN c - 1 ELSE e BY <1>0, <1>6, Clip
<1>8. CASE up
  <2>1. a = n - k /\ b = n - (k + 1) /\ e = q - 1 BY <1>0, <1>1, <1>2, <1>8 DEF Stepped
  <2>2. clip(e, c) = clip(b, c) BY <1>0, <1>3, <1>4, <1>5, <1>7, <2>1
  <2> QED BY <1>2, <1>5, <1>6, <2>2
<1>9. CASE ~up
  <2>1. a = n + k /\ b = n + (k + 1) /\ e = q + 1 BY <1>0, <1>1, <1>2, <1>9 DEF Stepped
  <2>2. clip(e, c) = clip(b, c) BY <1>0, <1>3, <1>4, <1>5, <1>7, <2>1
  <2> QED BY <1>2, <1>5, <1>6, <2>2
<1> QED BY <1>8, <1>9

LEMMA PagesGo ==
  ASSUME NEW m, Dark(m), NEW up \in BOOLEAN, NEW n \in Nat, NEW f, Pages(f, up, m, n)
  PROVE  Goes(f[n], m, Stepped(up, pos(m), n))
<1>0. PICK c \in Nat \ {0} : c = item_count(m.items) BY WithinFacts DEF Dark
<1>1. PICK from \in Nat : from = pos(m) /\ from < c BY <1>0, PosIn
<1> DEFINE S == {k \in Nat : k > n \/ (Dark(f[k]) /\ Goes(f[k], m, Stepped(up, from, k)))}
<1>2. DOMAIN f = 0 .. n /\ \A i \in 0 .. n : f[i] = IF i = 0 THEN m ELSE PageStep(up, f[i - 1])
  BY DEF Pages
<1>3. 0 \in S
  <2>1. f[0] = m BY <1>2
  <2>2. Stepped(up, from, 0) = from BY DEF Stepped
  <2>3. clip(from, c) = from BY <1>1, Clip
  <2>4. Goes(f[0], m, Stepped(up, from, 0)) BY <1>0, <1>1, <2>1, <2>2, <2>3 DEF Goes
  <2> QED BY <2>1, <2>4
<1>4. ASSUME NEW k \in Nat, k \in S PROVE k + 1 \in S
  <2>1. CASE k + 1 > n BY <2>1
  <2>2. CASE k + 1 <= n
    <3>1. k + 1 \in 0 .. n /\ (k + 1) - 1 = k /\ k + 1 # 0 BY <2>2
    <3>2. PICK a : a = f[k] OBVIOUS
    <3>3. PICK b : b = f[k + 1] OBVIOUS
    <3>4. Dark(a) /\ Goes(a, m, Stepped(up, from, k)) BY <1>4, <2>2, <3>2
    <3>5. b = PageStep(up, a) BY <1>2, <3>1, <3>2, <3>3
    <3>6. Dark(b) BY <3>4, <3>5, PageUpStep, PageDownStep DEF PageStep
    <3>7. PICK q : q = pos(a) OBVIOUS
    <3>8. q = clip(Stepped(up, from, k), c) /\ a.items = m.items /\ a.menu_height = m.menu_height
          /\ a.result = m.result
      BY <1>0, <3>4, <3>7 DEF Goes
    <3>9. clip(IF up THEN q - 1 ELSE q + 1, c) = clip(Stepped(up, from, k + 1), c)
      <4>1. PICK e : e = IF up THEN q - 1 ELSE q + 1 OBVIOUS
      <4>2. PICK j : j = k + 1 OBVIOUS
      <4>3. clip(e, c) = clip(Stepped(up, from, j), c) 
        <5>1. OneMore(up, from, k, c, q, e, j)
          BY <1>1, <3>8, <4>1, <4>2 DEF OneMore
        <5> QED BY ONLY up \in BOOLEAN, <5>1, ClipSteps
      <4> QED BY <4>1, <4>2, <4>3
    <3>10. Goes(b, a, IF up THEN q - 1 ELSE q + 1) BY <3>4, <3>5, <3>7, PageStepGoes
    <3>11. Goes(b, m, Stepped(up, from, k + 1)) BY <1>0, <3>8, <3>9, <3>10 DEF Goes
    <3> QED BY <3>3, <3>6, <3>11
  <2> QED BY <2>1, <2>2
<1>5. Nat \subseteq S
  <2> HIDE DEF S
  <2> QED BY <1>3, <1>4, UpFromZero
<1>6. Goes(f[n], m, Stepped(up, from, n)) BY <1>5
<1> QED BY <1>1, <1>6

LEMMA PageGoes ==
  ASSUME NEW m, Dark(m)
  PROVE  /\ Goes(page(m, page_up_step), m, pos(m) - max_choice(m))
         /\ Goes(page(m, page_down_step), m, pos(m) + max_choice(m))
<1>1. PICK n \in Nat : n = max_choice(m) BY WithinFacts DEF Dark
<1>2. PICK f : f = CHOOSE g : Pages(g, TRUE, m, n) OBVIOUS
<1>3. Pages(f, TRUE, m, n) BY <1>2, PagesExist
<1>4. page(m, page_up_step) = f[n]
  <2>1. page(m, page_up_step) = (CHOOSE g : g = [i \in 0 .. max_choice(m) |->
          IF i = 0 THEN m ELSE page_up_step(g[i - 1])])[max_choice(m)] BY DEF page
  <2> QED BY <1>1, <1>2, <2>1 DEF Pages, PageStep
<1>5. Goes(f[n], m, Stepped(TRUE, pos(m), n)) BY <1>3, PagesGo
<1>6. PICK h : h = CHOOSE g : Pages(g, FALSE, m, n) OBVIOUS
<1>7. Pages(h, FALSE, m, n) BY <1>6, PagesExist
<1>8. page(m, page_down_step) = h[n]
  <2>1. page(m, page_down_step) = (CHOOSE g : g = [i \in 0 .. max_choice(m) |->
          IF i = 0 THEN m ELSE page_down_step(g[i - 1])])[max_choice(m)] BY DEF page
  <2> QED BY <1>1, <1>6, <2>1 DEF Pages, PageStep
<1>9. Goes(h[n], m, Stepped(FALSE, pos(m), n)) BY <1>7, PagesGo
<1>10. Stepped(TRUE, pos(m), n) = pos(m) - n /\ Stepped(FALSE, pos(m), n) = pos(m) + n
  BY DEF Stepped
<1> QED BY <1>1, <1>4, <1>5, <1>8, <1>9, <1>10

LEMMA MenuMoves ==
  ASSUME MenuInv(menu)
  PROVE  /\ MenuGoes("KEY_UP", -1) /\ MenuGoes("KEY_DOWN", 1)
         /\ MenuGoes("KEY_PPAGE", -max_choice(menu)) /\ MenuGoes("KEY_NPAGE", max_choice(menu))
<1>1. ASSUME NEW key \in Arrows, MenuMove(key), item_count(menu.items) # 0,
             NEW n, Goes(moved(lit(menu, FALSE), key), lit(menu, FALSE), n)
      PROVE  pos(menu') = clip(n, item_count(menu.items))
  <2>1. PICK d : d = lit(menu, FALSE) OBVIOUS
  <2>2. menu.open /\ menu' = print_arrows(lit(moved(d, key), TRUE)) BY <1>1, <2>1 DEF MenuMove
  <2>3. Dark(d) BY <1>1, <2>1, <2>2, Unlights
  <2>4. IsMenu(menu) BY DEF MenuInv
  <2>5. d.items = menu.items BY <2>1, <2>4, LitFields
  <2>6. PICK p : p = moved(d, key) OBVIOUS
  <2>7. Dark(p) BY <1>1, <2>3, <2>6, MovedDark
  <2>8. PICK q : q = lit(p, TRUE) OBVIOUS
  <2>9. IsMenu(p) BY <2>7, WithinFacts DEF Dark
  <2>10. IsMenu(q) /\ q.choice = p.choice /\ q.scroll = p.scroll BY <2>8, <2>9, LitFields
  <2>11. menu' = print_arrows(q) BY <2>2, <2>6, <2>8
  <2>12. menu'.choice = p.choice /\ menu'.scroll = p.scroll
    BY <2>10, <2>11 DEF print_arrows, IsMenu, MenuFields
  <2>13. pos(p) = clip(n, item_count(menu.items)) BY <1>1, <2>1, <2>2, <2>5, <2>6 DEF Goes
  <2>14. pos(menu') = pos(p) BY <2>12 DEF pos
  <2> QED BY <2>13, <2>14
<1>a. PICK here \in BOOLEAN : here <=> menu.open /\ item_count(menu.items) # 0 OBVIOUS
<1>2. ASSUME here, NEW d, d = lit(menu, FALSE)
      PROVE  Dark(d) /\ pos(d) = pos(menu) /\ max_choice(d) = max_choice(menu)
  <2>1. IsMenu(menu) BY DEF MenuInv
  <2>2. d.choice = menu.choice /\ d.scroll = menu.scroll /\ max_choice(d) = max_choice(menu)
    BY <1>2, <2>1, LitFields
  <2> QED BY <1>2, <1>a, <2>2, Unlights DEF pos
<1>b. item_count(menu.items) > 0 => item_count(menu.items) # 0 OBVIOUS
<1>3. pos(menu) + -1 = pos(menu) - 1 \/ ~here
  <2>1. CASE here
    <3>1. pos(menu) \in Nat
      <4>1. PICK d : d = lit(menu, FALSE) OBVIOUS
      <4> QED BY <1>2, <2>1, <4>1, PosIn
    <3> QED BY <3>1
  <2> QED BY <2>1
<1>4. MenuGoes("KEY_UP", -1)
  <2>1. PICK d : d = lit(menu, FALSE) OBVIOUS
  <2>2. PICK p : p = moved(d, "KEY_UP") OBVIOUS
  <2>3. p = line_up(d) BY <2>2 DEF moved
  <2>4. here => Goes(p, d, pos(menu) + -1) BY <1>2, <1>3, <2>1, <2>3, LineUpGoes
  <2>5. "KEY_UP" \in Arrows BY DEF Arrows
  <2> QED BY <1>1, <1>a, <1>b, <2>1, <2>2, <2>4, <2>5 DEF MenuGoes, MenuMove
<1>5. MenuGoes("KEY_DOWN", 1)
  <2>1. PICK d : d = lit(menu, FALSE) OBVIOUS
  <2>2. PICK p : p = moved(d, "KEY_DOWN") OBVIOUS
  <2>3. p = line_down(d) BY <2>2 DEF moved
  <2>4. here => Goes(p, d, pos(menu) + 1) BY <1>2, <2>1, <2>3, LineDownGoes
  <2>5. "KEY_DOWN" \in Arrows BY DEF Arrows
  <2> QED BY <1>1, <1>a, <1>b, <2>1, <2>2, <2>4, <2>5 DEF MenuGoes, MenuMove
<1>6. MenuGoes("KEY_PPAGE", -max_choice(menu))
  <2>1. PICK d : d = lit(menu, FALSE) OBVIOUS
  <2>2. PICK p : p = moved(d, "KEY_PPAGE") OBVIOUS
  <2>3. p = page(d, page_up_step) BY <2>2 DEF moved
  <2>4. here => Goes(p, d, pos(menu) - max_choice(menu)) BY <1>2, <2>1, <2>3, PageGoes
  <2>5. here => pos(menu) - max_choice(menu) = pos(menu) + -max_choice(menu)
    <3>1. here => pos(menu) \in Nat BY <1>2, <2>1, PosIn
    <3>2. here => max_choice(menu) \in Nat BY <1>2, <2>1, WithinFacts DEF Dark
    <3> QED BY <3>1, <3>2
  <2>6. "KEY_PPAGE" \in Arrows BY DEF Arrows
  <2> QED BY <1>1, <1>a, <1>b, <2>1, <2>2, <2>4, <2>5, <2>6 DEF MenuGoes, MenuMove
<1>7. MenuGoes("KEY_NPAGE", max_choice(menu))
  <2>1. PICK d : d = lit(menu, FALSE) OBVIOUS
  <2>2. PICK p : p = moved(d, "KEY_NPAGE") OBVIOUS
  <2>3. p = page(d, page_down_step) BY <2>2 DEF moved
  <2>4. here => Goes(p, d, pos(menu) + max_choice(menu)) BY <1>2, <2>1, <2>3, PageGoes
  <2>5. "KEY_NPAGE" \in Arrows BY DEF Arrows
  <2> QED BY <1>1, <1>a, <1>b, <2>1, <2>2, <2>4, <2>5 DEF MenuGoes, MenuMove
<1> QED BY <1>4, <1>5, <1>6, <1>7

LEMMA Nearest ==
  ASSUME NEW m, max_choice(m) \in Nat, m.choice \in Nat, m.choice < max_choice(m),
         NEW key, NEW h, h = hit(m, key), h < max_choice(m)
  PROVE  /\ h \in 0 .. max_choice(m) - 1 /\ has_key(m, h, key)
         /\ \A i \in 0 .. max_choice(m) - 1 :
              has_key(m, i, key) => steps_to(m, h) <= steps_to(m, i)
<1>1. PICK max \in Nat, c \in Nat : max = max_choice(m) /\ c = m.choice /\ c < max OBVIOUS
<1>2. PICK below : below = {i \in c + 1 .. max - 1 : has_key(m, i, key)} OBVIOUS
<1>3. PICK all : all = {i \in 0 .. max - 1 : has_key(m, i, key)} OBVIOUS
<1>4. h = IF key \in exempt \/ all = {} THEN max ELSE IF below # {} THEN Min(below) ELSE Min(all)
  BY <1>1, <1>2, <1>3 DEF hit
<1>5. all # {} /\ h = IF below # {} THEN Min(below) ELSE Min(all) BY <1>1, <1>4
<1>6. \A i : steps_to(m, i) = IF i > c THEN i - c ELSE i - c + max BY <1>1 DEF steps_to
<1>7. CASE below # {}
  <2>1. below \subseteq Nat BY <1>1, <1>2
  <2>2. h \in below /\ \A i \in below : h <= i BY <1>5, <1>7, <2>1, MinOf
  <2>3. h \in c + 1 .. max - 1 /\ has_key(m, h, key) BY <1>2, <2>2
  <2>4. ASSUME NEW i \in 0 .. max - 1, has_key(m, i, key) PROVE steps_to(m, h) <= steps_to(m, i)
    <3>1. steps_to(m, h) = h - c BY <1>1, <1>6, <2>3
    <3>2. CASE i > c
      <4>1. i \in below BY <1>1, <1>2, <2>4, <3>2
      <4>2. h <= i BY <2>2, <4>1
      <4>3. steps_to(m, i) = i - c BY <1>6, <3>2
      <4> QED BY <1>1, <2>3, <3>1, <4>2, <4>3
    <3>3. CASE ~(i > c)
      <4>1. steps_to(m, i) = i - c + max BY <1>6, <3>3
      <4> QED BY <1>1, <2>3, <3>1, <4>1
    <3> QED BY <3>2, <3>3
  <2> QED BY <1>1, <2>3, <2>4
<1>8. CASE below = {}
  <2>1. all \subseteq Nat BY <1>1, <1>3
  <2>2. h \in all /\ \A i \in all : h <= i BY <1>5, <1>8, <2>1, MinOf
  <2>3. h \in 0 .. max - 1 /\ has_key(m, h, key) BY <1>3, <2>2
  <2>4. \A i \in all : ~(i > c)
    <3> SUFFICES ASSUME NEW i \in all, i > c PROVE FALSE OBVIOUS
    <3>1. i \in c + 1 .. max - 1 /\ has_key(m, i, key) BY <1>1, <1>3
    <3> QED BY <1>2, <1>8, <3>1
  <2>5. ASSUME NEW i \in 0 .. max - 1, has_key(m, i, key) PROVE steps_to(m, h) <= steps_to(m, i)
    <3>1. i \in all BY <1>3, <2>5
    <3>2. h <= i /\ ~(i > c) /\ ~(h > c) BY <2>2, <2>4, <3>1
    <3>3. steps_to(m, h) = h - c + max /\ steps_to(m, i) = i - c + max BY <1>6, <3>2
    <3> QED BY <1>1, <2>3, <3>2, <3>3
  <2> QED BY <1>1, <2>3, <2>5
<1> QED BY <1>7, <1>8

LEMMA MenuHits == ASSUME MenuInv(menu), NEW key PROVE NextWithKey(key)
<1> SUFFICES ASSUME MenuMove(key), key \notin Arrows PROVE NextWithKey(key) BY DEF NextWithKey
<1>1. menu.open /\ hit(menu, key) < max_choice(menu) BY DEF MenuMove
<1>2. PICK h : h = hit(menu, key) OBVIOUS
<1>3. item_count(menu.items) # 0
  <2> SUFFICES ASSUME item_count(menu.items) = 0 PROVE FALSE OBVIOUS
  <2>1. Bare(menu) BY <1>1, HasNone
  <2>2. hit(menu, key) = 0 /\ max_choice(menu) = 0 BY <2>1, BareFacts
  <2> QED BY <1>1, <2>2
<1>4. Within(menu) /\ IsMenu(menu) BY <1>1, <1>3, HasItems
<1>5. max_choice(menu) \in Nat /\ menu.choice \in Nat /\ menu.choice < max_choice(menu)
  BY <1>4, WithinFacts
<1>6. /\ h \in 0 .. max_choice(menu) - 1 /\ has_key(menu, h, key)
      /\ \A i \in 0 .. max_choice(menu) - 1 :
           has_key(menu, i, key) => steps_to(menu, h) <= steps_to(menu, i)
  BY <1>1, <1>2, <1>5, Nearest
<1>7. menu'.choice = h /\ menu'.scroll = menu.scroll
  <2>1. PICK d : d = lit(menu, FALSE) OBVIOUS
  <2>2. /\ IsMenu(d) /\ d.items = menu.items /\ d.menu_height = menu.menu_height
        /\ d.choice = menu.choice /\ d.scroll = menu.scroll
    BY <1>4, <2>1, LitFields
  <2>3. hit(d, key) = h BY <1>2, <2>2, HitSame
  <2>4. PICK p : p = moved(d, key) OBVIOUS
  <2>5. p = [d EXCEPT !.choice = h] BY <2>3, <2>4 DEF moved, Arrows
  <2>6. IsMenu(p) /\ p.choice = h /\ p.scroll = menu.scroll
    BY <2>2, <2>5 DEF IsMenu, MenuFields
  <2>7. PICK q : q = lit(p, TRUE) OBVIOUS
  <2>8. IsMenu(q) /\ q.choice = h /\ q.scroll = menu.scroll BY <2>6, <2>7, LitFields
  <2>9. menu' = print_arrows(q) BY <2>1, <2>4, <2>7 DEF MenuMove
  <2> QED BY <2>8, <2>9 DEF print_arrows, IsMenu, MenuFields
<1> QED BY <1>6, <1>7 DEF NextWithKey

-----------------------------------------------------------------------------
(* Where a key moves the highlighted value of a list to.                      *)
LEMMA ScrolledGoes ==
  ASSUME NEW b, IsList(b), NEW n, NEW row, NEW p, p = scrolled(b, n, row)
  PROVE  p.scroll = b.scroll + n /\ p.choice = b.choice
<1>1. PICK dark : dark = IF ListHeight > 1
        THEN [print_list_item(b, b.scroll + row, row, FALSE) EXCEPT !.rows = wscrl(@, n)] ELSE b
  OBVIOUS
<1>2. IsList(dark) /\ dark.scroll = b.scroll /\ dark.choice = b.choice
  <2>1. PICK a : a = print_list_item(b, b.scroll + row, row, FALSE) OBVIOUS
  <2>2. IsList(a) /\ a.scroll = b.scroll /\ a.choice = b.choice
    BY <2>1 DEF print_list_item, IsList, ListFields
  <2> QED BY <1>1, <2>1, <2>2 DEF IsList, ListFields
<1>3. PICK m : m = [[dark EXCEPT !.scroll = @ + n] EXCEPT !.redrawn = FALSE] OBVIOUS
<1>4. IsList(m) /\ m.scroll = b.scroll + n /\ m.choice = b.choice
  BY <1>2, <1>3 DEF IsList, ListFields
<1>5. PICK e : e = [dark EXCEPT !.scroll = @ + n] OBVIOUS
<1>6. PICK q : q = print_list_item(m, e.scroll + row, row, TRUE) OBVIOUS
<1>7. IsList(q) /\ q.scroll = m.scroll /\ q.choice = m.choice
  BY <1>4, <1>6 DEF print_list_item, IsList, ListFields
<1>8. p = list_arrows(q) BY <1>1, <1>3, <1>5, <1>6 DEF scrolled
<1> QED BY <1>4, <1>7, <1>8, ArrowsFields

LEMMA HighlightedGoes ==
  ASSUME NEW b, IsList(b), NEW i, NEW p, p = highlighted(b, i)
  PROVE  p.scroll = b.scroll /\ p.choice = i
<1>1. CASE i = b.choice BY <1>1 DEF highlighted
<1>2. CASE i # b.choice
  <2>1. PICK a : a = print_list_item(b, b.scroll + b.choice, b.choice, FALSE) OBVIOUS
  <2>2. IsList(a) /\ a.scroll = b.scroll BY <2>1 DEF print_list_item, IsList, ListFields
  <2>3. PICK c : c = print_list_item(a, b.scroll + i, i, TRUE) OBVIOUS
  <2>4. IsList(c) /\ c.scroll = b.scroll BY <2>2, <2>3 DEF print_list_item, IsList, ListFields
  <2>5. p = [c EXCEPT !.choice = i] BY <1>2, <2>1, <2>3 DEF highlighted
  <2> QED BY <2>4, <2>5 DEF IsList, ListFields
<1> QED BY <1>1, <1>2

LEMMA ListMoves ==
  ASSUME ListInv(list), list.open PROVE ListGoes("KEY_UP", -1) /\ ListGoes("KEY_DOWN", 1)
<1>1. PICK b : b = list OBVIOUS
<1>2. ListWithin(b) /\ IsList(b) BY <1>1 DEF ListInv
<1>3. PICK count \in Nat \ {0} : count = item_count(b.items) BY <1>2, ListFacts
<1>4. PICK max \in Nat \ {0} : max = list_max(b) BY <1>2, ListFacts
<1>5. PICK s \in Nat, c \in Nat : s = b.scroll /\ c = b.choice BY <1>2, ListFacts
<1>6. c < max /\ s + max <= count BY <1>2, <1>3, <1>4, <1>5, ListFacts
<1>7. PICK p : p = list' OBVIOUS
<1>8. ASSUME ListMove("KEY_UP") PROVE pos(p) = clip(s + c + -1, count)
  <2>1. p = list_moved(b, "KEY_UP") BY <1>1, <1>7, <1>8 DEF ListMove
  <2>2. PICK n \in Int : n = s + c + -1 OBVIOUS
  <2>3. clip(n, count) = IF n < 0 THEN 0 ELSE IF n >= count THEN count - 1 ELSE n BY Clip
  <2>4. CASE c > 0
    <3>1. p = highlighted(b, c - 1) BY <1>5, <2>1, <2>4 DEF list_moved
    <3>2. pos(p) = s + (c - 1) BY <1>2, <1>5, <3>1, HighlightedGoes DEF pos
    <3> QED BY <1>6, <2>2, <2>3, <2>4, <3>2
  <2>5. CASE c = 0 /\ s = 0
    <3>1. p = b BY <1>5, <2>1, <2>5 DEF list_moved
    <3>2. pos(p) = s + c BY <1>5, <3>1 DEF pos
    <3> QED BY <1>6, <2>2, <2>3, <2>5, <3>2
  <2>6. CASE c = 0 /\ s # 0
    <3>1. p = scrolled(b, -1, 0) BY <1>5, <2>1, <2>6 DEF list_moved
    <3>2. pos(p) = (s + -1) + c BY <1>2, <1>5, <3>1, ScrolledGoes DEF pos
    <3> QED BY <1>6, <2>2, <2>3, <2>6, <3>2
  <2> QED BY <2>4, <2>5, <2>6
<1>9. ASSUME ListMove("KEY_DOWN") PROVE pos(p) = clip(s + c + 1, count)
  <2>1. p = list_moved(b, "KEY_DOWN") BY <1>1, <1>7, <1>9 DEF ListMove
  <2>2. PICK n \in Int : n = s + c + 1 OBVIOUS
  <2>3. clip(n, count) = IF n < 0 THEN 0 ELSE IF n >= count THEN count - 1 ELSE n BY Clip
  <2>4. CASE c # max - 1
    <3>1. p = highlighted(b, c + 1) BY <1>4, <1>5, <2>1, <2>4 DEF list_moved
    <3>2. pos(p) = s + (c + 1) BY <1>2, <1>5, <3>1, HighlightedGoes DEF pos
    <3> QED BY <1>6, <2>2, <2>3, <2>4, <3>2
  <2>5. CASE c = max - 1 /\ s + c >= count - 1
    <3>1. p = b BY <1>3, <1>4, <1>5, <2>1, <2>5 DEF list_moved
    <3>2. pos(p) = s + c BY <1>5, <3>1 DEF pos
    <3> QED BY <1>6, <2>2, <2>3, <2>5, <3>2
  <2>6. CASE c = max - 1 /\ ~(s + c >= count - 1)
    <3>1. p = scrolled(b, 1, max - 1) BY <1>3, <1>4, <1>5, <2>1, <2>6 DEF list_moved
    <3>2. pos(p) = (s + 1) + c BY <1>2, <1>5, <3>1, ScrolledGoes DEF pos
    <3> QED BY <1>6, <2>2, <2>3, <2>6, <3>2
  <2> QED BY <2>4, <2>5, <2>6
<1>10. pos(list) = s + c /\ item_count(list.items) = count BY <1>1, <1>3, <1>5 DEF pos
<1> QED BY <1>7, <1>8, <1>9, <1>10 DEF ListGoes

LEMMA ListHits == ASSUME ListInv(list), NEW key PROVE FirstWithKey(key)
<1> SUFFICES ASSUME ListMove(key), key \notin Arrows PROVE FirstWithKey(key) BY DEF FirstWithKey
<1>1. PICK b : b = list OBVIOUS
<1>2. PICK f : f = first_with(b, key) OBVIOUS
<1>3. key \notin {"KEY_UP", "-", "KEY_DOWN", "+"} BY DEF Arrows
<1>4. f < list_max(b) /\ list' = highlighted(b, f)
  BY <1>1, <1>2, <1>3 DEF ListMove, list_moved
<1>5. ListWithin(b) /\ IsList(b) BY <1>1 DEF ListInv, ListMove
<1>6. list'.scroll = b.scroll /\ list'.choice = f BY <1>4, <1>5, HighlightedGoes
<1>7. PICK max \in Nat : max = list_max(b) BY <1>5, ListFacts
<1>8. PICK all : all = {i \in 0 .. max - 1 : has_letter(b, i, key)} OBVIOUS
<1>9. f = IF all = {} THEN max ELSE Min(all) BY <1>2, <1>7, <1>8 DEF first_with, has_letter
<1>10. all # {} /\ f = Min(all) BY <1>4, <1>7, <1>9
<1>11. all \subseteq Nat BY <1>7, <1>8
<1>12. f \in all /\ \A i \in all : f <= i BY <1>10, <1>11, MinOf
<1>13. ASSUME NEW i \in 0 .. f - 1, has_letter(b, i, key) PROVE FALSE
  <2>1. f \in 0 .. max - 1 BY <1>8, <1>12
  <2>2. i \in 0 .. max - 1 /\ ~(f <= i) BY <1>7, <2>1
  <2>3. i \in all BY <1>8, <1>13, <2>2
  <2> QED BY <1>12, <2>2, <2>3
<1>14. has_letter(b, f, key) BY <1>8, <1>12
<1> QED BY <1>1, <1>6, <1>13, <1>14 DEF FirstWithKey

-----------------------------------------------------------------------------
(* And where a key moves the first line of a text to.                         *)
LEMMA TopIs ==
  ASSUME NEW t, Sound(t), NEW T, TextShows(t, T), boxh(t) > 0
  PROVE  top(t) = begins(t, T) /\ T \in 0 .. line_count(t)
<1>1. PICK h \in Nat \ {0} : h = boxh(t) BY DEF Sound
<1>2. PICK M \in Nat \ {0} : M = line_count(t) BY CountType DEF Sound
<1>3. T \in 0 .. M BY <1>2 DEF TextShows, PageShown
<1>4. t.rows = [r \in 0 .. h - 1 |-> [at |-> begins(t, Low(T + r, M)), hscroll |-> t.hscroll]]
  BY <1>1, <1>2 DEF TextShows, PageShown
<1>5. 0 \in 0 .. h - 1 /\ Low(T + 0, M) = T BY <1>1, <1>2, <1>3 DEF Low
<1>6. t.rows[0].at = begins(t, Low(T + 0, M)) BY <1>4, <1>5
<1> QED BY <1>2, <1>3, <1>5, <1>6 DEF top

LEMMA LinesBefore ==
  ASSUME NEW t, Sound(t), NEW T, TextShows(t, T), boxh(t) > 0, NEW n \in Nat \ {0}
  PROVE  lines_before(t, n) = begins(t, Back0(T, n))
<1>1. top(t) = begins(t, T) /\ T \in 0 .. line_count(t) BY TopIs
<1>2. PICK u : u = [t EXCEPT !.page = top(t), !.end_reached = FALSE] OBVIOUS
<1>3. /\ IsText(u) /\ u.buf = t.buf /\ u.page = begins(t, T) /\ u.end_reached = FALSE
      /\ u.height = t.height /\ u.rows = t.rows
  BY <1>1, <1>2 DEF Sound, IsText, TextFields
<1>4. line_count(u) = line_count(t) /\ (\A k : begins(u, k) = begins(t, k)) /\ Ends(u)
  BY <1>3, SameLines DEF Sound
<1>5. boxh(u) = boxh(t) BY <1>3 DEF boxh
<1>6. Sound(u) BY <1>3, <1>4, <1>5 DEF Sound
<1>7. DOMAIN u.rows = 0 .. boxh(u) - 1 BY <1>3, <1>5, ShownFacts
<1>8. Steps(u, n, T) = n BY <1>3 DEF Steps
<1>9. T \in 0 .. line_count(u) /\ u.page = begins(u, T) BY <1>1, <1>3, <1>4
<1>10. PICK p : p = print_page(back_lines(u, n)) OBVIOUS
<1>11. PICK m \in Nat \ {0} : m = n OBVIOUS
<1>12. Sound(p) /\ Same(p, u) /\ TextShows(p, Back0(T, n))
  <2>1. PICK st : st = Steps(u, n, T) OBVIOUS
  <2>2. n \in Nat /\ st > 0 BY <1>8, <2>1
  <2>3. boxh(u) > 0 => T > 0 \/ st > 0 BY <2>2
  <2>4. p = print_page(back_lines(u, n)) BY <1>10
  <2>5. Sound(p) /\ Same(p, u) /\ TextShows(p, Back0(T, st))
    BY <1>6, <1>7, <1>9, <2>1, <2>2, <2>3, <2>4, BackShows
  <2> QED BY <1>8, <2>1, <2>5
<1>13. boxh(p) > 0 BY <1>5, <1>12 DEF Same, boxh
<1>14. top(p) = begins(p, Back0(T, n)) BY <1>12, <1>13, TopIs
<1>15. \A k : begins(p, k) = begins(u, k) BY <1>12, SameLines DEF Same
<1> QED BY <1>2, <1>4, <1>10, <1>14, <1>15 DEF lines_before

LEMMA MovedTop ==
  ASSUME NEW t, boxh(t) > 0, NEW p, NEW T2, Moves(p, t, T2)
  PROVE  top(p) = begins(t, T2)
<1>1. boxh(p) > 0 BY DEF Moves, Same, boxh
<1>2. top(p) = begins(p, T2) BY <1>1, TopIs DEF Moves
<1>3. \A k : begins(p, k) = begins(t, k) BY SameLines DEF Moves, Same
<1> QED BY <1>2, <1>3

LEMMA EndShown ==
  ASSUME NEW t, boxh(t) > 0, NEW p, NEW T2, Moves(p, t, T2),
         T2 = Back0(line_count(t), boxh(t) - 1)
  PROVE  AtEnd(p)
<1>1. boxh(p) = boxh(t) /\ p.buf = t.buf BY DEF Moves, Same, boxh
<1>2. Sound(p) /\ TextShows(p, T2) BY DEF Moves
<1>3. line_count(p) = line_count(t) BY <1>1, SameLines
<1>4. PICK h \in Nat \ {0} : h = boxh(p) BY <1>1, <1>2 DEF Sound
<1>5. PICK M \in Nat \ {0} : M = line_count(p) BY <1>2, CountType DEF Sound
<1>6. T2 = IF M > h - 1 THEN M - (h - 1) ELSE 0 BY <1>1, <1>3, <1>4, <1>5 DEF Back0
<1>7. p.rows = [r \in 0 .. h - 1 |-> [at |-> begins(p, Low(T2 + r, M)), hscroll |-> p.hscroll]]
  BY <1>2, <1>4, <1>5 DEF TextShows, PageShown
<1>8. p.rows[h - 1].at = strlen(p)
  <2>1. h - 1 \in 0 .. h - 1 /\ Low(T2 + (h - 1), M) = M BY <1>4, <1>5, <1>6 DEF Low
  <2>2. p.rows[h - 1].at = begins(p, M) BY <1>7, <2>1
  <2>3. M \in 0 .. line_count(p) BY <1>5
  <2> QED BY <1>2, <1>5, <2>2, <2>3, BeginsFacts DEF Sound
<1>9. CASE T2 = 0
  <2>1. top(p) = begins(p, T2) BY <1>1, <1>2, TopIs
  <2>2. begins(p, 0) = 0 BY DEF begins, start
  <2> QED BY <1>4, <1>8, <1>9, <2>1, <2>2 DEF AtEnd
<1>10. CASE h = 1 BY <1>4, <1>8, <1>10 DEF AtEnd
<1>11. CASE T2 # 0 /\ h # 1
  <2>1. h - 2 \in 0 .. h - 1 /\ Low(T2 + (h - 2), M) = M - 1 /\ M - 1 \in 0 .. M
    BY <1>4, <1>5, <1>6, <1>11 DEF Low
  <2>2. p.rows[h - 2].at = begins(p, M - 1) BY <1>7, <2>1
  <2>3. PICK k \in 0 .. line_count(p) : k = M - 1 /\ k # M BY <1>5, <2>1
  <2>4. begins(p, k) # strlen(p) BY <1>2, <1>5, <2>3, BeginsFacts DEF Sound
  <2> QED BY <1>4, <1>8, <2>2, <2>3, <2>4 DEF AtEnd
<1> QED BY <1>9, <1>10, <1>11

LEMMA TextMoves ==
  ASSUME TextInv(text), text.open, boxh(text) > 0, EndsInNewline(text) PROVE TextGoes
<1>1. PICK t : t = text OBVIOUS
<1>2. PICK p : p = text' OBVIOUS
<1>3. PICK T : Sound(t) /\ TextShows(t, T) BY <1>1, TextSound
<1>4. boxh(t) > 0 BY <1>1
<1>5. PICK h \in Nat \ {0} : h = boxh(t) BY <1>3, <1>4 DEF Sound
<1>6. top(t) = begins(t, T) /\ T \in 0 .. line_count(t) BY <1>3, <1>4, TopIs
<1>7. line_count(t) \in Nat \ {0} BY <1>3, CountType DEF Sound
<1>8. ASSUME TextDown
      PROVE  top(p) = IF t.end_reached THEN top(t) ELSE line_after(t, top(t))
  <2>1. p = text_down(t) BY <1>1, <1>2, <1>8 DEF TextDown
  <2>2. CASE t.end_reached BY <2>1, <2>2 DEF text_down
  <2>3. CASE ~t.end_reached
    <3>1. PICK T2 : Moves(p, t, T2) /\ T2 = Low(T + 1, line_count(t))
      BY <1>3, <2>1, <2>3, DownShows
    <3>2. top(p) = begins(t, T2) BY <1>4, <3>1, MovedTop
    <3>3. line_after(t, top(t)) = begins(t, Low(T + 1, line_count(t))) BY <1>3, <1>6, LineAfter
    <3> QED BY <2>3, <3>1, <3>2, <3>3
  <2> QED BY <2>2, <2>3
<1>9. ASSUME NEW n \in Nat \ {0}, t.begin_reached, p = t PROVE top(p) = lines_before(t, n)
  <2>1. T = 0 BY <1>3, <1>4, <1>9 DEF TextShows
  <2>2. Back0(T, n) = 0 BY <2>1 DEF Back0
  <2>3. lines_before(t, n) = begins(t, Back0(T, n)) BY <1>3, <1>4, LinesBefore
  <2> QED BY <1>6, <1>9, <2>1, <2>2, <2>3
<1>10. ASSUME TextUp PROVE top(p) = lines_before(t, 1)
  <2>1. p = text_up(t) BY <1>1, <1>2, <1>10 DEF TextUp
  <2>2. CASE t.begin_reached
    <3>1. p = t BY <2>1, <2>2 DEF text_up
    <3> QED BY <1>9, <2>2, <3>1
  <2>3. CASE ~t.begin_reached
    <3>1. PICK T2 : Moves(p, t, T2) /\ (boxh(t) > 0 => T2 = Back0(T, 1))
      BY <1>3, <2>1, <2>3, UpShows
    <3>2. top(p) = begins(t, Back0(T, 1)) BY <1>4, <3>1, MovedTop
    <3>3. lines_before(t, 1) = begins(t, Back0(T, 1)) BY <1>3, <1>4, LinesBefore
    <3> QED BY <3>2, <3>3
  <2> QED BY <2>2, <2>3
<1>11. ASSUME TextPageUp PROVE top(p) = lines_before(t, boxh(t))
  <2>1. p = text_ppage(t) BY <1>1, <1>2, <1>11 DEF TextPageUp
  <2>2. CASE t.begin_reached
    <3>1. p = t BY <2>1, <2>2 DEF text_ppage
    <3> QED BY <1>5, <1>9, <2>2, <3>1
  <2>3. CASE ~t.begin_reached
    <3>1. PICK T2 : Moves(p, t, T2) /\ (boxh(t) > 0 => T2 = Back0(T, boxh(t)))
      BY <1>3, <2>1, <2>3, PageUpShows
    <3>2. top(p) = begins(t, Back0(T, h)) BY <1>4, <1>5, <3>1, MovedTop
    <3>3. lines_before(t, h) = begins(t, Back0(T, h)) BY <1>3, <1>4, LinesBefore
    <3> QED BY <1>5, <3>2, <3>3
  <2> QED BY <2>2, <2>3
<1>12. ASSUME TextPageDown PROVE top(p) = IF t.end_reached THEN top(t) ELSE t.page
  <2>1. p = text_npage(t) BY <1>1, <1>2, <1>12 DEF TextPageDown
  <2>2. CASE t.end_reached BY <2>1, <2>2 DEF text_npage
  <2>3. CASE ~t.end_reached
    <3>1. PICK T2 : Moves(p, t, T2) /\ T2 = Low(T + boxh(t), line_count(t))
      BY <1>3, <2>1, <2>3, PageDownShows
    <3>2. top(p) = begins(t, T2) BY <1>4, <3>1, MovedTop
    <3>3. t.page = begins(t, Low(T + boxh(t), line_count(t))) BY <1>3, ShownFacts
    <3> QED BY <2>3, <3>1, <3>2, <3>3
  <2> QED BY <2>2, <2>3
<1>13. ASSUME NEW key, TextSide(key) PROVE top(p) = top(t)
  <2>1. p = t \/ \E x : p = reprint([t EXCEPT !.hscroll = x])
    BY <1>1, <1>2, <1>13 DEF TextSide, text_left, text_right
  <2>2. CASE p = t BY <2>2
  <2>3. ASSUME NEW x, p = reprint([t EXCEPT !.hscroll = x]) PROVE top(p) = top(t)
    <3>1. PICK u : u = [t EXCEPT !.hscroll = x] OBVIOUS
    <3>2. p = reprint(u) BY <2>3, <3>1
    <3>3. PICK T2 : /\ Sound(p) /\ p.buf = t.buf /\ p.height = t.height /\ TextShows(p, T2)
                    /\ boxh(t) > 0 => T2 = T
      BY <1>3, <3>1, <3>2, SideShows
    <3>4. boxh(p) > 0 BY <1>4, <3>3 DEF boxh
    <3>5. top(p) = begins(p, T) BY <1>4, <3>3, <3>4, TopIs
    <3>6. \A k : begins(p, k) = begins(t, k) BY <3>3, SameLines
    <3> QED BY <1>6, <3>5, <3>6
  <2> QED BY <2>1, <2>2, <2>3
<1>14. ASSUME TextSide("0") PROVE p.hscroll <= 0
  <2>1. p = text_left(t, "0") BY <1>1, <1>2, <1>14 DEF TextSide
  <2>2. CASE t.hscroll <= 0 BY <2>1, <2>2 DEF text_left
  <2>3. CASE ~(t.hscroll <= 0)
    <3>1. PICK u : u = [t EXCEPT !.hscroll = 0] OBVIOUS
    <3>2. p = reprint(u) BY <2>1, <2>3, <3>1 DEF text_left
    <3>3. IsText(u) /\ u.hscroll = 0 BY <1>3, <3>1 DEF Sound, IsText, TextFields
    <3>4. PICK b : b = back_lines(u, u.page_length) OBVIOUS
    <3>5. IsText(b) /\ Same(b, u) BY <3>3, <3>4, BackKeeps
    <3>6. IsText(p) /\ Same(p, b) BY <3>2, <3>4, <3>5, PrintKeeps DEF reprint
    <3> QED BY <3>3, <3>5, <3>6 DEF Same
  <2> QED BY <2>2, <2>3
<1>15. ASSUME TextHome PROVE top(p) = 0
  <2>1. p = text_home(t) BY <1>1, <1>2, <1>15 DEF TextHome
  <2>2. PICK T2 : Moves(p, t, T2) /\ T2 = 0 BY <1>3, <1>4, <2>1, HomeShows
  <2>3. top(p) = begins(t, 0) BY <1>4, <2>2, MovedTop
  <2> QED BY <2>3 DEF begins, start
<1>16. ASSUME TextEnd PROVE AtEnd(p)
  <2>1. p = text_end(t) BY <1>1, <1>2, <1>16 DEF TextEnd
  <2>2. PICK T2 : Moves(p, t, T2) /\ T2 = Back0(line_count(t), boxh(t) - 1)
    BY <1>3, <1>4, <2>1, EndShows
  <2> QED BY <1>4, <2>2, EndShown
<1> QED BY <1>1, <1>2, <1>8, <1>10, <1>11, <1>12, <1>13, <1>14, <1>15, <1>16 DEF TextGoes

-----------------------------------------------------------------------------
(* The functions that run. *)
FrameFields == {"fn", "active", "s_scroll", "seen", "buf", "fixed"}
(* A place in a menu: what is highlighted, in a window of that height.        *)
PlaceIn(items, scroll, choice, sz) ==
  /\ item_count(items) \in Nat \ {0} /\ scroll \in Nat /\ choice \in Nat
  /\ choice < Min({sz.lines - 4 - 10, item_count(items)})
  /\ scroll + Min({sz.lines - 4 - 10, item_count(items)}) <= item_count(items)
  /\ DOMAIN items = 1 .. item_count(items) /\ Distinct(items) /\ ~too_small(sz)
(* What conf remembers of its menu is the place it was left at.               *)
Remembers(f) ==
  f.fn = "conf" /\ f.active # NULL /\ f.seen # NotSeen =>
    /\ PlaceIn(f.seen.items, f.seen.scroll, f.seen.choice, f.seen.size)
    /\ f.s_scroll = f.seen.scroll
    /\ f.active = item_at(f.seen.items, f.seen.scroll + f.seen.choice).data
IsFrame(f) == /\ f = [x \in FrameFields |-> f[x]]
              /\ f.s_scroll \in Int /\ f.fixed \in {0, 5, 6} /\ Len(f.buf) \in Nat
              /\ Remembers(f)
Framed(s) == \E V : s \in Seq(V) /\ \A f \in V : IsFrame(f)

LEMMA FrameOfCall == ASSUME NEW fn PROVE IsFrame(call(fn))
<1>1. Len(<<>>) \in Nat OBVIOUS
<1> QED BY <1>1 DEF call, IsFrame, FrameFields, Remembers

LEMMA FrameOfText ==
  ASSUME NEW b, IsSequence(b), NEW height \in {0, 5, 6} PROVE IsFrame(text_call(b, height))
<1>1. PICK f : f = call("text") OBVIOUS
<1>2. IsFrame(f) BY <1>1, FrameOfCall
<1>3. PICK t : t = [f EXCEPT !.buf = b, !.fixed = height] OBVIOUS
<1>4. t.buf = b /\ t.fixed = height /\ t.s_scroll = f.s_scroll /\ t = [x \in FrameFields |-> t[x]]
      /\ t.fn = f.fn
  BY <1>2, <1>3 DEF IsFrame, FrameFields
<1>5. f.fn = "text" BY <1>1 DEF call
<1>6. Remembers(t) BY <1>4, <1>5 DEF Remembers
<1> QED BY <1>1, <1>2, <1>3, <1>4, <1>6 DEF text_call, IsFrame, IsSequence

LEMMA HeadFramed == ASSUME NEW s, Framed(s), s # <<>> PROVE IsFrame(Head(s)) /\ Framed(Tail(s))
<1>1. PICK V : s \in Seq(V) /\ \A f \in V : IsFrame(f) BY DEF Framed
<1>2. Head(s) \in V /\ Tail(s) \in Seq(V) BY <1>1
<1> QED BY <1>1, <1>2 DEF Framed

LEMMA FramedWith ==
  ASSUME NEW s, Framed(s), NEW f, IsFrame(f) PROVE Framed(<<f>> \o s)
<1>1. PICK V : s \in Seq(V) /\ \A x \in V : IsFrame(x) BY DEF Framed
<1>2. PICK W : W = V \cup {f} OBVIOUS
<1>3. s \in Seq(W)
  <2>1. \A i \in 1 .. Len(s) : s[i] \in W BY <1>1, <1>2
  <2>2. Len(s) \in Nat /\ s \in [1 .. Len(s) -> V] BY <1>1
  <2> QED BY <2>1, <2>2
<1>4. <<f>> \in Seq(W) BY <1>2
<1>5. <<f>> \o s \in Seq(W) BY <1>3, <1>4
<1>6. \A x \in W : IsFrame(x) BY <1>1, <1>2
<1> QED BY <1>5, <1>6 DEF Framed

LEMMA FramedWithTwo ==
  ASSUME NEW s, Framed(s), NEW f, IsFrame(f), NEW g, IsFrame(g) PROVE Framed(<<f, g>> \o s)
<1>1. PICK V : s \in Seq(V) /\ \A x \in V : IsFrame(x) BY DEF Framed
<1>2. PICK W : W = V \cup {f, g} OBVIOUS
<1>3. s \in Seq(W)
  <2>1. \A i \in 1 .. Len(s) : s[i] \in W BY <1>1, <1>2
  <2>2. Len(s) \in Nat /\ s \in [1 .. Len(s) -> V] BY <1>1
  <2> QED BY <2>1, <2>2
<1>4. <<f, g>> \in Seq(W) BY <1>2
<1>5. <<f, g>> \o s \in Seq(W) BY <1>3, <1>4
<1>6. \A x \in W : IsFrame(x) BY <1>1, <1>2
<1> QED BY <1>5, <1>6 DEF Framed

LEMMA FramedPair ==
  ASSUME NEW f, IsFrame(f), NEW g, IsFrame(g) PROVE Framed(<<f, g>>)
<1>1. PICK V : V = {f, g} OBVIOUS
<1>2. <<f, g>> \in Seq(V) /\ \A x \in V : IsFrame(x) BY <1>1
<1> QED BY <1>2 DEF Framed

-----------------------------------------------------------------------------
(* The inductive invariant of mconf: one for every box, the stack, the box    *)
(* being that of the function that runs, and the place in the menu.           *)
BoxesInv ==
  /\ MenuInv(menu) /\ ListInv(list) /\ TextInv(text) /\ InputInv(input) /\ YesnoInv(yesno)
  /\ size \in Sizes /\ Framed(stack)
Owner ==
  /\ Idle(menu) \/ Runs("conf")
  /\ Idle(list) \/ Runs("choice")
  /\ Idle(text) \/ Runs("text")
  /\ Idle(input) \/ \E f \in Asks : Runs(f)
  /\ Idle(yesno) \/ Runs("main")
MenuPlace(m, sz) ==
  /\ m.open => /\ m.result = "none" /\ m.menu_height = sz.lines - 4 - 10 /\ ~too_small(sz)
               /\ Distinct(m.items) /\ DOMAIN m.items = 1 .. item_count(m.items)
               /\ item_count(m.items) # 0 => PlaceIn(m.items, m.scroll, m.choice, sz)
  /\ m.result \notin {"none", "KEY_ESC", "too_small"} /\ item_count(m.items) # 0 =>
       /\ PlaceIn(m.items, m.scroll, m.choice, sz)
       /\ m.s_scroll = m.scroll /\ m.chosen = m.scroll + m.choice
Inv == BoxesInv /\ Owner /\ MenuPlace(menu, size)

LEMMA ClosedInv ==
  MenuInv(MenuClosed) /\ ListInv(ListClosed) /\ TextInv(TextClosed) /\ InputInv(InputClosed)
  /\ YesnoInv(YesnoClosed)
<1>1. MenuInv(MenuClosed) BY ClosedIsMenu DEF MenuInv, MenuClosed
<1>2. ListInv(ListClosed) BY DEF ListInv, IsList, ListFields, ListClosed
<1>3. TextInv(TextClosed)
  <2>1. Len(<<>>) \in Nat OBVIOUS
  <2> QED BY <2>1 DEF TextInv, IsText, TextFields, TextClosed
<1>4. InputInv(InputClosed) BY DEF InputInv, IsInput, InputFields, InputClosed
<1>5. YesnoInv(YesnoClosed) BY DEF YesnoInv, IsYesno, YesnoFields, YesnoClosed
<1> QED BY <1>1, <1>2, <1>3, <1>4, <1>5

LEMMA InitInv == Init => Inv
<1> SUFFICES ASSUME Init PROVE Inv OBVIOUS
<1>1. size \in Sizes BY DEF Init, init_wsize
<1>2. Framed(stack) BY FramedPair, FrameOfCall DEF Init
<1>3. menu = MenuClosed /\ list = ListClosed /\ text = TextClosed /\ input = InputClosed
      /\ yesno = YesnoClosed
  BY DEF Init
<1>4. Owner BY <1>3 DEF Owner, Idle, MenuClosed, ListClosed, TextClosed, InputClosed, YesnoClosed
<1>5. MenuPlace(menu, size) BY <1>3 DEF MenuPlace, MenuClosed
<1> QED BY <1>1, <1>2, <1>3, <1>4, <1>5, ClosedInv DEF Inv, BoxesInv

(* Where the stack is only added to or taken from.                            *)
LEMMA StackSteps ==
  ASSUME Inv, stack # <<>>
  PROVE  /\ IsFrame(Head(stack)) /\ Framed(Tail(stack))
         /\ Return => Framed(stack')
         /\ \A f : IsFrame(f) /\ Call(f) => Framed(stack')
<1>1. Framed(stack) BY DEF Inv, BoxesInv
<1>2. IsFrame(Head(stack)) /\ Framed(Tail(stack)) BY <1>1, HeadFramed
<1>3. ASSUME NEW f, IsFrame(f), Call(f) PROVE Framed(stack')
  BY <1>1, <1>3, FramedWith DEF Call
<1> QED BY <1>2, <1>3 DEF Return

LEMMA ConfShowBoxes == ASSUME Inv, ConfShow PROVE BoxesInv'
<1>1. stack # <<>> /\ depth_of \in DOMAIN Menus BY DEF ConfShow, Runs
<1>2. PICK items \in Menus[depth_of] :
        menu' = dialog_menu(items, Head(stack).active, Head(stack).s_scroll, size)
  BY DEF ConfShow
<1>3. item_count(items) \in Nat BY <1>1, <1>2, DialogsAssumption DEF item_count, IsSequence
<1>4. Head(stack).s_scroll \in Int BY <1>1, StackSteps DEF IsFrame
<1>5. size.lines \in Nat BY DialogsAssumption DEF Inv, BoxesInv
<1>6. MenuInv(menu') BY <1>2, <1>3, <1>4, <1>5, DialogMenuInv
<1>7. list' = list /\ text' = text /\ input' = input /\ yesno' = yesno BY DEF ConfShow, Only
<1> QED BY <1>6, <1>7 DEF ConfShow, Inv, BoxesInv

LEMMA ConfAnswerBoxes == ASSUME Inv, ConfAnswer PROVE BoxesInv'
<1>1. stack # <<>> /\ MenuInv(menu) BY DEF ConfAnswer, Runs, Inv, BoxesInv
<1>2. IsFrame(Head(stack)) /\ Framed(Tail(stack)) BY <1>1, StackSteps
<1>3. list' = list /\ text' = text /\ input' = input /\ yesno' = yesno BY DEF ConfAnswer, Only
<1>4. menu' = MenuClosed /\ size' = size BY DEF ConfAnswer
<1>5. Framed(stack')
  <2>1. CASE menu.result \in {"1", "KEY_ESC", "too_small"}
    BY <1>1, <2>1, StackSteps DEF ConfAnswer
  <2>3. CASE menu.result \notin {"1", "KEY_ESC", "too_small"} /\ item_count(menu.items) = 0
    <3>1. PICK here : here = [Head(stack) EXCEPT !.s_scroll = menu.s_scroll, !.seen = NotSeen] OBVIOUS
    <3>2. stack' = <<here>> \o Tail(stack) BY <2>3, <3>1 DEF ConfAnswer
    <3>3. /\ here = [x \in FrameFields |-> here[x]] /\ here.s_scroll = menu.s_scroll
          /\ here.seen = NotSeen /\ here.fixed = Head(stack).fixed /\ here.buf = Head(stack).buf
      BY <1>2, <3>1 DEF IsFrame, FrameFields
    <3>4. menu.s_scroll \in Int BY <1>1 DEF MenuInv
    <3>5. IsFrame(here) BY <1>2, <3>3, <3>4 DEF IsFrame, Remembers
    <3> QED BY <1>2, <3>2, <3>5, FramedWith
  <2>2. CASE menu.result \notin {"1", "KEY_ESC", "too_small"} /\ item_count(menu.items) # 0
    <3>1. PICK it : it = item_at(menu.items, menu.chosen) OBVIOUS
    <3>2. PICK seen : seen = [items |-> menu.items, size |-> size,
                              scroll |-> menu.scroll, choice |-> menu.choice] OBVIOUS
    <3>3. PICK here : here = [Head(stack) EXCEPT !.active = it.data, !.s_scroll = menu.s_scroll,
                                                 !.seen = seen] OBVIOUS
    <3>4. PICK back : back = <<here>> \o Tail(stack) OBVIOUS
    <3>5. \/ \E f : IsFrame(f) /\ stack' = <<f>> \o back
          \/ stack' = back
      <4>1. \/ stack' = <<call("conf")>> \o back
            \/ it.tag \in DOMAIN Opens /\ stack' = <<call(Opens[it.tag])>> \o back
            \/ \E t \in Texts["conf"] : stack' = <<text_call(t, 0)>> \o back
            \/ \E t \in Notes : stack' = <<text_call(t, 6)>> \o back
            \/ stack' = <<call("search")>> \o back
            \/ stack' = back
        BY <2>2, <3>1, <3>2, <3>3, <3>4 DEF ConfAnswer
      <4> QED BY <4>1, FrameOfCall, FrameOfText, DialogsAssumption
    <3>6. IsFrame(here)
      <4>1. menu.s_scroll \in Int BY <1>1 DEF MenuInv
      <4>2. menu.result \notin {"none", "KEY_ESC", "too_small"} BY <2>2 DEF ConfAnswer, Answered
      <4>3. /\ PlaceIn(menu.items, menu.scroll, menu.choice, size)
              /\ menu.s_scroll = menu.scroll /\ menu.chosen = menu.scroll + menu.choice
        BY <2>2, <4>2 DEF Inv, BoxesInv, MenuPlace
      <4>4. /\ here = [x \in FrameFields |-> here[x]] /\ here.s_scroll = menu.s_scroll
            /\ here.seen = seen /\ here.active = it.data
            /\ here.fixed = Head(stack).fixed /\ here.buf = Head(stack).buf
        BY <1>2, <3>3 DEF IsFrame, FrameFields
      <4>5. /\ seen.items = menu.items /\ seen.size = size /\ seen.scroll = menu.scroll
            /\ seen.choice = menu.choice
        BY <3>2
      <4>6. Remembers(here) BY <3>1, <4>3, <4>4, <4>5 DEF Remembers
      <4> QED BY <1>2, <4>1, <4>4, <4>6 DEF IsFrame
    <3>7. Framed(back) BY <1>2, <3>4, <3>6, FramedWith
    <3> QED BY <3>5, <3>7, FramedWith
  <2> QED BY <2>1, <2>2, <2>3
<1> QED BY <1>3, <1>4, <1>5, ClosedInv DEF Inv, BoxesInv

LEMMA MainBoxes == ASSUME Inv, MainAsks \/ MainAnswer PROVE BoxesInv'
<1>1. stack # <<>> BY DEF MainAsks, MainAnswer, Runs
<1>2. list' = list /\ text' = text /\ input' = input /\ menu' = menu /\ size' = size
  BY DEF MainAsks, MainAnswer, Only
<1>3. CASE MainAsks
  <2>1. CASE Return /\ UNCHANGED yesno BY <1>1, <1>2, <2>1, StackSteps DEF Inv, BoxesInv
  <2>2. CASE \E p \in Prompts : yesno' = dialog_yesno(p.words, p.width, size) /\ UNCHANGED stack
    <3>1. PICK p \in Prompts : yesno' = dialog_yesno(p.words, p.width, size) /\ stack' = stack
      BY <2>2
    <3>2. IsWords(p.words) /\ p.width \in Int BY DialogsAssumption DEF IsSequence, IsWords
    <3>3. YesnoInv(yesno') BY <3>1, <3>2, YesnoBoxInv
    <3> QED BY <1>2, <3>1, <3>3 DEF Inv, BoxesInv
  <2> QED BY <1>3, <2>1, <2>2 DEF MainAsks
<1>4. CASE MainAnswer
  <2>1. Framed(stack') BY <1>1, <1>4, StackSteps, FrameOfCall DEF MainAnswer
  <2> QED BY <1>2, <1>4, <2>1, ClosedInv DEF Inv, BoxesInv, MainAnswer
<1> QED BY <1>3, <1>4

LEMMA ChoiceShowBoxes == ASSUME Inv, ChoiceShow PROVE BoxesInv'
<1>1. PICK items \in ChoiceLists :
        list' = dialog_checklist([i \in DOMAIN items |->
                  [items[i] EXCEPT !.selected = items[i].data = Head(stack).active]], size)
  BY DEF ChoiceShow
<1>2. PICK all : all = [i \in DOMAIN items |->
                         [items[i] EXCEPT !.selected = items[i].data = Head(stack).active]] OBVIOUS
<1>3. PICK n \in Nat : n = Len(items) BY DialogsAssumption DEF IsSequence
<1>4. n # 0
  <2>1. items # <<>> /\ DOMAIN items = 1 .. n BY <1>3, DialogsAssumption DEF IsSequence
  <2>2. ASSUME n = 0 PROVE FALSE
    <3>1. Len(items) = 0 BY <1>3, <2>2
    <3> QED BY <2>1, <3>1, DialogsAssumption
  <2> QED BY <2>2
<1>5. DOMAIN items = 1 .. n BY <1>3, DialogsAssumption DEF IsSequence
<1>6. PICK V : V = {all[i] : i \in 1 .. n} OBVIOUS
<1>7. all \in [1 .. n -> V] BY <1>2, <1>5, <1>6
<1>8. item_count(all) = n BY <1>7, LenIs DEF item_count
<1>9. ListInv(list') BY <1>1, <1>2, <1>4, <1>8, ChecklistInv
<1>10. menu' = menu /\ text' = text /\ input' = input /\ yesno' = yesno BY DEF ChoiceShow, Only
<1> QED BY <1>9, <1>10 DEF ChoiceShow, Inv, BoxesInv

LEMMA ChoiceAnswerBoxes == ASSUME Inv, ChoiceAnswer PROVE BoxesInv'
<1>1. stack # <<>> BY DEF ChoiceAnswer, Runs
<1>2. IsFrame(Head(stack)) /\ Framed(Tail(stack)) BY <1>1, StackSteps
<1>3. menu' = menu /\ text' = text /\ input' = input /\ yesno' = yesno BY DEF ChoiceAnswer, Only
<1>4. Framed(stack')
  <2>1. CASE list.result # "1" BY <1>1, <2>1, StackSteps DEF ChoiceAnswer
  <2>2. CASE list.result = "1"
    <3>1. PICK x : x = item_at(list.items, list.chosen).data OBVIOUS
    <3>2. PICK here : here = [Head(stack) EXCEPT !.active = x] OBVIOUS
    <3>3. PICK t \in Texts["choice"] : stack' = <<text_call(t, 0), here>> \o Tail(stack)
      BY <2>2, <3>1, <3>2 DEF ChoiceAnswer
    <3>4. IsFrame(here)
      <4>1. Head(stack).fn = "choice" BY DEF ChoiceAnswer, Runs
      <4>2. /\ here = [y \in FrameFields |-> here[y]] /\ here.s_scroll = Head(stack).s_scroll
            /\ here.fixed = Head(stack).fixed /\ here.buf = Head(stack).buf /\ here.fn = "choice"
        BY <1>2, <3>2, <4>1 DEF IsFrame, FrameFields
      <4>3. Remembers(here) BY <4>2 DEF Remembers
      <4> QED BY <1>2, <4>2, <4>3 DEF IsFrame
    <3>5. IsFrame(text_call(t, 0)) BY FrameOfText, DialogsAssumption
    <3> QED BY <1>2, <3>3, <3>4, <3>5, FramedWithTwo
  <2> QED BY <2>1, <2>2
<1> QED BY <1>3, <1>4, ClosedInv DEF Inv, BoxesInv, ChoiceAnswer

LEMMA TextShowBoxes == ASSUME Inv, TextShow \/ TextAnswer PROVE BoxesInv'
<1>1. stack # <<>> BY DEF TextShow, TextAnswer, Runs
<1>2. menu' = menu /\ list' = list /\ input' = input /\ yesno' = yesno /\ size' = size
  BY DEF TextShow, TextAnswer, Only
<1>3. CASE TextShow
  <2>1. PICK f : f = Head(stack) OBVIOUS
  <2>2. IsFrame(f) BY <1>1, <2>1, StackSteps
  <2>3. text' = dialog_textbox(f.buf, f.fixed, size) BY <1>3, <2>1 DEF TextShow
  <2>4. Len(f.buf) \in Nat /\ f.fixed \in {0, 5, 6} BY <2>2 DEF IsFrame
  <2>5. size.lines \in Nat BY DialogsAssumption DEF Inv, BoxesInv
  <2>6. TextInv(text') BY <2>3, <2>4, <2>5, TextboxInv
  <2> QED BY <1>2, <1>3, <2>6 DEF Inv, BoxesInv, TextShow
<1>4. CASE TextAnswer
  <2>1. Framed(stack') BY <1>1, <1>4, StackSteps DEF TextAnswer
  <2> QED BY <1>2, <1>4, <2>1, ClosedInv DEF Inv, BoxesInv, TextAnswer
<1> QED BY <1>3, <1>4

LEMMA AskBoxes == ASSUME Inv, NEW f \in Asks, AskShow(f) \/ AskAnswer(f) PROVE BoxesInv'
<1>1. stack # <<>> BY DEF AskShow, AskAnswer, Runs
<1>2. menu' = menu /\ list' = list /\ text' = text /\ yesno' = yesno /\ size' = size
  BY DEF AskShow, AskAnswer, Only
<1>3. CASE AskShow(f)
  <2>1. PICK v \in (IF f = "search" THEN {<<>>} ELSE Strings) :
          input' = dialog_inputbox(v, height_of[f], width_of[f], size)
    BY <1>3 DEF AskShow
  <2>2. Len(v) \in 0 .. InputLen /\ \A i \in 1 .. Len(v) : v[i] # Zero
    <3>1. CASE f = "search"
      <4>1. v = <<>> BY <2>1, <3>1
      <4>2. Len(v) = 0 BY <4>1
      <4> QED BY <4>2, FieldAssumption
    <3>2. CASE f # "search" BY <2>1, <3>2, FieldAssumption, DialogsAssumption DEF IsSequence
    <3> QED BY <3>1, <3>2
  <2>3. InputInv(input') BY <2>1, <2>2, InputboxInv
  <2> QED BY <1>2, <1>3, <2>3 DEF Inv, BoxesInv, AskShow
<1>4. CASE AskAnswer(f)
  <2>1. Framed(stack')
    <3>1. \/ Return
          \/ \E t \in Notes : Call(text_call(t, 5))
          \/ \E t \in Texts[f] : stack' = <<text_call(t, 0)>> \o Tail(stack)
          \/ \E t \in Texts[f] : Call(text_call(t, 0))
          \/ stack' = stack
      BY <1>4 DEF AskAnswer
    <3>2. \A t \in Texts[f] : IsFrame(text_call(t, 0)) BY FrameOfText, DialogsAssumption DEF Asks
    <3>3. \A t \in Notes : IsFrame(text_call(t, 5)) BY FrameOfText, DialogsAssumption
    <3>4. IsFrame(Head(stack)) /\ Framed(Tail(stack)) BY <1>1, StackSteps
    <3>5. CASE Return BY <1>1, <3>5, StackSteps
    <3>6. CASE \E t \in Notes : Call(text_call(t, 5)) BY <1>1, <3>3, <3>6, StackSteps
    <3>7. CASE \E t \in Texts[f] : stack' = <<text_call(t, 0)>> \o Tail(stack)
      BY <3>2, <3>4, <3>7, FramedWith
    <3>8. CASE \E t \in Texts[f] : Call(text_call(t, 0)) BY <1>1, <3>2, <3>8, StackSteps
    <3>9. CASE stack' = stack BY <3>9 DEF Inv, BoxesInv
    <3> QED BY <3>1, <3>5, <3>6, <3>7, <3>8, <3>9
  <2> QED BY <1>2, <1>4, <2>1, ClosedInv DEF Inv, BoxesInv, AskAnswer
<1> QED BY <1>3, <1>4

LEMMA PressBoxes == ASSUME Inv, NEW k, NEW f, Press(k, f) PROVE BoxesInv'
<1>1. size' = size /\ stack' = stack BY DEF Press
<1>2. CASE MenuKey(k, f) /\ Only("menu") BY <1>1, <1>2, MenuKeyInv DEF Inv, BoxesInv, Only
<1>3. CASE ListKey(k, f) /\ Only("list") BY <1>1, <1>3, ListKeyInv DEF Inv, BoxesInv, Only
<1>4. CASE TextKey(k, f) /\ Only("text") BY <1>1, <1>4, TextKeyInv DEF Inv, BoxesInv, Only
<1>5. CASE InputKey(k, f) /\ Only("input") BY <1>1, <1>5, InputKeyInv DEF Inv, BoxesInv, Only
<1>6. CASE YesnoKey(k, f) /\ Only("yesno") BY <1>1, <1>6, YesnoKeyInv DEF Inv, BoxesInv, Only
<1> QED BY <1>2, <1>3, <1>4, <1>5, <1>6 DEF Press

LEMMA SizeBoxes == ASSUME Inv, NEW s \in Sizes, Resize(s) PROVE BoxesInv'
<1>1. size' = s /\ stack' = stack /\ s.lines \in Nat BY DialogsAssumption DEF Resize
<1>2. CASE MenuResize(s) /\ Only("menu") BY <1>1, <1>2, MenuResizeInv DEF Inv, BoxesInv, Only
<1>3. CASE ListResize(s) /\ Only("list") BY <1>1, <1>3, ListResizeInv DEF Inv, BoxesInv, Only
<1>4. CASE TextResize(s) /\ Only("text") BY <1>1, <1>4, TextResizeInv DEF Inv, BoxesInv, Only
<1>5. CASE InputResize(s) /\ Only("input") BY <1>1, <1>5, InputResizeInv DEF Inv, BoxesInv, Only
<1>6. CASE YesnoResize(s) /\ Only("yesno") BY <1>1, <1>6, YesnoResizeInv DEF Inv, BoxesInv, Only
<1> QED BY <1>2, <1>3, <1>4, <1>5, <1>6 DEF Resize

LEMMA NextBoxes == Inv /\ [Next]_vars => BoxesInv'
<1> SUFFICES ASSUME Inv, [Next]_vars PROVE BoxesInv' OBVIOUS
<1>1. CASE ConfShow BY <1>1, ConfShowBoxes
<1>2. CASE ConfAnswer BY <1>2, ConfAnswerBoxes
<1>3. CASE MainAsks \/ MainAnswer BY <1>3, MainBoxes
<1>4. CASE ChoiceShow BY <1>4, ChoiceShowBoxes
<1>5. CASE ChoiceAnswer BY <1>5, ChoiceAnswerBoxes
<1>6. CASE TextShow \/ TextAnswer BY <1>6, TextShowBoxes
<1>7. CASE \E f \in Asks : AskShow(f) \/ AskAnswer(f) BY <1>7, AskBoxes
<1>8. CASE \E k \in Keys \cup {"g", "G", "KEY_BACKSPACE"} : Press(k, "nothing")
  BY <1>8, PressBoxes
<1>9. CASE Press("KEY_ESC", "esc") BY <1>9, PressBoxes
<1>10. CASE \E s \in Sizes : Resize(s) BY <1>10, SizeBoxes
<1>11. CASE UNCHANGED vars
  <2>1. menu' = menu /\ list' = list /\ text' = text /\ input' = input /\ yesno' = yesno
        /\ size' = size /\ stack' = stack
    BY <1>11 DEF vars
  <2> QED BY <2>1 DEF Inv, BoxesInv
<1> QED
  BY <1>1, <1>2, <1>3, <1>4, <1>5, <1>6, <1>7, <1>8, <1>9, <1>10, <1>11 DEF Next, Mconf

(* The box that is not idle is that of the function that runs.                *)
LEMMA ClosedIdle ==
  Idle(MenuClosed) /\ Idle(ListClosed) /\ Idle(TextClosed) /\ Idle(InputClosed) /\ Idle(YesnoClosed)
BY DEF Idle, MenuClosed, ListClosed, TextClosed, InputClosed, YesnoClosed

LEMMA AllIdle ==
  ASSUME Idle(menu), Idle(list), Idle(text), Idle(input), Idle(yesno) PROVE Owner
BY DEF Owner

LEMMA OneOwner ==
  ASSUME Owner
  PROVE  /\ Runs("conf") => Idle(list) /\ Idle(text) /\ Idle(input) /\ Idle(yesno)
         /\ Runs("choice") => Idle(menu) /\ Idle(text) /\ Idle(input) /\ Idle(yesno)
         /\ Runs("text") => Idle(menu) /\ Idle(list) /\ Idle(input) /\ Idle(yesno)
         /\ \A f \in Asks : Runs(f) => Idle(menu) /\ Idle(list) /\ Idle(text) /\ Idle(yesno)
         /\ Runs("main") => Idle(menu) /\ Idle(list) /\ Idle(text) /\ Idle(input)
BY DEF Owner, Runs, Asks

LEMMA KeyOpen ==
  ASSUME NEW k, NEW f
  PROVE  /\ MenuKey(k, f) => menu.open
         /\ ListKey(k, f) => list.open
         /\ TextKey(k, f) => text.open
         /\ InputKey(k, f) => input.open
         /\ YesnoKey(k, f) => yesno.open
<1>1. MenuKey(k, f) => menu.open
  BY DEF MenuKey, MenuMove, MenuButton, MenuSelect, MenuEscape, Free
<1>2. ListKey(k, f) => list.open
  BY DEF ListKey, ListMove, ListButton, ListSelect, ListEscape, ListFree
<1>3. TextKey(k, f) => text.open
  BY DEF TextKey, TextHome, TextEnd, TextUp, TextDown, TextPageUp, TextPageDown, TextSide, TextExit
<1>4. InputKey(k, f) => input.open
  BY DEF InputKey, InputBackspace, InputType, InputButton, InputReturn, InputEscape, InField
<1>5. YesnoKey(k, f) => yesno.open
  BY DEF YesnoKey, YesnoButton, YesnoReturn, YesnoEscape
<1> QED BY <1>1, <1>2, <1>3, <1>4, <1>5

(* Only the box b changed, and it was not idle. *)
LEMMA SameOwner ==
  ASSUME Owner, stack' = stack, NEW b \in {"menu", "list", "text", "input", "yesno"}, Only(b),
         b = "menu" => Runs("conf"), b = "list" => Runs("choice"), b = "text" => Runs("text"),
         b = "input" => \E f \in Asks : Runs(f), b = "yesno" => Runs("main")
  PROVE  Owner'
<1>1. \A fn : Runs(fn) => Runs(fn)' BY DEF Runs
<1>2. Idle(menu)' \/ Runs("conf")'
  <2>1. CASE b = "menu" BY <1>1, <2>1
  <2>2. CASE b # "menu" BY <1>1, <2>2 DEF Owner, Only, Idle
  <2> QED BY <2>1, <2>2
<1>3. Idle(list)' \/ Runs("choice")'
  <2>1. CASE b = "list" BY <1>1, <2>1
  <2>2. CASE b # "list" BY <1>1, <2>2 DEF Owner, Only, Idle
  <2> QED BY <2>1, <2>2
<1>4. Idle(text)' \/ Runs("text")'
  <2>1. CASE b = "text" BY <1>1, <2>1
  <2>2. CASE b # "text" BY <1>1, <2>2 DEF Owner, Only, Idle
  <2> QED BY <2>1, <2>2
<1>5. Idle(input)' \/ (\E f \in Asks : Runs(f)')
  <2>1. CASE b = "input" BY <1>1, <2>1
  <2>2. CASE b # "input" BY <1>1, <2>2 DEF Owner, Only, Idle
  <2> QED BY <2>1, <2>2
<1>6. Idle(yesno)' \/ Runs("main")'
  <2>1. CASE b = "yesno" BY <1>1, <2>1
  <2>2. CASE b # "yesno" BY <1>1, <2>2 DEF Owner, Only, Idle
  <2> QED BY <2>1, <2>2
<1> QED BY <1>2, <1>3, <1>4, <1>5, <1>6 DEF Owner

LEMMA NextOwner == ASSUME Owner, [Next]_vars PROVE Owner'
<1>1. CASE ConfShow BY <1>1, SameOwner DEF ConfShow
<1>2. CASE ConfAnswer
  <2>1. Idle(list) /\ Idle(text) /\ Idle(input) /\ Idle(yesno) BY <1>2, OneOwner DEF ConfAnswer
  <2>2. menu' = MenuClosed /\ list' = list /\ text' = text /\ input' = input /\ yesno' = yesno
    BY <1>2 DEF ConfAnswer, Only
  <2> QED BY <2>1, <2>2, ClosedIdle DEF Owner, Idle
<1>3. CASE MainAsks
  <2>1. CASE stack' = stack BY <1>3, <2>1, SameOwner DEF MainAsks
  <2>2. CASE yesno' = yesno
    <3>1. Idle(menu) /\ Idle(list) /\ Idle(text) /\ Idle(input) /\ Idle(yesno)
      BY <1>3, OneOwner DEF MainAsks
    <3>2. menu' = menu /\ list' = list /\ text' = text /\ input' = input /\ yesno' = yesno
      BY <1>3, <2>2 DEF MainAsks, Only
    <3> QED BY <3>1, <3>2 DEF Owner, Idle
  <2> QED BY <1>3, <2>1, <2>2 DEF MainAsks
<1>4. CASE MainAnswer
  <2>1. Idle(menu) /\ Idle(list) /\ Idle(text) /\ Idle(input) BY <1>4, OneOwner DEF MainAnswer
  <2>2. yesno' = YesnoClosed /\ list' = list /\ text' = text /\ input' = input /\ menu' = menu
    BY <1>4 DEF MainAnswer, Only
  <2> QED BY <2>1, <2>2, ClosedIdle DEF Owner, Idle
<1>5. CASE ChoiceShow BY <1>5, SameOwner DEF ChoiceShow
<1>6. CASE ChoiceAnswer
  <2>1. Idle(menu) /\ Idle(text) /\ Idle(input) /\ Idle(yesno) BY <1>6, OneOwner DEF ChoiceAnswer
  <2>2. list' = ListClosed /\ menu' = menu /\ text' = text /\ input' = input /\ yesno' = yesno
    BY <1>6 DEF ChoiceAnswer, Only
  <2> QED BY <2>1, <2>2, ClosedIdle DEF Owner, Idle
<1>7. CASE TextShow BY <1>7, SameOwner DEF TextShow
<1>8. CASE TextAnswer
  <2>1. Idle(menu) /\ Idle(list) /\ Idle(input) /\ Idle(yesno) BY <1>8, OneOwner DEF TextAnswer
  <2>2. text' = TextClosed /\ menu' = menu /\ list' = list /\ input' = input /\ yesno' = yesno
    BY <1>8 DEF TextAnswer, Only
  <2> QED BY <2>1, <2>2, ClosedIdle DEF Owner, Idle
<1>9. ASSUME NEW f \in Asks, AskShow(f) PROVE Owner' BY <1>9, SameOwner DEF AskShow
<1>10. ASSUME NEW f \in Asks, AskAnswer(f) PROVE Owner'
  <2>1. Idle(menu) /\ Idle(list) /\ Idle(text) /\ Idle(yesno) BY <1>10, OneOwner DEF AskAnswer
  <2>2. input' = InputClosed /\ menu' = menu /\ list' = list /\ text' = text /\ yesno' = yesno
    BY <1>10 DEF AskAnswer, Only
  <2> QED BY <2>1, <2>2, ClosedIdle DEF Owner, Idle
<1>11. ASSUME menu.open, Only("menu"), stack' = stack PROVE Owner'
  BY <1>11, SameOwner DEF Owner, Idle
<1>12. ASSUME list.open, Only("list"), stack' = stack PROVE Owner'
  BY <1>12, SameOwner DEF Owner, Idle
<1>13. ASSUME text.open, Only("text"), stack' = stack PROVE Owner'
  BY <1>13, SameOwner DEF Owner, Idle
<1>14. ASSUME input.open, Only("input"), stack' = stack PROVE Owner'
  BY <1>14, SameOwner DEF Owner, Idle
<1>15. ASSUME yesno.open, Only("yesno"), stack' = stack PROVE Owner'
  BY <1>15, SameOwner DEF Owner, Idle
<1>16. ASSUME NEW k, NEW f, Press(k, f) PROVE Owner'
  <2>1. stack' = stack BY <1>16 DEF Press
  <2>2. CASE MenuKey(k, f) /\ Only("menu") BY <1>11, <2>1, <2>2, KeyOpen
  <2>3. CASE ListKey(k, f) /\ Only("list") BY <1>12, <2>1, <2>3, KeyOpen
  <2>4. CASE TextKey(k, f) /\ Only("text") BY <1>13, <2>1, <2>4, KeyOpen
  <2>5. CASE InputKey(k, f) /\ Only("input") BY <1>14, <2>1, <2>5, KeyOpen
  <2>6. CASE YesnoKey(k, f) /\ Only("yesno") BY <1>15, <2>1, <2>6, KeyOpen
  <2> QED BY <1>16, <2>2, <2>3, <2>4, <2>5, <2>6 DEF Press
<1>17. ASSUME NEW s, Resize(s) PROVE Owner'
  <2>1. stack' = stack BY <1>17 DEF Resize
  <2>2. CASE MenuResize(s) /\ Only("menu") BY <1>11, <2>1, <2>2 DEF MenuResize
  <2>3. CASE ListResize(s) /\ Only("list") BY <1>12, <2>1, <2>3 DEF ListResize
  <2>4. CASE TextResize(s) /\ Only("text") BY <1>13, <2>1, <2>4 DEF TextResize
  <2>5. CASE InputResize(s) /\ Only("input") BY <1>14, <2>1, <2>5 DEF InputResize
  <2>6. CASE YesnoResize(s) /\ Only("yesno") BY <1>15, <2>1, <2>6 DEF YesnoResize
  <2> QED BY <1>17, <2>2, <2>3, <2>4, <2>5, <2>6 DEF Resize
<1>18. CASE UNCHANGED vars
  <2>1. menu' = menu /\ list' = list /\ text' = text /\ input' = input /\ yesno' = yesno
        /\ stack' = stack
    BY <1>18 DEF vars
  <2> QED BY <2>1 DEF Owner, Idle, Runs
<1> QED
  BY <1>1, <1>2, <1>3, <1>4, <1>5, <1>6, <1>7, <1>8, <1>9, <1>10, <1>16, <1>17, <1>18
  DEF Next, Mconf

(* The place in the menu: where the highlighted item is, and in what window.  *)
LEMMA WithinPlace ==
  ASSUME NEW m, NEW sz, m.open /\ item_count(m.items) # 0 => Within(m),
         m.result = "none", m.menu_height = sz.lines - 4 - 10,
         ~too_small(sz), Distinct(m.items), DOMAIN m.items = 1 .. item_count(m.items)
  PROVE  MenuPlace(m, sz)
<1>1. ASSUME m.open, item_count(m.items) # 0 PROVE PlaceIn(m.items, m.scroll, m.choice, sz)
  <2>1. /\ item_count(m.items) \in Nat \ {0} /\ m.scroll \in Nat /\ m.choice \in Nat
        /\ m.choice < max_choice(m) /\ m.scroll + max_choice(m) <= item_count(m.items)
    BY <1>1, WithinFacts
  <2>2. max_choice(m) = Min({sz.lines - 4 - 10, item_count(m.items)}) BY DEF max_choice
  <2> QED BY <2>1, <2>2 DEF PlaceIn
<1> QED BY <1>1 DEF MenuPlace

LEMMA DrawnPlace ==
  ASSUME NEW m, IsMenu(m), m.result = "none", Distinct(m.items),
         DOMAIN m.items = 1 .. item_count(m.items), NEW sz, NEW p, p = do_resize(m, sz), MenuInv(p)
  PROVE  MenuPlace(p, sz)
<1>1. CASE too_small(sz)
  <2>1. p = [MenuClosed EXCEPT !.result = "too_small"] BY <1>1 DEF do_resize
  <2> QED BY <2>1 DEF MenuClosed, MenuPlace
<1>2. CASE ~too_small(sz)
  <2>1. PICK sized : sized = [m EXCEPT !.menu_height = sz.lines - 4 - 10] OBVIOUS
  <2>2. PICK w : p = Shown(Placed(sized, w)) BY <1>2, <2>1 DEF do_resize
  <2>3. PICK q : q = Placed(sized, w) OBVIOUS
  <2>4. /\ IsMenu(sized) /\ sized.items = m.items /\ sized.result = m.result
        /\ sized.menu_height = sz.lines - 4 - 10
    BY <2>1 DEF IsMenu, MenuFields
  <2>5. /\ IsMenu(q) /\ q.items = m.items /\ q.result = m.result
        /\ q.menu_height = sz.lines - 4 - 10
    <3>1. PICK max, half :
            q = IF saved_scroll_fits(sized, w)
                THEN [sized EXCEPT !.scroll = sized.s_scroll, !.first_item = sized.s_scroll,
                                   !.choice = w - sized.s_scroll, !.stale = FALSE]
                ELSE IF w < max THEN [sized EXCEPT !.scroll = 0, !.choice = w,
                                                   !.stale = sized.first_item # 0]
                ELSE [sized EXCEPT !.scroll = half, !.first_item = half, !.choice = w - half,
                                   !.stale = FALSE]
      BY <2>3 DEF Placed
    <3> QED BY <2>4, <3>1 DEF IsMenu, MenuFields
  <2>6. p.items = m.items /\ p.result = m.result /\ p.menu_height = sz.lines - 4 - 10
    <3>1. \/ p = [q EXCEPT !.open = FALSE, !.crashed = TRUE]
          \/ \E rows : p = print_arrows([q EXCEPT !.open = TRUE, !.rows = rows])
      BY <2>2, <2>3 DEF Shown
    <3>2. CASE p = [q EXCEPT !.open = FALSE, !.crashed = TRUE]
      BY <2>5, <3>2 DEF IsMenu, MenuFields
    <3>3. ASSUME NEW rows, p = print_arrows([q EXCEPT !.open = TRUE, !.rows = rows])
          PROVE  p.items = m.items /\ p.result = m.result /\ p.menu_height = sz.lines - 4 - 10
      <4>1. PICK e : e = [q EXCEPT !.open = TRUE, !.rows = rows] OBVIOUS
      <4>2. /\ IsMenu(e) /\ e.items = m.items /\ e.result = m.result
            /\ e.menu_height = sz.lines - 4 - 10
        BY <2>5, <4>1 DEF IsMenu, MenuFields
      <4>3. p = print_arrows(e) BY <3>3, <4>1
      <4> QED BY <4>2, <4>3 DEF print_arrows, IsMenu, MenuFields
    <3> QED BY <3>1, <3>2, <3>3
  <2>7. p.open /\ item_count(p.items) # 0 => Within(p) BY HasItems
  <2> QED BY <1>2, <2>6, <2>7, WithinPlace
<1> QED BY <1>1, <1>2

LEMMA MovedKeeps ==
  ASSUME NEW m, Dark(m), NEW key, key \in Arrows \/ hit(m, key) < max_choice(m),
         NEW p, p = moved(m, key)
  PROVE  p.items = m.items /\ p.menu_height = m.menu_height /\ p.result = m.result
<1>1. CASE key \in {"KEY_UP", "-"} BY <1>1, LineUpGoes DEF moved, Goes
<1>2. CASE key \in {"KEY_DOWN", "+"} BY <1>2, LineDownGoes DEF moved, Goes
<1>3. CASE key = "KEY_PPAGE" BY <1>3, PageGoes DEF moved, Goes
<1>4. CASE key = "KEY_NPAGE" BY <1>4, PageGoes DEF moved, Goes
<1>5. CASE key \notin Arrows
  <2>1. p = [m EXCEPT !.choice = hit(m, key)] BY <1>5 DEF moved, Arrows
  <2> QED BY <2>1, CursorAt
<1> QED BY <1>1, <1>2, <1>3, <1>4, <1>5 DEF Arrows

LEMMA KeyPlace ==
  ASSUME MenuInv(menu), MenuPlace(menu, size), NEW k, NEW f, MenuKey(k, f) PROVE MenuPlace(menu', size)
<1>1. PICK n : n = menu' OBVIOUS
<1>2. MenuInv(n) BY <1>1, MenuKeyInv
<1>3. IsMenu(menu) BY DEF MenuInv
<1>4. /\ menu.open /\ menu.result = "none" /\ menu.menu_height = size.lines - 4 - 10
      /\ item_count(menu.items) # 0 => PlaceIn(menu.items, menu.scroll, menu.choice, size)
  BY KeyOpen DEF MenuPlace
<1>5. /\ ~too_small(size) /\ Distinct(menu.items) /\ DOMAIN menu.items = 1 .. item_count(menu.items)
  BY <1>4 DEF MenuPlace
<1>10. CASE MenuMove(k) /\ item_count(menu.items) = 0
  <2>1. Bare(menu) BY <1>4, <1>10, HasNone
  <2>2. Unmoved(n, menu) BY <1>1, <1>10, <2>1, BareMoves
  <2>3. MenuPlace(n, size) BY <1>4, <1>5, <1>10, <2>2, WithinPlace DEF Unmoved
  <2> QED BY <1>1, <2>3
<1>6. CASE MenuMove(k) /\ item_count(menu.items) # 0
  <2>1. PICK d : d = lit(menu, FALSE) OBVIOUS
  <2>2. n = print_arrows(lit(moved(d, k), TRUE)) BY <1>1, <1>6, <2>1 DEF MenuMove
  <2>3. Dark(d) BY <1>4, <1>6, <2>1, Unlights
  <2>4. /\ d.items = menu.items /\ d.menu_height = menu.menu_height /\ d.choice = menu.choice
        /\ d.scroll = menu.scroll
    BY <1>3, <2>1, LitFields
  <2>5. d.result = menu.result BY <1>3, <2>1 DEF lit, print_item, IsMenu, MenuFields
  <2>6. k \in Arrows \/ hit(d, k) < max_choice(d)
    <3>1. hit(d, k) = hit(menu, k) /\ max_choice(d) = max_choice(menu) BY <2>4, HitSame
    <3> QED BY <1>6, <3>1 DEF MenuMove
  <2>7. PICK p : p = moved(d, k) OBVIOUS
  <2>8. p.items = menu.items /\ p.menu_height = menu.menu_height /\ p.result = menu.result
    BY <2>3, <2>4, <2>5, <2>6, <2>7, MovedKeeps
  <2>9. IsMenu(p)
    <3>1. Dark(p) BY <2>3, <2>6, <2>7, MovedDark
    <3> QED BY <3>1, WithinFacts DEF Dark
  <2>10. PICK q : q = lit(p, TRUE) OBVIOUS
  <2>11. IsMenu(q) /\ q.items = p.items /\ q.menu_height = p.menu_height BY <2>9, <2>10, LitFields
  <2>12. q.result = p.result BY <2>9, <2>10 DEF lit, print_item, IsMenu, MenuFields
  <2>13. n = print_arrows(q) BY <2>2, <2>7, <2>10
  <2>14. n.items = menu.items /\ n.menu_height = menu.menu_height /\ n.result = menu.result
    BY <2>8, <2>11, <2>12, <2>13 DEF print_arrows, IsMenu, MenuFields
  <2>15. n.open /\ item_count(n.items) # 0 => Within(n) BY <1>2, HasItems
  <2>16. MenuPlace(n, size) BY <1>4, <1>5, <2>14, <2>15, WithinPlace
  <2> QED BY <1>1, <2>16
<1>7. CASE MenuButton(k)
  <2>1. PICK b : n = [menu EXCEPT !.button = b] BY <1>1, <1>7 DEF MenuButton
  <2>2. n.items = menu.items /\ n.menu_height = menu.menu_height /\ n.result = menu.result
    BY <1>3, <2>1 DEF IsMenu, MenuFields
  <2>3. n.open /\ item_count(n.items) # 0 => Within(n) BY <1>2, HasItems
  <2>4. MenuPlace(n, size) BY <1>4, <1>5, <2>2, <2>3, WithinPlace
  <2> QED BY <1>1, <2>4
<1>8. CASE MenuSelect(k)
  <2>1. PICK r : n = [MenuClosed EXCEPT !.items = menu.items, !.scroll = menu.scroll,
                        !.choice = menu.choice, !.s_scroll = menu.scroll, !.result = r,
                        !.chosen = menu.scroll + menu.choice]
    BY <1>1, <1>8 DEF MenuSelect
  <2>2. /\ n.items = menu.items /\ n.scroll = menu.scroll /\ n.choice = menu.choice /\ ~n.open
        /\ n.s_scroll = n.scroll /\ n.chosen = n.scroll + n.choice
    BY <2>1 DEF MenuClosed
  <2>3. MenuPlace(n, size) BY <1>4, <2>2 DEF MenuPlace
  <2> QED BY <1>1, <2>3
<1>9. CASE MenuEscape(k, f)
  <2>1. n = [MenuClosed EXCEPT !.result = "KEY_ESC"] BY <1>1, <1>9 DEF MenuEscape
  <2>2. MenuPlace(n, size) BY <2>1 DEF MenuClosed, MenuPlace
  <2> QED BY <1>1, <2>2
<1> QED BY <1>6, <1>7, <1>8, <1>9, <1>10 DEF MenuKey

LEMMA IdlePlace == ASSUME NEW m, Idle(m), NEW sz PROVE MenuPlace(m, sz)
BY DEF Idle, MenuPlace

LEMMA NextPlace == ASSUME Inv, [Next]_vars PROVE MenuPlace(menu', size')
<1>0. BoxesInv' BY NextBoxes
<1>1. CASE ConfShow
  <2>1. depth_of \in DOMAIN Menus /\ size' = size BY <1>1 DEF ConfShow
  <2>2. PICK items \in Menus[depth_of] :
          menu' = dialog_menu(items, Head(stack).active, Head(stack).s_scroll, size)
    BY <1>1 DEF ConfShow
  <2>3. PICK m : m = [MenuClosed EXCEPT !.items = items, !.selected = Head(stack).active,
                                        !.s_scroll = Head(stack).s_scroll]
    OBVIOUS
  <2>4. IsMenu(m) /\ m.items = items /\ m.result = "none"
    BY <2>3, ClosedIsMenu DEF IsMenu, MenuFields, MenuClosed
  <2>5. Distinct(items) /\ DOMAIN items = 1 .. item_count(items)
    BY <2>1, <2>2, DialogsAssumption DEF IsSequence, item_count
  <2>6. menu' = do_resize(m, size) BY <2>2, <2>3 DEF dialog_menu
  <2>7. PICK n : n = menu' OBVIOUS
  <2>8. MenuInv(n) BY <1>0, <2>7 DEF BoxesInv
  <2>9. MenuPlace(n, size) BY <2>4, <2>5, <2>6, <2>7, <2>8, DrawnPlace
  <2> QED BY <2>1, <2>7, <2>9
<1>2. CASE menu' = MenuClosed BY <1>2, ClosedIdle, IdlePlace
<1>3. CASE menu' = menu /\ size' = size BY <1>3 DEF Inv
<1>4. ASSUME NEW k, NEW f, Press(k, f) PROVE MenuPlace(menu', size')
  <2>1. CASE MenuKey(k, f) BY <1>4, <2>1, KeyPlace DEF Inv, BoxesInv, Press
  <2>2. CASE ~MenuKey(k, f) BY <1>3, <1>4, <2>2 DEF Press, Only
  <2> QED BY <2>1, <2>2
<1>5. ASSUME NEW s, Resize(s) PROVE MenuPlace(menu', size')
  <2>1. CASE MenuResize(s)
    <3>1. menu.open /\ menu' = do_resize(menu, s) /\ size' = s
      BY <1>5, <2>1 DEF MenuResize, Resize
    <3>2. /\ IsMenu(menu) /\ menu.result = "none" /\ Distinct(menu.items)
          /\ DOMAIN menu.items = 1 .. item_count(menu.items)
      BY <3>1 DEF Inv, BoxesInv, MenuInv, MenuPlace
    <3>3. PICK n : n = menu' OBVIOUS
    <3>4. MenuInv(n) BY <1>0, <3>3 DEF BoxesInv
    <3>5. MenuPlace(n, s) BY <3>1, <3>2, <3>3, <3>4, DrawnPlace
    <3> QED BY <3>1, <3>3, <3>5
  <2>2. CASE ~MenuResize(s)
    <3>1. list.open \/ text.open \/ input.open \/ yesno.open
      BY <1>5, <2>2 DEF Resize, ListResize, TextResize, InputResize, YesnoResize
    <3>2. ~Idle(list) \/ ~Idle(text) \/ ~Idle(input) \/ ~Idle(yesno) BY <3>1 DEF Idle
    <3>3. Idle(menu) BY <3>2, OneOwner DEF Inv, Owner
    <3>4. menu' = menu BY <1>5, <2>2 DEF Resize, Only
    <3> QED BY <3>3, <3>4, IdlePlace
  <2> QED BY <2>1, <2>2
<1>6. CASE ConfAnswer BY <1>2, <1>6 DEF ConfAnswer
<1>7. CASE MainAsks \/ MainAnswer BY <1>3, <1>7 DEF MainAsks, MainAnswer, Only
<1>8. CASE ChoiceShow \/ ChoiceAnswer BY <1>3, <1>8 DEF ChoiceShow, ChoiceAnswer, Only
<1>9. CASE TextShow \/ TextAnswer BY <1>3, <1>9 DEF TextShow, TextAnswer, Only
<1>10. ASSUME NEW f \in Asks, AskShow(f) \/ AskAnswer(f) PROVE MenuPlace(menu', size')
  BY <1>3, <1>10 DEF AskShow, AskAnswer, Only
<1>11. CASE UNCHANGED vars BY <1>3, <1>11 DEF vars
<1> QED
  BY <1>1, <1>4, <1>5, <1>6, <1>7, <1>8, <1>9, <1>10, <1>11 DEF Next, Mconf

LEMMA NextInv == Inv /\ [Next]_vars => Inv'
<1> SUFFICES ASSUME Inv, [Next]_vars PROVE Inv' OBVIOUS
<1>1. BoxesInv' BY NextBoxes
<1>2. Owner' BY NextOwner DEF Inv
<1>3. MenuPlace(menu', size') BY NextPlace
<1> QED BY <1>1, <1>2, <1>3 DEF Inv

-----------------------------------------------------------------------------
(* And what it says of every box is what BoxShowsState asks for.              *)
LEMMA MenuShown ==
  ASSUME NEW m, MenuInv(m), m.open, item_count(m.items) # 0, ~m.stale
  PROVE  ShowsItems(m, m.menu_height, max_choice(m)) /\ m.down = more_below(m, m.menu_height)
<1>1. Within(m) /\ Lit(m) /\ Arrowed(m) BY HasItems
<1>2. /\ max_choice(m) \in Nat \ {0} /\ m.menu_height \in Nat \ {0}
      /\ item_count(m.items) \in Nat \ {0} /\ m.scroll \in Nat /\ m.choice \in Nat
      /\ m.choice < max_choice(m) /\ m.scroll + max_choice(m) <= item_count(m.items)
  BY <1>1, WithinFacts
<1>3. \A i \in 0 .. max_choice(m) - 1 : item_exists(m.items, m.scroll + i)
  BY <1>2 DEF item_exists
<1>4. m.rows = drawn(m.menu_height, max_choice(m), m.scroll, m.choice)
  <2>1. drawn(m.menu_height, max_choice(m), m.scroll, m.choice)
        = Cells(m.menu_height, max_choice(m), m.scroll, m.choice)
    BY <1>2, DrawnCells
  <2> QED BY <1>1, <2>1 DEF Lit
<1> QED BY <1>1, <1>2, <1>3, <1>4 DEF ShowsItems, Arrowed

LEMMA ListShown ==
  ASSUME NEW b, ListInv(b), b.open
  PROVE  /\ ShowsItems(b, ListHeight, list_max(b))
         /\ more_below(b, ListHeight) => b.down
         /\ b.down /\ ~b.redrawn => more_below(b, ListHeight)
<1>1. ListWithin(b) /\ ListLit(b) /\ ListArrowed(b) BY DEF ListInv
<1>2. /\ list_max(b) \in Nat \ {0} /\ ListHeight \in Nat \ {0}
      /\ item_count(b.items) \in Nat \ {0} /\ b.scroll \in Nat /\ b.choice \in Nat
      /\ b.choice < list_max(b) /\ b.scroll + list_max(b) <= item_count(b.items)
  BY <1>1, ListFacts
<1>3. \A i \in 0 .. list_max(b) - 1 : item_exists(b.items, b.scroll + i)
  BY <1>2 DEF item_exists
<1>4. b.rows = drawn(ListHeight, list_max(b), b.scroll, b.choice)
  <2>1. drawn(ListHeight, list_max(b), b.scroll, b.choice)
        = Cells(ListHeight, list_max(b), b.scroll, b.choice)
    BY <1>2, DrawnCells
  <2> QED BY <1>1, <2>1 DEF ListLit
<1> QED BY <1>1, <1>2, <1>3, <1>4 DEF ShowsItems, ListArrowed

LEMMA FieldShown == ASSUME NEW b, InputInv(b), b.open, ~b.strayed PROVE ShowsField(b)
<1>1. PICK len \in 0 .. InputLen : HasLen(b.instr, len) /\ FieldShows(b, len) BY DEF InputInv
<1>2. strlen_of(b.instr) = len BY <1>1, StrlenIs
<1>3. DOMAIN b.field = 0 .. BoxWidth - 1 BY <1>1 DEF FieldShows
<1>4. \A i \in 0 .. BoxWidth - 1 :
        b.field[i] = IF b.scroll + i < len THEN b.instr[b.scroll + i] ELSE " "
  BY <1>1 DEF FieldShows
<1> QED BY <1>1, <1>2, <1>3, <1>4 DEF ShowsField, FieldShows

LEMMA QuestionShown == ASSUME NEW b, YesnoInv(b), b.open PROVE ShowsQuestion(b)
<1>1. PICK p : p = b.prompt OBVIOUS
<1>2. PICK w \in Int : w = b.width BY DEF YesnoInv
<1>3. p \in Seq(PutRec) /\ Wraps(p, w - 2) BY <1>1, <1>2 DEF YesnoInv
<1>4. DOMAIN p = 1 .. Len(p) BY <1>3
<1>5. ASSUME NEW i \in DOMAIN p
      PROVE  /\ 3 <= p[i].x /\ (p[i].len <= w - 2 - 3 => p[i].x + p[i].len <= w - 2)
             /\ i > 1 => \/ p[i].y > p[i - 1].y
                         \/ p[i].y = p[i - 1].y /\ p[i].x > p[i - 1].x + p[i - 1].len
  BY <1>3, <1>4, <1>5 DEF Wraps
<1> QED BY <1>1, <1>2, <1>5 DEF ShowsQuestion

LEMMA InvShows == Inv => BoxShowsState
<1> SUFFICES ASSUME Inv PROVE BoxShowsState OBVIOUS
<1>1. menu.crashed => menu.stale BY DEF Inv, BoxesInv, MenuInv
<1>2. menu.open /\ item_count(menu.items) > 0 /\ ~menu.stale =>
        /\ ShowsItems(menu, menu.menu_height, max_choice(menu))
        /\ menu.down = more_below(menu, menu.menu_height)
  <2>1. item_count(menu.items) > 0 => item_count(menu.items) # 0 OBVIOUS
  <2> QED BY <2>1, MenuShown DEF Inv, BoxesInv
<1>7. menu.open /\ item_count(menu.items) = 0 => ShowsNone(menu)
  BY HasNone DEF Inv, BoxesInv, Bare
<1>3. list.open => /\ ShowsItems(list, ListHeight, list_max(list))
                   /\ more_below(list, ListHeight) => list.down
                   /\ list.down /\ ~list.redrawn => more_below(list, ListHeight)
  BY ListShown DEF Inv, BoxesInv
<1>4. text.open /\ boxh(text) > 0 /\ EndsInNewline(text) => ShowsLines(text)
  BY TextSound, LinesShown DEF Inv, BoxesInv
<1>5. input.open /\ ~input.strayed => ShowsField(input) BY FieldShown DEF Inv, BoxesInv
<1>6. yesno.open => ShowsQuestion(yesno) BY QuestionShown DEF Inv, BoxesInv
<1> QED BY <1>1, <1>2, <1>3, <1>4, <1>5, <1>6, <1>7 DEF BoxShowsState

(* What is on the screen is what a window drawn afresh from the variables of  *)
(* the box would show, after any keys and changes of size (BoxShowsState).    *)
THEOREM BoxesShowTheirState == Spec => []BoxShowsState
<1>1. Init => Inv BY InitInv
<1>2. Inv /\ [Next]_vars => Inv' BY NextInv
<1>3. Inv => BoxShowsState BY InvShows
<1> QED BY <1>1, <1>2, <1>3, PTL DEF Spec

LEMMA InvGoes == Inv => GoesAsAsked
<1> SUFFICES ASSUME Inv PROVE GoesAsAsked OBVIOUS
<1>1. /\ MenuGoes("KEY_UP", -1) /\ MenuGoes("KEY_DOWN", 1)
      /\ MenuGoes("KEY_PPAGE", -max_choice(menu)) /\ MenuGoes("KEY_NPAGE", max_choice(menu))
  BY MenuMoves DEF Inv, BoxesInv
<1>2. list.open => ListGoes("KEY_UP", -1) /\ ListGoes("KEY_DOWN", 1)
  BY ListMoves DEF Inv, BoxesInv
<1>3. text.open /\ boxh(text) > 0 /\ EndsInNewline(text) => TextGoes
  BY TextMoves DEF Inv, BoxesInv
<1>4. \A key \in Letters : NextWithKey(key) BY MenuHits DEF Inv, BoxesInv
<1>5. \A key \in Letters : FirstWithKey(key) BY ListHits DEF Inv, BoxesInv
<1> QED BY <1>1, <1>2, <1>3, <1>4, <1>5 DEF GoesAsAsked

(* A key moves to the item or line it is named for (MovesAsAsked).            *)
THEOREM KeysMoveAsAsked == Spec => MovesAsAsked
<1>1. Init => Inv BY InitInv
<1>2. Inv /\ [Next]_vars => Inv' BY NextInv
<1>3. Inv /\ [Next]_vars => [GoesAsAsked]_vars BY InvGoes
<1> QED BY <1>1, <1>2, <1>3, PTL DEF Spec, MovesAsAsked

(* Back in the menu the caller's item is found, at the place it was left.     *)
LEMMA ShownKeeps ==
  ASSUME NEW q, IsMenu(q), NEW p, p = Shown(q)
  PROVE  p.items = q.items /\ p.scroll = q.scroll /\ p.choice = q.choice
<1>1. \/ p = [q EXCEPT !.open = FALSE, !.crashed = TRUE]
      \/ \E rows : p = print_arrows([q EXCEPT !.open = TRUE, !.rows = rows])
  BY DEF Shown
<1>2. CASE p = [q EXCEPT !.open = FALSE, !.crashed = TRUE] BY <1>2 DEF IsMenu, MenuFields
<1>3. ASSUME NEW rows, p = print_arrows([q EXCEPT !.open = TRUE, !.rows = rows])
      PROVE  p.items = q.items /\ p.scroll = q.scroll /\ p.choice = q.choice
  <2>1. PICK e : e = [q EXCEPT !.open = TRUE, !.rows = rows] OBVIOUS
  <2>2. IsMenu(e) /\ e.items = q.items /\ e.scroll = q.scroll /\ e.choice = q.choice
    BY <2>1 DEF IsMenu, MenuFields
  <2>3. p = print_arrows(e) BY <1>3, <2>1
  <2> QED BY <2>2, <2>3 DEF print_arrows, IsMenu, MenuFields
<1> QED BY <1>1, <1>2, <1>3

LEMMA OnlyItem ==
  ASSUME NEW items, item_count(items) \in Nat, DOMAIN items = 1 .. item_count(items),
         Distinct(items), NEW p \in 0 .. item_count(items) - 1, NEW data,
         data = item_at(items, p).data, data # NULL
  PROVE  {n \in 0 .. item_count(items) - 1 : item_at(items, n).data = data} = {p}
<1>1. ASSUME NEW n \in 0 .. item_count(items) - 1, item_at(items, n).data = data PROVE n = p
  <2>1. n + 1 \in DOMAIN items /\ p + 1 \in DOMAIN items OBVIOUS
  <2>2. items[n + 1].data = items[p + 1].data /\ items[n + 1].data # NULL BY <1>1 DEF item_at
  <2>3. n + 1 = p + 1 BY <2>1, <2>2 DEF Distinct
  <2> QED BY <2>3
<1> QED BY <1>1

LEMMA ReturnsToPlace ==
  ASSUME NEW items, NEW scroll, NEW choice, NEW sz, sz.lines \in Nat,
         PlaceIn(items, scroll, choice, sz),
         NEW data, data = item_at(items, scroll + choice).data, data # NULL,
         NEW n, n = dialog_menu(items, data, scroll, sz)
  PROVE  n.scroll = scroll /\ n.choice = choice
<1>1. PICK m : m = [MenuClosed EXCEPT !.items = items, !.selected = data, !.s_scroll = scroll]
  OBVIOUS
<1>2. IsMenu(m) /\ m.items = items /\ m.selected = data /\ m.s_scroll = scroll
  BY <1>1, ClosedIsMenu DEF IsMenu, MenuFields, MenuClosed
<1>3. n = do_resize(m, sz) BY <1>1 DEF dialog_menu
<1>4. PICK sized : sized = [m EXCEPT !.menu_height = sz.lines - 4 - 10] OBVIOUS
<1>5. /\ IsMenu(sized) /\ sized.items = items /\ sized.s_scroll = scroll
      /\ sized.menu_height = sz.lines - 4 - 10
  BY <1>2, <1>4 DEF IsMenu, MenuFields
<1>6. PICK total : total = item_count(items) OBVIOUS
<1>7. PICK max : max = max_choice(sized) OBVIOUS
<1>8. max = Min({sz.lines - 4 - 10, total}) BY <1>5, <1>6, <1>7 DEF max_choice
<1>9. /\ total \in Nat \ {0} /\ scroll \in Nat /\ choice \in Nat /\ choice < max
      /\ scroll + max <= total /\ DOMAIN items = 1 .. total /\ Distinct(items) /\ ~too_small(sz)
  BY <1>6, <1>8 DEF PlaceIn
<1>10. max \in Int
  <2>1. sz.lines - 4 - 10 \in Int /\ total \in Int BY <1>9
  <2> QED BY <1>8, <2>1, MinTwo
<1>11. PICK w : w = scroll + choice OBVIOUS
<1>12. w \in 0 .. total - 1 BY <1>9, <1>10, <1>11
<1>13. items_with(m.items, LAMBDA it : it.data = m.selected) = {w}
  <2>1. data = item_at(items, w).data BY <1>11
  <2>2. {k \in 0 .. item_count(items) - 1 : item_at(items, k).data = data} = {w}
    BY <1>6, <1>9, <1>12, <2>1, OnlyItem
  <2>3. items_with(m.items, LAMBDA it : it.data = m.selected)
        = {k \in 0 .. item_count(items) - 1 : item_at(items, k).data = data}
    BY <1>2 DEF items_with
  <2> QED BY <2>2, <2>3
<1>14. Max({w}) = w
  <2>1. w \in Int BY <1>9, <1>11
  <2>2. Max({w, w}) = w BY <2>1, MaxTwo
  <2>3. {w, w} = {w} OBVIOUS
  <2> QED BY <2>2, <2>3
<1>15. n = Shown(Placed(sized, w)) BY <1>2, <1>3, <1>4, <1>9, <1>13, <1>14 DEF do_resize
<1>16. saved_scroll_fits(sized, w)
  BY <1>5, <1>6, <1>7, <1>9, <1>10, <1>11 DEF saved_scroll_fits
<1>17. PICK q : q = Placed(sized, w) OBVIOUS
<1>18. q = [sized EXCEPT !.scroll = scroll, !.first_item = scroll, !.choice = w - scroll,
                         !.stale = FALSE]
  BY <1>5, <1>16, <1>17 DEF Placed
<1>19. IsMenu(q) /\ q.scroll = scroll /\ q.choice = w - scroll
  BY <1>5, <1>18 DEF IsMenu, MenuFields
<1>20. w - scroll = choice BY <1>9, <1>11
<1> QED BY <1>15, <1>17, <1>19, <1>20, ShownKeeps

LEMMA ShownItems ==
  ASSUME NEW items, NEW data, NEW scroll, NEW sz, ~too_small(sz)
  PROVE  dialog_menu(items, data, scroll, sz).items = items
<1>1. PICK m : m = [MenuClosed EXCEPT !.items = items, !.selected = data, !.s_scroll = scroll]
  OBVIOUS
<1>2. IsMenu(m) /\ m.items = items
  BY <1>1, ClosedIsMenu DEF IsMenu, MenuFields, MenuClosed
<1>3. PICK sized : sized = [m EXCEPT !.menu_height = sz.lines - 4 - 10] OBVIOUS
<1>4. IsMenu(sized) /\ sized.items = items BY <1>2, <1>3 DEF IsMenu, MenuFields
<1>5. PICK w : do_resize(m, sz) = Shown(Placed(sized, w)) BY <1>3 DEF do_resize
<1>6. PICK q : q = Placed(sized, w) OBVIOUS
<1>7. IsMenu(q) /\ q.items = items
  <2>1. PICK max, half :
          q = IF saved_scroll_fits(sized, w)
              THEN [sized EXCEPT !.scroll = sized.s_scroll, !.first_item = sized.s_scroll,
                                 !.choice = w - sized.s_scroll, !.stale = FALSE]
              ELSE IF w < max THEN [sized EXCEPT !.scroll = 0, !.choice = w,
                                                 !.stale = sized.first_item # 0]
              ELSE [sized EXCEPT !.scroll = half, !.first_item = half, !.choice = w - half,
                                 !.stale = FALSE]
    BY <1>6 DEF Placed
  <2> QED BY <1>4, <2>1 DEF IsMenu, MenuFields
<1>8. PICK p : p = Shown(q) OBVIOUS
<1>9. p.items = items BY <1>7, <1>8, ShownKeeps
<1>10. dialog_menu(items, data, scroll, sz) = p BY <1>1, <1>5, <1>6, <1>8 DEF dialog_menu
<1> QED BY <1>9, <1>10

LEMMA InvFinds == Inv => FindsPlace
<1> SUFFICES ASSUME Inv PROVE FindsPlace OBVIOUS
<1>1. PICK h : h = Head(stack) OBVIOUS
<1> SUFFICES ASSUME ConfShow, h.seen.items = menu'.items, h.seen.size = size, h.active # NULL
             PROVE  menu'.scroll = h.seen.scroll /\ menu'.choice = h.seen.choice
  BY <1>1 DEF FindsPlace
<1>2. h.fn = "conf" /\ IsFrame(h)
  <2>1. stack # <<>> /\ h.fn = "conf" BY <1>1 DEF ConfShow, Runs
  <2>2. Framed(stack) BY DEF Inv, BoxesInv
  <2> QED BY <1>1, <2>1, <2>2, HeadFramed
<1>10. CASE h.seen = NotSeen
  <2>1. size.lines = 0 /\ h.seen.scroll = 0 /\ h.seen.choice = 0 BY <1>10 DEF NotSeen
  <2>2. too_small(size) BY <2>1 DEF too_small
  <2>3. PICK m : menu' = do_resize(m, size) BY DEF ConfShow, dialog_menu
  <2>4. menu' = [MenuClosed EXCEPT !.result = "too_small"] BY <2>2, <2>3 DEF do_resize
  <2> QED BY <2>1, <2>4 DEF MenuClosed
<1>11. SUFFICES ASSUME h.seen # NotSeen
               PROVE  menu'.scroll = h.seen.scroll /\ menu'.choice = h.seen.choice
  BY <1>10
<1>3. /\ PlaceIn(h.seen.items, h.seen.scroll, h.seen.choice, size)
      /\ h.s_scroll = h.seen.scroll
      /\ h.active = item_at(h.seen.items, h.seen.scroll + h.seen.choice).data
  BY <1>2, <1>11 DEF IsFrame, Remembers
<1>4. PICK items : menu' = dialog_menu(items, h.active, h.s_scroll, size) BY <1>1 DEF ConfShow
<1>5. items = h.seen.items
  <2>1. ~too_small(size) BY <1>3 DEF PlaceIn
  <2>2. menu'.items = items BY <1>4, <2>1, ShownItems
  <2> QED BY <2>2
<1>6. PICK n : n = menu' OBVIOUS
<1>7. n = dialog_menu(h.seen.items, h.active, h.seen.scroll, size) BY <1>3, <1>4, <1>5, <1>6
<1>8. size.lines \in Nat BY DialogsAssumption DEF Inv, BoxesInv
<1>9. n.scroll = h.seen.scroll /\ n.choice = h.seen.choice BY <1>3, <1>7, <1>8, ReturnsToPlace
<1> QED BY <1>6, <1>9

(* Back from what an item led to, the menu shows the same part of itself with *)
(* the same item highlighted (PlaceIsKept): what conf remembers of the menu,  *)
(* dialog_menu finds again.                                                   *)
THEOREM MenuFindsItsPlace == Spec => PlaceIsKept
<1>1. Init => Inv BY InitInv
<1>2. Inv /\ [Next]_vars => Inv' BY NextInv
<1>3. Inv /\ [Next]_vars => [FindsPlace]_vars BY InvFinds
<1> QED BY <1>1, <1>2, <1>3, PTL DEF Spec, PlaceIsKept
=============================================================================
