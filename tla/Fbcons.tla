------------------------------- MODULE Fbcons -------------------------------
(***************************************************************************)
(* The framebuffer console (kernel/drivers/fbcons.cpp): characters that    *)
(* tasks and handlers print, before and after the framebuffer is mapped,   *)
(* and the cursor that the timer interrupt blinks.  putc() and tick() each *)
(* run with interrupts off.                                                *)
(*                                                                         *)
(* The screen is a grid of character cells.  A cell has the glyph drawn in *)
(* it and its low lines, which the cursor takes over and leaves blank.     *)
(***************************************************************************)
EXTENDS Naturals, Sequences, SequencesExt

CONSTANTS
  cols, rows,         \* of the screen
  TAB,                \* 8 in the code
  Glyphs,             \* what can be printed besides the control characters
  EARLY_LOG_SIZE,     \* characters kept before there is a screen
  CURSOR_BLINK_RATE,  \* ticks
  MaxText             \* characters printed in a behaviour

ASSUME ScreenAssumption == cols \in Nat \ {0} /\ rows \in Nat \ {0} /\ TAB \in Nat \ {0}

VARIABLES
  active,
  early_log,
  screen,          \* [row][column]
  cur_x, cur_y,
  cursor_visible, cursor_tick,
  text,            \* the characters the screen must show
  printed          \* how many characters were printed at all

fbVars == <<active, early_log, screen, cur_x, cur_y, cursor_visible, cursor_tick, text, printed>>

Control == {"LF", "CR", "BS", "HT"}
BlankCell == [glyph |-> " ", low |-> " "]
BlankRow == [x \in 0 .. cols - 1 |-> BlankCell]

FbInit ==
  /\ active = FALSE /\ early_log = <<>>
  /\ screen = [y \in 0 .. rows - 1 |-> BlankRow]
  /\ cur_x = 0 /\ cur_y = 0
  /\ cursor_visible = TRUE /\ cursor_tick = 0
  /\ text = <<>> /\ printed = 0

\* The state putc() works on: s with the screen, the cursor and its visibility.
Low(s, what) == [s EXCEPT !.screen[s.y][s.x].low = what]
draw_cursor(s) == Low(s, "cursor")
erase_cursor(s) == Low(s, " ")
draw_char(s, c) == [s EXCEPT !.screen[s.y][s.x] = [glyph |-> c, low |-> c]]

scroll_up(s) ==
  [s EXCEPT !.screen = [y \in 0 .. rows - 1 |-> IF y < rows - 1 THEN s.screen[y + 1] ELSE BlankRow]]

Newline(s) == [s EXCEPT !.x = 0, !.y = @ + 1]
Wrap(s) == IF s.x >= cols THEN Newline(s) ELSE s

\* The switch over the character.
Place(s, c) ==
  CASE c = "LF" -> Newline(s)
    [] c = "CR" -> [s EXCEPT !.x = 0]
    [] c = "BS" -> IF s.x > 0 THEN draw_char([s EXCEPT !.x = @ - 1], " ") ELSE s
    [] c = "HT" -> Wrap([s EXCEPT !.x = ((@ + TAB) \div TAB) * TAB])
    [] OTHER    -> Wrap([draw_char(s, c) EXCEPT !.x = @ + 1])

\* Mutant of putc_active: the cursor is not erased before the screen scrolls.
putc_active_trail(s, c) ==
  LET placed   == Place(s, c)
      scrolled == IF placed.y >= rows THEN [scroll_up(placed) EXCEPT !.y = rows - 1] ELSE placed
  IN [draw_cursor(scrolled) EXCEPT !.visible = TRUE]

\* putc() with a screen.
putc_active(s, c) ==
  LET placed   == Place(IF s.visible THEN erase_cursor(s) ELSE s, c)
      scrolled == IF placed.y >= rows THEN [scroll_up(placed) EXCEPT !.y = rows - 1] ELSE placed
  IN [draw_cursor(scrolled) EXCEPT !.visible = TRUE]

Now == [screen |-> screen, x |-> cur_x, y |-> cur_y, visible |-> cursor_visible]
Becomes(s) ==
  screen' = s.screen /\ cur_x' = s.x /\ cur_y' = s.y /\ cursor_visible' = s.visible

putc ==
  /\ printed < MaxText /\ printed' = printed + 1
  /\ \E c \in Glyphs \cup Control :
       \/ /\ ~active
          /\ early_log' = IF Len(early_log) < EARLY_LOG_SIZE THEN Append(early_log, c) ELSE early_log
          /\ UNCHANGED <<screen, cur_x, cur_y, cursor_visible, cursor_tick, text>>
       \/ /\ active
          /\ Becomes(putc_active(Now, c)) /\ cursor_tick' = 0
          /\ text' = Append(text, c)
          /\ UNCHANGED early_log
  /\ UNCHANGED active

\* late_init() and init() with a framebuffer that could be mapped: what was
\* printed so far is printed again.  cursor_tick is zero after any putc().
init ==
  /\ ~active /\ active' = TRUE
  /\ Becomes(FoldLeft(putc_active, Now, early_log))
  /\ text' = early_log /\ early_log' = <<>>
  /\ UNCHANGED <<cursor_tick, printed>>

\* tick(), from the timer interrupt.
tick ==
  /\ active
  /\ IF cursor_tick + 1 < CURSOR_BLINK_RATE
     THEN cursor_tick' = cursor_tick + 1 /\ UNCHANGED <<screen, cur_x, cur_y, cursor_visible>>
     ELSE /\ cursor_tick' = 0
          /\ Becomes([IF cursor_visible THEN erase_cursor(Now) ELSE draw_cursor(Now)
                      EXCEPT !.visible = ~@])
  /\ UNCHANGED <<active, early_log, text, printed>>

FbNext == putc \/ init \/ tick

FbSpec == FbInit /\ [][FbNext]_fbVars

(***************************************************************************)
(* Properties                                                              *)
(***************************************************************************)

(* The text on paper that never ends: line and column of the next          *)
(* character, and the characters in place.                                 *)
Typed(paper, c) ==
  LET here == <<paper.line, paper.col>>
      Feed(p) == IF p.col < cols THEN p ELSE [p EXCEPT !.line = @ + 1, !.col = 0]
  IN CASE c = "LF" -> [paper EXCEPT !.line = @ + 1, !.col = 0]
       [] c = "CR" -> [paper EXCEPT !.col = 0]
       [] c = "BS" -> IF paper.col = 0 THEN paper
                      ELSE [paper EXCEPT !.col = @ - 1,
                                         !.ink = {i \in @ : i.at # <<paper.line, paper.col - 1>>}]
       [] c = "HT" -> Feed([paper EXCEPT !.col = CHOOSE k \in @ + 1 .. @ + TAB : k % TAB = 0])
       [] OTHER    -> Feed([paper EXCEPT !.col = @ + 1,
                              !.ink = {i \in @ : i.at # here} \cup {[at |-> here, glyph |-> c]}])
Paper == FoldLeft(Typed, [line |-> 0, col |-> 0, ink |-> {}], text)

\* The screen shows the last lines of the text as it would stand on endless
\* paper, what was printed before the framebuffer was mapped included, and the
\* cursor stands where the next character goes, never outside the screen.  The
\* cursor is seen in no other cell, in none while it is blinked off, and it
\* spoils nothing of a glyph but the low lines.  (putc, tick, init.)
ScreenExact ==
  active =>
    LET paper == Paper
        top   == paper.line - cur_y
        At(y, x) == {i \in paper.ink : i.at = <<top + y, x>>}
        Cursors  == {p \in (0 .. rows - 1) \X (0 .. cols - 1) : screen[p[1]][p[2]].low = "cursor"}
    IN /\ cur_x \in 0 .. cols - 1 /\ cur_y \in 0 .. rows - 1
       /\ cur_x = paper.col
       /\ top = IF paper.line < rows THEN 0 ELSE paper.line - (rows - 1)
       /\ \A y \in 0 .. rows - 1, x \in 0 .. cols - 1 :
            LET cell == screen[y][x]
            IN /\ cell.glyph = IF At(y, x) = {} THEN " " ELSE (CHOOSE i \in At(y, x) : TRUE).glyph
               /\ cell.low \in {cell.glyph, " ", "cursor"}
       /\ Cursors \subseteq {<<cur_y, cur_x>>}
       /\ ~cursor_visible => Cursors = {}
       /\ cursor_visible /\ text # <<>> => Cursors # {}
=============================================================================
