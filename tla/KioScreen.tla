------------------------------ MODULE KioScreen -----------------------------
(***************************************************************************)
(* unsync_write_char of kio.c: the cursor, the line breaks and the         *)
(* scrolling of the frame buffer.  A character on the screen is its number *)
(* among the printed characters that are not line breaks, modulo M.        *)
(***************************************************************************)
EXTENDS Integers, FiniteSets

CONSTANTS
    display_width, display_height,      \* in pixels, more than a character
    font_width, font_height,
    M

VARIABLES
    next_x, next_y,
    glyphs,         \* what the frame buffer shows: character number by position
    next            \* number of the next character
vars == <<next_x, next_y, glyphs, next>>

\* init_kio
Init == next_x = 0 /\ next_y = 0 /\ glyphs = <<>> /\ next = 0

\* The next line would not fit below this one.
AtBottom == next_y + font_height * 2 >= display_height

AtRight == next_x + font_width >= display_width

\* The frame buffer moves up by a line; what was on the first one is gone.
Scrolled ==
    LET kept == {p \in DOMAIN glyphs : p[2] >= font_height} IN
    [p \in {<<q[1], q[2] - font_height>> : q \in kept} |-> glyphs[<<p[1], p[2] + font_height>>]]

\* Mutant: the frame buffer is not moved.
NewLine_NoScroll(newline) ==
    [x |-> 0, y |-> IF AtBottom THEN next_y ELSE next_y + font_height, glyphs |-> glyphs]

\* The line break: where the character goes, and what the frame buffer holds.
NewLine(newline) ==
    IF ~(AtRight \/ newline) THEN [x |-> next_x, y |-> next_y, glyphs |-> glyphs]
    ELSE IF AtBottom THEN [x |-> 0, y |-> next_y, glyphs |-> Scrolled]
    ELSE [x |-> 0, y |-> next_y + font_height, glyphs |-> glyphs]

\* unsync_write_char('\n') and unsync_write_char of another character
unsync_write_char(newline) ==
    LET at == NewLine(newline) IN
    /\ next_y' = at.y
    /\ IF newline
       THEN next_x' = at.x /\ glyphs' = at.glyphs /\ UNCHANGED next
       ELSE /\ glyphs' = [p \in DOMAIN at.glyphs \cup {<<at.x, at.y>>} |->
                             IF p = <<at.x, at.y>> THEN next ELSE at.glyphs[p]]
            /\ next_x' = at.x + font_width /\ next' = (next + 1) % M

Next == unsync_write_char(TRUE) \/ unsync_write_char(FALSE)
Spec == Init /\ [][Next]_vars

------------------------------------------------------------------------------
(* Properties.                                                             *)

\* The types of the variables.
TypeOK ==
    /\ next_x \in 0 .. display_width /\ next_y \in 0 .. display_height /\ next \in 0 .. M - 1
    /\ \A p \in DOMAIN glyphs : glyphs[p] \in 0 .. M - 1

\* write_PSF_char stays inside the frame buffer, and characters do not overlap.
GlyphsOnScreen ==
    \A p, q \in DOMAIN glyphs :
        /\ p[1] + font_width <= display_width /\ p[2] + font_height <= display_height
        /\ p # q => \/ p[1] + font_width <= q[1] \/ q[1] + font_width <= p[1]
                    \/ p[2] + font_height <= q[2] \/ q[2] + font_height <= p[2]

\* Reading the screen from its end gives the last characters printed, in order.
ShowsLastCharacters ==
    LET Behind(p) == {q \in DOMAIN glyphs : q[2] > p[2] \/ (q[2] = p[2] /\ q[1] > p[1])}
    IN  \A p \in DOMAIN glyphs : glyphs[p] = (next - 1 - Cardinality(Behind(p))) % M

\* Whatever is printed, the screen holds the end of it, character by character.
ScreenSound == TypeOK /\ GlyphsOnScreen /\ ShowsLastCharacters
=============================================================================
