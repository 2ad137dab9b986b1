---------------------------- MODULE ConsoleDisplay ----------------------------
(***************************************************************************)
(* The text display (kernel/io/console.c).  Video memory holds two screens *)
(* one after the other.  The visible part moves down over them a line at a *)
(* time; what is written to the second screen is also written to the       *)
(* first one, so that the display can go back to the beginning without     *)
(* copying.  The display lock makes each call one step.                    *)
(***************************************************************************)
EXTENDS Integers, Sequences

CONSTANTS MaxColumn, Rows,
          Texts,             \* the strings that printkString is called with
          Blank, NewLine,
          Unknown            \* what video memory holds before it is written

ASSUME DisplayAssumption == MaxColumn \in Nat \ {0} /\ Rows \in Nat /\ Rows > 1

screenArea == MaxColumn * Rows
Cells == 0..2 * screenArea - 1

VARIABLES cd,    \* ConsoleDisplay: screen, cursor, video
          crt    \* registers of the display controller: screen, cursor

displayVars == <<cd, crt>>

updateVideoAddress(regs, d) == [regs EXCEPT !.screen = d.screen]
updateCursor(regs, d) == [regs EXCEPT !.cursor = d.cursor]

initKernelConsole ==
    /\ cd = [screen |-> 0, cursor |-> 0,
             video |-> [c \in Cells |-> IF c < screenArea THEN Blank ELSE Unknown]]
    /\ crt = [screen |-> 0, cursor |-> 0]

\* c goes to the cells from the cursor to before end, and to those a screen above.
Fill(d, end, c) ==
    [d EXCEPT !.cursor = end,
              !.video = [i \in Cells |-> IF \/ i \in d.cursor..end - 1
                                            \/ i + screenArea \in d.cursor..end - 1
                                         THEN c ELSE d.video[i]]]

\* A broken version for the mutation test: nothing is copied to the first screen.
PrintOnce(d, c) == [d EXCEPT !.cursor = @ + 1, !.video[d.cursor] = c]

printChar(d, c) == Fill(d, d.cursor + 1, c)

Rotates(d) == d.cursor = 2 * screenArea - MaxColumn

cursorOnNewLine(d) ==
    IF d.cursor % MaxColumn # 0 THEN d
    ELSE LET cursor == IF Rotates(d) THEN d.cursor - screenArea ELSE d.cursor
         IN  [d EXCEPT !.cursor = cursor,
                       !.video = [i \in Cells |-> IF i \in cursor..cursor + MaxColumn - 1
                                                  THEN Blank ELSE d.video[i]]]

\* Line by line until the cursor is visible.
forwardScreen(d, rotated) ==
    LET first == IF rotated THEN 0 ELSE d.screen
        Screen(k) == (first + k * MaxColumn) % screenArea
        Visible(k) == d.cursor \in Screen(k)..Screen(k) + screenArea - 1
    IN  [d EXCEPT !.screen = Screen(CHOOSE k \in 0..Rows - 1 :
                                        Visible(k) /\ \A j \in 0..k - 1 : ~Visible(j))]

printCharacter(d, c) ==
    LET printed == IF c = NewLine THEN Fill(d, d.cursor + MaxColumn - (d.cursor % MaxColumn), Blank)
                   ELSE printChar(d, c)
    IN  forwardScreen(cursorOnNewLine(printed), Rotates(printed))

\* Character by character.
printConsole(d, s) ==
    LET after[k \in 0..Len(s)] == IF k = 0 THEN d ELSE printCharacter(after[k - 1], s[k])
    IN  after[Len(s)]

printString(s) ==
    /\ cd' = printConsole(cd, s)
    /\ crt' = updateCursor(updateVideoAddress(crt, cd'), cd')

\* The number of characters erased is 1 unless the cursor is on the first visible cell.
Erased == IF cd.cursor > cd.screen THEN 1 ELSE 0

printkBackspace ==
    /\ cd' = [cd EXCEPT !.cursor = @ - Erased,
                        !.video = [i \in Cells |->
                            IF Erased = 1 /\ (i = cd.cursor - 1 \/ i + screenArea = cd.cursor - 1)
                            THEN Blank ELSE @[i]]]
    /\ crt' = updateCursor(crt, cd')
=============================================================================
