------------------------------- MODULE Terminal -------------------------------
(***************************************************************************)
(* What the console display promises: a page of Rows lines and MaxColumn   *)
(* columns that scrolls up by one line when the last one is full.          *)
(***************************************************************************)
EXTENDS Integers
LOCAL INSTANCE SequencesExt

CONSTANTS MaxColumn, Rows, Texts, Blank, NewLine

VARIABLES page,   \* what is displayed, line after line
          at      \* where the next character goes

Area == MaxColumn * Rows

TerminalInit == page = [i \in 0..Area - 1 |-> Blank] /\ at = 0

\* A position beyond the last line scrolls the page; a new line is blank.
OnNewLine(t) ==
    CASE t.at = Area -> [page |-> [i \in 0..Area - 1 |->
                                      IF i + MaxColumn < Area THEN t.page[i + MaxColumn] ELSE Blank],
                         at |-> Area - MaxColumn]
      [] t.at < Area /\ t.at % MaxColumn = 0 ->
            [t EXCEPT !.page = [i \in 0..Area - 1 |->
                                   IF i \in t.at..t.at + MaxColumn - 1 THEN Blank ELSE t.page[i]]]
      [] OTHER -> t

Put(t, c) ==
    IF c = NewLine
    THEN LET next == t.at + MaxColumn - (t.at % MaxColumn)
         IN  OnNewLine([page |-> [i \in 0..Area - 1 |->
                                     IF i \in t.at..next - 1 THEN Blank ELSE t.page[i]],
                        at |-> next])
    ELSE OnNewLine([page |-> [t.page EXCEPT ![t.at] = c], at |-> t.at + 1])

Becomes(t) == page' = t.page /\ at' = t.at

Write(s) == Becomes(FoldLeft(Put, [page |-> page, at |-> at], s))

\* The last n characters of the page are erased, or all there are.
Erase(n) ==
    LET first == IF n > at THEN 0 ELSE at - n
    IN  Becomes([page |-> [i \in 0..Area - 1 |-> IF i \in first..at - 1 THEN Blank ELSE page[i]],
                 at |-> first])

\* Most steps of the system print nothing.
TerminalNext == UNCHANGED <<page, at>> \/ (\E s \in Texts : Write(s)) \/ Erase(1)

TerminalSpec == TerminalInit /\ [][TerminalNext]_<<page, at>>
=============================================================================
