-------------------------- MODULE ConsoleRefinement --------------------------
(***************************************************************************)
(* What the display shows, as a terminal.                                  *)
(***************************************************************************)
EXTENDS Console

\* What is displayed is a plain page that scrolls: no line that scrolled out comes back and
\* none is lost when the display goes back to the first screen, wherever the cursor was
\* moved by erasing.
page == [i \in 0..screenArea - 1 |-> cd.video[crt.screen + i]]
at == crt.cursor - crt.screen
Abstract == INSTANCE Terminal
ImplementsTerminal == Abstract!TerminalSpec
=============================================================================
