--------------------------- MODULE MCTerminalEcho ---------------------------
EXTENDS TerminalEcho

\* A letter and the space: an echo of the wrong character, and a line that trims to nothing.
TwoChars == {"a", " "}

=============================================================================
