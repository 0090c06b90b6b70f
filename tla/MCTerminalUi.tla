--------------------------- MODULE MCTerminalUi ---------------------------
\* Panels up to a list of a dialog of a submenu.
EXTENDS TerminalUi
===========================================================================
