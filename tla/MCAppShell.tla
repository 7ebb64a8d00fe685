----------------------------- MODULE MCAppShell -----------------------------
(* A small instance of AppShell: two terminals, two widths, one setting    *)
(* with two values, the dialog of sessions and that of macros.             *)
EXTENDS AppShell

MCTabs    == {"t1", "t2"}
MCWidths  == {"narrow", "wide"}
MCOptions == {"shown", "hidden"}
MCDialogs == {"session", "macro"}
MCItems   == {"item"}
=============================================================================
