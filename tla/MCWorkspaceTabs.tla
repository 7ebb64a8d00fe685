--------------------------- MODULE MCWorkspaceTabs ---------------------------
(***************************************************************************)
(* WorkspaceTabs with one tab, one session of any kind, and three runs.     *)
(***************************************************************************)
EXTENDS WorkspaceTabs, TLC

CONSTANTS t1, s1
MCTabs     == {t1}
MCSessions == {s1}
MCSlots    == {1, 2}
MCEditKinds == {"sftp", "telnet"}
=============================================================================
