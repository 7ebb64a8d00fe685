---------------------------- MODULE MCSessionStore ----------------------------
(***************************************************************************)
(* SessionStore with two folders, two sessions and a macro, two actions at *)
(* a time, and an import file with one session that can be read and one    *)
(* that cannot, in one folder.                                             *)
(***************************************************************************)
EXTENDS SessionStore, TLC

CONSTANTS f1, f2, s1, s2, m1, a, b
MCFolders  == {f1, f2}
MCSessions == {s1, s2}
MCMacros   == {m1}
MCNames    == {a, b}
MCLabel    == (s1 :> "web" @@ s2 :> "db")
MCBookmarks == {[path |-> <<a>>, label |-> "web", read |-> TRUE],
                [path |-> <<a>>, label |-> "db", read |-> FALSE]}
MCSlots    == {1, 2}
=============================================================================
