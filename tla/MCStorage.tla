----------------------------- MODULE MCStorage -----------------------------
(* Instance of Storage: one session and one folder, which the first file   *)
(* of an old build holds already, a command that saves the session outside *)
(* the folder and one that deletes the folder.                             *)
EXTENDS Storage, TLC

CONSTANTS p1, p2, noProc, noFile, noState

Model == INSTANCE StateModel
  WITH SessionIds <- {"s"}, FolderIds <- {"f"}, Paths <- {<<"A">>}

MCProcs == {p1, p2}

MCChanges == {"saveSession", "deleteFolder"}

MCEffect ==
  [c \in MCChanges |->
     [m \in Model!StorageModels |->
        IF c = "saveSession" THEN Model!SaveSession(m, "s", <<>>)
                             ELSE Model!DeleteSessionFolder(m, "f")]]

Filed == Model!SaveSession(
           Model!SaveSessionFolder(Model!SeedStorage, "f", <<"A">>), "s", <<"A">>)

FileOf(form) == [form |-> form, model |-> Filed, flushed |-> TRUE]

MCFirstFiles == {noFile} \union {FileOf(form) : form \in {"legacy", "current", "newer"}}

(* What a long use has left: exports up to the limit, and one migration     *)
(* less, of an empty state.                                                *)
MCFirstBackups ==
  LET Of(reason, form) ==
        [reason |-> reason, whole |-> TRUE, writer |-> noProc,
         source |-> [FileOf(form) EXCEPT !.model = Model!SeedStorage]]
      export    == Of("export", "current")
      migration == Of("migration", "legacy")
  IN <<export, migration, export, migration, export>>

MCStates == Model!StorageModels

MCSeedState == Model!SeedStorage

Instances == Permutations(MCProcs)

=============================================================================
