---------------------------- MODULE StateModel -----------------------------
(***************************************************************************)
(* The application's state (models.rs: StorageModel) and what the commands *)
(* of commands.rs make of it.  Sessions and folders are kept by id, with   *)
(* the path of folder names that says where they are; the root is the      *)
(* empty path (`folder_path: None`).  The other fields of a session, and   *)
(* the macros, which are handled like sessions without a path, are left    *)
(* out.  The order of the stored lists is left out too: the window sorts.  *)
(***************************************************************************)
EXTENDS Sequences, SequencesExt

CONSTANTS
  SessionIds, FolderIds,
  Paths           \* paths of folders: nonempty sequences of names

PathOf(ids, paths) == UNION {[known -> paths] : known \in SUBSET ids}

StorageModels ==
  [session_folders : PathOf(FolderIds, Paths),
   sessions        : PathOf(SessionIds, Paths \union {<<>>})]

(* seed_storage                                                            *)
SeedStorage == [session_folders |-> <<>>, sessions |-> <<>>]

Put(map, id, path) == (id :> path) @@ map

Keep(map, Test(_)) == [id \in {i \in DOMAIN map : Test(map[i])} |-> map[id]]

SaveSession(storage, id, path) == [storage EXCEPT !.sessions = Put(@, id, path)]

SaveSessionFolder(storage, id, path) ==
  [storage EXCEPT !.session_folders = Put(@, id, path)]

DeleteSession(storage, id) ==
  [storage EXCEPT !.sessions = [i \in DOMAIN @ \ {id} |-> @[i]]]

(* A folder goes with everything in and under it.                          *)
DeleteSessionFolder(storage, id) ==
  IF id \notin DOMAIN storage.session_folders THEN storage
  ELSE LET root == storage.session_folders[id]
           Elsewhere(path) == ~ IsPrefix(root, path)
       IN [session_folders |-> Keep(storage.session_folders, Elsewhere),
           sessions        |-> Keep(storage.sessions, Elsewhere)]

=============================================================================
