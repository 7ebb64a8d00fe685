---------------------------- MODULE SessionStore ----------------------------
(***************************************************************************)
(* The sessions, folders and macros of the window and of the disk          *)
(* (src/state/openXTermStoreDomain.ts, lib/mobaxtermImport.ts, the sidebar *)
(* tree and the dialogs of App.tsx, src-tauri/src/commands.rs).            *)
(*                                                                         *)
(* An action of the store reads the window's state, sends its commands to  *)
(* the backend one after the other, each with an await, and only after the *)
(* last answer changes the window's state: not the state it read but the   *)
(* one it finds.  The backend serves the commands in the order they were   *)
(* sent, each on the whole state file, and the answers come back in that   *)
(* order.  A command that fails ends its action.                           *)
(*                                                                         *)
(* A path is the sequence of its names.  What a session or a macro holds   *)
(* besides its folder is left out.                                         *)
(***************************************************************************)
EXTENDS Naturals, Sequences, FiniteSets, SequencesExt

CONSTANTS
  Folders,      \* ids of folders
  Sessions,     \* ids of sessions
  Macros,       \* ids of macros
  Names,        \* names of folders
  Label,        \* the fingerprint of a session but for its folder
  Bookmarks,    \* the sessions of an import file: path, label, read
  Slots,        \* actions of the store under way at a time
  MaxDepth,     \* bounds the length of a path
  MaxActions,   \* bounds the actions begun
  MaxFaults     \* bounds the commands that fail

Ids   == Folders \cup Sessions \cup Macros
Root  == <<>>
Paths == UNION {[1 .. n -> Names] : n \in 0 .. MaxDepth}
Gone  == <<"gone">>               \* an item that is not there
Free  == [kind |-> "free"]        \* a slot that is not used
NoOne == [id |-> "none", path |-> Gone, busy |-> FALSE]

ASSUME StoreAssumption ==
  /\ Folders \cap Sessions = {} /\ (Folders \cup Sessions) \cap Macros = {}
  /\ "gone" \notin Names /\ "none" \notin Ids
  /\ IsFiniteSet(Folders) /\ IsFiniteSet(Sessions) /\ IsFiniteSet(Bookmarks)
  /\ \A k \in Bookmarks : k.path \in Paths /\ k.read \in BOOLEAN
  /\ MaxDepth \in Nat /\ MaxActions \in Nat /\ MaxFaults \in Nat

VARIABLES
  window,       \* where the items of sessions, sessionFolders and macros are
  disk,         \* the same in the state file
  ops,          \* the actions of the store under way
  line,         \* slots with a command sent, oldest first
  served,       \* how many of them the backend has served
  dialog,       \* deletingSessionFolder
  begun, faults,\* counters
  accepted,     \* history: every place the disk ever gave an item
  condemned,    \* history: items the user saw when deleting
  tangled       \* history: actions got in each other's way, or broke off

history == <<begun, faults, accepted, condemned, tangled>>
vars    == <<window, disk, ops, line, served, dialog, history>>

There(state) == {x \in Ids : state[x] # Gone}
Fresh        == {x \in Ids : \A a \in accepted : a[1] # x} \ UNION {ops[s].ids : s \in {u \in Slots : ops[u] # Free}}

(* isFolderPathInSubtree.                                                  *)
Within(path, root) == path # Gone /\ IsPrefix(root, path)

(* replaceFolderPathPrefix.                                                *)
Rebased(path, from, to) == to \o SubSeq(path, Len(from) + 1, Len(path))

Subtree(state, root) == {x \in Folders \cup Sessions : Within(state[x], root)}

---------------------------------------------------------------------------
(* The tree of the sidebar.                                                *)

(* buildSessionTree: a row for every folder and for every folder on the    *)
(* way to a folder or a session.                                           *)
TreeFolders ==
  UNION {{SubSeq(window[x], 1, n) : n \in 1 .. Len(window[x])} :
           x \in There(window) \cap (Folders \cup Sessions)}

Places == {Root} \cup TreeFolders

(* canDropFolderOnTarget.                                                  *)
CanDropFolder(path, target) ==
  /\ path # Gone /\ ~ Within(target, path)
  /\ Append(target, Last(path)) # path

CanDropSession(path, target) == path # target

---------------------------------------------------------------------------
(* Beginning an action.                                                    *)

Running == {s \in Slots : ops[s] # Free}

(* Actions that do not mind each other: neither is about a whole tree and  *)
(* they are about different items.                                         *)
Apart(o, p) ==
  /\ {o.kind, p.kind} \cap {"moveTree", "dropTree", "import"} = {}
  /\ o.ids \cap p.ids = {}

(* Mutant of Begin: the window does not wait for the disk.                 *)
BeginShown(o) ==
  \E s \in Slots :
    /\ ops[s] = Free /\ begun < MaxActions
    /\ ops' = [ops EXCEPT ![s] = o]
    /\ line' = Append(line, s)
    /\ begun' = begun + 1
    /\ window' = [x \in Ids |-> IF x \in DOMAIN o.new THEN o.new[x] ELSE window[x]]
    /\ UNCHANGED <<disk, served, faults, accepted, tangled>>

Begin(o) ==
  \E s \in Slots :
    /\ ops[s] = Free /\ begun < MaxActions
    /\ dialog = NoOne \/ o.kind = "dropTree"
    /\ ops' = [ops EXCEPT ![s] = o]
    /\ line' = Append(line, s)
    /\ begun' = begun + 1
    /\ tangled' = (tangled \/ \E u \in Running : ~ Apart(o, ops[u]))
    /\ UNCHANGED <<window, disk, served, faults, accepted>>

(* An action: what it does in the end, the items of its commands in order, *)
(* and the places it gives them.                                           *)
Op(kind, todo, new, root) ==
  [kind |-> kind, todo |-> todo, ids |-> ToSet(todo), new |-> new, root |-> root, ok |-> TRUE]

Save(kind, x, path) == Op(kind, <<x>>, [y \in {x} |-> path], Root)

Quietly == UNCHANGED <<dialog, condemned>>

(* createSessionFolder: the path is looked up in the window.               *)
CreateFolder(parent, name) ==
  LET path == Append(parent, name) IN
  /\ path \in Paths
  /\ ~ \E f \in Folders : window[f] = path
  /\ \E f \in Folders \cap Fresh : Begin(Save("put", f, path))
  /\ Quietly

(* upsertSession: a new session, or one the window shows.                  *)
UpsertSession(x, path) ==
  /\ x \in Fresh \/ window[x] # Gone
  /\ Begin(Save("put", x, path))
  /\ Quietly

UpsertMacro(x) ==
  /\ x \in Fresh \/ window[x] # Gone
  /\ Begin(Save("put", x, Root))
  /\ Quietly

(* moveSessionToFolder.                                                    *)
MoveSession(x, path) ==
  /\ window[x] # Gone
  /\ Begin(Save("move", x, path))
  /\ Quietly

(* moveSessionFolder: the folders of the subtree are saved first, then its *)
(* sessions.                                                               *)
MoveFolder(f, target) ==
  LET from == window[f]
      to   == Append(target, Last(from))
      tree == Subtree(window, from)
      new  == [x \in tree |-> Rebased(window[x], from, to)]
  IN /\ from # Gone /\ to # from /\ ~ Within(target, from)
     /\ \A x \in tree : new[x] \in Paths
     /\ ~ \E g \in Folders \ {f} : window[g] = to
     /\ Begin(Op("moveTree", SetToSeq(tree \cap Folders) \o SetToSeq(tree \cap Sessions), new, Root))
     /\ Quietly

Drop(x) ==
  /\ window[x] # Gone
  /\ Begin(Save("drop", x, Gone))
  /\ condemned' = condemned \cup {x}
  /\ UNCHANGED dialog

(* startSessionTreePointerDrag: a row is dropped on a row that takes it.   *)
DragSession(x, path) == CanDropSession(window[x], path) /\ MoveSession(x, path)

DragFolder(f, target) == CanDropFolder(window[f], target) /\ MoveFolder(f, target)

(* removeSession; its tabs are in WorkspaceTabs.                           *)
RemoveSession(x) == Drop(x)

RemoveMacro(x) == Drop(x)

(* removeSessionFolder.                                                    *)
DropTree(f, seen) ==
  /\ Begin([Save("dropTree", f, Gone) EXCEPT !.root = window[f]])
  /\ condemned' = condemned \cup {f} \cup seen

(* Mutant of RequestDelete: only folders below it are a reason to ask.     *)
RequestDeleteSessions(f) ==
  /\ dialog = NoOne /\ window[f] # Gone
  /\ IF Subtree(window, window[f]) \cap Folders = {f}
       THEN DropTree(f, {}) /\ UNCHANGED dialog
       ELSE /\ dialog' = [id |-> f, path |-> window[f], busy |-> FALSE]
            /\ tangled' = (tangled \/ Running # {})
            /\ UNCHANGED <<window, disk, ops, line, served, begun, faults, accepted, condemned>>

(* requestDeleteSessionFolder: an empty folder is deleted at once, another *)
(* after a dialog.                                                         *)
RequestDelete(f) ==
  /\ dialog = NoOne /\ window[f] # Gone
  /\ IF Subtree(window, window[f]) = {f}
       THEN DropTree(f, {}) /\ UNCHANGED dialog
       ELSE /\ dialog' = [id |-> f, path |-> window[f], busy |-> FALSE]
            /\ tangled' = (tangled \/ Running # {})
            /\ UNCHANGED <<window, disk, ops, line, served, begun, faults, accepted, condemned>>

(* confirmDeleteSessionFolder: the dialog counts what the window shows     *)
(* below the path of the request, and stays until the answer.              *)
ConfirmDelete ==
  /\ dialog # NoOne /\ ~ dialog.busy
  /\ DropTree(dialog.id, Subtree(window, dialog.path))
  /\ dialog' = [dialog EXCEPT !.busy = TRUE]

CancelDelete ==
  /\ dialog # NoOne /\ ~ dialog.busy
  /\ dialog' = NoOne
  /\ UNCHANGED <<window, disk, ops, line, served, history>>

(* ensureFolderAncestors.                                                  *)
Ancestors(path) == {SubSeq(path, 1, n) : n \in 1 .. Len(path)}

(* parseMobaXtermSessionsFile: every section of the file is a folder,      *)
(* whether its sessions can be read or not.                                *)
FoldersOfImport == UNION {Ancestors(k.path) : k \in Bookmarks}

(* parseBookmarkLine: lines of other kinds of session are skipped.         *)
SessionsOfImport == {k \in Bookmarks : k.read}

(* buildSessionImportFingerprint.                                          *)
SameSession(x, k) == window[x] = k.path /\ Label[x] = k.label

(* importMobaXtermSessions: the folders are saved first.                   *)
Import ==
  LET missing == {q \in FoldersOfImport : ~ \E f \in Folders : window[f] = q}
      added   == {k \in SessionsOfImport : ~ \E x \in Sessions : SameSession(x, k)}
  IN \E fs \in [missing -> Folders \cap Fresh], ss \in [added -> Sessions \cap Fresh] :
       /\ missing # {} \/ added # {}
       /\ IsInjective(fs) /\ IsInjective(ss)
       /\ \A k \in added : Label[ss[k]] = k.label
       /\ LET ids == {fs[q] : q \in missing}
              new == {ss[k] : k \in added} IN
          Begin(Op("import", SetToSeq(ids) \o SetToSeq(new),
            [x \in ids \cup new |->
               IF x \in ids THEN CHOOSE q \in missing : fs[q] = x
                            ELSE (CHOOSE k \in added : ss[k] = x).path],
            Root))
       /\ Quietly

---------------------------------------------------------------------------
(* The backend and the rest of an action.                                  *)

(* save_session, save_session_folder, save_macro, delete_session,          *)
(* delete_macro and delete_session_folder on the state file; the last      *)
(* looks the folder up in the file.                                        *)
Stored(o) ==
  LET x == Head(o.todo)
      below == IF disk[x] = Gone THEN {} ELSE Subtree(disk, disk[x])
  IN IF o.kind = "dropTree" THEN [y \in Ids |-> IF y \in below THEN Gone ELSE disk[y]]
     ELSE [disk EXCEPT ![x] = o.new[x]]

Serve ==
  /\ served < Len(line)
  /\ served' = served + 1
  /\ LET s == line[served + 1] IN
       \/ /\ disk' = Stored(ops[s])
          /\ accepted' = accepted \cup {<<x, disk'[x]>> : x \in There(disk')}
          /\ UNCHANGED <<ops, faults>>
       \/ /\ faults < MaxFaults /\ faults' = faults + 1
          /\ ops' = [ops EXCEPT ![s].ok = FALSE]
          /\ UNCHANGED <<disk, accepted>>
  /\ UNCHANGED <<window, line, dialog, begun, condemned, tangled>>

(* Mutant of Shown: only the folder itself disappears.                     *)
ShownBelow(o) ==
  [x \in Ids |-> IF x \in DOMAIN o.new THEN o.new[x] ELSE window[x]]

(* The state the window sets in the end: a move touches only items that    *)
(* are still shown, and a folder takes along what is shown below it now.   *)
Shown(o) ==
  CASE o.kind = "dropTree" -> [x \in Ids |->
         IF x \in ToSet(o.todo) \/ x \in Subtree(window, o.root) THEN Gone ELSE window[x]]
    [] o.kind \in {"move", "moveTree"} -> [x \in Ids |->
         IF x \in DOMAIN o.new /\ window[x] # Gone THEN o.new[x] ELSE window[x]]
    [] OTHER -> [x \in Ids |-> IF x \in DOMAIN o.new THEN o.new[x] ELSE window[x]]

(* The answer arrives: the next command is sent, or the window changes, or *)
(* the action breaks off.                                                  *)
Continue ==
  /\ served > 0
  /\ LET s == Head(line)
         o == ops[s]
         more == o.ok /\ Len(o.todo) > 1
     IN /\ served' = served - 1
        /\ line' = IF more THEN Append(Tail(line), s) ELSE Tail(line)
        /\ ops' = [ops EXCEPT ![s] = IF more THEN [o EXCEPT !.todo = Tail(@)] ELSE Free]
        /\ window' = IF o.ok /\ ~ more THEN Shown(o) ELSE window
        /\ tangled' = (tangled \/ (~ o.ok /\ Len(o.todo) < Cardinality(o.ids)))
        /\ dialog' = IF ~ (dialog.busy /\ dialog.id \in o.ids) THEN dialog
                     ELSE IF o.ok THEN NoOne ELSE [dialog EXCEPT !.busy = FALSE]
  /\ UNCHANGED <<disk, begun, faults, accepted, condemned>>

---------------------------------------------------------------------------
(* bootstrapState: the window starts with what the disk holds.             *)
Init ==
  /\ disk = [x \in Ids |-> Gone] /\ window = disk
  /\ ops = [s \in Slots |-> Free] /\ line = <<>> /\ served = 0
  /\ dialog = NoOne /\ begun = 0 /\ faults = 0
  /\ accepted = {} /\ condemned = {} /\ tangled = FALSE

Next ==
  \/ \E p \in Places, n \in Names : CreateFolder(p, n)
  \/ \E x \in Sessions, p \in Places : UpsertSession(x, p) \/ MoveSession(x, p) \/ DragSession(x, p)
  \/ \E f \in Folders, p \in Places : DragFolder(f, p)
  \/ \E x \in Sessions : RemoveSession(x)
  \/ \E x \in Macros : UpsertMacro(x) \/ RemoveMacro(x)
  \/ \E f \in Folders : RequestDelete(f)
  \/ ConfirmDelete \/ CancelDelete \/ Import \/ Serve \/ Continue

Spec == Init /\ [][Next]_vars

---------------------------------------------------------------------------
Kept == Paths \cup {Gone}

TypeOK ==
  /\ window \in [Ids -> Kept] /\ disk \in [Ids -> Kept]
  /\ \A x \in Macros : window[x] \in {Root, Gone} /\ disk[x] \in {Root, Gone}
  /\ served \in 0 .. Len(line) /\ ToSet(line) = Running
  /\ \A s \in Running : ToSet(ops[s].todo) \subseteq ops[s].ids

(* The window never shows an item at a place the disk has not accepted,    *)
(* however the actions interleave and whichever of them fail.              *)
ShownWasSaved == \A x \in There(window) : <<x, window[x]>> \in accepted

(* The lists of the window are lists of items that were saved there.       *)
StoreIsTrue == TypeOK /\ ShownWasSaved

(* When nothing is under way, and no actions about a tree or about one     *)
(* item overlapped and none broke off half way, the window shows exactly   *)
(* what the disk holds, so that a restart changes nothing.                 *)
InStep == Running = {} /\ ~ tangled => window = disk

(* Under the same condition, nothing disappears from the disk that the     *)
(* user did not see in the question or in the row deleted.                 *)
NoSilentLoss ==
  ~ tangled => \A a \in accepted : disk[a[1]] = Gone => a[1] \in condemned
=============================================================================
