--------------------------- MODULE RemoteProperties ---------------------------
(***************************************************************************)
(* The properties windows of remote entries (lib/remotePropertiesWindow.ts,*)
(* RemoteEntryPropertiesWindowPage.tsx, RemoteEntryPropertiesModal.tsx).   *)
(*                                                                         *)
(* The main window leaves the entry in the local storage, under a key of   *)
(* its own, and creates a window; the page takes it away when it opens.    *)
(* Apply renames and changes the mode in two commands.  When both are done *)
(* the window writes a result, which the main window hears of as a storage *)
(* event, and closes.  FileTab composes this module with the main window.  *)
(***************************************************************************)
EXTENDS Naturals, Sequences, FiniteSets

CONSTANTS
  Servers, Sftp,   \* sessions of file tabs, and those of kind sftp
  Dirs, Root,      \* directories of a host
  Names, Modes,    \* names in a directory, permissions of an entry
  Windows,         \* requests of a properties window
  MaxActs, MaxFaults

VARIABLES
  host,       \* what is under each name of each directory
  windows,    \* each request and its window
  payloads,   \* keys in the local storage, one of each request
  events,     \* results the main window has not heard of yet
  writers,    \* who changed a directory: <<server, dir, window or "tab">>
  acts, faults

propertiesVars == <<host, windows, payloads, events, writers, acts, faults>>

ASSUME PropertiesAssumption ==
  /\ Sftp \subseteq Servers /\ Root \in Dirs /\ "none" \notin Names \cup Modes
  /\ MaxActs \in Nat /\ MaxFaults \in Nat

Nothing == [id |-> <<"none", "none", "none">>, mode |-> "none"]
New(m)  == [id |-> <<"new", "new", "new">>, mode |-> m]
Off     == [at |-> "off"]
NoDraft == [name |-> "none", mode |-> "none"]

UserActs == acts < MaxActs /\ acts' = acts + 1

(* A window nothing can be done in any more.  "moved" is history: the name *)
(* the window has given its entry.                                         *)
Blank(at) == [at |-> at, server |-> "none", dir |-> "none", name |-> "none", seen |-> Nothing,
              path |-> "none", draft |-> NoDraft, step |-> "none", wire |-> "none", error |-> "none",
              moved |-> "none"]

(* The window still has a command on its way.                              *)
Saving(w) == windows[w] # Off /\ windows[w].wire = "sent"

Set(w, r) == windows' = [windows EXCEPT ![w] = r]

---------------------------------------------------------------------------
(* requestRemoteEntryPropertiesWindow.                                     *)
Request(w, server, dir, name, seen, path) ==
  /\ windows[w] = Off
  /\ Set(w, [at |-> "asked", server |-> server, dir |-> dir, name |-> name, seen |-> seen,
             path |-> path, draft |-> NoDraft, step |-> "none", wire |-> "none", error |-> "none",
             moved |-> "none"])
  /\ payloads' = payloads \cup {w}

(* tauri://error                                                           *)
WindowFails(w) ==
  /\ windows[w] # Off /\ windows[w].at = "asked" /\ faults < MaxFaults
  /\ Set(w, Blank("failed")) /\ faults' = faults + 1
  /\ payloads' = payloads \ {w}
  /\ UNCHANGED <<host, events, writers, acts>>

(* The page runs, or runs again after a reload: it shows what it reads.    *)
PageRuns(w) ==
  /\ windows[w] # Off /\ windows[w].at \in {"asked", "reload"}
  /\ Set(w, IF w \in payloads THEN [windows[w] EXCEPT !.at = "open"] ELSE Blank("empty"))
  /\ payloads' = payloads \ {w}
  /\ UNCHANGED <<host, events, writers, acts, faults>>

Reload(w) ==
  /\ windows[w] # Off /\ windows[w].at = "open" /\ ~ Saving(w) /\ UserActs
  /\ Set(w, Blank("reload"))
  /\ UNCHANGED <<host, payloads, events, writers, faults>>

(* The Close button waits for Apply, that of the window's frame does not.  *)
CloseWindow(w) ==
  /\ windows[w] # Off /\ windows[w].at \in {"asked", "open", "empty"} /\ UserActs
  /\ Set(w, IF Saving(w) THEN [windows[w] EXCEPT !.at = "gone"] ELSE Blank("gone"))
  /\ UNCHANGED <<host, payloads, events, writers, faults>>

---------------------------------------------------------------------------
(* handleApply.                                                            *)

Renames(w) == windows[w].draft.name # windows[w].name
Chmods(w)  == windows[w].draft.mode # windows[w].seen.mode

Send(r, step) == [r EXCEPT !.step = step, !.wire = "sent", !.error = "none"]

(* With the fields as the user left them: the mode of an FTP entry is      *)
(* read-only, and a form that nothing was changed in cannot be applied.    *)
Apply(w, n, m) ==
  /\ windows[w] # Off /\ windows[w].at = "open" /\ windows[w].step = "none"
  /\ n # windows[w].name \/ m # windows[w].seen.mode
  /\ m = windows[w].seen.mode \/ windows[w].server \in Sftp
  /\ UserActs
  /\ Set(w, Send([windows[w] EXCEPT !.draft = [name |-> n, mode |-> m]],
                 IF n # windows[w].name THEN "rename" ELSE "chmod"))
  /\ UNCHANGED <<host, payloads, events, writers, faults>>

(* The entry a command of the window is about, and what becomes of it.     *)
Dir(w)  == host[windows[w].server][windows[w].dir]
Answer(w, r) == Set(w, IF windows[w].at = "gone" THEN Blank("gone") ELSE r)

(* The directory does not allow the command, or it is refused whatever is  *)
(* in the directory.                                                       *)
Fail(w)   == Answer(w, [windows[w] EXCEPT !.wire = "error"]) /\ UNCHANGED <<host, writers>>
Reject(w) == Answer(w, [windows[w] EXCEPT !.wire = "refused"]) /\ UNCHANGED <<host, writers>>

Change(w, dir, moved) ==
  /\ Answer(w, [windows[w] EXCEPT !.wire = "ok", !.moved = moved])
  /\ host' = [host EXCEPT ![windows[w].server][windows[w].dir] = dir]
  /\ writers' = writers \cup {<<windows[w].server, windows[w].dir, w>>}

(* rename_remote_entry.  A name that is taken is the server's business: it *)
(* may replace what is there.  FTP sends RNFR and RNTO over a connection   *)
(* each, which most servers refuse.                                        *)
ServeRename(w) ==
  LET from == windows[w].name  to == windows[w].draft.name IN
  /\ Saving(w) /\ windows[w].step = "rename"
  /\ \/ /\ Dir(w)[from] # Nothing
        /\ Change(w, [Dir(w) EXCEPT ![to] = Dir(w)[from], ![from] = Nothing], to)
     \/ (Dir(w)[from] = Nothing \/ Dir(w)[to] # Nothing) /\ Fail(w)
     \/ windows[w].server \notin Sftp /\ Reject(w)
  /\ UNCHANGED <<payloads, events, acts, faults>>

(* effectivePath                                                           *)
EffectiveName(w) == IF Renames(w) THEN windows[w].draft.name ELSE windows[w].name

(* update_remote_entry_permissions                                         *)
ServeChmod(w) ==
  LET n == EffectiveName(w) IN
  /\ Saving(w) /\ windows[w].step = "chmod"
  /\ \/ /\ Dir(w)[n] # Nothing
        /\ Change(w, [Dir(w) EXCEPT ![n].mode = windows[w].draft.mode], windows[w].moved)
     \/ Dir(w)[n] = Nothing /\ Fail(w)
  /\ UNCHANGED <<payloads, events, acts, faults>>

(* The server cannot be reached, or does not allow it.                     *)
ServeFails(w) ==
  /\ Saving(w) /\ faults < MaxFaults
  /\ Reject(w) /\ faults' = faults + 1
  /\ UNCHANGED <<payloads, events, acts>>

(* Mutant of Applied: the window is done when the rename is.               *)
AppliedEarly(w) ==
  /\ windows[w] # Off /\ windows[w].at = "open" /\ windows[w].wire = "ok"
  /\ Set(w, [windows[w] EXCEPT !.at = "done", !.wire = "none"])
  /\ events' = Append(events, [server |-> windows[w].server, path |-> windows[w].path])
  /\ UNCHANGED <<host, payloads, writers, acts, faults>>

(* A command is done: the next one, or the result is written and the       *)
(* window closed.                                                          *)
Applied(w) ==
  /\ windows[w] # Off /\ windows[w].at = "open" /\ windows[w].wire = "ok"
  /\ \/ /\ windows[w].step = "rename" /\ Chmods(w)
        /\ Set(w, Send(windows[w], "chmod")) /\ UNCHANGED events
     \/ /\ windows[w].step = "chmod" \/ ~ Chmods(w)
        /\ Set(w, [windows[w] EXCEPT !.at = "done", !.wire = "none"])
        /\ events' = Append(events, [server |-> windows[w].server, path |-> windows[w].path])
  /\ UNCHANGED <<host, payloads, writers, acts, faults>>

(* The error is shown; the entry of the window stays the one it was.       *)
Refused(w) ==
  /\ windows[w] # Off /\ windows[w].at = "open" /\ windows[w].wire \in {"error", "refused"}
  /\ Set(w, [windows[w] EXCEPT !.step = "none", !.wire = "none", !.error = windows[w].wire])
  /\ UNCHANGED <<host, payloads, events, writers, acts, faults>>

---------------------------------------------------------------------------
Page(w)    == PageRuns(w) \/ Applied(w) \/ Refused(w)
Backend(w) == ServeRename(w) \/ ServeChmod(w) \/ ServeFails(w)
Visitor(w) ==
  \/ Reload(w) \/ CloseWindow(w)
  \/ \E n \in Names, m \in Modes : Apply(w, n, m)
=============================================================================
