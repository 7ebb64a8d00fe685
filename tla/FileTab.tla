-------------------------------- MODULE FileTab --------------------------------
(***************************************************************************)
(* The file tabs of the workspace (FileBrowserView.tsx, its hooks and      *)
(* useRemotePropertiesWindow.ts) with the properties windows.              *)
(*                                                                         *)
(* Workspace renders the active file tab without a key: one component is   *)
(* used for all of them, and an answer for a session that was left shows   *)
(* up in the tab of the next.  The session of a linked tab is built anew   *)
(* in every rendering of the window, and each new object sends the tab     *)
(* back to the root.  No answer is compared with what was asked last.      *)
(***************************************************************************)
EXTENDS RemoteProperties

CONSTANTS Linked,   \* sessions linked to the terminal of an SSH tab
          Hidden,   \* names that begin with a dot
          Typed,    \* names a user types or drops
          Slots     \* operations of the tab at a time

VARIABLES
  session,    \* that of the active tab, or Away when it is no file tab
  snapshot,   \* the listing shown, and where it is from
  path,       \* currentPath
  busy, selected, menu, showHidden,
  ops,        \* operations under way
  history     \* what makes a later state excusable

view == <<session, snapshot, path, busy, selected, menu, showHidden>>
vars == <<propertiesVars, view, ops, history>>


Away   == "away"
OfTab  == "tab"     \* who a writer is that is no window

ASSUME TabAssumption ==
  /\ Linked \subseteq Servers /\ Hidden \subseteq Names /\ Typed \subseteq Names
  /\ Away \notin Servers /\ OfTab \notin Windows /\ Modes # {}

Null   == [of |-> Away, path |-> Root, entries |-> [n \in Names |-> Nothing]]
NoMenu == [of |-> Away, path |-> Root, name |-> "none", entry |-> Nothing]
Idle   == [kind |-> "idle"]
Busy   == {o \in Slots : ops[o] # Idle}
Mine   == {o \in Busy : ops[o].mounted}

(* visibleEntries, selectedEntry                                           *)
Visible == {n \in Names : snapshot.entries[n] # Nothing /\ (showHidden \/ n \notin Hidden)}
HasSelected == selected \in Visible

---------------------------------------------------------------------------
(* What is put where a file of its name may be asks first what to do.      *)
Asking == {"upload", "download"}

Job(kind, server, dir, name) ==
  [kind |-> kind, server |-> server, dir |-> dir, name |-> name,
   seen |-> IF kind = "delete" THEN snapshot.entries[name] ELSE Nothing,
   stray |-> kind = "delete" /\ history.crossed,
   known |-> {n \in Names : kind = "upload" /\ snapshot.entries[n] # Nothing}, over |-> FALSE,
   at |-> IF kind = "load" THEN "list" ELSE IF kind \in Asking THEN "resolve" ELSE "run",
   wire |-> IF kind \in Asking THEN "none" ELSE "sent", entries |-> Null.entries, mounted |-> TRUE]

Begin(job) ==
  /\ \E o \in Slots : ops[o] = Idle /\ ops' = [ops EXCEPT ![o] = job]
  /\ busy' = TRUE

(* An operation began while another one had not ended.                     *)
Overlaps == history' = [history EXCEPT !.excused = @ \/ Busy # {}]

Still == UNCHANGED <<host, windows, payloads, events, writers, faults>>

(* Mutant of Enter: the listing of the former tab stays until the new one. *)
EnterKeep(s) ==
  /\ session' = s /\ UNCHANGED <<snapshot, path, selected>>
  /\ Begin(Job("load", s, Root, "none"))

(* The effect of a new session: everything is reset, the root is loaded.   *)
Enter(s) ==
  /\ session' = s /\ snapshot' = Null /\ path' = Root /\ selected' = "none"
  /\ Begin(Job("load", s, Root, "none"))

(* Workspace shows another tab.  A click on a tab closes the menu; that on *)
(* the x of the tab is stopped before it does, and the next file tab keeps *)
(* the menu of the closed one.                                             *)
SwitchTab(s) ==
  /\ s # session /\ UserActs
  /\ Enter(s) /\ menu' \in {NoMenu, menu}
  /\ history' = [history EXCEPT !.excused = @ \/ Busy # {}, !.crossed = Mine # {}]
  /\ UNCHANGED showHidden /\ Still

(* The window is rendered: sessionMap has a new object for a linked tab.   *)
Renders ==
  /\ session \in Linked /\ UserActs
  /\ Enter(session) /\ Overlaps
  /\ UNCHANGED <<menu, showHidden>> /\ Still

(* A tab of another kind: the component is gone, its commands are not.     *)
LeaveTab ==
  /\ session # Away /\ UserActs
  /\ session' = Away /\ snapshot' = Null /\ path' = Root /\ busy' = FALSE
  /\ selected' = "none" /\ menu' = NoMenu /\ showHidden' = FALSE
  /\ ops' = [o \in Slots |-> IF o \in Busy THEN [ops[o] EXCEPT !.mounted = FALSE] ELSE Idle]
  /\ UNCHANGED history /\ Still

(* Up, Refresh and Go wait for busy; a double click on a row does not.     *)
Load(d) ==
  /\ session # Away /\ UserActs
  /\ ~ busy \/ (snapshot # Null /\ snapshot.path = Root /\ d # Root)
  /\ Begin(Job("load", session, d, "none")) /\ Overlaps
  /\ UNCHANGED <<session, snapshot, path, selected, menu, showHidden>> /\ Still

SelectEntry(n) ==
  /\ n \in Visible /\ UserActs
  /\ selected' = n
  /\ UNCHANGED <<session, snapshot, path, busy, menu, showHidden, ops, history>> /\ Still

(* A row that is dragged out of the window is selected.                    *)
DragOut(n) == SelectEntry(n)

OpenMenu(n) ==
  /\ n \in Visible /\ UserActs
  /\ selected' = n
  /\ menu' = [of |-> snapshot.of, path |-> snapshot.path, name |-> n, entry |-> snapshot.entries[n]]
  /\ UNCHANGED <<session, snapshot, path, busy, showHidden, ops, history>> /\ Still

ShowHidden ==
  /\ session # Away /\ ~ busy /\ UserActs
  /\ showHidden' = ~ showHidden
  /\ UNCHANGED <<session, snapshot, path, busy, selected, menu, ops, history>> /\ Still

Unmoved == UNCHANGED <<session, snapshot, path, selected, menu, showHidden>> /\ Still

CreateFolder(n) ==
  /\ session # Away /\ ~ busy /\ UserActs
  /\ Begin(Job("create", session, path, n)) /\ Overlaps /\ Unmoved

DeleteSelected ==
  /\ HasSelected /\ ~ busy /\ UserActs
  /\ Begin(Job("delete", session, snapshot.path, selected)) /\ Overlaps /\ Unmoved

DownloadSelected ==
  /\ HasSelected /\ ~ busy /\ UserActs
  /\ Begin(Job("download", session, snapshot.path, selected)) /\ Overlaps /\ Unmoved

(* A drop does not wait for busy.                                          *)
Upload(n) ==
  /\ session # Away /\ UserActs
  /\ Begin(Job("upload", session, path, n)) /\ Overlaps /\ Unmoved

(* The window may be opened on another host than that of its entry.        *)
MayStray(w, of) ==
  history' = IF of # session THEN [history EXCEPT !.strays = @ \cup {w}] ELSE history

(* openProperties, of the selected entry or of that of the menu.           *)
OpenProperties(w) ==
  /\ session # Away /\ UserActs
  /\ \/ /\ HasSelected /\ ~ busy
        /\ Request(w, session, snapshot.path, selected, snapshot.entries[selected], path)
        /\ UNCHANGED selected /\ MayStray(w, snapshot.of)
     \/ /\ menu # NoMenu
        /\ Request(w, session, menu.path, menu.name, menu.entry, path)
        /\ selected' = menu.name /\ MayStray(w, menu.of)
  /\ menu' = NoMenu
  /\ UNCHANGED <<host, events, writers, faults, session, snapshot, path, busy, showHidden, ops>>

---------------------------------------------------------------------------
(* Continuations.                                                          *)

Is(o, at, wire) == ops[o] # Idle /\ ops[o].at = at /\ ops[o].wire = wire

(* setBusy(false), if the component is still there.                        *)
End(o) ==
  /\ ops' = [ops EXCEPT ![o] = Idle]
  /\ busy' = IF ops[o].mounted THEN FALSE ELSE busy

(* Its command is sent.                                                    *)
Runs(o, name, over) ==
  /\ ops' = [ops EXCEPT ![o].at = "run", ![o].wire = "sent", ![o].name = name, ![o].over = over]
  /\ UNCHANGED busy

(* resolveUploadTargets, with the listing of when the file was dropped;    *)
(* resolveDownloadTarget, with what is under the name in the local folder, *)
(* of which nothing is said here.                                          *)
Resolve(o) ==
  LET n == ops[o].name IN
  /\ Is(o, "resolve", "none")
  /\ \/ n \notin ops[o].known /\ Runs(o, n, FALSE)
     \/ /\ n \in ops[o].known
        /\ \/ End(o) \/ Runs(o, n, TRUE)
           \/ \E to \in Names \ ops[o].known : Runs(o, to, FALSE)
     \/ ops[o].kind = "download" /\ End(o)
  /\ UNCHANGED <<propertiesVars, session, snapshot, path, selected, menu, showHidden, history>>

(* The command is done: the directory it was started in is listed.         *)
Ran(o) ==
  /\ Is(o, "run", "ok")
  /\ \/ ops[o].kind = "download" /\ End(o)
     \/ /\ ops[o].kind # "download"
        /\ ops' = [ops EXCEPT ![o].at = "list", ![o].wire = "sent"]
        /\ busy' = (busy \/ ops[o].mounted)
  /\ UNCHANGED <<propertiesVars, session, snapshot, path, selected, menu, showHidden, history>>

Fails(o) ==
  /\ Is(o, "run", "error")
  /\ End(o)
  /\ history' = [history EXCEPT !.excused = TRUE]
  /\ UNCHANGED <<propertiesVars, session, snapshot, path, selected, menu, showHidden>>

(* loadDirectory, whatever the tab shows by now.                           *)
Listed(o) ==
  /\ \/ /\ Is(o, "list", "ok")
        /\ IF ops[o].mounted
             THEN /\ snapshot' = [of |-> ops[o].server, path |-> ops[o].dir, entries |-> ops[o].entries]
                  /\ path' = ops[o].dir /\ selected' = "none"
             ELSE UNCHANGED <<snapshot, path, selected>>
        /\ UNCHANGED history
     \/ /\ Is(o, "list", "error")
        /\ history' = [history EXCEPT !.excused = TRUE]
        /\ UNCHANGED <<snapshot, path, selected>>
  /\ End(o)
  /\ UNCHANGED <<propertiesVars, session, menu, showHidden>>

(* Mutant of HearResult: the directory is not loaded, only the message     *)
(* shown.                                                                  *)
HearResultMessage ==
  /\ events # <<>> /\ events' = Tail(events)
  /\ UNCHANGED <<host, windows, payloads, writers, acts, faults, view, ops, history>>

(* handleStorage: the directory the window was opened in is loaded, the    *)
(* tab may have moved on since.                                            *)
HearResult ==
  /\ events # <<>> /\ events' = Tail(events)
  /\ \/ /\ Head(events).server = session
        /\ Begin(Job("load", session, Head(events).path, "none")) /\ Overlaps
     \/ Head(events).server # session /\ UNCHANGED <<ops, busy, history>>
  /\ UNCHANGED <<host, windows, payloads, writers, acts, faults, session, snapshot, path, selected, menu, showHidden>>

---------------------------------------------------------------------------
(* The host.                                                               *)

At(o) == host[ops[o].server][ops[o].dir][ops[o].name]
Reply(o, wire) == ops' = [ops EXCEPT ![o].wire = wire]
Put(o, e) ==
  /\ host' = [host EXCEPT ![ops[o].server][ops[o].dir][ops[o].name] = e]
  /\ writers' = writers \cup {<<ops[o].server, ops[o].dir, OfTab>>}
  /\ Reply(o, "ok")

List(o) ==
  /\ Is(o, "list", "sent")
  /\ ops' = [ops EXCEPT ![o].wire = "ok", ![o].entries = host[ops[o].server][ops[o].dir]]
  /\ UNCHANGED <<host, writers, history>>

FirstMode == CHOOSE m \in Modes : TRUE

(* create_remote_directory, and an upload that may overwrite.              *)
Make(o) ==
  /\ Is(o, "run", "sent") /\ ops[o].kind \in {"create", "upload"}
  /\ \/ (At(o) = Nothing \/ ops[o].over) /\ Put(o, New(FirstMode))
     \/ At(o) # Nothing /\ ~ ops[o].over /\ Reply(o, "error") /\ UNCHANGED <<host, writers>>
  /\ UNCHANGED history

(* Nobody but this tab has changed the directory.                          *)
Untouched(o) == ~ \E k \in writers : k[1] = ops[o].server /\ k[2] = ops[o].dir

Delete(o) ==
  /\ Is(o, "run", "sent") /\ ops[o].kind = "delete"
  /\ \/ /\ At(o) # Nothing /\ Put(o, Nothing)
        /\ history' = [history EXCEPT !.wrong =
             @ \/ (At(o).id # ops[o].seen.id /\ ~ ops[o].stray /\ Untouched(o))]
     \/ At(o) = Nothing /\ Reply(o, "error") /\ UNCHANGED <<host, writers, history>>

Read(o) ==
  /\ Is(o, "run", "sent") /\ ops[o].kind = "download"
  /\ Reply(o, IF At(o) = Nothing THEN "error" ELSE "ok") /\ UNCHANGED <<host, writers, history>>

Refuse(o) ==
  /\ ops[o] # Idle /\ ops[o].wire = "sent" /\ faults < MaxFaults
  /\ Reply(o, "error") /\ faults' = faults + 1
  /\ UNCHANGED <<host, writers, history>>

Host(o) ==
  /\ \/ (List(o) \/ Make(o) \/ Delete(o) \/ Read(o)) /\ UNCHANGED faults
     \/ Refuse(o)
  /\ UNCHANGED <<windows, payloads, events, acts, view>>

---------------------------------------------------------------------------
(* In every directory there are files, known by where they are from; the   *)
(* tab of a linked session shows the root, and one of them is selected.    *)
First  == CHOOSE n \in Names \ Hidden : TRUE
Before == [s \in Servers |-> [d \in Dirs |-> [n \in Names |->
             IF n \in Names \ Hidden THEN [id |-> <<s, d, n>>, mode |-> FirstMode] ELSE Nothing]]]

Init ==
  /\ host = Before /\ windows = [w \in Windows |-> Off]
  /\ payloads = {} /\ events = <<>> /\ writers = {} /\ acts = 0 /\ faults = 0
  /\ session \in Linked
  /\ snapshot = [of |-> session, path |-> Root, entries |-> Before[session][Root]]
  /\ path = Root /\ busy = FALSE
  /\ menu = NoMenu /\ showHidden = FALSE /\ selected = First
  /\ ops = [o \in Slots |-> Idle]
  /\ history = [excused |-> FALSE, crossed |-> FALSE, wrong |-> FALSE, strays |-> {}]

User ==
  \/ \E s \in Servers : SwitchTab(s)
  \/ \E d \in Dirs : Load(d)
  \/ \E n \in Names : SelectEntry(n) \/ DragOut(n) \/ OpenMenu(n)
  \/ \E n \in Typed : CreateFolder(n) \/ Upload(n)
  \/ \E w \in Windows : OpenProperties(w)
  \/ Renders \/ LeaveTab \/ ShowHidden \/ DeleteSelected \/ DownloadSelected

Tab(o) == Resolve(o) \/ Ran(o) \/ Fails(o) \/ Listed(o)

(* A window that is closed, fails or is refused leaves the tab uninformed. *)
OfWindow(w) ==
  \/ (Page(w) \/ Backend(w) \/ WindowFails(w) \/ Visitor(w)) /\ UNCHANGED <<view, ops>>
       /\ history' = [history EXCEPT !.excused =
            @ \/ (Saving(w) /\ windows'[w].wire # "ok")
              \/ (windows[w] # Off /\ windows'[w].at \in {"gone", "reload"} /\ windows[w].step # "none")]

Next ==
  \/ User \/ HearResult
  \/ \E o \in Slots : Tab(o) \/ Host(o)
  \/ \E w \in Windows : OfWindow(w)

Spec == Init /\ [][Next]_vars

---------------------------------------------------------------------------
TypeOK ==
  /\ session \in Servers \cup {Away}
  /\ host \in [Servers -> [Dirs -> [Names -> [id : {Nothing.id, New("none").id} \cup (Servers \X Dirs \X Names), mode : Modes \cup {"none"}]]]]
  /\ payloads \subseteq Windows
  /\ snapshot # Null => path = snapshot.path

(* Unless another file tab was left with an operation under way, a file    *)
(* tab lists the host of its own session.                                  *)
ListingIsOfTab ==
  session # Away /\ snapshot # Null /\ ~ history.crossed => snapshot.of = session

(* The file that is deleted is the one that was shown under its name when  *)
(* the user confirmed, unless somebody changed the directory or the tab    *)
(* showed what an operation of the tab before it had found.                *)
DeletedWasChosen == ~ history.wrong

(* When all is quiet the tab shows what is there, changes made by          *)
(* properties windows included, unless operations overlapped or failed.    *)
ChangeIsListed ==
  /\ Busy = {} /\ events = <<>> /\ session # Away /\ snapshot # Null
  /\ \A w \in Windows : windows[w] # Off => windows[w].wire = "none"
  /\ ~ history.excused /\ ~ history.crossed
  => snapshot.entries = host[snapshot.of][snapshot.path]

(* Nobody but the window changed the directory it is about.                *)
Alone(w) ==
  \A k \in writers : k[1] = windows[w].server /\ k[2] = windows[w].dir => k[3] = w

(* A properties window only reports success when something has the name it *)
(* asked for, and, unless the menu it was opened from was left by the tab  *)
(* of another host, that is the entry it showed, with the mode it asked    *)
(* for, whichever of the two commands was refused before.                  *)
DoneIsApplied ==
  \A w \in Windows : windows[w] # Off /\ windows[w].at = "done" /\ Alone(w) =>
    LET now == Dir(w)[windows[w].draft.name] IN
    /\ now # Nothing
    /\ w \notin history.strays => now.id = windows[w].seen.id /\ now.mode = windows[w].draft.mode

(* A properties window in which no command is under way shows an entry     *)
(* that is there, as it was, under its name or the one a rename that was   *)
(* done before its mode was refused has given it.                          *)
ShownIsThere ==
  \A w \in Windows :
    windows[w] # Off /\ windows[w].at = "open" /\ windows[w].wire = "none"
    /\ Alone(w) /\ w \notin history.strays =>
      Dir(w)[IF windows[w].moved = "none" THEN windows[w].name ELSE windows[w].moved] = windows[w].seen

(* The directory only makes a command fail when the new name is taken, or  *)
(* when the window had renamed its entry before and goes by its old name.  *)
ErrorHasCause ==
  \A w \in Windows :
    windows[w] # Off /\ windows[w].error = "error" /\ Alone(w) /\ w \notin history.strays =>
      \/ windows[w].moved # "none"
      \/ LET taken == Dir(w)[windows[w].draft.name] IN
         taken # Nothing /\ taken.id # windows[w].seen.id

(* An entry is left in the local storage only for a window that is coming, *)
(* or that the user closed before its page ran.                            *)
PayloadsAreTaken ==
  \A w \in payloads : windows[w] # Off /\ windows[w].at \in {"asked", "gone"}

(* What a file tab lists is so: of its own host, and what is there.        *)
ListingIsTrue == TypeOK /\ ListingIsOfTab /\ ChangeIsListed

(* What a properties window reports is so, success and failure, and what   *)
(* it was given does not stay behind.                                      *)
ReportsAreTrue == DoneIsApplied /\ ShownIsThere /\ ErrorHasCause /\ PayloadsAreTaken
=============================================================================
