------------------------------ MODULE SftpPanel ------------------------------
(***************************************************************************)
(* The SFTP panel of the sidebar (src/components/sidebar/Sidebar.tsx, its  *)
(* hooks, src/hooks/useSftpConflictResolver.ts and useRemoteFileUploads.ts)*)
(* over the remote hosts of the linked SSH tabs.                           *)
(*                                                                         *)
(* The panel shows one directory of the link of the active tab.  An        *)
(* operation keeps the link, the directory and the entries it was started  *)
(* with, sends one command after the other and then lists the directory    *)
(* again.  Commands run on threads of their own, so that those of several  *)
(* operations are served and answered in any order.  Only the buttons of   *)
(* the toolbar wait for `loading', which all operations share; drops, keys *)
(* and double clicks do not.                                               *)
(***************************************************************************)
EXTENDS Naturals, Sequences, FiniteSets, SequencesExt

CONSTANTS
  Links,      \* linked SFTP sessions, one of each live SSH tab
  Dirs, Root, \* directories of a host
  Names,      \* names in a directory
  Typed,      \* those the user types
  Batches,    \* what is dropped at a time
  Slots,      \* operations under way at a time
  MaxActs, MaxFaults

VARIABLES
  host,       \* what is under each name of each directory of each host
  disk,       \* the same for the download directory
  preferred,  \* preferredSftpSessionId: one of sshSftpLinks, or "null" when the
              \* active tab has none, or "undefined" when there is none at all
  shown,      \* snapshotsBySessionId
  loading,    \* sftpLoading
  picked,     \* selectedSftpEntryPaths, with the link they were clicked in
  form,       \* renamingSftpEntry, with the link it was opened in
  dialog,     \* the operation conflictResolverRef belongs to, or 0
  follow, cwd, failed,   \* followRemoteTerminal, terminalCwd, failedFollowedPath
  ops,        \* the operations under way
  acts, faults,          \* counters
  history     \* what the user allowed, what failed, what was overtaken

remote == <<host, disk>>
panel  == <<preferred, shown, loading, picked, form, dialog, follow, cwd, failed>>
vars   == <<remote, panel, ops, acts, faults, history>>

Nothing == "nothing"
Files   == {"old", "new"}                \* there before, and uploaded
Folders == {"folder", "tree", "half"}    \* new, there before, partly deleted
Here    == "here"                        \* in the place of a link: the disk
NoLink  == "none"
NoPlace == <<"none", "none", "none">>
Unseen  == [path |-> "unseen", entries |-> [n \in Names |-> Nothing]]

ASSUME PanelAssumption ==
  /\ Links # {} /\ {NoLink, "null", "undefined", Here} \cap Links = {}
  /\ Root \in Dirs /\ "unseen" \notin Dirs
  /\ Names # {} /\ IsFiniteSet(Names) /\ Typed \subseteq Names /\ Batches \subseteq Seq(Names)
  /\ 0 \notin Slots /\ MaxActs \in Nat /\ MaxFaults \in Nat

Idle == [kind |-> "idle"]
Busy == {o \in Slots : ops[o] # Idle}
BusyOn(l) == {o \in Busy : ops[o].link = l}

(* selectedSftpSession, after the effects that follow a change of links.   *)
Selected == IF preferred \in Links THEN preferred ELSE NoLink

(* currentSftpPath and the entries shown.                                  *)
Snapshot(l) == IF l = NoLink THEN Unseen ELSE shown[l]
PathOf(l)   == IF Snapshot(l).path = "unseen" THEN Root ELSE shown[l].path
Path        == PathOf(Selected)
Listing     == {n \in Names : Snapshot(Selected).entries[n] # Nothing}

(* The selection is kept by path: in another link it means another file.   *)
Highlighted == {n \in Listing : \E p \in picked : p[2] = Path /\ p[3] = n}

---------------------------------------------------------------------------
(* Operations.                                                             *)

Item(name, to, action) == [name |-> name, to |-> to, action |-> action]

Operation(kind, dir, place, at, todo, plan) ==
  [kind |-> kind, link |-> Selected, dir |-> dir, place |-> place, at |-> at,
   wire |-> IF at = "resolve" THEN "none" ELSE "sent", todo |-> todo,
   plan |-> plan, all |-> "ask", known |-> Listing,
   entries |-> Unseen.entries, alone |-> BusyOn(Selected) = {}]

(* setLoading(true) and the first command.                                 *)
Start(o, op) ==
  /\ Selected # NoLink /\ ops[o] = Idle
  /\ ops' = [q \in Slots |-> IF q = o THEN op
               ELSE IF q \in BusyOn(Selected) THEN [ops[q] EXCEPT !.alone = FALSE] ELSE ops[q]]
  /\ loading' = TRUE

StartAny(op) == \E o \in Slots : Start(o, op)

Finish(o) == ops' = [ops EXCEPT ![o] = Idle] /\ loading' = FALSE

UserActs == acts < MaxActs /\ acts' = acts + 1

Allow(places) == history' = [history EXCEPT !.allowed = @ \cup places]

Quiet == UNCHANGED <<remote, preferred, shown, dialog, follow, cwd, failed, faults>>

Open(d) ==
  /\ UserActs /\ StartAny(Operation("load", d, d, "list", <<>>, <<>>))
  /\ Quiet /\ UNCHANGED <<picked, form, history>>

CreateFolder(n) ==
  /\ ~ loading /\ UserActs
  /\ StartAny(Operation("create", Path, Path, "run", <<>>, <<Item(n, n, "error")>>))
  /\ Quiet /\ UNCHANGED <<picked, form, history>>

Pick(n) == Selected # NoLink /\ n \in Listing /\ UserActs

(* selectSftpEntry: alone, or with what is selected.                       *)
SelectEntry(n) ==
  /\ Pick(n)
  /\ \E kept \in {{}, {p \in picked : p[3] # n}} : picked' = kept \cup {<<Selected, Path, n>>}
  /\ Quiet /\ UNCHANGED <<loading, form, ops, history>>

StartRename(n) ==
  /\ Pick(n)
  /\ form' = <<Selected, Path, n>>
  /\ picked' = IF n \in Highlighted THEN picked ELSE {form'}
  /\ Quiet /\ UNCHANGED <<loading, ops, history>>

(* handleRenameEntry: of the entry the form was opened for, on the host    *)
(* that is selected now.                                                   *)
Rename(n) ==
  /\ form # NoPlace /\ ~ loading /\ UserActs
  /\ n \notin Listing \/ (n = form[3] /\ form[2] = Path)
  /\ StartAny(Operation("rename", Path, form[2], "run", <<>>, <<Item(form[3], n, "error")>>))
  /\ Allow({form})
  /\ Quiet /\ UNCHANGED <<picked, form>>

(* The entries that are selected, in some order.                           *)
Chosen == SetToSeq(Highlighted)
AsItems(seq) == [i \in DOMAIN seq |-> Item(seq[i], seq[i], "error")]

DeleteEntries ==
  /\ Highlighted # {} /\ UserActs
  /\ StartAny(Operation("delete", Path, Path, "run", <<>>, AsItems(Chosen)))
  /\ Allow(picked)
  /\ Quiet /\ UNCHANGED <<picked, form>>

Download ==
  /\ Highlighted # {} /\ UserActs
  /\ StartAny(Operation("download", Path, Path, "inspect", Chosen, <<>>))
  /\ Quiet /\ UNCHANGED <<picked, form, history>>

(* uploadBrowserFiles, uploadLocalPaths.                                   *)
Upload(batch) ==
  /\ UserActs
  /\ StartAny(Operation("upload", Path, Path, "resolve", batch, <<>>))
  /\ Quiet /\ UNCHANGED <<picked, form, history>>

UploadFolder(n) ==
  /\ ~ loading /\ UserActs
  /\ StartAny(Operation("folder", Path, Path, "resolve", <<n>>, <<>>))
  /\ Quiet /\ UNCHANGED <<picked, form, history>>

(* Every rendering of the window builds the links anew, and each of them   *)
(* loads a link that has no snapshot, even while it is being loaded.       *)
AutoLoad ==
  /\ Selected # NoLink /\ shown[Selected].path = "unseen"
  /\ StartAny(Operation("auto", Root, Root, "list", <<>>, <<>>))
  /\ Quiet /\ UNCHANGED <<picked, form, acts, history>>

(* useSftpFollowTerminal: the directory of the terminal is listed, unless  *)
(* that failed before; where it is shown already, the failure is forgotten.*)
Follows == Selected # NoLink /\ follow /\ ~ loading /\ cwd[Selected] # failed

FollowTerminal ==
  /\ Follows /\ cwd[Selected] # Path
  /\ StartAny(Operation("follow", cwd[Selected], cwd[Selected], "list", <<>>, <<>>))
  /\ Quiet /\ UNCHANGED <<picked, form, acts, history>>

CaughtUp ==
  /\ Follows /\ cwd[Selected] = Path
  /\ failed # "none" /\ failed' = "none"
  /\ UNCHANGED <<remote, preferred, shown, loading, picked, form, dialog, follow, cwd, ops, acts, faults, history>>

---------------------------------------------------------------------------
(* Names that are taken: useSftpConflictResolver.                          *)

Targets(plan) == {plan[i].to : i \in DOMAIN plan}

(* nameTaken and, for downloads, what inspect_download_target found.       *)
Taken(o) ==
  IF ops[o].kind = "download" THEN {n \in Names : ops[o].entries[n] # Nothing}
  ELSE ops[o].known \cup Targets(ops[o].plan)

(* The head of todo is settled by `more': what is planned for it.          *)
Settle(op, more, all) ==
  [op EXCEPT !.todo = Tail(@), !.plan = @ \o more, !.all = all,
     !.at = IF op.kind = "download" THEN "inspect" ELSE "resolve",
     !.wire = IF op.kind = "download" THEN "sent" ELSE "none"]

Next1(o, more, all) == ops' = [ops EXCEPT ![o] = Settle(ops[o], more, all)]

(* What an answer means for a name; a new name is always a free one (when  *)
(* those of the model run out, the question is asked again).               *)
Decisions(o, n, choice) ==
  CASE choice = "ask"       -> {}
    [] choice = "skip"      -> {<<>>}
    [] choice = "overwrite" -> {<<Item(n, n, "overwrite")>>}
    [] choice = "rename"    -> {<<Item(n, to, "error")>> : to \in Names \ Taken(o)}

Resolving(o) ==
  /\ ops[o] # Idle /\ ops[o].todo # <<>>
  /\ ops[o].at = "resolve" \/ (ops[o].at = "inspect" /\ ops[o].wire = "ok")

(* A question that was open when another one is asked is never answered.   *)
Ask(o) ==
  /\ dialog' = o
  /\ ops' = [q \in Slots |-> IF q = o THEN [ops[q] EXCEPT !.at = "asked", !.wire = "none"]
               ELSE IF q = dialog THEN [ops[q] EXCEPT !.at = "unheard"] ELSE ops[q]]

Resolve(o) ==
  LET n == Head(ops[o].todo) IN
  /\ Resolving(o)
  /\ \/ n \notin Taken(o) /\ Next1(o, <<Item(n, n, "error")>>, ops[o].all) /\ UNCHANGED dialog
     \/ /\ n \in Taken(o) /\ ops[o].all # "ask"
        /\ \E more \in Decisions(o, n, ops[o].all) : Next1(o, more, ops[o].all)
        /\ UNCHANGED dialog
     \/ /\ n \in Taken(o) /\ (ops[o].all = "ask" \/ Decisions(o, n, ops[o].all) = {})
        /\ Ask(o)
  /\ UNCHANGED <<remote, preferred, shown, loading, picked, form, follow, cwd, failed, acts, faults, history>>

PlaceOf(o, n) == IF ops[o].kind = "download" THEN <<Here, Here, n>> ELSE <<ops[o].link, ops[o].place, n>>

(* Mutant of AnswerDialog: the resolver is forgotten before it is called.  *)
AnswerDialogLost(choice, all) ==
  /\ dialog # 0 /\ dialog' = 0
  /\ UNCHANGED <<remote, preferred, shown, loading, picked, form, follow, cwd, failed, ops, acts, faults, history>>

(* resolveConflict: the answer goes to the question asked last; it may be  *)
(* for all that follow.                                                    *)
AnswerDialog(choice, all) ==
  LET o == dialog
      n == Head(ops[o].todo) IN
  /\ dialog # 0 /\ (all => Len(ops[o].todo) > 1)
  /\ \E more \in Decisions(o, n, choice) : Next1(o, more, IF all THEN choice ELSE ops[o].all)
  /\ history' = IF choice # "overwrite" THEN history
                ELSE [history EXCEPT !.allowed = @ \cup {PlaceOf(o, m) : m \in IF all THEN ToSet(ops[o].todo) ELSE {n}}]
  /\ dialog' = 0
  /\ UNCHANGED <<remote, preferred, shown, loading, picked, form, follow, cwd, failed, acts, faults>>

(* The command of what is planned first, or the listing.                   *)
Sending(op, at, plan) == [op EXCEPT !.at = at, !.wire = "sent", !.plan = plan]
Send(o, at, plan) == ops' = [ops EXCEPT ![o] = Sending(ops[o], at, plan)]

(* Every name is settled: the transfers begin, or nothing is left to do.   *)
Resolved(o) ==
  /\ ops[o] # Idle /\ ops[o].at \in {"resolve", "inspect"} /\ ops[o].todo = <<>>
  /\ IF ops[o].plan = <<>> THEN Finish(o)
     ELSE Send(o, "run", ops[o].plan) /\ UNCHANGED loading
  /\ UNCHANGED <<remote, preferred, shown, picked, form, dialog, follow, cwd, failed, acts, faults, history>>

---------------------------------------------------------------------------
(* Answers.                                                                *)

Answered(o, at, wire) == ops[o] # Idle /\ ops[o].at = at /\ ops[o].wire = wire

(* Mutant of Ran: the directory is not listed again.                       *)
RanOnly(o) ==
  /\ Answered(o, "run", "ok")
  /\ IF Tail(ops[o].plan) # <<>> THEN Send(o, "run", Tail(ops[o].plan)) /\ UNCHANGED loading
     ELSE Finish(o)
  /\ form' = IF ops[o].kind = "rename" THEN NoPlace ELSE form
  /\ history' = [history EXCEPT !.behind = IF ops[o].alone THEN @ \ {ops[o].link} ELSE @]
  /\ UNCHANGED <<remote, preferred, shown, picked, dialog, follow, cwd, failed, acts, faults>>

(* One command of an operation is done: the next, or the listing.          *)
Ran(o) ==
  /\ Answered(o, "run", "ok")
  /\ \/ /\ Tail(ops[o].plan) # <<>>
        /\ Send(o, "run", Tail(ops[o].plan))
        /\ UNCHANGED loading
     \/ Tail(ops[o].plan) = <<>> /\ ops[o].kind = "download" /\ Finish(o)
     \/ /\ Tail(ops[o].plan) = <<>> /\ ops[o].kind # "download"
        /\ Send(o, "list", <<>>)
        /\ UNCHANGED loading
  /\ form' = IF ops[o].kind = "rename" THEN NoPlace ELSE form
  /\ UNCHANGED <<remote, preferred, shown, picked, dialog, follow, cwd, failed, acts, faults, history>>

(* Mutant of Fails: a delete goes on with the next entry.                  *)
FailsOn(o) ==
  /\ Answered(o, "run", "error") \/ Answered(o, "inspect", "error")
  /\ IF ops[o].kind = "delete"
       THEN /\ ops' = [ops EXCEPT ![o].wire = "ok"]
            /\ UNCHANGED <<loading, history>>
       ELSE /\ Finish(o)
            /\ history' = [history EXCEPT !.behind = @ \cup {ops[o].link}]
  /\ UNCHANGED <<remote, preferred, shown, picked, form, dialog, follow, cwd, failed, acts, faults>>

(* A command failed: the rest is left undone and nothing is listed.        *)
Fails(o) ==
  /\ Answered(o, "run", "error") \/ Answered(o, "inspect", "error")
  /\ Finish(o)
  /\ history' = [history EXCEPT !.behind = @ \cup {ops[o].link},
                   !.told = @ \/ ops[o].kind = "delete"]
  /\ UNCHANGED <<remote, preferred, shown, picked, form, dialog, follow, cwd, failed, acts, faults>>

(* loadSftpDirectory, and what loadSelectedSftpDirectory adds.             *)
Listed(o) ==
  LET l == ops[o].link
      ok == ops[o].wire = "ok" IN
  /\ Answered(o, "list", "ok") \/ Answered(o, "list", "error")
  /\ shown' = IF ok THEN [shown EXCEPT ![l] = [path |-> ops[o].dir, entries |-> ops[o].entries]] ELSE shown
  /\ picked' = IF ops[o].kind = "auto" THEN picked ELSE {}
  /\ failed' = IF ops[o].kind # "follow" THEN failed ELSE IF ok THEN "none" ELSE ops[o].dir
  /\ Finish(o)
  /\ history' = [history EXCEPT !.behind =
       IF ok /\ ops[o].alone THEN @ \ {l} ELSE @ \cup {l}]
  /\ UNCHANGED <<remote, preferred, form, dialog, follow, cwd, acts, faults>>

---------------------------------------------------------------------------
(* The host serves a command: upload_remote_file, delete_remote_entry ...  *)

Sent(o, at, wire) == ops[o] # Idle /\ ops[o].at = at /\ ops[o].wire = wire

Reply(o, wire) == ops' = [ops EXCEPT ![o].wire = wire]

Found(o, entries) == ops' = [ops EXCEPT ![o] = [ops[o] EXCEPT !.wire = "ok", !.entries = entries]]

Put(o, n, what) == host' = [host EXCEPT ![ops[o].link][ops[o].place][n] = what]

List(o) ==
  /\ Sent(o, "list", "sent")
  /\ Found(o, host[ops[o].link][ops[o].dir])
  /\ UNCHANGED host

Inspect(o) ==
  /\ Sent(o, "inspect", "sent") /\ ops[o].todo # <<>>
  /\ Found(o, disk)
  /\ UNCHANGED host

Serve(o, kind, wire) == Sent(o, "run", wire) /\ ops[o].kind = kind

Now(o) == Head(ops[o].plan)
At(o, n) == host[ops[o].link][ops[o].place][n]

MakeFolder(o) ==
  /\ Serve(o, "create", "sent")
  /\ IF At(o, Now(o).to) = Nothing THEN Reply(o, "ok") /\ Put(o, Now(o).to, "folder")
     ELSE Reply(o, "error") /\ UNCHANGED host

(* Nothing looks whether the new name is taken: the host refuses that, or  *)
(* replaces what is there.                                                 *)
MoveEntry(o) ==
  LET from == Now(o).name  to == Now(o).to IN
  /\ Serve(o, "rename", "sent")
  /\ \/ from = to /\ Reply(o, "ok") /\ UNCHANGED <<host, history>>
     \/ /\ from # to /\ At(o, from) # Nothing
        /\ Reply(o, "ok")
        /\ host' = [host EXCEPT ![ops[o].link][ops[o].place] =
                      [host[ops[o].link][ops[o].place] EXCEPT ![to] = At(o, from), ![from] = Nothing]]
        /\ Allow(IF At(o, to) = Nothing THEN {} ELSE {<<ops[o].link, ops[o].place, to>>})
     \/ /\ from # to /\ (At(o, from) = Nothing \/ At(o, to) # Nothing)
        /\ Reply(o, "error") /\ UNCHANGED <<host, history>>

(* delete_sftp_directory_recursive stops at the first entry that fails.    *)
Delete(o) ==
  LET n == Now(o).name IN
  /\ Serve(o, "delete", "sent")
  /\ \/ At(o, n) # Nothing /\ Reply(o, "ok") /\ Put(o, n, Nothing)
     \/ At(o, n) = Nothing /\ Reply(o, "error") /\ UNCHANGED host
     \/ At(o, n) \in {"tree", "half"} /\ Reply(o, "error") /\ Put(o, n, "half")

(* Mutant of CheckWrite: the check is left to the window.                  *)
CheckWriteNot(o) == Serve(o, "upload", "sent") /\ Reply(o, "checked") /\ UNCHANGED host

(* ensure_sftp_write_allowed; the file is created only then.               *)
CheckWrite(o) ==
  /\ Serve(o, "upload", "sent")
  /\ Reply(o, IF At(o, Now(o).to) # Nothing /\ Now(o).action = "error" THEN "error" ELSE "checked")
  /\ UNCHANGED host

Write(o) ==
  /\ Serve(o, "upload", "checked")
  /\ IF At(o, Now(o).to) \in Folders THEN Reply(o, "error") /\ UNCHANGED host
     ELSE Reply(o, "ok") /\ Put(o, Now(o).to, "new")

(* handleUploadFolderChange: the files go one by one into a directory that *)
(* exists, and replace others only if the answer for the folder was to     *)
(* overwrite; the first that fails ends it.                                *)
WriteFolder(o) ==
  LET old    == At(o, Now(o).to)
      merged == IF old = Nothing \/ Now(o).action = "overwrite" THEN "folder" ELSE old IN
  /\ Serve(o, "folder", "sent")
  /\ \/ old \in Files /\ Reply(o, "error") /\ UNCHANGED host
     \/ old \notin Files /\ (Reply(o, "ok") \/ Reply(o, "error")) /\ Put(o, Now(o).to, merged)

Receive(o) ==
  /\ Serve(o, "download", "sent")
  /\ IF At(o, Now(o).name) = Nothing \/ (disk[Now(o).to] # Nothing /\ Now(o).action = "error")
       THEN Reply(o, "error") /\ UNCHANGED disk
       ELSE Reply(o, "ok") /\ disk' = [disk EXCEPT ![Now(o).to] = "new"]
  /\ UNCHANGED host

Refuse(o) ==
  /\ faults < MaxFaults
  /\ \E at \in {"list", "inspect", "run"} : Sent(o, at, "sent") /\ ~ (at = "inspect" /\ ops[o].todo = <<>>)
  /\ Reply(o, "error")
  /\ UNCHANGED host

Host(o) ==
  /\ \/ Refuse(o) /\ faults' = faults + 1 /\ UNCHANGED <<disk, history>>
     \/ Receive(o) /\ UNCHANGED <<faults, history>>
     \/ MoveEntry(o) /\ UNCHANGED <<disk, faults>>
     \/ /\ \/ List(o) \/ Inspect(o) \/ MakeFolder(o) \/ Delete(o)
           \/ CheckWrite(o) \/ Write(o) \/ WriteFolder(o)
        /\ UNCHANGED <<disk, faults, history>>
  /\ UNCHANGED <<panel, acts>>

---------------------------------------------------------------------------
(* The window around the panel: the active tab, live tabs, directories of  *)
(* the terminals.                                                          *)

LinksChange ==
  /\ UserActs
  /\ preferred' \in (Links \cup {"null", "undefined"}) \ {preferred}
  /\ loading' = (loading /\ preferred' # "null")
  /\ shown' = IF preferred' = "undefined" THEN [l \in Links |-> Unseen] ELSE shown
  /\ history' = [history EXCEPT !.strayed = @ \/ picked # {} \/ form # NoPlace]
  /\ failed' = IF preferred' \in Links THEN failed ELSE "none"
  /\ UNCHANGED <<remote, picked, form, dialog, follow, cwd, ops, faults>>

(* The check box in the footer; switched off, it forgets the failure.      *)
ToggleFollow ==
  /\ UserActs
  /\ follow' = ~ follow
  /\ failed' = IF follow' THEN failed ELSE "none"
  /\ UNCHANGED <<remote, preferred, shown, loading, picked, form, dialog, cwd, ops, faults, history>>

CwdChanges(l, d) ==
  /\ cwd[l] # d /\ UserActs
  /\ cwd' = [cwd EXCEPT ![l] = d]
  /\ UNCHANGED <<remote, preferred, shown, loading, picked, form, dialog, follow, failed, ops, faults, history>>

(* In the root of every host there is a file, below it a directory.        *)
First  == CHOOSE n \in Names : TRUE
Before == [d \in Dirs |-> [n \in Names |->
             IF n # First THEN Nothing ELSE IF d = Root THEN "old" ELSE "tree"]]

Init ==
  /\ host = [l \in Links |-> Before] /\ disk = Before[Root]
  /\ preferred = CHOOSE l \in Links : TRUE
  /\ \/ shown = [l \in Links |-> Unseen] /\ picked = {} /\ form = NoPlace
     \/ \E d \in Dirs :
          /\ shown = [[l \in Links |-> Unseen] EXCEPT ![preferred] = [path |-> d, entries |-> Before[d]]]
          /\ picked = {<<preferred, d, First>>}
          /\ form = <<preferred, d, First>>
  /\ loading = FALSE /\ dialog = 0
  /\ follow = TRUE /\ cwd = [l \in Links |-> Root] /\ failed = "none"
  /\ ops = [o \in Slots |-> Idle] /\ acts = 0 /\ faults = 0
  /\ history = [allowed |-> {}, behind |-> {}, told |-> FALSE, strayed |-> FALSE]

User ==
  \/ \E d \in Dirs : Open(d)
  \/ \E n \in Names : SelectEntry(n) \/ StartRename(n)
  \/ \E n \in Typed : CreateFolder(n) \/ Rename(n) \/ UploadFolder(n)
  \/ \E batch \in Batches : Upload(batch)
  \/ DeleteEntries \/ Download \/ ToggleFollow \/ LinksChange
  \/ \E l \in Links, d \in Dirs : CwdChanges(l, d)

Answers == \E choice \in {"overwrite", "skip", "rename"}, all \in BOOLEAN : AnswerDialog(choice, all)

Window(o) == Resolve(o) \/ Resolved(o) \/ Ran(o) \/ Fails(o) \/ Listed(o)

Next ==
  \/ User \/ Answers \/ AutoLoad \/ FollowTerminal \/ CaughtUp
  \/ \E o \in Slots : Window(o) \/ Host(o)

(* Commands are answered, continuations and effects run, and the user      *)
(* answers a question that covers the window.                              *)
Fairness ==
  /\ \A o \in Slots : WF_vars(Window(o)) /\ WF_vars(Host(o))
  /\ WF_vars(Answers) /\ WF_vars(FollowTerminal)

Spec == Init /\ [][Next]_vars /\ Fairness

---------------------------------------------------------------------------
TypeOK ==
  /\ host \in [Links -> [Dirs -> [Names -> {Nothing} \cup Files \cup Folders]]]
  /\ disk \in [Names -> {Nothing} \cup Files]
  /\ \A p \in picked \cup ({form} \ {NoPlace}) : p[1] \in Links /\ p[2] \in Dirs /\ p[3] \in Names
  /\ dialog # 0 => ops[dialog] # Idle /\ ops[dialog].at = "asked"

(* What was on a host or on the disk before stays as it is, unless the     *)
(* user chose that very entry to be overwritten, renamed or deleted, the   *)
(* host let a rename replace it, or the user went to another link with a   *)
(* selection or a form that is kept by path.                               *)
OldFilesKept ==
  history.strayed \/
    /\ \A l \in Links, d \in Dirs, n \in Names :
         Before[d][n] # Nothing => host[l][d][n] = Before[d][n] \/ <<l, d, n>> \in history.allowed
    /\ \A n \in Names : Before[Root][n] # Nothing =>
         disk[n] = Before[Root][n] \/ <<Here, Here, n>> \in history.allowed

(* After an operation that had its link for itself and did not fail the    *)
(* panel shows what is there.                                              *)
ShownIsCurrent ==
  \A l \in Links : l \notin history.behind /\ BusyOn(l) = {} /\ shown[l].path # "unseen"
    => shown[l].entries = host[l][shown[l].path]

(* The buttons are locked by an operation, never for nothing.              *)
LoadingIsWarranted == loading => Busy # {}

(* What the panel shows is so: the listing, and that it is busy.           *)
PanelIsTrue == TypeOK /\ ShownIsCurrent /\ LoadingIsWarranted

(* A tree that was deleted in part was reported as an error.               *)
HalfIsTold ==
  (\E l \in Links, d \in Dirs, n \in Names : host[l][d][n] = "half")
    => history.told \/ \E o \in Busy : ops[o].kind = "delete" /\ ops[o].wire = "error"

(* An operation comes to its end, unless its question was replaced by that *)
(* of another one.                                                         *)
OperationEnds == \A o \in Slots : []<>(ops[o] = Idle \/ ops[o].at = "unheard")

(* With the box checked the panel gets to the directory of the terminal,   *)
(* or remembers that it cannot be listed.                                  *)
FollowsTerminal ==
  []<>(~ follow \/ Selected = NoLink \/ cwd[Selected] \in {Path, failed})

(* The panel settles: its operations end and it catches up with the        *)
(* terminal.                                                               *)
PanelSettles == OperationEnds /\ FollowsTerminal
=============================================================================
