------------------------------ MODULE AppShell ------------------------------
(***************************************************************************)
(* The frame of the main window (src/App.tsx, AppSettingsModal.tsx,        *)
(* SessionEditorModal.tsx, MacroEditorModal.tsx, AppLockOverlay.tsx and    *)
(* the preferences of useOpenXTermStore.ts) around the terminal of         *)
(* TerminalScreen: sidebar, settings, dialogs, lock.                       *)
(*                                                                         *)
(* A change of the preferences is computed from those the window has,      *)
(* written whole by a command, and becomes the window's when the answer    *)
(* comes; commands are served and answered in the order they were sent.    *)
(* A change of state is rendered at once and its effects run with it.      *)
(***************************************************************************)
EXTENDS TerminalScreen

CONSTANTS
  Widths,     \* widths of the sidebar
  Options,    \* values of a setting only the settings dialog changes
  Dialogs,    \* dialogs that edit one item: "session" and others
  Items,      \* the saved items a dialog may edit
  MaxEdits,   \* bounds the fields edited in one draft of the settings
  MaxFaults   \* bounds the commands that fail

New == "new"

ASSUME ShellAssumption ==
  /\ Widths # {} /\ Options # {} /\ New \notin Items
  /\ MaxEdits \in Nat /\ MaxFaults \in Nat

VARIABLES
  prefs,      \* preferences of the store
  saved,      \* preferences of the state file
  saves,      \* save_preferences commands: sent, or served and not answered
  lastAuto,   \* lastAutoSftpSessionIdRef
  drag,       \* the resizing of the sidebar: sidebarWidthDraft and its ref
  settings,   \* AppSettingsModal
  lock,       \* the lock; `asks` are the locks system authentication asks for
  dialogs,    \* the dialogs, each with the number of what is open in it
  posts,      \* items of dialogs being saved
  faults,     \* counter
  wanted,     \* history: the preferences asked for, field by field
  crossed,    \* history: a save was sent while another was under way
  failed,     \* history: a save of the preferences failed
  kept,       \* history: contents of dialogs that were saved
  let         \* history: contents the user let go

PrefType == [side : {"sessions", "sftp"}, width : Widths, option : Options]

prefVars  == <<prefs, saved, saves, lastAuto, drag, settings, wanted, crossed, failed>>
boxVars   == <<dialogs, posts, kept, let>>
shellVars == <<prefVars, lock, boxVars, faults>>
stage     == <<store, request, term, pastes, restarts, cleared, pasted>>
vars      == <<screenVars, shellVars>>

(* Dialogs and the lock cover the window, the menu stays within reach.      *)
Uncovered ==
  ~settings.open /\ ~lock.locked /\ \A k \in Dialogs : ~dialogs[k].open

Fault == faults < MaxFaults /\ faults' = faults + 1

---------------------------------------------------------------------------
(* Links: the sessions of running SSH terminals, for the file panel.       *)

Live(open, stop) == {t \in open : ~stop[t]}

(* The link of the active terminal, nothing if it cannot be used, and      *)
(* elsewhere the first link there is.                                      *)
Preferred(t, tabs, stop) ==
  LET live == SelectSeq(tabs, LAMBDA u : ~stop[u]) IN
  IF t \in Tabs THEN IF stop[t] THEN "null" ELSE t
  ELSE IF live = <<>> THEN "undefined" ELSE Head(live)

(* Saves not answered yet, in order.                                       *)
Save(p, by) == [prefs |-> p, by |-> by, answer |-> "none"]

Side(p, s) == [p EXCEPT !.side = s]

(* Mutant of Empties: the panel leaves only when the last link goes.       *)
EmptiesOnce(before, live, p) == p.side = "sftp" /\ before # {} /\ live = {}

(* The file panel is left when it has no link.                             *)
Empties(before, live, p) ==
  /\ p.side = "sftp" /\ live = {}
  /\ before # {} \/ prefs.side # "sftp"

(* The two effects that move the sidebar by themselves, after a step that  *)
(* left the saves q and the preferences p.                                 *)
SideEffects(q, p) ==
  LET live  == Live(ToSet(row'), stopped')
      now   == Preferred(shown', row', stopped')
      news  == now # Preferred(shown, row, stopped)
      auto  == news /\ now \in Tabs /\ now # lastAuto
      goal  == IF Empties(Live(Open, stopped), live, p) THEN "sessions"
               ELSE IF auto THEN "sftp" ELSE "none"
  IN /\ lastAuto' = IF news /\ now = "null" THEN "none"
                    ELSE IF auto THEN now ELSE lastAuto
     /\ saves' = IF goal = "none" THEN q ELSE Append(q, Save(Side(p, goal), "side"))
     /\ wanted' = IF goal = "none" THEN wanted ELSE Side(wanted, goal)
     /\ crossed' = (crossed \/ (goal # "none" /\ q # <<>>))

Ask(p, by, w) ==
  /\ saves' = Append(saves, Save(p, by))
  /\ wanted' = w
  /\ crossed' = (crossed \/ saves # <<>>)

(* The rail, the menu and the buttons of the welcome pane.                 *)
SetSidebar(s) ==
  /\ Acts
  /\ Ask(Side(prefs, s), "side", Side(wanted, s))
  /\ UNCHANGED <<prefs, saved, lastAuto, drag, settings, failed>>

---------------------------------------------------------------------------
(* The width of the sidebar.                                               *)

ShownWidth(d, p) == IF d.draft # "none" THEN d.draft ELSE p.width

(* Each change of the width shown sets the ref the next drag starts from.  *)
Follow(d, p) ==
  IF ShownWidth(d, p) = ShownWidth(drag, prefs) THEN d
  ELSE [d EXCEPT !.ref = ShownWidth(d, p)]

DragStart ==
  /\ ~drag.on /\ Uncovered /\ Acts /\ drag' = [drag EXCEPT !.on = TRUE]
  /\ UNCHANGED <<prefs, saved, saves, lastAuto, settings, wanted, crossed, failed>>

DragMove(w) ==
  /\ drag.on /\ w # drag.ref
  /\ drag' = [drag EXCEPT !.draft = w, !.ref = w]
  /\ UNCHANGED <<prefs, saved, saves, lastAuto, settings, wanted, crossed, failed, acts>>

DragEnd ==
  /\ drag.on /\ drag' = [drag EXCEPT !.on = FALSE]
  /\ Ask([prefs EXCEPT !.width = drag.ref], "width", [wanted EXCEPT !.width = drag.ref])
  /\ UNCHANGED <<prefs, saved, lastAuto, settings, failed, acts>>

---------------------------------------------------------------------------
(* The settings dialog.                                                    *)

OpenSettings(tab) ==
  /\ Acts
  /\ settings' = IF settings.open /\ settings.tab = tab THEN settings
                 ELSE [open |-> TRUE, tab |-> tab, draft |-> prefs, touched |-> {}, saving |-> FALSE]
  /\ UNCHANGED <<prefs, saved, saves, lastAuto, drag, wanted, crossed, failed>>

(* Any of the fields; `touched` remembers which.                           *)
EditDraft(p) ==
  /\ settings.open /\ Cardinality(settings.touched) < MaxEdits
  /\ \E f \in DOMAIN p :
       /\ p[f] # settings.draft[f]
       /\ settings' = [settings EXCEPT !.draft[f] = p[f], !.touched = @ \cup {f}]
  /\ UNCHANGED <<prefs, saved, saves, lastAuto, drag, wanted, crossed, failed, acts>>

SubmitSettings ==
  /\ settings.open /\ ~settings.saving /\ Acts
  /\ settings' = [settings EXCEPT !.saving = TRUE]
  /\ Ask(settings.draft, "settings",
         [f \in DOMAIN wanted |->
            IF f \in settings.touched THEN settings.draft[f] ELSE wanted[f]])
  /\ UNCHANGED <<prefs, saved, lastAuto, drag, failed>>

CloseSettings ==
  /\ settings.open /\ ~settings.saving
  /\ settings' = [settings EXCEPT !.open = FALSE]
  /\ UNCHANGED <<prefs, saved, saves, lastAuto, drag, wanted, crossed, failed, acts>>

(* Mutant of Redrafted: the draft stays what it was when the dialog opened.*)
RedraftedNot(p) == settings

(* Preferences that change while the dialog is open replace its draft.     *)
Redrafted(p) ==
  IF settings.open /\ p # prefs
  THEN [settings EXCEPT !.draft = p, !.touched = {}, !.saving = FALSE]
  ELSE settings

---------------------------------------------------------------------------
(* save_preferences, and what its caller does after it.                    *)

Pending == {i \in 1 .. Len(saves) : saves[i].answer = "none"}

Serve(ok) ==
  /\ Pending # {}
  /\ LET i == CHOOSE j \in Pending : \A k \in Pending : j <= k IN
     /\ saves' = [saves EXCEPT ![i].answer = IF ok THEN "ok" ELSE "error"]
     /\ saved' = IF ok THEN saves[i].prefs ELSE saved
     /\ IF ok THEN UNCHANGED <<faults, failed>> ELSE Fault /\ failed' = TRUE
  /\ UNCHANGED <<screenVars, prefs, lastAuto, drag, settings, lock, boxVars, wanted, crossed>>

(* The settings close and the draft of a width goes; after a failure only  *)
(* the settings dialog learns of it.                                       *)
Answer ==
  /\ saves # <<>> /\ Head(saves).answer # "none"
  /\ LET s  == Head(saves)
         ok == s.answer = "ok"
         p  == IF ok THEN s.prefs ELSE prefs
         d  == IF ok /\ s.by = "width" THEN [drag EXCEPT !.draft = "none"] ELSE drag
     IN /\ prefs' = p
        /\ drag' = Follow(d, p)
        /\ settings' = IF s.by # "settings" THEN Redrafted(p)
                       ELSE [Redrafted(p) EXCEPT !.saving = FALSE,
                                                 !.open = IF ok THEN FALSE ELSE @]
        /\ UNCHANGED screenVars
        /\ SideEffects(Tail(saves), p)
  /\ UNCHANGED <<saved, lock, boxVars, failed, faults>>

---------------------------------------------------------------------------
(* The lock of the window.                                                 *)

LockSupport(available) ==
  /\ lock.support = "unknown"
  /\ lock' = [lock EXCEPT !.support = IF available THEN "yes" ELSE "no"]
  /\ UNCHANGED acts

LockApp ==
  /\ lock.support = "yes" /\ ~lock.locked /\ Acts
  /\ lock' = [lock EXCEPT !.locked = TRUE, !.busy = FALSE, !.no = @ + 1]

(* The button of the settings closes them first, even while they are saved.*)
LockFromSettings ==
  /\ settings.open /\ LockApp
  /\ settings' = [settings EXCEPT !.open = FALSE]
  /\ UNCHANGED <<prefs, saved, saves, lastAuto, drag, wanted, crossed, failed>>

UnlockApp ==
  /\ lock.locked /\ lock.support = "yes" /\ ~lock.busy /\ Acts
  /\ lock' = [lock EXCEPT !.busy = TRUE, !.asks = @ \cup {lock.no}]

(* The system answers that the user is known, is not, or the call fails.   *)
UnlockAnswer(n, known) ==
  /\ n \in lock.asks
  /\ lock' = [lock EXCEPT !.asks = @ \ {n}, !.busy = FALSE,
                          !.locked = @ /\ ~known, !.by = IF known THEN n ELSE @]
  /\ UNCHANGED acts

---------------------------------------------------------------------------
(* The dialogs: closed, or open for an item or a new one.                  *)

Shut(d) == [d EXCEPT !.open = FALSE, !.error = FALSE]

Ids(k) == IF dialogs[k].open THEN {<<k, dialogs[k].no>>} ELSE {}

(* From the sidebar, which an open dialog covers, and for a new item also  *)
(* from the menu, which may replace what is open; a new key mounts a new   *)
(* dialog.                                                                 *)
OpenDialog(k, i) ==
  /\ i = New \/ Uncovered
  /\ Acts
  /\ IF dialogs[k].open /\ dialogs[k].item = i THEN UNCHANGED <<dialogs, let>>
     ELSE /\ dialogs' = [dialogs EXCEPT ![k] =
                           [open |-> TRUE, item |-> i, no |-> @.no + 1, error |-> FALSE]]
          /\ let' = let \cup Ids(k)
  /\ UNCHANGED <<posts, kept>>

(* Cancel, Close or a click beside the dialog.                             *)
CloseDialog(k) ==
  /\ dialogs[k].open
  /\ dialogs' = [dialogs EXCEPT ![k] = Shut(@)]
  /\ let' = let \cup Ids(k)
  /\ UNCHANGED <<posts, kept, acts>>

(* Mutant of SubmitDialog: the dialog closes before the item is saved.     *)
SubmitDialogShut(k) ==
  /\ dialogs[k].open /\ Acts
  /\ posts' = posts \cup Ids(k)
  /\ dialogs' = [dialogs EXCEPT ![k] = Shut(@)]
  /\ UNCHANGED <<kept, let>>

(* Nothing but the answer ends a submitted dialog; the session editor      *)
(* forgets the error it showed.                                            *)
SubmitDialog(k) ==
  /\ dialogs[k].open /\ Acts
  /\ posts' = posts \cup Ids(k)
  /\ dialogs' = [dialogs EXCEPT ![k].error = FALSE]
  /\ UNCHANGED <<kept, let>>

(* The item is saved: whatever the dialog holds by now is closed, which    *)
(* `let` remembers when it is another one.                                 *)
DialogSaved(k, n) ==
  /\ <<k, n>> \in posts /\ posts' = posts \ {<<k, n>>}
  /\ kept' = kept \cup {<<k, n>>}
  /\ dialogs' = [dialogs EXCEPT ![k] = Shut(@)]
  /\ let' = let \cup (Ids(k) \ {<<k, n>>})
  /\ UNCHANGED acts

(* The session editor that sent it shows the error; a macro's dialog       *)
(* stays as it is.                                                         *)
DialogFailed(k, n) ==
  /\ <<k, n>> \in posts /\ posts' = posts \ {<<k, n>>}
  /\ dialogs' = [dialogs EXCEPT ![k].error =
                   @ \/ (k = "session" /\ dialogs[k].open /\ dialogs[k].no = n)]
  /\ UNCHANGED <<kept, let, acts>>

---------------------------------------------------------------------------
Widest == CHOOSE w \in Widths : TRUE

Init ==
  /\ ScreenInit
  /\ prefs = [side |-> "sessions", width |-> Widest, option |-> CHOOSE o \in Options : TRUE]
  /\ saved = prefs /\ wanted = prefs
  /\ saves = <<>> /\ lastAuto = shown
  /\ drag = [on |-> FALSE, draft |-> "none", ref |-> Widest]
  /\ settings = [open |-> FALSE, tab |-> "interface", draft |-> prefs, touched |-> {},
                 saving |-> FALSE]
  /\ lock = [support |-> "unknown", locked |-> FALSE, busy |-> FALSE, no |-> 0,
             asks |-> {}, by |-> 0]
  /\ dialogs = [k \in Dialogs |-> [open |-> FALSE, item |-> New, no |-> 0, error |-> FALSE]]
  /\ posts = {} /\ faults = 0 /\ crossed = FALSE /\ failed = FALSE
  /\ kept = {} /\ let = {}

(* What the menu and the terminal share with the rest: the active tab and  *)
(* whether each tab has stopped.                                           *)
ScreenStep ==
  /\ ScreenNext
  /\ SideEffects(saves, prefs)
  /\ UNCHANGED <<prefs, saved, drag, settings, failed, lock, boxVars, faults>>

PrefStep ==
  /\ \/ \E s \in {"sessions", "sftp"} : SetSidebar(s)
     \/ DragStart \/ DragEnd \/ \E w \in Widths : DragMove(w)
     \/ \E tab \in {"interface", "about"} : OpenSettings(tab)
     \/ \E p \in PrefType : EditDraft(p)
     \/ SubmitSettings \/ CloseSettings
  /\ UNCHANGED <<stage, lock, boxVars, faults>>

LockStep ==
  /\ \/ \E available \in BOOLEAN : LockSupport(available)
     \/ LockApp \/ UnlockApp
     \/ \E n \in lock.asks, known \in BOOLEAN : UnlockAnswer(n, known)
  /\ UNCHANGED <<stage, prefVars, boxVars, faults>>

BoxStep ==
  /\ \E k \in Dialogs :
       \/ \E i \in Items \cup {New} : OpenDialog(k, i)
       \/ CloseDialog(k) \/ SubmitDialog(k)
       \/ \E n \in 1 .. dialogs[k].no : DialogSaved(k, n)
  /\ UNCHANGED <<stage, prefVars, lock, faults>>

BoxFault ==
  /\ \E k \in Dialogs : \E n \in 1 .. dialogs[k].no : DialogFailed(k, n)
  /\ Fault
  /\ UNCHANGED <<stage, prefVars, lock>>

Next ==
  \/ LockFromSettings /\ UNCHANGED <<stage, boxVars, faults>>
  \/ ScreenStep \/ PrefStep \/ LockStep \/ BoxStep \/ BoxFault
  \/ \E ok \in BOOLEAN : Serve(ok)
  \/ Answer

(* A command that was sent is served and answered.                         *)
Fairness == WF_vars(Serve(TRUE)) /\ WF_vars(Answer)

Spec == Init /\ [][Next]_vars /\ Fairness
---------------------------------------------------------------------------
TypeOK ==
  /\ prefs \in PrefType /\ saved \in PrefType
  /\ saves \in Seq([prefs : PrefType, by : {"side", "width", "settings"},
                    answer : {"none", "ok", "error"}])
  /\ drag.draft \in Widths \cup {"none"} /\ drag.ref \in Widths
  /\ lastAuto \in Tabs \cup {"none"} /\ shown \in Open \cup {Home}
  /\ term.tab = Home \/ term.written = Len(term.seen[1])
  /\ lock.asks \subseteq 1 .. lock.no /\ posts \subseteq Dialogs \X Nat

(* When no save is under way the window shows the preferences of the state *)
(* file, the width of the sidebar with them unless a save has failed.      *)
SavedIsShown ==
  saves = <<>> =>
    /\ prefs = saved
    /\ ~drag.on /\ ~failed => ShownWidth(drag, prefs) = saved.width

(* Every writer of the preferences writes them whole, yet none undoes what *)
(* another has changed, as long as no two saves overlap and none fails.    *)
EditsSurvive == saves = <<>> /\ ~crossed /\ ~failed => prefs = wanted

(* The sidebar does not stay with the files of sessions that have ended,   *)
(* however its automatic moves and the answers cross, unless a save failed.*)
SidebarSettles ==
  []<>(prefs.side = "sftp" => Live(Open, stopped) # {} \/ failed)

(* A lock ends only by an authentication asked for during that lock, and   *)
(* the button that asks for one is off exactly while one is under way.     *)
UnlockIsOwn ==
  /\ lock.no > 0 /\ ~lock.locked => lock.by = lock.no
  /\ lock.locked => lock.busy = (lock.no \in lock.asks)

(* What was typed into a dialog is in the open dialog or was saved, unless *)
(* the user let it go, opened another one over it or closed and opened the *)
(* dialog again before an earlier save was answered.                       *)
DraftIsSavedOrKept ==
  \A k \in Dialogs : \A n \in 1 .. dialogs[k].no :
    <<k, n>> \in kept \cup let \cup Ids(k)

(* The preferences shown are those saved and those asked for.              *)
PreferencesAreTrue == TypeOK /\ SavedIsShown /\ EditsSurvive

(* An answer that comes late, of an unlock or of a save, undoes nothing    *)
(* that was done since.                                                    *)
LateAnswersAreHarmless == UnlockIsOwn /\ DraftIsSavedOrKept
=============================================================================
